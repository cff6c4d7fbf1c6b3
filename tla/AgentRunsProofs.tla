-------------------------- MODULE AgentRunsProofs ---------------------------
(***************************************************************************)
(* Proofs about AgentRuns, for any number of messages, processes and       *)
(* calls, in both kinds of deployment.  The invariant says that a run has  *)
(* one owner, the execution that claimed it or whose calls go on, and that *)
(* only the owner's task for a call and its entry in the ledger have to    *)
(* agree.                                                                  *)
(***************************************************************************)
EXTENDS AgentRuns, TLAPS

Owns(e) == pc[e] # "idle" \/ \E n \in Calls : task[e][n] \notin {"none", "ended"}

OwnerOK ==
    /\ \A e \in Executors : Owns(e) => work[e] \in Runs /\ run[work[e]] \notin {"none", "queued"}
    /\ \A d, e \in Executors : Owns(d) /\ Owns(e) /\ work[d] = work[e] => d = e

TaskOK ==
    \A e \in Executors, n \in Calls :
        task[e][n] \in {"claimed", "working"} \union Outcomes =>
            /\ ledger[work[e]][n] = "attempted"
            /\ task[e][n] = "claimed" => sent[work[e]][n] = 0
            /\ task[e][n] \in {"working", "succeeded", "failed"} => sent[work[e]][n] = 1

StoreOK == turn = run /\ OneRunAtATime

Kept == TypeOK /\ StoreOK /\ OwnerOK /\ CallsAreOnRecord /\ TaskOK

LEMMA InitKept == Init => Kept
<1> SUFFICES ASSUME Init PROVE Kept
  OBVIOUS
<1>1. TypeOK
  BY AgentAssumption
  DEF Init, TypeOK, Statuses, Entries, Phases, TaskPhases, NoTasks
<1>2. StoreOK
  BY DEF Init, StoreOK, OneRunAtATime, Active
<1>3. OwnerOK /\ TaskOK
  BY DEF Init, OwnerOK, Owns, TaskOK, NoTasks, Outcomes
<1>4. CallsAreOnRecord
  BY DEF Init, CallsAreOnRecord
<1> QED
  BY <1>1, <1>2, <1>3, <1>4 DEF Kept

-----------------------------------------------------------------------------
(* Steps that only change the store.                                       *)

(* A run that is not active changes nobody's ownership; one that moves on  *)
(* from queued or running does not go back.                                *)
LEMMA StoreKept ==
  ASSUME Kept, NEW r \in Runs, NEW s \in Statuses,
         Settle(r, s),
         s \in {"queued", "running"} => \A q \in Runs \ {r} : run[q] \notin Active,
         s \in {"none", "queued"} => run[r] = "none",
         UNCHANGED <<calls, work, task>>,
         TypeOK',
         \A e \in Executors : pc[e] = "idle" => pc'[e] = "idle"
  PROVE  Kept'
<1> USE DEF Kept, Settle, calls
<1>1. StoreOK'
  BY DEF StoreOK, OneRunAtATime, Active, TypeOK
<1>2. \A e \in Executors : Owns(e)' => Owns(e)
  BY DEF Owns
<1>3. OwnerOK'
  <2>1. \A e \in Executors : Owns(e)' => work[e] \in Runs /\ run'[work[e]] \notin {"none", "queued"}
    BY <1>2 DEF OwnerOK, TypeOK
  <2> QED
    BY <2>1, <1>2 DEF OwnerOK
<1>4. CallsAreOnRecord' /\ TaskOK'
  BY DEF CallsAreOnRecord, TaskOK
<1> QED
  BY <1>1, <1>3, <1>4

LEMMA AppendKept ==
  ASSUME Kept, NEW r \in Runs, AppendMessage(r)
  PROVE  Kept'
<1>1. PICK s \in {"queued", "failed"} : Settle(r, s)
  BY DEF AppendMessage, Settle
<1>2. \A q \in Runs : run[q] \notin Active
  BY DEF AppendMessage, Vacant, Kept, StoreOK
<1>3. s \in Statuses /\ run[r] = "none" /\ UNCHANGED <<calls, up, execution, task, lost, crashes>>
  BY DEF AppendMessage, Statuses, Active, Terminal
<1>4. TypeOK'
  BY <1>1, <1>3 DEF Kept, TypeOK, Settle, calls, execution
<1> QED
  BY <1>1, <1>2, <1>3, <1>4, StoreKept DEF execution

LEMMA CancelKept ==
  ASSUME Kept, NEW r \in Runs, CancelTurn(r)
  PROVE  Kept'
<1>1. "cancelled" \in Statuses
  BY DEF Statuses, Terminal
<1>2. TypeOK'
  BY <1>1 DEF Kept, TypeOK, CancelTurn, Settle, calls, execution
<1> QED
  BY <1>1, <1>2, StoreKept DEF CancelTurn, execution

LEMMA ReconcileKept ==
  ASSUME Kept, NEW p \in Processes, NEW r \in Runs, ReconcileRun(p, r)
  PROVE  Kept'
<1>1. "failed" \in Statuses
  BY DEF Statuses, Terminal
<1>2. TypeOK'
  BY <1>1 DEF Kept, TypeOK, ReconcileRun, Settle, calls, execution
<1> QED
  BY <1>1, <1>2, StoreKept DEF ReconcileRun, execution

LEMMA FinishKept ==
  ASSUME Kept, NEW e \in Executors, FinishRun(e)
  PROVE  Kept'
<1> USE DEF FinishRun
<1>1. work[e] \in Runs
  BY DEF Kept, OwnerOK, Owns
<1>2. /\ \A d \in Executors : pc[d] = "idle" => pc'[d] = "idle"
      /\ UNCHANGED <<calls, up, work, flag, task, lost, crashes>>
  BY DEF Kept, TypeOK
<1>3. ASSUME NEW s \in {"succeeded", "failed"}, Settle(work[e], s) PROVE Kept'
  <2>1. s \in Statuses
    BY DEF Statuses, Terminal
  <2>2. TypeOK'
    BY <1>1, <1>3, <2>1 DEF Kept, TypeOK, Settle, calls, Phases
  <2> QED
    BY <1>1, <1>2, <1>3, <2>1, <2>2, StoreKept
<1>4. CASE UNCHANGED store
  <2>1. TypeOK'
    BY <1>4 DEF Kept, TypeOK, store, calls, Phases
  <2>2. \A d \in Executors : Owns(d)' => Owns(d)
    BY <1>2 DEF Owns
  <2> QED
    BY <1>2, <1>4, <2>1, <2>2
    DEF Kept, StoreOK, OneRunAtATime, OwnerOK, CallsAreOnRecord, TaskOK, store, calls
<1> QED
  BY <1>3, <1>4

-----------------------------------------------------------------------------
(* Steps of executions and processes that leave store and calls alone.     *)

LEMMA QuietKept ==
  ASSUME Kept, TypeOK',
         UNCHANGED <<store, calls, work>>,
         \A e \in Executors : pc[e] = "idle" => pc'[e] = "idle",
         \A e \in Executors, n \in Calls : task'[e][n] \in {task[e][n], "none", "ended"}
  PROVE  Kept'
<1> USE DEF Kept, store, calls
<1>1. \A e \in Executors : Owns(e)' => Owns(e)
  BY DEF Owns
<1>2. StoreOK' /\ OwnerOK' /\ CallsAreOnRecord'
  BY <1>1 DEF StoreOK, OneRunAtATime, OwnerOK, CallsAreOnRecord
<1>3. TaskOK'
  BY DEF TaskOK, Outcomes
<1> QED
  BY <1>2, <1>3

LEMMA ExecuteKept ==
  ASSUME Kept, NEW e \in Executors, Execute(e)
  PROVE  Kept'
<1> USE DEF Kept, TypeOK
<1>1. CASE FinishRun(e)
  BY <1>1, FinishKept
<1>2. CASE VerifyRun(e)
  <2>1. TypeOK'
    BY <1>2 DEF VerifyRun, store, calls, Phases
  <2> QED
    BY <1>2, <2>1, QuietKept DEF VerifyRun
<1>3. CASE RaiseFlag(e)
  <2>1. TypeOK'
    BY <1>3 DEF RaiseFlag, store, calls
  <2> QED
    BY <1>3, <2>1, QuietKept DEF RaiseFlag
<1>4. CASE EndTurn(e)
  <2>1. TypeOK'
    BY <1>4 DEF EndTurn, store, calls, Phases
  <2> QED
    BY <1>4, <2>1, QuietKept DEF EndTurn
<1>5. CASE LoseVerdict(e)
  <2>1. TypeOK'
    BY <1>5 DEF LoseVerdict, store, calls, Phases, OwnerOK, Owns
  <2> QED
    BY <1>5, <2>1, QuietKept DEF LoseVerdict
<1> QED
  BY <1>1, <1>2, <1>3, <1>4, <1>5 DEF Execute

LEMMA ProcessKept ==
  ASSUME Kept, NEW p \in Processes, Crash(p) \/ StartProcess(p) \/ Ready(p)
  PROVE  Kept'
<1> USE DEF Kept, TypeOK
<1>1. CASE Crash(p)
  <2>1. TypeOK'
    BY <1>1, AgentAssumption DEF Crash, store, calls, Phases, TaskPhases, NoTasks
  <2>2. \A e \in Executors : pc[e] = "idle" => pc'[e] = "idle"
    BY <1>1 DEF Crash
  <2>3. \A e \in Executors, n \in Calls : task'[e][n] \in {task[e][n], "none", "ended"}
    BY <1>1 DEF Crash, NoTasks
  <2> QED
    BY <1>1, <2>1, <2>2, <2>3, QuietKept DEF Crash
<1>2. CASE StartProcess(p) \/ Ready(p)
  <2>1. TypeOK'
    BY <1>2 DEF StartProcess, Ready, store, calls, execution
  <2> QED
    BY <1>2, <2>1, QuietKept DEF StartProcess, Ready, execution
<1> QED
  BY <1>1, <1>2

-----------------------------------------------------------------------------
(* The claim: the new owner, if it hears of it, is the only one.           *)

(* Queued runs have no owner, so a run that starts is not owned before.    *)
LEMMA StartsKept ==
  ASSUME Kept, NEW r \in Runs, Starts(r)
  PROVE  /\ run' \in [Runs -> Statuses] /\ turn' \in [Runs -> Statuses]
         /\ StoreOK' /\ run'[r] = "running"
         /\ \A d \in Executors : Owns(d) =>
                work[d] \in Runs \ {r} /\ run'[work[d]] \notin {"none", "queued"}
<1> USE DEF Kept, Starts, Claimable
<1>1. /\ run' \in [Runs -> Statuses] /\ turn' \in [Runs -> Statuses]
      /\ run'[r] = "running"
  BY DEF TypeOK, Statuses, Active
<1>2. StoreOK'
  <2>1. turn' = run'
    BY DEF StoreOK, TypeOK
  <2> QED
    BY <2>1 DEF StoreOK, OneRunAtATime, Active, TypeOK
<1>3. \A d \in Executors : Owns(d) =>
          work[d] \in Runs \ {r} /\ run'[work[d]] \notin {"none", "queued"}
  BY DEF OwnerOK, TypeOK
<1> QED
  BY <1>1, <1>2, <1>3

LEMMA BeginKept ==
  ASSUME Kept, NEW e \in Executors, NEW r \in Runs, BeginRun(e, r)
  PROVE  Kept'
<1> USE DEF Kept, BeginRun
<1>1. /\ run' \in [Runs -> Statuses] /\ turn' \in [Runs -> Statuses]
      /\ StoreOK' /\ run'[r] = "running"
      /\ \A d \in Executors : Owns(d) =>
             work[d] \in Runs \ {r} /\ run'[work[d]] \notin {"none", "queued"}
  BY StartsKept
<1>2. TypeOK'
  BY <1>1 DEF TypeOK, Phases, TaskPhases, NoTasks, calls
<1>3. \A d \in Executors \ {e} :
          (Owns(d)' <=> Owns(d)) /\ work'[d] = work[d] /\ task'[d] = task[d]
  BY DEF Owns, TypeOK
<1>4. work'[e] = r /\ \A n \in Calls : task'[e][n] = "none"
  BY DEF TypeOK, NoTasks
<1>5. OwnerOK'
  <2>1. ASSUME NEW d \in Executors, Owns(d)'
        PROVE  work'[d] \in Runs /\ run'[work'[d]] \notin {"none", "queued"}
    BY <1>1, <1>3, <1>4, <2>1
  <2>2. ASSUME NEW d \in Executors, NEW f \in Executors, Owns(d)', Owns(f)', work'[d] = work'[f]
        PROVE  d = f
    BY <1>1, <1>3, <1>4, <2>2 DEF OwnerOK
  <2> QED
    BY <2>1, <2>2 DEF OwnerOK
<1>6. CallsAreOnRecord'
  BY DEF CallsAreOnRecord, calls
<1>7. TaskOK'
  BY <1>3, <1>4 DEF TaskOK, calls, Outcomes
<1> QED
  BY <1>1, <1>2, <1>5, <1>6, <1>7

(* A claim nobody hears of leaves the run without an owner.                *)
LEMMA LoseClaimKept ==
  ASSUME Kept, NEW r \in Runs, LoseClaim(r)
  PROVE  Kept'
<1> USE DEF Kept, LoseClaim, calls, execution
<1>1. /\ run' \in [Runs -> Statuses] /\ turn' \in [Runs -> Statuses]
      /\ StoreOK'
      /\ \A d \in Executors : Owns(d) =>
             work[d] \in Runs \ {r} /\ run'[work[d]] \notin {"none", "queued"}
  BY StartsKept
<1>2. TypeOK'
  BY <1>1 DEF TypeOK
<1>3. \A d \in Executors : Owns(d)' <=> Owns(d)
  BY DEF Owns
<1>4. OwnerOK'
  BY <1>1, <1>3 DEF OwnerOK
<1>5. CallsAreOnRecord' /\ TaskOK'
  BY DEF CallsAreOnRecord, TaskOK
<1> QED
  BY <1>1, <1>2, <1>4, <1>5

-----------------------------------------------------------------------------
(* A step of the task of call n leaves ownership alone, so it only has to  *)
(* be right about this call.                                               *)

LEMMA CallStepKept ==
  ASSUME Kept, TypeOK', NEW e \in Executors, NEW n \in Calls,
         NEW t \in TaskPhases, NEW l \in Entries, NEW s \in Nat,
         Owns(e),
         UNCHANGED <<store, work, pc>>,
         task' = [task EXCEPT ![e][n] = t],
         ledger' = [ledger EXCEPT ![work[e]][n] = l],
         sent' = [sent EXCEPT ![work[e]][n] = s],
         s <= 1,
         l \in {"none", "intent"} => s = 0,
         l \in {"succeeded", "failed"} => s = 1,
         t \in {"claimed", "working"} \union Outcomes =>
             /\ l = "attempted"
             /\ t = "claimed" => s = 0
             /\ t \in {"working", "succeeded", "failed"} => s = 1
  PROVE  Kept'
<1> USE DEF Kept, store
<1>1. work[e] \in Runs
  BY DEF OwnerOK
<1>2. \A d \in Executors : Owns(d)' => Owns(d)
  BY DEF Owns, TypeOK
<1>3. StoreOK' /\ OwnerOK'
  BY <1>2 DEF StoreOK, OneRunAtATime, OwnerOK
<1>4. ledger'[work[e]][n] = l /\ sent'[work[e]][n] = s /\ task'[e][n] = t
  BY <1>1 DEF TypeOK
<1>5. \A q \in Runs, m \in Calls : q # work[e] \/ m # n =>
          ledger'[q][m] = ledger[q][m] /\ sent'[q][m] = sent[q][m]
  BY <1>1 DEF TypeOK
<1>6. \A d \in Executors, m \in Calls : d # e \/ m # n => task'[d][m] = task[d][m]
  BY DEF TypeOK
<1>7. CallsAreOnRecord'
  <2> SUFFICES ASSUME NEW q \in Runs, NEW m \in Calls
               PROVE  /\ sent'[q][m] <= 1
                      /\ ledger'[q][m] \in {"none", "intent"} => sent'[q][m] = 0
                      /\ ledger'[q][m] \in {"succeeded", "failed"} => sent'[q][m] = 1
    BY DEF CallsAreOnRecord
  <2>1. CASE q = work[e] /\ m = n
    BY <2>1, <1>4
  <2>2. CASE q # work[e] \/ m # n
    BY <2>2, <1>5 DEF CallsAreOnRecord
  <2> QED
    BY <2>1, <2>2
<1>8. TaskOK'
  <2> SUFFICES ASSUME NEW d \in Executors, NEW m \in Calls,
                      task'[d][m] \in {"claimed", "working"} \union Outcomes
               PROVE  /\ ledger'[work[d]][m] = "attempted"
                      /\ task'[d][m] = "claimed" => sent'[work[d]][m] = 0
                      /\ task'[d][m] \in {"working", "succeeded", "failed"} => sent'[work[d]][m] = 1
    BY DEF TaskOK
  <2>1. CASE d = e /\ m = n
    BY <2>1, <1>4
  <2>2. CASE d # e \/ m # n
    <3>1. Owns(d) /\ task'[d][m] = task[d][m]
      BY <2>2, <1>6 DEF Owns, Outcomes
    <3>2. work[d] \in Runs /\ (work[d] # work[e] \/ m # n)
      BY <3>1, <2>2 DEF OwnerOK
    <3> QED
      BY <3>1, <3>2, <1>5 DEF TaskOK
  <2> QED
    BY <2>1, <2>2
<1> QED
  BY <1>3, <1>7, <1>8

LEMMA CallKept ==
  ASSUME Kept, NEW e \in Executors, NEW n \in Calls, Call(e, n)
  PROVE  Kept'
<1> USE DEF Kept
<1> DEFINE r == work[e]
<1>1. Owns(e)
  BY DEF Call, Owns, Invoke, AbandonCall, BeginToolCall, AttemptToolCall, CallCapability,
         MayCall, ExpireCall, AnswerCall, FinishToolCall, LoseOutcome, Outcomes
<1>2. r \in Runs /\ ledger[r][n] \in Entries /\ sent[r][n] \in Nat /\ task[e][n] \in TaskPhases
  BY <1>1 DEF OwnerOK, TypeOK
<1>3. /\ ledger = [ledger EXCEPT ![r][n] = ledger[r][n]]
      /\ sent = [sent EXCEPT ![r][n] = sent[r][n]]
  BY <1>2 DEF TypeOK
<1>4. /\ sent[r][n] <= 1
      /\ ledger[r][n] \in {"none", "intent"} => sent[r][n] = 0
      /\ ledger[r][n] \in {"succeeded", "failed"} => sent[r][n] = 1
  BY <1>2 DEF CallsAreOnRecord
<1>5. task[e][n] \in {"claimed", "working"} \union Outcomes =>
          /\ ledger[r][n] = "attempted"
          /\ task[e][n] = "claimed" => sent[r][n] = 0
          /\ task[e][n] \in {"working", "succeeded", "failed"} => sent[r][n] = 1
  BY DEF TaskOK
<1>6. ASSUME NEW t \in TaskPhases, NEW l \in Entries, NEW s \in Nat,
             task' = [task EXCEPT ![e][n] = t],
             ledger' = [ledger EXCEPT ![r][n] = l],
             sent' = [sent EXCEPT ![r][n] = s],
             UNCHANGED <<store, up, execution, lost, crashes>>
      PROVE  TypeOK' /\ UNCHANGED <<store, work, pc>>
  BY <1>2, <1>6 DEF TypeOK, store, execution
<1>7. CASE Invoke(e, n) \/ AbandonCall(e, n) \/ LoseOutcome(e, n)
  <2>1. PICK t \in {"begin", "ended"} : Enter(e, n, t)
    BY <1>7 DEF Invoke, AbandonCall, LoseOutcome
  <2>2. t \in TaskPhases /\ t \notin {"claimed", "working"} \union Outcomes
    BY DEF TaskPhases, Outcomes
  <2>3. UNCHANGED <<store, calls, up, execution, lost, crashes>>
    BY <1>7 DEF Invoke, AbandonCall, LoseOutcome
  <2> QED
    BY <2>1, <2>2, <2>3, <1>1, <1>2, <1>3, <1>4, <1>6, CallStepKept DEF Enter, calls
<1>8. CASE BeginToolCall(e, n)
  <2>1. PICK t \in {"attempt", "ended"} : Enter(e, n, t)
    BY <1>8 DEF BeginToolCall
  <2>2. t \in TaskPhases /\ t \notin {"claimed", "working"} \union Outcomes
    BY DEF TaskPhases, Outcomes
  <2>3. PICK l \in Entries : Record(e, n, l) /\ (l = ledger[r][n] \/ (l = "intent" /\ sent[r][n] = 0))
    <3>1. CASE ledger[r][n] = "none" /\ Record(e, n, "intent")
      BY <3>1, <1>4 DEF Entries
    <3>2. CASE UNCHANGED ledger
      <4>1. Record(e, n, ledger[r][n])
        BY <3>2, <1>3 DEF Record
      <4> QED
        BY <4>1, <1>2
    <3> QED
      BY <1>8, <3>1, <3>2 DEF BeginToolCall
  <2>4. UNCHANGED <<store, sent, up, execution, lost, crashes>>
    BY <1>8 DEF BeginToolCall
  <2> QED
    BY <2>1, <2>2, <2>3, <2>4, <1>1, <1>2, <1>3, <1>4, <1>6, CallStepKept DEF Enter, Record
<1>9. CASE AttemptToolCall(e, n)
  <2>1. PICK t \in {"claimed", "ended"} : Enter(e, n, t)
    BY <1>9 DEF AttemptToolCall
  <2>2. t \in TaskPhases /\ t \notin {"working"} \union Outcomes /\ "attempted" \in Entries
    BY DEF TaskPhases, Outcomes, Entries
  <2>3. /\ Record(e, n, "attempted") /\ sent[r][n] = 0
        /\ UNCHANGED <<store, sent, up, execution, lost, crashes>>
    BY <1>9, <1>4 DEF AttemptToolCall
  <2> QED
    <3>1. /\ sent' = [sent EXCEPT ![r][n] = sent[r][n]]
          /\ ledger' = [ledger EXCEPT ![r][n] = "attempted"]
          /\ task' = [task EXCEPT ![e][n] = t]
      BY <2>1, <2>3, <1>3 DEF Enter, Record
    <3>2. TypeOK' /\ UNCHANGED <<store, work, pc>>
      BY <3>1, <2>2, <2>3, <1>2, <1>6
    <3>3. t \notin {"working", "succeeded", "failed"}
      BY <2>2 DEF Outcomes
    <3> QED
      BY <3>1, <3>2, <3>3, <2>2, <2>3, <1>1, <1>2, <1>4, CallStepKept DEF Outcomes
<1>10. CASE CallCapability(e, n)
  <2>1. /\ Enter(e, n, "working") /\ "working" \in TaskPhases
        /\ sent[r][n] = 0 /\ ledger[r][n] = "attempted"
        /\ UNCHANGED <<store, ledger, up, execution, lost, crashes>>
    BY <1>10, <1>5 DEF CallCapability, MayCall, TaskPhases
  <2>2. PICK s \in Nat : s = 1
    OBVIOUS
  <2>3. sent' = [sent EXCEPT ![r][n] = s]
    BY <1>10, <2>1, <2>2, <1>2 DEF CallCapability, TypeOK
  <2> QED
    <3>1. /\ ledger' = [ledger EXCEPT ![r][n] = "attempted"]
          /\ task' = [task EXCEPT ![e][n] = "working"]
          /\ "attempted" \in Entries
      BY <2>1, <1>3 DEF Enter, Entries
    <3>2. TypeOK' /\ UNCHANGED <<store, work, pc>>
      BY <3>1, <2>1, <2>3, <1>6
    <3>3. /\ s <= 1
          /\ "attempted" \notin {"none", "intent"} /\ "attempted" \notin {"succeeded", "failed"}
          /\ "working" # "claimed"
      BY <2>2
    <3>4. "working" \in TaskPhases /\ "attempted" \in Entries
      BY <2>1, <3>1
    <3> QED
      BY <3>1, <3>2, <3>3, <3>4, <2>2, <2>3, <1>1, CallStepKept
<1>11. CASE ExpireCall(e, n) \/ AnswerCall(e, n)
  <2>1. PICK t \in Outcomes : Enter(e, n, t) /\ (t # "unknown" => sent[r][n] = 1)
    BY <1>11, <1>5 DEF ExpireCall, AnswerCall, Outcomes
  <2>2. /\ t \in TaskPhases /\ t \notin {"claimed", "working"}
        /\ ledger[r][n] = "attempted"
        /\ UNCHANGED <<store, calls, up, execution, lost, crashes>>
    BY <1>11, <1>5 DEF ExpireCall, AnswerCall, TaskPhases, Outcomes
  <2> QED
    BY <2>1, <2>2, <1>1, <1>2, <1>3, <1>4, <1>6, CallStepKept DEF Enter, calls, Outcomes
<1>12. CASE FinishToolCall(e, n)
  <2>1. /\ Enter(e, n, "ended") /\ "ended" \in TaskPhases
        /\ "ended" \notin {"claimed", "working"} \union Outcomes
        /\ task[e][n] \in Outcomes /\ ledger[r][n] = "attempted"
        /\ Record(e, n, task[e][n])
        /\ UNCHANGED <<store, sent, up, execution, lost, crashes>>
    BY <1>12, <1>5 DEF FinishToolCall, TaskPhases, Outcomes
  <2>2. task[e][n] \in Entries
        /\ (task[e][n] \in {"succeeded", "failed"} => sent[r][n] = 1)
        /\ task[e][n] \notin {"none", "intent"}
    BY <2>1, <1>5 DEF Entries, Outcomes
  <2> QED
    BY <2>1, <2>2, <1>1, <1>2, <1>3, <1>4, <1>6, CallStepKept DEF Enter, Record
<1> QED
  BY <1>7, <1>8, <1>9, <1>10, <1>11, <1>12 DEF Call

-----------------------------------------------------------------------------
LEMMA NextKept == Kept /\ [Next]_vars => Kept'
<1> SUFFICES ASSUME Kept, [Next]_vars PROVE Kept'
  OBVIOUS
<1>1. CASE UNCHANGED vars
  <2>1. \A e \in Executors : Owns(e)' <=> Owns(e)
    BY <1>1 DEF vars, execution, Owns
  <2> QED
    BY <1>1, <2>1 DEF vars, store, calls, execution, Kept, TypeOK, StoreOK, OneRunAtATime,
                      OwnerOK, CallsAreOnRecord, TaskOK
<1>2. CASE Next
  BY <1>2, AppendKept, CancelKept, BeginKept, LoseClaimKept, ExecuteKept, CallKept, ProcessKept, ReconcileKept
  DEF Next
<1> QED
  BY <1>1, <1>2

(* The invariant holds in every reachable state.                           *)
THEOREM Invariance == Spec => []Kept
<1> QED
  BY InitKept, NextKept, PTL DEF Spec

(* The state always has its type: what append_message, begin_run,          *)
(* finish_run and the ledger write are statuses their columns know.        *)
THEOREM TypeCorrect == Spec => []TypeOK
<1>1. Kept => TypeOK
  BY DEF Kept
<1> QED
  BY <1>1, Invariance, PTL

(* A conversation never has two active runs, in any deployment.            *)
THEOREM ConversationsAreSerial == Spec => []OneRunAtATime
<1>1. Kept => OneRunAtATime
  BY DEF Kept, StoreOK
<1> QED
  BY <1>1, Invariance, PTL

(* A run never has two executions, whatever dispatches race for it.        *)
THEOREM RunsAreExecutedOnce == Spec => []OneExecution
<1>1. Kept => OneExecution
  BY DEF Kept, OwnerOK, Owns, OneExecution
<1> QED
  BY <1>1, Invariance, PTL

(* The ledger knows of every call of a capability, and none is made twice, *)
(* whatever process dies at whatever moment.                               *)
THEOREM LedgerIsTrue == Spec => []CallsAreOnRecord
<1>1. Kept => CallsAreOnRecord
  BY DEF Kept
<1> QED
  BY <1>1, Invariance, PTL

(* No step changes the end of a turn or the outcome of a call.             *)
THEOREM EndsAreFinal == Spec => VerdictsStand
<1> DEFINE Stand ==
      /\ \A r \in Runs : run[r] \in Terminal => run'[r] = run[r] /\ turn'[r] = turn[r]
      /\ \A r \in Runs, n \in Calls : ledger[r][n] \in Outcomes => ledger'[r][n] = ledger[r][n]
<1>1. ASSUME Kept, [Next]_vars PROVE Stand
  <2> USE <1>1
  <2>1. ASSUME NEW q \in Runs, NEW s \in Statuses, Settle(q, s), run[q] \notin Terminal
        PROVE  \A r \in Runs : run[r] \in Terminal => run'[r] = run[r] /\ turn'[r] = turn[r]
    BY <2>1 DEF Settle, Kept, TypeOK
  <2>2. ASSUME NEW e \in Executors, NEW n \in Calls, NEW l \in Entries, Record(e, n, l),
               ledger[work[e]][n] \notin Outcomes
        PROVE  \A r \in Runs, m \in Calls : ledger[r][m] \in Outcomes => ledger'[r][m] = ledger[r][m]
    BY <2>2 DEF Record, Kept, TypeOK
  <2>3. CASE UNCHANGED <<store, ledger>>
    BY <2>3 DEF store
  <2>4. ASSUME NEW r \in Runs, AppendMessage(r) \/ CancelTurn(r) PROVE Stand
    <3>1. run[r] \notin Terminal /\ UNCHANGED ledger
      BY <2>4 DEF AppendMessage, CancelTurn, Active, Terminal, calls
    <3>2. PICK s \in Statuses : Settle(r, s)
      BY <2>4 DEF AppendMessage, CancelTurn, Settle, Statuses, Active, Terminal
    <3> QED
      BY <3>1, <3>2, <2>1
  <2>5. ASSUME NEW r \in Runs, LoseClaim(r) \/ \E e \in Executors : BeginRun(e, r) PROVE Stand
    BY <2>5 DEF BeginRun, LoseClaim, Starts, Claimable, Kept, TypeOK, StoreOK, Terminal, calls
  <2>6. ASSUME NEW e \in Executors, Execute(e) PROVE Stand
    <3>1. CASE FinishRun(e) /\ ~UNCHANGED store
      <4>1. work[e] \in Runs /\ run[work[e]] \notin Terminal /\ UNCHANGED ledger
        BY <3>1 DEF FinishRun, Deciding, Kept, OwnerOK, Owns, Terminal, calls
      <4>2. PICK s \in Statuses : Settle(work[e], s)
        BY <3>1 DEF FinishRun, Statuses, Terminal
      <4> QED
        BY <4>1, <4>2, <2>1
    <3>2. CASE UNCHANGED <<store, ledger>>
      BY <3>2, <2>3
    <3> QED
      BY <2>6, <3>1, <3>2
      DEF Execute, VerifyRun, RaiseFlag, EndTurn, LoseVerdict, FinishRun, calls
  <2>7. ASSUME NEW e \in Executors, NEW n \in Calls, Call(e, n) PROVE Stand
    <3>1. UNCHANGED store
      BY <2>7 DEF Call, Invoke, AbandonCall, BeginToolCall, AttemptToolCall, CallCapability,
                  ExpireCall, AnswerCall, FinishToolCall, LoseOutcome
    <3>2. CASE UNCHANGED ledger
      BY <3>1, <3>2, <2>3
    <3>3. CASE ~UNCHANGED ledger
      <4>1. PICK l \in Entries : Record(e, n, l) /\ ledger[work[e]][n] \notin Outcomes
        BY <2>7, <3>3
        DEF Call, Invoke, AbandonCall, BeginToolCall, AttemptToolCall, CallCapability,
            ExpireCall, AnswerCall, FinishToolCall, LoseOutcome, calls, Entries, Outcomes
      <4> QED
        BY <3>1, <4>1, <2>2 DEF store
    <3> QED
      BY <3>2, <3>3
  <2>8. ASSUME NEW p \in Processes, NEW r \in Runs, ReconcileRun(p, r) PROVE Stand
    <3>1. "failed" \in Statuses /\ run[r] \notin Terminal
      BY <2>8 DEF ReconcileRun, Abandoned, Statuses, Terminal
    <3> QED
      BY <2>8, <3>1, <2>1 DEF ReconcileRun, calls
  <2>9. ASSUME NEW p \in Processes, Crash(p) \/ StartProcess(p) \/ Ready(p) PROVE Stand
    BY <2>9, <2>3 DEF Crash, StartProcess, Ready, calls
  <2>10. CASE UNCHANGED vars
    BY <2>10, <2>3 DEF vars, calls
  <2> QED
    BY <2>4, <2>5, <2>6, <2>7, <2>8, <2>9, <2>10 DEF Next
<1>2. Kept /\ [Next]_vars => [Stand]_vars
  BY <1>1
<1> QED
  BY <1>2, Invariance, PTL DEF Spec, VerdictsStand

-----------------------------------------------------------------------------
(* Calls as one-shot effects                                               *)

(* The three functions of the refinement mapping, by entry and by call.    *)
AttemptOf(l) == IF l \in {"none", "intent"} THEN 0 ELSE 1
VerdictOf(l) ==
    CASE l \in {"succeeded", "failed"} -> "published"
      [] l = "unknown" -> "unknown"
      [] OTHER -> "none"

Attempted(c) == AttemptOf(ledger[c[1]][c[2]])
Sent(c) == 1 .. sent[c[1]][c[2]]
Recorded(c) == VerdictOf(ledger[c[1]][c[2]])

(* A step for one call leaves the others as they are.                      *)
LEMMA OnlyThisCall ==
  ASSUME Kept, NEW r \in Runs, NEW n \in Calls, NEW l, NEW s,
         ledger' = [ledger EXCEPT ![r][n] = l], sent' = [sent EXCEPT ![r][n] = s]
  PROVE  \A c \in Runs \X Calls :
           /\ Attempted(c)' = IF c = <<r, n>> THEN AttemptOf(l) ELSE Attempted(c)
           /\ Sent(c)' = IF c = <<r, n>> THEN 1 .. s ELSE Sent(c)
           /\ Recorded(c)' = IF c = <<r, n>> THEN VerdictOf(l) ELSE Recorded(c)
<1> TAKE c \in Runs \X Calls
<1>1. PICK q \in Runs, m \in Calls : c = <<q, m>> /\ c[1] = q /\ c[2] = m
  OBVIOUS
<1>2. ledger \in [Runs -> [Calls -> Entries]] /\ sent \in [Runs -> [Calls -> Nat]]
  BY DEF Kept, TypeOK
<1>3. CASE q = r /\ m = n
  <2>1. ledger'[q][m] = l /\ sent'[q][m] = s
    BY <1>2, <1>3
  <2> QED
    BY <1>1, <1>3, <2>1 DEF Attempted, Sent, Recorded
<1>4. CASE q # r \/ m # n
  <2>1. ledger'[q][m] = ledger[q][m] /\ sent'[q][m] = sent[q][m]
    BY <1>2, <1>4
  <2>2. c # <<r, n>>
    BY <1>1, <1>4
  <2> QED
    BY <1>1, <2>1, <2>2 DEF Attempted, Sent, Recorded
<1> QED
  BY <1>3, <1>4

(* No call of a capability is made but once, on its recorded attempt, and  *)
(* none is said to have been made that was not.                            *)
THEOREM CallsAreMadeOnce == Spec => CallsAreOneShot
<1>1. Init => Invocation!Init
  <2> SUFFICES ASSUME Init PROVE Invocation!Init
    OBVIOUS
  <2>1. \A c \in Runs \X Calls : Attempted(c) = 0 /\ Sent(c) = {} /\ Recorded(c) = "none"
    BY DEF Init, Attempted, Sent, Recorded, AttemptOf, VerdictOf
  <2> QED
    BY <2>1 DEF Invocation!Init, attempts, invocations, verdicts, Attempted, Sent, Recorded, AttemptOf, VerdictOf
<1>2. ASSUME Kept, [Next]_vars PROVE [Invocation!Next]_(Invocation!vars)
  <2> USE <1>2
  <2>1. CASE UNCHANGED calls
    BY <2>1 DEF calls, Invocation!vars, attempts, invocations, verdicts
  <2>2. ASSUME NEW e \in Executors, NEW n \in Calls, Call(e, n), ~UNCHANGED calls
        PROVE  [Invocation!Next]_(Invocation!vars)
    <3>1. PICK r \in Runs : r = work[e]
      BY <2>2 DEF Call, Invoke, AbandonCall, BeginToolCall, AttemptToolCall, CallCapability,
                  ExpireCall, AnswerCall, FinishToolCall, LoseOutcome, Kept, OwnerOK, Owns, MayCall,
                  Outcomes
    <3> DEFINE x == <<r, n>>
    <3>2. /\ x \in Runs \X Calls
          /\ Attempted(x) = AttemptOf(ledger[r][n])
          /\ Sent(x) = 1 .. sent[r][n]
          /\ Recorded(x) = VerdictOf(ledger[r][n])
      BY DEF Attempted, Sent, Recorded
    <3>3. ASSUME NEW l, NEW s, ledger' = [ledger EXCEPT ![r][n] = l],
                 sent' = [sent EXCEPT ![r][n] = s]
          PROVE  \A c \in Runs \X Calls :
                   /\ Attempted(c)' = IF c = x THEN AttemptOf(l) ELSE Attempted(c)
                   /\ Sent(c)' = IF c = x THEN 1 .. s ELSE Sent(c)
                   /\ Recorded(c)' = IF c = x THEN VerdictOf(l) ELSE Recorded(c)
      BY <3>3, OnlyThisCall
    <3>4. /\ AttemptOf("intent") = 0 /\ AttemptOf("attempted") = 1
          /\ \A l \in Outcomes : AttemptOf(l) = 1
          /\ VerdictOf("intent") = "none" /\ VerdictOf("attempted") = "none"
          /\ 1 .. 0 = {} /\ 1 .. 1 = {1}
      BY DEF AttemptOf, VerdictOf, Outcomes
    <3>5. /\ attempts = [c \in Runs \X Calls |-> Attempted(c)]
          /\ invocations = [c \in Runs \X Calls |-> Sent(c)]
          /\ verdicts = [c \in Runs \X Calls |-> Recorded(c)]
          /\ attempts' = [c \in Runs \X Calls |-> Attempted(c)']
          /\ invocations' = [c \in Runs \X Calls |-> Sent(c)']
          /\ verdicts' = [c \in Runs \X Calls |-> Recorded(c)']
      BY DEF attempts, invocations, verdicts, Attempted, Sent, Recorded, AttemptOf, VerdictOf
    <3> HIDE DEF x
    <3>6. CASE BeginToolCall(e, n)
      <4>1. /\ ledger[r][n] = "none" /\ ledger' = [ledger EXCEPT ![r][n] = "intent"]
            /\ sent' = [sent EXCEPT ![r][n] = sent[r][n]]
        BY <2>2, <3>1, <3>6 DEF BeginToolCall, Record, calls, Kept, TypeOK
      <4>2. \A c \in Runs \X Calls : /\ Attempted(c)' = Attempted(c) /\ Sent(c)' = Sent(c)
                                     /\ Recorded(c)' = Recorded(c)
        BY <3>2, <3>3, <4>1 DEF AttemptOf, VerdictOf
      <4> QED
        BY <3>5, <4>2 DEF Invocation!vars
    <3>7. CASE AttemptToolCall(e, n)
      <4>1. /\ ledger[r][n] = "intent" /\ ledger' = [ledger EXCEPT ![r][n] = "attempted"]
            /\ sent' = [sent EXCEPT ![r][n] = sent[r][n]]
        BY <3>1, <3>7 DEF AttemptToolCall, Record, Kept, TypeOK
      <4>2. \A c \in Runs \X Calls : /\ Attempted(c)' = IF c = x THEN 1 ELSE Attempted(c)
                                     /\ Sent(c)' = Sent(c) /\ Recorded(c)' = Recorded(c)
        BY <3>2, <3>3, <3>4, <4>1
      <4>3. Attempted(x) = 0
        BY <3>2, <3>4, <4>1
      <4>4. Invocation!Claim(x, 1)
        BY <3>2, <3>5, <4>2, <4>3 DEF Invocation!Claim
      <4> QED
        BY <3>2, <4>4 DEF Invocation!Next
    <3>8. CASE CallCapability(e, n)
      <4>1. ledger[r][n] = "attempted" /\ sent[r][n] = 0
        BY <3>1, <3>8 DEF CallCapability, MayCall, Kept, TaskOK
      <4>2. ledger' = [ledger EXCEPT ![r][n] = ledger[r][n]]
        BY <3>8 DEF CallCapability, Kept, TypeOK
      <4>3. sent' = [sent EXCEPT ![r][n] = 1]
        BY <3>1, <3>8, <4>1 DEF CallCapability, Kept, TypeOK
      <4>4. \A c \in Runs \X Calls : /\ Attempted(c)' = Attempted(c) /\ Recorded(c)' = Recorded(c)
                                     /\ Sent(c)' = IF c = x THEN {1} ELSE Sent(c)
        BY <3>2, <3>3, <3>4, <4>2, <4>3
      <4>5. /\ Attempted(x) = 1 /\ Sent(x) = {} /\ Recorded(x) = "none"
        BY <3>2, <3>4, <4>1
      <4>6. attempts[x] = 1 /\ invocations[x] = {} /\ verdicts[x] = "none"
        BY <3>2, <3>5, <4>5
      <4>7. /\ attempts' = attempts /\ verdicts' = verdicts
            /\ invocations' = [invocations EXCEPT ![x] = {1}]
        BY <3>2, <3>5, <4>4
      <4>8. Invocation!Post(x)
        BY <4>6, <4>7 DEF Invocation!Post
      <4> QED
        BY <3>2, <4>8 DEF Invocation!Next
    <3>9. CASE FinishToolCall(e, n)
      <4>1. PICK o \in Outcomes :
              /\ ledger[r][n] = "attempted" /\ ledger' = [ledger EXCEPT ![r][n] = o]
              /\ sent' = [sent EXCEPT ![r][n] = sent[r][n]]
              /\ o \in {"succeeded", "failed"} => sent[r][n] = 1
        <5>1. task[e][n] \in Outcomes /\ ledger[r][n] = "attempted"
          BY <2>2, <3>1, <3>9 DEF FinishToolCall, calls
        <5>2. /\ ledger' = [ledger EXCEPT ![r][n] = task[e][n]]
              /\ sent' = [sent EXCEPT ![r][n] = sent[r][n]]
          BY <3>1, <3>9, <5>1 DEF FinishToolCall, Record, Kept, TypeOK
        <5>3. task[e][n] \in {"succeeded", "failed"} => sent[r][n] = 1
          BY <3>1, <5>1 DEF Kept, TaskOK
        <5> QED
          BY <5>1, <5>2, <5>3
      <4>2. PICK word \in {"published", "unknown"} :
              word = VerdictOf(o) /\ (word = "published" => o \in {"succeeded", "failed"})
        BY DEF VerdictOf, Outcomes
      <4>3. \A c \in Runs \X Calls : /\ Attempted(c)' = Attempted(c) /\ Sent(c)' = Sent(c)
                                     /\ Recorded(c)' = IF c = x THEN word ELSE Recorded(c)
        BY <3>2, <3>3, <3>4, <4>1, <4>2
      <4>4. /\ Attempted(x) = 1 /\ Recorded(x) = "none"
            /\ word = "published" => Sent(x) # {}
        BY <3>2, <3>4, <4>1, <4>2
      <4>5. /\ attempts[x] = 1 /\ verdicts[x] = "none"
            /\ word = "published" => invocations[x] # {}
        BY <3>2, <3>5, <4>4
      <4>6. /\ attempts' = attempts /\ invocations' = invocations
            /\ verdicts' = [verdicts EXCEPT ![x] = word]
        BY <3>2, <3>5, <4>3
      <4>7. Invocation!Judge(x, word)
        BY <4>2, <4>5, <4>6 DEF Invocation!Judge
      <4> QED
        BY <3>2, <4>2, <4>7 DEF Invocation!Next
    <3> QED
      BY <2>2, <3>6, <3>7, <3>8, <3>9
      DEF Call, Invoke, AbandonCall, ExpireCall, AnswerCall, LoseOutcome
  <2>3. ASSUME NEW r \in Runs, LoseClaim(r) \/ \E e \in Executors : BeginRun(e, r)
        PROVE  UNCHANGED calls
    BY <2>3 DEF BeginRun, LoseClaim
  <2>4. ASSUME NEW r \in Runs, AppendMessage(r) \/ CancelTurn(r) PROVE UNCHANGED calls
    BY <2>4 DEF AppendMessage, CancelTurn
  <2>5. ASSUME NEW e \in Executors, Execute(e) PROVE UNCHANGED calls
    BY <2>5 DEF Execute, VerifyRun, RaiseFlag, EndTurn, FinishRun, LoseVerdict
  <2>6. ASSUME NEW p \in Processes,
               Crash(p) \/ StartProcess(p) \/ Ready(p) \/ \E r \in Runs : ReconcileRun(p, r)
        PROVE  UNCHANGED calls
    BY <2>6 DEF Crash, StartProcess, Ready, ReconcileRun
  <2>7. CASE UNCHANGED vars
    BY <2>1, <2>7 DEF vars
  <2> QED
    BY <2>1, <2>2, <2>3, <2>4, <2>5, <2>6, <2>7 DEF Next
<1> QED
  BY <1>1, <1>2, Invariance, PTL DEF Spec, Invocation!Spec, CallsAreOneShot
=============================================================================
