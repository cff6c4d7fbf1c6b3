------------------------------ MODULE AgentRuns -----------------------------
(***************************************************************************)
(* Agent turns in one conversation.  An accepted message is a turn with a  *)
(* run, queued; the request that accepted it and a scanner both try to     *)
(* claim it, and one execution wins.  The execution runs a script whose    *)
(* calls of host capabilities go through a durable ledger (intent,         *)
(* attempt, outcome), each in a task of its own that outlives the script.  *)
(* The turn may be cancelled at any time, on any replica; processes may    *)
(* die.  A single-process deployment fails abandoned runs when it starts;  *)
(* replicas cannot tell them from live ones and leave them alone.          *)
(***************************************************************************)
EXTENDS Naturals

CONSTANTS
    Runs,         \* messages accepted in the conversation, their turns and runs
    Executors,    \* slots for executions of claimed runs and their calls
    Processes,    \* API processes
    Home,         \* [Executors -> Processes]: where an execution takes place
    MaxCalls,     \* calls of capabilities that one script makes
    Single,       \* whether the deployment is single_process_executor
    MaxCrashes,   \* bound on deaths of processes
    None

ASSUME AgentAssumption ==
    /\ None \notin Runs
    /\ Home \in [Executors -> Processes]
    /\ MaxCalls \in Nat /\ MaxCrashes \in Nat
    /\ Single \in BOOLEAN
    /\ Single => \A p, q \in Processes : p = q

VARIABLES
    run, turn,      \* agent_runs and agent_turns: the status of each
    ledger, sent,   \* agent_tool_call_ledger, and how often the capability was called
    up,             \* processes: down, starting (not ready yet) or up
    work, pc, flag, \* executions: their run, phase and cancellation flag ...
    task,           \* ... and the tasks that make their calls
    lost,           \* runs whose claim got no answer, or whose verdict could not be written
    crashes

store == <<run, turn>>
calls == <<ledger, sent>>
execution == <<work, pc, flag>>
vars == <<store, calls, up, execution, task, lost, crashes>>

Calls == 1 .. MaxCalls
Active == {"queued", "running"}
Terminal == {"succeeded", "failed", "cancelled"}
Statuses == {"none"} \union Active \union Terminal
Outcomes == {"succeeded", "failed", "unknown"}
Entries == {"none", "intent", "attempted"} \union Outcomes
Phases == {"idle", "claimed", "turn", "answered", "failing"}
\* a task that has an outcome goes by its name until the ledger has it
TaskPhases == {"none", "begin", "attempt", "claimed", "working", "ended"} \union Outcomes

TypeOK ==
    /\ run \in [Runs -> Statuses]
    /\ turn \in [Runs -> Statuses]
    /\ ledger \in [Runs -> [Calls -> Entries]]
    /\ sent \in [Runs -> [Calls -> Nat]]
    /\ up \in [Processes -> {"down", "starting", "up"}]
    /\ work \in [Executors -> Runs \union {None}]
    /\ pc \in [Executors -> Phases]
    /\ flag \in [Executors -> BOOLEAN]
    /\ task \in [Executors -> [Calls -> TaskPhases]]
    /\ lost \in SUBSET Runs
    /\ crashes \in 0 .. MaxCrashes

NoTasks == [n \in Calls |-> "none"]

Init ==
    /\ run = [r \in Runs |-> "none"]
    /\ turn = [r \in Runs |-> "none"]
    /\ ledger = [r \in Runs |-> [n \in Calls |-> "none"]]
    /\ sent = [r \in Runs |-> [n \in Calls |-> 0]]
    /\ up = [p \in Processes |-> "up"]
    /\ work = [e \in Executors |-> None]
    /\ pc = [e \in Executors |-> "idle"]
    /\ flag = [e \in Executors |-> FALSE]
    /\ task = [e \in Executors |-> NoTasks]
    /\ lost = {}
    /\ crashes = 0

-----------------------------------------------------------------------------
(* Requests.                                                               *)

(* Under the lock of the conversation, a message is accepted if no turn is *)
(* active.  Without a runtime its run fails at once.                       *)
VacantFaulty == \A r \in Runs : turn[r] # "running"
Vacant == \A r \in Runs : turn[r] \notin Active

AppendMessage(r) ==
    /\ \E p \in Processes : up[p] = "up"
    /\ run[r] = "none" /\ Vacant
    /\ \E s \in {"queued", "failed"} :
           /\ run' = [run EXCEPT ![r] = s]
           /\ turn' = [turn EXCEPT ![r] = s]
    /\ UNCHANGED <<calls, up, execution, task, lost, crashes>>

(* Turn and run become s, in one transaction that holds the run's row. *)
Settle(r, s) ==
    /\ run' = [run EXCEPT ![r] = s]
    /\ turn' = [turn EXCEPT ![r] = s]

CancelTurn(r) ==
    /\ \E p \in Processes : up[p] = "up"
    /\ run[r] \in Active
    /\ Settle(r, "cancelled")
    /\ UNCHANGED <<calls, up, execution, task, lost, crashes>>

-----------------------------------------------------------------------------
(* Execution of a run.                                                     *)

Free(e) == pc[e] = "idle" /\ \A n \in Calls : task[e][n] \in {"none", "ended"}

(* The claim.  Dispatch by the accepting request, by a replay of it and by *)
(* the scanner differ only in when they come here.                         *)
ClaimableFaulty(r) == run[r] \in Active
Claimable(r) == run[r] = "queued"

Starts(r) ==
    /\ Claimable(r)
    /\ run' = [run EXCEPT ![r] = "running"]
    /\ turn' = [turn EXCEPT ![r] = IF @ = "queued" THEN "running" ELSE @]

BeginRun(e, r) ==
    /\ up[Home[e]] = "up" /\ Free(e)
    /\ Starts(r)
    /\ work' = [work EXCEPT ![e] = r]
    /\ pc' = [pc EXCEPT ![e] = "claimed"]
    /\ flag' = [flag EXCEPT ![e] = FALSE]
    /\ task' = [task EXCEPT ![e] = NoTasks]
    /\ UNCHANGED <<calls, up, lost, crashes>>

(* The claim is committed, but its answer is an error to the one who made  *)
(* it: he takes the run for still queued, and nobody executes it.          *)
LoseClaim(r) ==
    /\ \E p \in Processes : up[p] = "up"
    /\ Starts(r)
    /\ lost' = lost \union {r}
    /\ UNCHANGED <<calls, up, execution, task, crashes>>

(* A turn cancelled before its execution listens is noticed by one more    *)
(* look at its status.  A failed read counts as bad news.                  *)
VerifyRun(e) ==
    /\ pc[e] = "claimed"
    /\ \/ run[work[e]] = "running" /\ pc' = [pc EXCEPT ![e] = "turn"] /\ UNCHANGED flag
       \/ pc' = [pc EXCEPT ![e] = "failing"] /\ flag' = [flag EXCEPT ![e] = TRUE]
    /\ UNCHANGED <<store, calls, up, work, task, lost, crashes>>

(* The flag is raised by the watch, which again takes a failed read for    *)
(* bad news, or by the request that cancelled the turn.                    *)
RaiseFlag(e) ==
    /\ pc[e] \in {"claimed", "turn"} /\ ~flag[e]
    /\ flag' = [flag EXCEPT ![e] = TRUE]
    /\ UNCHANGED <<store, calls, up, work, pc, task, lost, crashes>>

(* The script returns, fails, or is terminated by the flag or its          *)
(* deadline; only without the flag does its answer count, and only if the  *)
(* checkpoint can be stored.  Calls that are under way go on.              *)
EndTurn(e) ==
    /\ pc[e] = "turn"
    /\ \/ ~flag[e] /\ pc' = [pc EXCEPT ![e] = "answered"]
       \/ pc' = [pc EXCEPT ![e] = "failing"]
    /\ UNCHANGED <<store, calls, up, work, flag, task, lost, crashes>>

(* The verdict counts only while the run is running: a turn that has been  *)
(* cancelled meanwhile stays so.  An answer that cannot be stored fails.   *)
DecidingFaulty(r) == run[r] \in Active \union {"cancelled"}
Deciding(r) == run[r] = "running"

FinishRun(e) ==
    /\ pc[e] \in {"answered", "failing"}
    /\ LET r == work[e] IN
           \/ Deciding(r) /\ pc[e] = "answered" /\ Settle(r, "succeeded")
           \/ Deciding(r) /\ Settle(r, "failed")
           \/ ~Deciding(r) /\ UNCHANGED store
    /\ pc' = [pc EXCEPT ![e] = "idle"]
    /\ UNCHANGED <<calls, up, work, flag, task, lost, crashes>>

(* A verdict that cannot be written is logged, and not tried again. *)
LoseVerdict(e) ==
    /\ pc[e] \in {"answered", "failing"}
    /\ lost' = lost \union {work[e]}
    /\ pc' = [pc EXCEPT ![e] = "idle"]
    /\ UNCHANGED <<store, calls, up, work, flag, task, crashes>>

-----------------------------------------------------------------------------
(* Calls.  The bridge numbers the calls of its script, and the number      *)
(* identifies the call in the ledger of the run.                           *)

Enter(e, n, phase) == task' = [task EXCEPT ![e][n] = phase]
Record(e, n, entry) == ledger' = [ledger EXCEPT ![work[e]][n] = entry]

Invoke(e, n) ==
    /\ pc[e] = "turn" /\ ~flag[e]
    /\ task[e][n] = "none" /\ \A m \in 1 .. n - 1 : task[e][m] # "none"
    /\ Enter(e, n, "begin")
    /\ UNCHANGED <<store, calls, up, execution, lost, crashes>>

(* The task gives up before anything is claimed: cancelled, out of time,   *)
(* refused because the run has ended, or unable to reach the ledger.       *)
AbandonCall(e, n) ==
    /\ task[e][n] \in {"begin", "attempt"}
    /\ Enter(e, n, "ended")
    /\ UNCHANGED <<store, calls, up, execution, lost, crashes>>

(* An existing entry is taken for this call's, whatever has become of it. *)
BeginToolCall(e, n) ==
    /\ task[e][n] = "begin" /\ ~flag[e]
    /\ \/ ledger[work[e]][n] = "none" /\ run[work[e]] = "running" /\ Record(e, n, "intent")
       \/ ledger[work[e]][n] # "none" /\ UNCHANGED ledger
    /\ \/ Enter(e, n, "attempt")
       \/ Enter(e, n, "ended")
    /\ UNCHANGED <<store, sent, up, execution, lost, crashes>>

(* The attempt is claimed once; its answer may come too late to be used. *)
AttemptToolCall(e, n) ==
    /\ task[e][n] = "attempt" /\ ~flag[e]
    /\ ledger[work[e]][n] = "intent" /\ run[work[e]] = "running"
    /\ Record(e, n, "attempted")
    /\ \/ Enter(e, n, "claimed")
       \/ Enter(e, n, "ended")
    /\ UNCHANGED <<store, sent, up, execution, lost, crashes>>

\* the capability would be called once the intent is on record
MayCallFaulty(e, n) == task[e][n] \in {"attempt", "claimed"}
MayCall(e, n) == task[e][n] = "claimed"

CallCapability(e, n) ==
    /\ MayCall(e, n) /\ ~flag[e]
    /\ sent' = [sent EXCEPT ![work[e]][n] = @ + 1]
    /\ Enter(e, n, "working")
    /\ UNCHANGED <<store, ledger, up, execution, lost, crashes>>

(* Flag or deadline stop the call between its claim and its start. *)
ExpireCall(e, n) ==
    /\ task[e][n] = "claimed"
    /\ Enter(e, n, "unknown")
    /\ UNCHANGED <<store, calls, up, execution, lost, crashes>>

(* The capability answers, well or badly; or it is cut off by the flag or  *)
(* its deadline, and what it did is unknown.                               *)
AnswerCall(e, n) ==
    /\ task[e][n] = "working"
    /\ \E o \in Outcomes : Enter(e, n, o)
    /\ UNCHANGED <<store, calls, up, execution, lost, crashes>>

(* An outcome is recorded whether or not the run is still running, but     *)
(* never over another.                                                     *)
FinishToolCall(e, n) ==
    /\ task[e][n] \in Outcomes
    /\ IF ledger[work[e]][n] = "attempted" THEN Record(e, n, task[e][n]) ELSE UNCHANGED ledger
    /\ Enter(e, n, "ended")
    /\ UNCHANGED <<store, sent, up, execution, lost, crashes>>

(* The outcome cannot be written in time, and stays open. *)
LoseOutcome(e, n) ==
    /\ task[e][n] \in Outcomes
    /\ Enter(e, n, "ended")
    /\ UNCHANGED <<store, calls, up, execution, lost, crashes>>

-----------------------------------------------------------------------------
(* Processes.                                                              *)

(* Executions and calls die with their process. *)
Crash(p) ==
    /\ up[p] # "down" /\ crashes < MaxCrashes
    /\ up' = [up EXCEPT ![p] = "down"]
    /\ pc' = [e \in Executors |-> IF Home[e] = p THEN "idle" ELSE pc[e]]
    /\ task' = [e \in Executors |-> IF Home[e] = p THEN NoTasks ELSE task[e]]
    /\ crashes' = crashes + 1
    /\ UNCHANGED <<store, calls, work, flag, lost>>

StartProcess(p) ==
    /\ up[p] = "down"
    /\ up' = [up EXCEPT ![p] = IF Single THEN "starting" ELSE "up"]
    /\ UNCHANGED <<store, calls, execution, task, lost, crashes>>

Abandoned(r) == run[r] = "running" /\ turn[r] \in Active

(* Before it serves anybody, a single process fails the runs it finds      *)
(* running, one transaction each.                                          *)
ReconcileRun(p, r) ==
    /\ up[p] = "starting" /\ Abandoned(r)
    /\ Settle(r, "failed")
    /\ UNCHANGED <<calls, up, execution, task, lost, crashes>>

ReconciledFaulty == TRUE
Reconciled == \A r \in Runs : ~Abandoned(r)

Ready(p) ==
    /\ up[p] = "starting" /\ Reconciled
    /\ up' = [up EXCEPT ![p] = "up"]
    /\ UNCHANGED <<store, calls, execution, task, lost, crashes>>

-----------------------------------------------------------------------------
Execute(e) ==
    \/ VerifyRun(e) \/ RaiseFlag(e) \/ EndTurn(e) \/ FinishRun(e) \/ LoseVerdict(e)

Call(e, n) ==
    \/ Invoke(e, n) \/ AbandonCall(e, n)
    \/ BeginToolCall(e, n) \/ AttemptToolCall(e, n) \/ CallCapability(e, n)
    \/ ExpireCall(e, n) \/ AnswerCall(e, n) \/ FinishToolCall(e, n) \/ LoseOutcome(e, n)

Next ==
    \/ \E r \in Runs : AppendMessage(r) \/ CancelTurn(r) \/ LoseClaim(r)
    \/ \E e \in Executors, r \in Runs : BeginRun(e, r)
    \/ \E e \in Executors : Execute(e)
    \/ \E e \in Executors, n \in Calls : Call(e, n)
    \/ \E p \in Processes : Crash(p) \/ StartProcess(p) \/ Ready(p)
    \/ \E p \in Processes, r \in Runs : ReconcileRun(p, r)

Spec == Init /\ [][Next]_vars

(* The scanner comes round every five seconds; look-up, script, verdict,   *)
(* call and record all have a deadline, and whoever runs the deployment    *)
(* starts a process that died.                                             *)
Fairness ==
    /\ \A r \in Runs : WF_vars(\E e \in Executors : BeginRun(e, r))
    /\ \A e \in Executors :
           /\ WF_vars(VerifyRun(e)) /\ WF_vars(EndTurn(e))
           /\ WF_vars(FinishRun(e) \/ LoseVerdict(e))
    /\ \A e \in Executors, n \in Calls :
           /\ WF_vars(AbandonCall(e, n)) /\ WF_vars(ExpireCall(e, n))
           /\ WF_vars(AnswerCall(e, n))
           /\ WF_vars(FinishToolCall(e, n) \/ LoseOutcome(e, n))
    /\ \A p \in Processes : WF_vars(StartProcess(p)) /\ WF_vars(Ready(p))
    /\ \A p \in Processes, r \in Runs : WF_vars(ReconcileRun(p, r))

FairSpec == Spec /\ Fairness

-----------------------------------------------------------------------------
(* A conversation has one run at a time: a message that comes while one is *)
(* queued or running is refused, although acceptance looks at turns and    *)
(* everything else at runs (the active turn of append_message).            *)
OneRunAtATime ==
    \A r, s \in Runs : run[r] \in Active /\ run[s] \in Active => r = s

(* A run is executed by one execution only, however many dispatches,       *)
(* replays and scans race for it, and by none before its claim or after a  *)
(* restart has failed it (begin_run, reconcile_running_runs).              *)
OneExecution ==
    /\ \A e \in Executors : pc[e] # "idle" => run[work[e]] \notin {"none", "queued"}
    /\ \A d, e \in Executors :
           pc[d] # "idle" /\ pc[e] # "idle" /\ work[d] = work[e] => d = e

(* Whatever dies, the ledger knows of every capability that was called,    *)
(* none was called twice, and an outcome other than unknown is recorded    *)
(* only of one that was (invoke_recorded, attempt_tool_call).              *)
CallsAreOnRecord ==
    \A r \in Runs, n \in Calls :
        /\ sent[r][n] <= 1
        /\ ledger[r][n] \in {"none", "intent"} => sent[r][n] = 0
        /\ ledger[r][n] \in {"succeeded", "failed"} => sent[r][n] = 1

(* What the ledger says of each call: the attempt it is, the invocations   *)
(* that took place, and the verdict on them.                               *)
attempts ==
    [c \in Runs \X Calls |-> IF ledger[c[1]][c[2]] \in {"none", "intent"} THEN 0 ELSE 1]
invocations == [c \in Runs \X Calls |-> 1 .. sent[c[1]][c[2]]]
verdicts ==
    [c \in Runs \X Calls |->
        CASE ledger[c[1]][c[2]] \in {"succeeded", "failed"} -> "published"
          [] ledger[c[1]][c[2]] = "unknown" -> "unknown"
          [] OTHER -> "none"]

(* A call of a capability is a one-shot effect: its only attempt is on     *)
(* record before it, it happens at most once, and an outcome other than    *)
(* unknown is recorded, for good, only of a call that happened, whatever   *)
(* dies in between (invoke_recorded, attempt_tool_call, finish_tool_call). *)
Invocation == INSTANCE OneShotPublication WITH
    Targets <- Runs \X Calls, Runs <- {1}, None <- 0,
    attempt <- attempts, posts <- invocations, verdict <- verdicts

CallsAreOneShot == Invocation!Spec

(* What was decided stays: no late answer revives a cancelled turn, and no *)
(* late outcome replaces another, but one that was still open may come     *)
(* after the end of the run (finish_run, finish_tool_call).                *)
VerdictsStand ==
    [][/\ \A r \in Runs : run[r] \in Terminal => run'[r] = run[r] /\ turn'[r] = turn[r]
       /\ \A r \in Runs, n \in Calls :
              ledger[r][n] \in Outcomes => ledger'[r][n] = ledger[r][n]]_vars

(* In a single-process deployment every accepted run ends: dispatches that *)
(* got lost are made up for by the scanner, and deaths by the start-up.    *)
(* Only a claim that was committed but answered with an error (claim_run), *)
(* or a verdict that could not be written, may leave one running until it  *)
(* is cancelled or the process starts again.                               *)
EveryRunEnds ==
    Single => \A r \in Runs :
        run[r] = "queued" ~> run[r] \in Terminal \/ r \in lost
=============================================================================
