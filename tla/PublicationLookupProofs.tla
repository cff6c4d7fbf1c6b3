----------------------- MODULE PublicationLookupProofs ----------------------
(***************************************************************************)
(* Proofs about PublicationLookup, for any number of attempts, executions  *)
(* and addresses.  The invariant says that a lease names an unfinished     *)
(* execution of its own attempt, and that what an execution and a job hold *)
(* of the original send is either nothing or all of it.                    *)
(***************************************************************************)
EXTENDS PublicationLookup, TLAPS

LeaseOK ==
    /\ \A e \in Executions : pc[e] # "fresh" => about[e] \in Attempts
    /\ \A a \in Attempts, e \in Executions : lease[a] = e =>
           pc[e] # "fresh" /\ about[e] = a /\ e \notin recorded
    /\ \A e \in recorded : pc[e] = "ended"

JobOK ==
    \A a \in Attempts :
        /\ original[a] # Nothing => outcome[a] = "unknown"
        /\ job[a] \notin {None, Nothing} => job[a] = original[a]
        /\ a \in due => job[a] # None

SnapshotOK ==
    \A e \in Executions : IF pc[e] = "fresh" THEN finding[e] = Unverified ELSE
        /\ job[about[e]] # None
        /\ snapshot[e] \in {Nothing, job[about[e]]}
        /\ finding[e].kind = "candidate" =>
               snapshot[e].url = finding[e].url /\ finding[e].url \in Urls

Kept == TypeOK /\ LeaseOK /\ JobOK /\ SnapshotOK

(* A hint is a record; an address never comes without the version.         *)
LEMMA HintFacts ==
  /\ Nothing \in Hints
  /\ \A h \in Hints : h # None /\ h.url \in Urls \union {None}
  /\ \A h \in Hints : h # Nothing => h.known
  /\ \A h \in Hints : h.url # None => h.known
<1>1. Nothing \in Hints
  BY DEF Hints
<1>2. ASSUME NEW h \in Hints
      PROVE  /\ h # None /\ h.url \in Urls \union {None}
             /\ h # Nothing => h.known
             /\ h.url # None => h.known
  <2>1. CASE h = Nothing
    <3>1. h \in [known : BOOLEAN, url : Urls \union {None}]
      BY <2>1 DEF Nothing
    <3> QED
      BY <2>1, <3>1, LookupAssumption DEF Nothing
  <2>2. CASE h \in [known : {TRUE}, url : Urls \union {None}]
    <3>1. h \in [known : BOOLEAN, url : Urls \union {None}]
      BY <2>2
    <3> QED
      BY <2>2, <3>1, LookupAssumption
  <2> QED
    BY <2>1, <2>2 DEF Hints
<1> QED
  BY <1>1, <1>2

LEMMA InitKept == Init => Kept
<1> SUFFICES ASSUME Init PROVE Kept
  OBVIOUS
<1>1. TypeOK
  BY HintFacts, LookupAssumption DEF Init, TypeOK, Phases, Findings
<1>2. LeaseOK
  BY LookupAssumption DEF Init, LeaseOK
<1>3. JobOK /\ SnapshotOK
  BY DEF Init, JobOK, SnapshotOK
<1> QED
  BY <1>1, <1>2, <1>3 DEF Kept

-----------------------------------------------------------------------------
(* Every step preserves the invariant                                      *)

LEMMA SendKept ==
  ASSUME Kept, NEW a \in Attempts, NEW hint \in Hints, SendEnds(a, hint)
  PROVE  Kept'
<1> USE DEF Kept, SendEnds, jobs, lookup, dispatcher
<1>1. TypeOK'
  BY HintFacts DEF TypeOK
<1>2. LeaseOK'
  BY DEF LeaseOK
<1>3. JobOK'
  BY DEF JobOK, TypeOK
<1>4. SnapshotOK'
  BY DEF SnapshotOK
<1> QED
  BY <1>1, <1>2, <1>3, <1>4

LEMMA EnqueueKept ==
  ASSUME Kept, NEW a \in Attempts, Enqueue(a)
  PROVE  Kept'
<1> USE DEF Kept
<1>1. CASE outcome[a] = "decided"
  <2>1. UNCHANGED <<send, jobs, lookup, recorded, phase, restarts>> /\ page' = page \ {a}
    BY <1>1 DEF Enqueue
  <2>2. TypeOK'
    BY <2>1 DEF TypeOK, send, jobs, lookup
  <2> QED
    BY <2>1, <2>2 DEF LeaseOK, JobOK, SnapshotOK, send, jobs, lookup
<1>2. CASE outcome[a] # "decided"
  <2>1. /\ job' = [job EXCEPT ![a] = Enriched(@, original[a])]
        /\ due' = IF job[a] = None THEN due \union {a} ELSE due
        /\ page' = page \ {a}
        /\ UNCHANGED <<lease, lapsed, send, lookup, recorded, phase, restarts>>
    BY <1>2 DEF Enqueue
  <2>2. /\ original[a] \in Hints
        /\ outcome[a] \in {"none", "unknown"}
        /\ job[a] \in Hints \union {None}
    BY <1>2 DEF TypeOK
  <2>3. outcome[a] = "none" \/ outcome[a] = "unknown"
    BY <2>2
  <2>4. Enriched(job[a], original[a]) \in Hints
    BY <2>2 DEF Enriched
  <2>5. TypeOK'
    BY <2>1, <2>2, <2>4 DEF TypeOK, send, lookup
  <2>6. LeaseOK'
    BY <2>1 DEF LeaseOK, lookup
  <2>7. JobOK'
    <3> SUFFICES ASSUME NEW b \in Attempts
                 PROVE  /\ job'[b] \notin {None, Nothing} => job'[b] = original[b]
                        /\ b \in due' => job'[b] # None
      BY <2>1 DEF JobOK, send
    <3>1. CASE b = a
      BY <3>1, <2>1, <2>4, HintFacts DEF JobOK, Enriched, TypeOK
    <3>2. CASE b # a
      BY <3>2, <2>1 DEF JobOK, TypeOK
    <3> QED
      BY <3>1, <3>2
  <2>8. SnapshotOK'
    <3> SUFFICES ASSUME NEW e \in Executions, pc[e] # "fresh"
                 PROVE  job'[about[e]] # None /\ snapshot[e] \in {Nothing, job'[about[e]]}
      BY <2>1 DEF SnapshotOK, lookup
    <3>1. job'[about[e]] = job[about[e]] \/ job[about[e]] = Nothing
      BY <2>1 DEF SnapshotOK, Enriched, TypeOK, LeaseOK
    <3>2. job'[about[e]] # None
      BY <2>5, HintFacts, <3>1, <2>1, <2>4 DEF SnapshotOK, TypeOK, LeaseOK
    <3> QED
      BY <3>1, <3>2 DEF SnapshotOK
  <2> QED
    BY <2>5, <2>6, <2>7, <2>8
<1> QED
  BY <1>1, <1>2

(* A claimed job exists: only jobs are ever due.                           *)
LEMMA ClaimKept ==
  ASSUME Kept, NEW a \in Attempts, NEW e \in Executions, Claim(a, e)
  PROVE  Kept'
<1> USE DEF Kept, Claim, send
<1>1. job[a] \in Hints /\ job[a] # None
  BY DEF Leasable, JobOK, TypeOK
<1>2. TypeOK'
  BY <1>1 DEF TypeOK
<1>3. \A x \in Executions : pc'[x] # "fresh" =>
        x = e \/ (x # e /\ pc[x] # "fresh" /\ about'[x] = about[x] /\ snapshot'[x] = snapshot[x])
  BY DEF TypeOK
<1>4. about'[e] = a /\ snapshot'[e] = job[a] /\ pc'[e] = "looking" /\ e \notin recorded
  BY DEF TypeOK, LeaseOK
<1>5. LeaseOK'
  <2>1. \A x \in Executions : pc'[x] # "fresh" => about'[x] \in Attempts
    BY <1>3, <1>4 DEF LeaseOK
  <2>2. ASSUME NEW b \in Attempts, NEW x \in Executions, lease'[b] = x
        PROVE  pc'[x] # "fresh" /\ about'[x] = b /\ x \notin recorded'
    <3>1. CASE b = a
      BY <3>1, <2>2, <1>4 DEF TypeOK
    <3>2. CASE b # a
      <4>1. lease[b] = x
        BY <3>2, <2>2 DEF TypeOK
      <4>2. pc[x] # "fresh" /\ about[x] = b /\ x \notin recorded /\ x # e
        BY <4>1 DEF LeaseOK
      <4> QED
        BY <4>2 DEF TypeOK
    <3> QED
      BY <3>1, <3>2
  <2>3. \A x \in recorded' : pc'[x] = "ended"
    BY <1>4 DEF LeaseOK, TypeOK
  <2> QED
    BY <2>1, <2>2, <2>3 DEF LeaseOK
<1>6. JobOK'
  BY DEF JobOK
<1>7. SnapshotOK'
  <2> SUFFICES ASSUME NEW x \in Executions, pc'[x] # "fresh"
               PROVE  /\ job[about'[x]] # None
                      /\ snapshot'[x] \in {Nothing, job[about'[x]]}
                      /\ finding[x].kind = "candidate" =>
                             snapshot'[x].url = finding[x].url /\ finding[x].url \in Urls
    BY DEF SnapshotOK, TypeOK
  <2>1. CASE x = e
    BY <2>1, <1>1, <1>4 DEF SnapshotOK, Unverified
  <2>2. CASE x # e
    BY <2>2, <1>3 DEF SnapshotOK
  <2> QED
    BY <2>1, <2>2
<1> QED
  BY <1>2, <1>5, <1>6, <1>7

LEMMA LookupKept ==
  ASSUME Kept, NEW e \in Executions, Step(e)
  PROVE  Kept'
<1> USE DEF Kept, send, jobs, lookup, dispatcher
<1>1. CASE FindsNothing(e)
  <2>1. TypeOK'
    BY <1>1 DEF FindsNothing, TypeOK, Findings
  <2>2. LeaseOK' /\ JobOK'
    BY <1>1 DEF FindsNothing, LeaseOK, JobOK, TypeOK
  <2>3. SnapshotOK'
    BY <1>1 DEF FindsNothing, SnapshotOK, TypeOK, Unverified
  <2> QED
    BY <2>1, <2>2, <2>3
<1>2. ASSUME NEW url \in Urls, Finds(e, url)
      PROVE  Kept'
  <2> USE <1>2 DEF Finds
  <2>1. [kind |-> IF snapshot[e].url = None THEN "discovered" ELSE "candidate", url |-> url]
          \in Findings
    BY DEF Findings
  <2>2. TypeOK'
    BY <2>1 DEF TypeOK
  <2>3. LeaseOK' /\ JobOK'
    BY DEF LeaseOK, JobOK, TypeOK
  <2>4. SnapshotOK'
    BY DEF SnapshotOK, TypeOK, Matching
  <2> QED
    BY <2>2, <2>3, <2>4
<1>3. CASE Report(e)
  <2> USE <1>3 DEF Report
  <2>1. about[e] \in Attempts /\ lease[about[e]] = e
    BY DEF LeaseOK, Fenced
  <2>2. TypeOK'
    BY <2>1 DEF TypeOK
  <2>3. LeaseOK'
    <3>1. \A x \in Executions : pc'[x] # "fresh" => about'[x] \in Attempts
      BY DEF LeaseOK, TypeOK
    <3>2. \A b \in Attempts, x \in Executions : lease'[b] = x =>
            b # about[e] /\ lease[b] = x
      BY <2>1, LookupAssumption DEF TypeOK
    <3>3. \A b \in Attempts, x \in Executions : lease'[b] = x =>
            pc'[x] # "fresh" /\ about'[x] = b /\ x \notin recorded'
      BY <3>2 DEF LeaseOK, TypeOK
    <3>4. \A x \in recorded' : pc'[x] = "ended"
      BY DEF LeaseOK, TypeOK
    <3> QED
      BY <3>1, <3>3, <3>4 DEF LeaseOK
  <2>4. JobOK' /\ SnapshotOK'
    BY DEF JobOK, SnapshotOK, TypeOK
  <2> QED
    BY <2>2, <2>3, <2>4
<1>4. CASE ReportFails(e)
  BY <1>4 DEF ReportFails, TypeOK, LeaseOK, JobOK, SnapshotOK
<1> QED
  BY <1>1, <1>2, <1>3, <1>4 DEF Step

LEMMA ClockKept == Kept /\ Clock => Kept'
<1> SUFFICES ASSUME Kept, NEW a \in Attempts, Ripen(a) \/ FallsDue(a) \/ Lapse(a)
             PROVE  Kept'
  BY DEF Clock
<1> USE DEF Kept, send, jobs, lookup, dispatcher
<1>1. TypeOK'
  BY DEF Ripen, FallsDue, Lapse, TypeOK
<1>2. LeaseOK' /\ JobOK' /\ SnapshotOK'
  BY DEF Ripen, FallsDue, Lapse, LeaseOK, JobOK, SnapshotOK
<1> QED
  BY <1>1, <1>2

LEMMA LoopKept ==
  ASSUME Kept,
         \/ Tick \/ ScanDue \/ TickEnds \/ Restart
         \/ \E a \in Attempts : PassesOver(a)
         \/ UNCHANGED vars
  PROVE  Kept'
<1> USE DEF Kept, send, jobs, lookup, dispatcher
<1>1. TypeOK'
  BY LookupAssumption
     DEF Tick, ScanDue, TickEnds, Restart, PassesOver, vars, TypeOK, Phases
<1>2. LeaseOK' /\ JobOK' /\ SnapshotOK'
  BY DEF Tick, ScanDue, TickEnds, Restart, PassesOver, vars, TypeOK,
         LeaseOK, JobOK, SnapshotOK
<1> QED
  BY <1>1, <1>2

LEMMA StepKept == Kept /\ [Next]_vars => Kept'
<1> SUFFICES ASSUME Kept, [Next]_vars PROVE Kept'
  OBVIOUS
<1>1. CASE \E a \in Attempts, hint \in Hints : SendEnds(a, hint)
  BY <1>1, SendKept
<1>2. CASE \E a \in Attempts : Enqueue(a)
  BY <1>2, EnqueueKept
<1>3. CASE \E a \in Attempts, e \in Executions : Claim(a, e)
  BY <1>3, ClaimKept
<1>4. CASE \E e \in Executions : Step(e)
  BY <1>4, LookupKept
<1>5. CASE Clock
  BY <1>5, ClockKept
<1>6. CASE \/ Tick \/ ScanDue \/ TickEnds \/ Restart
           \/ \E a \in Attempts : PassesOver(a)
           \/ UNCHANGED vars
  BY <1>6, LoopKept
<1> QED
  BY <1>1, <1>2, <1>3, <1>4, <1>5, <1>6 DEF Next, Dispatch

-----------------------------------------------------------------------------
(* The theorems                                                            *)

(* The ledgers hold what their columns and checks admit.                   *)
THEOREM TypeCorrect == Spec => []TypeOK
<1>1. Kept => TypeOK
  BY DEF Kept
<1> QED
  BY <1>1, InitKept, StepKept, PTL DEF Spec

THEOREM Invariance == Spec => []Kept
  BY InitKept, StepKept, PTL DEF Spec

(* No step takes back what a job has learnt of its send.                   *)
LEMMA JobStep ==
  ASSUME Kept, [Next]_vars, NEW a \in Attempts, job[a] \notin {None, Nothing}
  PROVE  job'[a] = job[a] /\ job[a] = original[a]
<1>1. job[a] = original[a]
  BY DEF Kept, JobOK
<1>2. job' = job \/ \E b \in Attempts : job' = [job EXCEPT ![b] = Enriched(@, original[b])]
  BY DEF Next, Dispatch, Step, Clock, SendEnds, Tick, ScanDue, TickEnds, Enqueue, PassesOver,
         Claim, FindsNothing, Finds, Report, ReportFails, Ripen, FallsDue, Lapse, Restart,
         vars, jobs
<1> QED
  BY <1>1, <1>2 DEF Kept, TypeOK, Enriched

(* What a job has learnt of its send it keeps, and it is the send's own.   *)
THEOREM EnrichmentKept == Spec => EnrichmentIsKept
<1>1. Kept /\ [Next]_vars =>
        \A a \in Attempts : job[a] \notin {None, Nothing} =>
            job'[a] = job[a] /\ job[a] = original[a]
  BY JobStep
<1> QED
  BY <1>1, Invariance, PTL DEF Spec, EnrichmentIsKept

(* What is shown of a lookup does not disappear: only the hint of a job    *)
(* without one ever changes, and no candidate was read back without one.   *)
THEOREM ProjectionStable == Spec => ProjectionIsStable
<1>1. Kept /\ Kept' /\ [Next]_vars =>
        \A e \in Executions : Projected(e) => Projected(e)'
  <2> SUFFICES ASSUME Kept, Kept', [Next]_vars, NEW e \in Executions, Projected(e)
               PROVE  Projected(e)'
    OBVIOUS
  <2>1. e \in recorded /\ pc[e] = "ended" /\ about[e] \in Attempts
    BY DEF Projected, Kept, LeaseOK
  <2>2. e \in recorded' /\ about'[e] = about[e] /\ finding'[e] = finding[e]
    BY <2>1 DEF Kept, TypeOK, Next, Dispatch, Step, Clock, SendEnds, Tick, ScanDue, TickEnds,
           Enqueue, PassesOver, Claim, FindsNothing, Finds, Report, ReportFails, Ripen,
           FallsDue, Lapse, Restart, vars, lookup
  <2>3. CASE finding[e].kind # "candidate"
    BY <2>2, <2>3 DEF Projected
  <2>4. CASE finding[e].kind = "candidate"
    <3>1. job[about[e]].url \in Urls /\ job[about[e]] \in Hints
      BY <2>1, <2>4 DEF Projected, Kept, SnapshotOK, TypeOK
    <3>2. job[about[e]] \notin {None, Nothing}
      BY <3>1, HintFacts, LookupAssumption DEF Nothing
    <3>3. job'[about[e]] = job[about[e]]
      BY <2>1, <3>2, JobStep
    <3> QED
      BY <2>2, <3>3 DEF Projected
  <2> QED
    BY <2>3, <2>4
<1> QED
  BY <1>1, Invariance, PTL DEF Spec, ProjectionIsStable

(* Every lookup step is one of fenced work on the attempts, or none.       *)
THEOREM Refinement == Spec => LookupsAreFenced
<1>1. Init => Ledger!Init
  BY DEF Init, Ledger!Init
<1>2. Kept /\ [Next]_vars => [Ledger!Next]_(Ledger!vars)
  <2> SUFFICES ASSUME Kept, [Next]_vars PROVE [Ledger!Next]_(Ledger!vars)
    OBVIOUS
  <2> DEFINE taken == {e \in Executions : pc[e] # "fresh"}
  <2>1. ASSUME NEW a \in Attempts, NEW e \in Executions, Claim(a, e)
        PROVE  Ledger!Take(a, e)
    <3>1. taken' = taken \union {e}
      BY <2>1 DEF Claim, Kept, TypeOK
    <3> QED
      BY <2>1, <3>1 DEF Claim, Ledger!Take
  <2>2. ASSUME NEW e \in Executions, Report(e)
        PROVE  about[e] \in Attempts /\ Ledger!Settle(about[e], e)
    <3>1. taken' = taken /\ e \in taken
      BY <2>2 DEF Report, Kept, TypeOK
    <3>2. e \notin recorded /\ about[e] \in Attempts
      BY <2>2 DEF Report, Kept, LeaseOK
    <3> QED
      BY <2>2, <3>1, <3>2 DEF Report, Fenced, Ledger!Settle
  <2>3. CASE lease' = lease /\ recorded' = recorded /\ taken' = taken
    BY <2>3 DEF Ledger!vars
  <2>4. ASSUME NEW e \in Executions,
               FindsNothing(e) \/ ReportFails(e) \/ \E url \in Urls : Finds(e, url)
        PROVE  taken' = taken /\ lease' = lease /\ recorded' = recorded
    BY <2>4 DEF FindsNothing, Finds, ReportFails, Kept, TypeOK, jobs
  <2>5. ASSUME \/ Tick \/ ScanDue \/ TickEnds \/ Restart \/ Clock \/ UNCHANGED vars
               \/ \E a \in Attempts : Enqueue(a) \/ PassesOver(a)
               \/ \E a \in Attempts, hint \in Hints : SendEnds(a, hint)
        PROVE  taken' = taken /\ lease' = lease /\ recorded' = recorded
    BY <2>5 DEF SendEnds, Tick, ScanDue, TickEnds, Enqueue, PassesOver, Clock, Ripen, FallsDue,
           Lapse, Restart, vars, lookup, jobs, Kept, TypeOK
  <2> QED
    BY <2>1, <2>2, <2>3, <2>4, <2>5 DEF Next, Dispatch, Step, Ledger!Next
<1> QED
  BY <1>1, <1>2, Invariance, PTL DEF Spec, LookupsAreFenced, Ledger!Spec
=============================================================================
