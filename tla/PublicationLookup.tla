-------------------------- MODULE PublicationLookup -------------------------
(***************************************************************************)
(* Looking for posts whose sending ended ambiguously.  Every half minute   *)
(* the dispatcher queues one lookup job per publication attempt that has   *)
(* no outcome, or an unknown one, five minutes after its claim, and leases *)
(* every job that is due to an execution of its own.  The execution looks  *)
(* at the candidate address the send left behind, or searches the account, *)
(* with the job as it was when claimed, and reports one observation.       *)
(*                                                                         *)
(* Meanwhile the send itself may still end, and add to the job the address *)
(* and connector version it had been queued without; leases run out; the   *)
(* process restarts.  A lookup never changes the outcome of the send.      *)
(***************************************************************************)
EXTENDS Naturals

CONSTANTS
    Attempts,      \* publication attempts
    Rich,          \* those with structure and media, which no lookup can prove
    Executions,    \* single-use ids of lookups
    Urls,          \* public addresses of posts
    MaxRestarts,   \* bound on restarts of the API process
    None

ASSUME LookupAssumption ==
    /\ None \notin Executions
    /\ None \notin Urls
    /\ None \notin [known : BOOLEAN, url : Urls \union {None}]
    /\ Rich \subseteq Attempts
    /\ MaxRestarts \in Nat

VARIABLES
    outcome,        \* ledger of attempts: none, unknown or decided ...
    original,       \* ... and what it says: version known, candidate address
    ripe,           \* attempts claimed five minutes ago
    job,            \* publication_lookup_jobs: [known, url], or None
    due,            \* jobs whose next_due_at has come
    lease, lapsed,  \* execution that holds a job, and whether time ran out
    pc, about, snapshot, finding,  \* executions: phase, attempt, job at claim, result
    recorded,       \* publication_lookup_observations
    phase, page,    \* dispatcher: the loop it is in, and its last scan
    restarts

send == <<outcome, original, ripe>>
jobs == <<job, due, lease, lapsed>>
lookup == <<pc, about, snapshot, finding>>
dispatcher == <<phase, page>>
vars == <<send, jobs, lookup, recorded, dispatcher, restarts>>

Nothing == [known |-> FALSE, url |-> None]

(* A candidate address counts only next to a connector version. *)
Hints == {Nothing} \union [known : {TRUE}, url : Urls \union {None}]
Unverified == [kind |-> "unknown", url |-> None]
Findings == {Unverified} \union [kind : {"candidate", "discovered"}, url : Urls]
Phases == {"idle", "enqueue", "claim"}

TypeOK ==
    /\ outcome \in [Attempts -> {"none", "unknown", "decided"}]
    /\ original \in [Attempts -> Hints]
    /\ ripe \in SUBSET Attempts
    /\ job \in [Attempts -> Hints \union {None}]
    /\ due \in SUBSET Attempts
    /\ lease \in [Attempts -> Executions \union {None}]
    /\ lapsed \in SUBSET Attempts
    /\ pc \in [Executions -> {"fresh", "looking", "reporting", "ended"}]
    /\ about \in [Executions -> Attempts \union {None}]
    /\ snapshot \in [Executions -> Hints]
    /\ finding \in [Executions -> Findings]
    /\ recorded \in SUBSET Executions
    /\ phase \in Phases
    /\ page \in SUBSET Attempts
    /\ restarts \in 0..MaxRestarts

Init ==
    /\ outcome = [a \in Attempts |-> "none"]
    /\ original = [a \in Attempts |-> Nothing]
    /\ ripe = {}
    /\ job = [a \in Attempts |-> None]
    /\ due = {}
    /\ lease = [a \in Attempts |-> None]
    /\ lapsed = {}
    /\ pc = [e \in Executions |-> "fresh"]
    /\ about = [e \in Executions |-> None]
    /\ snapshot = [e \in Executions |-> Nothing]
    /\ finding = [e \in Executions |-> Unverified]
    /\ recorded = {}
    /\ phase = "idle"
    /\ page = {}
    /\ restarts = 0

-----------------------------------------------------------------------------
(* The send.                                                               *)

(* The run that holds the attempt records how the send ended, once.        *)
SendEnds(a, hint) ==
    /\ outcome[a] = "none"
    /\ \/ outcome' = [outcome EXCEPT ![a] = "unknown"]
       \/ outcome' = [outcome EXCEPT ![a] = "decided"] /\ hint = Nothing
    /\ a \in Rich => hint.url = None
    /\ original' = [original EXCEPT ![a] = hint]
    /\ UNCHANGED <<ripe, jobs, lookup, recorded, dispatcher, restarts>>

Ripen(a) ==
    /\ a \notin ripe
    /\ ripe' = ripe \union {a}
    /\ UNCHANGED <<outcome, original, jobs, lookup, recorded, dispatcher, restarts>>

-----------------------------------------------------------------------------
(* The dispatcher, one loop over what it scanned and then another.         *)

(* Ambiguous attempts without a job, or whose job still lacks the version  *)
(* that their outcome has since told.                                      *)
Unresolved(a) ==
    /\ a \in ripe
    /\ outcome[a] \in {"none", "unknown"}
    /\ \/ job[a] = None
       \/ ~job[a].known /\ outcome[a] = "unknown" /\ original[a].known

Tick ==
    /\ phase = "idle"
    /\ phase' = "enqueue"
    /\ page' = {a \in Attempts : Unresolved(a)}
    /\ UNCHANGED <<send, jobs, lookup, recorded, restarts>>

(* Inserting an existing job does nothing; a job without version and       *)
(* address then takes both from the outcome.                               *)
EnrichedFaulty(old, hint) == IF old = None THEN hint ELSE old
Enriched(old, hint) == IF old \in {None, Nothing} THEN hint ELSE old

(* An attempt that was decided since the scan is refused. An address that  *)
(* is added makes a job due that has no next time; but no job has none,    *)
(* since its insertion and every report set one, which is kept.            *)
Enqueue(a) ==
    /\ phase = "enqueue"
    /\ a \in page
    /\ page' = page \ {a}
    /\ IF outcome[a] = "decided"
       THEN UNCHANGED jobs
       ELSE /\ job' = [job EXCEPT ![a] = Enriched(@, original[a])]
            /\ due' = IF job[a] = None THEN due \union {a} ELSE due
            /\ UNCHANGED <<lease, lapsed>>
    /\ UNCHANGED <<send, lookup, recorded, phase, restarts>>

LeasableFaulty(a) == a \in due /\ lease[a] = None
Leasable(a) == a \in due /\ (lease[a] = None \/ a \in lapsed)

ScanDue ==
    /\ phase = "enqueue"
    /\ page = {}
    /\ phase' = "claim"
    /\ page' = {a \in Attempts : job[a] # None /\ Leasable(a)}
    /\ UNCHANGED <<send, jobs, lookup, recorded, restarts>>

(* The claim is durable before the task that does the work exists.         *)
Claim(a, e) ==
    /\ phase = "claim"
    /\ a \in page
    /\ Leasable(a)
    /\ pc[e] = "fresh"
    /\ page' = page \ {a}
    /\ lease' = [lease EXCEPT ![a] = e]
    /\ lapsed' = lapsed \ {a}
    /\ pc' = [pc EXCEPT ![e] = "looking"]
    /\ about' = [about EXCEPT ![e] = a]
    /\ snapshot' = [snapshot EXCEPT ![e] = job[a]]
    /\ UNCHANGED <<send, job, due, finding, recorded, phase, restarts>>

(* A candidate is passed over: the claim is refused because the job is not *)
(* due any more, or the database is out of reach.                          *)
PassesOver(a) ==
    /\ a \in page
    /\ page' = page \ {a}
    /\ UNCHANGED <<send, jobs, lookup, recorded, phase, restarts>>

TickEnds ==
    /\ phase = "claim"
    /\ page = {}
    /\ phase' = "idle"
    /\ UNCHANGED <<send, jobs, lookup, recorded, page, restarts>>

-----------------------------------------------------------------------------
(* The executions.                                                         *)

(* The lookup proves nothing: the account is busy, the identity or version *)
(* differs, the runner fails, or the answer does not match the snapshot.   *)
FindsNothing(e) ==
    /\ pc[e] = "looking"
    /\ pc' = [pc EXCEPT ![e] = "reporting"]
    /\ finding' = [finding EXCEPT ![e] = Unverified]
    /\ UNCHANGED <<send, jobs, about, snapshot, recorded, dispatcher, restarts>>

(* The post is read back at the candidate address or, without one, found   *)
(* as the only match among the account's own posts.                        *)
Matching(e, url) ==
    /\ about[e] \notin Rich
    /\ snapshot[e].url \in {None, url}

Finds(e, url) ==
    /\ pc[e] = "looking"
    /\ Matching(e, url)
    /\ pc' = [pc EXCEPT ![e] = "reporting"]
    /\ finding' = [finding EXCEPT ![e] =
           [kind |-> IF snapshot[e].url = None THEN "discovered" ELSE "candidate",
            url |-> url]]
    /\ UNCHANGED <<send, jobs, about, snapshot, recorded, dispatcher, restarts>>

(* Only the current lease, in time, may report.                            *)
FencedFaulty(e) == lease[about[e]] # None
Fenced(e) == lease[about[e]] = e /\ about[e] \notin lapsed

(* It appends the observation and touches nothing of the job's snapshot.   *)
ReportFaulty(e) ==
    /\ pc[e] = "reporting"
    /\ Fenced(e)
    /\ pc' = [pc EXCEPT ![e] = "ended"]
    /\ recorded' = recorded \union {e}
    /\ job' = [job EXCEPT ![about[e]] = snapshot[e]]
    /\ lease' = [lease EXCEPT ![about[e]] = None]
    /\ due' = due \ {about[e]}
    /\ UNCHANGED <<send, lapsed, about, snapshot, finding, dispatcher, restarts>>

Report(e) ==
    /\ pc[e] = "reporting"
    /\ Fenced(e)
    /\ pc' = [pc EXCEPT ![e] = "ended"]
    /\ recorded' = recorded \union {e}
    /\ lease' = [lease EXCEPT ![about[e]] = None]
    /\ due' = due \ {about[e]}
    /\ UNCHANGED <<send, job, lapsed, about, snapshot, finding, dispatcher, restarts>>

(* The report is refused, or does not reach the database; the task ends.   *)
ReportFails(e) ==
    /\ pc[e] = "reporting"
    /\ pc' = [pc EXCEPT ![e] = "ended"]
    /\ UNCHANGED <<send, jobs, about, snapshot, finding, recorded, dispatcher, restarts>>

-----------------------------------------------------------------------------
(* Time and failures.                                                      *)

FallsDue(a) ==
    /\ job[a] # None
    /\ a \notin due
    /\ due' = due \union {a}
    /\ UNCHANGED <<send, job, lease, lapsed, lookup, recorded, dispatcher, restarts>>

Lapse(a) ==
    /\ lease[a] # None
    /\ a \notin lapsed
    /\ lapsed' = lapsed \union {a}
    /\ UNCHANGED <<send, job, due, lease, lookup, recorded, dispatcher, restarts>>

(* The process goes down with its tasks and its pages.                     *)
Restart ==
    /\ restarts < MaxRestarts
    /\ restarts' = restarts + 1
    /\ pc' = [e \in Executions |-> IF pc[e] = "fresh" THEN "fresh" ELSE "ended"]
    /\ phase' = "idle"
    /\ page' = {}
    /\ UNCHANGED <<send, jobs, about, snapshot, finding, recorded>>

-----------------------------------------------------------------------------
Dispatch ==
    \/ Tick \/ ScanDue \/ TickEnds
    \/ \E a \in Attempts :
           Enqueue(a) \/ PassesOver(a) \/ \E e \in Executions : Claim(a, e)

Step(e) ==
    \/ FindsNothing(e) \/ Report(e) \/ ReportFails(e)
    \/ \E url \in Urls : Finds(e, url)

Clock == \E a \in Attempts : Ripen(a) \/ FallsDue(a) \/ Lapse(a)

Next ==
    \/ \E a \in Attempts, hint \in Hints : SendEnds(a, hint)
    \/ Dispatch
    \/ \E e \in Executions : Step(e)
    \/ Clock
    \/ Restart

Spec == Init /\ [][Next]_vars

(* The dispatcher's loop goes on, time passes, and an enqueue or a claim   *)
(* that is tried for ever is not refused by the database for ever.         *)
Fairness ==
    /\ WF_vars(Dispatch)
    /\ \A a \in Attempts :
           /\ SF_vars(Enqueue(a))
           /\ SF_vars(\E e \in Executions : Claim(a, e))
           /\ WF_vars(FallsDue(a))
           /\ WF_vars(Lapse(a))

FairSpec == Spec /\ Fairness

-----------------------------------------------------------------------------
(* What a reader of the lookup is shown.                                   *)

ProjectedFaulty(e) ==
    /\ e \in recorded
    /\ finding[e].kind # "unknown"
    /\ about[e] \notin Rich
    /\ job[about[e]].url \in {None, finding[e].url}

(* An address read back at the candidate is shown while it is the job's    *)
(* candidate; a discovered one rests on the binding made before the send.  *)
Projected(e) ==
    /\ e \in recorded
    /\ finding[e].kind # "unknown"
    /\ about[e] \notin Rich
    /\ finding[e].kind = "candidate" =>
           job[about[e]].known /\ job[about[e]].url = finding[e].url

-----------------------------------------------------------------------------
(* Lookups are fenced work on attempts: at most the execution that holds   *)
(* the lease has an observation recorded, once, and one whose lease was    *)
(* given to another never (finish, persistence publication_lookup.rs).     *)
Ledger == INSTANCE FencedWork WITH
    Jobs <- Attempts, Claimants <- Executions, holding <- lease,
    taken <- {e \in Executions : pc[e] # "fresh"}, settled <- recorded

LookupsAreFenced == Ledger!Spec

(* A job that carries the version and candidate of its send keeps them,    *)
(* and they are those of the unknown outcome, whatever a lookup claimed    *)
(* earlier reports later (enqueue enriches only an empty snapshot).        *)
EnrichmentIsKept ==
    [][\A a \in Attempts :
          job[a] \notin {None, Nothing} =>
              job'[a] = job[a] /\ job[a] = original[a]]_vars

(* An address once shown as observed stays shown, although the outcome of  *)
(* the send, with a candidate of its own, may reach the job only later     *)
(* (public_observed_url judges a discovery without the candidate).         *)
ProjectionIsStable ==
    [][\A e \in Executions : Projected(e) => Projected(e)']_vars

(* The outcome of an ambiguous send reaches the job although the job was   *)
(* queued while the send still ran, through restarts of the dispatcher.    *)
EnrichmentArrives ==
    \A a \in Attempts :
        a \in ripe /\ outcome[a] = "unknown" /\ original[a].known
            ~> job[a] # None /\ job[a] = original[a]

(* A lease does not outlive its execution for ever: it is given up or goes *)
(* to another execution, as long as there are ids left in the instance.    *)
LeasesTurnOver ==
    \A a \in Attempts, e \in Executions :
        lease[a] = e ~> lease[a] # e \/ \A x \in Executions : pc[x] # "fresh"
=============================================================================
