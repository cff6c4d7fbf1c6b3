------------------------ MODULE ProviderConversations -----------------------
(***************************************************************************)
(* What becomes of a conversation with a provider after a measurement.  It *)
(* is to be deleted there, but only once all of its messages are retained  *)
(* here.  A capture may be incomplete; then a recovery reads the           *)
(* conversation again and stores what it read as evidence.  Cleanups and   *)
(* recoveries are queues of their own, leased to executions that compete   *)
(* with each other, and with new measurements, for the account.            *)
(*                                                                         *)
(* The runner asks for permission once more before it deletes.  It works   *)
(* on whatever has become of the execution that called it: an execution    *)
(* gives up, its process dies, its lease runs out and goes to another.  A  *)
(* deletion whose answer is lost may happen at any later time.             *)
(***************************************************************************)
CONSTANTS
    Conversations,   \* conversations of one account that were captured
    Cleaners,        \* single-use lease ids of cleanups
    Readers,         \* and of recoveries
    Channel,         \* the account's channel work: measurements
    Own,             \* the message inventory of a complete capture
    None

Workers == Cleaners \union Readers

ASSUME ConversationAssumption ==
    /\ Cleaners \intersect Readers = {}
    /\ Channel \notin Workers \union {None}
    /\ None \notin Workers \union Conversations \union {Own}
    /\ Own \notin Readers

VARIABLES
    row, lease,       \* provider_conversation_cleanup: state and lease_id
    boundary,         \* conversations with an unknown attempt that got to the deletion
    job, reading,     \* observation_completion_recovery_jobs: state and lease_id
    inventory,        \* messages retained: Own, those of the last recovery, or None
    lapsed,           \* leases whose time has run out
    holder, browser,  \* reservation of the account, and sessions of the runner
    open, shared,     \* an unanswered attempt; conversations captured elsewhere too
    pc, about, action, seen, prior, result,  \* executions: phase, claim and outcome
    rpc,              \* the runner's cleanup for an execution
    present, late,    \* the provider's conversations, deletions it has yet to do
    asked, doubt      \* history: deletions begun, and not yet looked after

queue == <<row, lease, boundary>>
recovery == <<job, reading, inventory>>
account == <<holder, browser>>
attempts == <<open, shared>>
claims == <<about, action, seen, prior>>
provider == <<present, late>>
history == <<asked, doubt>>
vars == <<queue, recovery, lapsed, account, attempts, pc, claims, result, rpc,
          provider, history>>

Rows == {"none", "pending", "running", "deleted", "unknown", "failed", "needs_login"}
Jobs == {"none", "pending", "running", "retry", "needs_login", "recovered", "retained"}
\* cut is an unknown outcome whose diagnostic names the deletion itself
CleanupOutcomes == {"deleted", "present", "unknown", "cut", "failed", "needs_login"}
RecoveryOutcomes == {"recovered", "retry", "needs_login", "retained"}
Busy == {"asked", "granted", "sent"}
Answers == {"deleted", "present", "absent", "retained", "unknown", "cut", "needs_login"}
Phases == {"fresh", "claimed", "reserved", "authorized", "browsing", "asking",
           "saving", "reporting", "ended"}

TypeOK ==
    /\ row \in [Conversations -> Rows]
    /\ lease \in [Conversations -> Cleaners \union {None}]
    /\ boundary \in SUBSET Conversations
    /\ job \in [Conversations -> Jobs]
    /\ reading \in [Conversations -> Readers \union {None}]
    /\ inventory \in [Conversations -> Readers \union {Own, None}]
    /\ lapsed \in SUBSET Workers
    /\ holder \in Workers \union {Channel, None}
    /\ browser \in SUBSET Workers
    /\ open \in BOOLEAN
    /\ shared \in SUBSET Conversations
    /\ pc \in [Workers -> Phases]
    /\ about \in [Workers -> Conversations \union {None}]
    /\ action \in [Cleaners -> {"none", "delete", "reconcile"}]
    /\ seen \in [Cleaners -> Readers \union {Own, None}]
    /\ prior \in SUBSET Cleaners
    /\ result \in [Workers -> {"none"} \union CleanupOutcomes \union RecoveryOutcomes]
    /\ rpc \in [Cleaners -> {"none", "called"} \union Busy \union Answers]
    /\ present \in SUBSET Conversations
    /\ late \in SUBSET Conversations
    /\ asked \in SUBSET Conversations
    /\ doubt \in SUBSET Conversations

(* Captures are there, complete or not; nothing is queued. *)
Init ==
    /\ row = [c \in Conversations |-> "none"]
    /\ lease = [c \in Conversations |-> None]
    /\ boundary = {}
    /\ job = [c \in Conversations |-> "none"]
    /\ reading = [c \in Conversations |-> None]
    /\ inventory \in [Conversations -> {Own, None}]
    /\ lapsed = {} /\ holder = None /\ browser = {}
    /\ open = FALSE /\ shared = {}
    /\ pc = [w \in Workers |-> "fresh"]
    /\ about = [w \in Workers |-> None]
    /\ action = [e \in Cleaners |-> "none"]
    /\ seen = [e \in Cleaners |-> None]
    /\ prior = {}
    /\ result = [w \in Workers |-> "none"]
    /\ rpc = [e \in Cleaners |-> "none"]
    /\ present = Conversations /\ late = {}
    /\ asked = {} /\ doubt = {}

Moves(w, from, to) == pc[w] = from /\ pc' = [pc EXCEPT ![w] = to]

(* An execution is done, whatever is left to close, with outcome o. *)
Concludes(w, o) ==
    /\ pc' = [pc EXCEPT ![w] = "reporting"]
    /\ result' = [result EXCEPT ![w] = o]

(* What an execution concluded is gone with it, reported or not. *)
Forgets(w) == result' = [result EXCEPT ![w] = "none"]

-----------------------------------------------------------------------------
(* The two queues.  When a retry is due is left open: any time will do.    *)

Leasable(holding, c) == holding[c] = None \/ holding[c] \in lapsed

EnqueueCleanup(c) ==
    /\ row[c] = "none"
    /\ row' = [row EXCEPT ![c] = "pending"]
    /\ UNCHANGED <<lease, boundary, recovery, lapsed, account, attempts, pc, claims, result,
                   rpc, provider, history>>

(* After an attempt whose end is not known to have deleted nothing, the    *)
(* next one only looks whether the conversation is there.                  *)
ActionFaulty(state) ==
    IF state \in {"unknown", "needs_login"} THEN "reconcile" ELSE "delete"
Action(state) ==
    IF state \in {"running", "unknown", "needs_login"} THEN "reconcile" ELSE "delete"

ClaimCleanup(c, e) ==
    /\ row[c] \notin {"none", "deleted"} /\ Leasable(lease, c)
    /\ ~open /\ c \notin shared
    /\ Moves(e, "fresh", "claimed")
    /\ action' = [action EXCEPT ![e] = Action(row[c])]
    /\ row' = [row EXCEPT ![c] = "running"]
    /\ lease' = [lease EXCEPT ![c] = e]
    /\ about' = [about EXCEPT ![e] = c]
    /\ seen' = [seen EXCEPT ![e] = inventory[c]]
    /\ prior' = IF c \in boundary THEN prior \union {e} ELSE prior
    /\ UNCHANGED <<boundary, recovery, lapsed, account, attempts, result, rpc, provider, history>>

(* Only what the outcome proves: a look that failed proves nothing. *)
NextState(o, act) ==
    CASE o \in {"deleted", "needs_login"} -> o
      [] o = "present" -> "pending"
      [] o = "failed" /\ act = "delete" -> "failed"
      [] OTHER -> "unknown"

FinishCleanup(e) ==
    LET c == about[e] IN
    /\ Moves(e, "reporting", "ended")
    /\ lease[c] = e /\ e \notin lapsed
    /\ row' = [row EXCEPT ![c] = NextState(result[e], action[e])]
    /\ lease' = [lease EXCEPT ![c] = None]
    /\ boundary' = IF result[e] = "cut" THEN boundary \union {c} ELSE boundary
    /\ Forgets(e)
    /\ UNCHANGED <<recovery, lapsed, account, attempts, claims, rpc, provider, history>>

(* Only an incomplete capture is queued, and one whose source cannot be    *)
(* bound to a request is kept out for good.                                *)
EnqueueRecovery(c) ==
    /\ job[c] = "none" /\ inventory[c] # Own
    /\ \E s \in {"pending", "retained"} : job' = [job EXCEPT ![c] = s]
    /\ UNCHANGED <<queue, reading, inventory, lapsed, account, attempts, pc, claims, result,
                   rpc, provider, history>>

(* Evidence of an earlier recovery makes another one unnecessary. *)
ClaimRecovery(c, r) ==
    /\ job[c] \notin {"none", "recovered", "retained"} /\ Leasable(reading, c)
    /\ pc[r] = "fresh"
    /\ IF inventory[c] # None
       THEN /\ job' = [job EXCEPT ![c] = "recovered"]
            /\ reading' = [reading EXCEPT ![c] = None]
            /\ UNCHANGED <<pc, about>>
       ELSE /\ job' = [job EXCEPT ![c] = "running"]
            /\ reading' = [reading EXCEPT ![c] = r]
            /\ about' = [about EXCEPT ![r] = c]
            /\ Moves(r, "fresh", "claimed")
    /\ UNCHANGED <<queue, inventory, lapsed, account, attempts, action, seen, prior, result,
                   rpc, provider, history>>

FinishRecovery(r) ==
    LET c == about[r] IN
    /\ Moves(r, "reporting", "ended")
    /\ reading[c] = r /\ r \notin lapsed
    /\ result[r] = "recovered" => inventory[c] # None
    /\ job' = [job EXCEPT ![c] = result[r]]
    /\ reading' = [reading EXCEPT ![c] = None]
    /\ Forgets(r)
    /\ UNCHANGED <<queue, inventory, lapsed, account, attempts, claims, rpc, provider, history>>

(* The outcome is refused, or does not reach the database. *)
FinishFails(w) ==
    /\ Moves(w, "reporting", "ended")
    /\ Forgets(w)
    /\ UNCHANGED <<queue, recovery, lapsed, account, attempts, claims, rpc, provider, history>>

-----------------------------------------------------------------------------
(* An execution at work, with the account reserved until its lease ends.   *)

Reserve(w) ==
    /\ Moves(w, "claimed", "reserved")
    /\ holder = None /\ w \notin lapsed
    /\ holder' = w
    /\ UNCHANGED <<queue, recovery, lapsed, browser, attempts, claims, result, rpc, provider, history>>

(* authorize_delete: the lease and the reservation are current, nothing of *)
(* the account is unanswered, nobody else captured the conversation, and   *)
(* what is retained of it is what the claim knew of.                       *)
AuthorizedFaulty(e) ==
    /\ lease[about[e]] = e /\ e \notin lapsed /\ action[e] = "delete"
    /\ holder = e
    /\ ~open /\ about[e] \notin shared
    /\ inventory[about[e]] = seen[e]

Authorized(e) ==
    LET c == about[e] IN
    /\ lease[c] = e /\ e \notin lapsed /\ action[e] = "delete"
    /\ holder = e
    /\ ~open /\ c \notin shared
    /\ inventory[c] # None /\ inventory[c] = seen[e]

(* A deletion is checked before a browser is started, a look is not. *)
Recheck(e) ==
    /\ Moves(e, "reserved", "authorized")
    /\ action[e] = "delete" => Authorized(e)
    /\ UNCHANGED <<queue, recovery, lapsed, account, attempts, claims, result, rpc, provider, history>>

(* Whatever goes wrong before a browser is started: deadline, reservation, *)
(* ownership or authorization.  The reservation is given back, if that     *)
(* succeeds.                                                               *)
Prepared(w) == pc[w] \in {"claimed", "reserved"}

Decline(w) ==
    /\ Prepared(w)
    /\ IF w \in Cleaners THEN Concludes(w, "failed")
       ELSE \E o \in {"retry"} \union
                     IF pc[w] = "claimed" THEN {"retained"} ELSE {} : Concludes(w, o)
    /\ holder' \in IF holder = w THEN {w, None} ELSE {holder}
    /\ UNCHANGED <<queue, recovery, lapsed, browser, attempts, claims, rpc, provider, history>>

(* The start of the browser takes the reservation over; its answer may be  *)
(* lost.                                                                   *)
OpenBrowser(w) ==
    /\ pc[w] = IF w \in Cleaners THEN "authorized" ELSE "reserved"
    /\ holder = w
    /\ browser' = browser \union {w}
    /\ \/ pc' = [pc EXCEPT ![w] = "browsing"] /\ UNCHANGED result
       \/ Concludes(w, IF w \in Cleaners THEN "unknown" ELSE "retry")
    /\ UNCHANGED <<queue, recovery, lapsed, holder, attempts, claims, rpc, provider, history>>

(* No browser, no account or no time: an unknown outcome of a deletion,    *)
(* unless it is known to be too late to begin or the wrong account.        *)
GiveUp(w) ==
    /\ pc[w] \in {"authorized", "browsing"}
    /\ IF w \in Cleaners
       THEN \E o \in {"unknown"} \union
                     IF pc[w] = "browsing" THEN {"failed", "needs_login"} ELSE {} : Concludes(w, o)
       ELSE \E o \in {"retry", "needs_login", "retained"} : Concludes(w, o)
    /\ UNCHANGED <<queue, recovery, lapsed, account, attempts, claims, rpc, provider, history>>

AskRunner(e) ==
    /\ Moves(e, "browsing", "asking")
    /\ rpc' = [rpc EXCEPT ![e] = "called"]
    /\ UNCHANGED <<queue, recovery, lapsed, account, attempts, claims, result, provider, history>>

(* The runner's answer, as far as it proves anything: absence proves a     *)
(* deletion only if an earlier attempt got that far, with the messages     *)
(* retained.                                                               *)
OutcomeFaulty(e) ==
    LET s == rpc[e] IN
    CASE s \in {"deleted", "present", "needs_login", "cut"} -> s
      [] s = "absent" -> "deleted"
      [] s = "retained" /\ action[e] = "delete" -> "failed"
      [] OTHER -> "unknown"

Outcome(e) ==
    LET s == rpc[e] IN
    CASE s \in {"deleted", "present", "needs_login", "cut"} -> s
      [] s = "absent" /\ e \in prior /\ seen[e] # None -> "deleted"
      [] s = "retained" /\ action[e] = "delete" -> "failed"
      [] OTHER -> "unknown"

TakeAnswer(e) ==
    /\ pc[e] = "asking" /\ rpc[e] \in Answers
    /\ Concludes(e, Outcome(e))
    /\ UNCHANGED <<queue, recovery, lapsed, account, attempts, claims, rpc, provider, history>>

(* The answer is late or lost; the runner may well go on. *)
StopWaiting(e) ==
    /\ pc[e] = "asking"
    /\ Concludes(e, "unknown")
    /\ UNCHANGED <<queue, recovery, lapsed, account, attempts, claims, rpc, provider, history>>

(* A recovery reads the conversation, if it is there, and stores what it   *)
(* read, which may equal what an earlier one read.  Storing is not fenced  *)
(* by the lease, only begun before its end, and may outlast the wait for   *)
(* it.                                                                     *)
ReadHistory(r) ==
    /\ Moves(r, "browsing", "saving")
    /\ r \in browser /\ r \notin lapsed /\ about[r] \in present
    /\ UNCHANGED <<queue, recovery, lapsed, account, attempts, claims, result, rpc, provider, history>>

SaveEvidence(r) ==
    /\ pc[r] = "saving"
    /\ \/ /\ \E i \in {r, inventory[about[r]]} \ {None} :
                 inventory' = [inventory EXCEPT ![about[r]] = i]
          /\ \E o \in {"recovered", "retry"} : Concludes(r, o)
       \/ \E o \in {"retry", "retained"} : Concludes(r, o) /\ UNCHANGED inventory
    /\ UNCHANGED <<queue, job, reading, lapsed, account, attempts, claims, rpc, provider, history>>

(* Disposal is refused while the runner works; an execution closes its own *)
(* browser at its end, and the reconciler those of overdue executions.     *)
Dispose(w) ==
    /\ w \in browser
    /\ pc[w] \in {"reporting", "ended"} \/ w \in lapsed
    /\ w \in Cleaners => rpc[w] \notin Busy
    /\ browser' = browser \ {w}
    /\ holder' = None
    /\ UNCHANGED <<queue, recovery, lapsed, attempts, pc, claims, result, rpc, provider, history>>

(* A reservation without a browser is given back at the end of its         *)
(* execution, or ends with its lease.                                      *)
UnboundFaulty(w) == holder = w
Unbound(w) == holder = w /\ w \notin browser

Vacate(w) ==
    /\ Unbound(w)
    /\ w \in lapsed \/ pc[w] = "reporting"
    /\ holder' = None
    /\ UNCHANGED <<queue, recovery, lapsed, browser, attempts, pc, claims, result, rpc,
                   provider, history>>

-----------------------------------------------------------------------------
(* The runner.                                                             *)

RunnerStep(e, from, to) == rpc[e] = from /\ rpc' = [rpc EXCEPT ![e] = to]
Subject(e) == about[e]

AcceptCall(e) ==
    /\ RunnerStep(e, "called", "asked")
    /\ e \in browser
    /\ UNCHANGED <<queue, recovery, lapsed, account, attempts, pc, claims, result, provider, history>>

(* The callback, once the conversation was found. *)
GrantDeletion(e) ==
    /\ RunnerStep(e, "asked", "granted")
    /\ Subject(e) \in present
    /\ Authorized(e)
    /\ UNCHANGED <<queue, recovery, lapsed, account, attempts, pc, claims, result, provider, history>>

(* A grant ends with the lease; the request itself is over before that.    *)
SendDeletion(e) ==
    /\ RunnerStep(e, "granted", "sent")
    /\ e \notin lapsed
    /\ late' = late \union {Subject(e)}
    /\ asked' = asked \union {Subject(e)}
    /\ doubt' = doubt \union {Subject(e)}
    /\ UNCHANGED <<queue, recovery, lapsed, account, attempts, pc, claims, result, present>>

(* Before the request: refused, retained or not understood.  After it: the *)
(* provider confirms, or nobody knows.                                     *)
AnswerDeletion(e) ==
    /\ action[e] = "delete"
    /\ \/ rpc[e] \in {"asked", "granted"}
          /\ \E s \in {"retained", "unknown", "needs_login"} : rpc' = [rpc EXCEPT ![e] = s]
       \/ /\ RunnerStep(e, "sent", "deleted")
          /\ Subject(e) \notin present \union late
       \/ rpc[e] = "sent" /\ \E s \in {"cut", "unknown", "needs_login"} : rpc' = [rpc EXCEPT ![e] = s]
    /\ UNCHANGED <<queue, recovery, lapsed, account, attempts, pc, claims, result, provider, history>>

AnswerLook(e) ==
    /\ action[e] = "reconcile" /\ rpc[e] = "asked"
    /\ \E s \in {"retained", "unknown", "needs_login"} \union
                {IF Subject(e) \in present THEN "present" ELSE "absent"} :
           /\ rpc' = [rpc EXCEPT ![e] = s]
           /\ doubt' = IF s = "present" THEN doubt \ {Subject(e)} ELSE doubt
    /\ UNCHANGED <<queue, recovery, lapsed, account, attempts, pc, claims, result, provider, asked>>

-----------------------------------------------------------------------------
(* Around them.                                                            *)

(* The provider carries a deletion out, at last, or never. *)
CarryOut(c) ==
    /\ c \in late
    /\ late' = late \ {c}
    /\ present' \in {present, present \ {c}}
    /\ UNCHANGED <<queue, recovery, lapsed, account, attempts, pc, claims, result, rpc, history>>

(* The owner of the account deletes the conversation by hand. *)
DeleteByHand(c) ==
    /\ c \in present
    /\ present' = present \ {c}
    /\ UNCHANGED <<queue, recovery, lapsed, account, attempts, pc, claims, result, rpc, late, history>>

(* Measurements claim the account under the same reservation; one may      *)
(* leave its attempt unanswered.  A capture by another project may turn    *)
(* out to be of the same conversation; it may be stored when its attempt   *)
(* is long answered.                                                       *)
BeginMeasurement ==
    /\ holder = None /\ ~open
    /\ holder' = Channel /\ open' = TRUE
    /\ UNCHANGED <<queue, recovery, lapsed, browser, shared, pc, claims, result, rpc, provider, history>>

Capture(c) ==
    /\ c \notin shared
    /\ shared' = shared \union {c}
    /\ UNCHANGED <<queue, recovery, lapsed, account, open, pc, claims, result, rpc, provider, history>>

AnswerMeasurement ==
    /\ open
    /\ open' = FALSE
    /\ UNCHANGED <<queue, recovery, lapsed, account, shared, pc, claims, result, rpc, provider, history>>

LeaveAccount ==
    /\ holder = Channel
    /\ holder' = None
    /\ UNCHANGED <<queue, recovery, lapsed, browser, attempts, pc, claims, result, rpc,
                   provider, history>>

(* A request under way is given a timeout that ends before the lease does. *)
Lapse(w) ==
    /\ pc[w] # "fresh" /\ w \notin lapsed
    /\ w \in Cleaners => rpc[w] # "sent"
    /\ lapsed' = lapsed \union {w}
    /\ UNCHANGED <<queue, recovery, account, attempts, pc, claims, result, rpc, provider, history>>

(* The API process dies, and its executions with it.  The runner goes on.  *)
Crash ==
    /\ pc' = [w \in Workers |-> IF pc[w] = "fresh" THEN "fresh" ELSE "ended"]
    /\ result' = [w \in Workers |-> "none"]
    /\ UNCHANGED <<queue, recovery, lapsed, account, attempts, claims, rpc, provider, history>>

-----------------------------------------------------------------------------
Queues ==
    \E c \in Conversations :
        \/ EnqueueCleanup(c) \/ EnqueueRecovery(c)
        \/ \E e \in Cleaners : ClaimCleanup(c, e)
        \/ \E r \in Readers : ClaimRecovery(c, r)

Execution ==
    \/ \E w \in Workers :
           Reserve(w) \/ Decline(w) \/ OpenBrowser(w) \/ GiveUp(w) \/ FinishFails(w)
    \/ \E e \in Cleaners :
           Recheck(e) \/ AskRunner(e) \/ TakeAnswer(e) \/ StopWaiting(e) \/ FinishCleanup(e)
    \/ \E r \in Readers : ReadHistory(r) \/ SaveEvidence(r) \/ FinishRecovery(r)

Runner ==
    \E e \in Cleaners :
        \/ AcceptCall(e) \/ GrantDeletion(e) \/ SendDeletion(e)
        \/ AnswerDeletion(e) \/ AnswerLook(e)

Surroundings ==
    \/ \E c \in Conversations : CarryOut(c) \/ DeleteByHand(c) \/ Capture(c)
    \/ \E w \in Workers : Dispose(w) \/ Vacate(w) \/ Lapse(w)
    \/ BeginMeasurement \/ AnswerMeasurement \/ LeaveAccount
    \/ Crash

Next == Queues \/ Execution \/ Runner \/ Surroundings

Spec == Init /\ [][Next]_vars

-----------------------------------------------------------------------------
(* No conversation is ever asked to be deleted of which nothing complete   *)
(* is retained, and while a deletion is under way nobody else has the      *)
(* account: no recovery reads it, and no measurement runs or waits for an  *)
(* answer (authorize_delete).                                              *)
DeletionIsEarned ==
    /\ \A c \in asked : inventory[c] # None
    /\ \A e \in Cleaners : rpc[e] = "sent" =>
           /\ holder = e /\ ~open
           /\ \A w \in browser : w = e

(* Between two deletions of a conversation somebody looks whether it is    *)
(* still there, whatever answers, leases and processes were lost between   *)
(* them (provider_conversation_cleanup.rs: no blind deletion).             *)
NoBlindRepeat ==
    [][\A e \in Cleaners :
          rpc[e] # "sent" /\ rpc'[e] = "sent" => about[e] \notin doubt]_vars

(* A cleanup is settled only if the conversation is gone and a deletion of *)
(* ours was begun, not if somebody else deleted it or it cannot be seen     *)
(* (map_outcome: reconciliation requires a retained deletion attempt).     *)
SettledMeansDeleted ==
    \A c \in Conversations : row[c] = "deleted" => c \in asked \ present

(* Cleanups and recoveries use the account as BrowserOwnership promises:   *)
(* a browser is opened only by the execution that has the account, which   *)
(* keeps it until the browser is disposed, and never comes back.  Channel  *)
(* work, whose measurements are not told apart here, counts as nobody.     *)
Account == {"account"}
Holder == IF holder \in Workers THEN holder ELSE None

Exclusion == INSTANCE AccountExclusion WITH
    Accounts <- Account, Ops <- Workers,
    holder <- [a \in Account |-> Holder],
    open <- browser,
    released <- {w \in Workers : pc[w] \notin {"fresh", "claimed"} /\ holder # w}

UsesTheAccountExclusively == Exclusion!CoarseSpec
=============================================================================
