-------------------------- MODULE PublicationSend ---------------------------
(***************************************************************************)
(* Sending frozen publications from one account, and withdrawing them.     *)
(* Any number of runs, dispatched every few seconds or on demand, try to   *)
(* execute the pending targets: a run reserves the account, opens and      *)
(* verifies a browser, claims the one attempt a target ever has, rechecks, *)
(* asks the runner to execute, closes the browser and records an outcome.  *)
(* A rich publication is uploaded only after a one-shot permission the     *)
(* runner asks back for.  A run may crash anywhere, the runner may restart *)
(* and replies may be lost.                                                *)
(*                                                                         *)
(* Targets of other accounts share nothing with these but the project.     *)
(* The account's gate and its browsers are the subject of BrowserOwnership *)
(* and reduced here to what a run sees of them.                            *)
(***************************************************************************)
EXTENDS Naturals

CONSTANTS
    Targets,       \* frozen publication targets of the account
    Generated,     \* those that stem from a publication intent
    Rich,          \* generated ones with structure and media
    Withdrawing,   \* generated short posts, to be withdrawn after publication
    Runs,          \* executions of a target or a withdrawal, and their ids
    Crashes,       \* whether runs may crash
    MaxRestarts,   \* bound on restarts of the browser runner
    None

ASSUME TargetsAssumption ==
    /\ Generated \subseteq Targets
    /\ Rich \subseteq Generated
    /\ Withdrawing \subseteq Generated \ Rich
ASSUME BoundsAssumption == Crashes \in BOOLEAN /\ MaxRestarts \in Nat

VARIABLES
    holder, bound, lapsed,                      \* the account's gate: its reservation,
                                                \* bound to a browser, past its expiry
    attempt, outcome, proof, intent, command,   \* ledger of the targets
    ticket, late, revoked, active,              \* permission to send: its ticket,
                                                \* deadline, media and project
    cleanup, cleaner,                           \* publication_withdrawals
    pc, kind, target, result,                   \* runs in the API
    session, exec, reply, asked,                \* their sessions in the runner
    posts, deletes,                             \* what they did on the platform
    restarts

gate == <<holder, bound, lapsed>>
ledger == <<attempt, outcome, proof, intent, command>>
permission == <<ticket, late, revoked, active>>
withdrawal == <<cleanup, cleaner>>
run == <<pc, kind, target, result>>
runner == <<session, exec, reply, asked>>
platform == <<posts, deletes>>
vars == <<gate, ledger, permission, withdrawal, run, runner, platform, restarts>>

Outcomes == {"verified", "unknown", "login_required", "unsupported"}
(* What the runner answers: completed and readback prove the public        *)
(* content, completed and created the response to the creating request.    *)
Replies == {"completed", "readback", "created", "unknown", "login_required", "unsupported"}
Unsent == {"unknown", "login_required", "unsupported"}

ASSUME NoneAssumption == None \notin Runs \cup Targets \cup Outcomes \cup Replies

TypeOK ==
    /\ holder \in Runs \cup {None} /\ bound \in BOOLEAN /\ lapsed \in BOOLEAN
    /\ attempt \in [Targets -> Runs \cup {None}]
    /\ outcome \in [Targets -> Outcomes \cup {None}]
    /\ proof \subseteq Targets
    /\ intent \in [Targets -> {"unverified", "unknown", "verified"}]
    /\ command \in [Targets -> {"pending", "claimed", "delivered"}]
    /\ ticket \in [Targets -> {"none", "registered", "authorized"}]
    /\ late \subseteq Targets /\ revoked \subseteq Rich /\ active \in BOOLEAN
    /\ cleanup \in [Targets -> {"none", "awaiting", "ready", "claimed", "unknown", "withdrawn"}]
    /\ cleaner \in [Targets -> Runs \cup {None}]
    /\ pc \in [Runs -> {"idle", "planned", "reserved", "open", "claimed",
                        "waiting", "closing", "finishing", "done", "dead"}]
    /\ kind \in [Runs -> {"publish", "withdraw"}]
    /\ target \in [Runs -> Targets \cup {None}]
    /\ result \in [Runs -> Replies]
    /\ session \in [Runs -> {"none", "live", "closed", "stranded"}]
    /\ exec \in [Runs -> {"none", "inflight", "running", "asking", "granted",
                          "sending", "acted", "done"}]
    /\ reply \in [Runs -> Replies \cup {None}]
    /\ asked \subseteq Runs
    /\ posts \in [Targets -> SUBSET Runs]
    /\ deletes \in [Targets -> SUBSET Runs]
    /\ restarts \in 0..MaxRestarts

Init ==
    /\ holder = None /\ bound = FALSE /\ lapsed = FALSE
    /\ attempt = [t \in Targets |-> None]
    /\ outcome = [t \in Targets |-> None]
    /\ proof = {}
    /\ intent = [t \in Targets |-> "unverified"]
    /\ command = [t \in Targets |-> "pending"]
    /\ ticket = [t \in Targets |-> "none"]
    /\ late = {} /\ revoked = {} /\ active = TRUE
    /\ cleanup = [t \in Targets |-> "none"]
    /\ cleaner = [t \in Targets |-> None]
    /\ pc = [r \in Runs |-> "idle"]
    /\ kind = [r \in Runs |-> "publish"]
    /\ target = [r \in Runs |-> None]
    /\ result = [r \in Runs |-> "unknown"]
    /\ session = [r \in Runs |-> "none"]
    /\ exec = [r \in Runs |-> "none"]
    /\ reply = [r \in Runs |-> None]
    /\ asked = {}
    /\ posts = [t \in Targets |-> {}]
    /\ deletes = [t \in Targets |-> {}]
    /\ restarts = 0

-----------------------------------------------------------------------------
(* The account's gate and the browser behind it                            *)

Goto(r, place) == pc' = [pc EXCEPT ![r] = place]

FreeFaulty == holder # None => lapsed
Free == holder # None => lapsed /\ ~bound

Holds(r) == holder = r /\ ~lapsed

Release(r) ==
    IF holder = r THEN holder' = None /\ bound' = FALSE /\ lapsed' = FALSE
    ELSE UNCHANGED gate

(* The runner refuses to dispose of a session while an execution awaits    *)
(* its answer, and cannot dispose of a session of a former process.        *)
Executing(r) == exec[r] \in {"running", "asking", "granted", "sending", "acted"}
Busy(r) == Executing(r) /\ reply[r] = None

(* What was executing ends with its browser.                               *)
Ended == [r \in Runs |-> IF Executing(r) THEN "done" ELSE exec[r]]

(* The receipt of a disposal releases the gate.                            *)
Dispose(r) ==
    /\ session[r] \in {"live", "closed"} /\ ~Busy(r)
    /\ session' = [session EXCEPT ![r] = "none"]
    /\ exec' = [exec EXCEPT ![r] = Ended[r]]
    /\ Release(r)
    /\ UNCHANGED <<reply, asked>>

(* close_owned_browser; if it fails the reconciler will dispose.           *)
Close(r) == Dispose(r) \/ UNCHANGED <<gate, runner>>

(* The reconciler disposes of browsers whose close was requested and of    *)
(* those past their deadline, whatever their run is doing.                 *)
Reconcile(r) ==
    /\ Dispose(r)
    /\ UNCHANGED <<ledger, permission, withdrawal, run, platform, restarts>>

Lapse ==
    /\ holder # None /\ ~lapsed
    /\ lapsed' = TRUE
    /\ UNCHANGED <<holder, bound, ledger, permission, withdrawal, run, runner, platform, restarts>>

-----------------------------------------------------------------------------
(* A run up to its claim                                                   *)

Unattempted(t) == attempt[t] = None

Plan(r) ==
    /\ pc[r] = "idle"
    /\ \E t \in Targets :
        /\ target' = [target EXCEPT ![r] = t]
        /\ \/ Unattempted(t) /\ active /\ UNCHANGED kind
           \/ cleanup[t] = "ready" /\ kind' = [kind EXCEPT ![r] = "withdraw"]
    /\ Goto(r, "planned")
    /\ UNCHANGED <<gate, ledger, permission, withdrawal, result, runner, platform, restarts>>

Reserve(r) ==
    /\ pc[r] = "planned" /\ Free
    /\ holder' = r /\ bound' = FALSE /\ lapsed' = FALSE
    /\ Goto(r, "reserved")
    /\ UNCHANGED <<ledger, permission, withdrawal, kind, target, result, runner, platform, restarts>>

(* The browser operation takes the reservation over, and its browser is    *)
(* started and verified to show the account.                               *)
Open(r) ==
    /\ pc[r] = "reserved" /\ Holds(r)
    /\ kind[r] = "publish" => Unattempted(target[r])
    /\ bound' = TRUE
    /\ session' = [session EXCEPT ![r] = "live"]
    /\ Goto(r, "open")
    /\ UNCHANGED <<holder, lapsed, ledger, permission, withdrawal, kind, target, result, exec, reply, asked, platform, restarts>>

(* Account busy, target taken, preflight refused: deferred.                *)
GiveUp(r) ==
    /\ pc[r] \in {"planned", "reserved"}
    /\ IF bound THEN UNCHANGED gate ELSE Release(r)
    /\ Goto(r, "done")
    /\ UNCHANGED <<ledger, permission, withdrawal, kind, target, result, runner, platform, restarts>>

Abandon(r) ==
    /\ pc[r] = "open"
    /\ Close(r)
    /\ Goto(r, "done")
    /\ UNCHANGED <<ledger, permission, withdrawal, kind, target, result, platform, restarts>>

(* One publish attempt per target, one unanswered per account, and one per *)
(* intent, which counts as attempted from here on whatever happens.        *)
Claimable(t) ==
    /\ Unattempted(t)
    /\ \A other \in Targets : attempt[other] # None => outcome[other] # None
    /\ t \in Generated => command[t] = "pending" /\ intent[t] = "unverified"

Claim(r) ==
    LET t == target[r] IN
    /\ pc[r] = "open" /\ kind[r] = "publish" /\ Holds(r) /\ Claimable(t)
    /\ attempt' = [attempt EXCEPT ![t] = r]
    /\ command' = [command EXCEPT ![t] = IF t \in Generated THEN "claimed" ELSE @]
    /\ intent' = [intent EXCEPT ![t] = IF t \in Generated THEN "unknown" ELSE @]
    /\ cleanup' = [cleanup EXCEPT ![t] = IF t \in Withdrawing THEN "awaiting" ELSE @]
    /\ Goto(r, "claimed")
    /\ UNCHANGED <<gate, outcome, proof, cleaner, permission, kind, target, result, runner, platform, restarts>>

ClaimWithdrawal(r) ==
    LET t == target[r] IN
    /\ pc[r] = "open" /\ kind[r] = "withdraw" /\ Holds(r) /\ cleanup[t] = "ready"
    /\ cleanup' = [cleanup EXCEPT ![t] = "claimed"]
    /\ cleaner' = [cleaner EXCEPT ![t] = r]
    /\ Goto(r, "claimed")
    /\ UNCHANGED <<gate, ledger, permission, kind, target, result, runner, platform, restarts>>

-----------------------------------------------------------------------------
(* From the claim to the request                                           *)

IsRich(r) == kind[r] = "publish" /\ target[r] \in Rich

Registrable(t) == active /\ outcome[t] = None /\ t \notin revoked

(* The checks after the claim; a rich publication registers its ticket and *)
(* takes a snapshot of its media. Then the runner is asked to execute.     *)
Dispatch(r) ==
    LET t == target[r] IN
    /\ pc[r] = "claimed"
    /\ IsRich(r) => Registrable(t)
    /\ ticket' = IF IsRich(r) THEN [ticket EXCEPT ![t] = "registered"] ELSE ticket
    /\ exec' = [exec EXCEPT ![r] = "inflight"]
    /\ Goto(r, "waiting")
    /\ UNCHANGED <<gate, ledger, late, revoked, active, withdrawal, kind, target, result, session, reply, asked, platform, restarts>>

(* A check fails: the attempt is spent, and nothing was sent. The ticket   *)
(* may have been registered.                                               *)
FailBeforeSending(r) ==
    LET t == target[r] IN
    /\ pc[r] = "claimed"
    /\ \E v \in Unsent : result' = [result EXCEPT ![r] = v]
    /\ \/ UNCHANGED ticket
       \/ /\ IsRich(r) /\ active
          /\ ticket' = [ticket EXCEPT ![t] = "registered"]
    /\ Goto(r, "closing")
    /\ UNCHANGED <<gate, ledger, late, revoked, active, withdrawal, kind, target, runner, platform, restarts>>

-----------------------------------------------------------------------------
(* The runner                                                              *)

Accept(r) ==
    /\ exec[r] = "inflight" /\ session[r] = "live"
    /\ exec' = [exec EXCEPT ![r] = "running"]
    /\ UNCHANGED <<gate, ledger, permission, withdrawal, run, session, reply, asked, platform, restarts>>

Refuse(r) ==
    /\ exec[r] = "inflight"
    /\ \E v \in Unsent : reply' = [reply EXCEPT ![r] = v]
    /\ exec' = [exec EXCEPT ![r] = "done"]
    /\ UNCHANGED <<gate, ledger, permission, withdrawal, run, session, asked, platform, restarts>>

Ask(r) ==
    /\ exec[r] = "running" /\ IsRich(r)
    /\ exec' = [exec EXCEPT ![r] = "asking"]
    /\ asked' = asked \cup {r}
    /\ UNCHANGED <<gate, ledger, permission, withdrawal, run, session, reply, platform, restarts>>

(* The permission is given once, to the attempt whose ticket it is, while  *)
(* everything it depends on still holds.                                   *)
MaySendFaulty(t, r) ==
    /\ active
    /\ attempt[t] = r /\ outcome[t] = None
    /\ ticket[t] = "registered" /\ t \notin late
    /\ command[t] = "claimed" /\ intent[t] = "unknown"
MaySend(t, r) ==
    /\ active
    /\ attempt[t] = r /\ outcome[t] = None
    /\ ticket[t] = "registered" /\ t \notin late
    /\ command[t] = "claimed" /\ intent[t] = "unknown"
    /\ t \notin revoked

(* The grant is spent also if the runner no longer waits for it, or never  *)
(* gets the response.                                                      *)
Authorize(r) ==
    /\ r \in asked /\ MaySend(target[r], r)
    /\ ticket' = [ticket EXCEPT ![target[r]] = "authorized"]
    /\ exec' = [exec EXCEPT ![r] = IF @ = "asking" THEN "granted" ELSE @]
    /\ asked' = asked \ {r}
    /\ UNCHANGED <<gate, ledger, late, revoked, active, withdrawal, run, session, reply, platform, restarts>>

(* Refused, consumed and lost callbacks are all one to the runner: its     *)
(* result is unknown. It would report an explicit denial as unsupported,   *)
(* but the API never sends one; it refuses with an HTTP error.             *)
Deny(r) ==
    /\ r \in asked
    /\ asked' = asked \ {r}
    /\ UNCHANGED <<gate, ledger, permission, withdrawal, run, session, exec, reply, platform, restarts>>

Upload(r) ==
    /\ exec[r] = "granted" /\ target[r] \notin late
    /\ exec' = [exec EXCEPT ![r] = "sending"]
    /\ UNCHANGED <<gate, ledger, permission, withdrawal, run, session, reply, asked, platform, restarts>>

(* The platform carries out what an adapter submits.                       *)
Submits(r) ==
    LET t == target[r] IN
    IF kind[r] = "publish"
       THEN posts' = [posts EXCEPT ![t] = @ \cup {r}] /\ UNCHANGED deletes
       ELSE deletes' = [deletes EXCEPT ![t] = @ \cup {r}] /\ UNCHANGED posts

(* The adapter gets to submit while its browser is there.                  *)
Act(r) ==
    /\ exec[r] = IF IsRich(r) THEN "sending" ELSE "running"
    /\ session[r] = "live"
    /\ exec' = [exec EXCEPT ![r] = "acted"]
    /\ Submits(r)
    /\ UNCHANGED <<gate, ledger, permission, withdrawal, run, session, reply, asked, restarts>>

(* What an execution can report of itself. Public content of a rich        *)
(* publication is not proof enough, so its completion is never reported.   *)
Reports(r) ==
    CASE exec[r] = "acted" /\ kind[r] = "withdraw" -> {"completed", "unknown"}
      [] exec[r] = "acted" /\ IsRich(r) -> {"unknown"}
      [] exec[r] = "acted" /\ kind[r] = "publish" /\ ~IsRich(r) ->
            {"completed", "readback", "created", "unknown"}
      [] exec[r] \in {"asking", "granted"} -> {"unknown"}
      [] OTHER -> Unsent

Answer(r) ==
    /\ Busy(r)
    /\ \E v \in Reports(r) : reply' = [reply EXCEPT ![r] = v]
    /\ exec' = [exec EXCEPT ![r] = "done"]
    /\ UNCHANGED <<gate, ledger, permission, withdrawal, run, session, asked, platform, restarts>>

(* After the deadline the answer is unknown, while the adapter may go on   *)
(* until its browser is closed.                                            *)
RunOver(r) ==
    /\ Busy(r)
    /\ reply' = [reply EXCEPT ![r] = "unknown"]
    /\ UNCHANGED <<gate, ledger, permission, withdrawal, run, session, exec, asked, platform, restarts>>

(* After a deadline, and of idle sessions.                                 *)
RunnerCloses(r) ==
    /\ session[r] = "live" /\ ~Busy(r)
    /\ session' = [session EXCEPT ![r] = "closed"]
    /\ exec' = [exec EXCEPT ![r] = Ended[r]]
    /\ UNCHANGED <<gate, ledger, permission, withdrawal, run, reply, asked, platform, restarts>>

RunnerRestart ==
    /\ restarts < MaxRestarts
    /\ restarts' = restarts + 1
    /\ session' = [r \in Runs |-> IF session[r] = "none" THEN "none" ELSE "stranded"]
    /\ exec' = Ended
    /\ UNCHANGED <<gate, ledger, permission, withdrawal, run, reply, asked, platform>>

-----------------------------------------------------------------------------
(* From the answer to the outcome                                          *)

Receive(r) ==
    /\ pc[r] = "waiting" /\ reply[r] # None
    /\ result' = [result EXCEPT ![r] = reply[r]]
    /\ Goto(r, "closing")
    /\ UNCHANGED <<gate, ledger, permission, withdrawal, kind, target, runner, platform, restarts>>

WhenLostFaulty == "login_required"
WhenLost == "unknown"

(* No answer in 130 seconds, or the connection breaks.                     *)
TimesOutFaulty(r) == pc[r] = "waiting" /\ exec[r] # "inflight"
TimesOut(r) == pc[r] = "waiting"

TimeOut(r) ==
    /\ TimesOut(r)
    /\ result' = [result EXCEPT ![r] = WhenLost]
    /\ Goto(r, "closing")
    /\ UNCHANGED <<gate, ledger, permission, withdrawal, kind, target, runner, platform, restarts>>

CloseBrowser(r) ==
    /\ pc[r] = "closing"
    /\ Close(r)
    /\ Goto(r, "finishing")
    /\ UNCHANGED <<ledger, permission, withdrawal, kind, target, result, platform, restarts>>

(* Only a readback verifies; a creation response alone leaves it unknown.  *)
Status(v) ==
    CASE v \in {"completed", "readback"} -> "verified"
      [] v \in {"created", "unknown"} -> "unknown"
      [] OTHER -> v

CreationProofFaulty(v) == v \in {"completed", "created", "unknown"}
CreationProof(v) == v \in {"completed", "created"}

Finish(r) ==
    LET t == target[r]
        verified == t \in Generated /\ Status(result[r]) = "verified"
    IN
    /\ pc[r] = "finishing" /\ kind[r] = "publish"
    /\ IF attempt[t] = r /\ outcome[t] = None
          THEN /\ outcome' = [outcome EXCEPT ![t] = Status(result[r])]
               /\ proof' = IF CreationProof(result[r]) THEN proof \cup {t} ELSE proof
               /\ intent' = [intent EXCEPT ![t] = IF verified THEN "verified" ELSE @]
               /\ command' = [command EXCEPT ![t] = IF verified THEN "delivered" ELSE @]
          ELSE UNCHANGED <<outcome, proof, intent, command>>
    /\ Goto(r, "done")
    /\ UNCHANGED <<gate, attempt, permission, withdrawal, kind, target, result, runner, platform, restarts>>

(* The withdrawal this run claimed, unless it was given up since.          *)
UnsettledFaulty(t, r) == cleaner[t] = r
Unsettled(t, r) == cleanup[t] = "claimed" /\ cleaner[t] = r

FinishWithdrawal(r) ==
    LET t == target[r] IN
    /\ pc[r] = "finishing" /\ kind[r] = "withdraw"
    /\ cleanup' = [cleanup EXCEPT ![t] =
          IF ~Unsettled(t, r) THEN @
          ELSE IF result[r] = "completed" THEN "withdrawn" ELSE "unknown"]
    /\ Goto(r, "done")
    /\ UNCHANGED <<gate, ledger, permission, cleaner, kind, target, result, runner, platform, restarts>>

(* The process dies with all its runs' steps; one run at a time covers it. *)
Crash(r) ==
    /\ Crashes /\ pc[r] \notin {"idle", "done", "dead"}
    /\ Goto(r, "dead")
    /\ UNCHANGED <<gate, ledger, permission, withdrawal, kind, target, result, runner, platform, restarts>>

-----------------------------------------------------------------------------
(* The dispatcher's scan of withdrawals, every five seconds                *)

Resolve(t) ==
    /\ cleanup[t] = "awaiting" /\ outcome[t] # None /\ t \in proof
    /\ cleanup' = [cleanup EXCEPT ![t] = "ready"]
    /\ UNCHANGED <<gate, ledger, permission, cleaner, run, runner, platform, restarts>>

(* Five minutes after the claim.                                           *)
GivesUpFaulty == FALSE
GivesUp == TRUE

Expire(t) ==
    /\ GivesUp /\ cleanup[t] = "claimed"
    /\ cleanup' = [cleanup EXCEPT ![t] = "unknown"]
    /\ UNCHANGED <<gate, ledger, permission, cleaner, run, runner, platform, restarts>>

(* Elsewhere: the ticket's deadline, the media's grants, the project.      *)
Deadline(t) ==
    /\ ticket[t] # "none" /\ t \notin late
    /\ late' = late \cup {t}
    /\ UNCHANGED <<gate, ledger, ticket, revoked, active, withdrawal, run, runner, platform, restarts>>

Revoke(t) ==
    /\ t \in Rich /\ t \notin revoked
    /\ revoked' = revoked \cup {t}
    /\ UNCHANGED <<gate, ledger, ticket, late, active, withdrawal, run, runner, platform, restarts>>

PauseOrResume ==
    /\ active' = ~active
    /\ UNCHANGED <<gate, ledger, ticket, late, revoked, withdrawal, run, runner, platform, restarts>>

-----------------------------------------------------------------------------
Next ==
    \/ \E r \in Runs :
        \/ Plan(r) \/ Reserve(r) \/ Open(r) \/ GiveUp(r) \/ Abandon(r)
        \/ Claim(r) \/ ClaimWithdrawal(r)
        \/ Dispatch(r) \/ FailBeforeSending(r)
        \/ Accept(r) \/ Refuse(r) \/ Ask(r) \/ Authorize(r) \/ Deny(r)
        \/ Upload(r) \/ Act(r) \/ Answer(r) \/ RunOver(r) \/ RunnerCloses(r)
        \/ Receive(r) \/ TimeOut(r) \/ CloseBrowser(r)
        \/ Finish(r) \/ FinishWithdrawal(r) \/ Crash(r)
        \/ Reconcile(r)
    \/ \E t \in Targets : Resolve(t) \/ Expire(t) \/ Deadline(t) \/ Revoke(t)
    \/ RunnerRestart \/ Lapse \/ PauseOrResume

Spec == Init /\ [][Next]_vars

(* A run goes on unless it crashes: its requests are bounded by timeouts.  *)
(* The dispatcher scans withdrawals every five seconds. Nothing is assumed *)
(* of the runner, the platform or the callbacks.                           *)
Progress(r) ==
    \/ Dispatch(r) \/ FailBeforeSending(r) \/ Receive(r) \/ TimeOut(r)
    \/ CloseBrowser(r) \/ Finish(r) \/ FinishWithdrawal(r)

FairSpec ==
    /\ Spec
    /\ \A r \in Runs : WF_vars(Progress(r))
    /\ \A t \in Targets : WF_vars(Expire(t))

-----------------------------------------------------------------------------
(* Properties                                                              *)

(* A target is posted only by the one attempt it ever has, so at most      *)
(* once: no crash, timeout, late execution or concurrent dispatch makes    *)
(* another run post it again.                                              *)
PostedAtMostOnce == \A t \in Targets : posts[t] \subseteq {attempt[t]} \ {None}

(* What the ledger reports of a target agrees with the platform, and with  *)
(* every later state of it: see OneShotPublication.                        *)
Verdict(t) ==
    CASE outcome[t] = None -> "none"
      [] outcome[t] = "verified" -> "published"
      [] outcome[t] = "unknown" -> "unknown"
      [] OTHER -> "not_published"

Publication == INSTANCE OneShotPublication WITH
    verdict <- [t \in Targets |-> Verdict(t)]

ImplementsOneShotPublication == Publication!Spec

(* A withdrawal is a one-shot effect as well: one run claims it, deletes   *)
(* the post at most once, however late, and is said to have deleted it     *)
(* only if it did.                                                         *)
Withdrawal == INSTANCE OneShotPublication WITH
    attempt <- cleaner, posts <- deletes,
    verdict <- [t \in Targets |->
                   CASE cleanup[t] = "withdrawn" -> "published"
                     [] cleanup[t] = "unknown" -> "unknown"
                     [] OTHER -> "none"]

WithdrawalsAreOneShot == Withdrawal!Spec

(* The account, as a run sees it, is what BrowserOwnership promises: a     *)
(* reservation holds it until it lapses without a browser or its browser   *)
(* is disposed, nobody else has a browser meanwhile, and a run that has    *)
(* lost the account, by takeover, timeout or restart, never uses it again. *)
Account == {"account"}
Holder == IF lapsed /\ ~bound THEN None ELSE holder

Exclusion == INSTANCE AccountExclusion WITH
    Accounts <- Account, Ops <- Runs,
    holder <- [a \in Account |-> Holder],
    open <- {r \in Runs : session[r] = "live"},
    released <- {r \in Runs : pc[r] \notin {"idle", "planned"} /\ Holder # r}

UsesTheAccountExclusively == Exclusion!CoarseSpec

(* No two executions act with the account at once, neither two             *)
(* publications nor a publication and a withdrawal, even where a run has   *)
(* given up, its gate has lapsed or its answer was lost.                   *)
Acting(r) == session[r] = "live" /\ exec[r] \in {"running", "sending"}

OneSendAtATime == \A r, other \in Runs : Acting(r) /\ Acting(other) => r = other

(* A withdrawal deletes only what the target's own attempt has posted, and *)
(* at most once; it is reported withdrawn only where it was.               *)
CleanupIsExact ==
    \A t \in Targets :
        /\ deletes[t] # {} => t \in Withdrawing /\ posts[t] # {}
        /\ deletes[t] \subseteq {cleaner[t]} \ {None}
        /\ cleanup[t] = "withdrawn" => deletes[t] # {}

(* Once the project is paused or a media grant withdrawn before the        *)
(* permission was given, a rich publication stays unsent while that lasts, *)
(* whatever is already on its way to the runner.                           *)
RevokedStaysUnsent ==
    [][\A t \in Rich :
        (~active \/ t \in revoked) /\ ticket[t] # "authorized"
            => ticket'[t] # "authorized" /\ posts'[t] = posts[t]]_vars

(* A comment where outcomes are decided: an explicit unknown may still be  *)
(* running remotely, so its reservation is retained until its deadline.    *)
(* It is not: closing the browser gives the reservation back.              *)
UnknownKeepsReservation ==
    [][\A r \in Runs :
        (   /\ pc[r] \in {"closing", "finishing", "done"} /\ kind[r] = "publish"
            /\ reply[r] = "unknown" /\ result[r] = "unknown" /\ Holds(r) )
        => holder' = r]_vars

(* Every claimed attempt gets an outcome, unless its run dies with it: the *)
(* runner may restart, hang or answer too late.                            *)
ClaimsAreAnswered ==
    \A t \in Targets : \A r \in Runs :
        attempt[t] = r ~> outcome[t] # None \/ pc[r] = "dead"

(* A claimed withdrawal is settled even if its run dies.                   *)
CleanupSettles ==
    \A t \in Targets : cleanup[t] = "claimed" ~> cleanup[t] \in {"unknown", "withdrawn"}
=============================================================================
