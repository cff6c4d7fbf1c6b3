-------------------------- MODULE BrowserOwnership --------------------------
(***************************************************************************)
(* Durable ownership of the remote browsers that act for platform          *)
(* accounts.  A PostgreSQL ledger records one operation per browser        *)
(* session; an account gate admits one operation per account; a network    *)
(* head pins the proxy route an account uses.  The runner is a separate    *)
(* process that may restart at any time: its identity is a generation, and *)
(* within a generation it fences every session id it was asked to dispose. *)
(* Requests to the runner, and its receipts, may be delayed or lost.  API  *)
(* tasks may disappear between any two steps.                              *)
(*                                                                         *)
(* One transaction of the ledger is one action.  Deadlines are abstracted  *)
(* to the fact that they have passed: `lapsed' holds the accounts whose     *)
(* gate has expired.  An operation and its gate get the same expires_at.   *)
(***************************************************************************)
EXTENDS Naturals, FiniteSets

CONSTANTS
    Accounts,        \* platform accounts, of customers or of the operator pool
    Ops,             \* operation ids; prepare_browser_input uses the same id for the session
    Preflights,      \* reservation ids that preflights and reconnects allocate
    Kinds,           \* the kinds of operation an instance begins
    Routes,          \* effective networks (proxy configurations)
    None,
    MaxGeneration,   \* bound on runner restarts
    MaxBindings      \* bound on network changes

Bindings == [id : Nat, route : Routes]

ASSUME NoneAssumption == None \notin Accounts \cup Ops \cup Preflights \cup Bindings
ASSUME IdsAssumption == Ops \cap Preflights = {}
ASSUME BoundsAssumption == MaxGeneration \in Nat /\ MaxBindings \in Nat

AllKinds == {"pool_login", "customer_login", "execution"}
Logins == {"pool_login", "customer_login"}
ASSUME KindsAssumption == Kinds \subseteq AllKinds
States == {"unused", "prepared", "start_requested", "closing", "disposed"}
Reservations == Ops \cup Preflights

(* What begin_browser_operation fixes for good: no later statement of the  *)
(* ledger updates these columns.                                           *)
Inputs == [account : Accounts, kind : Kinds, generation : Nat,
           reservation : Reservations, network : Bindings]

(* The local state of an API task that holds a preflight reservation.      *)
Holdings == [phase : {"fresh", "held", "done"}, account : Accounts \cup {None},
             login : Ops \cup {None}, binding : Bindings \cup {None}]

VARIABLES
    \* browser_operations
    state, input, verified, unstarted,
    \* channel_account_preflight_reservations: reservation_id, browser_operation_id, expires_at
    reservation, bound, lapsed,
    \* account_network_heads, and the number of rows of account_network_bindings
    active, pending, bindingCount,
    \* the runner process: generation, sessions, disposedIds, and the browsers that exist
    generation, session, fenced, alive,
    \* API tasks
    starter, identified, holding,
    \* messages in flight, and how many start requests were sent
    startReqs, disposeReqs, receipts, starts

ledgerVars == <<state, input, verified, unstarted>>
gateVars == <<reservation, bound, lapsed>>
networkVars == <<active, pending, bindingCount>>
runnerVars == <<generation, session, fenced, alive>>
taskVars == <<starter, identified, holding>>
wireVars == <<startReqs, disposeReqs, receipts, starts>>
vars == <<ledgerVars, gateVars, networkVars, runnerVars, taskVars, wireVars>>

Live(o) == state[o] \in {"prepared", "start_requested", "closing"}
Expired(o) == input[o].account \in lapsed

(* reserve_account and begin_browser_operation_tx delete an expired gate,  *)
(* but never one that an operation is bound to.  (Names that end in Faulty *)
(* are defects the properties below must reveal; no action uses them.)     *)
FreeFaulty(a) == reservation[a] = None \/ a \in lapsed

Free(a) == reservation[a] = None \/ (a \in lapsed /\ bound[a] = None)

TypeOK ==
    /\ state \in [Ops -> States]
    /\ input \in [Ops -> Inputs \cup {None}]
    /\ \A o \in Ops : state[o] # "unused" => input[o] \in Inputs
    /\ verified \in [Ops -> Accounts \cup {None}]
    /\ unstarted \subseteq Ops
    /\ reservation \in [Accounts -> Reservations \cup {None}]
    /\ bound \in [Accounts -> Ops \cup {None}]
    /\ lapsed \subseteq Accounts
    /\ active \in [Accounts -> Bindings]
    /\ pending \in [Accounts -> Bindings \cup {None}]
    /\ bindingCount \in Nat
    /\ generation \in Nat
    /\ session \in [Ops -> {"none", "open", "closing"}]
    /\ fenced \subseteq Ops /\ alive \subseteq Ops
    /\ starter \in [Ops -> {"idle", "begun", "claimed", "marked"}]
    /\ identified \subseteq Ops
    /\ holding \in [Preflights -> Holdings]
    /\ startReqs \subseteq Ops
    /\ disposeReqs \subseteq Ops
    /\ receipts \subseteq Ops
    /\ starts \in [Ops -> Nat]

Init ==
    /\ state = [o \in Ops |-> "unused"]
    /\ input = [o \in Ops |-> None]
    /\ verified = [o \in Ops |-> None]
    /\ unstarted = {}
    /\ reservation = [a \in Accounts |-> None]
    /\ bound = [a \in Accounts |-> None]
    /\ lapsed = {}
    /\ \E r \in Routes : active = [a \in Accounts |-> [id |-> 0, route |-> r]]
    /\ pending = [a \in Accounts |-> None]
    /\ bindingCount = 0
    /\ generation = 0
    /\ session = [o \in Ops |-> "none"]
    /\ fenced = {} /\ alive = {}
    /\ starter = [o \in Ops |-> "idle"]
    /\ identified = {}
    /\ holding = [r \in Preflights |->
                    [phase |-> "fresh", account |-> None, login |-> None, binding |-> None]]
    /\ startReqs = {} /\ disposeReqs = {} /\ receipts = {}
    /\ starts = [o \in Ops |-> 0]

-----------------------------------------------------------------------------
(* Beginning an operation                                                  *)

(* begin_browser_operation_tx for a fresh operation id.  With a preflight  *)
(* reservation the gate must still be that reservation, unexpired and      *)
(* unbound; without one the gate must be free.  The generation was read    *)
(* from the runner earlier in the request and may be stale by now.         *)
Begin(o, a, k, r, g) ==
    /\ state[o] = "unused"
    /\ g <= generation
    /\ \/ r = o /\ Free(a)
       \/ /\ r \in Preflights /\ k = "execution"
          /\ holding[r].phase = "held" /\ holding[r].login = None
          /\ reservation[a] = r /\ a \notin lapsed /\ bound[a] = None
    /\ state' = [state EXCEPT ![o] = "prepared"]
    /\ input' = [input EXCEPT ![o] = [account |-> a, kind |-> k, generation |-> g,
                                      reservation |-> r, network |-> active[a]]]
    /\ reservation' = [reservation EXCEPT ![a] = r]
    /\ bound' = [bound EXCEPT ![a] = o]
    /\ lapsed' = lapsed \ {a}
    /\ starter' = [starter EXCEPT ![o] = "begun"]
    /\ UNCHANGED <<verified, unstarted, networkVars, runnerVars,
                   identified, holding, wireVars>>

(* reserve_account, for a channel job (no login) or for the destination of *)
(* a reconnecting login whose identity was just captured.                  *)
Reserve(r, a, login) ==
    /\ holding[r].phase = "fresh"
    /\ Free(a)
    /\ login # None =>
         /\ login \in identified /\ input[login].kind = "customer_login"
         /\ a # input[login].account /\ verified[login] = None
    /\ holding' = [holding EXCEPT ![r] =
                     [phase |-> "held", account |-> a, login |-> login, binding |-> None]]
    /\ reservation' = [reservation EXCEPT ![a] = r]
    /\ lapsed' = lapsed \ {a}
    /\ UNCHANGED <<ledgerVars, bound, networkVars, runnerVars, starter, identified, wireVars>>

(* release_account: only the unbound row of this very reservation.         *)
ReleasableFaulty(r) == reservation[holding[r].account] = r

Releasable(r) == reservation[holding[r].account] = r /\ bound[holding[r].account] = None

ReleasePreflight(r) ==
    LET a == holding[r].account
        mine == Releasable(r)
    IN  /\ holding[r].phase = "held"
        /\ holding' = [holding EXCEPT ![r].phase = "done"]
        /\ reservation' = IF mine THEN [reservation EXCEPT ![a] = None] ELSE reservation
        /\ lapsed' = IF mine THEN lapsed \ {a} ELSE lapsed
        /\ UNCHANGED <<ledgerVars, bound, networkVars, runnerVars, starter, identified, wireVars>>

-----------------------------------------------------------------------------
(* Starting the browser                                                    *)

(* claim_browser_start, used by the pool and queue logins: any task may    *)
(* try, and only the one that moves the row out of Prepared may dispatch.  *)
ClaimableFaulty(o) == state[o] \in {"prepared", "start_requested"} /\ ~Expired(o)

Claimable(o) == state[o] = "prepared" /\ ~Expired(o)

ClaimStart(o) ==
    /\ Claimable(o) /\ input[o].kind = "pool_login"
    /\ state' = [state EXCEPT ![o] = "start_requested"]
    /\ starter' = [starter EXCEPT ![o] = "claimed"]
    /\ UNCHANGED <<input, verified, unstarted, gateVars, networkVars, runnerVars,
                   identified, holding, wireVars>>

MayStart(o) ==
    \/ state[o] = "prepared" /\ ~Expired(o)
    \/ state[o] = "start_requested"

AtMark(o) ==
    \/ starter[o] = "begun" /\ input[o].kind # "pool_login"
    \/ starter[o] = "claimed"

(* mark_browser_start_requested in start_owned_browser: idempotent.        *)
MarkStart(o) ==
    /\ AtMark(o) /\ MayStart(o)
    /\ state' = [state EXCEPT ![o] = "start_requested"]
    /\ starter' = [starter EXCEPT ![o] = "marked"]
    /\ UNCHANGED <<input, verified, unstarted, gateVars, networkVars, runnerVars,
                   identified, holding, wireVars>>

(* The same call answered with a conflict, or a crash of the task.         *)
StarterGone(o) ==
    /\ starter[o] # "idle"
    /\ starter' = [starter EXCEPT ![o] = "idle"]
    /\ UNCHANGED <<ledgerVars, gateVars, networkVars, runnerVars, identified, holding, wireVars>>

SendStart(o) ==
    /\ starter[o] = "marked"
    /\ starter' = [starter EXCEPT ![o] = "idle"]
    /\ startReqs' = startReqs \cup {o}
    /\ starts' = [starts EXCEPT ![o] = @ + 1]
    /\ UNCHANGED <<ledgerVars, gateVars, networkVars, runnerVars, identified, holding,
                   disposeReqs, receipts>>

-----------------------------------------------------------------------------
(* Verifying a login                                                       *)

(* The runner's complete: the identity of a session that exists.           *)
Identify(o) ==
    /\ session[o] = "open" /\ input[o].kind \in Logins
    /\ o \notin identified
    /\ identified' = identified \cup {o}
    /\ UNCHANGED <<ledgerVars, gateVars, networkVars, runnerVars, starter, holding, wireVars>>

(* The transaction that saves a login requires a started operation that    *)
(* still holds the gate it began with.                                     *)
OwnsForLogin(o) ==
    LET a == input[o].account
    IN  /\ o \in identified /\ state[o] = "start_requested"
        /\ bound[a] = o /\ reservation[a] = input[o].reservation

(* save_owned_login_session onto the account the operation began with.     *)
SaveLogin(o) ==
    /\ OwnsForLogin(o)
    /\ verified' = [verified EXCEPT ![o] = input[o].account]
    /\ UNCHANGED <<state, input, unstarted, gateVars, networkVars, runnerVars,
                   taskVars, wireVars>>

(* complete_login compares the route of the login with the destination's   *)
(* active binding and remembers that binding.                              *)
ReadDestination(r) ==
    LET h == holding[r]
    IN  /\ h.phase = "held" /\ h.login # None /\ h.binding = None
        /\ active[h.account].route = input[h.login].network.route
        /\ holding' = [holding EXCEPT ![r].binding = active[h.account]]
        /\ UNCHANGED <<ledgerVars, gateVars, networkVars, runnerVars, starter, identified, wireVars>>

(* The destination's gate is still this reservation, and its binding the   *)
(* one compared before.                                                    *)
DestinationHeldFaulty(r) ==
    LET a == holding[r].account
    IN  reservation[a] = r /\ a \notin lapsed /\ bound[a] = None

DestinationHeld(r) ==
    LET a == holding[r].account
    IN  /\ reservation[a] = r /\ a \notin lapsed /\ bound[a] = None
        /\ active[a].id = holding[r].binding.id

(* save_owned_login_session with a reconnect: the operation then owns both *)
(* accounts.                                                               *)
SaveReconnect(r) ==
    LET h == holding[r]
    IN  /\ h.phase = "held" /\ h.login # None /\ h.binding # None
        /\ OwnsForLogin(h.login) /\ DestinationHeld(r)
        /\ bound' = [bound EXCEPT ![h.account] = h.login]
        /\ verified' = [verified EXCEPT ![h.login] = h.account]
        /\ holding' = [holding EXCEPT ![r].phase = "done"]
        /\ UNCHANGED <<state, input, unstarted, reservation, lapsed, networkVars,
                       runnerVars, starter, identified, wireVars>>

-----------------------------------------------------------------------------
(* Closing: dispose_owned_operation, by the owner or by the reconciler     *)

(* promote_pending, for each account the operation releases.               *)
PromotePendingFaulty(o) == UNCHANGED <<active, pending>>

PromotePending(o) ==
    /\ active' = [a \in Accounts |->
                    IF bound[a] = o /\ pending[a] # None THEN pending[a] ELSE active[a]]
    /\ pending' = [a \in Accounts |-> IF bound[a] = o THEN None ELSE pending[a]]

(* The tail of transition_browser_operation: once the row is Disposed its  *)
(* gates are deleted and each released account's pending binding promoted. *)
ReleaseAccounts(o) ==
    /\ reservation' = [a \in Accounts |-> IF bound[a] = o THEN None ELSE reservation[a]]
    /\ bound' = [a \in Accounts |-> IF bound[a] = o THEN None ELSE bound[a]]
    /\ lapsed' = {a \in lapsed : bound[a] # o}
    /\ PromotePending(o)
    /\ UNCHANGED bindingCount

(* release_browser_unstarted: Prepared proves that no start was sent.      *)
NeverStartedFaulty(o) == state[o] \in {"prepared", "start_requested"}

NeverStarted(o) == state[o] = "prepared"

ReleaseUnstarted(o) ==
    /\ NeverStarted(o)
    /\ state' = [state EXCEPT ![o] = "disposed"]
    /\ unstarted' = unstarted \cup {o}
    /\ ReleaseAccounts(o)
    /\ UNCHANGED <<input, verified, runnerVars, taskVars, wireVars>>

(* request_browser_close; repeating it on a Closing row changes nothing.   *)
RequestClose(o) ==
    /\ state[o] = "start_requested"
    /\ state' = [state EXCEPT ![o] = "closing"]
    /\ UNCHANGED <<input, verified, unstarted, gateVars, networkVars, runnerVars,
                   taskVars, wireVars>>

(* dispose_in_generation, by any task whose close request was recorded.    *)
SendDispose(o) ==
    /\ state[o] = "closing" /\ o \notin disposeReqs
    /\ disposeReqs' = disposeReqs \cup {o}
    /\ UNCHANGED <<ledgerVars, gateVars, networkVars, runnerVars, taskVars,
                   startReqs, receipts, starts>>

(* confirm_browser_disposed with the runner's receipt.                     *)
ConfirmDisposed(o) ==
    /\ o \in receipts
    /\ receipts' = receipts \ {o}
    /\ state' = [state EXCEPT ![o] = "disposed"]
    /\ ReleaseAccounts(o)
    /\ UNCHANGED <<input, verified, unstarted, runnerVars, taskVars,
                   startReqs, disposeReqs, starts>>

(* The task that waited for the receipt is gone (15 s limit, crash).       *)
LoseReceipt(o) ==
    /\ o \in receipts
    /\ receipts' = receipts \ {o}
    /\ UNCHANGED <<ledgerVars, gateVars, networkVars, runnerVars, taskVars,
                   startReqs, disposeReqs, starts>>

-----------------------------------------------------------------------------
(* Network heads                                                           *)

(* set_binding_tx: a new binding waits while a browser owns the account.   *)
SetBinding(a, route) ==
    LET b == [id |-> bindingCount + 1, route |-> route]
    IN  /\ bindingCount < MaxBindings
        /\ bindingCount' = bindingCount + 1
        /\ IF bound[a] # None
             THEN pending' = [pending EXCEPT ![a] = b] /\ UNCHANGED active
             ELSE active' = [active EXCEPT ![a] = b] /\ pending' = [pending EXCEPT ![a] = None]
        /\ UNCHANGED <<ledgerVars, gateVars, runnerVars, taskVars, wireVars>>

-----------------------------------------------------------------------------
(* The runner process                                                      *)

(* disposedIds: an id once fenced never starts again in this process.      *)
FenceFaulty(o) == UNCHANGED fenced

Fence(o) == fenced' = fenced \cup {o}

(* create: refused for another generation, a known session or a fenced id. *)
RunnerStart(o) ==
    LET admitted == input[o].generation = generation /\ session[o] = "none" /\ o \notin fenced
    IN  /\ o \in startReqs
        /\ startReqs' = startReqs \ {o}
        /\ session' = IF admitted THEN [session EXCEPT ![o] = "open"] ELSE session
        /\ alive' = IF admitted THEN alive \cup {o} ELSE alive
        /\ UNCHANGED <<ledgerVars, gateVars, networkVars, generation, fenced, taskVars,
                       disposeReqs, receipts, starts>>

(* disposeSession fences the id before it touches the resource.  It        *)
(* refuses another generation; the request stays until the close ends.     *)
RunnerFence(o) ==
    /\ o \in disposeReqs
    /\ input[o].generation = generation /\ session[o] = "open"
    /\ Fence(o)
    /\ session' = [session EXCEPT ![o] = "closing"]
    /\ UNCHANGED <<ledgerVars, gateVars, networkVars, generation, alive, taskVars, wireVars>>

(* closeRecord without a receipt: a start that failed after the browser    *)
(* appeared, the idle reaper, a closed desktop, the legacy close, and the  *)
(* disposal that start_in_generation requests, dropping the answer, when   *)
(* its start was refused, timed out or ambiguous.                          *)
RunnerCloses(o) ==
    /\ starts[o] > 0 /\ input[o].generation = generation
    /\ o \notin fenced
    /\ Fence(o)
    /\ session' = IF session[o] = "open" THEN [session EXCEPT ![o] = "closing"] ELSE session
    /\ UNCHANGED <<ledgerVars, gateVars, networkVars, generation, alive, taskVars, wireVars>>

(* The browser context is really gone.                                     *)
RunnerClosed(o) ==
    /\ session[o] = "closing"
    /\ session' = [session EXCEPT ![o] = "none"]
    /\ alive' = alive \ {o}
    /\ UNCHANGED <<ledgerVars, gateVars, networkVars, generation, fenced, taskVars, wireVars>>

(* The receipt: the id is fenced and no session of it exists, be it that   *)
(* the runner never heard of the session.                                  *)
AnswerableFaulty(o) ==
    input[o].generation = generation /\ session[o] = "none" /\ o \in fenced

Answerable(o) == input[o].generation = generation /\ session[o] = "none"

RunnerAnswers(o) ==
    /\ o \in disposeReqs /\ Answerable(o)
    /\ Fence(o)
    /\ disposeReqs' = disposeReqs \ {o}
    /\ receipts' = receipts \cup {o}
    /\ UNCHANGED <<ledgerVars, gateVars, networkVars, generation, session, alive, taskVars,
                   startReqs, starts>>

(* A dispose request lost, refused (generation, session_busy) or failed.   *)
DropDispose(o) ==
    /\ o \in disposeReqs
    /\ disposeReqs' = disposeReqs \ {o}
    /\ UNCHANGED <<ledgerVars, gateVars, networkVars, runnerVars, taskVars,
                   startReqs, receipts, starts>>

(* A new process knows no session and no fence.  Nothing proves that the   *)
(* browsers of the old one ended with it.                                  *)
RunnerRestart ==
    /\ generation < MaxGeneration
    /\ generation' = generation + 1
    /\ session' = [o \in Ops |-> "none"]
    /\ fenced' = {}
    /\ alive' \in SUBSET alive
    /\ UNCHANGED <<ledgerVars, gateVars, networkVars, taskVars, wireVars>>

-----------------------------------------------------------------------------
(* Time                                                                    *)

(* expires_at of a gate passes, and that of the operation begun with it.   *)
Lapse(a) ==
    /\ reservation[a] # None /\ a \notin lapsed
    /\ lapsed' = lapsed \cup {a}
    /\ UNCHANGED <<ledgerVars, reservation, bound, networkVars, runnerVars, taskVars, wireVars>>

-----------------------------------------------------------------------------
BeginAny(o) ==
    \E a \in Accounts, k \in Kinds, r \in Reservations, g \in 0..generation : Begin(o, a, k, r, g)

OperationStep(o) ==
    \/ BeginAny(o)
    \/ ClaimStart(o) \/ MarkStart(o) \/ StarterGone(o) \/ SendStart(o)
    \/ Identify(o) \/ SaveLogin(o)
    \/ ReleaseUnstarted(o) \/ RequestClose(o) \/ SendDispose(o)
    \/ ConfirmDisposed(o) \/ LoseReceipt(o)

PreflightStep(r) ==
    \/ \E a \in Accounts, login \in Ops \cup {None} : Reserve(r, a, login)
    \/ ReleasePreflight(r) \/ ReadDestination(r) \/ SaveReconnect(r)

RunnerStep ==
    \/ \E o \in Ops :
         \/ RunnerStart(o) \/ RunnerCloses(o) \/ RunnerClosed(o)
         \/ RunnerFence(o) \/ RunnerAnswers(o) \/ DropDispose(o)
    \/ RunnerRestart

AccountStep(a) == Lapse(a) \/ \E route \in Routes : SetBinding(a, route)

Next ==
    \/ \E o \in Ops : OperationStep(o)
    \/ \E r \in Preflights : PreflightStep(r)
    \/ \E a \in Accounts : AccountStep(a)
    \/ RunnerStep

Spec == Init /\ [][Next]_vars

-----------------------------------------------------------------------------
(* Safety                                                                  *)

(* At no time do two browsers act for one account, whatever was delayed,   *)
(* lost or restarted: neither the account an operation began with nor the  *)
(* account its login was reconnected to.                                   *)
OneBrowserPerAccount ==
    \A o1, o2 \in alive :
        o1 # o2 => {input[o1].account, verified[o1]} \cap {input[o2].account, verified[o2]}
                     \subseteq {None}

(* A row is Disposed only when its browser is gone and no delayed start    *)
(* can bring it back: this is what a released gate stands for.             *)
DisposedMeansGone ==
    \A o \in Ops : state[o] = "disposed" =>
        /\ o \notin alive
        /\ o \in startReqs => input[o].generation # generation \/ o \in fenced

(* Gates and rows agree across every release, takeover and reconnect: a    *)
(* live operation holds the gates of its account and of the account it     *)
(* verified, and a bound gate belongs to a live operation.                 *)
GatesMatchOperations ==
    /\ \A o \in Ops : Live(o) =>
         /\ bound[input[o].account] = o
         /\ reservation[input[o].account] = input[o].reservation
         /\ verified[o] # None => bound[verified[o]] = o
    /\ \A a \in Accounts : bound[a] # None => Live(bound[a]) /\ reservation[a] # None

(* A browser keeps using the route that is on record for its account: the  *)
(* head cannot move under a live operation, and a login reconnected to     *)
(* another account used that account's own route.                          *)
RouteIsPinned ==
    \A o \in Ops : Live(o) =>
        /\ active[input[o].account] = input[o].network
        /\ verified[o] # None => active[verified[o]].route = input[o].network.route

(* A network change accepted while a browser owned the account is applied  *)
(* no later than its release, never left waiting on an idle account.       *)
NoStrandedBinding ==
    \A a \in Accounts : pending[a] # None => bound[a] # None

(* Exactly one task may dispatch the start of an operation, and none after *)
(* its release as unstarted.                                               *)
StartDispatchedAtMostOnce ==
    \A o \in Ops : starts[o] <= 1 /\ (o \in unstarted => starts[o] = 0)

-----------------------------------------------------------------------------
(* Refinement: seen through the gates, the browsers that exist and the     *)
(* disposed rows, the system is an exclusive, one-shot ownership of        *)
(* accounts whose owner lets go only after its browser has ended.          *)
Exclusion == INSTANCE AccountExclusion
                 WITH holder <- bound, open <- alive,
                      released <- {o \in Ops : state[o] = "disposed"}

(* Every transaction and every runner step is a step of that abstract      *)
(* ownership, or changes nothing it can see.                               *)
ImplementsAccountExclusion == Exclusion!Spec

-----------------------------------------------------------------------------
(* Liveness                                                                *)

(* The reconciler runs every 30 seconds over the rows whose next_check_at  *)
(* has passed: the expired ones, and every Closing one.  Requests are not  *)
(* lost or refused for ever (an execution ends, a request gets through)    *)
(* and a receipt is not dropped for ever; a close that was begun ends.     *)
(* Nothing is assumed of owners, of delayed starts or of restarts.         *)
Fairness ==
    /\ \A a \in Accounts : WF_vars(Lapse(a))
    /\ \A o \in Ops :
         /\ WF_vars(ReleaseUnstarted(o) /\ Expired(o))
         /\ WF_vars(RequestClose(o) /\ Expired(o))
         /\ WF_vars(SendDispose(o))
         /\ SF_vars(RunnerFence(o))
         /\ SF_vars(RunnerAnswers(o))
         /\ WF_vars(RunnerClosed(o))
         /\ SF_vars(ConfirmDisposed(o))

FairSpec == Spec /\ Fairness

(* The one way an operation never settles: it was started in a generation  *)
(* that no longer exists, and no receipt of that generation is left.       *)
Stranded(o) ==
    /\ state[o] \in {"start_requested", "closing"}
    /\ input[o].generation # generation

(* Every operation is eventually disposed and its account freed, whoever   *)
(* crashed, unless the runner process that owned its browser is gone.      *)
EveryOperationSettles ==
    \A o \in Ops : Live(o) ~> (state[o] = "disposed" \/ Stranded(o))
=============================================================================
