----------------------- MODULE BrowserOwnershipProofs -----------------------
(***************************************************************************)
(* Proofs about BrowserOwnership for every number of accounts, operations, *)
(* preflights, routes, runner restarts and network changes.                *)
(***************************************************************************)
EXTENDS BrowserOwnership, TLAPS

-----------------------------------------------------------------------------
(* Types                                                                   *)

(* A task that holds a reservation remembers for which account.            *)
HoldersKnowTheirAccount ==
    \A r \in Preflights : holding[r].phase = "held" => holding[r].account \in Accounts

(* Only an operation that was begun is asked to end.                       *)
ClosesConcernBegunOperations ==
    \A o \in disposeReqs \cup receipts : state[o] # "unused"

Typed == TypeOK /\ HoldersKnowTheirAccount /\ ClosesConcernBegunOperations

(* Every row, gate, head, session and message of the initial state has its *)
(* declared type.                                                          *)
LEMMA TypedInit == Init => Typed
BY DEF Init, Typed, TypeOK, HoldersKnowTheirAccount, ClosesConcernBegunOperations,
       States, Holdings, Bindings

(* Releasing the accounts of an operation keeps gates and heads typed.     *)
LEMMA ReleaseTyped ==
    ASSUME TypeOK, NEW o \in Ops, ReleaseAccounts(o)
    PROVE  /\ reservation' \in [Accounts -> Reservations \cup {None}]
           /\ bound' \in [Accounts -> Ops \cup {None}]
           /\ lapsed' \subseteq Accounts
           /\ active' \in [Accounts -> Bindings]
           /\ pending' \in [Accounts -> Bindings \cup {None}]
           /\ bindingCount' = bindingCount
BY DEF TypeOK, ReleaseAccounts, PromotePending

(* Every step, of a task, of the runner or of time, keeps them.            *)
LEMMA TypedNext == Typed /\ [Next]_vars => Typed'
<1> SUFFICES ASSUME Typed, [Next]_vars PROVE Typed'
  OBVIOUS
<1> USE DEF Typed, TypeOK, HoldersKnowTheirAccount, ClosesConcernBegunOperations,
            ledgerVars, gateVars, networkVars, runnerVars, taskVars, wireVars
<1>1. ASSUME NEW o \in Ops, BeginAny(o) PROVE Typed'
  <2>1. PICK a \in Accounts, k \in Kinds, r \in Reservations, g \in 0..generation :
           Begin(o, a, k, r, g)
    BY <1>1 DEF BeginAny
  <2>2. [account |-> a, kind |-> k, generation |-> g, reservation |-> r,
         network |-> active[a]] \in Inputs
    BY KindsAssumption DEF Inputs
  <2> QED
    BY <2>1, <2>2 DEF Begin, States
<1>2. ASSUME NEW o \in Ops, ClaimStart(o) \/ MarkStart(o) \/ StarterGone(o) \/ SendStart(o)
      PROVE Typed'
  BY <1>2 DEF ClaimStart, Claimable, MarkStart, MayStart, StarterGone, SendStart, States
<1>3. ASSUME NEW o \in Ops, Identify(o) \/ SaveLogin(o) \/ RequestClose(o) \/ SendDispose(o)
                            \/ LoseReceipt(o)
      PROVE Typed'
  BY <1>3 DEF Identify, SaveLogin, OwnsForLogin, RequestClose, SendDispose, LoseReceipt,
              States, Inputs
<1>4. ASSUME NEW o \in Ops, ReleaseUnstarted(o) \/ ConfirmDisposed(o) PROVE Typed'
  <2>1. ReleaseAccounts(o)
    BY <1>4 DEF ReleaseUnstarted, ConfirmDisposed
  <2> QED
    BY <1>4, <2>1, ReleaseTyped DEF ReleaseUnstarted, NeverStarted, ConfirmDisposed, States
<1>5. ASSUME NEW r \in Preflights, PreflightStep(r) PROVE Typed'
  <2>1. ASSUME NEW a \in Accounts, NEW login \in Ops \cup {None}, Reserve(r, a, login)
        PROVE Typed'
    BY <2>1 DEF Reserve, Holdings, Reservations
  <2>2. CASE ReleasePreflight(r)
    <3>1. holding' = [holding EXCEPT ![r].phase = "done"]
      BY <2>2 DEF ReleasePreflight
    <3>2. holding' \in [Preflights -> Holdings]
      BY <3>1 DEF Holdings
    <3>3. HoldersKnowTheirAccount'
      BY <3>1
    <3> QED
      BY <2>2, <3>2, <3>3 DEF ReleasePreflight
  <2>3. CASE ReadDestination(r)
    BY <2>3 DEF ReadDestination, Holdings
  <2>4. CASE SaveReconnect(r)
    <3>1. holding[r].login \in Ops /\ holding[r].account \in Accounts
      BY <2>4 DEF SaveReconnect, Holdings
    <3>2. holding' = [holding EXCEPT ![r].phase = "done"]
      BY <2>4 DEF SaveReconnect
    <3>3. holding' \in [Preflights -> Holdings]
      BY <3>2 DEF Holdings
    <3>4. bound' \in [Accounts -> Ops \cup {None}] /\ verified' \in [Ops -> Accounts \cup {None}]
      BY <2>4, <3>1 DEF SaveReconnect
    <3> QED
      BY <2>4, <3>2, <3>3, <3>4 DEF SaveReconnect
  <2> QED
    BY <1>5, <2>1, <2>2, <2>3, <2>4 DEF PreflightStep
<1>6. ASSUME NEW a \in Accounts, AccountStep(a) PROVE Typed'
  <2>1. CASE Lapse(a)
    BY <2>1 DEF Lapse
  <2>2. ASSUME NEW route \in Routes, SetBinding(a, route) PROVE Typed'
    <3>1. bindingCount' \in Nat /\ [id |-> bindingCount + 1, route |-> route] \in Bindings
      BY <2>2 DEF SetBinding, Bindings
    <3>2. active' \in [Accounts -> Bindings] /\ pending' \in [Accounts -> Bindings \cup {None}]
      BY <2>2, <3>1 DEF SetBinding
    <3> QED
      BY <2>2, <3>1, <3>2 DEF SetBinding
  <2> QED
    BY <1>6, <2>1, <2>2 DEF AccountStep
<1>7. ASSUME NEW o \in Ops, RunnerStart(o) \/ RunnerCloses(o) \/ RunnerClosed(o)
                            \/ RunnerFence(o) \/ RunnerAnswers(o) \/ DropDispose(o)
      PROVE Typed'
  BY <1>7 DEF RunnerStart, RunnerCloses, RunnerClosed, RunnerFence, RunnerAnswers, DropDispose,
              Fence
<1>8. CASE RunnerRestart
  BY <1>8 DEF RunnerRestart
<1>9. CASE UNCHANGED vars
  BY <1>9 DEF vars
<1> QED
  BY <1>1, <1>2, <1>3, <1>4, <1>5, <1>6, <1>7, <1>8, <1>9
     DEF Next, OperationStep, RunnerStep

(* TypeOK holds in every reachable state.                                  *)
THEOREM TypeCorrect == Spec => []TypeOK
<1>1. Spec => []Typed
  BY TypedInit, TypedNext, PTL DEF Spec
<1> QED
  BY <1>1, PTL DEF Typed
-----------------------------------------------------------------------------
(* The inductive invariant                                                 *)

(* Nothing of an operation is anywhere outside its row: no task that was   *)
(* told to start it, no request, no session, no browser, no login.         *)
Untouched(o) ==
    /\ starter[o] \in {"idle", "begun"} /\ starts[o] = 0
    /\ o \notin startReqs \cup alive \cup identified
    /\ session[o] = "none" /\ verified[o] = None

(* Prepared, and released as unstarted, prove that no start was sent.      *)
UntouchedBeforeStart ==
    \A o \in Ops :
        /\ state[o] \in {"unused", "prepared"} \/ o \in unstarted => Untouched(o)
        /\ state[o] = "unused" => starter[o] = "idle"
        /\ o \in unstarted => state[o] = "disposed"

(* Generations only grow, and in its own generation a browser exists       *)
(* exactly as long as its session does.                                    *)
SessionsMatchBrowsers ==
    \A o \in Ops : state[o] # "unused" =>
        /\ input[o].generation <= generation
        /\ session[o] # "none" => o \in alive /\ input[o].generation = generation
        /\ o \in alive /\ input[o].generation = generation => session[o] # "none"

(* No browser now, and none that a delayed start could still open.         *)
GoneForGood(o) == o \notin alive /\ (o \in fenced \/ input[o].generation # generation)

(* A receipt stays true however long it is under way, and so does the row  *)
(* that recorded it.                                                       *)
ReceiptsAreFinal ==
    \A o \in Ops :
        o \in receipts \/ (state[o] = "disposed" /\ o \notin unstarted) => GoneForGood(o)

(* The one right to dispatch the start is with a task or already used.     *)
OneStartToken ==
    \A o \in Ops :
        /\ starts[o] <= 1
        /\ starter[o] \in {"claimed", "marked"} => starts[o] = 0
        /\ starter[o] = "begun" /\ input[o].kind # "pool_login" => starts[o] = 0

Ownership ==
    /\ Typed /\ UntouchedBeforeStart /\ SessionsMatchBrowsers
    /\ ReceiptsAreFinal /\ OneStartToken /\ GatesMatchOperations

(* Nothing has happened yet, so nothing contradicts the rows.              *)
LEMMA OwnershipInit == Init => Ownership
<1> SUFFICES ASSUME Init PROVE Ownership
  OBVIOUS
<1>1. Typed
  BY TypedInit
<1> QED
  BY <1>1 DEF Init, Ownership, UntouchedBeforeStart, Untouched, SessionsMatchBrowsers,
              ReceiptsAreFinal, OneStartToken, GatesMatchOperations, Live

(* Releasing the accounts of one operation leaves those of others alone.   *)
LEMMA ReleaseKeepsOtherGates ==
    ASSUME Ownership, NEW o \in Ops, ReleaseAccounts(o),
           state' = [state EXCEPT ![o] = "disposed"], UNCHANGED <<input, verified>>
    PROVE  GatesMatchOperations'
<1> USE NoneAssumption DEF Ownership, Typed, TypeOK, GatesMatchOperations, Live
<1>1. \A a \in Accounts : /\ reservation'[a] = IF bound[a] = o THEN None ELSE reservation[a]
                         /\ bound'[a] = IF bound[a] = o THEN None ELSE bound[a]
  BY DEF ReleaseAccounts
<1>2. \A p \in Ops : Live(p)' => p # o /\ Live(p)
  OBVIOUS
<1>3. ASSUME NEW p \in Ops, Live(p)'
      PROVE  /\ bound'[input'[p].account] = p
             /\ reservation'[input'[p].account] = input'[p].reservation
             /\ verified'[p] # None => bound'[verified'[p]] = p
  BY <1>1, <1>2, <1>3 DEF Inputs
<1>4. ASSUME NEW a \in Accounts, bound'[a] # None
      PROVE  Live(bound[a])' /\ reservation'[a] # None
  <2>1. bound'[a] = bound[a] /\ bound[a] # o /\ reservation'[a] = reservation[a]
    BY <1>1, <1>4
  <2>2. bound[a] \in Ops /\ Live(bound[a]) /\ reservation[a] # None
    BY <1>4, <2>1
  <2> QED
    BY <2>1, <2>2
<1> QED
  BY <1>3, <1>4

(* No transaction, message, restart or expiry breaks the agreement of      *)
(* rows, gates, tasks, runner and receipts.                                *)
LEMMA OwnershipNext == Ownership /\ [Next]_vars => Ownership'
<1> SUFFICES ASSUME Ownership, [Next]_vars PROVE Ownership'
  OBVIOUS
<1> Typed'
  BY TypedNext DEF Ownership
<1> USE NoneAssumption, IdsAssumption DEF Ownership, Typed, TypeOK, HoldersKnowTheirAccount,
        ClosesConcernBegunOperations, UntouchedBeforeStart, Untouched, SessionsMatchBrowsers,
        ReceiptsAreFinal, GoneForGood, OneStartToken, GatesMatchOperations, Live,
        ledgerVars, gateVars, networkVars, runnerVars, taskVars, wireVars
<1>1. ASSUME NEW o \in Ops, NEW a \in Accounts, NEW k \in Kinds, NEW r \in Reservations,
             NEW g \in 0..generation, Begin(o, a, k, r, g)
      PROVE  Ownership'
  BY <1>1 DEF Begin, Free
<1>2. ASSUME NEW r \in Preflights, NEW a \in Accounts, NEW login \in Ops \cup {None},
             Reserve(r, a, login)
      PROVE  Ownership'
  BY <1>2 DEF Reserve, Free
<1>3. ASSUME NEW a \in Accounts, NEW route \in Routes, SetBinding(a, route) PROVE Ownership'
  BY <1>3 DEF SetBinding
<1>4. ASSUME NEW o \in Ops, ClaimStart(o) PROVE Ownership'
  BY <1>4 DEF ClaimStart, Claimable
<1>5. ASSUME NEW o \in Ops, MarkStart(o) PROVE Ownership'
  BY <1>5 DEF MarkStart, MayStart, AtMark
<1>6. ASSUME NEW o \in Ops, StarterGone(o) PROVE Ownership'
  BY <1>6 DEF StarterGone
<1>7. ASSUME NEW o \in Ops, SendStart(o) PROVE Ownership'
  BY <1>7 DEF SendStart
<1>8. ASSUME NEW o \in Ops, Identify(o) PROVE Ownership'
  BY <1>8 DEF Identify
<1>9. ASSUME NEW o \in Ops, SaveLogin(o) PROVE Ownership'
  BY <1>9 DEF SaveLogin, OwnsForLogin
<1>10. ASSUME NEW o \in Ops, ReleaseUnstarted(o) PROVE Ownership'
  <2>1. GatesMatchOperations'
    BY <1>10, ReleaseKeepsOtherGates DEF ReleaseUnstarted, NeverStarted
  <2>2. UntouchedBeforeStart' /\ SessionsMatchBrowsers'
    BY <1>10 DEF ReleaseUnstarted, NeverStarted
  <2>3. ReceiptsAreFinal' /\ OneStartToken'
    BY <1>10 DEF ReleaseUnstarted, NeverStarted
  <2> QED
    BY <2>1, <2>2, <2>3
<1>11. ASSUME NEW o \in Ops, RequestClose(o) PROVE Ownership'
  BY <1>11 DEF RequestClose
<1>12. ASSUME NEW o \in Ops, SendDispose(o) PROVE Ownership'
  BY <1>12 DEF SendDispose
<1>13. ASSUME NEW o \in Ops, ConfirmDisposed(o) PROVE Ownership'
  <2>1. GatesMatchOperations'
    BY <1>13, ReleaseKeepsOtherGates DEF ConfirmDisposed
  <2>2. UntouchedBeforeStart' /\ SessionsMatchBrowsers'
    BY <1>13 DEF ConfirmDisposed
  <2>3. ReceiptsAreFinal' /\ OneStartToken'
    BY <1>13 DEF ConfirmDisposed
  <2> QED
    BY <2>1, <2>2, <2>3
<1>14. ASSUME NEW o \in Ops, LoseReceipt(o) PROVE Ownership'
  BY <1>14 DEF LoseReceipt
<1>15. ASSUME NEW o \in Ops, RunnerStart(o) PROVE Ownership'
  BY <1>15 DEF RunnerStart
<1>16. ASSUME NEW o \in Ops, RunnerFence(o) PROVE Ownership'
  BY <1>16 DEF RunnerFence, Fence
<1>17. ASSUME NEW o \in Ops, RunnerCloses(o) PROVE Ownership'
  BY <1>17 DEF RunnerCloses, Fence
<1>18. ASSUME NEW o \in Ops, RunnerClosed(o) PROVE Ownership'
  BY <1>18 DEF RunnerClosed
<1>19. ASSUME NEW o \in Ops, RunnerAnswers(o) PROVE Ownership'
  BY <1>19 DEF RunnerAnswers, Answerable, Fence
<1>20. ASSUME NEW o \in Ops, DropDispose(o) PROVE Ownership'
  BY <1>20 DEF DropDispose
<1>21. ASSUME NEW r \in Preflights, ReleasePreflight(r) PROVE Ownership'
  BY <1>21 DEF ReleasePreflight, Releasable
<1>22. ASSUME NEW r \in Preflights, ReadDestination(r) PROVE Ownership'
  BY <1>22 DEF ReadDestination
<1>23. ASSUME NEW r \in Preflights, SaveReconnect(r) PROVE Ownership'
  BY <1>23 DEF SaveReconnect, OwnsForLogin, DestinationHeld
<1>24. ASSUME NEW a \in Accounts, Lapse(a) PROVE Ownership'
  BY <1>24 DEF Lapse
<1>25. CASE RunnerRestart
  <2>1. /\ generation' = generation + 1 /\ generation \in Nat
        /\ session' = [o \in Ops |-> "none"] /\ fenced' = {} /\ alive' \subseteq alive
        /\ UNCHANGED <<ledgerVars, gateVars, networkVars, taskVars, wireVars>>
    BY <1>25 DEF RunnerRestart
  <2>2. ASSUME NEW o \in Ops, state[o] # "unused"
        PROVE  input[o].generation \in Nat /\ input[o].generation < generation'
    BY <2>1, <2>2 DEF Inputs
  <2>3. UntouchedBeforeStart' /\ OneStartToken' /\ GatesMatchOperations'
    BY <2>1
  <2>4. SessionsMatchBrowsers'
    BY <2>1, <2>2
  <2>5. ReceiptsAreFinal'
    <3>1. ASSUME NEW o \in Ops, o \in receipts \/ (state[o] = "disposed" /\ o \notin unstarted)
          PROVE  o \notin alive /\ state[o] # "unused"
      BY <3>1
    <3> QED
      BY <2>1, <2>2, <3>1
  <2> QED
    BY <2>3, <2>4, <2>5
<1>26. CASE UNCHANGED vars
  BY <1>26 DEF vars
<1> QED
  BY <1>1, <1>2, <1>3, <1>4, <1>5, <1>6, <1>7, <1>8, <1>9, <1>10, <1>11, <1>12, <1>13, <1>14, <1>15, <1>16, <1>17, <1>18, <1>19, <1>20, <1>21, <1>22, <1>23, <1>24, <1>25, <1>26
     DEF Next, OperationStep, BeginAny, PreflightStep, AccountStep, RunnerStep

(* That agreement holds in every reachable state.                          *)
THEOREM OwnershipInvariant == Spec => []Ownership
BY OwnershipInit, OwnershipNext, PTL DEF Spec

-----------------------------------------------------------------------------
(* Safety theorems                                                         *)

(* Every live operation holds its gates, every bound gate is held by a     *)
(* live operation: begin, reserve, release and reconnect never disagree.   *)
THEOREM GatesAlwaysMatch == Spec => []GatesMatchOperations
BY OwnershipInvariant, PTL DEF Ownership

(* An operation whose browser exists is neither unused nor disposed.       *)
LEMMA BrowsersAreOwned == ASSUME Ownership, NEW o \in alive PROVE o \in Ops /\ Live(o)
BY DEF Ownership, Typed, TypeOK, States, Live, UntouchedBeforeStart, Untouched,
       ReceiptsAreFinal, GoneForGood

(* No two browsers act for one account, whatever was delayed, lost or      *)
(* restarted, and for any number of accounts and operations.               *)
THEOREM BrowsersExcludeEachOther == Spec => []OneBrowserPerAccount
<1>1. Ownership => OneBrowserPerAccount
  <2> SUFFICES ASSUME Ownership, NEW o1 \in alive, NEW o2 \in alive, o1 # o2,
                      NEW a, a \in {input[o1].account, verified[o1]},
                      a \in {input[o2].account, verified[o2]}
               PROVE  a = None
    BY DEF OneBrowserPerAccount
  <2>1. Live(o1) /\ Live(o2) /\ o1 \in Ops /\ o2 \in Ops
    BY BrowsersAreOwned
  <2>2. ASSUME a # None PROVE bound[a] = o1 /\ bound[a] = o2
    BY <2>1, <2>2 DEF Ownership, GatesMatchOperations
  <2> QED
    BY <2>2
<1> QED
  BY <1>1, OwnershipInvariant, PTL

(* A released gate stands for a browser that is gone and cannot come back. *)
THEOREM DisposalIsProven == Spec => []DisposedMeansGone
<1>1. Ownership => DisposedMeansGone
  BY DEF Ownership, DisposedMeansGone, UntouchedBeforeStart, Untouched, ReceiptsAreFinal,
         GoneForGood
<1> QED
  BY <1>1, OwnershipInvariant, PTL

(* One start request at most is ever sent for an operation, and none for   *)
(* one that was released as unstarted.                                     *)
THEOREM StartsAreUnique == Spec => []StartDispatchedAtMostOnce
<1>1. Ownership => StartDispatchedAtMostOnce
  BY DEF Ownership, Typed, TypeOK, StartDispatchedAtMostOnce, UntouchedBeforeStart, Untouched,
         OneStartToken
<1> QED
  BY <1>1, OwnershipInvariant, PTL

(* A pending network never waits on an account that no browser owns.       *)
THEOREM BindingsAreApplied == Spec => []NoStrandedBinding
<1>1. Init => NoStrandedBinding
  BY DEF Init, NoStrandedBinding
<1>2. Ownership /\ NoStrandedBinding /\ [Next]_vars => NoStrandedBinding'
  <2> SUFFICES ASSUME Ownership, NoStrandedBinding, [Next]_vars PROVE NoStrandedBinding'
    OBVIOUS
  <2> USE NoneAssumption DEF NoStrandedBinding, ledgerVars, gateVars, networkVars, runnerVars,
          taskVars, wireVars
  <2>a. Typed
    BY DEF Ownership
  <2>1. ASSUME NEW o \in Ops, NEW a \in Accounts, UNCHANGED networkVars,
               bound' = [bound EXCEPT ![a] = o]
        PROVE  NoStrandedBinding'
    BY <2>1, <2>a DEF Typed, TypeOK
  <2>2. ASSUME NEW o \in Ops, BeginAny(o) PROVE NoStrandedBinding'
    BY <2>1, <2>2 DEF BeginAny, Begin
  <2>3. ASSUME NEW r \in Preflights, SaveReconnect(r) PROVE NoStrandedBinding'
    BY <2>1, <2>3, <2>a DEF SaveReconnect, Typed, TypeOK, HoldersKnowTheirAccount, Holdings
  <2>4. ASSUME NEW o \in Ops, ReleaseUnstarted(o) \/ ConfirmDisposed(o) PROVE NoStrandedBinding'
    BY <2>4 DEF ReleaseUnstarted, ConfirmDisposed, ReleaseAccounts, PromotePending
  <2>5. ASSUME NEW a \in Accounts, NEW route \in Routes, SetBinding(a, route)
        PROVE  NoStrandedBinding'
    BY <2>5, <2>a DEF SetBinding, Typed, TypeOK
  <2>6. CASE UNCHANGED <<bound, networkVars>>
    BY <2>6
  <2>7. ASSUME NEW o \in Ops, OperationStep(o)
        PROVE  BeginAny(o) \/ ReleaseUnstarted(o) \/ ConfirmDisposed(o)
               \/ UNCHANGED <<bound, networkVars>>
    BY <2>7 DEF OperationStep, ClaimStart, MarkStart, StarterGone, SendStart, Identify, SaveLogin,
                RequestClose, SendDispose, LoseReceipt
  <2>8. ASSUME NEW r \in Preflights, PreflightStep(r)
        PROVE  SaveReconnect(r) \/ UNCHANGED <<bound, networkVars>>
    BY <2>8 DEF PreflightStep, Reserve, ReleasePreflight, ReadDestination
  <2>9. ASSUME RunnerStep PROVE UNCHANGED <<bound, networkVars>>
    BY <2>9 DEF RunnerStep, RunnerStart, RunnerCloses, RunnerClosed, RunnerFence, RunnerAnswers,
                DropDispose, RunnerRestart
  <2>10. ASSUME NEW a \in Accounts, AccountStep(a)
         PROVE  (\E route \in Routes : SetBinding(a, route)) \/ UNCHANGED <<bound, networkVars>>
    BY <2>10 DEF AccountStep, Lapse
  <2>11. CASE UNCHANGED vars
    BY <2>6, <2>11 DEF vars
  <2> QED
    BY <2>2, <2>3, <2>4, <2>5, <2>6, <2>7, <2>8, <2>9, <2>10, <2>11 DEF Next
<1> QED
  BY <1>1, <1>2, OwnershipInvariant, PTL DEF Spec

-----------------------------------------------------------------------------
(* Routes                                                                  *)

(* The bindings that a head or a reconnecting task refers to.              *)
Referenced ==
    {b \in Bindings : \/ \E a \in Accounts : b = active[a] \/ b = pending[a]
                     \/ \E r \in Preflights : b = holding[r].binding}

(* A binding is immutable: its id tells its route.                         *)
IdsTellBindings ==
    /\ \A b \in Referenced : b.id <= bindingCount
    /\ \A b, c \in Referenced : b.id = c.id => b = c

(* What a reconnecting task remembers had the route of its login.          *)
ComparedRoutesAgree ==
    \A r \in Preflights :
        /\ holding[r].login # None => state[holding[r].login] # "unused"
        /\ holding[r].binding # None =>
             /\ holding[r].login # None
             /\ holding[r].binding.route = input[holding[r].login].network.route

Routing == IdsTellBindings /\ ComparedRoutesAgree /\ RouteIsPinned

(* Initially one route is active everywhere.                               *)
LEMMA RoutingInit == Init => Routing
<1> SUFFICES ASSUME Init PROVE Routing
  OBVIOUS
<1>1. \A b \in Referenced : b.id = 0 /\ \E a \in Accounts : b = active[a]
  <2>1. None \notin Bindings
    BY NoneAssumption
  <2> QED
    BY <2>1 DEF Init, Referenced
<1> QED
  BY <1>1 DEF Init, Routing, IdsTellBindings, ComparedRoutesAgree, RouteIsPinned, Live

(* A step that refers to no binding it did not refer to before.            *)
LEMMA NoNewBinding ==
    ASSUME Ownership, Routing, Referenced' \subseteq Referenced, bindingCount' = bindingCount
    PROVE  IdsTellBindings'
BY DEF Routing, IdsTellBindings

(* Network changes, promotions and reconnects keep routes pinned.          *)
LEMMA RoutingNext == Ownership /\ Routing /\ [Next]_vars => Routing'
<1> SUFFICES ASSUME Ownership, Routing, [Next]_vars PROVE Routing'
  OBVIOUS
<1>a. Typed /\ GatesMatchOperations
  BY DEF Ownership
<1> USE NoneAssumption DEF Routing, ComparedRoutesAgree, RouteIsPinned, Live, Typed, TypeOK,
        ledgerVars, gateVars, networkVars, runnerVars, taskVars, wireVars
<1>1. ASSUME NEW o \in Ops, NEW a \in Accounts, NEW k \in Kinds, NEW r \in Reservations,
             NEW g \in 0..generation, Begin(o, a, k, r, g)
      PROVE  Routing'
  <2>1. IdsTellBindings'
    BY <1>1, NoNewBinding DEF Begin, Referenced
  <2>2. ComparedRoutesAgree'
    BY <1>1, <1>a DEF Begin
  <2>3. RouteIsPinned'
    BY <1>1, <1>a DEF Begin, Ownership, UntouchedBeforeStart, Untouched
  <2> QED
    BY <2>1, <2>2, <2>3
<1>2. ASSUME NEW r \in Preflights, NEW a \in Accounts, NEW login \in Ops \cup {None},
             Reserve(r, a, login)
      PROVE  Routing'
  <2>1. IdsTellBindings'
    BY <1>2, <1>a, NoNewBinding DEF Reserve, Referenced
  <2>2. login # None => state[login] # "unused"
    BY <1>2 DEF Reserve, Ownership, UntouchedBeforeStart, Untouched
  <2> QED
    BY <1>2, <1>a, <2>1, <2>2 DEF Reserve
<1>3. ASSUME NEW r \in Preflights, ReleasePreflight(r) PROVE Routing'
  <2>1. \A p \in Preflights : /\ holding'[p].binding = holding[p].binding
                             /\ holding'[p].login = holding[p].login
    BY <1>3, <1>a DEF ReleasePreflight, Holdings
  <2>2. UNCHANGED <<state, input, verified, active, pending, bindingCount>>
    BY <1>3 DEF ReleasePreflight
  <2>3. IdsTellBindings'
    BY <2>1, <2>2, NoNewBinding DEF Referenced
  <2> QED
    BY <2>1, <2>2, <2>3
<1>4. ASSUME NEW r \in Preflights, ReadDestination(r) PROVE Routing'
  <2> DEFINE h == holding[r]
  <2>1. /\ h.account \in Accounts /\ h.login \in Ops
        /\ active[h.account] \in Referenced
        /\ active[h.account].route = input[h.login].network.route
    BY <1>4, <1>a DEF ReadDestination, HoldersKnowTheirAccount, Holdings, Referenced
  <2>2. /\ \A p \in Preflights \ {r} : holding'[p] = holding[p]
        /\ holding'[r].binding = active[h.account] /\ holding'[r].login = h.login
    BY <1>4, <1>a DEF ReadDestination, Holdings
  <2>3. UNCHANGED <<state, input, verified, active, pending, bindingCount>>
    BY <1>4 DEF ReadDestination
  <2>4. IdsTellBindings'
    BY <2>1, <2>2, <2>3, NoNewBinding DEF Referenced
  <2> QED
    BY <2>1, <2>2, <2>3, <2>4, <1>a
<1>5. ASSUME NEW r \in Preflights, SaveReconnect(r) PROVE Routing'
  <2> DEFINE h == holding[r]
  <2>1. /\ h.account \in Accounts /\ h.login \in Ops /\ h.binding \in Bindings
        /\ h.binding \in Referenced /\ active[h.account] \in Referenced
    BY <1>5, <1>a DEF SaveReconnect, HoldersKnowTheirAccount, Holdings, Referenced
  <2>2. active[h.account].route = input[h.login].network.route
    BY <1>5, <2>1 DEF SaveReconnect, DestinationHeld, IdsTellBindings
  <2>3. \A p \in Preflights : /\ holding'[p].binding = holding[p].binding
                             /\ holding'[p].login = holding[p].login
    BY <1>5, <1>a DEF SaveReconnect, Holdings
  <2>4. /\ verified' = [verified EXCEPT ![h.login] = h.account]
        /\ UNCHANGED <<state, input, active, pending, bindingCount>>
    BY <1>5 DEF SaveReconnect
  <2>5. IdsTellBindings'
    BY <2>3, <2>4, NoNewBinding DEF Referenced
  <2> QED
    BY <2>1, <2>2, <2>3, <2>4, <2>5, <1>a
<1>6. ASSUME NEW o \in Ops, ReleaseUnstarted(o) \/ ConfirmDisposed(o) PROVE Routing'
  <2>1. /\ state' = [state EXCEPT ![o] = "disposed"]
        /\ UNCHANGED <<input, verified, holding, bindingCount>>
        /\ ReleaseAccounts(o)
    BY <1>6 DEF ReleaseUnstarted, ConfirmDisposed, ReleaseAccounts
  <2>2. \A a \in Accounts :
           /\ active'[a] = IF bound[a] = o /\ pending[a] # None THEN pending[a] ELSE active[a]
           /\ pending'[a] = IF bound[a] = o THEN None ELSE pending[a]
    BY <2>1 DEF ReleaseAccounts, PromotePending
  <2>3. IdsTellBindings'
    BY <2>1, <2>2, NoNewBinding DEF Referenced
  <2>4. ComparedRoutesAgree'
    BY <2>1, <1>a
  <2>5. ASSUME NEW p \in Ops, Live(p)'
        PROVE  /\ p # o /\ Live(p) /\ input[p].account \in Accounts
               /\ bound[input[p].account] = p /\ (verified[p] # None => bound[verified[p]] = p)
    BY <2>1, <2>5, <1>a DEF GatesMatchOperations, Inputs
  <2>6. RouteIsPinned'
    BY <2>1, <2>2, <2>5, <1>a
  <2> QED
    BY <2>3, <2>4, <2>6
<1>7. ASSUME NEW a \in Accounts, NEW route \in Routes, SetBinding(a, route) PROVE Routing'
  <2> DEFINE b == [id |-> bindingCount + 1, route |-> route]
  <2>1. /\ bindingCount' = bindingCount + 1 /\ bindingCount \in Nat
        /\ active' = active \/ (bound[a] = None /\ active' = [active EXCEPT ![a] = b])
        /\ \A c \in Accounts : pending'[c] \in {pending[c], None, b}
        /\ UNCHANGED <<state, input, verified, holding, bound>>
    BY <1>7, <1>a DEF SetBinding
  <2>2. Referenced' \subseteq Referenced \cup {b}
    BY <2>1, <1>a DEF Referenced
  <2>3. \A c \in Referenced : c.id \in Nat /\ c.id < b.id
    BY <2>1 DEF IdsTellBindings, Referenced, Bindings
  <2>4. IdsTellBindings'
    BY <2>1, <2>2, <2>3 DEF IdsTellBindings
  <2>5. ComparedRoutesAgree'
    BY <2>1
  <2>6. ASSUME NEW o \in Ops, Live(o)
        PROVE  /\ input[o].account \in Accounts /\ bound[input[o].account] = o
               /\ verified[o] # None => bound[verified[o]] = o
    BY <2>6, <1>a DEF GatesMatchOperations, Inputs
  <2>7. RouteIsPinned'
    BY <2>1, <2>6, <1>a
  <2> QED
    BY <2>4, <2>5, <2>7
<1>8. ASSUME NEW o \in Ops, ClaimStart(o) \/ MarkStart(o) \/ RequestClose(o) \/ SaveLogin(o)
      PROVE  Routing'
  <2>1. IdsTellBindings'
    BY <1>8, NoNewBinding DEF ClaimStart, MarkStart, RequestClose, SaveLogin, Referenced
  <2>2. CASE ClaimStart(o) \/ MarkStart(o) \/ RequestClose(o)
    <3>1. /\ \A p \in Ops : state'[p] # "unused" <=> state[p] # "unused"
          /\ \A p \in Ops : Live(p)' => Live(p)
      BY <2>2, <1>a DEF ClaimStart, Claimable, MarkStart, MayStart, RequestClose
    <3>2. UNCHANGED <<input, verified, active, pending, bindingCount, holding>>
      BY <2>2 DEF ClaimStart, MarkStart, RequestClose
    <3>3. ComparedRoutesAgree'
      BY <3>1, <3>2, <1>a DEF Holdings
    <3> QED
      BY <2>1, <3>1, <3>2, <3>3
  <2>3. CASE SaveLogin(o)
    BY <2>1, <2>3, <1>a DEF SaveLogin, OwnsForLogin
  <2> QED
    BY <1>8, <2>2, <2>3
<1>9. ASSUME UNCHANGED <<state, input, verified, active, pending, bindingCount, holding>>
      PROVE  Routing'
  <2>1. IdsTellBindings'
    BY <1>9, NoNewBinding DEF Referenced
  <2> QED
    BY <1>9, <2>1
<1>10. ASSUME NEW o \in Ops, OperationStep(o) PROVE Routing'
  BY <1>1, <1>6, <1>8, <1>9, <1>10
     DEF OperationStep, BeginAny, StarterGone, SendStart, Identify, SendDispose, LoseReceipt
<1>11. ASSUME NEW r \in Preflights, PreflightStep(r) PROVE Routing'
  BY <1>2, <1>3, <1>4, <1>5, <1>11 DEF PreflightStep
<1>12. ASSUME RunnerStep PROVE Routing'
  BY <1>9, <1>12 DEF RunnerStep, RunnerStart, RunnerCloses, RunnerClosed, RunnerFence,
                     RunnerAnswers, DropDispose, RunnerRestart
<1>13. ASSUME NEW a \in Accounts, AccountStep(a) PROVE Routing'
  BY <1>7, <1>9, <1>13 DEF AccountStep, Lapse
<1>14. CASE UNCHANGED vars
  BY <1>9, <1>14 DEF vars
<1> QED
  BY <1>10, <1>11, <1>12, <1>13, <1>14 DEF Next

(* The route on record does not move under a live operation, and a login   *)
(* reconnected to another account used that account's own route.           *)
THEOREM RoutesArePinned == Spec => []RouteIsPinned
<1>1. Spec => []Routing
  BY RoutingInit, RoutingNext, OwnershipInvariant, PTL DEF Spec
<1> QED
  BY <1>1, PTL DEF Routing

-----------------------------------------------------------------------------
(* Refinement                                                              *)

(* Releasing the accounts of an operation whose browser is gone is the     *)
(* abstract release.                                                       *)
LEMMA DisposalReleases ==
    ASSUME Ownership, NEW o \in Ops, ReleaseAccounts(o), o \notin alive, UNCHANGED alive,
           state' = [state EXCEPT ![o] = "disposed"]
    PROVE  Exclusion!Release(o)
<1>1. {p \in Ops : state'[p] = "disposed"} = {p \in Ops : state[p] = "disposed"} \cup {o}
  BY DEF Ownership, Typed, TypeOK
<1> QED
  BY <1>1 DEF Exclusion!Release, ReleaseAccounts

(* Every step of the ledger or of the runner is a step of the abstract     *)
(* ownership or invisible to it.                                           *)
LEMMA ExclusionNext ==
    Ownership /\ [Next]_vars => [Exclusion!Next]_(Exclusion!vars)
<1> SUFFICES ASSUME Ownership, [Next]_vars
             PROVE  Exclusion!Next \/ UNCHANGED Exclusion!vars
  OBVIOUS
<1> DEFINE gone == {o \in Ops : state[o] = "disposed"}
<1> USE NoneAssumption DEF ledgerVars, gateVars, networkVars, runnerVars, taskVars, wireVars
<1>a. Typed /\ GatesMatchOperations
  BY DEF Ownership
<1>1. ASSUME NEW o \in Ops, NEW a \in Accounts, NEW k \in Kinds, NEW r \in Reservations,
             NEW g \in 0..generation, Begin(o, a, k, r, g)
      PROVE  Exclusion!Next
  <2>1. bound[a] = None /\ bound' = [bound EXCEPT ![a] = o] /\ UNCHANGED alive
    BY <1>1, <1>a DEF Begin, Free, GatesMatchOperations
  <2>2. o \notin gone /\ UNCHANGED gone
    BY <1>1, <1>a DEF Begin, Typed, TypeOK
  <2>3. Exclusion!Acquire(o, a)
    BY <2>1, <2>2 DEF Exclusion!Acquire
  <2> QED
    BY <2>3 DEF Exclusion!Next
<1>2. ASSUME NEW r \in Preflights, SaveReconnect(r) PROVE Exclusion!Next
  <2> DEFINE o == holding[r].login
             a == holding[r].account
  <2>1. o \in Ops /\ a \in Accounts
    BY <1>2, <1>a DEF SaveReconnect, Typed, TypeOK, Holdings, HoldersKnowTheirAccount
  <2>2. o \notin gone /\ UNCHANGED gone
    BY <1>2 DEF SaveReconnect, OwnsForLogin
  <2>3. bound[a] = None /\ bound' = [bound EXCEPT ![a] = o] /\ UNCHANGED alive
    BY <1>2 DEF SaveReconnect, DestinationHeld
  <2>4. Exclusion!Acquire(o, a)
    BY <2>2, <2>3 DEF Exclusion!Acquire
  <2> QED
    BY <2>1, <2>4 DEF Exclusion!Next
<1>3. ASSUME NEW o \in Ops, ReleaseUnstarted(o) PROVE Exclusion!Next
  <2>1. o \notin alive
    BY <1>3 DEF Ownership, UntouchedBeforeStart, Untouched, ReleaseUnstarted, NeverStarted
  <2>2. Exclusion!Release(o)
    BY <1>3, <2>1, DisposalReleases DEF ReleaseUnstarted
  <2> QED
    BY <2>2 DEF Exclusion!Next
<1>4. ASSUME NEW o \in Ops, ConfirmDisposed(o) PROVE Exclusion!Next
  <2>1. o \notin alive
    BY <1>4 DEF Ownership, ReceiptsAreFinal, GoneForGood, ConfirmDisposed
  <2>2. Exclusion!Release(o)
    BY <1>4, <2>1, DisposalReleases DEF ConfirmDisposed
  <2> QED
    BY <2>2 DEF Exclusion!Next
<1>5. ASSUME NEW o \in Ops, RunnerStart(o) PROVE Exclusion!Next \/ UNCHANGED Exclusion!vars
  <2>1. UNCHANGED <<bound, gone>>
    BY <1>5 DEF RunnerStart
  <2>2. CASE alive' # alive
    <3>1. /\ o \in startReqs /\ alive' = alive \cup {o}
          /\ input[o].generation = generation /\ o \notin fenced
      BY <2>2, <1>5 DEF RunnerStart
    <3>2. Live(o)
      BY <3>1, <1>a DEF Ownership, UntouchedBeforeStart, Untouched, ReceiptsAreFinal,
                        GoneForGood, Typed, TypeOK, States, Live
    <3>3. o \notin gone /\ bound[input[o].account] = o /\ input[o].account \in Accounts
      BY <3>2, <1>a DEF Live, GatesMatchOperations, Typed, TypeOK, Inputs
    <3>4. Exclusion!Open(o)
      BY <2>1, <3>1, <3>3 DEF Exclusion!Open, Exclusion!Holds
    <3> QED
      BY <3>4 DEF Exclusion!Next
  <2>3. CASE alive' = alive
    BY <2>1, <2>3 DEF Exclusion!vars
  <2> QED
    BY <2>2, <2>3
<1>6. ASSUME alive' \subseteq alive, UNCHANGED <<bound, state>> PROVE Exclusion!Next
  BY <1>6 DEF Exclusion!Next, Exclusion!Close
<1>7. ASSUME NEW o \in Ops, RunnerClosed(o) PROVE Exclusion!Next
  BY <1>6, <1>7 DEF RunnerClosed
<1>8. ASSUME RunnerRestart PROVE Exclusion!Next
  BY <1>6, <1>8 DEF RunnerRestart
(* The other steps of the ledger move an operation between states in which *)
(* it is not disposed; the rest touch nothing that is mapped.              *)
<1>9. ASSUME UNCHANGED <<bound, alive, gone>> PROVE UNCHANGED Exclusion!vars
  BY <1>9 DEF Exclusion!vars
<1>10. ASSUME NEW o \in Ops, ClaimStart(o) \/ MarkStart(o) \/ RequestClose(o)
       PROVE  UNCHANGED Exclusion!vars
  <2>1. UNCHANGED <<bound, alive>>
    BY <1>10 DEF ClaimStart, MarkStart, RequestClose
  <2>2. UNCHANGED gone
    BY <1>10, <1>a DEF ClaimStart, Claimable, MarkStart, MayStart, RequestClose, Typed, TypeOK
  <2> QED
    BY <1>9, <2>1, <2>2
<1>11. ASSUME NEW o \in Ops, StarterGone(o) \/ SendStart(o) \/ Identify(o) \/ SaveLogin(o)
                             \/ SendDispose(o) \/ LoseReceipt(o) \/ RunnerCloses(o)
                             \/ RunnerFence(o) \/ RunnerAnswers(o) \/ DropDispose(o)
       PROVE  UNCHANGED Exclusion!vars
  BY <1>9, <1>11 DEF StarterGone, SendStart, Identify, SaveLogin, SendDispose, LoseReceipt,
                     RunnerCloses, RunnerFence, RunnerAnswers, DropDispose
<1>12. ASSUME NEW r \in Preflights, ReleasePreflight(r) \/ ReadDestination(r)
                  \/ \E a \in Accounts, login \in Ops \cup {None} : Reserve(r, a, login)
       PROVE  UNCHANGED Exclusion!vars
  BY <1>9, <1>12 DEF ReleasePreflight, ReadDestination, Reserve
<1>13. ASSUME NEW a \in Accounts, AccountStep(a) PROVE UNCHANGED Exclusion!vars
  BY <1>9, <1>13 DEF AccountStep, Lapse, SetBinding
<1>14. CASE UNCHANGED vars
  BY <1>9, <1>14 DEF vars
<1> QED
  BY <1>1, <1>2, <1>3, <1>4, <1>5, <1>7, <1>8, <1>10, <1>11, <1>12, <1>13, <1>14
     DEF Next, OperationStep, BeginAny, PreflightStep, RunnerStep

(* The ledger, the gates and the runner together implement the abstract    *)
(* exclusive ownership, step by step.                                      *)
THEOREM Refinement == Spec => ImplementsAccountExclusion
<1>1. Init => Exclusion!Init
  BY DEF Init, Exclusion!Init
<1> QED
  BY <1>1, ExclusionNext, OwnershipInvariant, PTL DEF Spec, ImplementsAccountExclusion, Exclusion!Spec
=============================================================================
