---------------------- MODULE PublicationOutboxProofs -----------------------
(***************************************************************************)
(* Proofs about PublicationOutbox, for any cells, requests and accounts.   *)
(* The invariant says what a binding is: the intent of what is bound       *)
(* exists, its origin points back to it for ever (a bound cell is never    *)
(* bound to another account, a linked request never unlinked), and only a  *)
(* delivered command has a verified post, so that no claim can take a      *)
(* verification back.                                                      *)
(***************************************************************************)
EXTENDS PublicationOutbox, TLAPS

(* The publication a cell is bound to. *)
Bound(c) == <<Content[c], bound[c]>>

LedgerOK ==
    \A p \in Publications :
        /\ command[p] = "none" <=> origin[p] = None
        /\ origin[p] # None => Sound(p)
        /\ verification[p] = "verified" => command[p] = "delivered"
        /\ command[p] \in {"none", "pending"} => verification[p] = "unverified"

CellsOK ==
    \A c \in Cells :
        /\ status[c] = "pending" => bound[c] = None
        /\ bound[c] # None => origin[Bound(c)] \notin Withdrawing \union {None}

RequestsOK ==
    \A r \in Requests : request[r] = "linked" =>
        /\ deferral[r] = "none"
        /\ origin[Publication(r)] # None
        /\ (origin[Publication(r)] \in Withdrawing) = (r \in Withdrawing)

Consistent == TypeOK /\ LedgerOK /\ CellsOK /\ RequestsOK /\ StatusIsTrue

(* What is bound or asked for is a publication. *)
LEMMA PublicationFacts ==
  /\ \A c \in Cells, a \in Accounts : <<Content[c], a>> \in Publications
  /\ \A r \in Requests : Publication(r) \in Publications
  /\ \A i \in Cells \union Requests : i # None
  /\ \A c \in Cells : c \notin Withdrawing /\ c \notin Requests
BY OutboxAssumption DEF Publications, Publication

LEMMA InitConsistent == Init => Consistent
BY PublicationFacts, OutboxAssumption
   DEF Init, Consistent, TypeOK, LedgerOK, CellsOK, RequestsOK, StatusIsTrue, Statuses

-----------------------------------------------------------------------------
(* Steps that leave the bindings and the ledger alone                      *)

LEMMA QuietConsistent ==
  ASSUME Consistent, TypeOK', UNCHANGED <<plan, origin, verification, command>>,
         \A r \in Requests : request'[r] = "linked" <=> request[r] = "linked",
         \A r \in Requests : request'[r] = "linked" => deferral'[r] = "none"
  PROVE  Consistent'
<1> USE DEF plan
<1>1. \A p \in Publications : origin[p] # None => (Sound(p) <=> Sound(p)')
  BY PublicationFacts DEF Sound, Publication, Consistent, TypeOK
<1>2. LedgerOK'
  BY <1>1 DEF Consistent, LedgerOK
<1>3. CellsOK' /\ StatusIsTrue'
  BY DEF Consistent, CellsOK, StatusIsTrue, Bound
<1>4. RequestsOK'
  BY DEF Consistent, RequestsOK, Publication
<1> QED
  BY <1>2, <1>3, <1>4 DEF Consistent

-----------------------------------------------------------------------------
(* The steps that bind                                                     *)

LEMMA IntendFacts ==
  ASSUME Consistent, NEW p \in Publications, NEW who \in Cells \union Requests,
         Intend(p, who)
  PROVE  /\ origin' \in [Publications -> Cells \union Requests \union {None}]
         /\ command' \in [Publications -> {"none", "pending", "claimed", "delivered"}]
         /\ origin'[p] = IF origin[p] = None THEN who ELSE origin[p]
         /\ origin'[p] # None
         /\ \A q \in Publications : q # p => origin'[q] = origin[q] /\ command'[q] = command[q]
         /\ \A q \in Publications : origin[q] # None =>
                origin'[q] = origin[q] /\ command'[q] = command[q]
         /\ \A q \in Publications : command'[q] = "none" <=> origin'[q] = None
<1> USE DEF Consistent, TypeOK, Intend
<1>1. who # None
  BY PublicationFacts
<1>2. /\ origin' \in [Publications -> Cells \union Requests \union {None}]
      /\ origin'[p] = IF origin[p] = None THEN who ELSE origin[p]
      /\ \A q \in Publications : q # p => origin'[q] = origin[q]
  OBVIOUS
<1>3. /\ command' \in [Publications -> {"none", "pending", "claimed", "delivered"}]
      /\ command'[p] = IF origin[p] = None THEN "pending" ELSE command[p]
      /\ \A q \in Publications : q # p => command'[q] = command[q]
  OBVIOUS
<1> QED
  BY <1>1, <1>2, <1>3 DEF LedgerOK

LEMMA MaterializeConsistent ==
  ASSUME Consistent, NEW r \in Requests, Materialize(r)
  PROVE  Consistent'
<1> DEFINE p == Publication(r)
<1> USE DEF world, plan, task
<1>1. CASE request[r] = "linked" /\ UNCHANGED <<request, deferral, origin, command>>
  <2>1. TypeOK'
    BY <1>1 DEF Consistent, TypeOK, Materialize
  <2> QED
    BY <1>1, <2>1, QuietConsistent DEF Consistent, RequestsOK, Materialize
<1>2. CASE /\ request[r] = "accepted"
           /\ Shared(p, r \in Withdrawing)
           /\ Intend(p, r)
           /\ request' = [request EXCEPT ![r] = "linked"]
           /\ deferral' = [deferral EXCEPT ![r] = "none"]
  <2>1. p \in Publications /\ r # None /\ p' = p
    BY PublicationFacts DEF Publication
  <2>2. /\ origin' \in [Publications -> Cells \union Requests \union {None}]
        /\ command' \in [Publications -> {"none", "pending", "claimed", "delivered"}]
        /\ origin'[p] = IF origin[p] = None THEN r ELSE origin[p]
        /\ \A q \in Publications : q # p => origin'[q] = origin[q] /\ command'[q] = command[q]
        /\ \A q \in Publications : origin[q] # None =>
               origin'[q] = origin[q] /\ command'[q] = command[q]
        /\ \A q \in Publications : command'[q] = "none" <=> origin'[q] = None
    BY <1>2, <2>1, IntendFacts
  <2>3. /\ UNCHANGED <<active, ready, public, status, bound, failed, verification, targets,
                       pc, rows, work, chosen, prepared>>
        /\ calls' = calls \ {r}
    BY DEF Materialize
  <2>4. TypeOK'
    BY <1>2, <2>2, <2>3 DEF Consistent, TypeOK
  <2>5. /\ request'[r] = "linked" /\ deferral'[r] = "none"
        /\ \A s \in Requests : s # r => request'[s] = request[s] /\ deferral'[s] = deferral[s]
    BY <1>2 DEF Consistent, TypeOK
  <2>6. LedgerOK'
    <3> SUFFICES ASSUME NEW q \in Publications
                 PROVE  /\ origin'[q] # None => Sound(q)'
                        /\ verification[q] = "verified" => command'[q] = "delivered"
                        /\ command'[q] \in {"none", "pending"} => verification[q] = "unverified"
      BY <2>2, <2>3 DEF LedgerOK
    <3>1. CASE origin[q] # None
      <4>1. Sound(q) /\ origin'[q] = origin[q] /\ command'[q] = command[q]
        BY <3>1, <2>2 DEF Consistent, LedgerOK
      <4> QED
        BY <4>1, <3>1, <2>3, <2>5 DEF Sound, Publication, Consistent, LedgerOK, TypeOK
    <3>2. CASE origin[q] = None
      <4>1. verification[q] = "unverified"
        BY <3>2 DEF Consistent, LedgerOK
      <4>2. origin'[q] # None => q = p /\ origin'[q] = r
        BY <3>2, <2>1, <2>2
      <4> QED
        BY <4>1, <4>2, <2>1, <2>5, PublicationFacts DEF Sound, Publication
    <3> QED
      BY <3>1, <3>2
  <2>7. CellsOK' /\ StatusIsTrue'
    <3>1. ASSUME NEW d \in Cells, bound[d] # None
          PROVE  origin'[Bound(d)] = origin[Bound(d)]
      <4>1. Bound(d) \in Publications
        BY <3>1, PublicationFacts DEF Consistent, TypeOK, Bound
      <4> QED
        BY <4>1, <3>1, <2>2 DEF Consistent, CellsOK
    <3> QED
      BY <3>1, <2>3 DEF Consistent, CellsOK, StatusIsTrue, Bound
  <2>8. RequestsOK'
    <3> SUFFICES ASSUME NEW s \in Requests, request'[s] = "linked"
                 PROVE  /\ deferral'[s] = "none"
                        /\ origin'[Publication(s)] # None
                        /\ (origin'[Publication(s)] \in Withdrawing) = (s \in Withdrawing)
      BY DEF RequestsOK, Publication
    <3>1. CASE s = r
      BY <3>1, <2>1, <2>2, <2>5, <1>2 DEF Shared
    <3>2. CASE s # r
      BY <3>2, <2>2, <2>5, PublicationFacts DEF Consistent, RequestsOK
    <3> QED
      BY <3>1, <3>2
  <2> QED
    BY <2>4, <2>6, <2>7, <2>8 DEF Consistent
<1> QED
  BY <1>1, <1>2 DEF Materialize

LEMMA BindConsistent ==
  ASSUME Consistent, NEW t \in Resumers, Bind(t), work[t] \in Cells
  PROVE  Consistent'
<1> DEFINE c == work[t]
           a == chosen[t]
           p == <<Content[c], a>>
<1> USE DEF world, asked
<1>1. a \in Accounts /\ a # None /\ c \in Cells /\ p \in Publications /\ c # None
  BY PublicationFacts, OutboxAssumption DEF Bind, Bindable, Consistent, TypeOK
<1>2. /\ Shared(p, FALSE) /\ bound[c] \in {None, a} /\ Intend(p, c)
      /\ status' = [status EXCEPT ![c] = Reused(c, p)]
      /\ bound' = [bound EXCEPT ![c] = a]
      /\ Onward(t)
      /\ UNCHANGED <<active, ready, public, request, deferral, calls, failed, verification,
                     targets>>
  BY DEF Bind, Bindable, Unbound
<1>3. /\ origin' \in [Publications -> Cells \union Requests \union {None}]
      /\ command' \in [Publications -> {"none", "pending", "claimed", "delivered"}]
      /\ origin'[p] = IF origin[p] = None THEN c ELSE origin[p]
      /\ \A q \in Publications : q # p => origin'[q] = origin[q] /\ command'[q] = command[q]
      /\ \A q \in Publications : origin[q] # None =>
             origin'[q] = origin[q] /\ command'[q] = command[q]
      /\ \A q \in Publications : command'[q] = "none" <=> origin'[q] = None
  BY <1>1, <1>2, IntendFacts
<1>4. Reused(c, p) \in Statuses
  BY <1>1 DEF Reused, Statuses, Consistent, TypeOK
<1>5. TypeOK'
  <2>1. /\ status' \in [Cells -> Statuses]
        /\ bound' \in [Cells -> Accounts \union {None}]
        /\ pc' \in [Resumers -> {"idle", "listing", "checking", "binding"}]
    BY <1>1, <1>2, <1>4 DEF Consistent, TypeOK, Onward
  <2> QED
    BY <2>1, <1>2, <1>3 DEF Consistent, TypeOK, Onward
<1>6. /\ bound'[c] = a /\ status'[c] = Reused(c, p)
      /\ \A d \in Cells : d # c => bound'[d] = bound[d] /\ status'[d] = status[d]
  BY <1>1, <1>2 DEF Consistent, TypeOK
<1>7. LedgerOK'
  <2> SUFFICES ASSUME NEW q \in Publications
               PROVE  /\ origin'[q] # None => Sound(q)'
                      /\ verification[q] = "verified" => command'[q] = "delivered"
                      /\ command'[q] \in {"none", "pending"} => verification[q] = "unverified"
    BY <1>2, <1>3 DEF LedgerOK
  <2>1. CASE origin[q] # None
    <3>1. Sound(q) /\ origin'[q] = origin[q] /\ command'[q] = command[q]
      BY <2>1, <1>3 DEF Consistent, LedgerOK
    <3>2. CASE origin[q] \in Cells
      <4>1. bound[origin[q]] = q[2] /\ Content[origin[q]] = q[1]
        BY <3>1, <3>2 DEF Sound
      <4>2. q[2] # None
        BY OutboxAssumption DEF Publications
      <4> QED
        BY <3>1, <3>2, <4>1, <4>2, <1>2, <1>6 DEF Sound, Consistent, LedgerOK
    <3>3. CASE origin[q] \notin Cells
      BY <3>1, <3>3, <1>2 DEF Sound, Publication, Consistent, LedgerOK
    <3> QED
      BY <3>2, <3>3
  <2>2. CASE origin[q] = None
    <3>1. verification[q] = "unverified"
      BY <2>2 DEF Consistent, LedgerOK
    <3>2. origin'[q] # None => q = p /\ origin'[q] = c
      BY <2>2, <1>1, <1>3
    <3> QED
      BY <3>1, <3>2, <1>1, <1>6 DEF Sound
  <2> QED
    BY <2>1, <2>2
<1>8. origin'[p] # None /\ origin'[p] \notin Withdrawing
  BY <1>1, <1>2, <1>3, PublicationFacts DEF Shared
<1>9. CellsOK' /\ StatusIsTrue'
  <2> SUFFICES ASSUME NEW d \in Cells
               PROVE  /\ status'[d] = "pending" => bound'[d] = None
                      /\ bound'[d] # None =>
                             origin'[<<Content[d], bound'[d]>>] \notin Withdrawing \union {None}
                      /\ status'[d] = "ready" =>
                             bound'[d] # None /\ origin'[<<Content[d], bound'[d]>>] = d
                      /\ status'[d] = "reused_verified" =>
                             /\ bound'[d] # None
                             /\ verification[<<Content[d], bound'[d]>>] = "verified"
    BY <1>2 DEF CellsOK, StatusIsTrue, Bound
  <2>1. CASE d # c
    <3>1. bound[d] # None => Bound(d) \in Publications
      BY PublicationFacts DEF Consistent, TypeOK, Bound
    <3>2. bound[d] # None => origin[Bound(d)] # None /\ origin'[Bound(d)] = origin[Bound(d)]
      BY <3>1, <1>3 DEF Consistent, CellsOK
    <3> QED
      BY <2>1, <3>1, <3>2, <1>6 DEF Consistent, CellsOK, StatusIsTrue, Bound
  <2>2. CASE d = c
    <3>1. <<Content[d], bound'[d]>> = p
      BY <2>2, <1>6
    <3>2. CASE origin[p] = None
      <4>1. Reused(c, p) = "ready"
        BY <3>2, <1>1 DEF Reused, Consistent, LedgerOK
      <4> QED
        BY <4>1, <3>1, <3>2, <2>2, <1>1, <1>3, <1>6, <1>8
    <3>3. CASE origin[p] # None /\ verification[p] = "verified"
      <4>1. Reused(c, p) = "reused_verified"
        BY <3>3, <1>1 DEF Reused
      <4> QED
        BY <4>1, <3>1, <3>3, <2>2, <1>1, <1>6, <1>8
    <3>4. CASE origin[p] = c /\ verification[p] = "unverified"
      <4>1. Reused(c, p) = IF status[c] = "deferred" THEN "ready" ELSE status[c]
        BY <3>4, <1>1 DEF Reused
      <4>2. bound[c] = a
        BY <3>4, <1>1 DEF Consistent, LedgerOK, Sound
      <4>3. status[c] \notin {"pending", "reused_verified"}
        BY <4>2, <3>4, <1>1 DEF Consistent, CellsOK, StatusIsTrue
      <4> QED
        BY <4>1, <4>3, <3>1, <3>4, <2>2, <1>1, <1>3, <1>6, <1>8
    <3>5. CASE /\ origin[p] # None /\ verification[p] # "verified"
               /\ ~(origin[p] = c /\ verification[p] = "unverified")
      <4>1. Reused(c, p) = "reused_unknown"
        BY <3>5 DEF Reused
      <4> QED
        BY <4>1, <3>1, <2>2, <1>1, <1>6, <1>8
    <3> QED
      BY <3>2, <3>3, <3>4, <3>5
  <2> QED
    BY <2>1, <2>2
<1>10. RequestsOK'
  BY <1>2, <1>3, PublicationFacts DEF Consistent, RequestsOK, Publication
<1> QED
  BY <1>5, <1>7, <1>9, <1>10 DEF Consistent

LEMMA DeferConsistent ==
  ASSUME Consistent, NEW t \in Resumers, Defer(t), work[t] \in Cells
  PROVE  Consistent'
<1> USE DEF world, asked, ledger, Defer, Onward
<1>1. TypeOK'
  BY DEF Consistent, TypeOK, Statuses
<1>2. \A d \in Cells : status'[d] = status[d] \/ status'[d] = "deferred"
  BY DEF Consistent, TypeOK
<1>3. LedgerOK'
  BY DEF Consistent, LedgerOK, Sound, Publication
<1>4. CellsOK' /\ StatusIsTrue'
  BY <1>2 DEF Consistent, CellsOK, StatusIsTrue, Bound
<1>5. RequestsOK'
  BY DEF Consistent, RequestsOK, Publication
<1> QED
  BY <1>1, <1>3, <1>4, <1>5 DEF Consistent

-----------------------------------------------------------------------------
(* The outbox                                                              *)

LEMMA OutboxConsistent ==
  ASSUME Consistent, NEW p \in Publications, Claim(p) \/ Deliver(p)
  PROVE  Consistent'
<1> USE DEF world, plan, asked, task, Claim, Deliver
<1>1. TypeOK'
  BY DEF Consistent, TypeOK
<1>2. /\ command[p] \in {"pending", "claimed"} /\ command'[p] \in {"claimed", "delivered"}
      /\ verification[p] # "verified"
      /\ verification'[p] = "verified" => command'[p] = "delivered"
      /\ \A q \in Publications : q # p =>
             command'[q] = command[q] /\ verification'[q] = verification[q]
  BY DEF Consistent, TypeOK, LedgerOK
<1>3. LedgerOK'
  BY <1>2 DEF Consistent, LedgerOK, Sound, Publication
<1>4. \A q \in Publications : verification[q] = "verified" => verification'[q] = "verified"
  BY <1>2
<1>5. CellsOK' /\ StatusIsTrue'
  <2>1. ASSUME NEW d \in Cells, bound[d] # None PROVE Bound(d) \in Publications
    BY <2>1, PublicationFacts DEF Consistent, TypeOK, Bound
  <2> QED
    BY <1>4, <2>1 DEF Consistent, CellsOK, StatusIsTrue, Bound
<1>6. RequestsOK'
  BY DEF Consistent, RequestsOK, Publication
<1> QED
  BY <1>1, <1>3, <1>5, <1>6 DEF Consistent

-----------------------------------------------------------------------------
(* The other steps                                                         *)

LEMMA RequestConsistent ==
  ASSUME Consistent, NEW r \in Requests,
         Accept(r) \/ Scan(r) \/ MaterializeFails(r) \/ RecordDeferral(r) \/ Forget(r)
             \/ FallsDue(r)
  PROVE  Consistent'
<1> USE DEF world, plan, ledger, task, Accept, Scan, MaterializeFails, RecordDeferral, Forget,
            FallsDue
<1>1. TypeOK'
  BY DEF Consistent, TypeOK
<1>2. \A s \in Requests : request'[s] = "linked" <=> request[s] = "linked"
  BY DEF Consistent, TypeOK
<1>3. \A s \in Requests : request'[s] = "linked" => deferral'[s] = "none"
  BY <1>2 DEF Consistent, TypeOK, RequestsOK
<1> QED
  BY <1>1, <1>2, <1>3, QuietConsistent

LEMMA ResumeConsistent ==
  ASSUME Consistent, NEW t \in Resumers,
         \/ \E a \in Accounts \union {None} : Resume(t, a)
         \/ List(t) \/ Done(t) \/ Abort(t)
         \/ \E c \in Cells : Check(t, c)
  PROVE  Consistent'
<1> USE DEF world, plan, asked, ledger
<1>1. ASSUME NEW a \in Accounts \union {None}, Resume(t, a) PROVE TypeOK'
  BY <1>1 DEF Resume, Consistent, TypeOK
<1>2. ASSUME List(t) PROVE TypeOK'
  <2>1. {c \in Cells : status[c] \in {"pending", "deferred"}} \in SUBSET Cells
    OBVIOUS
  <2>2. pc' \in [Resumers -> {"idle", "listing", "checking", "binding"}]
    BY <1>2 DEF List, Consistent, TypeOK
  <2>3. rows' \in [Resumers -> SUBSET Cells]
    BY <1>2, <2>1 DEF List, Consistent, TypeOK
  <2>4. TypeOK'
    BY <1>2, <2>2, <2>3 DEF List, Consistent, TypeOK
  <2> QED
    BY <2>4
<1>3. ASSUME NEW c \in Cells, Check(t, c) PROVE TypeOK'
  BY <1>3 DEF Check, Consistent, TypeOK
<1>4. UNCHANGED <<plan, asked, ledger>>
  BY DEF Resume, List, Done, Abort, Check
<1>5. TypeOK'
  <2>1. CASE Done(t) \/ Abort(t)
    <3>1. UNCHANGED <<world, plan, asked, ledger>>
      BY <2>1 DEF Done, Abort
    <3>2. /\ pc' \in [Resumers -> {"idle", "listing", "checking", "binding"}]
          /\ rows' \in [Resumers -> SUBSET Cells]
          /\ work' \in [Resumers -> Cells \union {None}]
          /\ chosen' \in [Resumers -> Accounts \union {None}]
          /\ prepared' \in [Resumers -> BOOLEAN]
      BY <2>1 DEF Done, Abort, Finishes, Consistent, TypeOK
    <3> QED
      BY <3>1, <3>2 DEF Consistent, TypeOK
  <2> QED
    BY <1>1, <1>2, <1>3, <2>1
<1> QED
  BY <1>4, <1>5, QuietConsistent DEF Consistent, RequestsOK

LEMMA DispatchConsistent ==
  ASSUME Consistent, NEW page \in SUBSET Publications, Dispatch(page)
  PROVE  Consistent'
<1> USE DEF world, plan, asked, task, Dispatch
<1>1. TypeOK'
  BY DEF Consistent, TypeOK
<1> QED
  BY <1>1, QuietConsistent DEF Consistent, RequestsOK

LEMMA EnvironmentConsistent ==
  ASSUME Consistent, Environment
  PROVE  Consistent'
<1> USE DEF plan, asked, ledger, task, Environment
<1>1. TypeOK'
  BY DEF Consistent, TypeOK
<1> QED
  BY <1>1, QuietConsistent DEF Consistent, RequestsOK

LEMMA StutterConsistent ==
  ASSUME Consistent, UNCHANGED vars
  PROVE  Consistent'
<1> USE DEF vars, world, plan, asked, ledger, task
<1>1. TypeOK'
  BY DEF Consistent, TypeOK
<1> QED
  BY <1>1, QuietConsistent DEF Consistent, RequestsOK

(* A pass that binds works on a cell. *)
WorkOK == \A t \in Resumers : pc[t] = "binding" => work[t] \in Cells

LEMMA WorkKept ==
  ASSUME TypeOK, WorkOK, [Next]_vars
  PROVE  WorkOK'
<1> USE DEF WorkOK, TypeOK
<1>1. ASSUME NEW t \in Resumers, ResumeStep(t)
      PROVE  WorkOK'
  BY <1>1 DEF ResumeStep, Resume, List, Done, Defer, Bind, Abort, Check, Finishes, Onward
<1>2. CASE UNCHANGED task
  BY <1>2 DEF task
<1>3. ASSUME NEW r \in Requests, RequestStep(r)
      PROVE  UNCHANGED task
  BY <1>3 DEF RequestStep, Accept, Scan, Materialize, MaterializeFails, RecordDeferral, Forget,
              FallsDue
<1> QED
  BY <1>1, <1>2, <1>3 DEF Next, Dispatch, Claim, Deliver, Environment, vars

-----------------------------------------------------------------------------
(* The invariant and what it gives                                         *)

(* The strengthened invariant: it is what the theorems below rest on.      *)
THEOREM Invariance == Spec => [](Consistent /\ WorkOK)
<1>1. Init => Consistent /\ WorkOK
  BY InitConsistent DEF Init, WorkOK
<1>2. Consistent /\ WorkOK /\ [Next]_vars => Consistent' /\ WorkOK'
  <2> SUFFICES ASSUME Consistent, WorkOK, [Next]_vars PROVE Consistent' /\ WorkOK'
    OBVIOUS
  <2>1. WorkOK'
    BY WorkKept DEF Consistent
  <2>2. ASSUME NEW r \in Requests, RequestStep(r) PROVE Consistent'
    BY <2>2, MaterializeConsistent, RequestConsistent DEF RequestStep
  <2>3. ASSUME NEW t \in Resumers, ResumeStep(t) PROVE Consistent'
    <3>1. pc[t] = "binding" => work[t] \in Cells
      BY DEF WorkOK
    <3>2. CASE Defer(t)
      BY <3>1, <3>2, DeferConsistent DEF Defer
    <3>3. CASE Bind(t)
      BY <3>1, <3>3, BindConsistent DEF Bind
    <3> QED
      BY <2>3, <3>2, <3>3, ResumeConsistent DEF ResumeStep
  <2> QED
    BY <2>1, <2>2, <2>3, DispatchConsistent, OutboxConsistent, EnvironmentConsistent,
       StutterConsistent DEF Next
<1> QED
  BY <1>1, <1>2, PTL DEF Spec

(* Intents, commands, cells and requests hold what their columns admit.    *)
THEOREM TypeCorrect == Spec => []TypeOK
<1>1. Consistent => TypeOK
  BY DEF Consistent
<1> QED
  BY <1>1, Invariance, PTL

(* Whoever shares a publication agrees on its withdrawal (Shared in both   *)
(* materializations).                                                      *)
THEOREM WithdrawalAgreed == Spec => []WithdrawalIsAgreed
<1>1. Consistent => WithdrawalIsAgreed
  BY DEF Consistent, CellsOK, RequestsOK, WithdrawalIsAgreed, Bound
<1> QED
  BY <1>1, Invariance, PTL

(* The command of a bound cell or linked request stays executable          *)
(* (materialize_pending_commands).                                         *)
THEOREM NoneIsPoisoned == Spec => []NoPoisonedCommand
<1>1. Consistent => NoPoisonedCommand
  BY DEF Consistent, LedgerOK, NoPoisonedCommand
<1> QED
  BY <1>1, Invariance, PTL

(* A ready cell has its own intent, a verified one a verified post.        *)
THEOREM StatusTrue == Spec => []StatusIsTrue
<1>1. Consistent => StatusIsTrue
  BY DEF Consistent
<1> QED
  BY <1>1, Invariance, PTL

(* A late deferral leaves a linked request alone (record_deferral).        *)
THEOREM LinkedIsNotDeferred == Spec => []LinkedDoesNotWait
<1>1. Consistent => LinkedDoesNotWait
  BY DEF Consistent, RequestsOK, LinkedDoesNotWait
<1> QED
  BY <1>1, Invariance, PTL

-----------------------------------------------------------------------------
(* The outbox as a ledger of intents                                       *)

(* What became a target has been intended. *)
TargetsOK == \A p \in targets : command[p] # "none"

LEMMA TargetsKept ==
  ASSUME Consistent, WorkOK, TargetsOK, [Next]_vars
  PROVE  TargetsOK'
<1> USE DEF TargetsOK
<1>1. ASSUME NEW who \in Cells \union Requests, NEW p \in Publications, Intend(p, who),
             UNCHANGED targets
      PROVE  TargetsOK'
  BY <1>1 DEF Intend, Consistent, TypeOK
<1>2. ASSUME NEW r \in Requests, RequestStep(r) PROVE TargetsOK'
  BY <1>1, <1>2, PublicationFacts
  DEF RequestStep, Accept, Scan, Materialize, MaterializeFails, RecordDeferral, Forget,
      FallsDue, ledger
<1>3. ASSUME NEW t \in Resumers, ResumeStep(t) PROVE TargetsOK'
  <2>1. CASE Bind(t)
    <3>1. work[t] \in Cells /\ <<Content[work[t]], chosen[t]>> \in Publications
      BY <2>1, PublicationFacts DEF Bind, Bindable, WorkOK, Consistent, TypeOK
    <3> QED
      BY <1>1, <2>1, <3>1 DEF Bind
  <2> QED
    BY <1>3, <2>1 DEF ResumeStep, Resume, List, Done, Defer, Abort, Check, ledger
<1>4. ASSUME NEW page \in SUBSET Publications, Dispatch(page) PROVE TargetsOK'
  BY <1>4 DEF Dispatch
<1>5. ASSUME NEW p \in Publications, Claim(p) \/ Deliver(p) PROVE TargetsOK'
  BY <1>5 DEF Claim, Deliver, Consistent, TypeOK
<1>6. CASE Environment \/ UNCHANGED vars
  BY <1>6 DEF Environment, vars, ledger
<1> QED
  BY <1>2, <1>3, <1>4, <1>5, <1>6 DEF Next

(* Nothing happens to the ledger of intents.                               *)
LEMMA QuietIntents ==
  ASSUME UNCHANGED <<bound, origin, command, targets>>, putOff' = putOff,
         \A r \in Requests : request'[r] = "linked" <=> request[r] = "linked"
  PROVE  UNCHANGED Intents!vars
<1>1. links' = links
  BY DEF links, Publication
<1>2. stages' = stages
  BY DEF stages
<1> QED
  BY <1>1, <1>2 DEF Intents!vars

(* A seeker that is linked creates the publication, or joins it.           *)
LEMMA LinkingIsCreatingOrJoining ==
  ASSUME Consistent, TargetsOK, NEW s \in Cells \union Requests, NEW p \in seeks[s],
         p \in Publications, Shared(p, s \in Withdrawing), Intend(p, s), UNCHANGED targets,
         links[s] = {}, links' = [links EXCEPT ![s] = {p}], putOff' = putOff \ {s}
  PROVE  Intents!Create(s, p) \/ Intents!Join(s, p)
<1> USE DEF Intend
<1>1. CASE origin[p] = None
  <2>1. origin' = [origin EXCEPT ![p] = s] /\ command' = [command EXCEPT ![p] = "pending"]
    BY <1>1
  <2>2. p \notin targets
    BY <1>1 DEF TargetsOK, Consistent, LedgerOK
  <2>3. /\ command'[p] = "pending"
        /\ \A q \in Publications : q # p => command'[q] = command[q]
    BY <2>1 DEF Consistent, TypeOK
  <2>4. stages' = [stages EXCEPT ![p] = "queued"]
    BY <2>2, <2>3 DEF stages
  <2> QED
    BY <1>1, <2>1, <2>4 DEF Intents!Create
<1>2. CASE origin[p] # None
  <2>1. UNCHANGED <<origin, command>>
    BY <1>2 DEF Consistent, TypeOK
  <2>2. Intents!Agree(s, origin[p])
    BY <1>2 DEF Intents!Agree, Shared
  <2>3. stages' = stages
    BY <2>1 DEF stages
  <2> QED
    BY <1>2, <2>1, <2>2, <2>3 DEF Intents!Join
<1> QED
  BY <1>1, <1>2

(* The outbox implements the ledger of intents: links are for good, agree  *)
(* on the withdrawal and are not put off, and commands go their way once   *)
(* (materialize, materialize_rich, record_deferral, the dispatcher).       *)
THEOREM OutboxImplementsLedger == Spec => ImplementsIntentLedger
<1> DEFINE Inv == Consistent /\ WorkOK /\ TargetsOK
<1>1. Init => TargetsOK /\ Intents!Init
  <2> SUFFICES ASSUME Init PROVE TargetsOK /\ Intents!Init
    OBVIOUS
  <2>1. links = [s \in Cells \union Requests |-> {}]
    BY DEF Init, links
  <2>2. putOff = {} /\ stages = [p \in Publications |-> "none"]
    BY DEF Init, putOff, stages
  <2> QED
    BY <2>1, <2>2 DEF Init, TargetsOK, Intents!Init
<1>2. ASSUME Inv, [Next]_vars PROVE [Intents!Next]_(Intents!vars)
  <2> USE <1>2
  <2>1. ASSUME NEW r \in Requests, RequestStep(r) PROVE [Intents!Next]_(Intents!vars)
    <3>1. CASE Accept(r) \/ Scan(r) \/ MaterializeFails(r) \/ Forget(r) \/ FallsDue(r)
      <4>1. UNCHANGED <<bound, origin, command, targets>>
        BY <3>1 DEF Accept, Scan, MaterializeFails, Forget, FallsDue, plan, ledger
      <4>2. \A s \in Requests : request'[s] = "linked" <=> request[s] = "linked"
        BY <3>1 DEF Accept, Scan, MaterializeFails, Forget, FallsDue, Consistent, TypeOK
      <4>3. putOff' = putOff
        BY <3>1 DEF Accept, Scan, MaterializeFails, Forget, FallsDue, putOff, Consistent, TypeOK
      <4> QED
        BY <4>1, <4>2, <4>3, QuietIntents
    <3>2. CASE RecordDeferral(r)
      <4>1. UNCHANGED <<request, bound, origin, command, targets>>
        BY <3>2 DEF RecordDeferral, plan, ledger
      <4>2. CASE request[r] = "linked"
        <5>1. putOff' = putOff
          BY <3>2, <4>2 DEF RecordDeferral, putOff, Consistent, TypeOK
        <5> QED
          BY <4>1, <5>1, QuietIntents
      <4>3. CASE request[r] # "linked"
        <5>1. putOff' = putOff \union {r}
          BY <3>2, <4>3 DEF RecordDeferral, putOff, Consistent, TypeOK
        <5>2. links[r] = {}
          BY <4>3, PublicationFacts DEF links
        <5>3. links' = links /\ stages' = stages
          BY <4>1 DEF links, stages, Publication
        <5>4. Intents!PutOff(r)
          BY <4>1, <5>1, <5>2, <5>3 DEF Intents!PutOff
        <5> QED
          BY <5>4 DEF Intents!Next
      <4> QED
        BY <4>2, <4>3
    <3>3. CASE Materialize(r)
      <4>1. UNCHANGED <<bound, targets>>
        BY <3>3 DEF Materialize, plan
      <4>2. CASE UNCHANGED <<request, deferral, origin, command>>
        BY <4>1, <4>2, QuietIntents DEF putOff
      <4>3. CASE /\ request[r] = "accepted"
                 /\ Shared(Publication(r), r \in Withdrawing)
                 /\ Intend(Publication(r), r)
                 /\ request' = [request EXCEPT ![r] = "linked"]
                 /\ deferral' = [deferral EXCEPT ![r] = "none"]
        <5>1. Publication(r) \in Publications /\ r \notin Cells
          BY PublicationFacts
        <5>2. Publication(r) \in seeks[r] /\ links[r] = {}
          BY <4>3, <5>1 DEF seeks, links
        <5>3. putOff' = putOff \ {r}
          BY <4>3 DEF putOff, Consistent, TypeOK
        <5>4. links' = [links EXCEPT ![r] = {Publication(r)}]
          BY <4>1, <4>3, <5>1 DEF links, Publication, Consistent, TypeOK
        <5>5. Intents!Create(r, Publication(r)) \/ Intents!Join(r, Publication(r))
          BY <4>1, <4>3, <5>1, <5>2, <5>3, <5>4, LinkingIsCreatingOrJoining
        <5> QED
          BY <5>1, <5>5 DEF Intents!Next, Intents!Create, Intents!Join
      <4> QED
        BY <3>3, <4>2, <4>3 DEF Materialize
    <3> QED
      BY <2>1, <3>1, <3>2, <3>3 DEF RequestStep
  <2>2. ASSUME NEW t \in Resumers, ResumeStep(t) PROVE [Intents!Next]_(Intents!vars)
    <3>1. CASE Bind(t)
      <4> DEFINE c == work[t]
                 p == <<Content[c], chosen[t]>>
      <4>1. c \in Cells /\ chosen[t] \in Accounts /\ chosen[t] # None /\ p \in Publications
        BY <3>1, PublicationFacts DEF Bind, Bindable, WorkOK, Consistent, TypeOK
      <4>2. /\ Shared(p, FALSE) /\ Intend(p, c) /\ bound[c] \in {None, chosen[t]}
            /\ bound' = [bound EXCEPT ![c] = chosen[t]]
            /\ UNCHANGED <<request, deferral, targets>>
        BY <3>1 DEF Bind, Bindable, Unbound, asked
      <4>3. c \notin Requests /\ c \notin Withdrawing
        BY <4>1, PublicationFacts
      <4>4. putOff' = putOff /\ putOff' = putOff \ {c}
        BY <4>2, <4>3 DEF putOff
      <4>5. CASE bound[c] = None
        <5>1. p \in seeks[c] /\ links[c] = {}
          BY <4>1, <4>5 DEF seeks, links
        <5>2. links' = [links EXCEPT ![c] = {p}]
          BY <4>1, <4>2, <4>5 DEF links, Publication, Consistent, TypeOK
        <5>3. Intents!Create(c, p) \/ Intents!Join(c, p)
          <6>1. Shared(p, c \in Withdrawing)
            BY <4>2, <4>3 DEF Shared
          <6> QED
            BY <4>1, <4>2, <4>4, <5>1, <5>2, <6>1, LinkingIsCreatingOrJoining
        <5> QED
          BY <4>1, <5>3 DEF Intents!Next
      <4>6. CASE bound[c] = chosen[t]
        <5>1. bound' = bound
          BY <4>2, <4>6 DEF Consistent, TypeOK
        <5>2. origin[p] # None
          BY <4>1, <4>6 DEF Consistent, CellsOK, Bound
        <5>3. UNCHANGED <<origin, command>>
          BY <4>2, <5>2 DEF Intend, Consistent, TypeOK
        <5> QED
          BY <4>2, <4>4, <5>1, <5>3, QuietIntents
      <4> QED
        BY <4>2, <4>5, <4>6
    <3>2. CASE ~Bind(t)
      <4>1. UNCHANGED <<bound, request, deferral, origin, command, targets>>
        BY <2>2, <3>2
        DEF ResumeStep, Resume, List, Done, Defer, Abort, Check, plan, asked, ledger
      <4> QED
        BY <4>1, QuietIntents DEF putOff
    <3> QED
      BY <3>1, <3>2
  <2>3. ASSUME NEW page \in SUBSET Publications, Dispatch(page) PROVE Intents!Next
    <3>1. \A p \in page : stages[p] = "queued"
      BY <2>3 DEF Dispatch, stages
    <3>2. stages' = [p \in Publications |-> IF p \in page THEN "sent" ELSE stages[p]]
      BY <2>3 DEF Dispatch, stages
    <3>3. UNCHANGED <<links, putOff, origin>>
      BY <2>3 DEF Dispatch, links, putOff, Publication, plan, asked
    <3>4. Intents!Send(page)
      BY <3>1, <3>2, <3>3 DEF Intents!Send
    <3> QED
      BY <3>4 DEF Intents!Next
  <2>4. ASSUME NEW p \in Publications, Claim(p) \/ Deliver(p) PROVE Intents!Next
    <3>1. UNCHANGED <<links, putOff, origin>>
      BY <2>4 DEF Claim, Deliver, links, putOff, Publication, plan, asked
    <3>2. CASE Claim(p)
      <4>1. stages[p] = "sent" /\ stages' = [stages EXCEPT ![p] = "claimed"]
        BY <3>2 DEF Claim, stages, Consistent, TypeOK
      <4>2. Intents!Advance(p, "sent", "claimed")
        BY <3>1, <4>1 DEF Intents!Advance
      <4> QED
        BY <4>2 DEF Intents!Next
    <3>3. CASE Deliver(p)
      <4>1. stages[p] = "claimed" /\ stages' = [stages EXCEPT ![p] = "delivered"]
        BY <3>3 DEF Deliver, stages, Consistent, TypeOK
      <4>2. Intents!Advance(p, "claimed", "delivered")
        BY <3>1, <4>1 DEF Intents!Advance
      <4> QED
        BY <4>2 DEF Intents!Next
    <3> QED
      BY <2>4, <3>2, <3>3
  <2>5. CASE Environment \/ UNCHANGED vars
    <3>1. UNCHANGED <<bound, request, deferral, origin, command, targets>>
      BY <2>5 DEF Environment, vars, plan, asked, ledger
    <3> QED
      BY <3>1, QuietIntents DEF putOff
  <2> QED
    BY <2>1, <2>2, <2>3, <2>4, <2>5 DEF Next
<1>3. Inv /\ [Next]_vars => TargetsOK'
  BY TargetsKept
<1> QED
  BY <1>1, <1>2, <1>3, Invariance, PTL DEF Spec, Intents!Spec, ImplementsIntentLedger
=============================================================================
