---------------------- MODULE OperatorLoginQueueProofs ----------------------
(***************************************************************************)
(* Proofs about OperatorLoginQueue, for any number of items, operations,   *)
(* tasks and sessions.  The invariant has one part about the queue as a    *)
(* value, which the pure functions of the domain preserve, and one about   *)
(* what the tasks know: a task whose version is current still holds the    *)
(* facts its next write relies on.                                         *)
(***************************************************************************)
EXTENDS OperatorLoginQueue, TLAPS

(* The operation of the current item is that item's, and was begun.        *)
Links(q) ==
    /\ \A i \in Items : IsCurrent(q, i) =>
         q.linked[i] \in Ops /\ phase[q.linked[i]] # "unused" /\ item[q.linked[i]] = i
    /\ \A i \in Items : ~IsCurrent(q, i) => q.linked[i] = None
    /\ \A i, j \in Items : IsCurrent(q, i) /\ IsCurrent(q, j) => i = j
    /\ \A o \in Ops : Live(o) =>
         item[o] \in Items /\ IsCurrent(q, item[o]) /\ q.linked[item[o]] = o

Proven(q) ==
    \A i \in Items : q.item[i] = "succeeded" =>
        \E o \in verified : item[o] = i /\ phase[o] = "disposed"

InOrder(q) ==
    \A i, j \in Items : i < j /\ q.item[i] \in {"pending", "current"} =>
        q.item[j] = "pending" /\ q.error[j] = "none"

Awaiting(q) ==
    \A i \in Items : q.error[i] = "login_not_completed" =>
        IsCurrent(q, i) /\ q.status = "paused"

QueueOK(q) == q \in Queues /\ Links(q) /\ Proven(q) /\ InOrder(q) /\ Awaiting(q)

LedgerOK ==
    /\ phase \in [Ops -> Phases]
    /\ item \in [Ops -> Items \cup {0}]
    /\ owner \in [Ops -> Sessions \cup {None}]
    /\ verified \subseteq Ops

WithOperation == {"verify", "recheck", "dispose", "receipt", "owned", "start",
                  "launch", "desktop"}

TasksKnow ==
    /\ task \in [Tasks -> TaskStates]
    /\ fresh \subseteq Tasks
    /\ \A t \in Tasks :
         task[t].pc \in WithOperation \/ (task[t].pc = "read" /\ task[t].cur # None) =>
           task[t].cur \in Ops /\ phase[task[t].cur] # "unused"
    /\ \A t \in fresh : task[t].pc = "decide" => CurrentOp(queue) = task[t].intended
    /\ \A t \in fresh : task[t].pc \in {"claim", "pause"} /\ task[t].cur = None =>
         task[t].about = AtFault(queue)

Turns == QueueOK(queue) /\ LedgerOK /\ TasksKnow

-----------------------------------------------------------------------------
(* The queue as a value                                                    *)

LEMMA ItemsAreNat == Items \subseteq Nat /\ 0 \notin Items
  BY SizeAssumption, SMT DEF Items

(* The operation a queue is said to have is the one of its current item.   *)
LEMMA CurrentOperation ==
  ASSUME NEW q, q \in Queues, Links(q)
  PROVE  /\ CurrentOp(q) \in Ops \cup {None}
         /\ \A i \in Items : IsCurrent(q, i) => CurrentOp(q) = q.linked[i]
         /\ CurrentOp(q) # None =>
              \E i \in Items : IsCurrent(q, i) /\ CurrentOp(q) = q.linked[i]
         /\ CurrentOp(q) = None => \A i \in Items : ~IsCurrent(q, i)
<1>1. CASE \E i \in Items : IsCurrent(q, i)
  <2>1. PICK i \in Items : i = CHOOSE k \in Items : IsCurrent(q, k)
    BY <1>1
  <2>2. IsCurrent(q, i)
    BY <1>1, <2>1
  <2>3. CurrentOp(q) = q.linked[i]
    BY <1>1, <2>1 DEF CurrentOp
  <2>4. \A j \in Items : IsCurrent(q, j) => j = i
    BY <2>2 DEF Links
  <2>5. q.linked[i] \in Ops
    BY <2>2 DEF Links
  <2>6. q.linked[i] # None
    BY <2>5, NoneAssumption
  <2> QED
    BY <2>2, <2>3, <2>4, <2>5, <2>6
<1>2. CASE ~ \E i \in Items : IsCurrent(q, i)
  BY <1>2 DEF CurrentOp
<1> QED
  BY <1>1, <1>2

(* pause_error writes to the current item, else to the first pending one,  *)
(* else to none.                                                           *)
LEMMA FaultIsAnItem ==
  ASSUME NEW q
  PROVE  /\ AtFault(q) \in Items \cup {0}
         /\ (\E i \in Items : IsCurrent(q, i)) => IsCurrent(q, AtFault(q))
         /\ (\A i \in Items : ~IsCurrent(q, i)) /\ AtFault(q) # 0 => IsNext(q, AtFault(q))
<1>1. CASE \E i \in Items : IsCurrent(q, i)
  <2>1. PICK c \in Items : c = CHOOSE i \in Items : IsCurrent(q, i)
    BY <1>1
  <2>2. IsCurrent(q, c)
    BY <1>1, <2>1
  <2>3. AtFault(q) = c
    BY <1>1, <2>1 DEF AtFault
  <2> QED
    BY <1>1, <2>2, <2>3
<1>2. CASE (\E i \in Items : IsNext(q, i)) /\ ~ \E i \in Items : IsCurrent(q, i)
  <2>1. PICK c \in Items : c = CHOOSE i \in Items : IsNext(q, i)
    BY <1>2
  <2>2. IsNext(q, c)
    BY <1>2, <2>1
  <2>3. AtFault(q) = c
    BY <1>2, <2>1 DEF AtFault
  <2> QED
    BY <1>2, <2>2, <2>3
<1>3. CASE (~ \E i \in Items : IsNext(q, i)) /\ ~ \E i \in Items : IsCurrent(q, i)
  BY <1>3 DEF AtFault
<1> QED
  BY <1>1, <1>2, <1>3

(* Letting the current item go is sound once its browser is disposed.      *)
LEMMA UnlinkingIsSound ==
  ASSUME NEW q, QueueOK(q), LedgerOK, NEW s \in {"pending", "succeeded", "skipped"},
         CurrentOp(q) # None, phase[CurrentOp(q)] = "disposed",
         s = "succeeded" => CurrentOp(q) \in verified
  PROVE  /\ QueueOK(Unlinked(q, s))
         /\ \A i \in Items : ~IsCurrent(Unlinked(q, s), i)
         /\ Unlinked(q, s).status = q.status
<1> DEFINE r == Unlinked(q, s)
<1>1. PICK c \in Items : IsCurrent(q, c) /\ CurrentOp(q) = q.linked[c]
  BY CurrentOperation DEF QueueOK
<1>2. \A i \in Items : IsCurrent(q, i) <=> i = c
  BY <1>1 DEF QueueOK, Links
<1>3. /\ r.status = q.status
      /\ r.item = [i \in Items |-> IF i = c THEN s ELSE q.item[i]]
      /\ r.linked = [i \in Items |-> IF i = c THEN None ELSE q.linked[i]]
      /\ r.error = [i \in Items |-> IF i = c THEN "none" ELSE q.error[i]]
  BY <1>2 DEF Unlinked, QueueOK, Queues
<1>4. r \in Queues
  BY DEF Unlinked, QueueOK, Queues
<1>5. \A i \in Items : ~IsCurrent(r, i)
  BY <1>2, <1>3 DEF IsCurrent
<1>6. Links(r)
  <2>1. \A i \in Items : r.linked[i] = None
    BY <1>2, <1>3 DEF QueueOK, Links
  <2>2. \A o \in Ops : ~Live(o)
    BY <1>1, <1>2 DEF QueueOK, Links, Live
  <2> QED
    BY <1>5, <2>1, <2>2 DEF Links
<1>7. Proven(r)
  <2> SUFFICES ASSUME NEW i \in Items, r.item[i] = "succeeded"
               PROVE  \E o \in verified : item[o] = i /\ phase[o] = "disposed"
    BY DEF Proven
  <2>1. CASE i = c
    <3>1. s = "succeeded"
      BY <2>1, <1>3
    <3>2. item[CurrentOp(q)] = c
      BY <1>1 DEF QueueOK, Links
    <3> QED
      BY <2>1, <3>1, <3>2
  <2>2. CASE i # c
    BY <2>2, <1>3 DEF QueueOK, Proven
  <2> QED
    BY <2>1, <2>2
<1>8. InOrder(r)
  <2> SUFFICES ASSUME NEW i \in Items, NEW j \in Items, i < j,
                      r.item[i] \in {"pending", "current"}
               PROVE  r.item[j] = "pending" /\ r.error[j] = "none"
    BY DEF InOrder
  <2>0. q.item[c] = "current"
    BY <1>1 DEF IsCurrent
  <2>1. q.item[i] \in {"pending", "current"}
    BY <1>3, <2>0
  <2>2. q.item[j] = "pending" /\ q.error[j] = "none"
    BY <2>1 DEF QueueOK, InOrder
  <2>3. j # c
    BY <2>0, <2>2
  <2> QED
    BY <2>2, <2>3, <1>3
<1>9. Awaiting(r)
  BY <1>2, <1>3 DEF QueueOK, Awaiting
<1> QED
  BY <1>3, <1>4, <1>5, <1>6, <1>7, <1>8, <1>9 DEF QueueOK

(* So is what reconcile, pause and resume do with the current operation.   *)
LEMMA SettlingIsSound ==
  ASSUME NEW q, QueueOK(q), LedgerOK
  PROVE  QueueOK(Settled(q))
<1>1. CASE CurrentOp(q) = None \/ phase[CurrentOp(q)] # "disposed"
  BY <1>1 DEF Settled
<1>2. CASE CurrentOp(q) # None /\ phase[CurrentOp(q)] = "disposed" /\ CurrentOp(q) \in verified
  BY <1>2, UnlinkingIsSound DEF Settled
<1>3. CASE CurrentOp(q) # None /\ phase[CurrentOp(q)] = "disposed" /\ CurrentOp(q) \notin verified
  <2> DEFINE r == Settled(q)
  <2>1. PICK c \in Items : IsCurrent(q, c) /\ CurrentOp(q) = q.linked[c]
    BY <1>3, CurrentOperation DEF QueueOK
  <2>2. \A i \in Items : IsCurrent(q, i) <=> i = c
    BY <2>1 DEF QueueOK, Links
  <2>3. r = [q EXCEPT !.status = "paused",
                      !.error = [i \in Items |->
                                   IF IsCurrent(q, i) THEN "login_not_completed" ELSE @[i]]]
    BY <1>3 DEF Settled
  <2>4. /\ r.status = "paused" /\ r.item = q.item /\ r.linked = q.linked
        /\ r.error = [i \in Items |-> IF i = c THEN "login_not_completed" ELSE q.error[i]]
    BY <2>2, <2>3 DEF QueueOK, Queues
  <2> DEFINE e == [i \in Items |-> IF IsCurrent(q, i) THEN "login_not_completed" ELSE q.error[i]]
  <2>5. r \in Queues
    <3>1. e \in [Items -> {"none", "login_not_completed", "failed"}]
      BY DEF QueueOK, Queues
    <3>2. r = [q EXCEPT !.status = "paused", !.error = e]
      BY <2>3
    <3> HIDE DEF r, e
    <3> QED
      BY <3>1, <3>2 DEF QueueOK, Queues
  <2>6. \A i \in Items : IsCurrent(r, i) <=> IsCurrent(q, i)
    BY <2>4 DEF IsCurrent
  <2>7. Links(r) /\ Proven(r)
    BY <2>4, <2>6 DEF QueueOK, Links, Proven
  <2>8. InOrder(r)
    <3>1. q.item[c] = "current"
      BY <2>1 DEF IsCurrent
    <3> QED
      BY <2>4, <3>1 DEF QueueOK, InOrder
  <2>9. Awaiting(r)
    BY <2>2, <2>4, <2>6 DEF QueueOK, Awaiting
  <2> HIDE DEF r
  <2> QED
    BY <2>5, <2>7, <2>8, <2>9 DEF QueueOK, r
<1> QED
  BY <1>1, <1>2, <1>3

(* A queue without a failed login awaiting a decision may take any status; *)
(* pausing is always allowed, and so is finishing.                         *)
LEMMA StatusIsSound ==
  ASSUME NEW q, QueueOK(q), NEW s \in {"running", "paused", "completed"},
         s = "paused" \/ \A i \in Items : q.error[i] # "login_not_completed"
  PROVE  QueueOK([q EXCEPT !.status = s])
<1> DEFINE r == [q EXCEPT !.status = s]
<1>1. r.status = s /\ r.item = q.item /\ r.linked = q.linked /\ r.error = q.error
  BY DEF QueueOK, Queues
<1>2. r \in Queues
  BY DEF QueueOK, Queues
<1>3. \A i \in Items : IsCurrent(r, i) <=> IsCurrent(q, i)
  BY <1>1 DEF IsCurrent
<1>4. Links(r) /\ Proven(r) /\ InOrder(r)
  BY <1>1, <1>3 DEF QueueOK, Links, Proven, InOrder
<1>5. Awaiting(r)
  BY <1>1, <1>3 DEF QueueOK, Awaiting
<1> HIDE DEF r
<1> QED
  BY <1>2, <1>4, <1>5 DEF QueueOK, r

LEMMA FinishingIsSound ==
  ASSUME NEW q, QueueOK(q)
  PROVE  QueueOK(Finished(q))
<1>1. CASE \A i \in Items : q.item[i] \in {"succeeded", "skipped"}
  <2>1. \A i \in Items : q.error[i] # "login_not_completed"
    BY <1>1 DEF QueueOK, Awaiting, IsCurrent
  <2> QED
    BY <1>1, <2>1, StatusIsSound DEF Finished
<1>2. CASE ~ \A i \in Items : q.item[i] \in {"succeeded", "skipped"}
  BY <1>2 DEF Finished
<1> QED
  BY <1>1, <1>2

LEMMA PausingIsSound ==
  ASSUME NEW q, QueueOK(q)
  PROVE  QueueOK(WithStatus(q, "paused"))
BY StatusIsSound DEF WithStatus

LEMMA ResumingIsSound ==
  ASSUME NEW q, QueueOK(q), ~NeedsDecision(q)
  PROVE  QueueOK(WithStatus(q, "running"))
<1>1. \A i \in Items : q.error[i] # "login_not_completed"
  BY DEF QueueOK, Awaiting, NeedsDecision
<1> QED
  BY <1>1, StatusIsSound DEF WithStatus

LEMMA DecidingIsSound ==
  ASSUME NEW q, QueueOK(q), LedgerOK, NEW cmd,
         CurrentOp(q) # None, phase[CurrentOp(q)] = "disposed"
  PROVE  QueueOK(Decided(q, cmd))
<1>1. CASE cmd = "retry"
  BY <1>1, UnlinkingIsSound, StatusIsSound DEF Decided
<1>2. CASE cmd # "retry"
  BY <1>2, UnlinkingIsSound, FinishingIsSound DEF Decided
<1> QED
  BY <1>1, <1>2

(* A failure is put down to the first unfinished item.                     *)
LEMMA FailingIsSound ==
  ASSUME NEW q, QueueOK(q), LedgerOK
  PROVE  QueueOK([q EXCEPT !.status = "paused",
                    !.error = [j \in Items |-> IF j = AtFault(q) THEN "failed" ELSE @[j]]])
<1> DEFINE f == AtFault(q)
           e == [j \in Items |-> IF j = f THEN "failed" ELSE q.error[j]]
           r == [q EXCEPT !.status = "paused", !.error = e]
<1>1. e \in [Items -> {"none", "login_not_completed", "failed"}]
  BY DEF QueueOK, Queues
<1>2. \A j \in Items : e[j] = IF j = f THEN "failed" ELSE q.error[j]
  OBVIOUS
<1>3. \A i, j \in Items : i < j /\ q.item[i] \in {"pending", "current"} => j # f
  <2> SUFFICES ASSUME NEW i \in Items, NEW j \in Items, i < j,
                      q.item[i] \in {"pending", "current"}, j = f
               PROVE  FALSE
    OBVIOUS
  <2>1. q.item[j] = "pending"
    BY DEF QueueOK, InOrder
  <2>2. ~IsCurrent(q, j)
    BY <2>1 DEF IsCurrent
  <2>3. \A k \in Items : ~IsCurrent(q, k)
    BY <2>2, FaultIsAnItem
  <2>4. IsNext(q, j)
    BY <2>3, FaultIsAnItem, ItemsAreNat
  <2>5. i \in 1..(j-1)
    BY SizeAssumption DEF Items
  <2>6. q.item[i] = "pending"
    BY <2>3 DEF IsCurrent
  <2> QED
    BY <2>4, <2>5, <2>6 DEF IsNext
<1> HIDE DEF e
<1>4. /\ r.status = "paused" /\ r.item = q.item
      /\ r.linked = q.linked /\ r.error = e /\ r \in Queues
  BY <1>1 DEF QueueOK, Queues
<1> HIDE DEF r
<1>5. \A i \in Items : IsCurrent(r, i) <=> IsCurrent(q, i)
  BY <1>4 DEF IsCurrent
<1>6. Links(r) /\ Proven(r)
  BY <1>4, <1>5 DEF QueueOK, Links, Proven
<1>7. InOrder(r)
  BY <1>2, <1>3, <1>4 DEF QueueOK, InOrder
<1>8. Awaiting(r)
  BY <1>2, <1>4, <1>5 DEF QueueOK, Awaiting
<1>9. QueueOK(r)
  BY <1>4, <1>6, <1>7, <1>8 DEF QueueOK
<1> QED
  BY <1>9 DEF r, e

-----------------------------------------------------------------------------
(* Writes that change the ledger as well                                   *)

(* Begun operations stay begun and disposed ones disposed, markers stay,   *)
(* and the queue may rely on it while others work on the ledger.           *)
LEMMA LedgerMovesForward ==
  ASSUME QueueOK(queue), LedgerOK, queue' = queue, item' = item, verified \subseteq verified',
         \A o \in Ops : /\ phase'[o] = "unused" <=> phase[o] = "unused"
                        /\ phase[o] = "disposed" => phase'[o] = "disposed"
  PROVE  QueueOK(queue)'
<1>1. \A o \in Ops : Live(o)' => Live(o)
  BY DEF Live, LedgerOK, Phases
<1>2. \A i \in Items : IsCurrent(queue, i)' <=> IsCurrent(queue, i)
  BY DEF IsCurrent
<1>3. Links(queue)'
  BY <1>1, <1>2 DEF QueueOK, Links
<1>4. Proven(queue)'
  <2> SUFFICES ASSUME NEW i \in Items, queue.item[i] = "succeeded"
               PROVE  \E o \in verified' : item'[o] = i /\ phase'[o] = "disposed"
    BY DEF Proven
  <2>1. PICK o \in verified : item[o] = i /\ phase[o] = "disposed"
    BY DEF QueueOK, Proven
  <2> QED
    BY <2>1 DEF LedgerOK
<1>5. InOrder(queue)' /\ Awaiting(queue)'
  BY <1>2 DEF QueueOK, InOrder, Awaiting
<1> QED
  BY <1>3, <1>4, <1>5 DEF QueueOK, Queues

(* The claim makes the first pending item current, with its own operation. *)
LEMMA ClaimingIsSound ==
  ASSUME QueueOK(queue), LedgerOK, NEW o \in Ops, phase[o] = "unused", MayClaim(queue),
         \E i \in Items : IsNext(queue, i),
         phase' = [phase EXCEPT ![o] = "prepared"],
         item' = [item EXCEPT ![o] = CHOOSE i \in Items : IsNext(queue, i)],
         verified' = verified, queue' = Claimed(queue, o)
  PROVE  QueueOK(queue)' /\ CurrentOp(Claimed(queue, o)) = o
<1> DEFINE q == queue
           r == Claimed(queue, o)
<1>1. PICK c \in Items : c = CHOOSE i \in Items : IsNext(queue, i)
  OBVIOUS
<1>2. IsNext(q, c)
  BY <1>1
<1>3. \A i \in Items : ~IsCurrent(q, i)
  BY DEF MayClaim
<1>4. /\ r.status = q.status
      /\ r.item = [q.item EXCEPT ![c] = "current"]
      /\ r.linked = [q.linked EXCEPT ![c] = o]
      /\ r.error = [q.error EXCEPT ![c] = "none"]
      /\ r \in Queues
  <2>1. r = [q EXCEPT !.item[c] = "current", !.linked[c] = o, !.error[c] = "none"]
    BY <1>1 DEF Claimed
  <2>2. r = [q EXCEPT !.item = [@ EXCEPT ![c] = "current"], !.linked = [@ EXCEPT ![c] = o],
                      !.error = [@ EXCEPT ![c] = "none"]]
    BY <2>1
  <2>3. r = [status |-> q.status, item |-> [q.item EXCEPT ![c] = "current"],
             linked |-> [q.linked EXCEPT ![c] = o], error |-> [q.error EXCEPT ![c] = "none"]]
    BY <2>2 DEF QueueOK, Queues
  <2> HIDE DEF r
  <2> QED
    BY <2>3 DEF QueueOK, Queues
<1> HIDE DEF r
<1>5. \A i \in Items : IsCurrent(r, i) <=> i = c
  BY <1>3, <1>4 DEF IsCurrent, QueueOK, Queues
<1>6. item'[o] = c /\ phase'[o] = "prepared"
  BY <1>1 DEF LedgerOK
<1>7. \A p \in Ops : p # o => item'[p] = item[p] /\ phase'[p] = phase[p]
  BY DEF LedgerOK
<1>8. \A p \in Ops : ~Live(p)
  BY <1>3 DEF QueueOK, Links
<1>9. queue' = r
  BY DEF r
<1>10. Links(queue)'
  <2>1. \A i \in Items : IsCurrent(r, i) =>
          r.linked[i] \in Ops /\ phase'[r.linked[i]] # "unused" /\ item'[r.linked[i]] = i
    BY <1>4, <1>5, <1>6 DEF QueueOK, Queues
  <2>2. \A i \in Items : ~IsCurrent(r, i) => r.linked[i] = None
    BY <1>3, <1>4, <1>5 DEF QueueOK, Queues, Links
  <2>3. \A p \in Ops : Live(p)' => p = o
    BY <1>7, <1>8 DEF Live
  <2>4. r.linked[c] = o
    BY <1>4 DEF QueueOK, Queues
  <2>5. \A p \in Ops : Live(p)' =>
          item'[p] \in Items /\ IsCurrent(r, item'[p]) /\ r.linked[item'[p]] = p
    BY <1>5, <1>6, <2>3, <2>4
  <2>6. \A i \in Items : IsCurrent(queue, i)' <=> IsCurrent(r, i)
    BY <1>9 DEF IsCurrent
  <2> QED
    BY <1>5, <1>9, <2>1, <2>2, <2>5, <2>6 DEF Links, IsCurrent
<1>11. Proven(queue)'
  <2> SUFFICES ASSUME NEW i \in Items, r.item[i] = "succeeded"
               PROVE  \E p \in verified : item'[p] = i /\ phase'[p] = "disposed"
    BY <1>9 DEF Proven
  <2>1. q.item[i] = "succeeded"
    BY <1>4 DEF QueueOK, Queues
  <2>2. PICK p \in verified : item[p] = i /\ phase[p] = "disposed"
    BY <2>1 DEF QueueOK, Proven
  <2> QED
    BY <1>7, <2>2 DEF LedgerOK
<1>12. InOrder(queue)'
  <2> SUFFICES ASSUME NEW i \in Items, NEW j \in Items, i < j,
                      r.item[i] \in {"pending", "current"}
               PROVE  r.item[j] = "pending" /\ r.error[j] = "none"
    BY <1>9 DEF InOrder
  <2>1. q.item[c] = "pending" /\ \A k \in 1..(c-1) : q.item[k] # "pending"
    BY <1>2 DEF IsNext
  <2>2. q.item[i] \in {"pending", "current"}
    BY <1>4, <2>1 DEF QueueOK, Queues
  <2>3. q.item[j] = "pending" /\ q.error[j] = "none"
    BY <2>2 DEF QueueOK, InOrder
  <2>4. j # c
    <3>1. q.item[i] = "pending"
      BY <2>2, <1>3 DEF IsCurrent
    <3>2. j = c => i \in 1..(c-1)
      BY SizeAssumption DEF Items
    <3> QED
      BY <2>1, <3>1, <3>2
  <2> QED
    BY <1>4, <2>3, <2>4 DEF QueueOK, Queues
<1>13. Awaiting(queue)'
  <2> SUFFICES ASSUME NEW i \in Items, r.error[i] = "login_not_completed"
               PROVE  FALSE
    BY <1>9 DEF Awaiting
  <2>1. q.error[i] = "login_not_completed"
    BY <1>4 DEF QueueOK, Queues
  <2> QED
    BY <1>3, <2>1 DEF QueueOK, Awaiting
<1>14. CurrentOp(r) = o
  <2>1. (CHOOSE i \in Items : IsCurrent(r, i)) = c
    BY <1>5
  <2> QED
    BY <1>4, <1>5, <2>1 DEF CurrentOp, QueueOK, Queues
<1> QED
  BY <1>4, <1>9, <1>10, <1>11, <1>12, <1>13, <1>14 DEF QueueOK, Queues, r

-----------------------------------------------------------------------------
(* What the tasks know                                                     *)

LEMMA OwnsNothing == Idle \in TaskStates
  BY DEF Idle, TaskStates, Places, Commands

(* A task that takes q as its snapshot, with the others outdated if q is   *)
(* a change, leaves every current task with true knowledge.                *)
LEMMA GoingKeepsKnowledge ==
  ASSUME TasksKnow, NEW t \in Tasks, NEW q, CurrentOp(q) \in Ops \cup {None},
         NEW pc \in Places \ {"verify", "recheck", "dispose", "receipt", "launch",
                              "desktop", "pause"},
         Go(t, pc, q), queue' = q, fresh' \subseteq Tasks,
         \A u \in fresh' : u = t \/ (u \in fresh /\ q = queue),
         \A o \in Ops : phase[o] # "unused" => phase'[o] # "unused",
         pc \in {"owned", "start"} => CurrentOp(q) # None,
         CurrentOp(q) # None => phase'[CurrentOp(q)] # "unused",
         pc = "decide" => CurrentOp(q) = task[t].intended
  PROVE  TasksKnow'
<1> DEFINE s == task'[t]
<1>1. \A u \in Tasks : u # t => task'[u] = task[u]
  BY DEF Go, TasksKnow
<1>2. /\ s \in TaskStates /\ s.pc = pc
      /\ pc \notin {"idle", "drive"} =>
           /\ s.cur = CurrentOp(q) /\ s.intended = task[t].intended
           /\ pc = "claim" => s.about = AtFault(q)
  <2>1. AtFault(q) \in Items \cup {0}
    BY FaultIsAnItem
  <2>2. CASE pc = "idle"
    <3>1. s = Idle
      BY <2>2 DEF Go, TasksKnow
    <3> QED
      BY <2>2, <3>1, OwnsNothing DEF Idle
  <2>3. CASE pc = "drive"
    <3>1. s = [Idle EXCEPT !.pc = "drive", !.session = task[t].session]
      BY <2>3 DEF Go, TasksKnow
    <3>2. task[t].session \in Sessions \cup {None}
      BY DEF TasksKnow, TaskStates
    <3> QED
      BY <2>3, <3>1, <3>2 DEF Idle, TaskStates, Places, Commands
  <2>4. CASE pc \notin {"idle", "drive"}
    <3> DEFINE a == IF pc = "claim" THEN AtFault(q) ELSE 0
    <3>1. s = [task[t] EXCEPT !.pc = pc, !.cur = CurrentOp(q), !.about = a]
      BY <2>4 DEF Go, TasksKnow
    <3>2. a \in Items \cup {0} /\ (pc = "claim" => a = AtFault(q))
      BY <2>1
    <3>3. task[t] \in TaskStates
      BY DEF TasksKnow
    <3> HIDE DEF a, s
    <3> QED
      BY <2>4, <3>1, <3>2, <3>3 DEF TaskStates
  <2> QED
    BY <2>2, <2>3, <2>4
<1> HIDE DEF s
<1>3. task' \in [Tasks -> TaskStates]
  <2>1. task' = [task EXCEPT ![t] = s]
    BY DEF Go, TasksKnow, s
  <2> QED
    BY <1>2, <2>1 DEF TasksKnow
<1>4. \A u \in Tasks :
        task'[u].pc \in WithOperation \/ (task'[u].pc = "read" /\ task'[u].cur # None) =>
          task'[u].cur \in Ops /\ phase'[task'[u].cur] # "unused"
  <2> SUFFICES ASSUME NEW u \in Tasks,
                      \/ task'[u].pc \in WithOperation
                      \/ task'[u].pc = "read" /\ task'[u].cur # None
               PROVE  task'[u].cur \in Ops /\ phase'[task'[u].cur] # "unused"
    OBVIOUS
  <2>1. CASE u = t
    BY <2>1, <1>2 DEF WithOperation, s
  <2>2. CASE u # t
    BY <2>2, <1>1 DEF TasksKnow
  <2> QED
    BY <2>1, <2>2
<1>5. \A u \in fresh' : task'[u].pc = "decide" => CurrentOp(q) = task'[u].intended
  <2> SUFFICES ASSUME NEW u \in fresh', task'[u].pc = "decide"
               PROVE  CurrentOp(q) = task'[u].intended
    OBVIOUS
  <2>1. CASE u = t
    BY <2>1, <1>2 DEF s
  <2>2. CASE u # t
    BY <2>2, <1>1 DEF TasksKnow
  <2> QED
    BY <2>1, <2>2
<1>6. \A u \in fresh' : task'[u].pc \in {"claim", "pause"} /\ task'[u].cur = None =>
        task'[u].about = AtFault(q)
  <2> SUFFICES ASSUME NEW u \in fresh', task'[u].pc \in {"claim", "pause"},
                      task'[u].cur = None
               PROVE  task'[u].about = AtFault(q)
    OBVIOUS
  <2>1. CASE u = t
    BY <2>1, <1>2 DEF s
  <2>2. CASE u # t
    BY <2>2, <1>1 DEF TasksKnow
  <2> QED
    BY <2>1, <2>2
<1>7. CurrentOp(queue)' = CurrentOp(q) /\ AtFault(queue)' = AtFault(q)
  BY DEF CurrentOp, AtFault, IsCurrent, IsNext
<1> QED
  BY <1>3, <1>4, <1>5, <1>6, <1>7 DEF TasksKnow

(* So does a task that goes on without touching the queue.                 *)
LEMMA MovingKeepsKnowledge ==
  ASSUME TasksKnow, NEW t \in Tasks, NEW pc \in Places \ {"claim", "decide", "read"}, Move(t, pc),
         \A o \in Ops : phase[o] # "unused" => phase'[o] # "unused",
         pc \in WithOperation => task[t].pc \in WithOperation \/
                                 (task[t].cur \in Ops /\ phase[task[t].cur] # "unused"),
         pc = "pause" => task[t].pc \in WithOperation \cup {"claim"}
  PROVE  TasksKnow'
<1>1. \A u \in Tasks : u # t => task'[u] = task[u]
  BY DEF Move, TasksKnow
<1>2. task'[t] = [task[t] EXCEPT !.pc = pc] /\ task' \in [Tasks -> TaskStates]
  <2>1. task[t] \in TaskStates
    BY DEF TasksKnow
  <2>2. [task[t] EXCEPT !.pc = pc] \in TaskStates
    BY <2>1 DEF TaskStates
  <2>3. task' = [task EXCEPT ![t] = [task[t] EXCEPT !.pc = pc]]
    BY DEF Move
  <2> QED
    BY <2>2, <2>3 DEF TasksKnow
<1>3. /\ task'[t].pc = pc /\ task'[t].cur = task[t].cur
      /\ task'[t].about = task[t].about
  <2>1. task[t] \in TaskStates
    BY DEF TasksKnow
  <2> QED
    BY <1>2, <2>1 DEF TaskStates
<1>4. queue' = queue /\ fresh' = fresh
  BY DEF Move
<1>5. \A u \in Tasks :
        task'[u].pc \in WithOperation \/ (task'[u].pc = "read" /\ task'[u].cur # None) =>
          task'[u].cur \in Ops /\ phase'[task'[u].cur] # "unused"
  BY <1>1, <1>3 DEF TasksKnow
<1>6. \A u \in fresh : task'[u].pc = "decide" => CurrentOp(queue) = task'[u].intended
  BY <1>1, <1>3 DEF TasksKnow
<1>7. \A u \in fresh : task'[u].pc \in {"claim", "pause"} /\ task'[u].cur = None =>
        task'[u].about = AtFault(queue)
  <2> SUFFICES ASSUME NEW u \in fresh, task'[u].pc \in {"claim", "pause"},
                      task'[u].cur = None
               PROVE  task'[u].about = AtFault(queue)
    OBVIOUS
  <2>1. CASE u = t
    <3>1. task[t].pc \in WithOperation \cup {"claim"} /\ task[t].cur = None
      BY <2>1, <1>3
    <3>2. task[t].pc = "claim"
      BY <3>1, NoneAssumption DEF TasksKnow
    <3> QED
      BY <2>1, <3>1, <3>2, <1>3 DEF TasksKnow
  <2>2. CASE u # t
    BY <2>2, <1>1 DEF TasksKnow
  <2> QED
    BY <2>1, <2>2
<1>8. CurrentOp(queue)' = CurrentOp(queue) /\ AtFault(queue)' = AtFault(queue)
  BY <1>4 DEF CurrentOp, AtFault, IsCurrent, IsNext
<1> QED
  BY <1>2, <1>4, <1>5, <1>6, <1>7, <1>8 DEF TasksKnow

-----------------------------------------------------------------------------
(* The steps                                                               *)

(* A sound value committed at the current version.                         *)
LEMMA CommittingIsSound ==
  ASSUME Turns, NEW t \in Tasks, NEW q, QueueOK(q), UNCHANGED ledger,
         NEW pc \in {"idle", "apply", "read", "drive", "claim", "owned", "start"},
         Commit(t, q, pc), pc \in {"owned", "start"} => CurrentOp(q) # None
  PROVE  Turns'
<1>1. QueueOK(queue)'
  BY DEF Commit, ledger, QueueOK, Queues, Links, Live, Proven, InOrder, Awaiting, IsCurrent
<1>2. LedgerOK'
  BY DEF Turns, LedgerOK, ledger
<1>3. TasksKnow'
  <2>1. CurrentOp(q) \in Ops \cup {None} /\
        (CurrentOp(q) # None => phase'[CurrentOp(q)] # "unused")
    BY CurrentOperation DEF QueueOK, Links, ledger
  <2>2. /\ fresh' \subseteq Tasks
        /\ \A u \in fresh' : u = t \/ (u \in fresh /\ q = queue)
    BY DEF Commit, Turns, TasksKnow
  <2>3. phase' = phase /\ Go(t, pc, q) /\ queue' = q
    BY DEF Commit, ledger
  <2>4. pc \in Places \ {"verify", "recheck", "dispose", "receipt", "launch",
                         "desktop", "pause"}
    BY DEF Places
  <2> QED
    BY <2>1, <2>2, <2>3, <2>4, GoingKeepsKnowledge DEF Turns
<1> QED
  BY <1>1, <1>2, <1>3 DEF Turns

(* A queue read again, without a change.                                   *)
LEMMA ReadingIsSound ==
  ASSUME Turns, NEW t \in Tasks,
         NEW pc \in {"idle", "drive", "claim", "start", "decide", "settle"}, Read(t, pc),
         pc = "start" => CurrentOp(queue) # None,
         pc = "decide" => CurrentOp(queue) = task[t].intended
  PROVE  Turns'
<1>1. QueueOK(queue)'
  BY DEF Read, ledger, Turns, QueueOK, Queues, Links, Live, Proven, InOrder, Awaiting, IsCurrent
<1>2. LedgerOK'
  BY DEF Turns, LedgerOK, Read, ledger
<1>3. TasksKnow'
  <2>1. CurrentOp(queue) \in Ops \cup {None} /\
        (CurrentOp(queue) # None => phase'[CurrentOp(queue)] # "unused")
    BY CurrentOperation DEF Turns, QueueOK, Links, ledger, Read
  <2>2. /\ fresh' \subseteq Tasks
        /\ \A u \in fresh' : u = t \/ u \in fresh
    BY DEF Read, Turns, TasksKnow
  <2>3. phase' = phase /\ Go(t, pc, queue) /\ queue' = queue
    BY DEF Read, ledger
  <2>4. pc \in Places \ {"verify", "recheck", "dispose", "receipt", "launch",
                         "desktop", "pause"}
    BY DEF Places
  <2> QED
    BY <2>1, <2>2, <2>3, <2>4, GoingKeepsKnowledge DEF Turns
<1> QED
  BY <1>1, <1>2, <1>3 DEF Turns

(* One begun operation moved forward, by a task or by others.              *)
LEMMA OperationMovesForward ==
  ASSUME Turns, queue' = queue, item' = item, owner' = owner, NEW o \in Ops,
         phase[o] # "unused",
         verified' = verified \/ verified' = verified \cup {o},
         \/ phase' = phase
         \/ \E p \in {"start_requested", "closing"} :
              phase[o] # "disposed" /\ phase' = [phase EXCEPT ![o] = p]
         \/ phase' = [phase EXCEPT ![o] = "disposed"]
  PROVE  /\ QueueOK(queue)' /\ LedgerOK'
         /\ \A p \in Ops : phase[p] # "unused" => phase'[p] # "unused"
<1>1. LedgerOK'
  BY DEF Turns, LedgerOK, Phases
<1>2. /\ verified \subseteq verified'
      /\ \A p \in Ops : /\ phase'[p] = "unused" <=> phase[p] = "unused"
                        /\ phase[p] = "disposed" => phase'[p] = "disposed"
  BY DEF Turns, LedgerOK
<1> QED
  BY <1>1, <1>2, LedgerMovesForward DEF Turns

LEMMA LookingIsSound ==
  ASSUME Turns, UNCHANGED <<queue, ledger>>
  PROVE  QueueOK(queue)' /\ LedgerOK'
BY DEF Turns, ledger, LedgerOK, QueueOK, Queues, Links, Live, Proven, InOrder, Awaiting, IsCurrent

(* Starting state: every item pending, nothing begun.                      *)
LEMMA TurnsInit == Init => Turns
<1> SUFFICES ASSUME Init PROVE Turns
  OBVIOUS
<1>1. queue \in Queues
  BY DEF Init, Queues
<1>2. \A i \in Items : ~IsCurrent(queue, i)
  BY DEF Init, IsCurrent
<1>3. Links(queue)
  BY <1>2 DEF Init, Links, Live
<1>4. Proven(queue) /\ InOrder(queue) /\ Awaiting(queue)
  BY DEF Init, Proven, InOrder, Awaiting
<1>5. LedgerOK
  BY DEF Init, LedgerOK, Phases
<1>6. TasksKnow
  <2>1. task \in [Tasks -> TaskStates]
    BY OwnsNothing DEF Init
  <2>2. \A t \in Tasks : task[t].pc = "idle"
    BY DEF Init, Idle
  <2> QED
    BY <2>1, <2>2 DEF Init, TasksKnow, WithOperation
<1> QED
  BY <1>1, <1>3, <1>4, <1>5, <1>6 DEF Turns, QueueOK

LEMMA BeginStep ==
  ASSUME Turns, NEW t \in Tasks, NEW c \in Commands, NEW s \in Sessions, Begin(t, c, s)
  PROVE  Turns'
<1>1. QueueOK(queue)' /\ LedgerOK'
  BY LookingIsSound DEF Begin
<1>2. TasksKnow'
  <2> DEFINE n == IF c = "create" THEN [Idle EXCEPT !.pc = "drive", !.session = s]
                  ELSE [Idle EXCEPT !.pc = "reconcile", !.cmd = c, !.session = s,
                                    !.intended = CurrentOp(queue)]
  <2>1. task' = [task EXCEPT ![t] = n] /\ fresh' = fresh \cup {t} /\ UNCHANGED <<queue, ledger>>
    BY DEF Begin
  <2>2. CurrentOp(queue) \in Ops \cup {None}
    BY CurrentOperation DEF Turns, QueueOK
  <2>3. n \in TaskStates /\ n.pc \in {"drive", "reconcile"}
    BY <2>2 DEF Idle, TaskStates, Places, Commands
  <2> HIDE DEF n
  <2>4. /\ task' \in [Tasks -> TaskStates]
        /\ task'[t].pc \in {"drive", "reconcile"}
        /\ \A u \in Tasks : u # t => task'[u] = task[u]
    BY <2>1, <2>3 DEF Turns, TasksKnow
  <2>5. CurrentOp(queue)' = CurrentOp(queue) /\ AtFault(queue)' = AtFault(queue)
    BY <2>1 DEF CurrentOp, AtFault, IsCurrent, IsNext
  <2>6. phase' = phase
    BY <2>1 DEF ledger
  <2> QED
    BY <2>1, <2>4, <2>5, <2>6 DEF Turns, TasksKnow, WithOperation
<1> QED
  BY <1>1, <1>2 DEF Turns

(* An idle task knows nothing.                                             *)
LEMMA LeavingKeepsKnowledge ==
  ASSUME TasksKnow, NEW t \in Tasks, task' = [task EXCEPT ![t] = Idle],
         fresh' = fresh \ {t}, UNCHANGED <<queue, ledger>>
  PROVE  TasksKnow'
<1>1. /\ task' \in [Tasks -> TaskStates]
      /\ task'[t].pc = "idle"
      /\ \A u \in Tasks : u # t => task'[u] = task[u]
  BY OwnsNothing DEF TasksKnow, Idle
<1>2. CurrentOp(queue)' = CurrentOp(queue) /\ AtFault(queue)' = AtFault(queue)
  BY DEF CurrentOp, AtFault, IsCurrent, IsNext
<1> QED
  BY <1>1, <1>2 DEF TasksKnow, WithOperation, ledger

LEMMA LeaveStep ==
  ASSUME Turns, NEW t \in Tasks, Leave(t)
  PROVE  Turns'
BY LookingIsSound, LeavingKeepsKnowledge DEF Turns, Leave

LEMMA PauseErrorStep ==
  ASSUME Turns, NEW t \in Tasks, PauseError(t)
  PROVE  Turns'
<1> DEFINE q == [queue EXCEPT !.status = "paused",
                   !.error = [j \in Items |-> IF j = AtFault(queue) THEN "failed" ELSE @[j]]]
<1>1. QueueOK(q)
  BY FailingIsSound DEF Turns
<1>2. queue' = q /\ task' = [task EXCEPT ![t] = Idle] /\ fresh' = {} /\ UNCHANGED ledger
  BY DEF PauseError
<1> HIDE DEF q
<1>3. QueueOK(queue)'
  BY <1>1, <1>2 DEF ledger, QueueOK, Queues, Links, Live, Proven, InOrder, Awaiting, IsCurrent
<1>4. LedgerOK'
  BY <1>2 DEF Turns, LedgerOK, ledger
<1>5. TasksKnow'
  <2>1. /\ task' \in [Tasks -> TaskStates]
        /\ task'[t].pc = "idle"
        /\ \A u \in Tasks : u # t => task'[u] = task[u]
    BY <1>2, OwnsNothing DEF Turns, TasksKnow, Idle
  <2> QED
    BY <1>2, <2>1 DEF Turns, TasksKnow, WithOperation, ledger
<1> QED
  BY <1>3, <1>4, <1>5 DEF Turns

LEMMA ClaimStep ==
  ASSUME Turns, NEW t \in Tasks, NEW o \in Ops, Claim(t, o)
  PROVE  Turns'
<1> DEFINE q == Claimed(queue, o)
<1>1. QueueOK(queue)' /\ CurrentOp(q) = o
  BY ClaimingIsSound DEF Turns, Claim, Commit
<1> HIDE DEF q
<1>2. Commit(t, q, "start")
  BY DEF Claim, q
<1>3. phase' = [phase EXCEPT ![o] = "prepared"]
  BY DEF Claim
<1>4. LedgerOK'
  <2>1. (CHOOSE i \in Items : IsNext(queue, i)) \in Items
    BY DEF Claim
  <2>2. task[t].session \in Sessions \cup {None}
    BY DEF Turns, TasksKnow, TaskStates
  <2> QED
    BY <2>1, <2>2 DEF Turns, LedgerOK, Claim, Phases
<1>5. TasksKnow'
  <2>1. \A p \in Ops : phase[p] # "unused" => phase'[p] # "unused"
    BY <1>3 DEF Turns, LedgerOK
  <2>2. /\ fresh' \subseteq Tasks
        /\ \A u \in fresh' : u = t \/ (u \in fresh /\ q = queue)
        /\ Go(t, "start", q) /\ queue' = q
    BY <1>2 DEF Commit, Turns, TasksKnow
  <2>3. phase'[o] # "unused" /\ o # None
    BY <1>3, NoneAssumption DEF Turns, LedgerOK
  <2>4. "start" \in Places \ {"verify", "recheck", "dispose", "receipt", "launch",
                              "desktop", "pause"}
    BY DEF Places
  <2> QED
    BY <1>1, <2>1, <2>2, <2>3, <2>4, GoingKeepsKnowledge DEF Turns
<1> QED
  BY <1>1, <1>4, <1>5 DEF Turns

(* The steps that write the queue.                                         *)
LEMMA WriteSteps ==
  ASSUME Turns, NEW t \in Tasks,
         \/ Reconcile(t) \/ Pause(t) \/ Resume(t) \/ Decide(t) \/ Settle(t) \/ Drive(t)
  PROVE  Turns'
<1>1. QueueOK(queue) /\ LedgerOK
  BY DEF Turns
<1>2. QueueOK(Settled(queue)) /\ QueueOK(Finished(Settled(queue)))
  BY <1>1, SettlingIsSound, FinishingIsSound
<1>3. CASE Reconcile(t)
  BY <1>2, <1>3, CommittingIsSound DEF Reconcile
<1>4. CASE Pause(t)
  <2>1. QueueOK(Finished(WithStatus(Settled(queue), "paused")))
    BY <1>2, PausingIsSound, FinishingIsSound
  <2> QED
    BY <1>4, <2>1, CommittingIsSound DEF Pause
<1>5. CASE Resume(t)
  <2>1. QueueOK(Finished(WithStatus(Settled(queue), "running")))
    BY <1>2, <1>5, ResumingIsSound, FinishingIsSound DEF Resume
  <2> QED
    BY <1>5, <2>1, CommittingIsSound DEF Resume
<1>6. CASE Decide(t)
  <2>1. QueueOK(Decided(queue, task[t].cmd))
    BY <1>1, <1>6, DecidingIsSound DEF Decide, DisposedNow
  <2> QED
    BY <1>6, <2>1, CommittingIsSound DEF Decide
<1>7. CASE Settle(t)
  BY <1>2, <1>7, CommittingIsSound DEF Settle, Onward
<1>8. CASE Drive(t)
  BY <1>2, <1>8, CommittingIsSound DEF Drive
<1> QED
  BY <1>3, <1>4, <1>5, <1>6, <1>7, <1>8

LEMMA ReadSteps ==
  ASSUME Turns, NEW t \in Tasks, Reread(t) \/ Exact(t)
  PROVE  Turns'
<1>1. CASE Reread(t)
  BY <1>1, ReadingIsSound DEF Reread, SameIntent
<1>2. CASE Exact(t)
  BY <1>2, ReadingIsSound DEF Exact, Onward
<1> QED
  BY <1>1, <1>2

(* The steps that look at the ledger, or move one operation forward.       *)
LEMMA LookSteps ==
  ASSUME Turns, NEW t \in Tasks,
         ReadOperation(t) \/ Recheck(t) \/ ReadOwned(t) \/ Start(t) \/ Fail(t)
  PROVE  Turns'
<1>1. UNCHANGED <<queue, ledger>>
  BY DEF ReadOperation, Recheck, ReadOwned, Start, Fail, Move
<1>2. QueueOK(queue)' /\ LedgerOK'
  BY <1>1, LookingIsSound
<1>3. \A o \in Ops : phase[o] # "unused" => phase'[o] # "unused"
  BY <1>1 DEF ledger
<1>4. TasksKnow
  BY DEF Turns
<1>5. CASE ReadOperation(t)
  <2>1. task[t].cur \in Ops
    BY <1>5 DEF ReadOperation, Turns, TasksKnow, TaskStates
  <2>2. PICK pc \in {"dispose", "verify"} : Move(t, pc)
    BY <1>5 DEF ReadOperation
  <2>3. phase[task[t].cur] # "unused"
    BY <1>5 DEF ReadOperation, At, Turns, TasksKnow
  <2> QED
    BY <1>2, <1>3, <1>4, <2>1, <2>2, <2>3, MovingKeepsKnowledge DEF Turns, Places
<1>6. CASE Recheck(t)
  BY <1>2, <1>3, <1>4, <1>6, MovingKeepsKnowledge DEF Recheck, At, Turns, Places, WithOperation
<1>7. CASE ReadOwned(t)
  BY <1>2, <1>3, <1>4, <1>7, MovingKeepsKnowledge DEF ReadOwned, At, Turns, Places, WithOperation
<1>8. CASE Start(t)
  BY <1>2, <1>3, <1>4, <1>8, MovingKeepsKnowledge DEF Start, At, Turns, Places, WithOperation
<1>9. CASE Fail(t)
  BY <1>2, <1>3, <1>4, <1>9, MovingKeepsKnowledge DEF Fail, At, Turns, Places, WithOperation
<1> QED
  BY <1>5, <1>6, <1>7, <1>8, <1>9

LEMMA ForwardSteps ==
  ASSUME Turns, NEW t \in Tasks, Verify(t) \/ Dispose(t) \/ Receipt(t) \/ Launch(t)
  PROVE  Turns'
<1> DEFINE o == task[t].cur
<1>1. o \in Ops /\ phase[o] # "unused" /\ TasksKnow
  BY DEF Verify, Dispose, Receipt, Launch, At, Turns, TasksKnow, WithOperation
<1>2. queue' = queue /\ item' = item /\ owner' = owner
  BY DEF Verify, Dispose, Receipt, Launch, Move
<1>3. task[t].pc \in WithOperation
  BY DEF Verify, Dispose, Receipt, Launch, At, WithOperation
<1>4. PICK pc \in {"dispose", "receipt", "reread", "exact", "desktop"} : Move(t, pc)
  BY DEF Verify, Dispose, Receipt, Launch, AfterDisposal
<1>5. /\ QueueOK(queue)' /\ LedgerOK'
      /\ \A p \in Ops : phase[p] # "unused" => phase'[p] # "unused"
  <2>1. CASE Verify(t)
    BY <1>1, <1>2, <2>1, OperationMovesForward DEF Verify
  <2>2. CASE Dispose(t)
    <3>1. CASE phase[o] \in {"prepared", "disposed"}
      BY <1>1, <1>2, <2>2, <3>1, OperationMovesForward DEF Dispose
    <3>2. CASE phase[o] \notin {"prepared", "disposed"}
      BY <1>1, <1>2, <2>2, <3>2, OperationMovesForward DEF Dispose
    <3> QED
      BY <3>1, <3>2
  <2>3. CASE Receipt(t)
    BY <1>1, <1>2, <2>3, OperationMovesForward DEF Receipt
  <2>4. CASE Launch(t)
    BY <1>1, <1>2, <2>4, OperationMovesForward DEF Launch
  <2> QED
    BY <2>1, <2>2, <2>3, <2>4
<1>6. TasksKnow'
  BY <1>1, <1>3, <1>4, <1>5, MovingKeepsKnowledge DEF Places
<1> QED
  BY <1>5, <1>6 DEF Turns

LEMMA OthersSteps ==
  ASSUME Turns, NEW o \in Ops, CompletedElsewhere(o) \/ DisposedElsewhere(o)
  PROVE  Turns'
<1>1. /\ QueueOK(queue)' /\ LedgerOK'
      /\ \A p \in Ops : phase[p] # "unused" => phase'[p] # "unused"
  <2>1. CASE CompletedElsewhere(o)
    BY <2>1, OperationMovesForward DEF CompletedElsewhere
  <2>2. CASE DisposedElsewhere(o)
    <3>1. CASE phase[o] = "start_requested"
      <4>1. phase' = [phase EXCEPT ![o] = "closing"]
        BY <2>2, <3>1 DEF DisposedElsewhere
      <4> QED
        BY <2>2, <3>1, <4>1, OperationMovesForward DEF DisposedElsewhere
    <3>2. CASE phase[o] # "start_requested"
      <4>1. phase' = [phase EXCEPT ![o] = "disposed"]
        BY <2>2, <3>2 DEF DisposedElsewhere
      <4> QED
        BY <2>2, <3>2, <4>1, OperationMovesForward DEF DisposedElsewhere, Live
    <3> QED
      BY <3>1, <3>2
  <2> QED
    BY <2>1, <2>2
<1>2. task' = task /\ fresh' = fresh /\ queue' = queue
  BY DEF CompletedElsewhere, DisposedElsewhere
<1>3. CurrentOp(queue)' = CurrentOp(queue) /\ AtFault(queue)' = AtFault(queue)
  BY <1>2 DEF CurrentOp, AtFault, IsCurrent, IsNext
<1> QED
  BY <1>1, <1>2, <1>3 DEF Turns, TasksKnow

LEMMA TurnsStep == Turns /\ [Next]_vars => Turns'
<1> SUFFICES ASSUME Turns, [Next]_vars PROVE Turns'
  OBVIOUS
<1>1. CASE UNCHANGED vars
  <2>1. QueueOK(queue)' /\ LedgerOK'
    BY <1>1, LookingIsSound DEF vars
  <2>2. TasksKnow'
    BY <1>1 DEF Turns, TasksKnow, vars, ledger, CurrentOp, AtFault, IsCurrent, IsNext
  <2> QED
    BY <2>1, <2>2 DEF Turns
<1>2. ASSUME NEW t \in Tasks, TaskStep(t) PROVE Turns'
  BY <1>2, BeginStep, LeaveStep, PauseErrorStep, ClaimStep, WriteSteps, ReadSteps, LookSteps,
     ForwardSteps DEF TaskStep
<1>3. ASSUME NEW o \in Ops, CompletedElsewhere(o) \/ DisposedElsewhere(o) PROVE Turns'
  BY <1>3, OthersSteps
<1> QED
  BY <1>1, <1>2, <1>3 DEF Next

-----------------------------------------------------------------------------
(* Items and their operations as an account exclusion                      *)

(* Pausing, resuming and finishing leave every link as it is.              *)
LEMMA StatusKeepsLinks ==
  ASSUME NEW q \in Queues, NEW s
  PROVE  Finished(q).linked = q.linked /\ WithStatus(q, s).linked = q.linked
BY DEF Finished, WithStatus, Queues

(* What a write may do to the links: nothing, or let go of the operation   *)
(* of the current item, wherever it is linked, once it is disposed.        *)
LetsGo(q) ==
    LET o == CurrentOp(queue) IN
    /\ o # None /\ phase[o] = "disposed"
    /\ q.linked = [i \in Items |-> IF queue.linked[i] = o THEN None ELSE queue.linked[i]]

KeepsLinks(q) == q.linked = queue.linked \/ LetsGo(q)

LEMMA UnlinkingLetsGo ==
  ASSUME QueueOK(queue), NEW s, CurrentOp(queue) # None, phase[CurrentOp(queue)] = "disposed"
  PROVE  LetsGo(Unlinked(queue, s))
<1>1. PICK c \in Items : IsCurrent(queue, c) /\ CurrentOp(queue) = queue.linked[c]
  BY CurrentOperation DEF QueueOK
<1>2. \A i \in Items : IsCurrent(queue, i) <=> queue.linked[i] = CurrentOp(queue)
  BY <1>1 DEF QueueOK, Links
<1>3. Unlinked(queue, s).linked =
         [i \in Items |-> IF IsCurrent(queue, i) THEN None ELSE queue.linked[i]]
  BY DEF Unlinked, QueueOK, Queues
<1> QED
  BY <1>2, <1>3 DEF LetsGo

LEMMA SettlingKeepsLinks ==
  ASSUME QueueOK(queue)
  PROVE  KeepsLinks(Settled(queue))
<1>1. CASE CurrentOp(queue) = None \/ phase[CurrentOp(queue)] # "disposed"
  BY <1>1 DEF Settled, KeepsLinks
<1>2. CASE CurrentOp(queue) # None /\ phase[CurrentOp(queue)] = "disposed"
           /\ CurrentOp(queue) \in verified
  BY <1>2, UnlinkingLetsGo DEF Settled, KeepsLinks
<1>3. CASE CurrentOp(queue) # None /\ phase[CurrentOp(queue)] = "disposed"
           /\ CurrentOp(queue) \notin verified
  BY <1>3 DEF Settled, KeepsLinks, QueueOK, Queues
<1> QED
  BY <1>1, <1>2, <1>3

(* Every write of a task but the claim.                                    *)
LEMMA WritesKeepLinks ==
  ASSUME Turns, NEW t \in Tasks,
         \/ Reconcile(t) \/ Pause(t) \/ Resume(t) \/ Decide(t) \/ Settle(t) \/ Drive(t)
  PROVE  KeepsLinks(queue') /\ phase' = phase
<1> USE DEF Turns
<1>1. QueueOK(Settled(queue)) /\ KeepsLinks(Settled(queue))
  BY SettlingIsSound, SettlingKeepsLinks
<1>2. \A s : QueueOK(WithStatus(Settled(queue), s)) =>
               Finished(WithStatus(Settled(queue), s)).linked = Settled(queue).linked
  BY <1>1, StatusKeepsLinks DEF QueueOK
<1>3. Finished(Settled(queue)).linked = Settled(queue).linked
  BY <1>1, StatusKeepsLinks DEF QueueOK
<1>4. CASE Reconcile(t) \/ Settle(t) \/ Drive(t)
  BY <1>1, <1>3, <1>4 DEF Reconcile, Settle, Drive, Commit, KeepsLinks, LetsGo, ledger
<1>5. CASE Pause(t)
  BY <1>1, <1>2, <1>5, PausingIsSound DEF Pause, Commit, KeepsLinks, LetsGo, ledger
<1>6. CASE Resume(t)
  BY <1>1, <1>2, <1>6, ResumingIsSound DEF Resume, Commit, KeepsLinks, LetsGo, ledger
<1>7. CASE Decide(t)
  <2> DEFINE q == Decided(queue, task[t].cmd)
  <2>1. queue' = q /\ phase' = phase
    BY <1>7 DEF Decide, Commit, ledger
  <2>2. \A s \in {"pending", "skipped"} :
           LetsGo(Unlinked(queue, s)) /\ Unlinked(queue, s) \in Queues
    BY <1>7, UnlinkingLetsGo, UnlinkingIsSound DEF Decide, DisposedNow, QueueOK
  <2>3. \E s \in {"pending", "skipped"} : q.linked = Unlinked(queue, s).linked
    BY <2>2, StatusKeepsLinks DEF Decided, Queues
  <2> QED
    BY <2>1, <2>2, <2>3 DEF KeepsLinks, LetsGo
<1> QED
  BY <1>4, <1>5, <1>6, <1>7

-----------------------------------------------------------------------------
(* Theorems                                                                *)

(* The combined invariant of queue, ledger and tasks.                      *)
THEOREM TurnsAlways == Spec => []Turns
  BY TurnsInit, TurnsStep, PTL DEF Spec

(* Queue, ledger and tasks always have their types.                        *)
THEOREM QueueTypeCorrect == Spec => []TypeOK
<1>1. Turns => TypeOK
  BY DEF Turns, QueueOK, LedgerOK, TasksKnow, TypeOK
<1> QED
  BY <1>1, TurnsAlways, PTL

(* Whatever command comes late, every live browser of the queue is that of *)
(* its only current item.                                                  *)
THEOREM BrowsersAreNotLeftBehind == Spec => []NoBrowserLeftBehind
<1>1. Turns => NoBrowserLeftBehind
  BY ItemsAreNat DEF Turns, QueueOK, Links, NoBrowserLeftBehind
<1> QED
  BY <1>1, TurnsAlways, PTL

(* An item counts as logged in only with a verified, disposed operation.   *)
THEOREM SuccessIsAlwaysProven == Spec => []SuccessIsProven
<1>1. Turns => SuccessIsProven
  BY DEF Turns, QueueOK, Proven, SuccessIsProven
<1> QED
  BY <1>1, TurnsAlways, PTL

(* Items are taken in the order of the selection.                          *)
THEOREM OrderIsKept == Spec => []ItemsInOrder
<1>1. Turns => ItemsInOrder
  BY DEF Turns, QueueOK, InOrder, ItemsInOrder
<1> QED
  BY <1>1, TurnsAlways, PTL

(* A login that ended unverified waits for retry or skip.                  *)
THEOREM FailuresAwaitDecisions == Spec => []FailureAwaitsDecision
<1>1. Turns => FailureAwaitsDecision
  BY DEF Turns, QueueOK, Awaiting, FailureAwaitsDecision
<1> QED
  BY <1>1, TurnsAlways, PTL

(* Retry and skip act on the attempt they were aimed at.                   *)
THEOREM DecisionsAreExact == Spec => DecisionsHitTheirAttempt
<1>1. Turns /\ [Next]_vars =>
        [\A t \in Tasks : Decide(t) => CurrentOp(queue) = task[t].intended]_vars
  BY DEF Turns, TasksKnow, Decide, Commit, At
<1> QED
  BY <1>1, TurnsAlways, PTL DEF Spec, DecisionsHitTheirAttempt

(* A failure is recorded only against the item and attempt it befell.      *)
THEOREM FailuresAreExact == Spec => FailuresHitTheirItem
<1>1. Turns /\ [Next]_vars =>
        [\A t \in Tasks : PauseError(t) =>
           /\ task[t].cur = CurrentOp(queue)
           /\ task[t].cur = None => task[t].about = AtFault(queue)]_vars
  BY DEF Turns, TasksKnow, PauseError, StillTheirs, At
<1> QED
  BY <1>1, TurnsAlways, PTL DEF Spec, FailuresHitTheirItem

(* The queue implements account exclusion with its items for accounts: a   *)
(* claim acquires, a launch opens, a disposal closes, and success, retry   *)
(* and skip release.                                                       *)
THEOREM QueueImplementsExclusion == Spec => ImplementsAccountExclusion
<1> DEFINE used == {o \in Ops : phase[o] # "unused"}
           running == {o \in Ops : phase[o] \in {"start_requested", "closing"}}
           left == {o \in Ops : phase[o] # "unused" /\ \A i \in Items : queue.linked[i] # o}
<1>1. Init => Exclusion!Init
  BY DEF Init, Exclusion!Init
<1>2. Turns /\ [Next]_vars => [Exclusion!Next]_(Exclusion!vars)
  <2> SUFFICES ASSUME Turns, [Next]_vars PROVE [Exclusion!Next]_(Exclusion!vars)
    OBVIOUS
  <2>0. QueueOK(queue) /\ LedgerOK /\ TasksKnow
    BY DEF Turns
  <2>1. ASSUME queue'.linked = queue.linked, phase' = phase PROVE UNCHANGED Exclusion!vars
    BY <2>1 DEF Exclusion!vars
  <2>2. ASSUME KeepsLinks(queue'), phase' = phase
        PROVE  [Exclusion!Next]_(Exclusion!vars)
    <3>1. CASE LetsGo(queue')
      <4>1. PICK o \in Ops : o = CurrentOp(queue) /\ o # None /\ phase[o] = "disposed"
        BY <2>0, <3>1, CurrentOperation DEF QueueOK, LetsGo
      <4>2. queue'.linked = [i \in Items |->
                               IF queue.linked[i] = o THEN None ELSE queue.linked[i]]
        BY <3>1, <4>1 DEF LetsGo
      <4>3. left' = left \cup {o}
        BY <2>2, <4>1, <4>2, NoneAssumption
      <4>4. running' = running /\ o \notin running
        BY <2>2, <4>1
      <4>5. Exclusion!Release(o)
        BY <4>2, <4>3, <4>4 DEF Exclusion!Release
      <4> QED
        BY <4>1, <4>5 DEF Exclusion!Next
    <3> QED
      BY <2>1, <2>2, <3>1 DEF KeepsLinks
  <2>3. ASSUME queue'.linked = queue.linked, running' \subseteq running, used' = used
        PROVE  [Exclusion!Next]_(Exclusion!vars)
    <3>1. left' = left
      BY <2>3
    <3>2. Exclusion!Close
      BY <2>3, <3>1 DEF Exclusion!Close
    <3> QED
      BY <3>2 DEF Exclusion!Next
  <2>4. ASSUME NEW o \in Ops, NEW p \in {"closing", "disposed"}, queue' = queue,
               phase' = [phase EXCEPT ![o] = p], phase[o] # "unused",
               p = "closing" => o \in running
        PROVE  [Exclusion!Next]_(Exclusion!vars)
    <3>1. running' \subseteq running /\ used' = used
      BY <2>0, <2>4 DEF LedgerOK
    <3> QED
      BY <2>3, <2>4, <3>1
  <2>5. ASSUME NEW t \in Tasks, NEW o \in Ops, Claim(t, o) PROVE Exclusion!Next
    <3>1. PICK c \in Items : c = CHOOSE i \in Items : IsNext(queue, i)
      BY <2>5 DEF Claim
    <3>2. queue.linked[c] = None /\ phase[o] = "unused"
      BY <2>0, <2>5 DEF Claim, MayClaim, QueueOK, Links
    <3>3. queue'.linked = [queue.linked EXCEPT ![c] = o] /\ phase' = [phase EXCEPT ![o] = "prepared"]
      <4>1. queue' = [queue EXCEPT !.item[c] = "current", !.linked[c] = o, !.error[c] = "none"]
        BY <2>5, <3>1 DEF Claim, Commit, Claimed
      <4> QED
        BY <2>0, <2>5, <4>1 DEF Claim, QueueOK, Queues
    <3>4. running' = running /\ left' = left /\ o \notin left
      <4>1. running' = running
        BY <2>0, <3>2, <3>3 DEF LedgerOK
      <4>2. \A i \in Items : queue.linked[i] # o
        BY <2>0, <3>2, NoneAssumption DEF QueueOK, Links
      <4>3. \A x \in Ops : x # o => ((\A i \in Items : queue'.linked[i] # x)
                                       <=> \A i \in Items : queue.linked[i] # x)
        BY <2>0, <3>2, <3>3, NoneAssumption DEF QueueOK, Queues
      <4> QED
        BY <2>0, <3>2, <3>3, <4>1, <4>2, <4>3 DEF LedgerOK, QueueOK, Queues
    <3>5. Exclusion!Acquire(o, c)
      BY <3>2, <3>3, <3>4 DEF Exclusion!Acquire
    <3> QED
      BY <3>5 DEF Exclusion!Next
  <2>6. ASSUME NEW t \in Tasks, Launch(t) PROVE Exclusion!Next
    <3>1. PICK o \in Ops : o = task[t].cur
      BY <2>0, <2>6 DEF Launch, At, TasksKnow, WithOperation
    <3>2. /\ phase[o] = "prepared" /\ phase' = [phase EXCEPT ![o] = "start_requested"]
          /\ queue' = queue
      BY <2>6, <3>1 DEF Launch, Move
    <3>3. \E i \in Items : queue.linked[i] = o
      BY <2>0, <3>2 DEF QueueOK, Links, Live
    <3>4. running' = running \cup {o} /\ left' = left
      BY <2>0, <3>2 DEF LedgerOK
    <3>5. Exclusion!Open(o)
      BY <3>2, <3>3, <3>4 DEF Exclusion!Open, Exclusion!Holds
    <3> QED
      BY <3>5 DEF Exclusion!Next
  <2>7. ASSUME NEW t \in Tasks, Dispose(t) \/ Receipt(t)
        PROVE  [Exclusion!Next]_(Exclusion!vars)
    <3>1. PICK o \in Ops : o = task[t].cur /\ phase[o] # "unused"
      BY <2>0, <2>7 DEF Dispose, Receipt, At, TasksKnow, WithOperation
    <3>2. PICK p \in {"closing", "disposed"} :
             /\ phase' = [phase EXCEPT ![o] = p] /\ queue' = queue
             /\ p = "closing" => phase[o] \notin {"prepared", "disposed"}
      BY <2>7, <3>1 DEF Dispose, Receipt, Move
    <3> QED
      BY <2>0, <2>4, <3>1, <3>2 DEF LedgerOK, Phases
  <2>8. ASSUME NEW o \in Ops, DisposedElsewhere(o)
        PROVE  [Exclusion!Next]_(Exclusion!vars)
    <3>1. PICK p \in {"closing", "disposed"} :
             /\ phase' = [phase EXCEPT ![o] = p] /\ queue' = queue
             /\ p = "closing" => phase[o] = "start_requested"
      BY <2>8 DEF DisposedElsewhere
    <3> QED
      BY <2>4, <2>8, <3>1 DEF DisposedElsewhere, Live
  <2>9. ASSUME NEW t \in Tasks,
               \/ Reconcile(t) \/ Pause(t) \/ Resume(t) \/ Decide(t) \/ Settle(t) \/ Drive(t)
        PROVE  [Exclusion!Next]_(Exclusion!vars)
    BY <2>2, <2>9, WritesKeepLinks
  <2>10. ASSUME NEW t \in Tasks, PauseError(t) PROVE UNCHANGED Exclusion!vars
    BY <2>0, <2>1, <2>10 DEF PauseError, ledger, QueueOK, Queues
  <2>11. ASSUME NEW t \in Tasks, \/ \E c \in Commands, s \in Sessions : Begin(t, c, s)
                                 \/ Leave(t) \/ ReadOperation(t) \/ Verify(t) \/ Recheck(t)
                                 \/ Reread(t) \/ Exact(t) \/ ReadOwned(t) \/ Start(t) \/ Fail(t)
         PROVE  queue' = queue /\ phase' = phase
    BY <2>11 DEF Begin, Leave, ReadOperation, Verify, Recheck, Reread, Exact, ReadOwned, Start,
       Fail, Move, Read, ledger
  <2>12. ASSUME NEW o \in Ops, CompletedElsewhere(o) PROVE queue' = queue /\ phase' = phase
    BY <2>12 DEF CompletedElsewhere
  <2>13. CASE UNCHANGED vars
    BY <2>1, <2>13 DEF vars, ledger
  <2> QED
    BY <2>1, <2>5, <2>6, <2>7, <2>8, <2>9, <2>10, <2>11, <2>12, <2>13 DEF Next, TaskStep
<1> QED
  BY <1>1, <1>2, TurnsAlways, PTL DEF Spec, Exclusion!Spec, ImplementsAccountExclusion
=============================================================================
