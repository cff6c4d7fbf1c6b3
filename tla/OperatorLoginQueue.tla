------------------------- MODULE OperatorLoginQueue -------------------------
(***************************************************************************)
(* The persisted queue with which an operator logs imported accounts in,   *)
(* one at a time and in order.  Any number of API tasks serve commands on  *)
(* it.  A task works on the snapshot of its last read or write, and every  *)
(* write compares the version of that snapshot: `fresh' holds the tasks    *)
(* whose snapshot is still the queue, the only ones whose write succeeds.  *)
(* Between two steps of a task the browser of the current item may be      *)
(* verified, closed or disposed by others, and the task may end.           *)
(*                                                                         *)
(* The ledger of browser operations, the subject of BrowserOwnership, is   *)
(* reduced to what the queue reads of it.                                  *)
(***************************************************************************)
EXTENDS Naturals

CONSTANTS
    N,          \* number of imported accounts; an item stands for its account
    Ops,        \* ids of browser operations
    Tasks,      \* API tasks at work at the same time
    Sessions,   \* sessions of the operator that created the queue
    None

ASSUME SizeAssumption == N \in Nat \ {0}
ASSUME NoneAssumption == None \notin Ops

Items == 1..N
Commands == {"create", "drive", "pause", "resume", "retry", "skip", "complete"}
Phases == {"unused", "prepared", "start_requested", "closing", "disposed"}
Places == {"idle", "reconcile", "apply", "read", "verify", "recheck", "dispose", "receipt",
           "reread", "decide", "exact", "settle", "drive", "owned", "claim", "start",
           "launch", "desktop", "pause"}

VARIABLES
    queue,                          \* status, and per item: status, operation_id, error_code
    phase, item, owner, verified,   \* browser_operations of the queue
    task, fresh                     \* API tasks, and those with a current version

ledger == <<phase, item, owner, verified>>
vars == <<queue, ledger, task, fresh>>

Queues == [status : {"running", "paused", "completed"},
           item : [Items -> {"pending", "current", "succeeded", "skipped"}],
           linked : [Items -> Ops \cup {None}],
           error : [Items -> {"none", "login_not_completed", "failed"}]]

(* intended: the operation the command was aimed at; cur: the current      *)
(* operation of the snapshot; about: the item whose claim is being tried,  *)
(* remembered only for a property.                                         *)
TaskStates == [pc : Places, cmd : Commands, session : Sessions \cup {None},
               intended : Ops \cup {None}, cur : Ops \cup {None}, about : Items \cup {0}]

Idle == [pc |-> "idle", cmd |-> "drive", session |-> None,
         intended |-> None, cur |-> None, about |-> 0]

TypeOK ==
    /\ queue \in Queues
    /\ phase \in [Ops -> Phases]
    /\ item \in [Ops -> Items \cup {0}]
    /\ owner \in [Ops -> Sessions \cup {None}]
    /\ verified \subseteq Ops
    /\ task \in [Tasks -> TaskStates]
    /\ fresh \subseteq Tasks

(* create_login_queue: the frozen snapshot of the selection, running.      *)
Init ==
    /\ queue = [status |-> "running",
                item |-> [i \in Items |-> "pending"],
                linked |-> [i \in Items |-> None],
                error |-> [i \in Items |-> "none"]]
    /\ phase = [o \in Ops |-> "unused"]
    /\ item = [o \in Ops |-> 0]
    /\ owner = [o \in Ops |-> None]
    /\ verified = {}
    /\ task = [t \in Tasks |-> Idle]
    /\ fresh = {}

Live(o) == phase[o] \in {"prepared", "start_requested", "closing"}

-----------------------------------------------------------------------------
(* The queue as a value: what domain::OperatorLoginQueue computes          *)

IsCurrent(q, i) == q.item[i] = "current"

CurrentOp(q) ==
    IF \E i \in Items : IsCurrent(q, i)
      THEN q.linked[CHOOSE i \in Items : IsCurrent(q, i)]
      ELSE None

(* (Names that end in Faulty are defects the properties below must reveal; *)
(* no action uses them.)                                                   *)
IsNextFaulty(q, i) == q.item[i] = "pending" /\ \A j \in (i+1)..N : q.item[j] # "pending"

IsNext(q, i) == q.item[i] = "pending" /\ \A j \in 1..(i-1) : q.item[j] # "pending"

(* Where pause_error writes its code: the current item, else the next one. *)
AtFault(q) ==
    IF \E i \in Items : IsCurrent(q, i) THEN CHOOSE i \in Items : IsCurrent(q, i)
    ELSE IF \E i \in Items : IsNext(q, i) THEN CHOOSE i \in Items : IsNext(q, i)
    ELSE 0

Finished(q) ==
    IF \A i \in Items : q.item[i] \in {"succeeded", "skipped"}
      THEN [q EXCEPT !.status = "completed"]
      ELSE q

(* The current item takes a new status and lets its operation go.          *)
Unlinked(q, newStatus) ==
    [q EXCEPT !.item   = [i \in Items |-> IF IsCurrent(q, i) THEN newStatus ELSE @[i]],
              !.linked = [i \in Items |-> IF IsCurrent(q, i) THEN None ELSE @[i]],
              !.error  = [i \in Items |-> IF IsCurrent(q, i) THEN "none" ELSE @[i]]]

(* What reconcile, pause and resume all do first with a disposed browser:  *)
(* only the persisted marker of this operation proves success.             *)
SettledFaulty(q) == IF CurrentOp(q) \in verified THEN Unlinked(q, "succeeded") ELSE q
SettledUnprovenFaulty(q) ==
    IF CurrentOp(q) # None /\ phase[CurrentOp(q)] = "disposed"
      THEN Unlinked(q, "succeeded") ELSE q

Settled(q) ==
    LET o == CurrentOp(q)
    IN  IF o = None \/ phase[o] # "disposed" THEN q
        ELSE IF o \in verified THEN Unlinked(q, "succeeded")
        ELSE [q EXCEPT !.status = "paused",
                       !.error = [i \in Items |->
                                    IF IsCurrent(q, i) THEN "login_not_completed" ELSE @[i]]]

WithStatus(q, s) == IF q.status = "completed" THEN q ELSE [q EXCEPT !.status = s]

NeedsDecisionFaulty(q) == FALSE

(* Resume is refused until the operator retries or skips a failed login.   *)
NeedsDecision(q) ==
    \E i \in Items : IsCurrent(q, i) /\ q.error[i] = "login_not_completed"

(* RetryCurrent and SkipCurrent, once the browser is disposed.             *)
Decided(q, cmd) ==
    IF cmd = "retry" THEN [Unlinked(q, "pending") EXCEPT !.status = "paused"]
    ELSE Finished(Unlinked(q, "skipped"))

Claimed(q, o) ==
    LET i == CHOOSE i \in Items : IsNext(q, i)
    IN  [q EXCEPT !.item[i] = "current", !.linked[i] = o, !.error[i] = "none"]

-----------------------------------------------------------------------------
(* Tasks                                                                   *)

(* Task t goes to place pc with q as its snapshot.  A command that has     *)
(* come to drive_queue is no longer distinguished from a plain drive.      *)
Go(t, pc, q) ==
    task' = [task EXCEPT ![t] =
               CASE pc = "idle"  -> Idle
                 [] pc = "drive" -> [Idle EXCEPT !.pc = "drive", !.session = task[t].session]
                 [] OTHER        -> [@ EXCEPT !.pc = pc, !.cur = CurrentOp(q),
                                       !.about = IF pc = "claim" THEN AtFault(q) ELSE 0]]

(* A transaction that locks the queue, checks the version and persists q.  *)
(* The version moves exactly when the queue does.                          *)
Commit(t, q, pc) ==
    /\ t \in fresh
    /\ queue' = q
    /\ Go(t, pc, q)
    /\ fresh' = {u \in (IF q = queue THEN fresh ELSE {t}) : u # t \/ pc # "idle"}

(* read_queue *)
Read(t, pc) ==
    /\ Go(t, pc, queue)
    /\ fresh' = {u \in fresh \cup {t} : u # t \/ pc # "idle"}
    /\ UNCHANGED <<queue, ledger>>

(* A step that looks at the ledger only.                                   *)
Move(t, pc) ==
    /\ task' = [task EXCEPT ![t].pc = pc]
    /\ UNCHANGED <<queue, fresh>>

At(t, pc) == task[t].pc = pc

(* A request arrives; the browser sends the version of the view it acts    *)
(* on, so that it is refused unless that view is the queue just read.      *)
Begin(t, c, s) ==
    /\ At(t, "idle")
    /\ task' = [task EXCEPT ![t] =
                  IF c = "create" THEN [Idle EXCEPT !.pc = "drive", !.session = s]
                  ELSE [Idle EXCEPT !.pc = "reconcile", !.cmd = c, !.session = s,
                                    !.intended = CurrentOp(queue)]]
    /\ fresh' = fresh \cup {t}
    /\ UNCHANGED <<queue, ledger>>

(* The response is sent, a conflict or an error ends the request, or the   *)
(* task disappears: possible anywhere.                                     *)
Leave(t) ==
    /\ ~At(t, "idle")
    /\ task' = [task EXCEPT ![t] = Idle]
    /\ fresh' = fresh \ {t}
    /\ UNCHANGED <<queue, ledger>>

(* The reconciliation that precedes every command.                         *)
Reconcile(t) ==
    LET q == Finished(Settled(queue))
        cmd == task[t].cmd
        next == IF cmd \in {"pause", "resume"} THEN "apply"
                ELSE IF /\ cmd \in {"retry", "skip", "complete"}
                        /\ CurrentOp(q) = task[t].intended THEN "read"
                ELSE IF cmd # "retry" /\ q.status = "running" THEN "drive"
                ELSE "idle"
    IN  At(t, "reconcile") /\ Commit(t, q, next) /\ UNCHANGED ledger

Pause(t) ==
    /\ At(t, "apply") /\ task[t].cmd = "pause"
    /\ Commit(t, Finished(WithStatus(Settled(queue), "paused")), "idle")
    /\ UNCHANGED ledger

Resume(t) ==
    LET q == Finished(WithStatus(Settled(queue), "running"))
    IN  /\ At(t, "apply") /\ task[t].cmd = "resume"
        /\ ~NeedsDecision(Settled(queue))
        /\ Commit(t, q, IF q.status = "running" THEN "drive" ELSE "idle")
        /\ UNCHANGED ledger

(* current_operation, before retry, skip or complete.  The decisions may   *)
(* concern the browser of a former session; completion may not.            *)
ReadOperation(t) ==
    LET o == task[t].cur
    IN  /\ At(t, "read") /\ o # None
        /\ \/ task[t].cmd \in {"retry", "skip"} /\ Move(t, "dispose")
           \/ /\ task[t].cmd = "complete" /\ owner[o] = task[t].session
              /\ \/ o \in verified /\ Move(t, "dispose")
                 \/ o \notin verified /\ phase[o] = "start_requested" /\ Move(t, "verify")
        /\ UNCHANGED ledger

(* verify_pool_login: credentials and marker are saved in one transaction. *)
Verify(t) ==
    LET o == task[t].cur
    IN  /\ At(t, "verify") /\ phase[o] = "start_requested"
        /\ verified' = verified \cup {o}
        /\ Move(t, "dispose")
        /\ UNCHANGED <<phase, item, owner>>

(* After an error only the marker tells whether the login was saved.       *)
Recheck(t) ==
    /\ At(t, "recheck")
    /\ Move(t, IF task[t].cur \in verified THEN "dispose" ELSE "pause")
    /\ UNCHANGED ledger

-----------------------------------------------------------------------------
(* dispose, and what follows it                                            *)

AfterDisposal(t) == IF task[t].cmd \in {"retry", "skip"} THEN "reread" ELSE "exact"

(* dispose_owned_operation up to the request to the runner.                *)
Dispose(t) ==
    LET o == task[t].cur
    IN  /\ At(t, "dispose")
        /\ IF phase[o] \in {"prepared", "disposed"}
             THEN /\ phase' = [phase EXCEPT ![o] = "disposed"]
                  /\ Move(t, AfterDisposal(t))
             ELSE /\ phase' = [phase EXCEPT ![o] = "closing"]
                  /\ Move(t, "receipt")
        /\ UNCHANGED <<item, owner, verified>>

(* confirm_browser_disposed with the receipt; repeating it is allowed.     *)
Receipt(t) ==
    /\ At(t, "receipt")
    /\ phase' = [phase EXCEPT ![task[t].cur] = "disposed"]
    /\ Move(t, AfterDisposal(t))
    /\ UNCHANGED <<item, owner, verified>>

SameIntentFaulty(t) == TRUE

SameIntent(t) == CurrentOp(queue) = task[t].intended

(* Retry and skip read the queue again and go on only if the operation     *)
(* they were aimed at is still the current one.                            *)
Reread(t) == At(t, "reread") /\ Read(t, IF SameIntent(t) THEN "decide" ELSE "idle")

DisposedNow == CurrentOp(queue) # None /\ phase[CurrentOp(queue)] = "disposed"

Decide(t) ==
    LET q == Decided(queue, task[t].cmd)
    IN  /\ At(t, "decide") /\ DisposedNow
        /\ Commit(t, q, IF q.status = "running" THEN "drive" ELSE "idle")
        /\ UNCHANGED ledger

(* Where a completed login or a drive goes on with the queue q.            *)
Onward(t, q) ==
    IF q.status # "running" THEN "idle"
    ELSE IF task[t].cmd = "complete" THEN "drive"
    ELSE IF CurrentOp(q) = None THEN "claim"
    ELSE "start"

(* reconcile_exact_after_effect: skipped when another operation is current.*)
Exact(t) ==
    /\ At(t, "exact")
    /\ Read(t, IF CurrentOp(queue) = task[t].cur THEN "settle" ELSE Onward(t, queue))

Settle(t) ==
    LET q == Finished(Settled(queue))
    IN  At(t, "settle") /\ Commit(t, q, Onward(t, q)) /\ UNCHANGED ledger

-----------------------------------------------------------------------------
(* drive_queue                                                             *)

Drive(t) ==
    LET q == Finished(Settled(queue))
        next == IF q.status # "running" THEN "idle"
                ELSE IF CurrentOp(q) = None THEN "claim"
                ELSE "owned"
    IN  At(t, "drive") /\ Commit(t, q, next) /\ UNCHANGED ledger

(* Only the session that owns the browser may go on with it.               *)
ReadOwned(t) ==
    LET o == task[t].cur
    IN  /\ At(t, "owned") /\ owner[o] = task[t].session
        /\ Move(t, IF o \in verified \/ phase[o] = "closing" THEN "dispose" ELSE "start")
        /\ UNCHANGED ledger

MayClaim(q) == q.status = "running" /\ \A i \in Items : ~IsCurrent(q, i)

(* begin_login_queue_item: the item and its operation in one transaction.  *)
Claim(t, o) ==
    /\ At(t, "claim") /\ MayClaim(queue) /\ phase[o] = "unused"
    /\ \E i \in Items : IsNext(queue, i)
    /\ phase' = [phase EXCEPT ![o] = "prepared"]
    /\ item' = [item EXCEPT ![o] = CHOOSE i \in Items : IsNext(queue, i)]
    /\ owner' = [owner EXCEPT ![o] = task[t].session]
    /\ Commit(t, Claimed(queue, o), "start")
    /\ UNCHANGED verified

(* The second current_operation.  The operation may have expired by now,   *)
(* whatever its phase, and is not started then; one whose start was        *)
(* requested is only asked for its desktop.                                *)
Start(t) ==
    LET o == task[t].cur
    IN  /\ At(t, "start") /\ owner[o] = task[t].session
        /\ \/ Move(t, "pause")
           \/ phase[o] = "prepared" /\ Move(t, "launch")
           \/ phase[o] = "start_requested" /\ Move(t, "desktop")
        /\ UNCHANGED ledger

(* claim_browser_start, when it wins; when another task did, Leave.        *)
Launch(t) ==
    LET o == task[t].cur
    IN  /\ At(t, "launch") /\ phase[o] = "prepared"
        /\ phase' = [phase EXCEPT ![o] = "start_requested"]
        /\ Move(t, "desktop")
        /\ UNCHANGED <<item, owner, verified>>

(* The network, the gate, the runner or the ledger refuses, times out or   *)
(* fails; so does any write that finds its version gone.                   *)
Fail(t) ==
    /\ \/ /\ task[t].pc \in {"claim", "launch", "desktop", "dispose", "receipt"}
          /\ Move(t, "pause")
       \/ At(t, "verify") /\ Move(t, "recheck")
    /\ UNCHANGED ledger

StillTheirsFaulty(t) == queue.status # "completed"

StillTheirs(t) ==
    /\ t \in fresh
    /\ queue.status # "completed" /\ CurrentOp(queue) = task[t].cur

(* pause_login_queue_error, tied to version and operation.  It always      *)
(* moves the version, even when it changes nothing else.                   *)
PauseError(t) ==
    LET i == AtFault(queue)
    IN  /\ At(t, "pause") /\ StillTheirs(t)
        /\ queue' = [queue EXCEPT !.status = "paused",
                       !.error = [j \in Items |-> IF j = i THEN "failed" ELSE @[j]]]
        /\ task' = [task EXCEPT ![t] = Idle]
        /\ fresh' = {}
        /\ UNCHANGED ledger

-----------------------------------------------------------------------------
(* Others: the pool login endpoints and the reconciler of the ledger       *)

CompletedElsewhere(o) ==
    /\ phase[o] = "start_requested"
    /\ verified' = verified \cup {o}
    /\ UNCHANGED <<queue, phase, item, owner, task, fresh>>

DisposedElsewhere(o) ==
    /\ Live(o)
    /\ phase' = [phase EXCEPT ![o] = IF @ = "start_requested" THEN "closing" ELSE "disposed"]
    /\ UNCHANGED <<queue, item, owner, verified, task, fresh>>

-----------------------------------------------------------------------------
TaskStep(t) ==
    \/ \E c \in Commands, s \in Sessions : Begin(t, c, s)
    \/ Leave(t) \/ Reconcile(t) \/ Pause(t) \/ Resume(t)
    \/ ReadOperation(t) \/ Verify(t) \/ Recheck(t)
    \/ Dispose(t) \/ Receipt(t) \/ Reread(t) \/ Decide(t) \/ Exact(t) \/ Settle(t)
    \/ Drive(t) \/ ReadOwned(t) \/ Start(t) \/ Launch(t) \/ Fail(t) \/ PauseError(t)
    \/ \E o \in Ops : Claim(t, o)

Next ==
    \/ \E t \in Tasks : TaskStep(t)
    \/ \E o \in Ops : CompletedElsewhere(o) \/ DisposedElsewhere(o)

Spec == Init /\ [][Next]_vars

-----------------------------------------------------------------------------
(* A browser of the queue is always the one of its only current item: no   *)
(* command, however late, moves the queue on and leaves a browser behind,  *)
(* and two browsers of the queue never exist at once.                      *)
NoBrowserLeftBehind ==
    /\ \A o \in Ops : Live(o) => item[o] # 0 /\ IsCurrent(queue, item[o])
                                 /\ queue.linked[item[o]] = o
    /\ \A i, j \in Items : IsCurrent(queue, i) /\ IsCurrent(queue, j) => i = j

(* An item succeeds only on the evidence of one of its own operations: its *)
(* login was verified and its browser is disposed.                         *)
SuccessIsProven ==
    \A i \in Items : queue.item[i] = "succeeded" =>
        \E o \in verified : item[o] = i /\ phase[o] = "disposed"

(* Accounts are taken in the order of the selection: nothing after the     *)
(* first unfinished item was ever touched.                                 *)
ItemsInOrder ==
    \A i, j \in Items : i < j /\ queue.item[i] \in {"pending", "current"} =>
        queue.item[j] = "pending" /\ queue.error[j] = "none"

(* A login whose browser ended unverified keeps the queue paused until the *)
(* operator decides; no resume, however timed, drives past it.             *)
FailureAwaitsDecision ==
    \A i \in Items : queue.error[i] = "login_not_completed" =>
        IsCurrent(queue, i) /\ queue.status = "paused"

(* A retry or a skip acts on the attempt its sender saw, never on the next *)
(* item or on a newer attempt that became current meanwhile.               *)
DecisionsHitTheirAttempt ==
    [][\A t \in Tasks : Decide(t) => CurrentOp(queue) = task[t].intended]_vars

(* A late failure stops the queue only for the item and the attempt it     *)
(* happened to: it cannot pause a successor.                               *)
FailuresHitTheirItem ==
    [][\A t \in Tasks : PauseError(t) =>
         /\ task[t].cur = CurrentOp(queue)
         /\ task[t].cur = None => task[t].about = AtFault(queue)]_vars

(* Items, which stand for accounts, and their operations keep the promise  *)
(* of BrowserOwnership: an item is linked to one operation, which has a    *)
(* browser only while it is linked, is unlinked only after its browser is  *)
(* gone, and, once unlinked by success, retry or skip, never comes back.   *)
Exclusion == INSTANCE AccountExclusion WITH
    Accounts <- Items,
    holder <- queue.linked,
    open <- {o \in Ops : phase[o] \in {"start_requested", "closing"}},
    released <- {o \in Ops : phase[o] # "unused" /\ \A i \in Items : queue.linked[i] # o}

ImplementsAccountExclusion == Exclusion!Spec
=============================================================================
