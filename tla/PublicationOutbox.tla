------------------------- MODULE PublicationOutbox --------------------------
(***************************************************************************)
(* How a publication comes to be sent: a cell of a cycle's distribution    *)
(* plan, or a request for a single article, is turned into a publication   *)
(* intent with one command in the outbox, and the command into a channel   *)
(* target, which PublicationSend then executes.  What is published where   *)
(* and by which account is one logical publication: whoever comes first    *)
(* creates its intent, everybody after that is linked to it.               *)
(*                                                                         *)
(* Cells are worked on by resumed plans, which choose an account and check *)
(* the content before the transaction that binds the cell.  Requests are   *)
(* worked on by the submitter and by a scanner, in one transaction, and    *)
(* when that fails the reason is recorded in another.                      *)
(***************************************************************************)
CONSTANTS
    Cells,         \* publishable cells of complete distribution plans
    Requests,      \* single-article requests
    Withdrawing,   \* those to be withdrawn after publication
    Contents,      \* checked revisions for a placement
    Accounts,
    Content,       \* the content of each cell and request
    Wanted,        \* the account each request names
    Resumers,      \* tasks that resume a plan
    None

ASSUME OutboxAssumption ==
    /\ Cells \cap Requests = {}
    /\ Withdrawing \subseteq Requests
    /\ Content \in [Cells \union Requests -> Contents]
    /\ Wanted \in [Requests -> Accounts]
    /\ None \notin Accounts \union Cells \union Requests

VARIABLES
    active,        \* whether the project is active
    ready,         \* accounts that are enabled and ready
    public,        \* contents whose sources are unchanged and public
    status, bound, \* distribution_execution_targets: status, account of the intent
    request,       \* content_distribution_requests: none, accepted, linked ...
    deferral,      \* ... and the retry they wait for
    calls, failed, \* materializations of requests under way, and failed ones
    origin,        \* distribution_publication_intents: who created it, or None
    verification,  \* ... and what is known of the post
    command,       \* distribution_publication_commands
    targets,       \* channel_execution_targets, by logical publication
    pc, rows, work, chosen, prepared   \* resumed plans

world == <<active, ready, public>>
plan == <<status, bound>>
asked == <<request, deferral, calls, failed>>
ledger == <<origin, verification, command, targets>>
task == <<pc, rows, work, chosen, prepared>>
vars == <<world, plan, asked, ledger, task>>

(* The logical key of a publication: what is published and by whom.        *)
Publications == Contents \X Accounts

Statuses == {"pending", "deferred", "ready", "reused_unknown", "reused_verified"}

TypeOK ==
    /\ active \in BOOLEAN
    /\ ready \in SUBSET Accounts
    /\ public \in SUBSET Contents
    /\ status \in [Cells -> Statuses]
    /\ bound \in [Cells -> Accounts \union {None}]
    /\ request \in [Requests -> {"none", "accepted", "linked"}]
    /\ deferral \in [Requests -> {"none", "waiting", "due"}]
    /\ calls \in SUBSET Requests
    /\ failed \in SUBSET Requests
    /\ origin \in [Publications -> Cells \union Requests \union {None}]
    /\ verification \in [Publications -> {"unverified", "unknown", "verified"}]
    /\ command \in [Publications -> {"none", "pending", "claimed", "delivered"}]
    /\ targets \in SUBSET Publications
    /\ pc \in [Resumers -> {"idle", "listing", "checking", "binding"}]
    /\ rows \in [Resumers -> SUBSET Cells]
    /\ work \in [Resumers -> Cells \union {None}]
    /\ chosen \in [Resumers -> Accounts \union {None}]
    /\ prepared \in [Resumers -> BOOLEAN]

Init ==
    /\ active = TRUE
    /\ ready = Accounts
    /\ public = Contents
    /\ status = [c \in Cells |-> "pending"]
    /\ bound = [c \in Cells |-> None]
    /\ request = [r \in Requests |-> "none"]
    /\ deferral = [r \in Requests |-> "none"]
    /\ calls = {}
    /\ failed = {}
    /\ origin = [p \in Publications |-> None]
    /\ verification = [p \in Publications |-> "unverified"]
    /\ command = [p \in Publications |-> "none"]
    /\ targets = {}
    /\ pc = [t \in Resumers |-> "idle"]
    /\ rows = [t \in Resumers |-> {}]
    /\ work = [t \in Resumers |-> None]
    /\ chosen = [t \in Resumers |-> None]
    /\ prepared = [t \in Resumers |-> FALSE]

-----------------------------------------------------------------------------
(* The intent ledger.                                                      *)

(* Creates the intent of p with its command, or finds the one there is.    *)
Intend(p, who) ==
    /\ origin' = [origin EXCEPT ![p] = IF @ = None THEN who ELSE @]
    /\ command' = [command EXCEPT ![p] = IF origin[p] = None THEN "pending" ELSE @]

(* An existing intent may be shared by those who agree on its withdrawal.  *)
SharedFaulty(p, withdraw) == TRUE
Shared(p, withdraw) == origin[p] = None \/ (origin[p] \in Withdrawing) = withdraw

-----------------------------------------------------------------------------
(* Requests for single articles.                                           *)

(* The submitter's transaction accepts the request; it then tries at once  *)
(* to turn it into an intent.                                              *)
Accept(r) ==
    /\ request[r] = "none"
    /\ request' = [request EXCEPT ![r] = "accepted"]
    /\ calls' = calls \union {r}
    /\ UNCHANGED <<world, plan, deferral, failed, ledger, task>>

(* The scanner would pass over requests that have failed before. *)
ScanFaulty(r) ==
    /\ request[r] = "accepted"
    /\ deferral[r] = "none"
    /\ r \notin calls
    /\ calls' = calls \union {r}
    /\ UNCHANGED <<world, plan, request, deferral, failed, ledger, task>>

(* The scanner takes up requests that have no intent and whose retry, if   *)
(* they wait for one, is due.                                              *)
Scan(r) ==
    /\ request[r] = "accepted"
    /\ deferral[r] # "waiting"
    /\ r \notin calls
    /\ calls' = calls \union {r}
    /\ UNCHANGED <<world, plan, request, deferral, failed, ledger, task>>

Publication(r) == <<Content[r], Wanted[r]>>

Permitted(r) == active /\ Wanted[r] \in ready /\ Content[r] \in public

(* One transaction under the project's lock, with live dependencies.       *)
Materialize(r) ==
    /\ r \in calls
    /\ active
    /\ calls' = calls \ {r}
    /\ \/ /\ request[r] = "linked"
          /\ UNCHANGED <<request, deferral, origin, command>>
       \/ /\ request[r] = "accepted"
          /\ Permitted(r)
          /\ Shared(Publication(r), r \in Withdrawing)
          /\ Intend(Publication(r), r)
          /\ request' = [request EXCEPT ![r] = "linked"]
          /\ deferral' = [deferral EXCEPT ![r] = "none"]
    /\ UNCHANGED <<world, plan, failed, verification, targets, task>>

(* The transaction is rolled back, for one of these reasons or because the *)
(* database is out of reach.                                               *)
MaterializeFails(r) ==
    /\ r \in calls
    /\ calls' = calls \ {r}
    /\ failed' = failed \union {r}
    /\ UNCHANGED <<world, plan, request, deferral, ledger, task>>

(* The reason and the next retry are written later, in a transaction of    *)
(* their own: another call may have linked the request meanwhile.          *)
RecordDeferral(r) ==
    /\ r \in failed
    /\ failed' = failed \ {r}
    /\ deferral' = [deferral EXCEPT ![r] = IF request[r] = "linked" THEN @ ELSE "waiting"]
    /\ UNCHANGED <<world, plan, request, calls, ledger, task>>

(* The deferral is lost with its process. *)
Forget(r) ==
    /\ r \in calls \union failed
    /\ calls' = calls \ {r}
    /\ failed' = failed \ {r}
    /\ UNCHANGED <<world, plan, request, deferral, ledger, task>>

FallsDue(r) ==
    /\ deferral[r] = "waiting"
    /\ deferral' = [deferral EXCEPT ![r] = "due"]
    /\ UNCHANGED <<world, plan, request, calls, failed, ledger, task>>

-----------------------------------------------------------------------------
(* Cells of distribution plans.                                            *)

Finishes(t) ==
    /\ pc' = [pc EXCEPT ![t] = "idle"]
    /\ rows' = [rows EXCEPT ![t] = {}]
    /\ work' = [work EXCEPT ![t] = None]
    /\ chosen' = [chosen EXCEPT ![t] = None]
    /\ prepared' = [prepared EXCEPT ![t] = FALSE]

(* A plan is resumed while the project is active.  The accounts are listed *)
(* once for the whole pass; the first one that is ready serves all cells.  *)
Resume(t, a) ==
    /\ pc[t] = "idle"
    /\ active
    /\ IF ready = {} THEN a = None ELSE a \in ready
    /\ pc' = [pc EXCEPT ![t] = "listing"]
    /\ chosen' = [chosen EXCEPT ![t] = a]
    /\ UNCHANGED <<world, plan, asked, ledger, rows, work, prepared>>

(* Only cells that wait are looked at: new ones and those deferred.        *)
List(t) ==
    /\ pc[t] = "listing"
    /\ pc' = [pc EXCEPT ![t] = "checking"]
    /\ rows' = [rows EXCEPT ![t] = {c \in Cells : status[c] \in {"pending", "deferred"}}]
    /\ UNCHANGED <<world, plan, asked, ledger, work, chosen, prepared>>

(* The content of the next cell is checked against its sources.            *)
Check(t, c) ==
    /\ pc[t] = "checking"
    /\ c \in rows[t]
    /\ pc' = [pc EXCEPT ![t] = "binding"]
    /\ rows' = [rows EXCEPT ![t] = @ \ {c}]
    /\ work' = [work EXCEPT ![t] = c]
    /\ prepared' = [prepared EXCEPT ![t] = Content[c] \in public]
    /\ UNCHANGED <<world, plan, asked, ledger, chosen>>

Done(t) ==
    /\ pc[t] = "checking"
    /\ rows[t] = {}
    /\ Finishes(t)
    /\ UNCHANGED <<world, plan, asked, ledger>>

(* The transaction of one cell, under the project's lock.                  *)
Onward(t) == pc' = [pc EXCEPT ![t] = "checking"] /\ UNCHANGED <<rows, work, chosen, prepared>>

(* A reason found by the check, no account, or a source that is not public *)
(* any more, defers the cell; the last two only while it has no intent.    *)
Defer(t) ==
    /\ pc[t] = "binding"
    /\ prepared[t] => /\ bound[work[t]] = None
                      /\ chosen[t] # None => ~(active /\ Content[work[t]] \in public)
    /\ status' = [status EXCEPT ![work[t]] = "deferred"]
    /\ Onward(t)
    /\ UNCHANGED <<world, bound, asked, ledger>>

(* What a cell is called once it is linked to the intent of p.             *)
ReusedFaulty(c, p) ==
    CASE origin[p] = None -> "ready"
      [] origin[p] # None /\ verification[p] = "unknown" -> "reused_unknown"
      [] OTHER -> "reused_verified"
Reused(c, p) ==
    CASE origin[p] = None -> "ready"
      [] verification[p] = "verified" -> "reused_verified"
      [] verification[p] = "unknown" -> "reused_unknown"
      [] verification[p] = "unverified" /\ origin[p] = c ->
             IF status[c] = "deferred" THEN "ready" ELSE status[c]
      [] OTHER -> "reused_unknown"

UnboundFaulty(c, a) == TRUE
Unbound(c, a) == bound[c] \in {None, a}

Bindable(t) ==
    /\ prepared[t] /\ chosen[t] # None
    /\ active /\ Content[work[t]] \in public
    /\ Shared(<<Content[work[t]], chosen[t]>>, FALSE)
    /\ Unbound(work[t], chosen[t])

Bind(t) ==
    /\ pc[t] = "binding"
    /\ Bindable(t)
    /\ LET p == <<Content[work[t]], chosen[t]>> IN
           /\ Intend(p, work[t])
           /\ status' = [status EXCEPT ![work[t]] = Reused(work[t], p)]
           /\ bound' = [bound EXCEPT ![work[t]] = chosen[t]]
    /\ Onward(t)
    /\ UNCHANGED <<world, asked, verification, targets>>

(* A conflict, or the loss of the task, ends the whole pass.               *)
Abort(t) ==
    /\ pc[t] # "idle"
    /\ Finishes(t)
    /\ UNCHANGED <<world, plan, asked, ledger>>

-----------------------------------------------------------------------------
(* The outbox.                                                             *)

(* A command can become a target if its origin still points to it.         *)
SoundFaulty(p) == p[2] \in ready
Sound(p) ==
    IF origin[p] \in Cells
    THEN Content[origin[p]] = p[1] /\ bound[origin[p]] = p[2]
    ELSE request[origin[p]] = "linked" /\ Publication(origin[p]) = p

(* One transaction turns a page of commands into targets, all or none: a   *)
(* single command that is not sound would hold up all of its page.         *)
Dispatch(page) ==
    /\ page # {}
    /\ \A p \in page : command[p] = "pending" /\ p \notin targets /\ Sound(p)
    /\ targets' = targets \union page
    /\ UNCHANGED <<world, plan, asked, origin, verification, command, task>>

(* A run claims the command's only attempt; the post is unknown from here. *)
Claim(p) ==
    /\ p \in targets
    /\ command[p] = "pending"
    /\ command' = [command EXCEPT ![p] = "claimed"]
    /\ verification' = [verification EXCEPT ![p] = "unknown"]
    /\ UNCHANGED <<world, plan, asked, origin, targets, task>>

(* The run's outcome says that the post is out; an owned link that was     *)
(* read back proves it.                                                    *)
Deliver(p) ==
    /\ command[p] = "claimed"
    /\ command' = [command EXCEPT ![p] = "delivered"]
    /\ \E known \in {"unknown", "verified"} :
           verification' = [verification EXCEPT ![p] = known]
    /\ UNCHANGED <<world, plan, asked, origin, targets, task>>

-----------------------------------------------------------------------------
(* What others change.                                                     *)

Environment ==
    /\ \/ active' = ~active /\ UNCHANGED <<ready, public>>
       \/ /\ \E a \in Accounts :
                ready' = IF a \in ready THEN ready \ {a} ELSE ready \union {a}
          /\ UNCHANGED <<active, public>>
       \/ /\ \E c \in Contents :
                public' = IF c \in public THEN public \ {c} ELSE public \union {c}
          /\ UNCHANGED <<active, ready>>
    /\ UNCHANGED <<plan, asked, ledger, task>>

RequestStep(r) ==
    \/ Accept(r) \/ Scan(r) \/ Materialize(r) \/ MaterializeFails(r)
    \/ RecordDeferral(r) \/ Forget(r) \/ FallsDue(r)

ResumeStep(t) ==
    \/ \E a \in Accounts \union {None} : Resume(t, a)
    \/ List(t) \/ Done(t) \/ Defer(t) \/ Bind(t) \/ Abort(t)
    \/ \E c \in Cells : Check(t, c)

Next ==
    \/ \E r \in Requests : RequestStep(r)
    \/ \E t \in Resumers : ResumeStep(t)
    \/ \E page \in SUBSET Publications : Dispatch(page)
    \/ \E p \in Publications : Claim(p) \/ Deliver(p)
    \/ Environment

Spec == Init /\ [][Next]_vars

(* The page of a pass of the dispatcher: every command that is waiting.    *)
Waiting == {p \in Publications : command[p] = "pending" /\ p \notin targets}

(* The scanner and the dispatcher go on; a request that is tried for ever  *)
(* is not refused by the database for ever.                                *)
Fairness ==
    /\ \A r \in Requests :
           /\ WF_vars(Scan(r)) /\ WF_vars(RecordDeferral(r)) /\ WF_vars(FallsDue(r))
           /\ WF_vars(Materialize(r) \/ MaterializeFails(r))
           /\ SF_vars(Materialize(r))
    /\ WF_vars(Dispatch(Waiting))

FairSpec == Spec /\ Fairness

-----------------------------------------------------------------------------
(* Properties                                                              *)

(* Whoever is linked to an intent wants it withdrawn if and only if its    *)
(* creator does: a cell never reuses a post that will disappear, and no    *)
(* request gets a withdrawal, or loses one, by being the second to come    *)
(* (original_withdrawal in materialize, opted_in in materialize_rich).     *)
WithdrawalIsAgreed ==
    /\ \A c \in Cells : bound[c] # None => origin[<<Content[c], bound[c]>>] \notin Withdrawing
    /\ \A r \in Requests : request[r] = "linked" =>
           (origin[Publication(r)] \in Withdrawing) = (r \in Withdrawing)

(* The outbox as a ledger of intents: what each cell and request may be    *)
(* linked to and is, who is put off, and how far each publication is.      *)
seeks == [s \in Cells \union Requests |->
             IF s \in Cells THEN {Content[s]} \X Accounts ELSE {Publication(s)}]
links == [s \in Cells \union Requests |->
             IF s \in Cells
             THEN IF bound[s] = None THEN {} ELSE {<<Content[s], bound[s]>>}
             ELSE IF request[s] = "linked" THEN {Publication(s)} ELSE {}]
putOff == {r \in Requests : deferral[r] # "none"}
stages == [p \in Publications |->
             IF command[p] = "pending"
             THEN IF p \in targets THEN "sent" ELSE "queued"
             ELSE command[p]]

(* Cells and requests are linked to publications for good, agree on their  *)
(* withdrawal in whatever order they come, are not put off once they are   *)
(* linked, and each publication goes its way once, whatever plans with     *)
(* other accounts, late deferrals and repeated passes do meanwhile.        *)
Intents == INSTANCE IntentLedger WITH
    Seekers <- Cells \union Requests, Seeks <- seeks,
    link <- links, deferred <- putOff, creator <- origin, stage <- stages

ImplementsIntentLedger == Intents!Spec

(* No command in the outbox is poisoned: what materialize_pending_commands *)
(* compares still agrees when the dispatcher comes, whatever plans resumed *)
(* with other accounts did to the cell that created it.                    *)
NoPoisonedCommand ==
    \A p \in Publications : command[p] = "pending" => Sound(p)

(* A cell that is called ready is the one its intent comes from, and one   *)
(* called verified has a verified post: coverage never counts a post twice *)
(* or too early (status computed in materialize_rich).                     *)
StatusIsTrue ==
    \A c \in Cells :
        /\ status[c] = "ready" => bound[c] # None /\ origin[<<Content[c], bound[c]>>] = c
        /\ status[c] = "reused_verified" =>
               bound[c] # None /\ verification[<<Content[c], bound[c]>>] = "verified"

(* A failure that is recorded late does not put off a request that has got *)
(* its intent meanwhile (record_deferral).                                 *)
LinkedDoesNotWait ==
    \A r \in Requests : request[r] = "linked" => deferral[r] = "none"

(* An accepted request whose dependencies come to stay available is linked *)
(* in the end, unless its publication exists with another withdrawal.      *)
AcceptedIsLinked ==
    \A r \in Requests :
        <>[]Permitted(r) =>
            (request[r] = "accepted" ~>
                request[r] = "linked" \/ ~Shared(Publication(r), r \in Withdrawing))

(* Every command becomes a target.                                         *)
CommandsGoOut ==
    \A p \in Publications : command[p] = "pending" ~> p \in targets
=============================================================================
