------------------------- MODULE OneShotPublication -------------------------
(***************************************************************************)
(* What the publication ledger promises of each frozen target: it is       *)
(* posted at most once, by the one attempt that claimed it; the verdict on *)
(* the attempt is given once; a verdict that says published is given only  *)
(* of a post, and a verdict that says not published only where there is    *)
(* none and never will be.  Unknown says nothing: a post may still follow. *)
(*                                                                         *)
(* Two other ledgers promise the same of other effects: the withdrawals of *)
(* PublicationSend of the deletion of a post, and the ledger of AgentRuns  *)
(* of the call of a capability.                                            *)
(***************************************************************************)
CONSTANTS Targets, Runs, None

VARIABLES
    attempt,   \* the run whose attempt a target is, or None
    posts,     \* the runs that posted a target
    verdict    \* "none", "published", "not_published" or "unknown"

vars == <<attempt, posts, verdict>>

Init ==
    /\ attempt = [t \in Targets |-> None]
    /\ posts = [t \in Targets |-> {}]
    /\ verdict = [t \in Targets |-> "none"]

Claim(t, r) ==
    /\ attempt[t] = None
    /\ attempt' = [attempt EXCEPT ![t] = r]
    /\ UNCHANGED <<posts, verdict>>

Post(t) ==
    /\ attempt[t] # None /\ posts[t] = {} /\ verdict[t] \in {"none", "unknown"}
    /\ posts' = [posts EXCEPT ![t] = {attempt[t]}]
    /\ UNCHANGED <<attempt, verdict>>

Judge(t, v) ==
    /\ attempt[t] # None /\ verdict[t] = "none"
    /\ v = "published" => posts[t] # {}
    /\ v = "not_published" => posts[t] = {}
    /\ verdict' = [verdict EXCEPT ![t] = v]
    /\ UNCHANGED <<attempt, posts>>

Next == \E t \in Targets :
    \/ \E r \in Runs : Claim(t, r)
    \/ Post(t)
    \/ \E v \in {"published", "not_published", "unknown"} : Judge(t, v)

Spec == Init /\ [][Next]_vars

-----------------------------------------------------------------------------
(* What it is good for: nothing is posted but by the one attempt, and a    *)
(* verdict, whatever happens after it, says what is the case.              *)
Truthful ==
    \A t \in Targets :
        /\ posts[t] \subseteq {attempt[t]} \ {None}
        /\ verdict[t] = "published" => posts[t] # {}
        /\ verdict[t] = "not_published" => posts[t] = {}

(* Neither attempt, nor verdict, nor post is ever taken back.              *)
Final ==
    [][\A t \in Targets :
          /\ attempt[t] # None => attempt'[t] = attempt[t]
          /\ verdict[t] # "none" => verdict'[t] = verdict[t]
          /\ posts[t] # {} => posts'[t] = posts[t]]_vars
=============================================================================
