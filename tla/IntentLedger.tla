---------------------------- MODULE IntentLedger ----------------------------
(***************************************************************************)
(* What the outbox of publications promises.  A seeker finds one of the    *)
(* publications it may be linked to and stays linked to it for good: it    *)
(* creates the publication, or joins those who agree with it on whether    *)
(* the post is to be withdrawn.  A publication that was created is on its  *)
(* way, and takes each step of it once.  A seeker that found nothing may   *)
(* be put off, but not one that is linked.                                 *)
(*                                                                         *)
(* PublicationOutbox implements this specification.                        *)
(***************************************************************************)
CONSTANTS
    Seekers,
    Publications,
    Seeks,         \* the publications each seeker may be linked to
    Withdrawing,   \* seekers whose post is to be withdrawn
    None

VARIABLES
    link,          \* the publication of a seeker: a set of one, or empty
    deferred,      \* seekers that are put off
    creator,       \* the first seeker linked to a publication, or None
    stage          \* "none", "queued", "sent", "claimed" or "delivered"

vars == <<link, deferred, creator, stage>>

Init ==
    /\ link = [s \in Seekers |-> {}]
    /\ deferred = {}
    /\ creator = [p \in Publications |-> None]
    /\ stage = [p \in Publications |-> "none"]

Agree(s, t) == (s \in Withdrawing) = (t \in Withdrawing)

Create(s, p) ==
    /\ link[s] = {} /\ p \in Seeks[s] /\ creator[p] = None
    /\ link' = [link EXCEPT ![s] = {p}]
    /\ deferred' = deferred \ {s}
    /\ creator' = [creator EXCEPT ![p] = s]
    /\ stage' = [stage EXCEPT ![p] = "queued"]

Join(s, p) ==
    /\ link[s] = {} /\ p \in Seeks[s]
    /\ creator[p] # None /\ Agree(s, creator[p])
    /\ link' = [link EXCEPT ![s] = {p}]
    /\ deferred' = deferred \ {s}
    /\ UNCHANGED <<creator, stage>>

PutOff(s) ==
    /\ link[s] = {}
    /\ deferred' = deferred \union {s}
    /\ UNCHANGED <<link, creator, stage>>

(* A page of publications is sent on its way together. *)
Send(page) ==
    /\ \A p \in page : stage[p] = "queued"
    /\ stage' = [p \in Publications |-> IF p \in page THEN "sent" ELSE stage[p]]
    /\ UNCHANGED <<link, deferred, creator>>

Advance(p, from, to) ==
    /\ stage[p] = from
    /\ stage' = [stage EXCEPT ![p] = to]
    /\ UNCHANGED <<link, deferred, creator>>

Next ==
    \/ \E page \in SUBSET Publications : Send(page)
    \/ \E s \in Seekers :
           PutOff(s) \/ \E p \in Publications : Create(s, p) \/ Join(s, p)
    \/ \E p \in Publications :
           Advance(p, "sent", "claimed") \/ Advance(p, "claimed", "delivered")

Spec == Init /\ [][Next]_vars

-----------------------------------------------------------------------------
(* What it is good for: whoever is linked finds the publication there,     *)
(* agrees with its creator, and is not put off; and a publication exists   *)
(* if and only if somebody created it.                                     *)
Sound ==
    /\ \A s \in Seekers : \A p \in link[s] :
           /\ p \in Seeks[s] /\ s \notin deferred
           /\ creator[p] # None /\ Agree(s, creator[p])
    /\ \A p \in Publications :
           /\ stage[p] = "none" <=> creator[p] = None
           /\ creator[p] # None => link[creator[p]] = {p}

(* Links and creators are for good.                                        *)
Final ==
    [][/\ \A s \in Seekers : link[s] # {} => link'[s] = link[s]
       /\ \A p \in Publications : creator[p] # None => creator'[p] = creator[p]]_vars
=============================================================================
