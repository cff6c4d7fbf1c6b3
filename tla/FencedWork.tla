---------------------------- MODULE FencedWork -----------------------------
(***************************************************************************)
(* What the leased ledgers of this system promise.  Work on a job is done  *)
(* by a claimant with an id of its own.  A claimant takes the job, may be  *)
(* displaced by a later one, and at most the claimant that still holds the *)
(* job settles it: its result is recorded once, and the result of a        *)
(* displaced claimant is never recorded.                                   *)
(*                                                                         *)
(* PublicationLookup implements this specification.                        *)
(***************************************************************************)
CONSTANTS Jobs, Claimants, None

VARIABLES
    holding,   \* the claimant that may settle a job, or None
    taken,     \* the claimants that ever took a job
    settled    \* those whose result is recorded

vars == <<holding, taken, settled>>

Init ==
    /\ holding = [j \in Jobs |-> None]
    /\ taken = {}
    /\ settled = {}

(* A claimant that never held anything takes the job, from whoever had it. *)
Take(j, c) ==
    /\ c \notin taken
    /\ holding' = [holding EXCEPT ![j] = c]
    /\ taken' = taken \union {c}
    /\ UNCHANGED settled

(* The holder's result is recorded, and ends its hold. *)
Settle(j, c) ==
    /\ holding[j] = c
    /\ c \in taken \ settled
    /\ holding' = [holding EXCEPT ![j] = None]
    /\ settled' = settled \union {c}
    /\ UNCHANGED taken

(* The hold ends without a result: the lease is reclaimed or given back. *)
Lose(j) ==
    /\ holding[j] # None
    /\ holding' = [holding EXCEPT ![j] = None]
    /\ UNCHANGED <<taken, settled>>

Next ==
    \E j \in Jobs :
        \/ \E c \in Claimants : Take(j, c) \/ Settle(j, c)
        \/ Lose(j)

Spec == Init /\ [][Next]_vars

-----------------------------------------------------------------------------
(* What it is good for: who holds a job holds no other and has recorded    *)
(* nothing yet,                                                            *)
Holds(j, c) == holding[j] = c /\ c # None

Fenced ==
    /\ settled \subseteq taken
    /\ \A j \in Jobs : holding[j] # None => holding[j] \in taken \ settled
    /\ \A i, j \in Jobs : \A c \in Claimants : Holds(i, c) /\ Holds(j, c) => i = j

(* and a claimant that was displaced never comes back, nor does its result.*)
Displaced(c) == c \in taken /\ \A j \in Jobs : ~Holds(j, c)

Final ==
    [][/\ settled \subseteq settled'
       /\ \A c \in Claimants : Displaced(c) =>
              Displaced(c)' /\ (c \in settled' <=> c \in settled)]_vars
=============================================================================
