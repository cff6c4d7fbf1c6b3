------------------------ MODULE MCPublicationOutbox -------------------------
EXTENDS PublicationOutbox, TLC

CONSTANTS x, a1

(* Everybody is about the same content; the requests name one account, the *)
(* cells may get any.                                                      *)
OneContent == [i \in Cells \union Requests |-> x]
SameAccount == [r \in Requests |-> a1]

Symmetry == Permutations(Cells) \union Permutations(Resumers)
=============================================================================
