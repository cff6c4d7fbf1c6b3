------------------------- MODULE MCPublicationSend --------------------------
(* TLC instance of PublicationSend: runs are interchangeable.              *)
EXTENDS PublicationSend, TLC

Symmetry == Permutations(Runs)
=============================================================================
