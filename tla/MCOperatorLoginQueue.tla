----------------------- MODULE MCOperatorLoginQueue -------------------------
(* TLC instance of OperatorLoginQueue: operation ids, tasks and sessions    *)
(* are interchangeable; items are not, they are ordered.                    *)
EXTENDS OperatorLoginQueue, TLC

Symmetry == Permutations(Ops) \cup Permutations(Tasks) \cup Permutations(Sessions)
=============================================================================
