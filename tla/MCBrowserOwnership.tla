------------------------- MODULE MCBrowserOwnership -------------------------
(* TLC instance of BrowserOwnership.  Ids and routes are interchangeable:   *)
(* no definition but Init's choice of one route distinguishes them.         *)
EXTENDS BrowserOwnership, TLC

Symmetry == Permutations(Accounts) \cup Permutations(Ops) \cup Permutations(Routes)
OperationSymmetry == Permutations(Ops)
=============================================================================
