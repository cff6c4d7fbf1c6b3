----------------------- MODULE MCProviderConversations ----------------------
(* TLC instance of ProviderConversations: cleanups are interchangeable.    *)
EXTENDS ProviderConversations, TLC

Symmetry == Permutations(Cleaners)
=============================================================================
