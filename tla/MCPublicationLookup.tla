------------------------ MODULE MCPublicationLookup -------------------------
EXTENDS PublicationLookup, TLC

Symmetry ==
    Permutations(Attempts \ Rich) \union Permutations(Executions) \union Permutations(Urls)
=============================================================================
