------------------------------ MODULE MCGitSync ------------------------------
EXTENDS GitSync, TLC

Symmetry == Permutations(Docs) \cup Permutations(Calls) \cup Permutations(Others)
=============================================================================
