----------------------------- MODULE MCFosSync -----------------------------
EXTENDS FosSync, TLC

Symmetry == Permutations(Workers) \cup Permutations(Mutexes)
=============================================================================
