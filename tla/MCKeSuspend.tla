---------------------------- MODULE MCKeSuspend ----------------------------
EXTENDS KeSuspend

Symmetry == Permutations(Special) \cup Permutations(Normal)
=============================================================================
