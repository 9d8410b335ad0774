----------------------------- MODULE MCKeTimer -----------------------------
EXTENDS KeTimer

CONSTANTS ta, tb

TwoTimers == {ta, tb}
Symmetry == Permutations(Timer)
=============================================================================
