----------------------------- MODULE MCExTimer -----------------------------
EXTENDS ExTimer, TLC
CONSTANTS ta, tb, oa, ob, ha, hb

How(named, openif, permanent) == [named |-> named, openif |-> openif, permanent |-> permanent]
MCAttributes == {How(TRUE, TRUE, FALSE), How(TRUE, FALSE, TRUE)}
Symmetry == Permutations(Object) \cup Permutations(Handle) \cup Permutations(Thread)
=============================================================================
