---------------------------- MODULE MCObHandle ----------------------------
EXTENDS ObHandle, TLC
CONSTANTS ta, tb, oa, ob, ha, hb

How(named, openif, permanent) == [named |-> named, openif |-> openif, permanent |-> permanent]
Named == {How(TRUE, FALSE, FALSE)}
=============================================================================
