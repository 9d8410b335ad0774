----------------------------- MODULE MCKeQueue -----------------------------
EXTENDS KeQueue

CONSTANTS ta, tb, tc, qp, qq

ThreeThreads == {ta, tb, tc}
MCMortal == {ta}
MCTarget == {ta, tb}

(* One thread changes between the two queues. *)
MCUses == [t \in ThreeThreads |-> IF t = ta THEN {qp, qq} ELSE {qp}]
=============================================================================
