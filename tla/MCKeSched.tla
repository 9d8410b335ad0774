----------------------------- MODULE MCKeSched -----------------------------
(* Instances of KeSched: priorities 0..4, of which 3 and 4 are realtime.   *)
EXTENDS KeSched

OneStep == {-1, 1}
Symmetry == Permutations(Thread)
==============================================================================
