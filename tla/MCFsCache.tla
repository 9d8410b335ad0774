----------------------------- MODULE MCFsCache -----------------------------
EXTENDS FsCache, TLC
CONSTANTS ta, tb, tc, td, bx, by, bz, p1, p2, p3

Ask(t, k, m) == [thread |-> t, block |-> k, mode |-> m]

(* Two threads that keep the pages busy, and two that share a third block. *)
TwoPairs == {Ask(ta, bx, "read"), Ask(tb, by, "read"), Ask(tc, bz, "read"), Ask(td, bz, "read"),
             Ask(tc, bz, "write"), Ask(tc, bz, "fill"), Ask(td, bz, "direct")}

Symmetry == Permutations({p1, p2, p3})
=============================================================================
