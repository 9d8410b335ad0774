----------------------------- MODULE MCKeWait -----------------------------
EXTENDS KeWait, TLC

CONSTANTS t1, t2, t3, note, sync, sem, mut, mut2

TwoThreads   == {t1, t2}
ThreeThreads == {t1, t2, t3}
MCMinSignal == -1
MCNone == {}
MCNote == {note}
MCSync == {sync}
MCSem  == {sem}
MCMuts == {mut, mut2}
Symmetry == Permutations(Thread)

Req(objs, all, timeout) ==
    [objs |-> objs, all |-> all, mode |-> "kernel", alertable |-> FALSE,
     timeout |-> timeout, passive |-> FALSE]

(* Three threads contend for an event of each kind, a semaphore, two
   mutants and each other's end; a kernel APC may start one of the waits
   over.                                                                  *)
AllRequests ==
    {Req(<<mut, sync>>, FALSE, "finite"),
     [Req(<<sem, mut>>, TRUE, "none") EXCEPT !.passive = TRUE],
     Req(<<mut, mut2>>, TRUE, "none"), Req(<<sync, note>>, TRUE, "none"),
     Req(<<note>>, FALSE, "zero")}
        \cup {Req(<<t, sem>>, FALSE, "none") : t \in Thread}

(* Alerts, APCs and timeouts against one event. *)
Alertable(mode, timeout) ==
    [Req(<<sync>>, FALSE, timeout)
        EXCEPT !.mode = mode, !.alertable = TRUE, !.passive = TRUE]
AlertRequests ==
    {Alertable("kernel", "none"), Alertable("user", "finite"),
     [Alertable("user", "finite") EXCEPT !.alertable = FALSE]}
=============================================================================
