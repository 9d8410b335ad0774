---------------------------- MODULE RwLockSpec ----------------------------
(***************************************************************************)
(* What a reader/writer lock promises, without counts or events: one       *)
(* writer or any number of readers, and a reader that arrives while a      *)
(* writer waits does not slip in ahead of it.                              *)
(***************************************************************************)
CONSTANT Thread
VARIABLE phase

Phases == {"out", "wantsWrite", "wantsRead", "writing", "reading"}
Doing(p) == {t \in Thread : phase[t] = p}

Init == phase = [t \in Thread |-> "out"]

Become(T, p) == phase' = [t \in Thread |-> IF t \in T THEN p ELSE phase[t]]

(* Ask for the lock without getting it at once. *)
Ask(t) == phase[t] = "out" /\ (Become({t}, "wantsWrite") \/ Become({t}, "wantsRead"))

(* A writer enters an empty lock; one that did not wait only past nobody.  *)
EnterWrite(t) ==
    /\ Doing("writing") \cup Doing("reading") = {}
    /\ \/ phase[t] = "wantsWrite"
       \/ phase[t] = "out" /\ Doing("wantsWrite") \cup Doing("wantsRead") = {}
    /\ Become({t}, "writing")

(* Waiting readers enter together when no writer is inside. *)
EnterRead(T) ==
    /\ T # {} /\ T \subseteq Doing("wantsRead")
    /\ Doing("writing") = {}
    /\ Become(T, "reading")

(* A reader that does not wait overtakes no waiting writer. *)
JoinRead(t) ==
    /\ phase[t] = "out"
    /\ Doing("writing") \cup Doing("wantsWrite") = {}
    /\ Become({t}, "reading")

Leave(t) == phase[t] \in {"writing", "reading"} /\ Become({t}, "out")

Next ==
    \/ \E t \in Thread : Ask(t) \/ EnterWrite(t) \/ JoinRead(t) \/ Leave(t)
    \/ \E T \in SUBSET Thread : EnterRead(T)

Spec == Init /\ [][Next]_phase
=============================================================================
