--------------------------- MODULE KeQueueProofs ---------------------------
(***************************************************************************)
(* Queues count their threads right, lose no entry and strand none, for    *)
(* any number of queues and entries, any finite number of threads and any  *)
(* maximum.                                                                *)
(***************************************************************************)
EXTENDS KeQueue, WaitListProofs, FiniteSetTheorems

-----------------------------------------------------------------------------
(* The invariant, of any value Q of "queue" and T of "thread": the parts   *)
(* of a routine (leaving one queue, joining another, the loop's pass) are  *)
(* steps from one such pair to the next.                                   *)

Holds(R) == {R.status, R.result} \cap Entry
Counts(R, q) == R.queue = q /\ R.in # "waiting" /\ ~R.blocked
Waits(R, q)  == R.queue = q /\ R.in = "waiting"

NumberActive(T, q) == Cardinality({t \in Thread : Counts(T[t], q)})

(* Where a thread is implies what its KTHREAD says. *)
Placed(R) ==
    /\ R.in \in {"waiting", "woken", "swapped", "relock"} => R.queue # NoQueue
    /\ R.in \in {"waiting", "woken", "relock", "exited"} => R.result = NoStatus
    /\ R.in \in {"waiting", "relock", "outside", "exited"} => R.status = NoStatus
    /\ R.in = "swapped" => R.status \in {NoStatus, R.result}
    /\ R.in \in {"waiting", "woken", "exited"} => ~R.blocked
    /\ R.in = "exited" => R.queue = NoQueue
    /\ R.timer => R.in = "waiting"
    /\ R.wrQueue => R.in \in {"waiting", "woken", "swapped"}

(* A live queue's count and lists against the threads. *)
Listed(T, q, A) ==
    /\ A.count = NumberActive(T, q)
    /\ A.signal = Len(A.entries)
    /\ IsInjective(A.threads) /\ IsInjective(A.waiters)
    /\ Range(A.threads) = {t \in Thread : T[t].queue = q}
    /\ Range(A.waiters) = {t \in Thread : Waits(T[t], q)}

(* An entry is in one place. *)
OnePlace(Q, T) ==
    /\ \A q \in Queue : IsInjective(Q[q].entries)
    /\ \A p, q \in Queue : p # q => Range(Q[p].entries) \cap Range(Q[q].entries) = {}
    /\ \A q \in Queue, t \in Thread : Range(Q[q].entries) \cap Holds(T[t]) = {}
    /\ \A t, u \in Thread : t # u => Holds(T[t]) \cap Holds(T[u]) = {}

Good(Q, T) ==
    /\ Q \in [Queue -> KQUEUE] /\ T \in [Thread -> KTHREAD]
    /\ \A t \in Thread : Placed(T[t]) /\ (T[t].queue # NoQueue => Q[T[t].queue].live)
    /\ \A q \in Queue : IF Q[q].live THEN Listed(T, q, Q[q]) ELSE Q[q].entries = <<>>
    /\ OnePlace(Q, T)

-----------------------------------------------------------------------------
(* One thread and one queue move, the others stay.                         *)
Share(R, q) == IF Counts(R, q) THEN 1 ELSE 0

Beside(Q, T, Q2, T2, q, t) ==
    /\ Q2 \in [Queue -> KQUEUE] /\ T2 \in [Thread -> KTHREAD]
    /\ \A p \in Queue : p # q => Q2[p] = Q[p]
    /\ \A u \in Thread : u # t => T2[u] = T[u]

(* The queue A becomes B as its thread t, that is R, becomes S. *)
Relisted(A, B, R, S, q, t) ==
    /\ A.live /\ B.live
    /\ IsInjective(B.threads) /\ IsInjective(B.waiters)
    /\ Range(B.threads) = IF S.queue = q THEN Range(A.threads) \cup {t}
                                         ELSE Range(A.threads) \ {t}
    /\ Range(B.waiters) = IF Waits(S, q) THEN Range(A.waiters) \cup {t}
                                         ELSE Range(A.waiters) \ {t}
    /\ B.count = A.count - Share(R, q) + Share(S, q)
    /\ B.signal = Len(B.entries)

(* The thread gets no entry, the first one, or one that is new. *)
Unheld(Q, T, e) ==
    /\ \A q \in Queue : e \notin Range(Q[q].entries)
    /\ \A t \in Thread : e \notin Holds(T[t])

KeepsEntries(A, B, R, S) == B.entries = A.entries /\ Holds(S) \subseteq Holds(R)

TakesFirst(A, B, S) ==
    A.entries # <<>> /\ B.entries = Tail(A.entries) /\ Holds(S) \subseteq {Head(A.entries)}

GetsNew(Q, T, A, B, S) ==
    B.entries = A.entries /\ \E e \in Entry : Unheld(Q, T, e) /\ Holds(S) \subseteq {e}

LEMMA ActiveCounted ==
    ASSUME NEW Q, NEW T, NEW Q2, NEW T2, NEW q, NEW t \in Thread, Beside(Q, T, Q2, T2, q, t)
    PROVE  /\ NumberActive(T, q) \in Nat
           /\ NumberActive(T2, q) =
                 NumberActive(T, q) - Share(T[t], q) + Share(T2[t], q)
<1> DEFINE S == {u \in Thread : Counts(T[u], q)}
           U == {u \in Thread : Counts(T2[u], q)}
           Rest == S \ {t}
<1>1. S \in SUBSET Thread /\ U \in SUBSET Thread /\ (t \in S <=> Counts(T[t], q))
  BY Zenon
<1>2. U = IF Counts(T2[t], q) THEN Rest \cup {t} ELSE Rest
  <2>1. \A u \in Thread : u # t => (Counts(T2[u], q) <=> Counts(T[u], q))
    BY Zenon DEF Beside
  <2>2. \A u : u \in U <=> u \in Thread /\ Counts(T2[u], q)
    BY Zenon
  <2>3. \A u : u \in Rest <=> u \in Thread /\ u # t /\ Counts(T[u], q)
    BY Zenon
  <2> HIDE DEF U, Rest
  <2>4. CASE Counts(T2[t], q)
    BY <2>1, <2>2, <2>3, <2>4
  <2>5. CASE ~Counts(T2[t], q)
    BY <2>1, <2>2, <2>3, <2>5
  <2> QED BY <2>4, <2>5
<1>3. IsFiniteSet(S) /\ Cardinality(S) \in Nat
  BY <1>1, FS_Subset, FS_CardinalityType, KeQueueAssumption
<1>4. IsFiniteSet(Rest) /\ Cardinality(Rest) = IF t \in S THEN Cardinality(S) - 1 ELSE Cardinality(S)
  BY <1>3, FS_RemoveElement
<1>5. t \notin Rest
  OBVIOUS
<1> HIDE DEF Rest
<1>6. Cardinality(Rest) \in Nat /\ Cardinality(Rest \cup {t}) = Cardinality(Rest) + 1
  BY <1>4, <1>5, FS_AddElement, FS_CardinalityType
<1> HIDE DEF S, U
<1>7. Cardinality(U) = Cardinality(S) - Share(T[t], q) + Share(T2[t], q)
  BY <1>1, <1>2, <1>3, <1>4, <1>6 DEF Share
<1>8. NumberActive(T, q) = Cardinality(S) /\ NumberActive(T2, q) = Cardinality(U)
  BY Zenon DEF NumberActive, S, U
<1> QED BY <1>3, <1>7, <1>8

LEMMA MoveKeepsLists ==
    ASSUME NEW Q, NEW T, NEW Q2, NEW T2, NEW t \in Thread, NEW q \in Queue \cup {NoQueue},
           Good(Q, T), Beside(Q, T, Q2, T2, q, t),
           T[t].queue \in {q, NoQueue}, T2[t].queue \in {q, NoQueue},
           q \in Queue => Relisted(Q[q], Q2[q], T[t], T2[t], q, t)
    PROVE  /\ \A u \in Thread : T2[u].queue # NoQueue =>
                   T2[u].queue \in Queue /\ Q2[T2[u].queue].live
           /\ \A p \in Queue : IF Q2[p].live THEN Listed(T2, p, Q2[p]) ELSE Q2[p].entries = <<>>
<1>1. NoQueue \notin Queue
  BY KeQueueAssumption
<1>2. \A u \in Thread : T[u].queue # NoQueue => T[u].queue \in Queue /\ Q[T[u].queue].live
  BY DEF Good, KTHREAD
<1>3. \A u \in Thread : T2[u].queue # NoQueue => T2[u].queue \in Queue /\ Q2[T2[u].queue].live
  BY <1>1, <1>2 DEF Beside, Relisted
<1>4. ASSUME NEW p \in Queue, p # q
      PROVE  IF Q2[p].live THEN Listed(T2, p, Q2[p]) ELSE Q2[p].entries = <<>>
  <2>1. Q2[p] = Q[p] /\ (IF Q[p].live THEN Listed(T, p, Q[p]) ELSE Q[p].entries = <<>>)
    BY <1>4 DEF Beside, Good
  <2>2. T[t].queue # p /\ T2[t].queue # p
    BY <1>1, <1>4
  <2>3. \A u \in Thread : T2[u] = T[u] \/ u = t
    BY DEF Beside
  <2>4. \A u \in Thread : /\ Counts(T2[u], p) <=> Counts(T[u], p)
                          /\ T2[u].queue = p <=> T[u].queue = p
                          /\ Waits(T2[u], p) <=> Waits(T[u], p)
    BY <2>2, <2>3, Zenon DEF Counts, Waits
  <2>5. /\ NumberActive(T2, p) = NumberActive(T, p)
        /\ {u \in Thread : T2[u].queue = p} = {u \in Thread : T[u].queue = p}
        /\ {u \in Thread : Waits(T2[u], p)} = {u \in Thread : Waits(T[u], p)}
    BY <2>4, Zenon DEF NumberActive
  <2> QED BY <2>1, <2>5, Zenon DEF Listed
<1>5. ASSUME q \in Queue PROVE Q2[q].live /\ Listed(T2, q, Q2[q])
  <2> DEFINE A == Q[q]
             B == Q2[q]
  <2>1. Relisted(A, B, T[t], T2[t], q, t) /\ Listed(T, q, A)
    BY <1>5 DEF Good, Relisted
  <2>2. \A u \in Thread : u # t => T2[u] = T[u]
    BY DEF Beside
  <2>3. B.count = NumberActive(T2, q)
    <3>1. /\ B.count = A.count - Share(T[t], q) + Share(T2[t], q)
          /\ A.count = NumberActive(T, q)
      BY <2>1 DEF Relisted, Listed
    <3>2. NumberActive(T2, q) =
             NumberActive(T, q) - Share(T[t], q) + Share(T2[t], q)
      BY ActiveCounted
    <3> QED BY <3>1, <3>2
  <2>4. Range(B.threads) = {u \in Thread : T2[u].queue = q}
    <3>1. Range(A.threads) = {u \in Thread : T[u].queue = q}
      BY <2>1 DEF Listed
    <3>2. CASE T2[t].queue = q
      <4>1. Range(B.threads) = Range(A.threads) \cup {t}
        BY <2>1, <3>2 DEF Relisted
      <4> QED BY <2>2, <3>1, <3>2, <4>1
    <3>3. CASE T2[t].queue # q
      <4>1. Range(B.threads) = Range(A.threads) \ {t}
        BY <2>1, <3>3 DEF Relisted
      <4> QED BY <2>2, <3>1, <3>3, <4>1
    <3> QED BY <3>2, <3>3
  <2>5. Range(B.waiters) = {u \in Thread : Waits(T2[u], q)}
    <3>1. Range(A.waiters) = {u \in Thread : Waits(T[u], q)}
      BY <2>1 DEF Listed
    <3>2. CASE Waits(T2[t], q)
      <4>1. Range(B.waiters) = Range(A.waiters) \cup {t}
        BY <2>1, <3>2 DEF Relisted
      <4> QED BY <2>2, <3>1, <3>2, <4>1
    <3>3. CASE ~Waits(T2[t], q)
      <4>1. Range(B.waiters) = Range(A.waiters) \ {t}
        BY <2>1, <3>3 DEF Relisted
      <4> QED BY <2>2, <3>1, <3>3, <4>1
    <3> QED BY <3>2, <3>3
  <2> HIDE DEF A, B
  <2>6. Listed(T2, q, B) /\ B.live
    BY <2>1, <2>3, <2>4, <2>5 DEF Relisted, Listed
  <2> QED BY <2>6 DEF B
<1> QED BY <1>3, <1>4, <1>5

(* The entries: they stay in one place each, and those that were on a      *)
(* queue or with a thread still are, but for one a thread was done with.   *)
Done(T, e) == \E t \in Thread : T[t].in = "outside" /\ T[t].result = e

Kept(Q, T, Q2, T2) == \A e \in Entry : Unheld(Q2, T2, e) => Unheld(Q, T, e) \/ Done(T, e)

GivesUp(R, S) == Holds(R) \ Holds(S) \subseteq (IF R.in = "outside" THEN {R.result} ELSE {})

LEMMA MoveKeepsPlaces ==
    ASSUME NEW Q, NEW T, NEW Q2, NEW T2, NEW t \in Thread, NEW q \in Queue,
           Good(Q, T), Beside(Q, T, Q2, T2, q, t),
           \/ KeepsEntries(Q[q], Q2[q], T[t], T2[t])
           \/ TakesFirst(Q[q], Q2[q], T2[t])
           \/ GetsNew(Q, T, Q[q], Q2[q], T2[t])
    PROVE  OnePlace(Q2, T2)
<1>1. OnePlace(Q, T) /\ Q[q].entries \in Seq(Entry)
  BY DEF Good, KQUEUE
<1>2. /\ \A p \in Queue : p # q => Q2[p].entries = Q[p].entries
      /\ \A u \in Thread : u # t => Holds(T2[u]) = Holds(T[u])
  BY DEF Beside
<1>3. CASE KeepsEntries(Q[q], Q2[q], T[t], T2[t])
  <2>1. \A p \in Queue : Q2[p].entries = Q[p].entries
    BY <1>2, <1>3 DEF KeepsEntries
  <2>2. \A u \in Thread : Holds(T2[u]) \subseteq Holds(T[u])
    BY <1>2, <1>3 DEF KeepsEntries
  <2> HIDE DEF Holds
  <2> QED BY <1>1, <2>1, <2>2 DEF OnePlace
<1>4. CASE TakesFirst(Q[q], Q2[q], T2[t])
  <2> DEFINE A == Q[q].entries
             B == Q2[q].entries
             e == Head(A)
  <2>1. A # <<>> /\ B = Tail(A) /\ Holds(T2[t]) \subseteq {e} /\ IsInjective(A)
    BY <1>1, <1>4 DEF TakesFirst, OnePlace
  <2>2. /\ IsInjective(B) /\ e \in Range(A) /\ e \notin Range(B)
        /\ Range(B) \subseteq Range(A)
    BY <1>1, <2>1, TailScans
  <2>3. \A p \in Queue : Range(Q2[p].entries) \subseteq Range(Q[p].entries)
    BY <1>2, <2>2
  <2>4. \A p \in Queue : e \notin Range(Q2[p].entries)
    BY <1>1, <1>2, <2>2 DEF OnePlace
  <2>5. \A u \in Thread : e \notin Holds(T[u])
    BY <1>1, <2>2 DEF OnePlace
  <2> HIDE DEF A, e
  <2>6. \A p \in Queue : IsInjective(Q2[p].entries)
    BY <1>1, <1>2, <2>2 DEF OnePlace
  <2> HIDE DEF B
  <2>7. \A p, r \in Queue : p # r => Range(Q2[p].entries) \cap Range(Q2[r].entries) = {}
    BY <1>1, <2>3 DEF OnePlace
  <2>8. \A p \in Queue, u \in Thread : Range(Q2[p].entries) \cap Holds(T2[u]) = {}
    <3> TAKE p \in Queue, u \in Thread
    <3>1. CASE u = t
      BY <2>1, <2>4, <3>1
    <3>2. CASE u # t
      BY <1>1, <1>2, <2>3, <3>2 DEF OnePlace
    <3> QED BY <3>1, <3>2
  <2>9. \A u, v \in Thread : u # v => Holds(T2[u]) \cap Holds(T2[v]) = {}
    <3> TAKE u, v \in Thread
    <3>1. CASE u = t /\ u # v
      BY <1>2, <2>1, <2>5, <3>1
    <3>2. CASE v = t /\ u # v
      BY <1>2, <2>1, <2>5, <3>2
    <3>3. CASE u # t /\ v # t
      BY <1>1, <1>2, <3>3 DEF OnePlace
    <3> QED BY <3>1, <3>2, <3>3
  <2> QED BY <2>6, <2>7, <2>8, <2>9 DEF OnePlace
<1>5. CASE GetsNew(Q, T, Q[q], Q2[q], T2[t])
  <2>1. PICK e \in Entry : Unheld(Q, T, e) /\ Holds(T2[t]) \subseteq {e}
    BY <1>5 DEF GetsNew
  <2>2. \A p \in Queue : Q2[p].entries = Q[p].entries /\ e \notin Range(Q2[p].entries)
    BY <1>2, <1>5, <2>1 DEF GetsNew, Unheld
  <2>3. \A u \in Thread : e \notin Holds(T[u])
    BY <2>1 DEF Unheld
  <2>4. \A p \in Queue, u \in Thread : Range(Q2[p].entries) \cap Holds(T2[u]) = {}
    <3> TAKE p \in Queue, u \in Thread
    <3>1. CASE u = t
      BY <2>1, <2>2, <3>1
    <3>2. CASE u # t
      BY <1>1, <1>2, <2>2, <3>2 DEF OnePlace
    <3> QED BY <3>1, <3>2
  <2>5. \A u, v \in Thread : u # v => Holds(T2[u]) \cap Holds(T2[v]) = {}
    <3> TAKE u, v \in Thread
    <3>1. CASE u = t /\ u # v
      BY <1>2, <2>1, <2>3, <3>1
    <3>2. CASE v = t /\ u # v
      BY <1>2, <2>1, <2>3, <3>2
    <3>3. CASE u # t /\ v # t
      BY <1>1, <1>2, <3>3 DEF OnePlace
    <3> QED BY <3>1, <3>2, <3>3
  <2> QED BY <1>1, <2>2, <2>4, <2>5 DEF OnePlace
<1> QED BY <1>3, <1>4, <1>5

(* One thread moves and perhaps one queue with it. *)
Moves(Q, T, Q2, T2, q, t) ==
    /\ Beside(Q, T, Q2, T2, q, t)
    /\ T[t].queue \in {q, NoQueue} /\ T2[t].queue \in {q, NoQueue}
    /\ Placed(T2[t])
    /\ Relisted(Q[q], Q2[q], T[t], T2[t], q, t)
    /\ \/ KeepsEntries(Q[q], Q2[q], T[t], T2[t]) /\ GivesUp(T[t], T2[t])
       \/ TakesFirst(Q[q], Q2[q], T2[t]) /\ Holds(T[t]) = {} /\ Holds(T2[t]) # {}
       \/ GetsNew(Q, T, Q[q], Q2[q], T2[t]) /\ Holds(T[t]) = {}

LEMMA MoveStep ==
    ASSUME NEW Q, NEW T, NEW Q2, NEW T2, NEW t \in Thread, NEW q \in Queue,
           Good(Q, T), Moves(Q, T, Q2, T2, q, t)
    PROVE  Good(Q2, T2) /\ Kept(Q, T, Q2, T2)
<1>1. OnePlace(Q2, T2)
  BY MoveKeepsPlaces DEF Moves
<1>2. /\ \A u \in Thread : T2[u].queue # NoQueue => Q2[T2[u].queue].live
      /\ \A p \in Queue : IF Q2[p].live THEN Listed(T2, p, Q2[p]) ELSE Q2[p].entries = <<>>
  BY MoveKeepsLists DEF Moves
<1>3. \A u \in Thread : Placed(T2[u])
  BY DEF Moves, Beside, Good
<1>4. Good(Q2, T2)
  BY <1>1, <1>2, <1>3, Zenon DEF Good, Moves, Beside
<1>5. ASSUME NEW e \in Entry, Unheld(Q2, T2, e), ~Done(T, e) PROVE Unheld(Q, T, e)
  <2>1. /\ \A p \in Queue : p # q => e \notin Range(Q[p].entries)
        /\ \A u \in Thread : u # t => e \notin Holds(T[u])
        /\ e \notin Range(Q2[q].entries) /\ e \notin Holds(T2[t])
        /\ ~(T[t].in = "outside" /\ T[t].result = e)
    BY <1>5 DEF Moves, Beside, Unheld, Done
  <2>2. e \notin Range(Q[q].entries) /\ e \notin Holds(T[t])
    <3>1. CASE KeepsEntries(Q[q], Q2[q], T[t], T2[t]) /\ GivesUp(T[t], T2[t])
      BY <2>1, <3>1 DEF KeepsEntries, GivesUp
    <3>2. CASE TakesFirst(Q[q], Q2[q], T2[t]) /\ Holds(T[t]) = {} /\ Holds(T2[t]) # {}
      <4> DEFINE A == Q[q].entries
      <4>1. A # <<>> /\ A \in Seq(Entry) /\ IsInjective(A)
        BY <3>2 DEF TakesFirst, Good, KQUEUE, OnePlace
      <4>2. Range(Tail(A)) = Range(A) \ {Head(A)}
        BY <4>1, TailScans
      <4> QED BY <2>1, <3>2, <4>2 DEF TakesFirst
    <3>3. CASE GetsNew(Q, T, Q[q], Q2[q], T2[t]) /\ Holds(T[t]) = {}
      BY <2>1, <3>3 DEF GetsNew
    <3> QED BY <3>1, <3>2, <3>3 DEF Moves
  <2> QED BY <2>1, <2>2 DEF Unheld
<1> QED BY <1>4, <1>5 DEF Kept

(* A step of a thread that leaves the queues alone. *)
Aside(R, S) ==
    /\ S \in KTHREAD /\ Placed(S)
    /\ S.queue = R.queue
    /\ S.queue # NoQueue => (S.in = "waiting" <=> R.in = "waiting") /\ S.blocked = R.blocked
    /\ Holds(S) \subseteq Holds(R) /\ GivesUp(R, S)

LEMMA AsideStep ==
    ASSUME NEW Q, NEW T, NEW t \in Thread, NEW S, Good(Q, T), Aside(T[t], S)
    PROVE  Good(Q, [T EXCEPT ![t] = S]) /\ Kept(Q, T, Q, [T EXCEPT ![t] = S])
<1> DEFINE T2 == [T EXCEPT ![t] = S]
<1>1. T2 \in [Thread -> KTHREAD] /\ T2[t] = S /\ \A u \in Thread : u # t => T2[u] = T[u]
  BY DEF Good, Aside
<1> HIDE DEF T2
<1>2. \A u \in Thread : /\ T2[u].queue = T[u].queue
                        /\ Holds(T2[u]) \subseteq Holds(T[u])
                        /\ Placed(T2[u])
  BY <1>1, Zenon DEF Aside, Good
<1>3. NoQueue \notin Queue
  BY KeQueueAssumption
<1>4. ASSUME NEW p \in Queue
      PROVE  IF Q[p].live THEN Listed(T2, p, Q[p]) ELSE Q[p].entries = <<>>
  <2>1. IF Q[p].live THEN Listed(T, p, Q[p]) ELSE Q[p].entries = <<>>
    BY DEF Good
  <2>2. (Counts(S, p) <=> Counts(T[t], p)) /\ (Waits(S, p) <=> Waits(T[t], p))
    BY <1>3 DEF Aside, Counts, Waits
  <2>3. \A u \in Thread : /\ Counts(T2[u], p) <=> Counts(T[u], p)
                          /\ T2[u].queue = p <=> T[u].queue = p
                          /\ Waits(T2[u], p) <=> Waits(T[u], p)
    BY <1>1, <1>2, <2>2, Zenon
  <2>4. /\ NumberActive(T2, p) = NumberActive(T, p)
        /\ {u \in Thread : T2[u].queue = p} = {u \in Thread : T[u].queue = p}
        /\ {u \in Thread : Waits(T2[u], p)} = {u \in Thread : Waits(T[u], p)}
    BY <2>3, Zenon DEF NumberActive
  <2> QED BY <2>1, <2>4, Zenon DEF Listed
<1>5. OnePlace(Q, T2)
  <2>1. OnePlace(Q, T)
    BY DEF Good
  <2> HIDE DEF Holds
  <2> QED BY <1>2, <2>1 DEF OnePlace
<1>6. Good(Q, T2)
  BY <1>1, <1>2, <1>4, <1>5, Zenon DEF Good
<1>7. ASSUME NEW e \in Entry, Unheld(Q, T2, e), ~Done(T, e) PROVE Unheld(Q, T, e)
  <2>1. e \notin Holds(T[t])
    BY <1>1, <1>7 DEF Aside, GivesUp, Unheld, Done
  <2> QED BY <1>1, <1>7, <2>1 DEF Unheld
<1> QED BY <1>6, <1>7 DEF Kept, T2

(* Another entry on a queue. *)
LEMMA EntryStep ==
    ASSUME NEW Q, NEW T, NEW q \in Queue, NEW e \in Entry, NEW B \in KQUEUE,
           Good(Q, T), Unheld(Q, T, e), Q[q].live,
           B.live, B.count = Q[q].count, B.threads = Q[q].threads, B.waiters = Q[q].waiters,
           IsInjective(B.entries), Range(B.entries) = Range(Q[q].entries) \cup {e},
           B.signal = Len(B.entries)
    PROVE  Good([Q EXCEPT ![q] = B], T) /\ Kept(Q, T, [Q EXCEPT ![q] = B], T)
<1> DEFINE Q2 == [Q EXCEPT ![q] = B]
<1>1. Q2 \in [Queue -> KQUEUE] /\ Q2[q] = B /\ \A p \in Queue : p # q => Q2[p] = Q[p]
  BY DEF Good
<1> HIDE DEF Q2
<1>2. \A p \in Queue : Q2[p].live <=> Q[p].live
  BY <1>1
<1>3. \A p \in Queue : IF Q2[p].live THEN Listed(T, p, Q2[p]) ELSE Q2[p].entries = <<>>
  <2>1. ASSUME NEW p \in Queue, p # q
        PROVE  IF Q2[p].live THEN Listed(T, p, Q2[p]) ELSE Q2[p].entries = <<>>
    BY <1>1, <2>1, Zenon DEF Good
  <2>2. Listed(T, q, Q[q])
    BY DEF Good
  <2>3. Listed(T, q, B)
    BY <2>2, Zenon DEF Listed
  <2> QED BY <1>1, <2>1, <2>3, Zenon
<1>4. OnePlace(Q2, T)
  <2>1. OnePlace(Q, T)
    BY DEF Good
  <2>2. \A p \in Queue : Range(Q2[p].entries) =
                           IF p = q THEN Range(Q[p].entries) \cup {e} ELSE Range(Q[p].entries)
    BY <1>1
  <2>3. (\A p \in Queue : e \notin Range(Q[p].entries)) /\ \A t \in Thread : e \notin Holds(T[t])
    BY DEF Unheld
  <2>4. \A p \in Queue : IsInjective(Q2[p].entries)
    BY <1>1, <2>1, Zenon DEF OnePlace
  <2>5. \A p, r \in Queue : p # r => Range(Q2[p].entries) \cap Range(Q2[r].entries) = {}
    <3> TAKE p, r \in Queue
    <3>1. p # r => Range(Q[p].entries) \cap Range(Q[r].entries) = {}
      BY <2>1 DEF OnePlace
    <3>2. e \notin Range(Q[p].entries) /\ e \notin Range(Q[r].entries)
      BY <2>3
    <3>3. CASE p = q
      <4>1. p # r => Range(Q2[r].entries) = Range(Q[r].entries)
        BY <2>2, <3>3
      <4> QED BY <2>2, <3>1, <3>2, <3>3, <4>1
    <3>4. CASE p # q
      <4>1. Range(Q2[p].entries) = Range(Q[p].entries)
        BY <2>2, <3>4
      <4>2. Range(Q2[r].entries) \subseteq Range(Q[r].entries) \cup {e}
        BY <2>2
      <4> QED BY <3>1, <3>2, <4>1, <4>2
    <3> QED BY <3>3, <3>4
  <2>6. \A p \in Queue, t \in Thread : Range(Q2[p].entries) \cap Holds(T[t]) = {}
    <3> TAKE p \in Queue, t \in Thread
    <3>1. Range(Q[p].entries) \cap Holds(T[t]) = {} /\ e \notin Holds(T[t])
      BY <2>1, <2>3 DEF OnePlace
    <3>2. Range(Q2[p].entries) \subseteq Range(Q[p].entries) \cup {e}
      BY <2>2
    <3> HIDE DEF Holds
    <3> QED BY <3>1, <3>2
  <2> QED BY <2>1, <2>4, <2>5, <2>6, Zenon DEF OnePlace
<1>5. \A t \in Thread : T[t].queue # NoQueue => T[t].queue \in Queue /\ Q[T[t].queue].live
  BY DEF Good, KTHREAD
<1>6. Good(Q2, T)
  BY <1>1, <1>2, <1>3, <1>4, <1>5, Zenon DEF Good
<1>7. \A x \in Entry : Unheld(Q2, T, x) => Unheld(Q, T, x)
  BY <1>1 DEF Unheld
<1> QED BY <1>6, <1>7 DEF Kept, Q2

-----------------------------------------------------------------------------
(* The moves of which the routines are made, with what they leave of a     *)
(* queue and of a thread's KTHREAD.                                        *)
Same(A, B) == B.live = A.live /\ B.threads = A.threads

(* Which entries the threads are done with stays. *)
Quiet(T, T2) == \A e \in Entry : Done(T2, e) => Done(T, e)

LEMMA KeptOn ==
    ASSUME NEW Q, NEW T, NEW Q1, NEW T1, NEW Q2, NEW T2,
           Kept(Q, T, Q1, T1), Quiet(T, T1), Kept(Q1, T1, Q2, T2)
    PROVE  Kept(Q, T, Q2, T2)
BY Zenon DEF Kept, Quiet

LEMMA QueueFacts ==
    ASSUME NEW Q, NEW T, NEW q \in Queue, Good(Q, T), Q[q].live
    PROVE  /\ Q[q] \in KQUEUE /\ Listed(T, q, Q[q])
           /\ Q[q].count \in Nat /\ Q[q].signal \in Nat /\ Q[q].signal = Len(Q[q].entries)
           /\ Q[q].entries \in Seq(Entry) /\ IsInjective(Q[q].entries)
           /\ Q[q].waiters \in Seq(Thread) /\ IsInjective(Q[q].waiters)
           /\ Q[q].threads \in Seq(Thread) /\ IsInjective(Q[q].threads)
<1>1. Q[q] \in KQUEUE /\ Listed(T, q, Q[q]) /\ IsInjective(Q[q].entries)
  BY DEF Good, OnePlace
<1> QED BY <1>1 DEF KQUEUE, Listed

LEMMA WaitersAre ==
    ASSUME NEW Q, NEW T, NEW q \in Queue, Good(Q, T), Q[q].live
    PROVE  \A t : t \in Range(Q[q].waiters) <=> t \in Thread /\ T[t].queue = q /\ T[t].in = "waiting"
<1>1. Listed(T, q, Q[q])
  BY QueueFacts
<1>2. Range(Q[q].waiters) = {t \in Thread : Waits(T[t], q)}
  BY <1>1 DEF Listed
<1> QED BY <1>2 DEF Waits

LEMMA ThreadsAre ==
    ASSUME NEW Q, NEW T, NEW q \in Queue, Good(Q, T), Q[q].live
    PROVE  \A t : t \in Range(Q[q].threads) <=> t \in Thread /\ T[t].queue = q
<1>1. Listed(T, q, Q[q])
  BY QueueFacts
<1>2. Range(Q[q].threads) = {t \in Thread : T[t].queue = q}
  BY <1>1 DEF Listed
<1> QED BY <1>2

LEMMA CountsOne ==
    ASSUME NEW Q, NEW T, NEW q \in Queue, NEW t \in Thread, Good(Q, T), Counts(T[t], q)
    PROVE  Q[q].live /\ Q[q].count \in Nat /\ Q[q].count > 0
<1>1. Q[q].live
  BY KeQueueAssumption DEF Good, Counts
<1> DEFINE S == {u \in Thread : Counts(T[u], q)}
<1>2. S \in SUBSET Thread /\ t \in S
  BY Zenon
<1> HIDE DEF S
<1>3. IsFiniteSet(S) /\ S # {}
  BY <1>2, FS_Subset, KeQueueAssumption
<1>4. Cardinality(S) \in Nat /\ Cardinality(S) # 0
  BY <1>3, FS_EmptySet, FS_CardinalityType
<1>5. Q[q].count = Cardinality(S)
  <2>1. Listed(T, q, Q[q])
    BY <1>1, QueueFacts
  <2>2. Q[q].count = NumberActive(T, q)
    BY <2>1 DEF Listed
  <2> QED BY <2>2, Zenon DEF NumberActive, S
<1> QED BY <1>1, <1>4, <1>5

(* A waiter is made ready: its wait ends with a status, or it gets an      *)
(* entry, the first of the queue or a new one.                             *)
WokenFrom(R, S, s) ==
    /\ S \in KTHREAD
    /\ S.in = "woken" /\ S.status = s /\ ~S.timer
    /\ S.queue = R.queue /\ S.blocked = R.blocked /\ S.result = R.result

LEMMA WakeStep ==
    ASSUME NEW Q, NEW T, NEW q \in Queue, NEW w \in Thread, NEW s, NEW S, NEW B \in KQUEUE,
           Good(Q, T), Q[q].live, w \in Range(Q[q].waiters),
           WokenFrom(T[w], S, s),
           Same(Q[q], B), B.count = Q[q].count + 1, B.signal = Len(B.entries),
           IsInjective(B.waiters), Range(B.waiters) = Range(Q[q].waiters) \ {w},
           \/ B.entries = Q[q].entries /\ s \notin Entry
           \/ B.entries = Q[q].entries /\ s \in Entry /\ Unheld(Q, T, s)
           \/ Q[q].entries # <<>> /\ B.entries = Tail(Q[q].entries) /\ s = Head(Q[q].entries)
    PROVE  /\ Good([Q EXCEPT ![q] = B], [T EXCEPT ![w] = S])
           /\ Kept(Q, T, [Q EXCEPT ![q] = B], [T EXCEPT ![w] = S])
           /\ Quiet(T, [T EXCEPT ![w] = S])
<1> DEFINE Q2 == [Q EXCEPT ![q] = B]
           T2 == [T EXCEPT ![w] = S]
           A == Q[q]
           R == T[w]
<1>1. Q2[q] = B /\ T2[w] = S /\ Beside(Q, T, Q2, T2, q, w)
  BY DEF Good, Beside, WokenFrom
<1>2. R.queue = q /\ R.in = "waiting" /\ Placed(R) /\ R \in KTHREAD
  BY WaitersAre DEF Good
<1>3. R.status = NoStatus /\ R.result = NoStatus /\ ~R.blocked /\ NoStatus \notin Entry
  BY <1>2, KeQueueAssumption DEF Placed
<1>4. q # NoQueue
  BY KeQueueAssumption
<1>5. Placed(S)
  BY <1>2, <1>3, <1>4 DEF WokenFrom, Placed
<1>6. Holds(R) = {} /\ Holds(S) = {s} \cap Entry
  BY <1>3 DEF Holds, WokenFrom
<1>7. ~Counts(R, q) /\ Counts(S, q) /\ ~Waits(S, q)
  BY <1>2, <1>3 DEF Counts, Waits, WokenFrom
<1>8. Relisted(A, B, R, S, q, w)
  <2>1. A.count \in Nat /\ IsInjective(A.threads) /\ w \in Range(A.threads)
    BY <1>2, QueueFacts, ThreadsAre
  <2>2. B.count = A.count - Share(R, q) + Share(S, q)
    BY <1>7, <2>1 DEF Share
  <2>3. Range(B.threads) = Range(A.threads) \cup {w} /\ S.queue = q
    BY <1>2, <2>1 DEF Same, WokenFrom
  <2> HIDE DEF A, R
  <2> QED BY <1>7, <2>1, <2>2, <2>3 DEF Relisted, Same, A
<1>9. \/ KeepsEntries(A, B, R, S) /\ GivesUp(R, S)
      \/ TakesFirst(A, B, S) /\ Holds(R) = {} /\ Holds(S) # {}
      \/ GetsNew(Q, T, A, B, S) /\ Holds(R) = {}
  <2>1. CASE B.entries = A.entries /\ s \notin Entry
    BY <1>6, <2>1 DEF KeepsEntries, GivesUp
  <2>2. CASE B.entries = A.entries /\ s \in Entry /\ Unheld(Q, T, s)
    BY <1>6, <2>2 DEF GetsNew
  <2>3. CASE A.entries # <<>> /\ B.entries = Tail(A.entries) /\ s = Head(A.entries)
    <3>1. Head(A.entries) \in Entry
      BY <2>3, QueueFacts, TailScans
    <3> QED BY <1>6, <2>3, <3>1 DEF TakesFirst
  <2> QED BY <2>1, <2>2, <2>3
<1> HIDE DEF Q2, T2
<1>10. Moves(Q, T, Q2, T2, q, w)
  BY <1>1, <1>2, <1>5, <1>8, <1>9 DEF Moves, WokenFrom
<1>11. Good(Q2, T2) /\ Kept(Q, T, Q2, T2)
  BY <1>10, MoveStep
<1>12. Quiet(T, T2)
  BY <1>1 DEF Quiet, Done, Beside, WokenFrom
<1> QED BY <1>11, <1>12 DEF Q2, T2

(* A thread stops to count for its queue: it leaves it, or it blocks on    *)
(* something else.                                                         *)
StoppedAs(R, S) ==
    /\ S \in KTHREAD /\ Placed(S)
    /\ \/ S.queue = NoQueue
       \/ S.queue = R.queue /\ S.blocked /\ S.in # "waiting"
    /\ Holds(S) \subseteq Holds(R) /\ GivesUp(R, S)

StoppedIn(A, B, R, S, t) ==
    /\ B \in KQUEUE /\ B.live = A.live
    /\ B.threads = IF S.queue = R.queue THEN A.threads ELSE Unlink(A.threads, t)
    /\ B.waiters = A.waiters /\ B.entries = A.entries /\ B.signal = A.signal

LEMMA StopStep ==
    ASSUME NEW Q, NEW T, NEW q \in Queue, NEW t \in Thread, NEW S, NEW B,
           Good(Q, T), Counts(T[t], q), StoppedAs(T[t], S),
           StoppedIn(Q[q], B, T[t], S, t), B.count = Q[q].count - 1
    PROVE  /\ Good([Q EXCEPT ![q] = B], [T EXCEPT ![t] = S])
           /\ Kept(Q, T, [Q EXCEPT ![q] = B], [T EXCEPT ![t] = S])
<1> DEFINE Q2 == [Q EXCEPT ![q] = B]
           T2 == [T EXCEPT ![t] = S]
           A == Q[q]
           R == T[t]
<1>1. Q2[q] = B /\ T2[t] = S /\ Beside(Q, T, Q2, T2, q, t)
  BY DEF Good, Beside, StoppedAs, StoppedIn
<1>2. R.queue = q /\ R.in # "waiting" /\ q # NoQueue
  BY KeQueueAssumption DEF Counts
<1>3. A.live /\ A.count \in Nat
  BY CountsOne
<1>4. Counts(R, q) /\ ~Counts(S, q) /\ ~Waits(S, q)
  BY <1>2 DEF StoppedAs, Counts, Waits
<1>5. /\ A.threads \in Seq(Thread) /\ IsInjective(A.threads) /\ IsInjective(A.waiters)
      /\ A.signal = Len(A.entries)
      /\ t \in Range(A.threads) /\ t \notin Range(A.waiters)
  <2>1. /\ A.threads \in Seq(Thread) /\ IsInjective(A.threads) /\ IsInjective(A.waiters)
        /\ A.signal = Len(A.entries)
    BY <1>3, QueueFacts
  <2>2. t \in Range(A.threads)
    BY <1>2, <1>3, ThreadsAre
  <2>3. t \notin Range(A.waiters)
    BY <1>2, <1>3, WaitersAre
  <2> QED BY <2>1, <2>2, <2>3
<1>6. /\ IsInjective(B.threads)
      /\ Range(B.threads) = IF S.queue = q THEN Range(A.threads) \cup {t} ELSE Range(A.threads) \ {t}
  <2>1. CASE S.queue = q
    BY <1>2, <1>5, <2>1 DEF StoppedIn
  <2>2. CASE S.queue # q
    <3>1. B.threads = Unlink(A.threads, t)
      BY <1>2, <2>2 DEF StoppedIn
    <3> QED BY <1>5, <2>2, <3>1, UnlinkProperties
  <2> QED BY <2>1, <2>2
<1>7. Range(B.waiters) = Range(A.waiters) \ {t} /\ IsInjective(B.waiters)
  BY <1>5 DEF StoppedIn
<1>8. B.count = A.count - Share(R, q) + Share(S, q)
  BY <1>3, <1>4 DEF Share
<1>9. B.signal = Len(B.entries) /\ B.live
  BY <1>3, <1>5 DEF StoppedIn
<1> HIDE DEF A, R
<1>10. Relisted(A, B, R, S, q, t)
  BY <1>3, <1>4, <1>6, <1>7, <1>8, <1>9 DEF Relisted
<1>11. KeepsEntries(A, B, R, S) /\ GivesUp(R, S)
  BY DEF KeepsEntries, StoppedIn, StoppedAs, A, R
<1> HIDE DEF Q2, T2
<1>12. Moves(Q, T, Q2, T2, q, t)
  <2>1. T[t].queue \in {q, NoQueue} /\ T2[t].queue \in {q, NoQueue} /\ Placed(T2[t])
    BY <1>1, <1>2 DEF StoppedAs, R
  <2> QED BY <1>1, <1>10, <1>11, <2>1 DEF Moves, A, R
<1> QED BY <1>12, MoveStep DEF Q2, T2

QuietAs(R, S) == S.in = "outside" => R.in = "outside" /\ S.result \in {NoStatus, R.result}

LEMMA QuietMove ==
    ASSUME NEW T \in [Thread -> KTHREAD], NEW t \in Thread, NEW S, QuietAs(T[t], S)
    PROVE  Quiet(T, [T EXCEPT ![t] = S])
BY KeQueueAssumption DEF Quiet, Done, QuietAs

(* It stops, and the last waiter gets the first entry if it may. *)
LEMMA YieldStep ==
    ASSUME NEW q \in Queue, NEW t \in Thread, NEW S, NEW A,
           Good(queue, thread), Counts(thread[t], q), StoppedAs(thread[t], S),
           StoppedIn(queue[q], A, thread[t], S, t), A.count = queue[q].count,
           QuietAs(thread[t], S)
    PROVE  LET Q2 == [queue EXCEPT ![q] = ActivateWaiter(A)]
               T2 == [ThreadsAfterActivate(A) EXCEPT ![t] = S]
           IN  Good(Q2, T2) /\ Kept(queue, thread, Q2, T2) /\ Quiet(thread, T2)
<1> DEFINE B == [A EXCEPT !.count = A.count - 1]
           Q1 == [queue EXCEPT ![q] = B]
           T1 == [thread EXCEPT ![t] = S]
           Q2 == [queue EXCEPT ![q] = ActivateWaiter(A)]
           T2 == [ThreadsAfterActivate(A) EXCEPT ![t] = S]
<1>1. /\ queue[q].live /\ A.count \in Nat /\ A.count - 1 \in Nat
      /\ queue \in [Queue -> KQUEUE] /\ thread \in [Thread -> KTHREAD] /\ A \in KQUEUE
  BY CountsOne DEF Good, StoppedIn
<1>2. /\ B \in KQUEUE /\ B.count = A.count - 1
      /\ B.live = A.live /\ B.threads = A.threads /\ B.waiters = A.waiters
      /\ B.entries = A.entries /\ B.signal = A.signal
  BY <1>1 DEF KQUEUE
<1> HIDE DEF B
<1>3. StoppedIn(queue[q], B, thread[t], S, t)
  BY <1>2 DEF StoppedIn
<1>4. Good(Q1, T1) /\ Kept(queue, thread, Q1, T1) /\ Quiet(thread, T1)
  BY <1>1, <1>2, <1>3, StopStep, QuietMove
<1>5. CASE ~Activates(A)
  <2>1. ActivateWaiter(A) = B /\ ThreadsAfterActivate(A) = thread
    BY <1>5 DEF ActivateWaiter, ThreadsAfterActivate, B
  <2> QED BY <1>4, <2>1
<1>6. CASE Activates(A)
  <2> DEFINE w == Last(A.waiters)
             e == Head(A.entries)
             C == [A EXCEPT !.entries = Tail(A.entries), !.waiters = Front(A.waiters),
                            !.signal = A.signal - 1]
             W == Readied(thread[w], e)
  <2>1. ActivateWaiter(A) = C /\ ThreadsAfterActivate(A) = [thread EXCEPT ![w] = W]
    BY <1>6 DEF ActivateWaiter, ThreadsAfterActivate
  <2>2. A.entries # <<>> /\ A.waiters # <<>>
    BY <1>6 DEF Activates
  <2>3. Q1[q] = B /\ B.live /\ T1[t] = S
    BY <1>1, <1>2 DEF StoppedIn
  <2> HIDE DEF Q1, T1
  <2>4. /\ B.waiters \in Seq(Thread) /\ IsInjective(B.waiters) /\ B.entries \in Seq(Entry)
        /\ B.signal = Len(B.entries) /\ B.signal \in Nat /\ IsInjective(B.entries)
    BY <1>4, <2>3, QueueFacts
  <2>5. /\ Front(A.waiters) \in Seq(Thread) /\ w \in Thread /\ w \in Range(B.waiters)
        /\ IsInjective(Front(A.waiters))
        /\ Range(Front(A.waiters)) = Range(B.waiters) \ {w}
    BY <1>2, <2>2, <2>4, FrontLinks
  <2>6. /\ Tail(A.entries) \in Seq(Entry) /\ e \in Entry
        /\ Len(A.entries) \in Nat \ {0} /\ Len(Tail(A.entries)) = Len(A.entries) - 1
    <3>1. A.entries \in Seq(Entry)
      BY <1>2, <2>4
    <3> QED BY <2>2, <3>1
  <2>7. w # t /\ T1[w] = thread[w]
    <3>1. T1[w].in = "waiting" /\ T1[w].queue = q
      <4>1. Q1[q].live /\ w \in Range(Q1[q].waiters)
        BY <2>3, <2>5
      <4> HIDE DEF w
      <4> QED BY <1>4, <4>1, WaitersAre
    <3>2. ~(S.in = "waiting" /\ S.queue = q)
      BY KeQueueAssumption DEF StoppedAs
    <3> QED BY <1>1, <2>3, <3>1, <3>2 DEF T1
  <2>8. /\ C \in KQUEUE /\ C.live = A.live /\ C.threads = A.threads /\ C.count = A.count
        /\ C.entries = Tail(A.entries) /\ C.waiters = Front(A.waiters)
        /\ C.signal = Len(C.entries)
    <3>1. A.signal - 1 \in Nat /\ A.signal - 1 = Len(Tail(A.entries))
      BY <1>2, <2>4, <2>6
    <3>2. /\ C.live = A.live /\ C.threads = A.threads /\ C.count = A.count
          /\ C.entries = Tail(A.entries) /\ C.waiters = Front(A.waiters)
          /\ C.signal = A.signal - 1
      BY <1>1 DEF KQUEUE
    <3>3. C \in KQUEUE
      BY <1>1, <2>5, <2>6, <3>1 DEF KQUEUE
    <3> QED BY <3>1, <3>2, <3>3
  <2>9. WokenFrom(T1[w], W, e)
    <3>1. thread[w] \in KTHREAD /\ e \in Status
      BY <1>1, <2>5, <2>6 DEF Status
    <3> HIDE DEF w, e
    <3>2. WokenFrom(thread[w], W, e)
      BY <3>1 DEF WokenFrom, Readied, KTHREAD
    <3> QED BY <2>7, <3>2
  <2> HIDE DEF w, e, C, W
  <2>10. Same(B, C) /\ C.count = B.count + 1
    BY <1>1, <1>2, <2>8 DEF Same
  <2>11. C.entries = Tail(B.entries) /\ e = Head(B.entries) /\ B.entries # <<>>
    BY <1>2, <2>2, <2>8 DEF e
  <2>12. IsInjective(C.waiters) /\ Range(C.waiters) = Range(B.waiters) \ {w}
    BY <2>5, <2>8
  <2>13. /\ Good([Q1 EXCEPT ![q] = C], [T1 EXCEPT ![w] = W])
         /\ Kept(Q1, T1, [Q1 EXCEPT ![q] = C], [T1 EXCEPT ![w] = W])
         /\ Quiet(T1, [T1 EXCEPT ![w] = W])
    BY <1>4, <2>3, <2>5, <2>8, <2>9, <2>10, <2>11, <2>12, WakeStep
  <2>14. [Q1 EXCEPT ![q] = C] = Q2 /\ [T1 EXCEPT ![w] = W] = T2
    BY <1>1, <2>1, <2>5, <2>7 DEF Q1, T1
  <2>15. Kept(queue, thread, Q2, T2)
    BY <1>4, <2>13, <2>14, KeptOn
  <2>16. Quiet(thread, T2)
    BY <1>4, <2>13, <2>14 DEF Quiet
  <2> QED BY <2>13, <2>14, <2>15, <2>16
<1> QED BY <1>5, <1>6

(* A thread that works on joins a queue. *)
LEMMA JoinStep ==
    ASSUME NEW Q, NEW T, NEW q \in Queue, NEW t \in Thread, NEW S \in KTHREAD,
           NEW B \in KQUEUE,
           Good(Q, T), Q[q].live, T[t].queue = NoQueue,
           T[t].in = "outside", ~T[t].blocked,
           Placed(S), S.in = "outside", ~S.blocked, S.queue = q, S.result = NoStatus,
           QuietAs(T[t], S),
           B.live = Q[q].live, B.threads = Append(Q[q].threads, t), B.count = Q[q].count + 1,
           B.waiters = Q[q].waiters, B.entries = Q[q].entries, B.signal = Q[q].signal
    PROVE  LET Q2 == [Q EXCEPT ![q] = B]
               T2 == [T EXCEPT ![t] = S]
           IN  Good(Q2, T2) /\ Kept(Q, T, Q2, T2) /\ Quiet(T, T2)
<1> DEFINE A == Q[q]
           R == T[t]
           Q2 == [Q EXCEPT ![q] = B]
           T2 == [T EXCEPT ![t] = S]
<1>1. Q \in [Queue -> KQUEUE] /\ T \in [Thread -> KTHREAD] /\ A \in KQUEUE /\ q # NoQueue
  BY KeQueueAssumption DEF Good
<1>2. /\ A.count \in Nat /\ A.threads \in Seq(Thread) /\ IsInjective(A.threads)
      /\ A.signal = Len(A.entries) /\ IsInjective(A.waiters)
  BY QueueFacts
<1>3. t \notin Range(A.threads)
  BY <1>1, ThreadsAre
<1>4. t \notin Range(A.waiters)
  BY <1>1, WaitersAre
<1>5. /\ Append(A.threads, t) \in Seq(Thread) /\ IsInjective(Append(A.threads, t))
      /\ Range(Append(A.threads, t)) = Range(A.threads) \cup {t}
  BY <1>2, <1>3, AppendLinks
<1>6. /\ B.live = A.live /\ B.threads = Append(A.threads, t)
      /\ B.waiters = A.waiters /\ B.entries = A.entries /\ B.signal = A.signal
      /\ B.count = A.count + 1
  OBVIOUS
<1>7. Q2[q] = B /\ T2[t] = S /\ Beside(Q, T, Q2, T2, q, t)
  BY <1>1, <1>6 DEF Beside
<1>8. ~Counts(R, q) /\ Counts(S, q) /\ ~Waits(S, q)
  BY <1>1 DEF Counts, Waits
<1>9. S.status = NoStatus /\ R.status = NoStatus /\ NoStatus \notin Entry
  BY KeQueueAssumption DEF Placed, Good
<1> HIDE DEF A, R
<1>10. Relisted(A, B, R, S, q, t)
  <2>1. B.count = A.count - Share(R, q) + Share(S, q)
    BY <1>2, <1>6, <1>8 DEF Share
  <2> QED BY <1>2, <1>4, <1>5, <1>6, <1>8, <2>1 DEF Relisted, A
<1>11. KeepsEntries(A, B, R, S) /\ GivesUp(R, S)
  BY <1>6, <1>9 DEF KeepsEntries, GivesUp, Holds, R
<1> HIDE DEF Q2, T2
<1>12. Moves(Q, T, Q2, T2, q, t)
  <2>1. T[t].queue \in {q, NoQueue} /\ T2[t].queue \in {q, NoQueue} /\ Placed(T2[t])
    BY <1>7
  <2> QED BY <1>7, <1>10, <1>11, <2>1 DEF Moves, A, R
<1>13. Good(Q2, T2) /\ Kept(Q, T, Q2, T2)
  BY <1>12, MoveStep
<1>14. Quiet(T, T2)
  BY <1>1, QuietMove DEF T2
<1> QED BY <1>13, <1>14 DEF Q2, T2

-----------------------------------------------------------------------------
(* The loop of KeRemoveQueue, by a thread that its queue counts again.     *)
AtPass(Q, T, q, t) ==
    /\ T[t].queue = q /\ ~T[t].blocked
    /\ T[t].in \in {"outside", "relock"} /\ T[t].result = NoStatus

LEMMA PassMoves ==
    ASSUME NEW Q, NEW T, NEW Q2, NEW T2, NEW q \in Queue, NEW t \in Thread, NEW S, NEW B,
           Good(Q, T), AtPass(Q, T, q, t), Beside(Q, T, Q2, T2, q, t),
           Q2[q] = B, T2[t] = S,
           Placed(S), S.queue = q, S.blocked = FALSE,
           Same(Q[q], B), B.signal = Len(B.entries),
           \/ /\ S.in = "waiting" /\ B.waiters = Append(Q[q].waiters, t)
              /\ B.count = Q[q].count - 1
           \/ /\ S.in # "waiting" /\ B.waiters = Q[q].waiters /\ B.count = Q[q].count,
           \/ B.entries = Q[q].entries /\ Holds(S) = {}
           \/ TakesFirst(Q[q], B, S) /\ Holds(S) # {}
    PROVE  Good(Q2, T2) /\ Kept(Q, T, Q2, T2)
<1> DEFINE A == Q[q]
           R == T[t]
<1>1. q # NoQueue /\ R \in KTHREAD /\ Placed(R) /\ R.queue = q /\ R.in # "waiting" /\ ~R.blocked
  BY KeQueueAssumption DEF Good, AtPass
<1>2. Counts(R, q) /\ (Counts(S, q) <=> S.in # "waiting") /\ (Waits(S, q) <=> S.in = "waiting")
  BY <1>1 DEF Counts, Waits
<1>3. A.live /\ A.count \in Nat
  BY <1>1, <1>2, CountsOne
<1>4. /\ A.waiters \in Seq(Thread) /\ IsInjective(A.waiters) /\ IsInjective(A.threads)
  BY <1>3, QueueFacts
<1>5. t \in Range(A.threads)
  BY <1>1, <1>3, ThreadsAre
<1>6. t \notin Range(A.waiters)
  BY <1>1, <1>3, WaitersAre
<1>7. Holds(R) = {}
  BY <1>1, KeQueueAssumption DEF Placed, Holds, AtPass
<1> HIDE DEF A, R
<1>8. B.live /\ B.threads = A.threads /\ Range(B.threads) = Range(A.threads) \cup {t}
  BY <1>3, <1>5 DEF Same, A
<1>9. /\ IsInjective(B.waiters)
      /\ Range(B.waiters) = IF S.in = "waiting" THEN Range(A.waiters) \cup {t}
                                                ELSE Range(A.waiters) \ {t}
  <2>1. CASE S.in = "waiting"
    <3>1. B.waiters = Append(A.waiters, t)
      BY <2>1 DEF A
    <3>2. /\ IsInjective(Append(A.waiters, t))
          /\ Range(Append(A.waiters, t)) = Range(A.waiters) \cup {t}
      BY <1>4, <1>6, AppendLinks
    <3> QED BY <2>1, <3>1, <3>2
  <2>2. CASE S.in # "waiting"
    BY <1>4, <1>6, <2>2 DEF A
  <2> QED BY <2>1, <2>2
<1>10. B.count = A.count - Share(R, q) + Share(S, q)
  <2>1. Share(R, q) = 1 /\ Share(S, q) = IF S.in = "waiting" THEN 0 ELSE 1
    BY <1>2 DEF Share
  <2> QED BY <1>3, <2>1 DEF A
<1>11. Relisted(A, B, R, S, q, t)
  BY <1>2, <1>3, <1>4, <1>8, <1>9, <1>10 DEF Relisted
<1>12. \/ KeepsEntries(A, B, R, S) /\ GivesUp(R, S)
       \/ TakesFirst(A, B, S) /\ Holds(R) = {} /\ Holds(S) # {}
  BY <1>7 DEF KeepsEntries, GivesUp, A
<1>13. Moves(Q, T, Q2, T2, q, t)
  <2>1. T[t].queue \in {q, NoQueue} /\ T2[t].queue \in {q, NoQueue} /\ Placed(T2[t])
    BY <1>1 DEF R
  <2> QED BY <1>11, <1>12, <2>1 DEF Moves, A, R
<1> QED BY <1>13, MoveStep

(* The queue without the thread's own count, as the loop decreases it.     *)
Lowered(A, B) ==
    /\ A \in KQUEUE /\ A.count = B.count - 1
    /\ Same(A, B) /\ A.waiters = B.waiters /\ A.entries = B.entries /\ A.signal = B.signal

LEMMA PassStep ==
    ASSUME NEW Q, NEW T, NEW q \in Queue, NEW t \in Thread, NEW A,
           NEW Queues \in [Queue -> KQUEUE], NEW Threads \in [Thread -> KTHREAD],
           Good(Q, T), AtPass(Q, T, q, t),
           \A p \in Queue : p # q => Queues[p] = Q[p],
           \A u \in Thread : u # t => Threads[u] = T[u],
           Lowered(A, Q[q]),
           Pass(t, q, T[t], A, Queues, Threads)
    PROVE  Good(queue', thread') /\ Kept(Q, T, queue', thread')
<1> DEFINE R == T[t]
<1>1. /\ q # NoQueue /\ R \in KTHREAD /\ Placed(R) /\ R.queue = q /\ R.blocked = FALSE
      /\ R.in \in {"outside", "relock"} /\ R.result = NoStatus
      /\ R.status = NoStatus /\ ~R.wrQueue /\ ~R.timer /\ NoStatus \notin Entry
  BY KeQueueAssumption DEF Good, AtPass, Placed
<1>2. /\ Q[q].live /\ Q[q].count \in Nat /\ Q[q].count > 0
  <2>1. Counts(R, q)
    BY <1>1 DEF Counts
  <2> QED BY <2>1, CountsOne
<1>3. /\ Q[q].signal = Len(Q[q].entries) /\ Q[q].signal \in Nat
      /\ Q[q].entries \in Seq(Entry) /\ Q[q].waiters \in Seq(Thread)
  BY <1>2, QueueFacts
<1>4. /\ A \in KQUEUE /\ A.live /\ A.count + 1 = Q[q].count /\ A.count \in Nat
      /\ A.threads = Q[q].threads /\ A.waiters = Q[q].waiters
      /\ A.entries = Q[q].entries /\ A.signal = Q[q].signal
  BY <1>2 DEF Lowered, Same
<1>5. ASSUME NEW S, NEW B, S \in KTHREAD, B \in KQUEUE,
             thread' = [Threads EXCEPT ![t] = S], queue' = [Queues EXCEPT ![q] = B]
      PROVE  queue'[q] = B /\ thread'[t] = S /\ Beside(Q, T, queue', thread', q, t)
  BY <1>5 DEF Beside
<1> DEFINE c == A.count + 1
<1>6. c \in Nat /\ c = Q[q].count
  BY <1>4
<1>7. CASE /\ A.entries # <<>>
           /\ thread' = [Threads EXCEPT ![t] =
                 [R EXCEPT !.in = "outside", !.timed = FALSE, !.result = Head(A.entries)]]
           /\ queue' = [Queues EXCEPT ![q] =
                 [A EXCEPT !.signal = A.signal - 1, !.count = A.count + 1, !.entries = Tail(A.entries)]]
  <2> DEFINE e == Head(A.entries)
             rest == Tail(A.entries)
             n == A.signal - 1
             S == [R EXCEPT !.in = "outside", !.timed = FALSE, !.result = e]
             B == [A EXCEPT !.signal = n, !.count = c, !.entries = rest]
  <2>1. e \in Entry /\ rest \in Seq(Entry) /\ n \in Nat /\ n = Len(rest)
    BY <1>3, <1>4, <1>7
  <2>2. S \in KTHREAD /\ Placed(S) /\ S.queue = q /\ S.blocked = FALSE /\ Holds(S) = {e}
        /\ S.in = "outside"
    <3>1. e \in Status
      BY <2>1 DEF Status
    <3> HIDE DEF e, R
    <3>2. /\ S \in KTHREAD /\ S.queue = q /\ S.blocked = FALSE /\ S.in = "outside"
          /\ S.status = NoStatus /\ S.result = e /\ ~S.wrQueue /\ ~S.timer
      BY <1>1, <3>1 DEF KTHREAD
    <3> HIDE DEF S
    <3> QED BY <1>1, <2>1, <3>2 DEF Placed, Holds
  <2>3. /\ B \in KQUEUE /\ B.live /\ B.threads = A.threads /\ B.waiters = A.waiters
        /\ B.entries = rest /\ B.signal = n /\ B.count = c
    <3> HIDE DEF rest, n, c
    <3> QED BY <1>4, <1>6, <2>1 DEF KQUEUE
  <2> HIDE DEF S, B
  <2>4. queue'[q] = B /\ thread'[t] = S /\ Beside(Q, T, queue', thread', q, t)
    BY <1>5, <1>7, <2>2, <2>3 DEF S, B
  <2>5. TakesFirst(Q[q], B, S) /\ Holds(S) # {}
    BY <1>4, <1>7, <2>2, <2>3 DEF TakesFirst
  <2>6. Same(Q[q], B) /\ B.signal = Len(B.entries) /\ B.waiters = Q[q].waiters
        /\ B.count = Q[q].count
    BY <1>2, <1>4, <1>6, <2>1, <2>3 DEF Same
  <2> HIDE DEF c
  <2> QED BY <2>2, <2>4, <2>5, <2>6, PassMoves
<1>8. ASSUME NEW S, S \in KTHREAD, Placed(S), S.queue = q, S.blocked = FALSE, S.in # "waiting",
             Holds(S) = {},
             thread' = [Threads EXCEPT ![t] = S],
             queue' = [Queues EXCEPT ![q] = [A EXCEPT !.count = A.count + 1]]
      PROVE  Good(queue', thread') /\ Kept(Q, T, queue', thread')
  <2> DEFINE B == [A EXCEPT !.count = c]
  <2>1. /\ B \in KQUEUE /\ B.live /\ B.threads = A.threads /\ B.waiters = A.waiters
        /\ B.entries = A.entries /\ B.signal = A.signal /\ B.count = c
    <3> HIDE DEF c
    <3> QED BY <1>4, <1>6 DEF KQUEUE
  <2>2. queue' = [Queues EXCEPT ![q] = B]
    BY <1>8
  <2> HIDE DEF B, c
  <2>3. queue'[q] = B /\ thread'[t] = S /\ Beside(Q, T, queue', thread', q, t)
    BY <1>5, <1>8, <2>1, <2>2
  <2>4. Same(Q[q], B) /\ B.signal = Len(B.entries) /\ B.waiters = Q[q].waiters
        /\ B.count = Q[q].count /\ B.entries = Q[q].entries
    BY <1>2, <1>3, <1>4, <1>6, <2>1 DEF Same
  <2> HIDE DEF R
  <2>5. Placed(S) /\ S.queue = q /\ S.blocked = FALSE /\ S.in # "waiting" /\ Holds(S) = {}
    BY <1>8
  <2> QED BY <2>3, <2>4, <2>5, PassMoves
<1>9. CASE /\ thread' = [Threads EXCEPT ![t] = [R EXCEPT !.in = "relock"]]
           /\ queue' = [Queues EXCEPT ![q] = [A EXCEPT !.count = A.count + 1]]
  <2> DEFINE S == [R EXCEPT !.in = "relock"]
  <2>1. /\ S \in KTHREAD /\ S.queue = q /\ S.blocked = FALSE /\ S.in = "relock"
        /\ S.status = NoStatus /\ S.result = NoStatus /\ ~S.wrQueue /\ ~S.timer
    <3> HIDE DEF R
    <3> QED BY <1>1 DEF KTHREAD
  <2>2. thread' = [Threads EXCEPT ![t] = S]
    BY <1>9
  <2> HIDE DEF S
  <2>3. Placed(S) /\ Holds(S) = {}
    BY <1>1, <2>1 DEF Placed, Holds
  <2> QED BY <1>8, <1>9, <2>1, <2>2, <2>3
<1>10. CASE /\ thread' = [Threads EXCEPT ![t] =
                  [R EXCEPT !.in = "outside", !.timed = FALSE, !.result = Timeout]]
            /\ queue' = [Queues EXCEPT ![q] = [A EXCEPT !.count = A.count + 1]]
  <2> DEFINE S == [R EXCEPT !.in = "outside", !.timed = FALSE, !.result = Timeout]
  <2>1. /\ S \in KTHREAD /\ S.queue = q /\ S.blocked = FALSE /\ S.in = "outside"
        /\ S.status = NoStatus /\ S.result = Timeout /\ ~S.wrQueue /\ ~S.timer
    <3>1. Timeout \in Status
      BY DEF Status
    <3> HIDE DEF R
    <3> QED BY <1>1, <3>1 DEF KTHREAD
  <2>2. thread' = [Threads EXCEPT ![t] = S]
    BY <1>10
  <2> HIDE DEF S
  <2>3. Placed(S) /\ Holds(S) = {}
    BY <1>1, <2>1, KeQueueAssumption DEF Placed, Holds
  <2> QED BY <1>8, <1>10, <2>1, <2>2, <2>3
<1>11. CASE /\ thread' = [Threads EXCEPT ![t] =
                  [R EXCEPT !.in = "waiting", !.wrQueue = TRUE, !.timer = R.timed]]
            /\ queue' = [Queues EXCEPT ![q] = [A EXCEPT !.waiters = Append(A.waiters, t)]]
  <2> DEFINE s == Append(A.waiters, t)
             S == [R EXCEPT !.in = "waiting", !.wrQueue = TRUE, !.timer = R.timed]
             B == [A EXCEPT !.waiters = s]
  <2>1. s \in Seq(Thread)
    BY <1>3, <1>4
  <2>2. /\ S \in KTHREAD /\ S.queue = q /\ S.blocked = FALSE /\ S.in = "waiting"
        /\ S.status = NoStatus /\ S.result = NoStatus
    <3> HIDE DEF R
    <3> QED BY <1>1 DEF KTHREAD
  <2>3. /\ B \in KQUEUE /\ B.live /\ B.threads = A.threads /\ B.waiters = s
        /\ B.entries = A.entries /\ B.signal = A.signal /\ B.count = A.count
    <3> HIDE DEF s
    <3> QED BY <1>4, <2>1 DEF KQUEUE
  <2> HIDE DEF S, B
  <2>4. Placed(S) /\ Holds(S) = {}
    BY <1>1, <2>2, KeQueueAssumption DEF Placed, Holds
  <2>5. queue'[q] = B /\ thread'[t] = S /\ Beside(Q, T, queue', thread', q, t)
    BY <1>5, <1>11, <2>2, <2>3 DEF S, B
  <2>6. Same(Q[q], B) /\ B.signal = Len(B.entries) /\ B.waiters = Append(Q[q].waiters, t)
        /\ B.count = Q[q].count - 1 /\ B.entries = Q[q].entries
    <3>1. B.count = Q[q].count - 1
      BY <1>2, <1>4, <2>3
    <3>2. B.waiters = Append(Q[q].waiters, t)
      BY <1>4, <2>3
    <3> HIDE DEF s
    <3>3. Same(Q[q], B) /\ B.signal = Len(B.entries) /\ B.entries = Q[q].entries
      BY <1>2, <1>3, <1>4, <2>3 DEF Same
    <3> QED BY <3>1, <3>2, <3>3
  <2> QED BY <2>2, <2>4, <2>5, <2>6, PassMoves
<1> QED BY <1>7, <1>9, <1>10, <1>11 DEF Pass

-----------------------------------------------------------------------------
(* The routines, from the moves they are made of.                          *)
Steps == Good(queue', thread') /\ Kept(queue, thread, queue', thread')

LEMMA LoweredIs ==
    ASSUME NEW A \in KQUEUE, A.count - 1 \in Nat
    PROVE  Lowered([A EXCEPT !.count = @ - 1], A)
<1> DEFINE c == A.count - 1
           B == [A EXCEPT !.count = c]
<1>1. /\ B \in KQUEUE /\ B.count = c /\ B.live = A.live /\ B.threads = A.threads
      /\ B.waiters = A.waiters /\ B.entries = A.entries /\ B.signal = A.signal
  <2>1. c \in Nat
    OBVIOUS
  <2> HIDE DEF c
  <2> QED BY <2>1 DEF KQUEUE
<1> HIDE DEF B
<1>2. Lowered(B, A)
  BY <1>1 DEF Lowered, Same
<1> QED BY <1>2 DEF B

LEMMA RelockStep ==
    ASSUME Good(queue, thread), NEW t \in Thread, Relock(t)
    PROVE  Steps
<1> DEFINE q == thread[t].queue
           A == [queue[q] EXCEPT !.count = @ - 1]
<1>1. /\ thread[t].in = "relock" /\ ~thread[t].blocked /\ Pass(t, q, thread[t], A, queue, thread)
  BY DEF Relock
<1>2. thread[t] \in KTHREAD /\ Placed(thread[t]) /\ queue \in [Queue -> KQUEUE]
      /\ thread \in [Thread -> KTHREAD]
  BY DEF Good
<1>3. q \in Queue /\ thread[t].result = NoStatus
  BY <1>1, <1>2 DEF KTHREAD, Placed
<1> HIDE DEF q
<1>4. AtPass(queue, thread, q, t) /\ Counts(thread[t], q)
  BY <1>1, <1>3 DEF AtPass, Counts, q
<1>5. Lowered(A, queue[q])
  <2>1. queue[q] \in KQUEUE /\ queue[q].count - 1 \in Nat
    BY <1>2, <1>3, <1>4, CountsOne
  <2> QED BY <2>1, LoweredIs
<1> HIDE DEF A
<1>6. Good(queue', thread') /\ Kept(queue, thread, queue', thread')
  BY <1>1, <1>2, <1>3, <1>4, <1>5, PassStep
<1> QED BY <1>6 DEF Steps

(* What KeRemoveQueue makes of the thread first. *)
Calling(R, q, timed) == [R EXCEPT !.queue = q, !.timed = timed, !.result = NoStatus]

LEMMA CallerIs ==
    ASSUME Good(queue, thread), NEW t \in Thread, Runs(t), NEW q \in Queue \cup {NoQueue},
           NEW timed \in BOOLEAN
    PROVE  LET R == thread[t]
               S == Calling(thread[t], q, timed)
           IN  /\ R \in KTHREAD /\ Placed(R) /\ R.in = "outside" /\ ~R.blocked
               /\ S \in KTHREAD /\ Placed(S) /\ S.queue = q /\ S.in = "outside"
               /\ ~S.blocked /\ S.blocked = R.blocked
               /\ S.result = NoStatus /\ S.status = NoStatus
               /\ Holds(S) = {} /\ GivesUp(R, S) /\ QuietAs(R, S)
<1> DEFINE R == thread[t]
           S == Calling(R, q, timed)
<1>1. R \in KTHREAD /\ Placed(R) /\ R.in = "outside" /\ ~R.blocked
  BY DEF Good, Runs
<1> HIDE DEF R
<1>2. /\ S \in KTHREAD /\ S.queue = q /\ S.in = "outside"
      /\ ~S.blocked /\ S.blocked = R.blocked
      /\ S.result = NoStatus /\ S.status = R.status /\ S.wrQueue = R.wrQueue
      /\ S.timer = R.timer
  BY <1>1 DEF KTHREAD, Status, Calling
<1>3. R.status = NoStatus /\ ~R.wrQueue /\ ~R.timer /\ NoStatus \notin Entry
  BY <1>1, KeQueueAssumption DEF Placed
<1> HIDE DEF S
<1>4. Placed(S) /\ Holds(S) = {}
  BY <1>2, <1>3 DEF Placed, Holds
<1>5. GivesUp(R, S) /\ QuietAs(R, S)
  BY <1>1, <1>2, <1>3 DEF GivesUp, QuietAs, Holds
<1> QED BY <1>1, <1>2, <1>3, <1>4, <1>5 DEF R, S

LEMMA KeRemoveQueueStep ==
    ASSUME Good(queue, thread), NEW t \in Thread, NEW q \in Queue, NEW timed \in BOOLEAN,
           KeRemoveQueue(t, q, timed)
    PROVE  Steps
<1> DEFINE R == thread[t]
           old == R.queue
           S == Calling(R, q, timed)
<1>1. Runs(t) /\ queue[q].live
  BY DEF KeRemoveQueue
<1>2. /\ R \in KTHREAD /\ Placed(R) /\ R.in = "outside" /\ ~R.blocked
      /\ S \in KTHREAD /\ Placed(S) /\ S.queue = q /\ S.in = "outside"
      /\ ~S.blocked /\ S.blocked = R.blocked
      /\ S.result = NoStatus /\ Holds(S) = {} /\ GivesUp(R, S) /\ QuietAs(R, S)
  BY <1>1, CallerIs
<1>3. /\ queue \in [Queue -> KQUEUE] /\ thread \in [Thread -> KTHREAD] /\ queue[q] \in KQUEUE
      /\ q # NoQueue
  BY KeQueueAssumption DEF Good
<1> HIDE DEF S
<1>4. CASE old = q /\ Pass(t, q, S, [queue[q] EXCEPT !.count = @ - 1], queue, thread)
  <2> DEFINE T == [thread EXCEPT ![t] = S]
             A == [queue[q] EXCEPT !.count = @ - 1]
  <2>1. Aside(R, S)
    BY <1>2, <1>4 DEF Aside
  <2>2. Good(queue, T) /\ Kept(queue, thread, queue, T) /\ Quiet(thread, T)
    BY <1>2, <1>3, <2>1, AsideStep, QuietMove
  <2>3. T[t] = S /\ \A u \in Thread : u # t => T[u] = thread[u]
    BY <1>3
  <2> HIDE DEF T
  <2>4. AtPass(queue, T, q, t) /\ Counts(T[t], q)
    BY <1>2, <2>3 DEF AtPass, Counts
  <2>5. Lowered(A, queue[q])
    <3>1. queue[q].count \in Nat /\ queue[q].count > 0
      BY <2>2, <2>4, CountsOne
    <3>2. queue[q].count - 1 \in Nat
      BY <3>1
    <3> QED BY <1>3, <3>2, LoweredIs
  <2>6. Pass(t, q, T[t], A, queue, thread)
    BY <1>4, <2>3
  <2> HIDE DEF A
  <2>7. Good(queue', thread') /\ Kept(queue, T, queue', thread')
    BY <1>3, <2>2, <2>3, <2>4, <2>5, <2>6, PassStep
  <2> QED BY <2>2, <2>7, KeptOn DEF Steps
<1>5. ASSUME NEW Q, NEW T, NEW Threads \in [Thread -> KTHREAD], Good(Q, T),
             Kept(queue, thread, Q, T), Quiet(thread, T),
             Q[q] = queue[q], T[t].queue = NoQueue, T[t].in = "outside", ~T[t].blocked,
             QuietAs(T[t], S), \A u \in Thread : u # t => Threads[u] = T[u],
             Pass(t, q, S, [queue[q] EXCEPT !.threads = Append(@, t)], Q, Threads)
      PROVE  Steps
  <2> DEFINE s == Append(queue[q].threads, t)
             c == queue[q].count + 1
             B == [queue[q] EXCEPT !.threads = s, !.count = c]
             A == [queue[q] EXCEPT !.threads = s]
             Q2 == [Q EXCEPT ![q] = B]
             T2 == [T EXCEPT ![t] = S]
  <2>1. /\ Q \in [Queue -> KQUEUE] /\ T \in [Thread -> KTHREAD]
        /\ c \in Nat /\ queue[q].count = c - 1 /\ s \in Seq(Thread)
    <3>1. Q \in [Queue -> KQUEUE] /\ T \in [Thread -> KTHREAD]
      BY <1>5 DEF Good
    <3>2. queue[q].count \in Nat /\ queue[q].threads \in Seq(Thread)
      BY <1>1, QueueFacts
    <3> QED BY <3>1, <3>2
  <2>2. /\ A \in KQUEUE /\ A.count = queue[q].count /\ A.threads = s
        /\ A.live = queue[q].live /\ A.waiters = queue[q].waiters
        /\ A.entries = queue[q].entries /\ A.signal = queue[q].signal
    <3> HIDE DEF s
    <3> QED BY <1>3, <2>1 DEF KQUEUE
  <2>3. /\ B \in KQUEUE /\ B.count = c /\ B.threads = s
        /\ B.live = queue[q].live /\ B.waiters = queue[q].waiters
        /\ B.entries = queue[q].entries /\ B.signal = queue[q].signal
    <3> HIDE DEF s, c
    <3> QED BY <1>3, <2>1 DEF KQUEUE
  <2>4. Q2[q] = B /\ \A p \in Queue : p # q => Q[p] = Q2[p]
    BY <2>1
  <2>5. T2[t] = S /\ \A u \in Thread : u # t => Threads[u] = T2[u]
    BY <1>5, <2>1
  <2>6. Pass(t, q, T2[t], A, Q, Threads)
    BY <1>5, <2>5
  <2> HIDE DEF A, B
  <2>7. Good(Q2, T2) /\ Kept(Q, T, Q2, T2) /\ Quiet(T, T2)
    <3>1. /\ B \in KQUEUE /\ B.live = Q[q].live /\ B.threads = Append(Q[q].threads, t)
          /\ B.count = Q[q].count + 1 /\ B.waiters = Q[q].waiters
          /\ B.entries = Q[q].entries /\ B.signal = Q[q].signal /\ Q[q].live
      BY <1>1, <1>5, <2>3
    <3>2. /\ S \in KTHREAD /\ Placed(S) /\ S.in = "outside" /\ ~S.blocked
          /\ S.queue = q /\ S.result = NoStatus
      BY <1>2
    <3> HIDE DEF R, s, c
    <3> QED BY <1>5, <3>1, <3>2, JoinStep
  <2>8. Lowered(A, Q2[q])
    <3> HIDE DEF s, c, Q2
    <3> QED BY <2>1, <2>2, <2>3, <2>4 DEF Lowered, Same
  <2> HIDE DEF Q2, T2, s, c
  <2>9. AtPass(Q2, T2, q, t)
    BY <1>2, <2>5 DEF AtPass
  <2>10. Good(queue', thread') /\ Kept(Q2, T2, queue', thread')
    BY <1>5, <2>1, <2>4, <2>5, <2>6, <2>7, <2>8, <2>9, PassStep
  <2>11. Kept(Q, T, queue', thread')
    BY <2>7, <2>10, KeptOn
  <2> QED BY <1>5, <2>10, <2>11, KeptOn DEF Steps
<1>6. CASE /\ old = NoQueue
           /\ Pass(t, q, S, [queue[q] EXCEPT !.threads = Append(@, t)], queue, thread)
  <2>1. Kept(queue, thread, queue, thread) /\ Quiet(thread, thread)
    BY DEF Kept, Quiet
  <2> QED BY <1>2, <1>3, <1>5, <1>6, <2>1
<1>7. CASE /\ old \notin {q, NoQueue}
           /\ LET Old == [queue[old] EXCEPT !.threads = Unlink(@, t)]
              IN  Pass(t, q, S, [queue[q] EXCEPT !.threads = Append(@, t)],
                       [queue EXCEPT ![old] = ActivateWaiter(Old)], ThreadsAfterActivate(Old))
  <2> DEFINE s == Unlink(queue[old].threads, t)
             Old == [queue[old] EXCEPT !.threads = s]
             U == Calling(R, NoQueue, timed)
             Q == [queue EXCEPT ![old] = ActivateWaiter(Old)]
             Threads == ThreadsAfterActivate(Old)
             T == [Threads EXCEPT ![t] = U]
  <2>1. old \in Queue /\ queue[old] \in KQUEUE
    BY <1>2, <1>3, <1>7 DEF KTHREAD
  <2>2. /\ U \in KTHREAD /\ Placed(U) /\ U.queue = NoQueue /\ U.in = "outside"
        /\ ~U.blocked /\ U.result = NoStatus /\ Holds(U) = {} /\ GivesUp(R, U) /\ QuietAs(R, U)
    BY <1>1, CallerIs
  <2>3. Counts(R, old) /\ queue[old].live
    BY <1>2, <2>1, CountsOne DEF Counts
  <2>4. s \in Seq(Thread)
    BY <2>1, <2>3, QueueFacts, UnlinkProperties
  <2>5. StoppedIn(queue[old], Old, R, U, t) /\ Old.count = queue[old].count
    <3> HIDE DEF s
    <3>1. /\ Old \in KQUEUE /\ Old.threads = s /\ Old.live = queue[old].live
          /\ Old.waiters = queue[old].waiters /\ Old.entries = queue[old].entries
          /\ Old.signal = queue[old].signal /\ Old.count = queue[old].count
      BY <2>1, <2>4 DEF KQUEUE
    <3> HIDE DEF Old, U
    <3> QED BY <1>7, <2>2, <3>1 DEF StoppedIn, s
  <2>6. StoppedAs(R, U)
    BY <2>2 DEF StoppedAs
  <2> HIDE DEF U, Old, s
  <2>7. Good(Q, T) /\ Kept(queue, thread, Q, T) /\ Quiet(thread, T)
    BY <2>1, <2>2, <2>3, <2>5, <2>6, YieldStep
  <2>8. T \in [Thread -> KTHREAD] /\ Q[q] = queue[q]
    BY <1>3, <1>7, <2>7 DEF Good
  <2>9. Threads \in [Thread -> KTHREAD]
    <3>1. CASE ~Activates(Old)
      BY <1>3, <3>1 DEF ThreadsAfterActivate
    <3>2. CASE Activates(Old)
      <4> DEFINE w == Last(Old.waiters)
                 e == Head(Old.entries)
      <4>1. Old.waiters \in Seq(Thread) /\ IsInjective(Old.waiters) /\ Old.waiters # <<>>
            /\ Old.entries \in Seq(Entry) /\ Old.entries # <<>>
        BY <2>1, <2>3, <2>5, <3>2, QueueFacts DEF StoppedIn, Activates
      <4>2. w \in Thread /\ e \in Status
        BY <4>1, FrontLinks DEF Status
      <4> HIDE DEF w, e
      <4>3. thread[w] \in KTHREAD
        BY <1>3, <4>2
      <4>4. Readied(thread[w], e) \in KTHREAD
        BY <4>2, <4>3 DEF Readied, KTHREAD
      <4>5. Threads = [thread EXCEPT ![w] = Readied(thread[w], e)]
        BY <3>2 DEF ThreadsAfterActivate, w, e
      <4> QED BY <1>3, <4>4, <4>5
    <3> QED BY <3>1, <3>2
  <2>10. T[t] = U /\ \A u \in Thread : u # t => Threads[u] = T[u]
    BY <2>9
  <2>11. QuietAs(T[t], S)
    BY <1>2, <2>2, <2>10 DEF QuietAs
  <2>12. Pass(t, q, S, [queue[q] EXCEPT !.threads = Append(@, t)], Q, Threads)
    BY <1>7 DEF Old, s
  <2> HIDE DEF Q, T, Threads
  <2> QED BY <1>5, <2>2, <2>7, <2>8, <2>9, <2>10, <2>11, <2>12
<1> QED BY <1>4, <1>6, <1>7 DEF KeRemoveQueue, Calling, S

LEMMA Contained ==
    ASSUME NEW s \in Seq(Entry), NEW e
    PROVE  Contains(s, e) <=> e \in Range(s)
BY DEF Contains, Range

LEMMA InsertStep ==
    ASSUME Good(queue, thread), NEW t \in Thread, NEW q \in Queue, NEW e \in Entry,
           NEW atHead \in BOOLEAN, Insert(t, q, e, atHead)
    PROVE  Steps
<1> DEFINE A == queue[q]
<1>1. /\ queue \in [Queue -> KQUEUE] /\ thread \in [Thread -> KTHREAD] /\ A \in KQUEUE /\ A.live
  BY DEF Insert, Good
<1>2. /\ A.count \in Nat /\ A.signal \in Nat /\ A.signal = Len(A.entries)
      /\ A.entries \in Seq(Entry) /\ IsInjective(A.entries)
      /\ A.waiters \in Seq(Thread) /\ IsInjective(A.waiters)
  BY <1>1, QueueFacts
<1>3. Unheld(queue, thread, e)
  <2>1. Free(e)
    BY DEF Insert
  <2>2. ASSUME NEW p \in Queue PROVE e \notin Range(queue[p].entries)
    <3>1. ~Contains(queue[p].entries, e)
      BY <2>1 DEF Free
    <3>2. queue[p].entries \in Seq(Entry)
      BY <1>1 DEF KQUEUE
    <3> QED BY <3>1, <3>2, Contained
  <2>3. \A u \in Thread : e \notin Holds(thread[u])
    BY <2>1 DEF Free, Holds
  <2> QED BY <2>2, <2>3 DEF Unheld
<1>4. CASE /\ A.waiters # <<>>
           /\ queue' = [queue EXCEPT ![q] = [A EXCEPT !.waiters = Front(A.waiters),
                                                      !.count = A.count + 1]]
           /\ thread' = [thread EXCEPT ![Last(A.waiters)] =
                           [Readied(thread[Last(A.waiters)], e) EXCEPT !.wrQueue = FALSE]]
  <2> DEFINE w == Last(A.waiters)
             f == Front(A.waiters)
             c == A.count + 1
             B == [A EXCEPT !.waiters = f, !.count = c]
             S == [Readied(thread[w], e) EXCEPT !.wrQueue = FALSE]
  <2>1. /\ f \in Seq(Thread) /\ w \in Thread /\ IsInjective(f)
        /\ w \in Range(A.waiters) /\ Range(f) = Range(A.waiters) \ {w}
    BY <1>2, <1>4, FrontLinks
  <2>2. c \in Nat
    BY <1>2
  <2>3. thread' = [thread EXCEPT ![w] = S] /\ queue' = [queue EXCEPT ![q] = B]
    BY <1>4
  <2> HIDE DEF w, f, c
  <2>4. /\ B \in KQUEUE /\ B.count = c /\ B.waiters = f /\ B.live = A.live
        /\ B.threads = A.threads /\ B.entries = A.entries /\ B.signal = A.signal
    BY <1>1, <2>1, <2>2 DEF KQUEUE
  <2>5. WokenFrom(thread[w], S, e)
    <3>1. thread[w] \in KTHREAD /\ e \in Status
      BY <1>1, <2>1 DEF Status
    <3> QED BY <3>1 DEF WokenFrom, Readied, KTHREAD
  <2> HIDE DEF B, S
  <2>6. /\ Same(A, B) /\ B.count = A.count + 1 /\ B.signal = Len(B.entries)
        /\ IsInjective(B.waiters) /\ Range(B.waiters) = Range(A.waiters) \ {w}
    BY <1>2, <2>1, <2>4 DEF Same, c
  <2> QED BY <1>1, <1>3, <2>1, <2>3, <2>4, <2>5, <2>6, WakeStep DEF Steps
<1>5. ASSUME NEW s, s \in Seq(Entry), IsInjective(s), Range(s) = Range(A.entries) \cup {e},
             Len(s) = Len(A.entries) + 1,
             queue' = [queue EXCEPT ![q] = [A EXCEPT !.signal = A.signal + 1, !.entries = s]],
             thread' = thread
      PROVE  Steps
  <2> DEFINE n == A.signal + 1
             B == [A EXCEPT !.signal = n, !.entries = s]
  <2>1. n \in Nat /\ n = Len(s)
    BY <1>2, <1>5
  <2>2. queue' = [queue EXCEPT ![q] = B]
    BY <1>5
  <2> HIDE DEF n
  <2>3. /\ B \in KQUEUE /\ B.count = A.count /\ B.waiters = A.waiters /\ B.live = A.live
        /\ B.threads = A.threads /\ B.entries = s /\ B.signal = n
    BY <1>1, <1>5, <2>1 DEF KQUEUE
  <2>4. /\ queue[q].live /\ B.live /\ B.count = queue[q].count /\ B.threads = queue[q].threads
        /\ B.waiters = queue[q].waiters /\ B.signal = Len(B.entries) /\ IsInjective(B.entries)
        /\ Range(B.entries) = Range(queue[q].entries) \cup {e}
    BY <1>1, <1>5, <2>1, <2>3
  <2> HIDE DEF A, B
  <2>5. Good([queue EXCEPT ![q] = B], thread) /\ Kept(queue, thread, [queue EXCEPT ![q] = B], thread)
    BY <1>3, <2>3, <2>4, EntryStep
  <2> QED BY <1>5, <2>2, <2>5 DEF Steps
<1>6. CASE /\ thread' = thread
           /\ queue' = [queue EXCEPT ![q] =
                 [A EXCEPT !.signal = A.signal + 1,
                           !.entries = IF atHead THEN <<e>> \o A.entries ELSE Append(A.entries, e)]]
  <2>1. e \notin Range(A.entries)
    BY <1>3 DEF Unheld
  <2>2. CASE atHead
    <3> DEFINE s == <<e>> \o A.entries
    <3>1. s \in Seq(Entry) /\ IsInjective(s) /\ Range(s) = Range(A.entries) \cup {e}
      BY <1>2, <2>1, PrependLinks
    <3>2. Len(s) = Len(A.entries) + 1
      BY <1>2
    <3>3. queue' = [queue EXCEPT ![q] = [A EXCEPT !.signal = A.signal + 1, !.entries = s]]
      BY <1>6, <2>2
    <3> HIDE DEF s
    <3> QED BY <1>5, <1>6, <3>1, <3>2, <3>3
  <2>3. CASE ~atHead
    <3> DEFINE s == Append(A.entries, e)
    <3>1. s \in Seq(Entry) /\ IsInjective(s) /\ Range(s) = Range(A.entries) \cup {e}
      BY <1>2, <2>1, AppendLinks
    <3>2. Len(s) = Len(A.entries) + 1
      BY <1>2
    <3>3. queue' = [queue EXCEPT ![q] = [A EXCEPT !.signal = A.signal + 1, !.entries = s]]
      BY <1>6, <2>3
    <3> HIDE DEF s
    <3> QED BY <1>5, <1>6, <3>1, <3>2, <3>3
  <2> QED BY <2>2, <2>3
<1>7. CASE Hands(t, A, q)
  <2>1. A.waiters # <<>>
    BY <1>7 DEF Hands
  <2>2. /\ queue' = [queue EXCEPT ![q].waiters = Front(@), ![q].count = @ + 1]
        /\ thread' = [thread EXCEPT ![Last(A.waiters)] = [Readied(@, e) EXCEPT !.wrQueue = FALSE]]
    BY <1>7 DEF Insert
  <2>3. /\ queue' = [queue EXCEPT ![q] = [A EXCEPT !.waiters = Front(A.waiters),
                                                   !.count = A.count + 1]]
        /\ thread' = [thread EXCEPT ![Last(A.waiters)] =
                        [Readied(thread[Last(A.waiters)], e) EXCEPT !.wrQueue = FALSE]]
    BY <1>1, <2>2
  <2> HIDE DEF A
  <2> QED BY <1>4, <2>1, <2>3
<1>8. CASE ~Hands(t, A, q)
  <2>1. /\ queue' = [queue EXCEPT ![q].signal = @ + 1,
                                  ![q].entries = IF atHead THEN <<e>> \o @ ELSE Append(@, e)]
        /\ thread' = thread
    BY <1>8 DEF Insert
  <2>2. queue' = [queue EXCEPT ![q] =
                 [A EXCEPT !.signal = A.signal + 1,
                           !.entries = IF atHead THEN <<e>> \o A.entries ELSE Append(A.entries, e)]]
    BY <1>1, <2>1
  <2> QED BY <1>6, <2>1, <2>2
<1> QED BY <1>7, <1>8

(* What ends a wait but an entry. *)
LEMMA UnwaitStep ==
    ASSUME Good(queue, thread), NEW t \in Thread, thread[t].in = "waiting",
           NEW status \in {Timeout, KernelApc}, Unwait(t, status)
    PROVE  Steps
<1> DEFINE q == thread[t].queue
           A == queue[q]
           s == Unlink(A.waiters, t)
           c == A.count + 1
           B == [A EXCEPT !.waiters = s, !.count = c]
           S == Readied(thread[t], status)
<1>1. /\ queue \in [Queue -> KQUEUE] /\ thread \in [Thread -> KTHREAD]
      /\ q \in Queue /\ A.live
  BY DEF Good, Placed, KTHREAD
<1>2. thread[t] \in KTHREAD /\ status \in Status /\ status \notin Entry
  BY <1>1, KeQueueAssumption DEF Status
<1>3. thread' = [thread EXCEPT ![t] = S] /\ queue' = [queue EXCEPT ![q] = B]
  BY <1>1 DEF Unwait
<1>4. WokenFrom(thread[t], S, status)
  BY <1>2 DEF WokenFrom, Readied, KTHREAD
<1>5. thread[t].queue = q
  OBVIOUS
<1> HIDE DEF q, S
<1>6. t \in Range(A.waiters)
  BY <1>1, <1>5, WaitersAre
<1>7. /\ A \in KQUEUE /\ A.count \in Nat /\ A.signal = Len(A.entries)
      /\ A.waiters \in Seq(Thread) /\ IsInjective(A.waiters)
  BY <1>1, QueueFacts
<1>8. s \in Seq(Thread) /\ IsInjective(s) /\ Range(s) = Range(A.waiters) \ {t}
  BY <1>7, UnlinkProperties
<1>9. c \in Nat
  BY <1>7
<1> HIDE DEF s, c
<1>10. /\ B \in KQUEUE /\ B.count = c /\ B.waiters = s /\ B.live = A.live
       /\ B.threads = A.threads /\ B.entries = A.entries /\ B.signal = A.signal
  BY <1>7, <1>8, <1>9 DEF KQUEUE
<1> HIDE DEF B
<1>11. /\ Same(A, B) /\ B.count = A.count + 1 /\ B.signal = Len(B.entries)
       /\ IsInjective(B.waiters) /\ Range(B.waiters) = Range(A.waiters) \ {t}
  BY <1>7, <1>8, <1>10 DEF Same, c
<1> QED BY <1>1, <1>2, <1>3, <1>4, <1>6, <1>10, <1>11, WakeStep DEF Steps

LEMMA TimerExpireStep ==
    ASSUME Good(queue, thread), NEW t \in Thread, TimerExpire(t)
    PROVE  Steps
<1>1. thread[t].in = "waiting"
  BY DEF Good, Placed, TimerExpire
<1> QED BY <1>1, UnwaitStep DEF TimerExpire

(* Nothing moves. *)
LEMMA StandsStill ==
    ASSUME Good(queue, thread), UNCHANGED <<queue, thread>>
    PROVE  Steps
BY DEF Steps, Kept

LEMMA InsertKernelApcStep ==
    ASSUME Good(queue, thread), NEW t \in Thread, InsertKernelApc(t)
    PROVE  Steps
BY UnwaitStep, StandsStill DEF InsertKernelApc

LEMMA SwapInStep ==
    ASSUME Good(queue, thread), NEW t \in Thread, SwapIn(t)
    PROVE  Steps
<1> DEFINE R == thread[t]
           S == [R EXCEPT !.in = "swapped", !.result = R.status]
<1>1. thread \in [Thread -> KTHREAD] /\ R \in KTHREAD /\ Placed(R) /\ R.in = "woken"
  BY DEF Good, SwapIn
<1>2. thread' = [thread EXCEPT ![t] = S] /\ queue' = queue
  BY <1>1 DEF SwapIn
<1> HIDE DEF R
<1>3. /\ S \in KTHREAD /\ S.in = "swapped" /\ S.status = R.status /\ S.result = R.status
      /\ S.queue = R.queue /\ S.blocked = R.blocked /\ S.timer = R.timer
  BY <1>1 DEF KTHREAD
<1> HIDE DEF S
<1>4. Aside(R, S)
  BY <1>1, <1>3, KeQueueAssumption DEF Aside, Placed, Holds, GivesUp
<1> QED BY <1>2, <1>4, AsideStep DEF Steps, R

LEMMA ReturnStep ==
    ASSUME Good(queue, thread), NEW t \in Thread, Return(t)
    PROVE  Steps
<1> DEFINE R == thread[t]
<1>1. /\ thread \in [Thread -> KTHREAD] /\ R \in KTHREAD /\ Placed(R)
      /\ R.in = "swapped" /\ ~R.blocked /\ queue' = queue
  BY DEF Good, Return, Leave
<1>2. R.status \in {NoStatus, R.result} /\ ~R.timer /\ R.queue # NoQueue
  BY <1>1 DEF Placed
<1>3. NoStatus \in Status /\ NoStatus \notin Entry /\ KernelApc \notin Entry
  BY KeQueueAssumption DEF Status
<1>4. CASE R.result = KernelApc
  <2> DEFINE S == [R EXCEPT !.in = "relock", !.result = NoStatus, !.wrQueue = FALSE,
                            !.status = NoStatus]
  <2>1. thread' = [thread EXCEPT ![t] = S]
    BY <1>1, <1>4 DEF Return, Leave
  <2> HIDE DEF R
  <2>2. /\ S \in KTHREAD /\ S.in = "relock" /\ S.status = NoStatus /\ S.result = NoStatus
        /\ S.queue = R.queue /\ S.blocked = R.blocked /\ S.timer = R.timer /\ ~S.wrQueue
    BY <1>1, <1>3 DEF KTHREAD
  <2> HIDE DEF S
  <2>3. Aside(R, S)
    BY <1>1, <1>2, <1>3, <1>4, <2>2 DEF Aside, Placed, Holds, GivesUp
  <2> QED BY <1>1, <2>1, <2>3, AsideStep DEF Steps, R
<1>5. CASE R.result # KernelApc
  <2> DEFINE S == [R EXCEPT !.in = "outside", !.result = R.result, !.wrQueue = FALSE,
                            !.status = NoStatus, !.timed = FALSE]
  <2>1. thread' = [thread EXCEPT ![t] = S]
    BY <1>1, <1>5 DEF Return, Leave
  <2> HIDE DEF R
  <2>2. /\ S \in KTHREAD /\ S.in = "outside" /\ S.status = NoStatus /\ S.result = R.result
        /\ S.queue = R.queue /\ S.blocked = R.blocked /\ S.timer = R.timer /\ ~S.wrQueue
    BY <1>1, <1>3 DEF KTHREAD
  <2> HIDE DEF S
  <2>3. Aside(R, S)
    BY <1>1, <1>2, <1>3, <2>2 DEF Aside, Placed, Holds, GivesUp
  <2> QED BY <1>1, <2>1, <2>3, AsideStep DEF Steps, R
<1> QED BY <1>4, <1>5

LEMMA WaitersNow ==
    ASSUME NEW q \in Queue, Good(queue, thread), queue[q].live
    PROVE  \A t : t \in Range(queue[q].waiters) <=>
                  t \in Thread /\ thread[t].queue = q /\ thread[t].in = "waiting"
BY WaitersAre

(* ThreadsAfterActivate leaves a thread alone that does not wait.          *)
LEMMA OthersAfterActivate ==
    ASSUME NEW q \in Queue, NEW A \in KQUEUE, NEW t \in Thread, Good(queue, thread),
           queue[q].live, A.waiters = queue[q].waiters, thread[t].in # "waiting"
    PROVE  ThreadsAfterActivate(A)[t] = thread[t] /\ ThreadsAfterActivate(A) \in [Thread -> KTHREAD]
<1>1. thread \in [Thread -> KTHREAD]
  BY DEF Good
<1>2. CASE ~Activates(A)
  BY <1>1, <1>2 DEF ThreadsAfterActivate
<1>3. CASE Activates(A)
  <2> DEFINE w == Last(A.waiters)
             e == Head(A.entries)
  <2>1. A.waiters \in Seq(Thread) /\ IsInjective(A.waiters) /\ A.waiters # <<>>
        /\ A.entries \in Seq(Entry) /\ A.entries # <<>>
    BY <1>3, QueueFacts DEF Activates, KQUEUE
  <2>2. w \in Thread /\ w \in Range(queue[q].waiters) /\ e \in Status
    <3>1. w \in Thread /\ w \in Range(A.waiters)
      BY <2>1, FrontLinks
    <3>2. e \in Entry
      BY <2>1
    <3> QED BY <3>1, <3>2 DEF Status
  <2>3. ThreadsAfterActivate(A) = [thread EXCEPT ![w] = Readied(thread[w], e)]
    BY <1>3 DEF ThreadsAfterActivate
  <2> HIDE DEF w, e
  <2>4. thread[w].in = "waiting"
    BY <2>2, WaitersNow
  <2>5. Readied(thread[w], e) \in KTHREAD
    <3>1. thread[w] \in KTHREAD
      BY <1>1, <2>2
    <3> QED BY <2>2, <3>1 DEF Readied, KTHREAD
  <2> QED BY <1>1, <2>2, <2>3, <2>4, <2>5
<1> QED BY <1>2, <1>3

(* A thread as it waits for some other object. *)
Blocking(R) == [R EXCEPT !.blocked = TRUE, !.wrQueue = FALSE, !.status = NoStatus]

LEMMA BlockStep ==
    ASSUME Good(queue, thread), NEW t \in Thread, TakesApcs(t), Block(t)
    PROVE  Steps
<1> DEFINE R == thread[t]
           q == R.queue
           S == Blocking(R)
<1>1. /\ thread \in [Thread -> KTHREAD] /\ queue \in [Queue -> KQUEUE]
      /\ R \in KTHREAD /\ Placed(R) /\ ~R.blocked /\ R.in \in {"outside", "swapped", "relock"}
  BY DEF Good, TakesApcs
<1> HIDE DEF R
<1>2. NoStatus \in Status /\ NoStatus \notin Entry /\ NoQueue \notin Queue
  BY KeQueueAssumption DEF Status
<1>3. /\ S \in KTHREAD /\ S.blocked /\ S.in = R.in /\ S.status = NoStatus
      /\ S.result = R.result /\ S.queue = R.queue /\ ~S.wrQueue /\ S.timer = R.timer
  BY <1>1, <1>2 DEF Blocking, KTHREAD
<1> HIDE DEF S
<1>4. Placed(S) /\ Holds(S) \subseteq Holds(R) /\ GivesUp(R, S)
  BY <1>1, <1>2, <1>3 DEF Placed, Holds, GivesUp
<1>5. CASE q = NoQueue
  <2>1. Aside(R, S)
    BY <1>3, <1>4, <1>5 DEF Aside
  <2>2. thread' = [thread EXCEPT ![t] = S] /\ queue' = queue
    BY <1>1, <1>5 DEF Block, Blocking, R, S
  <2> QED BY <2>1, <2>2, AsideStep DEF Steps, R
<1>6. CASE q # NoQueue
  <2> DEFINE A == queue[q]
  <2>1. q \in Queue /\ Counts(R, q)
    BY <1>1, <1>6 DEF KTHREAD, Counts
  <2>2. A.live /\ A \in KQUEUE
    BY <1>1, <2>1, CountsOne DEF R
  <2>3. StoppedAs(R, S) /\ StoppedIn(A, A, R, S, t) /\ QuietAs(R, S)
    BY <1>1, <1>3, <1>4, <2>2 DEF StoppedAs, StoppedIn, QuietAs
  <2>4. queue' = [queue EXCEPT ![q] = ActivateWaiter(A)]
    BY <1>1, <1>6 DEF Block, R
  <2>5. thread' = [ThreadsAfterActivate(A) EXCEPT ![t] = S]
    <3> DEFINE f == ThreadsAfterActivate(A)
    <3>1. f[t] = R /\ f \in [Thread -> KTHREAD]
      BY <1>1, <2>1, <2>2, OthersAfterActivate DEF R
    <3>2. thread' = [f EXCEPT ![t].blocked = TRUE, ![t].wrQueue = FALSE, ![t].status = NoStatus]
      BY <1>6 DEF Block, R
    <3> HIDE DEF f
    <3>3. thread' = [f EXCEPT ![t] = Blocking(f[t])]
      BY <3>1, <3>2 DEF Blocking
    <3> QED BY <3>1, <3>3 DEF S, f
  <2>6. A.count = queue[q].count
    OBVIOUS
  <2>7. LET Q2 == [queue EXCEPT ![q] = ActivateWaiter(A)]
            T2 == [ThreadsAfterActivate(A) EXCEPT ![t] = S]
        IN  Good(Q2, T2) /\ Kept(queue, thread, Q2, T2) /\ Quiet(thread, T2)
    BY <2>1, <2>3, <2>6, YieldStep DEF R
  <2> QED BY <2>4, <2>5, <2>7 DEF Steps
<1> QED BY <1>5, <1>6

LEMMA KeWaitForSingleObjectStep ==
    ASSUME Good(queue, thread), NEW t \in Thread, KeWaitForSingleObject(t)
    PROVE  Steps
BY BlockStep DEF KeWaitForSingleObject, Runs, TakesApcs

LEMMA UnblockStep ==
    ASSUME Good(queue, thread), NEW t \in Thread, Unblock(t)
    PROVE  Steps
<1> DEFINE R == thread[t]
           q == R.queue
           S == [R EXCEPT !.blocked = FALSE]
<1>1. /\ thread \in [Thread -> KTHREAD] /\ queue \in [Queue -> KQUEUE]
      /\ R \in KTHREAD /\ Placed(R) /\ R.blocked
  BY DEF Good, Unblock
<1>2. thread' = [thread EXCEPT ![t] = S]
  BY <1>1 DEF Unblock
<1>3. queue' = IF q = NoQueue THEN queue ELSE [queue EXCEPT ![q].count = @ + 1]
  BY DEF Unblock
<1>4. thread[t] = R /\ R.queue = q
  OBVIOUS
<1> HIDE DEF R, q
<1>5. /\ S \in KTHREAD /\ S.blocked = FALSE /\ S.in = R.in /\ S.status = R.status
      /\ S.result = R.result /\ S.queue = R.queue /\ S.wrQueue = R.wrQueue /\ S.timer = R.timer
  BY <1>1 DEF KTHREAD
<1> HIDE DEF S
<1>6. Placed(S) /\ Holds(S) = Holds(R) /\ GivesUp(R, S)
  BY <1>1, <1>5 DEF Placed, Holds, GivesUp
<1>7. CASE q = NoQueue
  <2>1. Aside(R, S)
    BY <1>4, <1>5, <1>6, <1>7 DEF Aside
  <2> QED BY <1>2, <1>3, <1>4, <1>7, <2>1, AsideStep DEF Steps
<1>8. CASE q # NoQueue
  <2> DEFINE A == queue[q]
             c == A.count + 1
             B == [A EXCEPT !.count = c]
  <2>1. q \in Queue /\ A.live
    BY <1>1, <1>4, <1>8 DEF KTHREAD, Good
  <2>2. queue' = [queue EXCEPT ![q] = B]
    BY <1>1, <1>3, <1>8, <2>1
  <2>3. /\ A \in KQUEUE /\ A.count \in Nat /\ A.signal = Len(A.entries)
        /\ IsInjective(A.threads) /\ IsInjective(A.waiters)
    BY <2>1, QueueFacts
  <2>4. c \in Nat
    BY <2>3
  <2>5. t \in Range(A.threads)
    BY <1>4, <2>1, ThreadsAre
  <2>6. t \notin Range(A.waiters)
    <3>1. thread[t].in # "waiting"
      BY <1>1, <1>4 DEF Placed
    <3> QED BY <2>1, <3>1, WaitersAre
  <2> HIDE DEF c
  <2>7. /\ B \in KQUEUE /\ B.count = c /\ B.waiters = A.waiters /\ B.live = A.live
        /\ B.threads = A.threads /\ B.entries = A.entries /\ B.signal = A.signal
    BY <2>3, <2>4 DEF KQUEUE
  <2> HIDE DEF B
  <2>8. queue'[q] = B /\ thread'[t] = S /\ Beside(queue, thread, queue', thread', q, t)
    BY <1>1, <1>2, <1>5, <2>1, <2>2, <2>7 DEF Beside
  <2>9. ~Counts(R, q) /\ Counts(S, q) /\ ~Waits(S, q) /\ S.queue = q
    BY <1>1, <1>4, <1>5 DEF Counts, Waits, Placed
  <2>10. Relisted(A, B, R, S, q, t)
    <3>1. B.count = A.count - Share(R, q) + Share(S, q)
      BY <2>3, <2>7, <2>9 DEF Share, c
    <3> HIDE DEF A
    <3> QED BY <2>1, <2>3, <2>5, <2>6, <2>7, <2>9, <3>1 DEF Relisted
  <2>11. KeepsEntries(A, B, R, S)
    BY <1>6, <2>7 DEF KeepsEntries
  <2> HIDE DEF A
  <2>12. Moves(queue, thread, queue', thread', q, t)
    <3>1. thread[t].queue \in {q, NoQueue} /\ thread'[t].queue \in {q, NoQueue} /\ Placed(thread'[t])
      BY <1>4, <1>6, <2>8, <2>9
    <3> QED BY <1>4, <1>6, <2>8, <2>10, <2>11, <3>1 DEF Moves, A
  <2>13. Good(queue', thread') /\ Kept(queue, thread, queue', thread')
    BY <2>1, <2>12, MoveStep
  <2> QED BY <2>13 DEF Steps
<1> QED BY <1>7, <1>8

LEMMA DeliverApcStep ==
    ASSUME Good(queue, thread), NEW t \in Thread, DeliverApc(t)
    PROVE  Steps
<1>1. CASE \E q \in Queue, e \in Entry : Insert(t, q, e, FALSE)
  BY <1>1, InsertStep
<1>2. CASE Block(t)
  BY <1>2, BlockStep DEF DeliverApc
<1>3. CASE UNCHANGED <<queue, thread>>
  BY <1>3, StandsStill
<1> QED BY <1>1, <1>2, <1>3 DEF DeliverApc

LEMMA KeTerminateThreadStep ==
    ASSUME Good(queue, thread), NEW t \in Thread, KeTerminateThread(t)
    PROVE  Steps
<1> DEFINE R == thread[t]
           q == R.queue
           S == [R EXCEPT !.in = "exited", !.queue = NoQueue, !.result = NoStatus]
<1>1. /\ thread \in [Thread -> KTHREAD] /\ queue \in [Queue -> KQUEUE]
      /\ R \in KTHREAD /\ Placed(R) /\ ~R.blocked /\ R.in = "outside"
  BY DEF Good, KeTerminateThread, Runs
<1>2. \/ q = NoQueue /\ thread' = [thread EXCEPT ![t] = S] /\ queue' = queue
      \/ /\ q # NoQueue
         /\ LET Q == [queue[q] EXCEPT !.threads = Unlink(@, t)]
            IN  /\ queue' = [queue EXCEPT ![q] = ActivateWaiter(Q)]
                /\ thread' = [ThreadsAfterActivate(Q) EXCEPT ![t] = S]
  BY DEF KeTerminateThread
<1>3. thread[t] = R /\ R.queue = q
  OBVIOUS
<1> HIDE DEF R, q
<1>4. NoStatus \in Status /\ NoStatus \notin Entry /\ NoQueue \notin Queue
  BY KeQueueAssumption DEF Status
<1>5. /\ S \in KTHREAD /\ S.blocked = R.blocked /\ S.in = "exited" /\ S.status = R.status
      /\ S.result = NoStatus /\ S.queue = NoQueue /\ S.wrQueue = R.wrQueue /\ S.timer = R.timer
  BY <1>1, <1>4 DEF KTHREAD
<1> HIDE DEF S
<1>6. Placed(S) /\ Holds(S) = {} /\ GivesUp(R, S)
  BY <1>1, <1>4, <1>5 DEF Placed, Holds, GivesUp
<1>7. CASE q = NoQueue
  <2>1. Aside(R, S)
    BY <1>3, <1>5, <1>6, <1>7 DEF Aside
  <2> QED BY <1>2, <1>3, <1>7, <2>1, AsideStep DEF Steps
<1>8. CASE q # NoQueue
  <2> DEFINE s == Unlink(queue[q].threads, t)
             A == [queue[q] EXCEPT !.threads = s]
  <2>1. queue' = [queue EXCEPT ![q] = ActivateWaiter(A)]
        /\ thread' = [ThreadsAfterActivate(A) EXCEPT ![t] = S]
    BY <1>2, <1>8
  <2>2. q \in Queue /\ Counts(R, q)
    BY <1>1, <1>3, <1>8 DEF KTHREAD, Counts
  <2>3. queue[q].live
    BY <1>3, <2>2, CountsOne
  <2>4. s \in Seq(Thread) /\ queue[q] \in KQUEUE
    BY <2>2, <2>3, QueueFacts, UnlinkProperties
  <2>5. StoppedIn(queue[q], A, R, S, t) /\ A.count = queue[q].count
    <3> HIDE DEF s
    <3>1. /\ A \in KQUEUE /\ A.threads = s /\ A.live = queue[q].live
          /\ A.waiters = queue[q].waiters /\ A.entries = queue[q].entries
          /\ A.signal = queue[q].signal /\ A.count = queue[q].count
      BY <2>4 DEF KQUEUE
    <3> HIDE DEF A
    <3> QED BY <1>3, <1>5, <1>8, <3>1 DEF StoppedIn, s
  <2>6. StoppedAs(R, S) /\ QuietAs(R, S)
    BY <1>5, <1>6 DEF StoppedAs, QuietAs
  <2> HIDE DEF A
  <2>7. LET Q2 == [queue EXCEPT ![q] = ActivateWaiter(A)]
            T2 == [ThreadsAfterActivate(A) EXCEPT ![t] = S]
        IN  Good(Q2, T2) /\ Kept(queue, thread, Q2, T2) /\ Quiet(thread, T2)
    BY <1>3, <2>2, <2>5, <2>6, YieldStep
  <2> QED BY <2>1, <2>7 DEF Steps
<1> QED BY <1>7, <1>8

-----------------------------------------------------------------------------
(* Queues that come and go.                                                *)
LEMMA KeRundownQueueStep ==
    ASSUME Good(queue, thread), NEW q \in Queue, KeRundownQueue(q)
    PROVE  /\ Good(queue', thread')
           /\ \A e \in Entry : Unheld(queue', thread', e) =>
                 Unheld(queue, thread, e) \/ e \in Range(queue[q].entries)
           /\ ~queue'[q].live
<1> DEFINE B == [queue[q] EXCEPT !.live = FALSE, !.threads = <<>>, !.entries = <<>>]
<1>1. /\ queue \in [Queue -> KQUEUE] /\ thread \in [Thread -> KTHREAD] /\ queue[q].live
      /\ \A u \in Thread : thread[u].queue = q => thread[u].in = "outside"
  BY DEF Good, KeRundownQueue, Unreferenced
<1>2. B \in KQUEUE /\ B.live = FALSE /\ B.entries = <<>>
  <2> DEFINE none == <<>>
  <2>1. none \in Seq(Entry) /\ none \in Seq(Thread) /\ queue[q] \in KQUEUE
    BY <1>1
  <2> HIDE DEF none
  <2>2. B = [queue[q] EXCEPT !.live = FALSE, !.threads = none, !.entries = none]
    BY DEF none
  <2> HIDE DEF B
  <2>3. B \in KQUEUE /\ B.live = FALSE /\ B.entries = none
    BY <2>1, <2>2 DEF KQUEUE
  <2> QED BY <2>3 DEF none
<1>3. queue' = [queue EXCEPT ![q] = B]
  BY <1>1 DEF KeRundownQueue
<1> HIDE DEF B
<1>4. /\ queue' \in [Queue -> KQUEUE] /\ queue'[q] = B
      /\ \A p \in Queue : p # q => queue'[p] = queue[p]
  BY <1>1, <1>2, <1>3
<1>5. \A u \in Thread : Contains(queue[q].threads, u) <=> thread[u].queue = q
  <2>1. queue[q].threads \in Seq(Thread)
    BY <1>1, QueueFacts
  <2>2. \A u \in Thread : Contains(queue[q].threads, u) <=> u \in Range(queue[q].threads)
    BY <2>1 DEF Contains, Range
  <2>3. \A u : u \in Range(queue[q].threads) <=> u \in Thread /\ thread[u].queue = q
    BY <1>1, ThreadsAre
  <2> QED BY <2>2, <2>3
<1>6. thread' = [u \in Thread |-> IF Contains(queue[q].threads, u)
                                  THEN [thread[u] EXCEPT !.queue = NoQueue] ELSE thread[u]]
  BY DEF KeRundownQueue
<1>7. ASSUME NEW u \in Thread
      PROVE  /\ thread'[u] \in KTHREAD /\ Placed(thread'[u]) /\ Holds(thread'[u]) = Holds(thread[u])
             /\ thread[u].queue = q => thread'[u].queue = NoQueue
             /\ thread[u].queue # q => thread'[u] = thread[u]
  <2>1. thread[u] \in KTHREAD /\ Placed(thread[u])
    BY DEF Good
  <2>2. CASE thread[u].queue # q
    <3>1. thread'[u] = thread[u]
      BY <1>5, <1>6, <2>2
    <3> QED BY <2>1, <2>2, <3>1
  <2>3. CASE thread[u].queue = q
    <3> DEFINE R == thread[u]
               S == [R EXCEPT !.queue = NoQueue]
    <3>1. thread'[u] = S
      BY <1>5, <1>6, <2>3
    <3>2. R.in = "outside"
      BY <1>1, <2>3
    <3> HIDE DEF R
    <3>3. /\ S \in KTHREAD /\ S.queue = NoQueue /\ S.in = R.in /\ S.blocked = R.blocked
          /\ S.status = R.status /\ S.result = R.result /\ S.wrQueue = R.wrQueue
          /\ S.timer = R.timer
      BY <2>1 DEF KTHREAD, R
    <3> HIDE DEF S
    <3>4. Placed(S) /\ Holds(S) = Holds(R)
      BY <2>1, <3>2, <3>3 DEF Placed, Holds, R
    <3> QED BY <2>3, <3>1, <3>3, <3>4 DEF R
  <2> QED BY <2>2, <2>3
<1>8. thread' \in [Thread -> KTHREAD]
  <2>1. thread' = [u \in Thread |-> thread'[u]]
    BY <1>6
  <2> QED BY <1>7, <2>1
<1>9. NoQueue \notin Queue
  BY KeQueueAssumption
<1>10. \A u \in Thread : thread'[u].queue # NoQueue => queue'[thread'[u].queue].live
  <2> TAKE u \in Thread
  <2>1. thread[u].queue # NoQueue => thread[u].queue \in Queue /\ queue[thread[u].queue].live
    BY DEF Good, KTHREAD
  <2> QED BY <1>4, <1>7, <2>1
<1>11. ASSUME NEW p \in Queue
       PROVE  IF queue'[p].live THEN Listed(thread', p, queue'[p]) ELSE queue'[p].entries = <<>>
  <2>1. CASE p = q
    BY <1>2, <1>4, <2>1
  <2>2. CASE p # q
    <3>1. IF queue[p].live THEN Listed(thread, p, queue[p]) ELSE queue[p].entries = <<>>
      BY DEF Good
    <3>2. \A u \in Thread : thread'[u] = thread[u] \/ (thread'[u].queue # p /\ thread[u].queue # p)
      BY <1>7, <1>9, <2>2
    <3>3. \A u \in Thread : /\ Counts(thread'[u], p) <=> Counts(thread[u], p)
                            /\ thread'[u].queue = p <=> thread[u].queue = p
                            /\ Waits(thread'[u], p) <=> Waits(thread[u], p)
      BY <3>2, Zenon DEF Counts, Waits
    <3>4. /\ NumberActive(thread', p) = NumberActive(thread, p)
          /\ {u \in Thread : thread'[u].queue = p} = {u \in Thread : thread[u].queue = p}
          /\ {u \in Thread : Waits(thread'[u], p)} = {u \in Thread : Waits(thread[u], p)}
      BY <3>3, Zenon DEF NumberActive
    <3>5. queue'[p] = queue[p]
      BY <1>4, <2>2
    <3> QED BY <3>1, <3>4, <3>5, Zenon DEF Listed
  <2> QED BY <2>1, <2>2
<1>12. Range(<<>>) = {} /\ IsInjective(<<>>)
  BY DEF Range, IsInjective
<1>13. OnePlace(queue', thread')
  <2>1. OnePlace(queue, thread)
    BY DEF Good
  <2>2. \A p \in Queue : /\ IsInjective(queue'[p].entries)
                         /\ Range(queue'[p].entries) \subseteq Range(queue[p].entries)
    BY <1>2, <1>4, <1>12, <2>1 DEF OnePlace
  <2>3. \A u \in Thread : Holds(thread'[u]) = Holds(thread[u])
    BY <1>7
  <2> HIDE DEF Holds
  <2> QED BY <2>1, <2>2, <2>3 DEF OnePlace
<1>14. Good(queue', thread')
  BY <1>4, <1>7, <1>8, <1>10, <1>11, <1>13, Zenon DEF Good
<1>15. \A e \in Entry : Unheld(queue', thread', e) =>
          Unheld(queue, thread, e) \/ e \in Range(queue[q].entries)
  BY <1>4, <1>7 DEF Unheld
<1> QED BY <1>2, <1>4, <1>14, <1>15

LEMMA KeInitializeQueueStep ==
    ASSUME Good(queue, thread), NEW q \in Queue, KeInitializeQueue(q)
    PROVE  Steps
<1>1. /\ queue \in [Queue -> KQUEUE] /\ thread \in [Thread -> KTHREAD]
      /\ ~queue[q].live /\ queue[q].entries = <<>>
      /\ queue' = [queue EXCEPT ![q] = NewQueue] /\ thread' = thread
  BY DEF Good, KeInitializeQueue
<1>2. /\ NewQueue \in KQUEUE /\ NewQueue.live /\ NewQueue.count = 0 /\ NewQueue.signal = 0
      /\ NewQueue.entries = <<>> /\ NewQueue.waiters = <<>> /\ NewQueue.threads = <<>>
  BY DEF NewQueue, KQUEUE
<1> DEFINE N == NewQueue
<1> HIDE DEF N
<1>3. /\ queue' \in [Queue -> KQUEUE] /\ queue'[q] = N
      /\ \A p \in Queue : p # q => queue'[p] = queue[p]
      /\ \A p \in Queue : queue'[p].entries = queue[p].entries
  BY <1>1, <1>2 DEF N
<1>4. \A u \in Thread : thread[u].queue # q /\ (thread[u].queue # NoQueue =>
          thread[u].queue \in Queue /\ queue[thread[u].queue].live)
  BY <1>1, KeQueueAssumption DEF Good, KTHREAD
<1>5. Listed(thread, q, N)
  <2>1. \A u \in Thread : thread[u].queue # q /\ ~Counts(thread[u], q) /\ ~Waits(thread[u], q)
    BY <1>4 DEF Counts, Waits
  <2>2. NumberActive(thread, q) = 0
    <3>1. {u \in Thread : Counts(thread[u], q)} = {}
      BY <2>1, Zenon
    <3>2. Cardinality({}) = 0
      BY FS_EmptySet
    <3> QED BY <3>1, <3>2, Zenon DEF NumberActive
  <2>3. {u \in Thread : thread[u].queue = q} = {} /\ {u \in Thread : Waits(thread[u], q)} = {}
    BY <2>1, Zenon
  <2>4. Range(<<>>) = {} /\ IsInjective(<<>>) /\ Len(<<>>) = 0
    BY DEF Range, IsInjective
  <2>5. /\ N.count = 0 /\ N.signal = 0 /\ N.entries = <<>> /\ N.waiters = <<>> /\ N.threads = <<>>
    BY <1>2 DEF N
  <2> QED BY <2>2, <2>3, <2>4, <2>5, Zenon DEF Listed
<1>6. \A p \in Queue : IF queue'[p].live THEN Listed(thread, p, queue'[p])
                                         ELSE queue'[p].entries = <<>>
  <2> TAKE p \in Queue
  <2>1. CASE p = q
    BY <1>2, <1>3, <1>5, <2>1, Zenon DEF N
  <2>2. CASE p # q
    BY <1>3, <2>2, Zenon DEF Good
  <2> QED BY <2>1, <2>2
<1>7. OnePlace(queue', thread)
  <2>1. OnePlace(queue, thread)
    BY DEF Good
  <2> QED BY <1>3, <2>1, Zenon DEF OnePlace
<1>8. \A u \in Thread : thread[u].queue # NoQueue => queue'[thread[u].queue].live
  BY <1>3, <1>4
<1>9. Good(queue', thread)
  BY <1>1, <1>3, <1>6, <1>7, <1>8, Zenon DEF Good
<1>10. Kept(queue, thread, queue', thread)
  BY <1>3, Zenon DEF Kept, Unheld
<1> QED BY <1>1, <1>9, <1>10 DEF Steps

-----------------------------------------------------------------------------
(* The invariant of the specification. *)
QueueInv == Good(queue, thread) /\ kernelApc \in [Thread -> BOOLEAN]

LEMMA InitGood == Init => QueueInv
<1> SUFFICES ASSUME Init PROVE QueueInv
  OBVIOUS
<1> DEFINE N == NewQueue
           S == [in |-> "outside", blocked |-> FALSE, queue |-> NoQueue, wrQueue |-> FALSE,
                 status |-> NoStatus, result |-> NoStatus, timed |-> FALSE, timer |-> FALSE]
<1>1. queue = [q \in Queue |-> N] /\ thread = [t \in Thread |-> S]
  BY DEF Init
<1>2. /\ N \in KQUEUE /\ N.live /\ N.count = 0 /\ N.signal = 0
      /\ N.entries = <<>> /\ N.waiters = <<>> /\ N.threads = <<>>
  BY DEF NewQueue, KQUEUE
<1>3. NoStatus \in Status /\ NoStatus \notin Entry /\ NoQueue \notin Queue
  BY KeQueueAssumption DEF Status
<1>4. /\ S \in KTHREAD /\ S.in = "outside" /\ ~S.blocked /\ S.queue = NoQueue /\ ~S.wrQueue
      /\ S.status = NoStatus /\ S.result = NoStatus /\ ~S.timer
  BY <1>3 DEF KTHREAD
<1> HIDE DEF N, S
<1>5. Placed(S) /\ Holds(S) = {}
  BY <1>3, <1>4 DEF Placed, Holds
<1>6. \A q \in Queue : queue[q] = N
  BY <1>1
<1>7. \A t \in Thread : thread[t] = S
  BY <1>1
<1>8. Range(<<>>) = {} /\ IsInjective(<<>>) /\ Len(<<>>) = 0 /\ Cardinality({}) = 0
  BY FS_EmptySet DEF Range, IsInjective
<1>9. ASSUME NEW q \in Queue PROVE Listed(thread, q, N)
  <2>1. \A u \in Thread : thread[u].queue # q /\ ~Counts(thread[u], q) /\ ~Waits(thread[u], q)
    BY <1>3, <1>4, <1>7 DEF Counts, Waits
  <2>2. NumberActive(thread, q) = 0
    <3>1. {u \in Thread : Counts(thread[u], q)} = {}
      BY <2>1, Zenon
    <3> QED BY <1>8, <3>1, Zenon DEF NumberActive
  <2>3. {u \in Thread : thread[u].queue = q} = {} /\ {u \in Thread : Waits(thread[u], q)} = {}
    BY <2>1, Zenon
  <2> QED BY <1>2, <1>8, <2>2, <2>3, Zenon DEF Listed
<1>10. OnePlace(queue, thread)
  <2>1. \A q \in Queue : IsInjective(queue[q].entries) /\ Range(queue[q].entries) = {}
    BY <1>2, <1>6, <1>8
  <2>2. \A t \in Thread : Holds(thread[t]) = {}
    BY <1>5, <1>7
  <2> HIDE DEF Holds
  <2> QED BY <2>1, <2>2 DEF OnePlace
<1>11. queue \in [Queue -> KQUEUE] /\ thread \in [Thread -> KTHREAD]
  BY <1>1, <1>2, <1>4
<1>12. Good(queue, thread)
  BY <1>2, <1>4, <1>5, <1>6, <1>7, <1>9, <1>10, <1>11, Zenon DEF Good
<1> QED BY <1>12 DEF QueueInv, Init

(* The entries a step takes from queue and threads alike. *)
LosesNone ==
    \A e \in Entry : Unheld(queue', thread', e) =>
        \/ Unheld(queue, thread, e) \/ Done(thread, e)
        \/ \E q \in Queue : e \in Range(queue[q].entries) /\ ~queue'[q].live

LEMMA NextGood == QueueInv /\ [Next]_vars => QueueInv' /\ LosesNone
<1> SUFFICES ASSUME QueueInv, [Next]_vars PROVE QueueInv' /\ LosesNone
  OBVIOUS
<1>1. Good(queue, thread) /\ kernelApc \in [Thread -> BOOLEAN]
  BY DEF QueueInv
<1>2. ASSUME Steps PROVE Good(queue', thread') /\ LosesNone
  BY <1>2 DEF Steps, Kept, LosesNone
<1>3. ASSUME NEW t \in Thread, NEW q \in Queue, NEW e \in Entry, NEW atHead \in BOOLEAN,
             KeInsertQueue(t, q, e, atHead)
      PROVE  QueueInv' /\ LosesNone
  <2>1. Steps
    BY <1>1, <1>3, InsertStep DEF KeInsertQueue
  <2> QED BY <1>1, <1>2, <1>3, <2>1 DEF KeInsertQueue, QueueInv
<1>4. ASSUME NEW t \in Thread, NEW q \in Queue, NEW timed \in BOOLEAN, KeRemoveQueue(t, q, timed)
      PROVE  QueueInv' /\ LosesNone
  <2>1. Steps
    BY <1>1, <1>4, KeRemoveQueueStep
  <2> QED BY <1>1, <1>2, <1>4, <2>1 DEF KeRemoveQueue, QueueInv
<1>5. ASSUME NEW t \in Thread, SwapIn(t) PROVE QueueInv' /\ LosesNone
  <2>1. Steps
    BY <1>1, <1>5, SwapInStep
  <2> QED BY <1>1, <1>2, <1>5, <2>1 DEF SwapIn, QueueInv
<1>6. ASSUME NEW t \in Thread, Return(t) PROVE QueueInv' /\ LosesNone
  <2>1. Steps
    BY <1>1, <1>6, ReturnStep
  <2> QED BY <1>1, <1>2, <1>6, <2>1 DEF Return, Leave, QueueInv
<1>7. ASSUME NEW t \in Thread, Relock(t) PROVE QueueInv' /\ LosesNone
  <2>1. Steps
    BY <1>1, <1>7, RelockStep
  <2> QED BY <1>1, <1>2, <1>7, <2>1 DEF Relock, QueueInv
<1>8. ASSUME NEW t \in Thread, TimerExpire(t) PROVE QueueInv' /\ LosesNone
  <2>1. Steps
    BY <1>1, <1>8, TimerExpireStep
  <2> QED BY <1>1, <1>2, <1>8, <2>1 DEF TimerExpire, QueueInv
<1>9. ASSUME NEW t \in Thread, InsertKernelApc(t) PROVE QueueInv' /\ LosesNone
  <2>1. Steps
    BY <1>1, <1>9, InsertKernelApcStep
  <2>2. kernelApc' \in [Thread -> BOOLEAN]
    BY <1>1, <1>9 DEF InsertKernelApc
  <2> QED BY <1>2, <2>1, <2>2 DEF QueueInv
<1>10. ASSUME NEW t \in Thread, DeliverApc(t) PROVE QueueInv' /\ LosesNone
  <2>1. Steps
    BY <1>1, <1>10, DeliverApcStep
  <2>2. kernelApc' \in [Thread -> BOOLEAN]
    BY <1>1, <1>10 DEF DeliverApc
  <2> QED BY <1>2, <2>1, <2>2 DEF QueueInv
<1>11. ASSUME NEW t \in Thread, KeWaitForSingleObject(t) PROVE QueueInv' /\ LosesNone
  <2>1. Steps
    BY <1>1, <1>11, KeWaitForSingleObjectStep
  <2> QED BY <1>1, <1>2, <1>11, <2>1 DEF KeWaitForSingleObject, QueueInv
<1>12. ASSUME NEW t \in Thread, Unblock(t) PROVE QueueInv' /\ LosesNone
  <2>1. Steps
    BY <1>1, <1>12, UnblockStep
  <2> QED BY <1>1, <1>2, <1>12, <2>1 DEF Unblock, QueueInv
<1>13. ASSUME NEW t \in Thread, KeTerminateThread(t) PROVE QueueInv' /\ LosesNone
  <2>1. Steps
    BY <1>1, <1>13, KeTerminateThreadStep
  <2> QED BY <1>1, <1>2, <1>13, <2>1 DEF KeTerminateThread, QueueInv
<1>14. ASSUME NEW q \in Queue, KeRundownQueue(q) PROVE QueueInv' /\ LosesNone
  <2>1. /\ Good(queue', thread') /\ ~queue'[q].live
        /\ \A e \in Entry : Unheld(queue', thread', e) =>
              Unheld(queue, thread, e) \/ e \in Range(queue[q].entries)
    BY <1>1, <1>14, KeRundownQueueStep
  <2>2. LosesNone
    BY <2>1, Zenon DEF LosesNone
  <2> QED BY <1>1, <1>14, <2>1, <2>2 DEF KeRundownQueue, QueueInv
<1>15. ASSUME NEW q \in Queue, KeInitializeQueue(q) PROVE QueueInv' /\ LosesNone
  <2>1. Steps
    BY <1>1, <1>15, KeInitializeQueueStep
  <2> QED BY <1>1, <1>2, <1>15, <2>1 DEF KeInitializeQueue, QueueInv
<1>16. CASE UNCHANGED vars
  <2>1. queue' = queue /\ thread' = thread /\ kernelApc' = kernelApc
    BY <1>16 DEF vars
  <2>2. Steps
    BY <1>1, <2>1, StandsStill
  <2> QED BY <1>1, <1>2, <2>1, <2>2 DEF QueueInv
<1>17. \A t \in Thread : Uses[t] \subseteq Queue
  BY KeQueueAssumption
<1> QED BY <1>3, <1>4, <1>5, <1>6, <1>7, <1>8, <1>9, <1>10, <1>11, <1>12, <1>13, <1>14, <1>15,
           <1>16, <1>17 DEF Next

LEMMA QueuesGood == Spec => []QueueInv
BY InitGood, NextGood, PTL DEF Spec

-----------------------------------------------------------------------------
(* What the routines do to entries that wait beside waiters, and to the    *)
(* count of a queue whose thread gets an entry.                            *)
Strand(A) == A.entries # <<>> /\ A.waiters # <<>> /\ A.count < Maximum

StrandsNone == \A p \in Queue : Strand(queue'[p]) => Strand(queue[p])

Limits ==
    \A u \in Thread, p \in Queue :
        Holds(thread[u]) = {} /\ Holds(thread'[u]) # {} /\ thread'[u].queue = p =>
            queue'[p].count <= Maximum

LEMMA YieldBounds ==
    ASSUME Good(queue, thread), NEW q \in Queue, queue[q].live, NEW A \in KQUEUE,
           A.waiters = queue[q].waiters, A.entries = queue[q].entries, A.count = queue[q].count
    PROVE  /\ Strand(ActivateWaiter(A)) => Strand(queue[q])
           /\ \A u \in Thread :
                 \/ ThreadsAfterActivate(A)[u] = thread[u]
                 \/ ThreadsAfterActivate(A)[u].queue = q /\ ActivateWaiter(A).count <= Maximum
<1>1. A.count \in Nat /\ Maximum \in Nat /\ thread \in [Thread -> KTHREAD]
  BY KeQueueAssumption DEF KQUEUE, Good
<1>2. \A u : u \in Range(queue[q].waiters) <=>
            u \in Thread /\ thread[u].queue = q /\ thread[u].in = "waiting"
  BY WaitersNow
<1>3. CASE ~Activates(A)
  <2> DEFINE c == A.count - 1
             B == [A EXCEPT !.count = c]
  <2>1. ActivateWaiter(A) = B /\ ThreadsAfterActivate(A) = thread
    BY <1>3 DEF ActivateWaiter, ThreadsAfterActivate
  <2> HIDE DEF c
  <2>2. B.entries = A.entries /\ B.waiters = A.waiters /\ B.count = c
    BY DEF KQUEUE
  <2> HIDE DEF B
  <2>3. ~Strand(B)
    BY <1>1, <1>3, <2>2 DEF Strand, Activates, c
  <2> QED BY <2>1, <2>3
<1>4. CASE Activates(A)
  <2> DEFINE w == Last(A.waiters)
             e == Head(A.entries)
             f == Front(A.waiters)
             r == Tail(A.entries)
             n == A.signal - 1
             C == [A EXCEPT !.entries = r, !.waiters = f, !.signal = n]
             W == Readied(thread[w], e)
  <2>1. ActivateWaiter(A) = C /\ ThreadsAfterActivate(A) = [thread EXCEPT ![w] = W]
    BY <1>4 DEF ActivateWaiter, ThreadsAfterActivate
  <2>2. A.waiters \in Seq(Thread) /\ IsInjective(A.waiters) /\ A.waiters # <<>> /\ A.entries # <<>>
    BY <1>4, QueueFacts DEF Activates
  <2>3. w \in Thread /\ w \in Range(queue[q].waiters)
    BY <2>2, FrontLinks
  <2> HIDE DEF w, e, f, r, n
  <2>4. C.count = A.count
    BY DEF KQUEUE
  <2>5. thread[w].queue = q
    BY <1>2, <2>3
  <2>6. W.queue = q
    <3>1. thread[w] \in KTHREAD
      BY <1>1, <2>3
    <3> QED BY <2>5, <3>1 DEF Readied, KTHREAD
  <2> HIDE DEF C, W
  <2>7. C.count <= Maximum
    BY <1>1, <1>4, <2>4 DEF Activates
  <2>8. Strand(C) => Strand(queue[q])
    BY <2>2, <2>4 DEF Strand
  <2> QED BY <1>1, <2>1, <2>6, <2>7, <2>8
<1> QED BY <1>3, <1>4

(* The loop for the queue Q, less a count it may have decreased, that is A. *)
LoopsOn(A, Q, Queues, Threads) ==
    /\ A \in KQUEUE /\ Q.count \in Nat /\ A.count \in {Q.count - 1, Q.count}
    /\ A.entries = Q.entries /\ A.waiters = Q.waiters
    /\ Threads \in [Thread -> KTHREAD] /\ \E X : Queues \in [Queue -> X]

LEMMA PassBounds ==
    ASSUME NEW q \in Queue, NEW t \in Thread, NEW R \in KTHREAD, R.queue = q,
           NEW A, NEW Q, NEW Queues, NEW Threads, LoopsOn(A, Q, Queues, Threads),
           Pass(t, q, R, A, Queues, Threads)
    PROVE  /\ Strand(queue'[q]) => Strand(Q)
           /\ \A p \in Queue : p # q => queue'[p] = Queues[p]
           /\ \A u \in Thread : u # t => thread'[u] = Threads[u]
           /\ thread'[t].queue = q
           /\ Holds(thread'[t]) # {} => Holds(R) # {} \/ queue'[q].count <= Maximum
<1>1. /\ A \in KQUEUE /\ A.count \in Nat /\ Maximum \in Nat
      /\ Q.count \in Nat /\ A.count \in {Q.count - 1, Q.count}
      /\ A.entries = Q.entries /\ A.waiters = Q.waiters
      /\ Threads \in [Thread -> KTHREAD]
  BY KeQueueAssumption DEF KQUEUE, LoopsOn
<1> PICK X : Queues \in [Queue -> X]
  BY DEF LoopsOn
<1> DEFINE c == A.count + 1
<1>2. c \in Nat /\ c = A.count + 1
  BY <1>1
<1> HIDE DEF c
<1>3. ASSUME NEW S, NEW B,
             thread' = [Threads EXCEPT ![t] = S], queue' = [Queues EXCEPT ![q] = B],
             Strand(B) => Strand(Q), S.queue = q,
             Holds(S) \subseteq Holds(R) \/ B.count <= Maximum
      PROVE  /\ Strand(queue'[q]) => Strand(Q)
             /\ \A p \in Queue : p # q => queue'[p] = Queues[p]
             /\ \A u \in Thread : u # t => thread'[u] = Threads[u]
             /\ thread'[t].queue = q
             /\ Holds(thread'[t]) # {} => Holds(R) # {} \/ queue'[q].count <= Maximum
  <2>1. /\ queue'[q] = B /\ thread'[t] = S
        /\ \A p \in Queue : p # q => queue'[p] = Queues[p]
        /\ \A u \in Thread : u # t => thread'[u] = Threads[u]
    BY <1>1, <1>3
  <2> HIDE DEF Holds
  <2> QED BY <1>3, <2>1
<1>4. CASE /\ A.entries # <<>> /\ A.count < Maximum
           /\ thread' = [Threads EXCEPT ![t] =
                 [R EXCEPT !.in = "outside", !.timed = FALSE, !.result = Head(A.entries)]]
           /\ queue' = [Queues EXCEPT ![q] =
                 [A EXCEPT !.signal = A.signal - 1, !.count = c, !.entries = Tail(A.entries)]]
  <2> DEFINE e == Head(A.entries)
             r == Tail(A.entries)
             n == A.signal - 1
             S == [R EXCEPT !.in = "outside", !.timed = FALSE, !.result = e]
             B == [A EXCEPT !.signal = n, !.count = c, !.entries = r]
  <2>1. thread' = [Threads EXCEPT ![t] = S] /\ queue' = [Queues EXCEPT ![q] = B]
    BY <1>4
  <2> HIDE DEF e, r, n
  <2>2. S.queue = q
    BY DEF KTHREAD
  <2>3. B.count = c /\ B.waiters = A.waiters
    BY <1>1 DEF KQUEUE
  <2> HIDE DEF S, B
  <2>4. Strand(B) => Strand(Q)
    BY <1>1, <1>2, <1>4, <2>3 DEF Strand
  <2>5. B.count <= Maximum
    BY <1>1, <1>2, <1>4, <2>3
  <2> QED BY <1>3, <2>1, <2>2, <2>4, <2>5
<1>5. ASSUME NEW S, S.queue = q, Holds(S) \subseteq Holds(R),
             ~(A.entries # <<>> /\ A.count < Maximum),
             thread' = [Threads EXCEPT ![t] = S],
             queue' = [Queues EXCEPT ![q] = [A EXCEPT !.count = c]]
      PROVE  /\ Strand(queue'[q]) => Strand(Q)
             /\ \A p \in Queue : p # q => queue'[p] = Queues[p]
             /\ \A u \in Thread : u # t => thread'[u] = Threads[u]
             /\ thread'[t].queue = q
             /\ Holds(thread'[t]) # {} => Holds(R) # {} \/ queue'[q].count <= Maximum
  <2> DEFINE B == [A EXCEPT !.count = c]
  <2>1. B.count = c /\ B.waiters = A.waiters /\ B.entries = A.entries
    BY <1>1 DEF KQUEUE
  <2>2. queue' = [Queues EXCEPT ![q] = B]
    BY <1>5
  <2> HIDE DEF B
  <2>3. ~Strand(B)
    BY <1>1, <1>2, <1>5, <2>1 DEF Strand
  <2> HIDE DEF Holds
  <2> QED BY <1>3, <1>5, <2>2, <2>3
<1>6. CASE /\ ~(A.entries # <<>> /\ A.count < Maximum)
           /\ thread' = [Threads EXCEPT ![t] = [R EXCEPT !.in = "relock"]]
           /\ queue' = [Queues EXCEPT ![q] = [A EXCEPT !.count = c]]
  <2> DEFINE S == [R EXCEPT !.in = "relock"]
  <2>1. S.queue = q /\ S.status = R.status /\ S.result = R.result
    BY DEF KTHREAD
  <2>2. thread' = [Threads EXCEPT ![t] = S]
    BY <1>6
  <2> HIDE DEF S
  <2>3. Holds(S) \subseteq Holds(R)
    BY <2>1 DEF Holds
  <2> QED BY <1>5, <1>6, <2>1, <2>2, <2>3
<1>7. CASE /\ ~(A.entries # <<>> /\ A.count < Maximum)
           /\ thread' = [Threads EXCEPT ![t] =
                  [R EXCEPT !.in = "outside", !.timed = FALSE, !.result = Timeout]]
           /\ queue' = [Queues EXCEPT ![q] = [A EXCEPT !.count = c]]
  <2> DEFINE S == [R EXCEPT !.in = "outside", !.timed = FALSE, !.result = Timeout]
  <2>1. S.queue = q /\ S.status = R.status /\ S.result = Timeout
    BY DEF KTHREAD
  <2>2. thread' = [Threads EXCEPT ![t] = S]
    BY <1>7
  <2> HIDE DEF S
  <2>3. Holds(S) \subseteq Holds(R)
    BY <2>1, KeQueueAssumption DEF Holds
  <2> QED BY <1>5, <1>7, <2>1, <2>2, <2>3
<1>8. CASE /\ ~(A.entries # <<>> /\ A.count < Maximum)
           /\ thread' = [Threads EXCEPT ![t] =
                  [R EXCEPT !.in = "waiting", !.wrQueue = TRUE, !.timer = R.timed]]
           /\ queue' = [Queues EXCEPT ![q] = [A EXCEPT !.waiters = Append(A.waiters, t)]]
  <2> DEFINE S == [R EXCEPT !.in = "waiting", !.wrQueue = TRUE, !.timer = R.timed]
             s == Append(A.waiters, t)
             B == [A EXCEPT !.waiters = s]
  <2>1. S.queue = q /\ S.status = R.status /\ S.result = R.result
    BY DEF KTHREAD
  <2>2. thread' = [Threads EXCEPT ![t] = S] /\ queue' = [Queues EXCEPT ![q] = B]
    BY <1>8
  <2> HIDE DEF S, s
  <2>3. B.count = A.count /\ B.entries = A.entries
    BY <1>1 DEF KQUEUE
  <2> HIDE DEF B
  <2>4. ~Strand(B)
    BY <1>8, <2>3 DEF Strand
  <2>5. Holds(S) \subseteq Holds(R)
    BY <2>1 DEF Holds
  <2> HIDE DEF Holds
  <2> QED BY <1>3, <2>1, <2>2, <2>4, <2>5
<1> QED BY <1>2, <1>4, <1>6, <1>7, <1>8 DEF Pass

LEMMA BoundsBy ==
    ASSUME NEW q \in Queue, \A p \in Queue : p # q => queue'[p] = queue[p],
           Strand(queue'[q]) => Strand(queue[q]),
           \A u \in Thread : \/ Holds(thread'[u]) \subseteq Holds(thread[u])
                             \/ thread'[u].queue = q /\ queue'[q].count <= Maximum
    PROVE  StrandsNone /\ Limits
<1>1. StrandsNone
  BY DEF StrandsNone
<1> HIDE DEF Holds
<1>2. Limits
  BY DEF Limits
<1> QED BY <1>1, <1>2

LEMMA QuietBounds ==
    ASSUME queue' = queue, \A u \in Thread : Holds(thread'[u]) \subseteq Holds(thread[u])
    PROVE  StrandsNone /\ Limits
<1>1. StrandsNone
  BY DEF StrandsNone
<1> HIDE DEF Holds
<1>2. Limits
  BY DEF Limits
<1> QED BY <1>1, <1>2

(* A kernel APC that inserts into the queue its thread waited for is what  *)
(* leaves both an entry and a waiter.                                      *)
LEMMA InsertBounds ==
    ASSUME Good(queue, thread), NEW t \in Thread, NEW q \in Queue, NEW e \in Entry,
           NEW atHead \in BOOLEAN, Insert(t, q, e, atHead)
    PROVE  /\ Limits
           /\ (thread[t].queue = q /\ thread[t].wrQueue) \/ StrandsNone
           /\ \A p \in Queue : p # q => queue'[p] = queue[p]
<1> DEFINE A == queue[q]
<1>1. /\ queue \in [Queue -> KQUEUE] /\ thread \in [Thread -> KTHREAD] /\ A \in KQUEUE /\ A.live
      /\ A.count \in Nat /\ Maximum \in Nat
  BY KeQueueAssumption DEF Insert, Good, KQUEUE
<1>2. CASE Hands(t, A, q)
  <2> DEFINE w == Last(A.waiters)
             f == Front(A.waiters)
             c == A.count + 1
             B == [A EXCEPT !.waiters = f, !.count = c]
             S == [Readied(thread[w], e) EXCEPT !.wrQueue = FALSE]
  <2>1. A.waiters # <<>> /\ A.count < Maximum
    BY <1>2 DEF Hands
  <2>2. w \in Thread /\ w \in Range(A.waiters)
    <3>1. A.waiters \in Seq(Thread) /\ IsInjective(A.waiters)
      BY <1>1, QueueFacts
    <3> QED BY <2>1, <3>1, FrontLinks
  <2>3. thread[w].queue = q
    BY <1>1, <2>2, WaitersNow
  <2>4. /\ queue' = [queue EXCEPT ![q].waiters = Front(@), ![q].count = @ + 1]
        /\ thread' = [thread EXCEPT ![w] = [Readied(@, e) EXCEPT !.wrQueue = FALSE]]
    BY <1>2 DEF Insert
  <2>5. queue' = [queue EXCEPT ![q] = B] /\ thread' = [thread EXCEPT ![w] = S]
    BY <1>1, <2>2, <2>4
  <2> HIDE DEF w, f, c
  <2>6. S.queue = q
    <3>1. thread[w] \in KTHREAD
      BY <1>1, <2>2
    <3> QED BY <2>3, <3>1 DEF Readied, KTHREAD
  <2>7. B.count = c /\ B.entries = A.entries
    BY <1>1 DEF KQUEUE
  <2> HIDE DEF B, S
  <2>8. /\ queue'[q] = B /\ thread'[w] = S
        /\ \A p \in Queue : p # q => queue'[p] = queue[p]
        /\ \A u \in Thread : u # w => thread'[u] = thread[u]
    BY <1>1, <2>2, <2>5
  <2>9. B.count <= Maximum /\ (Strand(B) => Strand(A))
    BY <1>1, <2>1, <2>7 DEF Strand, c
  <2>10. \A u \in Thread : \/ Holds(thread'[u]) \subseteq Holds(thread[u])
                           \/ thread'[u].queue = q /\ queue'[q].count <= Maximum
    BY <2>6, <2>8, <2>9
  <2>11. Strand(queue'[q]) => Strand(queue[q])
    BY <2>8, <2>9
  <2> QED BY <2>8, <2>10, <2>11, BoundsBy
<1>3. CASE ~Hands(t, A, q)
  <2>1. /\ queue' = [queue EXCEPT ![q].signal = @ + 1,
                                  ![q].entries = IF atHead THEN <<e>> \o @ ELSE Append(@, e)]
        /\ thread' = thread
    BY <1>3 DEF Insert
  <2>2. /\ queue'[q].waiters = A.waiters /\ queue'[q].count = A.count
        /\ \A p \in Queue : p # q => queue'[p] = queue[p]
    BY <1>1, <2>1 DEF KQUEUE
  <2>3. Limits
    BY <2>1 DEF Limits
  <2>4. CASE thread[t].queue = q /\ thread[t].wrQueue
    BY <2>2, <2>3, <2>4
  <2>5. CASE ~(thread[t].queue = q /\ thread[t].wrQueue)
    <3>1. ~Strand(queue'[q])
      BY <1>1, <1>3, <2>2, <2>5 DEF Hands, Strand
    <3>2. StrandsNone
      BY <2>2, <3>1 DEF StrandsNone
    <3> QED BY <2>2, <2>3, <3>2
  <2> QED BY <2>4, <2>5
<1> QED BY <1>2, <1>3

LEMMA UnwaitBounds ==
    ASSUME Good(queue, thread), NEW t \in Thread, thread[t].in = "waiting",
           NEW status \in {Timeout, KernelApc}, Unwait(t, status)
    PROVE  StrandsNone /\ Limits
<1> DEFINE q == thread[t].queue
           R == thread[t]
           A == queue[q]
           s == Unlink(A.waiters, t)
           c == A.count + 1
           B == [A EXCEPT !.waiters = s, !.count = c]
           S == Readied(R, status)
<1>1. /\ queue \in [Queue -> KQUEUE] /\ thread \in [Thread -> KTHREAD]
      /\ q \in Queue /\ A.live /\ A \in KQUEUE /\ A.count \in Nat /\ Maximum \in Nat /\ R \in KTHREAD
      /\ R.status = NoStatus
  BY KeQueueAssumption DEF Good, Placed, KTHREAD, KQUEUE
<1>2. thread' = [thread EXCEPT ![t] = S] /\ queue' = [queue EXCEPT ![q] = B]
  BY <1>1 DEF Unwait
<1>3. t \in Range(A.waiters)
  BY <1>1, WaitersNow
<1>4. A.waiters # <<>>
  BY <1>3 DEF Range
<1> HIDE DEF s, c, R, q
<1>5. S.result = R.result /\ S.status = status
  BY <1>1 DEF Readied, KTHREAD
<1>6. B.count = c /\ B.entries = A.entries
  BY <1>1 DEF KQUEUE
<1> HIDE DEF S, B
<1>7. /\ queue'[q] = B /\ thread'[t] = S
      /\ \A p \in Queue : p # q => queue'[p] = queue[p]
      /\ \A u \in Thread : u # t => thread'[u] = thread[u]
  BY <1>1, <1>2
<1>8. Strand(B) => Strand(A)
  BY <1>1, <1>4, <1>6 DEF Strand, c
<1>9. Holds(S) \subseteq Holds(R)
  BY <1>1, <1>5, KeQueueAssumption DEF Holds
<1> HIDE DEF Holds
<1>10. \A u \in Thread : Holds(thread'[u]) \subseteq Holds(thread[u])
  BY <1>7, <1>9 DEF R
<1> QED BY <1>1, <1>7, <1>8, <1>10, BoundsBy

(* A thread that stops lets the queue's last waiter run. *)
LEMMA YieldsBounds ==
    ASSUME Good(queue, thread), NEW q \in Queue, queue[q].live, NEW t \in Thread, NEW S,
           NEW A \in KQUEUE, A.waiters = queue[q].waiters, A.entries = queue[q].entries,
           A.count = queue[q].count, Holds(S) \subseteq Holds(thread[t]),
           queue' = [queue EXCEPT ![q] = ActivateWaiter(A)],
           thread' = [ThreadsAfterActivate(A) EXCEPT ![t] = S],
           ThreadsAfterActivate(A) \in [Thread -> KTHREAD]
    PROVE  StrandsNone /\ Limits
<1> DEFINE B == ActivateWaiter(A)
           Threads == ThreadsAfterActivate(A)
<1>1. Strand(B) => Strand(queue[q])
  BY YieldBounds
<1>2. \A u \in Thread : Threads[u] = thread[u] \/ (Threads[u].queue = q /\ B.count <= Maximum)
  BY YieldBounds
<1>3. queue \in [Queue -> KQUEUE]
  BY DEF Good
<1> HIDE DEF B, Threads, Holds
<1>4. queue'[q] = B /\ \A p \in Queue : p # q => queue'[p] = queue[p]
  BY <1>3 DEF B
<1>5. thread'[t] = S /\ \A u \in Thread : u # t => thread'[u] = Threads[u]
  BY DEF Threads
<1>6. \A u \in Thread : \/ Holds(thread'[u]) \subseteq Holds(thread[u])
                        \/ thread'[u].queue = q /\ queue'[q].count <= Maximum
  BY <1>2, <1>4, <1>5
<1>7. Strand(queue'[q]) => Strand(queue[q])
  BY <1>1, <1>4
<1> QED BY <1>4, <1>6, <1>7, BoundsBy

LEMMA BlockBounds ==
    ASSUME Good(queue, thread), NEW t \in Thread, TakesApcs(t), Block(t)
    PROVE  StrandsNone /\ Limits
<1> DEFINE R == thread[t]
           q == R.queue
           S == Blocking(R)
<1>1. /\ thread \in [Thread -> KTHREAD] /\ queue \in [Queue -> KQUEUE]
      /\ R \in KTHREAD /\ ~R.blocked /\ R.in \in {"outside", "swapped", "relock"}
  BY DEF Good, TakesApcs
<1>2. S.status = NoStatus /\ S.result = R.result
  <2> HIDE DEF R
  <2> QED BY <1>1 DEF Blocking, KTHREAD
<1>3. Holds(S) \subseteq Holds(R)
  BY <1>2, KeQueueAssumption DEF Holds
<1>4. CASE q = NoQueue
  <2>1. thread' = [thread EXCEPT ![t] = S] /\ queue' = queue
    BY <1>1, <1>4 DEF Block, Blocking
  <2> HIDE DEF S
  <2>2. \A u \in Thread : Holds(thread'[u]) \subseteq Holds(thread[u])
    BY <1>1, <1>3, <2>1
  <2> QED BY <2>1, <2>2, QuietBounds
<1>5. CASE q # NoQueue
  <2> DEFINE A == queue[q]
             f == ThreadsAfterActivate(A)
  <2>1. q \in Queue /\ A.live /\ A \in KQUEUE
    BY <1>1, <1>5 DEF KTHREAD, Good
  <2>2. f[t] = R /\ f \in [Thread -> KTHREAD]
    BY <1>1, <2>1, OthersAfterActivate
  <2>3. queue' = [queue EXCEPT ![q] = ActivateWaiter(A)]
    BY <1>1, <1>5 DEF Block
  <2>4. thread' = [f EXCEPT ![t].blocked = TRUE, ![t].wrQueue = FALSE, ![t].status = NoStatus]
    BY <1>5 DEF Block
  <2>5. thread' = [f EXCEPT ![t] = S]
    <3> HIDE DEF f, R
    <3>1. thread' = [f EXCEPT ![t] = Blocking(f[t])]
      BY <2>2, <2>4 DEF Blocking
    <3> QED BY <2>2, <3>1
  <2>6. A.waiters = queue[q].waiters /\ A.entries = queue[q].entries /\ A.count = queue[q].count
    OBVIOUS
  <2> HIDE DEF S, q
  <2> QED BY <1>3, <2>1, <2>2, <2>3, <2>5, <2>6, YieldsBounds
<1> QED BY <1>4, <1>5

LEMMA UnblockBounds ==
    ASSUME Good(queue, thread), NEW t \in Thread, Unblock(t)
    PROVE  StrandsNone /\ Limits
<1> DEFINE R == thread[t]
           q == R.queue
           S == [R EXCEPT !.blocked = FALSE]
<1>1. /\ thread \in [Thread -> KTHREAD] /\ queue \in [Queue -> KQUEUE]
      /\ R \in KTHREAD /\ q \in Queue \cup {NoQueue}
  BY DEF Good, KTHREAD
<1>2. /\ thread' = [thread EXCEPT ![t] = S]
      /\ queue' = IF q = NoQueue THEN queue ELSE [queue EXCEPT ![q].count = @ + 1]
  BY <1>1 DEF Unblock
<1>3. Holds(S) \subseteq Holds(R)
  <2>1. S.status = R.status /\ S.result = R.result
    <3> HIDE DEF R
    <3> QED BY <1>1 DEF KTHREAD
  <2> QED BY <2>1 DEF Holds
<1> HIDE DEF S
<1>4. \A u \in Thread : Holds(thread'[u]) \subseteq Holds(thread[u])
  BY <1>1, <1>2, <1>3
<1>5. CASE q = NoQueue
  BY <1>2, <1>4, <1>5, QuietBounds
<1>6. CASE q # NoQueue
  <2> DEFINE A == queue[q]
             c == A.count + 1
             B == [A EXCEPT !.count = c]
  <2>1. q \in Queue /\ queue' = [queue EXCEPT ![q] = B]
    BY <1>1, <1>2, <1>6
  <2>2. A \in KQUEUE /\ A.count \in Nat /\ Maximum \in Nat
    BY <1>1, <2>1, KeQueueAssumption DEF KQUEUE
  <2> HIDE DEF c
  <2>3. B.count = c /\ B.entries = A.entries /\ B.waiters = A.waiters
    BY <2>2 DEF KQUEUE
  <2> HIDE DEF B
  <2>4. queue'[q] = B /\ \A p \in Queue : p # q => queue'[p] = queue[p]
    BY <1>1, <2>1
  <2>5. Strand(B) => Strand(A)
    BY <2>2, <2>3 DEF Strand, c
  <2>6. Strand(queue'[q]) => Strand(queue[q])
    BY <2>4, <2>5
  <2> HIDE DEF Holds, q
  <2> QED BY <1>4, <2>1, <2>4, <2>6, BoundsBy
<1> QED BY <1>5, <1>6

LEMMA KeTerminateThreadBounds ==
    ASSUME Good(queue, thread), NEW t \in Thread, KeTerminateThread(t)
    PROVE  StrandsNone /\ Limits
<1> DEFINE R == thread[t]
           q == R.queue
           S == [R EXCEPT !.in = "exited", !.queue = NoQueue, !.result = NoStatus]
<1>1. /\ thread \in [Thread -> KTHREAD] /\ queue \in [Queue -> KQUEUE]
      /\ R \in KTHREAD /\ R.in = "outside"
  BY DEF Good, KeTerminateThread, Runs
<1>2. \/ q = NoQueue /\ thread' = [thread EXCEPT ![t] = S] /\ queue' = queue
      \/ /\ q # NoQueue
         /\ LET Q == [queue[q] EXCEPT !.threads = Unlink(@, t)]
            IN  /\ queue' = [queue EXCEPT ![q] = ActivateWaiter(Q)]
                /\ thread' = [ThreadsAfterActivate(Q) EXCEPT ![t] = S]
  BY DEF KeTerminateThread
<1>3. Holds(S) \subseteq Holds(R)
  <2>1. S.status = R.status /\ S.result = NoStatus
    <3> HIDE DEF R
    <3> QED BY <1>1 DEF KTHREAD
  <2> QED BY <2>1, KeQueueAssumption DEF Holds
<1> HIDE DEF S
<1>4. CASE q = NoQueue
  <2>1. thread' = [thread EXCEPT ![t] = S] /\ queue' = queue
    BY <1>2, <1>4
  <2>2. \A u \in Thread : Holds(thread'[u]) \subseteq Holds(thread[u])
    BY <1>1, <1>3, <2>1
  <2> QED BY <2>1, <2>2, QuietBounds
<1>5. CASE q # NoQueue
  <2> DEFINE s == Unlink(queue[q].threads, t)
             A == [queue[q] EXCEPT !.threads = s]
  <2>1. queue' = [queue EXCEPT ![q] = ActivateWaiter(A)]
        /\ thread' = [ThreadsAfterActivate(A) EXCEPT ![t] = S]
    BY <1>2, <1>5
  <2>2. q \in Queue /\ queue[q].live
    BY <1>1, <1>5 DEF KTHREAD, Good
  <2>3. s \in Seq(Thread) /\ queue[q] \in KQUEUE
    BY <2>2, QueueFacts, UnlinkProperties
  <2>4. /\ A \in KQUEUE /\ A.waiters = queue[q].waiters
        /\ A.entries = queue[q].entries /\ A.count = queue[q].count
    <3> HIDE DEF s
    <3> QED BY <2>3 DEF KQUEUE
  <2>5. thread[t].in # "waiting"
    BY <1>1
  <2> HIDE DEF A
  <2>6. ThreadsAfterActivate(A) \in [Thread -> KTHREAD]
    BY <2>2, <2>4, <2>5, OthersAfterActivate
  <2> HIDE DEF q
  <2> QED BY <1>3, <2>1, <2>2, <2>4, <2>6, YieldsBounds
<1> QED BY <1>2, <1>4, <1>5

LEMMA RelockBounds ==
    ASSUME Good(queue, thread), NEW t \in Thread, Relock(t)
    PROVE  StrandsNone /\ Limits
<1> DEFINE R == thread[t]
           q == R.queue
           c == queue[q].count - 1
           A == [queue[q] EXCEPT !.count = c]
<1>1. /\ queue \in [Queue -> KQUEUE] /\ thread \in [Thread -> KTHREAD]
      /\ R \in KTHREAD /\ Placed(R) /\ R.in = "relock" /\ ~R.blocked
  BY DEF Good, Relock
<1>2. R.queue = q /\ thread[t] = R /\ Pass(t, q, R, A, queue, thread)
  BY DEF Relock
<1> HIDE DEF q, R
<1>3. q \in Queue /\ Counts(R, q) /\ Holds(R) = {}
  BY <1>1, <1>2, KeQueueAssumption DEF Placed, KTHREAD, Counts, Holds
<1>4. queue[q].count \in Nat /\ queue[q].count > 0 /\ queue[q] \in KQUEUE
  BY <1>1, <1>2, <1>3, CountsOne
<1>5. c \in Nat /\ c = queue[q].count - 1
  BY <1>4
<1> HIDE DEF c
<1>6. A \in KQUEUE /\ A.count = c /\ A.entries = queue[q].entries /\ A.waiters = queue[q].waiters
  BY <1>4, <1>5 DEF KQUEUE
<1>7. A.count \in {queue[q].count - 1, queue[q].count}
  BY <1>5, <1>6
<1> HIDE DEF A
<1>8. /\ Strand(queue'[q]) => Strand(queue[q])
      /\ \A p \in Queue : p # q => queue'[p] = queue[p]
      /\ \A u \in Thread : u # t => thread'[u] = thread[u]
      /\ thread'[t].queue = q
      /\ Holds(thread'[t]) # {} => Holds(R) # {} \/ queue'[q].count <= Maximum
  <2>1. LoopsOn(A, queue[q], queue, thread)
    BY <1>1, <1>4, <1>6, <1>7 DEF LoopsOn
  <2> QED BY <1>1, <1>2, <1>3, <2>1, PassBounds
<1> HIDE DEF Holds
<1>9. \A u \in Thread : \/ Holds(thread'[u]) \subseteq Holds(thread[u])
                        \/ thread'[u].queue = q /\ queue'[q].count <= Maximum
  BY <1>3, <1>8
<1> QED BY <1>3, <1>8, <1>9, BoundsBy

LEMMA KeRemoveQueueBounds ==
    ASSUME Good(queue, thread), NEW t \in Thread, NEW q \in Queue, NEW timed \in BOOLEAN,
           KeRemoveQueue(t, q, timed)
    PROVE  StrandsNone /\ Limits
<1> DEFINE R == thread[t]
           old == R.queue
           S == Calling(R, q, timed)
<1>1. /\ Runs(t) /\ queue \in [Queue -> KQUEUE] /\ thread \in [Thread -> KTHREAD]
      /\ queue[q] \in KQUEUE /\ queue[q].live /\ queue[q].count \in Nat
  BY DEF KeRemoveQueue, Good, KQUEUE
<1>2. R \in KTHREAD /\ R.in = "outside" /\ ~R.blocked /\ S \in KTHREAD /\ S.queue = q /\ Holds(S) = {}
  BY <1>1, CallerIs
<1> HIDE DEF S
<1>3. CASE old = q /\ Pass(t, q, S, [queue[q] EXCEPT !.count = @ - 1], queue, thread)
  <2> DEFINE c == queue[q].count - 1
             A == [queue[q] EXCEPT !.count = c]
  <2>1. Counts(R, q)
    BY <1>2, <1>3 DEF Counts
  <2>2. queue[q].count > 0
    BY <2>1, CountsOne
  <2>3. c \in Nat /\ c = queue[q].count - 1
    BY <1>1, <2>2
  <2>4. Pass(t, q, S, A, queue, thread)
    BY <1>3
  <2> HIDE DEF c
  <2>5. A \in KQUEUE /\ A.count = c /\ A.entries = queue[q].entries /\ A.waiters = queue[q].waiters
    BY <1>1, <2>3 DEF KQUEUE
  <2>6. A.count \in {queue[q].count - 1, queue[q].count}
    BY <2>3, <2>5
  <2> HIDE DEF A
  <2>7. /\ Strand(queue'[q]) => Strand(queue[q])
        /\ \A p \in Queue : p # q => queue'[p] = queue[p]
        /\ \A u \in Thread : u # t => thread'[u] = thread[u]
        /\ thread'[t].queue = q
        /\ Holds(thread'[t]) # {} => Holds(S) # {} \/ queue'[q].count <= Maximum
    <3>1. LoopsOn(A, queue[q], queue, thread)
      BY <1>1, <2>5, <2>6 DEF LoopsOn
    <3> QED BY <1>2, <2>4, <3>1, PassBounds
  <2> HIDE DEF Holds
  <2>8. \A u \in Thread : \/ Holds(thread'[u]) \subseteq Holds(thread[u])
                          \/ thread'[u].queue = q /\ queue'[q].count <= Maximum
    BY <1>2, <2>7
  <2> QED BY <2>7, <2>8, BoundsBy
<1> DEFINE A == [queue[q] EXCEPT !.threads = Append(queue[q].threads, t)]
<1>4. /\ A \in KQUEUE /\ A.count = queue[q].count
      /\ A.entries = queue[q].entries /\ A.waiters = queue[q].waiters
  <2> DEFINE s == Append(queue[q].threads, t)
  <2>1. s \in Seq(Thread)
    BY <1>1, QueueFacts
  <2> HIDE DEF s
  <2>2. A = [queue[q] EXCEPT !.threads = s]
    BY DEF s
  <2> HIDE DEF A
  <2> QED BY <1>1, <2>1, <2>2 DEF KQUEUE
<1>5. CASE /\ old = NoQueue
           /\ Pass(t, q, S, [queue[q] EXCEPT !.threads = Append(@, t)], queue, thread)
  <2>1. Pass(t, q, S, A, queue, thread)
    BY <1>5
  <2> HIDE DEF A
  <2>2. LoopsOn(A, queue[q], queue, thread)
    BY <1>1, <1>4 DEF LoopsOn
  <2>3. /\ Strand(queue'[q]) => Strand(queue[q])
        /\ \A p \in Queue : p # q => queue'[p] = queue[p]
        /\ \A u \in Thread : u # t => thread'[u] = thread[u]
        /\ thread'[t].queue = q
        /\ Holds(thread'[t]) # {} => Holds(S) # {} \/ queue'[q].count <= Maximum
    BY <1>2, <2>1, <2>2, PassBounds
  <2> HIDE DEF Holds
  <2>4. \A u \in Thread : \/ Holds(thread'[u]) \subseteq Holds(thread[u])
                          \/ thread'[u].queue = q /\ queue'[q].count <= Maximum
    BY <1>2, <2>3
  <2> QED BY <2>3, <2>4, BoundsBy
<1>6. CASE /\ old \notin {q, NoQueue}
           /\ LET Old == [queue[old] EXCEPT !.threads = Unlink(@, t)]
              IN  Pass(t, q, S, [queue[q] EXCEPT !.threads = Append(@, t)],
                       [queue EXCEPT ![old] = ActivateWaiter(Old)], ThreadsAfterActivate(Old))
  <2> DEFINE s == Unlink(queue[old].threads, t)
             Old == [queue[old] EXCEPT !.threads = s]
             B == ActivateWaiter(Old)
             Q == [queue EXCEPT ![old] = B]
             Threads == ThreadsAfterActivate(Old)
  <2>1. old \in Queue /\ queue[old].live /\ queue[old] \in KQUEUE /\ thread[t].in # "waiting"
    BY <1>1, <1>2, <1>6 DEF KTHREAD, Good
  <2>2. s \in Seq(Thread)
    BY <2>1, QueueFacts, UnlinkProperties
  <2>3. Pass(t, q, S, A, Q, Threads)
    BY <1>6
  <2>4. /\ Old \in KQUEUE /\ Old.waiters = queue[old].waiters
        /\ Old.entries = queue[old].entries /\ Old.count = queue[old].count
    <3> HIDE DEF s
    <3> QED BY <2>1, <2>2 DEF KQUEUE
  <2> HIDE DEF Old, s, A
  <2>5. Threads \in [Thread -> KTHREAD]
    BY <2>1, <2>4, OthersAfterActivate
  <2>6. Strand(B) => Strand(queue[old])
    BY <2>1, <2>4, YieldBounds
  <2>7. \A u \in Thread : Threads[u] = thread[u] \/ (Threads[u].queue = old /\ B.count <= Maximum)
    BY <2>1, <2>4, YieldBounds
  <2> HIDE DEF B, Threads
  <2>8. /\ Q \in [Queue -> KQUEUE \cup {B}] /\ Q[old] = B
        /\ \A p \in Queue : p # old => Q[p] = queue[p]
    BY <1>1, <2>1
  <2> HIDE DEF Q
  <2>9. /\ Strand(queue'[q]) => Strand(queue[q])
        /\ \A p \in Queue : p # q => queue'[p] = Q[p]
        /\ \A u \in Thread : u # t => thread'[u] = Threads[u]
        /\ thread'[t].queue = q
        /\ Holds(thread'[t]) # {} => queue'[q].count <= Maximum
    <3>1. LoopsOn(A, queue[q], Q, Threads)
      BY <1>1, <1>4, <2>5, <2>8 DEF LoopsOn
    <3>2. /\ Strand(queue'[q]) => Strand(queue[q])
          /\ \A p \in Queue : p # q => queue'[p] = Q[p]
          /\ \A u \in Thread : u # t => thread'[u] = Threads[u]
          /\ thread'[t].queue = q
          /\ Holds(thread'[t]) # {} => Holds(S) # {} \/ queue'[q].count <= Maximum
      BY <1>2, <2>3, <3>1, PassBounds
    <3> QED BY <1>2, <3>2
  <2>10. queue'[old] = B
    BY <1>6, <2>1, <2>8, <2>9
  <2>11. StrandsNone
    <3> SUFFICES ASSUME NEW p \in Queue, Strand(queue'[p]) PROVE Strand(queue[p])
      BY DEF StrandsNone
    <3>1. CASE p = q
      BY <2>9, <3>1
    <3>2. CASE p = old
      BY <2>6, <2>10, <3>2
    <3>3. CASE p \notin {q, old}
      BY <2>8, <2>9, <3>3
    <3> QED BY <3>1, <3>2, <3>3
  <2>12. Limits
    <3> SUFFICES ASSUME NEW u \in Thread, NEW p \in Queue, Holds(thread[u]) = {},
                        Holds(thread'[u]) # {}, thread'[u].queue = p
                 PROVE  queue'[p].count <= Maximum
      BY DEF Limits
    <3>1. CASE u = t
      BY <2>9, <3>1
    <3>2. CASE u # t
      <4>1. thread'[u] = Threads[u]
        BY <2>9, <3>2
      <4>2. Threads[u] # thread[u]
        BY <4>1
      <4> QED BY <2>7, <2>10, <4>1, <4>2
    <3> QED BY <3>1, <3>2
  <2> QED BY <2>11, <2>12
<1> QED BY <1>3, <1>5, <1>6 DEF KeRemoveQueue, Calling, S

(* The kernel APC of a thread that has just been waiting for the queue.    *)
Excused(q) ==
    \E t \in Thread : /\ thread[t].in = "swapped" /\ thread[t].wrQueue
                      /\ thread[t].queue = q /\ kernelApc[t] /\ ~kernelApc'[t]

Strands(q) == Strand(queue'[q]) => Strand(queue[q]) \/ Excused(q)

Bounds == Limits /\ \A q \in Queue : Strands(q)

LEMMA NextBounds == QueueInv /\ [Next]_vars => Bounds
<1> SUFFICES ASSUME QueueInv, [Next]_vars PROVE Bounds
  OBVIOUS
<1>1. /\ Good(queue, thread) /\ kernelApc \in [Thread -> BOOLEAN]
      /\ thread \in [Thread -> KTHREAD] /\ queue \in [Queue -> KQUEUE]
  BY DEF QueueInv, Good
<1>2. ASSUME StrandsNone, Limits PROVE Bounds
  BY <1>2 DEF StrandsNone, Bounds, Strands
<1>3. ASSUME NEW t \in Thread, NEW q \in Queue, NEW e \in Entry, NEW atHead \in BOOLEAN,
             KeInsertQueue(t, q, e, atHead)
      PROVE  Bounds
  <2>1. ~thread[t].wrQueue
    BY <1>1, <1>3 DEF KeInsertQueue, Runs, Good, Placed, KTHREAD
  <2>2. Limits /\ ((thread[t].queue = q /\ thread[t].wrQueue) \/ StrandsNone)
    BY <1>1, <1>3, InsertBounds DEF KeInsertQueue
  <2> QED BY <1>2, <2>1, <2>2
<1>4. ASSUME NEW t \in Thread, NEW q \in Queue, NEW timed \in BOOLEAN, KeRemoveQueue(t, q, timed)
      PROVE  Bounds
  BY <1>1, <1>2, <1>4, KeRemoveQueueBounds
<1>5. ASSUME NEW t \in Thread, SwapIn(t) PROVE Bounds
  <2> DEFINE R == thread[t]
             S == [R EXCEPT !.in = "swapped", !.result = R.status]
  <2>1. thread' = [thread EXCEPT ![t] = S] /\ queue' = queue /\ R \in KTHREAD
    BY <1>1, <1>5 DEF SwapIn
  <2>2. Holds(S) \subseteq Holds(R)
    <3> HIDE DEF R
    <3>1. S.status = R.status /\ S.result = R.status
      BY <2>1 DEF KTHREAD
    <3> HIDE DEF S
    <3> QED BY <3>1 DEF Holds
  <2> HIDE DEF S
  <2>3. \A u \in Thread : Holds(thread'[u]) \subseteq Holds(thread[u])
    BY <1>1, <2>1, <2>2
  <2> QED BY <1>2, <2>1, <2>3, QuietBounds
<1>6. ASSUME NEW t \in Thread, Return(t) PROVE Bounds
  <2> DEFINE R == thread[t]
             S == thread'[t]
  <2>1. queue' = queue /\ R \in KTHREAD /\ \A u \in Thread : u # t => thread'[u] = thread[u]
    BY <1>1, <1>6 DEF Return, Leave
  <2>2. S.status = NoStatus /\ S.result \in {R.result, NoStatus}
    BY <1>1, <1>6 DEF Return, Leave, KTHREAD
  <2>3. Holds(S) \subseteq Holds(R)
    <3> HIDE DEF R, S
    <3> QED BY <2>2, KeQueueAssumption DEF Holds
  <2> HIDE DEF Holds
  <2>4. \A u \in Thread : Holds(thread'[u]) \subseteq Holds(thread[u])
    BY <2>1, <2>3
  <2> QED BY <1>2, <2>1, <2>4, QuietBounds
<1>7. ASSUME NEW t \in Thread, Relock(t) PROVE Bounds
  BY <1>1, <1>2, <1>7, RelockBounds
<1>8. ASSUME NEW t \in Thread, TimerExpire(t) PROVE Bounds
  <2>1. thread[t].in = "waiting"
    BY <1>1, <1>8 DEF Good, Placed, TimerExpire
  <2>2. Unwait(t, Timeout)
    BY <1>8 DEF TimerExpire
  <2> QED BY <1>1, <1>2, <2>1, <2>2, UnwaitBounds
<1>9. ASSUME UNCHANGED <<queue, thread>> PROVE Bounds
  BY <1>2, <1>9, QuietBounds
<1>10. ASSUME NEW t \in Thread, InsertKernelApc(t) PROVE Bounds
  <2>1. CASE thread[t].in = "waiting"
    <3>1. Unwait(t, KernelApc)
      BY <1>10, <2>1 DEF InsertKernelApc
    <3> QED BY <1>1, <1>2, <2>1, <3>1, UnwaitBounds
  <2>2. CASE thread[t].in # "waiting"
    BY <1>9, <1>10, <2>2 DEF InsertKernelApc
  <2> QED BY <2>1, <2>2
<1>11. ASSUME NEW t \in Thread, DeliverApc(t) PROVE Bounds
  <2>1. CASE \E q \in Queue, e \in Entry : Insert(t, q, e, FALSE)
    <3>1. PICK q \in Queue, e \in Entry : Insert(t, q, e, FALSE)
      BY <2>1
    <3>2. /\ Limits
          /\ (thread[t].queue = q /\ thread[t].wrQueue) \/ StrandsNone
          /\ \A p \in Queue : p # q => queue'[p] = queue[p]
      BY <1>1, <3>1, InsertBounds
    <3>3. CASE StrandsNone
      BY <1>2, <3>2, <3>3
    <3>4. CASE thread[t].queue = q /\ thread[t].wrQueue
      <4>1. thread[t].in = "swapped" /\ kernelApc[t] /\ ~kernelApc'[t]
        <5>1. thread[t].in \in {"outside", "swapped", "relock"} /\ kernelApc[t] /\ ~kernelApc'[t]
          BY <1>1, <1>11 DEF DeliverApc, TakesApcs
        <5>2. thread[t].in \in {"waiting", "woken", "swapped"}
          BY <1>1, <3>4 DEF Good, Placed
        <5> QED BY <5>1, <5>2
      <4>2. Excused(q)
        BY <3>4, <4>1 DEF Excused
      <4>3. \A p \in Queue : Strands(p)
        BY <3>2, <4>2 DEF Strands
      <4> QED BY <3>2, <4>3 DEF Bounds
    <3> QED BY <3>2, <3>3, <3>4
  <2>2. CASE Block(t)
    BY <1>1, <1>2, <1>11, <2>2, BlockBounds DEF DeliverApc
  <2>3. CASE UNCHANGED <<queue, thread>>
    BY <1>9, <2>3
  <2> QED BY <1>11, <2>1, <2>2, <2>3 DEF DeliverApc
<1>12. ASSUME NEW t \in Thread, KeWaitForSingleObject(t) PROVE Bounds
  <2>1. TakesApcs(t) /\ Block(t)
    BY <1>12 DEF KeWaitForSingleObject, Runs, TakesApcs
  <2> QED BY <1>1, <1>2, <2>1, BlockBounds
<1>13. ASSUME NEW t \in Thread, Unblock(t) PROVE Bounds
  BY <1>1, <1>2, <1>13, UnblockBounds
<1>14. ASSUME NEW t \in Thread, KeTerminateThread(t) PROVE Bounds
  BY <1>1, <1>2, <1>14, KeTerminateThreadBounds
<1>15. ASSUME NEW q \in Queue, NEW N, N.entries = <<>>, queue' = [queue EXCEPT ![q] = N],
              \A u \in Thread : Holds(thread'[u]) \subseteq Holds(thread[u])
       PROVE  Bounds
  <2>1. queue'[q] = N /\ \A p \in Queue : p # q => queue'[p] = queue[p]
    BY <1>1, <1>15
  <2>2. ~Strand(queue'[q])
    BY <1>15, <2>1 DEF Strand
  <2> HIDE DEF Holds
  <2> QED BY <1>2, <1>15, <2>1, <2>2, BoundsBy
<1>16. ASSUME NEW q \in Queue, KeRundownQueue(q) PROVE Bounds
  <2> DEFINE N == [queue[q] EXCEPT !.live = FALSE, !.threads = <<>>, !.entries = <<>>]
  <2>1. N.entries = <<>> /\ queue' = [queue EXCEPT ![q] = N]
    BY <1>1, <1>16 DEF KeRundownQueue, KQUEUE
  <2>2. \A u \in Thread : thread'[u].status = thread[u].status /\ thread'[u].result = thread[u].result
    BY <1>1, <1>16 DEF KeRundownQueue, KTHREAD
  <2>3. \A u \in Thread : Holds(thread'[u]) \subseteq Holds(thread[u])
    BY <2>2 DEF Holds
  <2> HIDE DEF N
  <2> QED BY <1>15, <2>1, <2>3
<1>17. ASSUME NEW q \in Queue, KeInitializeQueue(q) PROVE Bounds
  <2>1. NewQueue.entries = <<>>
    BY DEF NewQueue
  <2>2. queue' = [queue EXCEPT ![q] = NewQueue] /\ thread' = thread
    BY <1>17 DEF KeInitializeQueue
  <2>3. \A u \in Thread : Holds(thread'[u]) \subseteq Holds(thread[u])
    BY <2>2
  <2> QED BY <1>15, <2>1, <2>2, <2>3
<1>18. CASE UNCHANGED vars
  BY <1>9, <1>18 DEF vars
<1>19. \A t \in Thread : Uses[t] \subseteq Queue
  BY KeQueueAssumption
<1> QED BY <1>3, <1>4, <1>5, <1>6, <1>7, <1>8, <1>10, <1>11, <1>12, <1>13, <1>14, <1>16, <1>17,
           <1>18, <1>19 DEF Next

-----------------------------------------------------------------------------
LEMMA ActiveAre == \A q \in Queue : NumberActive(thread, q) = Cardinality(Active(q))
BY Zenon DEF NumberActive, Counts, Active

(* CurrentCount of a queue is the number of its threads that can run, and  *)
(* its lists hold the threads that belong to it and those that wait for    *)
(* it: KeRemoveQueue, KiUnwaitThread, KiActivateWaiterQueue and the others *)
(* that move a thread adjust all of them alike.                            *)
THEOREM QueuesCountRight == Spec => []CountOK
<1>1. QueueInv => CountOK
  <2> SUFFICES ASSUME QueueInv PROVE CountOK
    OBVIOUS
  <2>1. TypeOK
    BY DEF QueueInv, Good, TypeOK
  <2>2. ASSUME NEW q \in Queue, queue[q].live
        PROVE  /\ queue[q].count = Cardinality(Active(q))
               /\ queue[q].signal = Len(queue[q].entries)
               /\ IsInjective(queue[q].threads) /\ IsInjective(queue[q].waiters)
               /\ Range(queue[q].threads) = {t \in Thread : thread[t].queue = q}
               /\ Range(queue[q].waiters) = {t \in Thread : thread[t].queue = q
                                                            /\ thread[t].in = "waiting"}
    <3>1. Listed(thread, q, queue[q])
      BY <2>2 DEF QueueInv, Good
    <3>2. {t \in Thread : Waits(thread[t], q)} =
             {t \in Thread : thread[t].queue = q /\ thread[t].in = "waiting"}
      BY Zenon DEF Waits
    <3> QED BY <3>1, <3>2, ActiveAre, Zenon DEF Listed
  <2> QED BY <2>1, <2>2, Zenon DEF CountOK
<1> QED BY <1>1, QueuesGood, PTL

(* An entry is in one place, and stays with its queue or the thread it was *)
(* handed to, through the kernel APCs of that thread, until the thread     *)
(* calls again or exits or the queue is run down.                          *)
THEOREM QueuesLoseNothing == Spec => NothingLost
<1>1. QueueInv /\ [Next]_vars =>
         \A e \in Entry :
            /\ Cardinality(Holders(e)') <= 1
            /\ Holders(e) # {} /\ Holders(e)' = {} =>
                  \/ \E t \in Thread : thread[t].in = "outside" /\ thread[t].result = e
                  \/ \E q \in Holders(e) \cap Queue : ~queue'[q].live
  <2> SUFFICES ASSUME QueueInv, [Next]_vars, NEW e \in Entry
               PROVE  /\ Cardinality(Holders(e)') <= 1
                      /\ Holders(e) # {} /\ Holders(e)' = {} =>
                            \/ \E t \in Thread : thread[t].in = "outside" /\ thread[t].result = e
                            \/ \E q \in Holders(e) \cap Queue : ~queue'[q].live
    OBVIOUS
  <2>1. Good(queue, thread) /\ Good(queue', thread') /\ LosesNone
    BY NextGood DEF QueueInv
  <2>2. \A q \in Queue : Contains(queue[q].entries, e) <=> e \in Range(queue[q].entries)
    <3> TAKE q \in Queue
    <3>1. queue[q].entries \in Seq(Entry)
      BY <2>1 DEF Good, KQUEUE
    <3> QED BY <3>1, Contained
  <2>3. \A q \in Queue : Contains(queue'[q].entries, e) <=> e \in Range(queue'[q].entries)
    <3> TAKE q \in Queue
    <3>1. queue'[q].entries \in Seq(Entry)
      BY <2>1 DEF Good, KQUEUE
    <3> QED BY <3>1, Contained
  <2> DEFINE H == Holders(e)
  <2>4. \A x : x \in H <=> \/ x \in Queue /\ e \in Range(queue[x].entries)
                           \/ x \in Thread /\ e \in Holds(thread[x])
    BY <2>2 DEF Holders, Holds
  <2>5. \A x : x \in H' <=> \/ x \in Queue /\ e \in Range(queue'[x].entries)
                            \/ x \in Thread /\ e \in Holds(thread'[x])
    BY <2>3 DEF Holders, Holds
  <2> HIDE DEF H
  <2>6. \A x, y \in H' : x = y
    <3>1. OnePlace(queue', thread')
      BY <2>1 DEF Good
    <3> TAKE x, y \in H'
    <3>2. /\ \/ x \in Queue /\ e \in Range(queue'[x].entries)
             \/ x \in Thread /\ e \in Holds(thread'[x])
          /\ \/ y \in Queue /\ e \in Range(queue'[y].entries)
             \/ y \in Thread /\ e \in Holds(thread'[y])
      BY <2>5
    <3> HIDE DEF Holds
    <3>3. \A p, q \in Queue : e \in Range(queue'[p].entries) /\ e \in Range(queue'[q].entries) => p = q
      BY <3>1 DEF OnePlace
    <3>4. \A q \in Queue, t \in Thread : e \in Range(queue'[q].entries) => e \notin Holds(thread'[t])
      BY <3>1 DEF OnePlace
    <3>5. \A t, u \in Thread : e \in Holds(thread'[t]) /\ e \in Holds(thread'[u]) => t = u
      BY <3>1 DEF OnePlace
    <3> QED BY <3>2, <3>3, <3>4, <3>5
  <2>7. Cardinality(H') <= 1
    <3>1. CASE H' = {}
      BY <3>1, FS_EmptySet
    <3>2. CASE H' # {}
      <4>1. PICK x \in H' : TRUE
        BY <3>2
      <4>2. H' = {x}
        BY <2>6, <4>1
      <4>3. Cardinality({x}) = 1
        BY FS_Singleton
      <4>4. Cardinality(H') = Cardinality({x})
        BY <4>2, Zenon
      <4> QED BY <4>3, <4>4
    <3> QED BY <3>1, <3>2
  <2>8. ASSUME H # {}, H' = {}
        PROVE  \/ \E t \in Thread : thread[t].in = "outside" /\ thread[t].result = e
               \/ \E q \in H \cap Queue : ~queue'[q].live
    <3>1. Unheld(queue', thread', e)
      BY <2>5, <2>8 DEF Unheld
    <3>2. ~Unheld(queue, thread, e)
      <4> HIDE DEF Holds
      <4> QED BY <2>4, <2>8 DEF Unheld
    <3>3. Done(thread, e) \/ \E q \in Queue : e \in Range(queue[q].entries) /\ ~queue'[q].live
      BY <2>1, <3>1, <3>2, Zenon DEF LosesNone
    <3> QED BY <2>4, <3>3 DEF Done
  <2> QED BY <2>7, <2>8 DEF H
<1> QED BY <1>1, QueuesGood, PTL DEF Spec, NothingLost

(* Whatever ends a wait or lets a thread stop, a queue that may run one    *)
(* more thread comes to keep entries beside waiters only through the       *)
(* kernel APC of a thread in its wait for the queue.                       *)
THEOREM QueuesStrandNothing == Spec => EntriesNotStranded
<1>1. QueueInv /\ [Next]_vars =>
         \A q \in Queue : ~Stranded(q) /\ Stranded(q)' =>
            \E t \in Thread : /\ thread[t].in = "swapped" /\ thread[t].wrQueue
                              /\ thread[t].queue = q /\ kernelApc[t] /\ ~kernelApc'[t]
  <2> SUFFICES ASSUME QueueInv, [Next]_vars, NEW q \in Queue, ~Stranded(q), Stranded(q)'
               PROVE  Excused(q)
    BY DEF Excused
  <2>1. Strands(q)
    BY NextBounds DEF Bounds
  <2> QED BY <2>1 DEF Strands, Strand, Stranded
<1> QED BY <1>1, QueuesGood, PTL DEF Spec, EntriesNotStranded

(* No thread is handed an entry, by an insertion, by another thread that   *)
(* stops or by its own look at the queue, while as many as the maximum     *)
(* run.                                                                    *)
THEOREM QueuesLimitConcurrency == Spec => ConcurrencyLimited
<1>1. QueueInv /\ [Next]_vars =>
         \A t \in Thread, q \in Queue : ~Has(t) /\ Has(t)' /\ q = thread'[t].queue =>
            Cardinality(Active(q)') <= Maximum
  <2> SUFFICES ASSUME QueueInv, [Next]_vars, NEW t \in Thread, NEW q \in Queue,
                      ~Has(t), Has(t)', q = thread'[t].queue
               PROVE  Cardinality(Active(q)') <= Maximum
    OBVIOUS
  <2>1. Good(queue', thread')
    BY NextGood DEF QueueInv
  <2>2. Holds(thread[t]) = {} /\ Holds(thread'[t]) # {}
    BY DEF Has, Holds
  <2>3. queue'[q].count <= Maximum
    <3>1. Limits
      BY NextBounds DEF Bounds
    <3> HIDE DEF Holds
    <3> QED BY <2>2, <3>1 DEF Limits
  <2>4. Listed(thread', q, queue'[q])
    <3>1. queue'[q].live
      BY <2>1, KeQueueAssumption DEF Good
    <3> QED BY <2>1, <3>1 DEF Good
  <2>5. queue'[q].count = NumberActive(thread', q)
    BY <2>4 DEF Listed
  <2>6. NumberActive(thread', q) = Cardinality(Active(q)')
    BY Zenon DEF NumberActive, Counts, Active
  <2> QED BY <2>3, <2>5, <2>6
<1> QED BY <1>1, QueuesGood, PTL DEF Spec, ConcurrencyLimited
=============================================================================
