--------------------------- MODULE KeThreadProofs ---------------------------
(***************************************************************************)
(* Proofs about threads.  KeSuspend: SuspendedStops, ApcsDelivered and     *)
(* NoApcAtExit hold for any APCs, any limit of suspensions and any nesting *)
(* of regions.  KeSched: HighestRuns holds for any threads, priorities,    *)
(* quanta and increments.                                                  *)
(***************************************************************************)
EXTENDS KeSuspend, KeSched, WaitListProofs, FiniteSetTheorems, WellFoundedInduction

-----------------------------------------------------------------------------
(* Part 1, KeSuspend: kernel APCs and suspension.                          *)

Frame == {"code", "deliver", "normal", "suspend"}

(* What a thread can be executing: its code, KiDeliverApc in it, one       *)
(* normal routine, KiDeliverApc in that.                                   *)
Nested(f) ==
    /\ f \in Seq(Frame) /\ Len(f) \in 1..4
    /\ f[1] = "code"
    /\ Len(f) > 1 => f[2] = "deliver"
    /\ Len(f) > 2 => f[3] \in {"normal", "suspend"}
    /\ Len(f) > 3 => f[4] = "deliver"

SpecialsFirst(s) ==
    \A i, j \in DOMAIN s : i < j /\ s[j] \in Special => s[i] \in Special

Typed ==
    /\ state \in {"ready", "running", "waiting", "terminated"}
    /\ phase \in {"alive", "entered", "disabled", "resumed", "left", "flushed", "exited"}
    /\ pending \in BOOLEAN /\ inProgress \in BOOLEAN /\ queueable \in BOOLEAN
    /\ disable \in 0..MaxRegions /\ interrupt \in BOOLEAN
    /\ suspendCount \in 0..MaximumSuspendCount
    /\ signal \in Nat

(* A normal routine is in progress while its frame is there; the code and  *)
(* a normal routine are what can be leaving a region.                      *)
NestingOK ==
    /\ Nested(frames)
    /\ inProgress <=> Len(frames) > 2
    /\ leaving \subseteq {1, 3}
    /\ 3 \in leaving => Len(frames) > 2 /\ frames[3] = "normal"

ListOK ==
    /\ list \in Seq(Apc)
    /\ IsInjective(list)
    /\ SpecialsFirst(list)

(* Only the running thread has an interrupt requested, and one that is     *)
(* lost leaves KernelApcPending set as long as there is an APC.            *)
InterruptOK ==
    /\ interrupt => state = "running"
    /\ interrupt /\ list # <<>> => pending

(* The semaphore's count, and who waits for it.                            *)
SemaphoreOK ==
    /\ SuspensionsBalance
    /\ state = "waiting" /\ Top = "suspend" => signal = 0

(* The second conjunct of ApcsDelivered.                                   *)
NotStranded ==
    Deliverable /\ Top # "deliver" /\ ~Leaving =>
        \/ state = "running" /\ interrupt
        \/ state = "ready" /\ pending
        \/ state = "terminated"

(* How far the exit is says who can still queue an APC, whether normal     *)
(* ones are disabled, and what has been undone.                            *)
PhaseOK ==
    /\ queueable <=> phase \in {"alive", "entered"}
    /\ phase \in {"entered", "disabled", "resumed"}
          => disable = 1 /\ leaving = {} /\ Len(frames) < 3
    /\ phase \in {"left", "flushed", "exited"} => disable = 0 /\ leaving \subseteq {1}
    /\ phase \in {"resumed", "left", "flushed", "exited"} => suspendCount = 0
    /\ phase \in {"flushed", "exited"} => list = <<>> /\ Len(frames) < 3

IInv ==
    /\ Typed /\ NestingOK /\ ListOK /\ InterruptOK
    /\ SemaphoreOK /\ NotStranded /\ PhaseOK

-----------------------------------------------------------------------------
(* What is executed.                                                       *)

(* Where the innermost frame is says what it is.                           *)
LEMMA NestingFacts ==
    ASSUME NEW f, Nested(f)
    PROVE  /\ f # <<>> /\ DOMAIN f = 1..Len(f) /\ Last(f) = f[Len(f)]
           /\ Last(f) = "code" <=> Len(f) = 1
           /\ f = <<"code">> <=> Len(f) = 1
           /\ Last(f) = "deliver" <=> Len(f) \in {2, 4}
           /\ Last(f) \in {"normal", "suspend"} <=> Len(f) = 3
           /\ Contains(f, "suspend") <=> Len(f) > 2 /\ f[3] = "suspend"
<1> DEFINE n == Len(f)
<1>1. n = 1 \/ n = 2 \/ n = 3 \/ n = 4
  BY DEF Nested
<1>2. DOMAIN f = 1..n /\ Last(f) = f[n] /\ f # <<>>
  BY DEF Nested, Last
<1>3. f = <<"code">> <=> n = 1
  <2>1. n = 1 => f = <<f[1]>>
    BY DEF Nested
  <2> QED
    BY <2>1 DEF Nested
<1>4. Contains(f, "suspend") <=> n > 2 /\ f[3] = "suspend"
  <2>1. ASSUME NEW i \in 1..n, f[i] = "suspend"
        PROVE  i = 3
    BY <1>1, <2>1 DEF Nested
  <2>2. n > 2 => 3 \in 1..n
    BY <1>1
  <2> QED
    BY <2>1, <2>2 DEF Contains
<1>5. /\ Last(f) = "code" <=> n = 1
      /\ Last(f) = "deliver" <=> n \in {2, 4}
      /\ Last(f) \in {"normal", "suspend"} <=> n = 3
  <2>1. CASE n = 1
    BY <1>2, <2>1 DEF Nested
  <2>2. CASE n = 2
    BY <1>2, <2>2 DEF Nested
  <2>3. CASE n = 3
    BY <1>2, <2>3 DEF Nested
  <2>4. CASE n = 4
    BY <1>2, <2>4 DEF Nested
  <2> QED
    BY <1>1, <2>1, <2>2, <2>3, <2>4
<1> HIDE DEF n
<1> QED
  BY <1>2, <1>3, <1>4, <1>5 DEF n

LEMMA AppendFacts ==
    ASSUME NEW s \in Seq(Frame), NEW e \in Frame, NEW g, g = Append(s, e)
    PROVE  /\ g \in Seq(Frame) /\ Len(g) = Len(s) + 1
           /\ \A i \in 1..Len(s) : g[i] = s[i]
           /\ g[Len(s) + 1] = e
OBVIOUS

LEMMA FrontFacts ==
    ASSUME NEW T, NEW s \in Seq(T), s # <<>>
    PROVE  /\ Front(s) \in Seq(T) /\ Len(Front(s)) = Len(s) - 1
           /\ \A i \in 1..(Len(s) - 1) : Front(s)[i] = s[i]
<1> DEFINE n == Len(s)
           f == SubSeq(s, 1, n - 1)
<1>1. n \in Nat \ {0} /\ DOMAIN s = 1..n
  OBVIOUS
<1>2. f \in Seq(T) /\ DOMAIN f = 1..(n - 1)
  BY <1>1
<1>3. \A i \in 1..(n - 1) : f[i] = s[i]
  BY <1>1
<1>4. Len(f) = n - 1
  BY <1>1, <1>2
<1> HIDE DEF f, n
<1>5. Front(s) = f
  BY DEF Front, f, n
<1> QED
  BY <1>2, <1>3, <1>4, <1>5 DEF n

(* KiDeliverApc begins in the code or in a normal routine.                 *)
LEMMA DeliverBegins ==
    ASSUME NEW f, Nested(f), Last(f) # "deliver",
           NEW g, g = Append(f, "deliver")
    PROVE  /\ Nested(g) /\ Len(g) = Len(f) + 1
           /\ Len(f) > 2 => g[3] = f[3]
<1>1. f \in Seq(Frame) /\ (Len(f) = 1 \/ Len(f) = 3)
  BY NestingFacts DEF Nested
<1>2. "deliver" \in Frame
  BY DEF Frame
<1>3. /\ g \in Seq(Frame) /\ Len(g) = Len(f) + 1
      /\ \A i \in 1..Len(f) : g[i] = f[i]
      /\ g[Len(f) + 1] = "deliver"
  BY <1>1, <1>2, AppendFacts
<1> QED
  BY <1>1, <1>3 DEF Nested

(* The innermost KiDeliverApc begins a normal routine.                     *)
LEMMA NormalBegins ==
    ASSUME NEW f, Nested(f), Len(f) = 2,
           NEW r, r \in {"normal", "suspend"},
           NEW g, g = Append(f, r)
    PROVE  Nested(g) /\ Len(g) = 3 /\ g[3] = r
<1>1. f \in Seq(Frame)
  BY DEF Nested
<1>2. r \in Frame
  BY DEF Frame
<1>3. /\ g \in Seq(Frame) /\ Len(g) = Len(f) + 1
      /\ \A i \in 1..Len(f) : g[i] = f[i]
      /\ g[Len(f) + 1] = r
  BY <1>1, <1>2, AppendFacts
<1>4. Len(g) = 3 /\ g[1] = "code" /\ g[2] = "deliver" /\ g[3] = r
  BY <1>3 DEF Nested
<1> QED
  BY <1>3, <1>4 DEF Nested

(* KiDeliverApc, or the normal routine, returns.                           *)
LEMMA InnermostReturns ==
    ASSUME NEW f, Nested(f), Len(f) > 1,
           NEW g, g = Front(f)
    PROVE  /\ Nested(g) /\ Len(g) = Len(f) - 1
           /\ Len(g) > 2 => g[3] = f[3]
<1>1. f \in Seq(Frame) /\ f # <<>> /\ Len(f) \in 2..4
  BY NestingFacts DEF Nested
<1>2. /\ g \in Seq(Frame) /\ Len(g) = Len(f) - 1
      /\ \A i \in 1..(Len(f) - 1) : g[i] = f[i]
  BY <1>1, FrontFacts
<1> QED
  BY <1>1, <1>2 DEF Nested

(* KiSuspendThread has got its unit: it is like any normal routine.        *)
LEMMA SuspendEnds ==
    ASSUME NEW f, Nested(f), Last(f) = "suspend",
           NEW g, g = Append(Front(f), "normal")
    PROVE  Nested(g) /\ Len(f) = 3 /\ Len(g) = 3 /\ g[3] = "normal"
<1>1. Len(f) = 3 /\ Len(f) > 1
  BY NestingFacts
<1>2. Nested(Front(f)) /\ Len(Front(f)) = 2
  <2> DEFINE h == Front(f)
  <2>1. Nested(h) /\ Len(h) = Len(f) - 1
    BY <1>1, InnermostReturns
  <2> QED
    BY <1>1, <2>1
<1> QED
  BY <1>1, <1>2, NormalBegins

-----------------------------------------------------------------------------
(* The queue of APCs.                                                      *)

(* A part of 1..n that has with an index all below it is 1..m, where m is  *)
(* how many it has.                                                        *)
LEMMA InitialPart ==
    ASSUME NEW n \in Nat, NEW S \in SUBSET (1..n),
           \A i \in 1..n, j \in S : i < j => i \in S
    PROVE  Cardinality(S) \in 0..n /\ S = 1..Cardinality(S)
<1> DEFINE m == Cardinality(S)
<1>1. /\ IsFiniteSet(1..n) /\ Cardinality(1..n) = n
      /\ \A k \in Nat : IsFiniteSet(1..k) /\ Cardinality(1..k) = k
  BY FS_Interval
<1>2. IsFiniteSet(S) /\ m <= n
  BY <1>1, FS_Subset
<1>3. m \in Nat
  BY <1>2, FS_CardinalityType
<1>4. S \subseteq 1..m
  <2>1. ASSUME NEW j \in S
        PROVE  j <= m
    <3>1. 1..j \subseteq S /\ j \in Nat
      OBVIOUS
    <3> QED
      BY <1>1, <1>2, <3>1, FS_Subset
  <2> QED
    BY <1>3, <2>1
<1>5. S = 1..m
  <2>1. IsFiniteSet(1..m) /\ Cardinality(1..m) = m
    BY <1>1, <1>3
  <2> QED
    BY <1>4, <2>1, FS_Subset
<1> QED
  BY <1>2, <1>3, <1>5

(* KiInsertQueueApc passes over the special APCs that are there.           *)
LEMMA PositionFacts ==
    ASSUME ListOK, NEW apc
    PROVE  /\ Position(apc) \in 1..(Len(list) + 1)
           /\ \A i \in DOMAIN list : i < Position(apc) => apc \notin Special \/ list[i] \in Special
           /\ \A i \in DOMAIN list : i >= Position(apc) => list[i] \notin Special /\ apc \in Special
           /\ apc \notin Special => Position(apc) = Len(list) + 1
<1> DEFINE n == Len(list)
           S == {i \in DOMAIN list : list[i] \in Special}
<1>1. n \in Nat /\ DOMAIN list = 1..n
  BY DEF ListOK
<1>2. CASE apc \notin Special
  <2>1. Position(apc) = n + 1
    BY <1>1, <1>2 DEF Position
  <2> QED
    BY <1>1, <1>2, <2>1
<1>3. CASE apc \in Special
  <2>1. Position(apc) = 1 + Cardinality(S)
    BY <1>3 DEF Position
  <2>2. S \in SUBSET (1..n) /\ \A i \in 1..n, j \in S : i < j => i \in S
    BY <1>1 DEF ListOK, SpecialsFirst
  <2> HIDE DEF n, S
  <2>3. Cardinality(S) \in 0..n /\ S = 1..Cardinality(S)
    BY <1>1, <2>2, InitialPart
  <2>4. \A i \in 1..n : i \in S <=> i <= Cardinality(S)
    BY <1>1, <2>3
  <2>5. \A i \in 1..n : list[i] \in Special <=> i <= Cardinality(S)
    BY <1>1, <2>4 DEF S
  <2>6. \A i \in DOMAIN list : list[i] \in Special <=> i < Position(apc)
    BY <1>1, <2>1, <2>3, <2>5
  <2>7. Position(apc) \in 1..(n + 1)
    BY <1>1, <2>1, <2>3
  <2> QED
    BY <1>1, <1>3, <2>6, <2>7 DEF n
<1> QED
  BY <1>2, <1>3

LEMMA InsertAtFacts ==
    ASSUME NEW T, NEW s \in Seq(T), NEW e \in T, NEW p \in 1..(Len(s) + 1)
    PROVE  LET u == InsertAt(s, p, e)
           IN  /\ u \in Seq(T) /\ DOMAIN u = 1..(Len(s) + 1)
               /\ \A i \in 1..(Len(s) + 1) :
                     u[i] = IF i < p THEN s[i] ELSE IF i = p THEN e ELSE s[i - 1]
<1> DEFINE n == Len(s)
           a == SubSeq(s, 1, p - 1)
           b == <<e>>
           c == SubSeq(s, p, n)
           u == a \o b \o c
<1>1. n \in Nat /\ DOMAIN s = 1..n /\ p \in 1..(n + 1)
  OBVIOUS
<1>2. a \in Seq(T) /\ Len(a) = p - 1
  BY <1>1
<1>3. \A i \in 1..(p - 1) : a[i] = s[i]
  BY <1>1
<1>4. c \in Seq(T) /\ Len(c) = n - p + 1
  BY <1>1
<1>5. \A i \in 1..(n - p + 1) : c[i] = s[p + i - 1]
  BY <1>1
<1>6. b \in Seq(T) /\ Len(b) = 1 /\ b[1] = e
  OBVIOUS
<1> HIDE DEF a, b, c, n
<1> DEFINE d == a \o b
<1>7. /\ d \in Seq(T) /\ Len(d) = p
      /\ \A i \in 1..p : d[i] = IF i < p THEN s[i] ELSE e
  <2>1. /\ d \in Seq(T) /\ Len(d) = Len(a) + Len(b)
        /\ \A i \in 1..(Len(a) + Len(b)) : d[i] = IF i <= Len(a) THEN a[i] ELSE b[i - Len(a)]
    BY <1>2, <1>6, ConcatProperties
  <2> HIDE DEF d
  <2> QED
    BY <1>1, <1>2, <1>3, <1>6, <2>1
<1> HIDE DEF d
<1>8. /\ u \in Seq(T) /\ Len(u) = n + 1
      /\ \A i \in 1..(n + 1) : u[i] = IF i < p THEN s[i] ELSE IF i = p THEN e ELSE s[i - 1]
  <2>1. u = d \o c
    BY DEF d
  <2> HIDE DEF u
  <2>2. /\ u \in Seq(T) /\ Len(u) = Len(d) + Len(c)
        /\ \A i \in 1..(Len(d) + Len(c)) : u[i] = IF i <= Len(d) THEN d[i] ELSE c[i - Len(d)]
    BY <1>4, <1>7, <2>1, ConcatProperties
  <2>3. Len(u) = n + 1
    BY <1>1, <1>4, <1>7, <2>2
  <2>4. ASSUME NEW i \in 1..p
        PROVE  u[i] = IF i < p THEN s[i] ELSE e
    BY <1>1, <1>4, <1>7, <2>2, <2>4
  <2>5. ASSUME NEW i \in (p + 1)..(n + 1)
        PROVE  u[i] = s[i - 1]
    <3>1. u[i] = c[i - p]
      BY <1>1, <1>4, <1>7, <2>2, <2>5
    <3>2. i - p \in 1..(n - p + 1) /\ p + (i - p) - 1 = i - 1
      BY <1>1, <2>5
    <3> QED
      BY <1>5, <3>1, <3>2
  <2>6. ASSUME NEW i \in 1..(n + 1)
        PROVE  u[i] = IF i < p THEN s[i] ELSE IF i = p THEN e ELSE s[i - 1]
    <3>1. CASE i \in 1..p
      BY <1>1, <2>4, <3>1
    <3>2. CASE i \in (p + 1)..(n + 1)
      BY <1>1, <2>5, <3>2
    <3> QED
      BY <1>1, <3>1, <3>2
  <2> QED
    BY <2>2, <2>3, <2>6
<1>9. InsertAt(s, p, e) = u
  BY DEF InsertAt, a, b, c, d, n
<1>10. DOMAIN u = 1..(n + 1)
  BY <1>1, <1>8
<1> HIDE DEF u
<1> QED
  BY <1>8, <1>9, <1>10 DEF n

(* What an insertion leaves, and whose turn it is after it.                *)
LEMMA Inserted ==
    ASSUME KeSuspendAssumption, ListOK, NEW apc \in Apc, ~Contains(list, apc),
           NEW u, u = InsertAt(list, Position(apc), apc)
    PROVE  /\ u \in Seq(Apc) /\ IsInjective(u) /\ SpecialsFirst(u) /\ u # <<>>
           /\ \A x : Contains(u, x) <=> Contains(list, x) \/ x = apc
           /\ Head(u) \in Special
                 <=> apc \in Special \/ (list # <<>> /\ Head(list) \in Special)
<1> DEFINE n == Len(list)
           p == Position(apc)
<1>1. n \in Nat /\ DOMAIN list = 1..n /\ list \in Seq(Apc)
  BY DEF ListOK
<1>2. /\ p \in 1..(n + 1)
      /\ \A i \in DOMAIN list : i < p => apc \notin Special \/ list[i] \in Special
      /\ \A i \in DOMAIN list : i >= p => list[i] \notin Special /\ apc \in Special
  BY PositionFacts
<1>3. /\ u \in Seq(Apc) /\ DOMAIN u = 1..(n + 1)
      /\ \A i \in 1..(n + 1) : u[i] = IF i < p THEN list[i] ELSE IF i = p THEN apc ELSE list[i - 1]
  <2>1. p \in 1..(Len(list) + 1)
    BY <1>2
  <2> DEFINE v == InsertAt(list, p, apc)
  <2>2. /\ v \in Seq(Apc) /\ DOMAIN v = 1..(Len(list) + 1)
        /\ \A i \in 1..(Len(list) + 1) :
              v[i] = IF i < p THEN list[i] ELSE IF i = p THEN apc ELSE list[i - 1]
    <3> HIDE DEF p
    <3> QED
      BY <1>1, <2>1, InsertAtFacts
  <2>3. u = v
    OBVIOUS
  <2> HIDE DEF v
  <2> QED
    BY <2>2, <2>3
<1>4. u # <<>> /\ Head(u) = u[1] /\ Len(u) = n + 1
  BY <1>1, <1>3
<1>5. list # <<>> => n > 0 /\ Head(list) = list[1]
  BY <1>1
<1>6. \A i, j \in 1..n : list[i] = list[j] => i = j
  BY <1>1 DEF ListOK, IsInjective
<1>7. \A i \in 1..n : list[i] # apc
  BY <1>1 DEF Contains
<1>8. \A i, j \in 1..n : i < j /\ list[j] \in Special => list[i] \in Special
  BY <1>1 DEF ListOK, SpecialsFirst
<1>9. n > 0 => list # <<>>
  BY <1>1
<1> HIDE DEF n, p
<1>10. IsInjective(u)
  <2>1. ASSUME NEW i \in 1..(n + 1), NEW j \in 1..(n + 1), u[i] = u[j]
        PROVE  i = j
    BY <1>1, <1>2, <1>3, <1>6, <1>7, <2>1
  <2> QED
    BY <1>3, <2>1 DEF IsInjective
<1>11. SpecialsFirst(u)
  <2>1. ASSUME NEW i \in 1..(n + 1), NEW j \in 1..(n + 1), i < j, u[j] \in Special
        PROVE  u[i] \in Special
    BY <1>1, <1>2, <1>3, <1>8, <2>1
  <2> QED
    BY <1>3, <2>1 DEF SpecialsFirst
<1>12. ASSUME NEW x
       PROVE  Contains(u, x) <=> Contains(list, x) \/ x = apc
  <2>1. ASSUME NEW i \in 1..(n + 1)
        PROVE  u[i] = apc \/ \E k \in 1..n : u[i] = list[k]
    BY <1>1, <1>2, <1>3, <2>1
  <2>2. ASSUME NEW k \in 1..n
        PROVE  \E i \in 1..(n + 1) : u[i] = list[k]
    <3>1. CASE k < p
      BY <1>1, <1>3, <3>1
    <3>2. CASE k >= p
      <4>1. k + 1 \in 1..(n + 1) /\ ~(k + 1 < p) /\ k + 1 # p /\ k + 1 - 1 = k
        BY <1>1, <1>2, <3>2
      <4> QED
        BY <1>3, <4>1
    <3> QED
      BY <1>1, <1>2, <3>1, <3>2
  <2>3. p \in 1..(n + 1) /\ u[p] = apc
    BY <1>1, <1>2, <1>3
  <2> QED
    BY <1>4, <2>1, <2>2, <2>3 DEF Contains, n
<1>13. Head(u) \in Special <=> apc \in Special \/ (list # <<>> /\ Head(list) \in Special)
  <2>1. CASE p = 1
    BY <1>1, <1>2, <1>3, <1>4, <1>5, <2>1
  <2>2. CASE p # 1
    <3>1. n > 0 /\ u[1] = list[1] /\ 1 \in DOMAIN list /\ 1 < p
      BY <1>1, <1>2, <1>3, <2>2
    <3> QED
      BY <1>2, <1>4, <1>5, <1>9, <3>1
  <2> QED
    BY <2>1, <2>2
<1> QED
  BY <1>3, <1>4, <1>10, <1>11, <1>12, <1>13

(* What the removal of an APC leaves.  A normal APC gets its turn only     *)
(* when there was no special one before it.                                *)
LEMMA Removed ==
    ASSUME ListOK, NEW apc, NEW u, u = Unlink(list, apc)
    PROVE  /\ u \in Seq(Apc) /\ IsInjective(u) /\ SpecialsFirst(u)
           /\ \A x : Contains(u, x) <=> Contains(list, x) /\ x # apc
           /\ u # <<>> => /\ list # <<>>
                          /\ Head(u) \in Special => Head(list) \in Special
<1>1. list \in Seq(Apc) /\ DOMAIN list = 1..Len(list) /\ Len(list) \in Nat
  BY DEF ListOK
<1>2. u \in Seq(Apc) /\ IsInjective(u) /\ Range(u) = Range(list) \ {apc}
  BY UnlinkProperties DEF ListOK
<1>3. DOMAIN u = 1..Len(u) /\ Len(u) \in Nat
  BY <1>2
<1>4. SpecialsFirst(u)
  <2>1. ASSUME NEW i \in DOMAIN u, NEW j \in DOMAIN u, i < j, u[j] \in Special
        PROVE  u[i] \in Special
    <3>1. \E k, l \in DOMAIN list : k < l /\ list[k] = u[i] /\ list[l] = u[j]
      BY <1>1, <2>1, UnlinkKeepsOrder
    <3> QED
      BY <2>1, <3>1 DEF ListOK, SpecialsFirst
  <2> QED
    BY <2>1 DEF SpecialsFirst
<1>5. \A x : /\ Contains(u, x) <=> x \in Range(u)
             /\ Contains(list, x) <=> x \in Range(list)
  BY <1>1, <1>3 DEF Contains, Range
<1>6. ASSUME u # <<>>
      PROVE  list # <<>> /\ (Head(u) \in Special => Head(list) \in Special)
  <2>1. Head(u) = u[1] /\ Head(u) \in Range(u)
    BY <1>2, <1>3, <1>6 DEF Range
  <2>2. PICK k \in 1..Len(list) : list[k] = Head(u)
    BY <1>1, <1>2, <2>1 DEF Range
  <2>3. list # <<>> /\ Head(list) = list[1] /\ 1 \in DOMAIN list
    BY <1>1, <2>2
  <2>4. k = 1 \/ 1 < k
    BY <2>2
  <2> QED
    BY <1>1, <2>2, <2>3, <2>4 DEF ListOK, SpecialsFirst
<1> QED
  BY <1>2, <1>4, <1>5, <1>6

(* What is left when the first APC goes.                                   *)
LEMMA FirstRemoved ==
    ASSUME ListOK, list # <<>>
    PROVE  /\ Head(list) \in Apc
           /\ Tail(list) \in Seq(Apc) /\ IsInjective(Tail(list)) /\ SpecialsFirst(Tail(list))
           /\ \A x : Contains(Tail(list), x) <=> Contains(list, x) /\ x # Head(list)
           /\ Tail(list) # <<>> /\ Head(Tail(list)) \in Special => Head(list) \in Special
<1> DEFINE u == Tail(list)
<1>1. /\ list \in Seq(Apc) /\ DOMAIN list = 1..Len(list) /\ Len(list) \in Nat \ {0}
      /\ Head(list) = list[1]
  BY DEF ListOK
<1>2. /\ u \in Seq(Apc) /\ IsInjective(u) /\ Range(u) = Range(list) \ {Head(list)}
      /\ Head(list) \in Apc
  BY <1>1, TailScans DEF ListOK
<1>3. /\ DOMAIN u = 1..(Len(list) - 1) /\ Len(u) = Len(list) - 1
      /\ \A i \in 1..(Len(list) - 1) : u[i] = list[i + 1]
  BY <1>1
<1> HIDE DEF u
<1>4. SpecialsFirst(u)
  <2>1. ASSUME NEW i \in DOMAIN u, NEW j \in DOMAIN u, i < j, u[j] \in Special
        PROVE  u[i] \in Special
    <3>1. i + 1 \in DOMAIN list /\ j + 1 \in DOMAIN list /\ i + 1 < j + 1
      BY <1>1, <1>3, <2>1
    <3>2. u[i] = list[i + 1] /\ u[j] = list[j + 1]
      BY <1>3, <2>1
    <3> QED
      BY <2>1, <3>1, <3>2 DEF ListOK, SpecialsFirst
  <2> QED
    BY <2>1 DEF SpecialsFirst
<1>5. \A x : /\ Contains(u, x) <=> x \in Range(u)
             /\ Contains(list, x) <=> x \in Range(list)
  BY <1>1, <1>3 DEF Contains, Range
<1>6. ASSUME u # <<>>, Head(u) \in Special
      PROVE  Head(list) \in Special
  <2>1. Head(u) = u[1] /\ 1 \in DOMAIN u
    BY <1>2, <1>3, <1>6
  <2>2. Head(u) = list[2] /\ 1 \in DOMAIN list /\ 2 \in DOMAIN list
    BY <1>1, <1>3, <2>1
  <2> QED
    BY <1>1, <1>6, <2>2 DEF ListOK, SpecialsFirst
<1> QED
  BY <1>2, <1>4, <1>5, <1>6 DEF u

-----------------------------------------------------------------------------
(* Steps.                                                                  *)

(* What the place of the innermost frame says.                             *)
LEMMA Innermost ==
    ASSUME IInv
    PROVE  /\ Len(frames) \in 1..4
           /\ Top = "code" <=> Len(frames) = 1
           /\ frames = <<"code">> <=> Len(frames) = 1
           /\ Top = "deliver" <=> Len(frames) \in {2, 4}
           /\ Top \in {"normal", "suspend"} <=> Len(frames) = 3
           /\ Len(frames) = 3 => Top = frames[3]
           /\ Len(frames) > 2 => frames[3] \in {"normal", "suspend"}
           /\ Contains(frames, "suspend") <=> Len(frames) > 2 /\ frames[3] = "suspend"
<1>1. Nested(frames)
  BY DEF IInv, NestingOK
<1>2. Len(frames) \in 1..4 /\ (Len(frames) > 2 => frames[3] \in {"normal", "suspend"})
  BY <1>1 DEF Nested
<1> QED
  BY <1>1, <1>2, NestingFacts DEF Top

(* The same after a step.                                                  *)
LEMMA InnermostAfter ==
    ASSUME Nested(frames')
    PROVE  /\ Len(frames') \in 1..4
           /\ Top' = "deliver" <=> Len(frames') \in {2, 4}
           /\ Top' \in {"normal", "suspend"} <=> Len(frames') = 3
           /\ Len(frames') = 3 => Top' = frames'[3]
           /\ Contains(frames', "suspend") <=> Len(frames') > 2 /\ frames'[3] = "suspend"
<1>1. Len(frames') \in 1..4
  BY DEF Nested
<1> QED
  BY <1>1, NestingFacts DEF Top

(* A wait begins in the code or in a normal routine.                       *)
LEMMA WaitKeeps ==
    ASSUME KeSuspendAssumption, IInv, Wait
    PROVE  IInv'
<1>1. NestingOK' /\ ListOK'
  BY DEF IInv, Wait, NestingOK, ListOK
<1>2. Typed'
  BY DEF IInv, Wait, Typed
<1>3. InterruptOK'
  BY DEF IInv, Wait, InterruptOK, Executes
<1>4. SemaphoreOK'
  BY Innermost DEF IInv, Wait, SemaphoreOK, SuspensionsBalance, Waits, Top,
     Executes
<1>5. NotStranded'
  BY DEF IInv, Wait, NotStranded, Deliverable, MayRunNormal, Leaving, Top,
     Executes
<1>6. PhaseOK'
  BY DEF IInv, Wait, PhaseOK, Executes
<1> QED
  BY <1>1, <1>2, <1>3, <1>4, <1>5, <1>6 DEF IInv

(* It ends.                                                                *)
LEMMA SignalKeeps ==
    ASSUME KeSuspendAssumption, IInv, Signal
    PROVE  IInv'
<1>1. NestingOK' /\ ListOK'
  BY DEF IInv, Signal, NestingOK, ListOK
<1>2. Typed'
  BY DEF IInv, Signal, Typed
<1>3. InterruptOK'
  BY DEF IInv, Signal, InterruptOK
<1>4. SemaphoreOK'
  BY DEF IInv, Signal, SemaphoreOK, SuspensionsBalance, Waits, Top
<1>5. NotStranded'
  BY DEF IInv, Signal, NotStranded, Deliverable, MayRunNormal, Leaving, Top
<1>6. PhaseOK'
  BY DEF IInv, Signal, PhaseOK
<1> QED
  BY <1>1, <1>2, <1>3, <1>4, <1>5, <1>6 DEF IInv

(* The interrupt that goes off in another thread leaves KernelApcPending.  *)
LEMMA PreemptKeeps ==
    ASSUME KeSuspendAssumption, IInv, Preempt
    PROVE  IInv'
<1>1. NestingOK' /\ ListOK'
  BY DEF IInv, Preempt, NestingOK, ListOK
<1>2. Typed'
  BY DEF IInv, Preempt, Typed
<1>3. InterruptOK'
  BY DEF IInv, Preempt, InterruptOK
<1>4. SemaphoreOK'
  BY DEF IInv, Preempt, SemaphoreOK, SuspensionsBalance, Waits, Top
<1>5. NotStranded'
  BY DEF IInv, Preempt, NotStranded, Deliverable, MayRunNormal, Leaving,
     Top, InterruptOK, NestingOK
<1>6. PhaseOK'
  BY DEF IInv, Preempt, PhaseOK
<1> QED
  BY <1>1, <1>2, <1>3, <1>4, <1>5, <1>6 DEF IInv

(* A region disables normal APCs.                                          *)
LEMMA KeEnterCriticalRegionKeeps ==
    ASSUME KeSuspendAssumption, IInv, KeEnterCriticalRegion
    PROVE  IInv'
<1>1. NestingOK' /\ ListOK'
  BY DEF IInv, KeEnterCriticalRegion, NestingOK, ListOK
<1>2. Typed'
  BY Innermost DEF IInv, KeEnterCriticalRegion, Typed, Enter,
     KeSuspendAssumption
<1>3. InterruptOK'
  BY DEF IInv, KeEnterCriticalRegion, InterruptOK
<1>4. SemaphoreOK'
  BY DEF IInv, KeEnterCriticalRegion, SemaphoreOK, SuspensionsBalance,
     Waits, Top
<1>5. NotStranded'
  BY DEF IInv, KeEnterCriticalRegion, NotStranded, Deliverable,
     MayRunNormal, Leaving, Top, Executes, Enter, Typed
<1>6. PhaseOK'
  BY DEF IInv, KeEnterCriticalRegion, PhaseOK, Enter
<1> QED
  BY <1>1, <1>2, <1>3, <1>4, <1>5, <1>6 DEF IInv

(* From here the frame is leaving, and its test stands out.                *)
LEMMA KeLeaveCriticalRegionKeeps ==
    ASSUME KeSuspendAssumption, IInv, KeLeaveCriticalRegion
    PROVE  IInv'
<1>1. Len(frames) = 1 \/ (Len(frames) = 3 /\ frames[3] = "normal")
  BY Innermost DEF KeLeaveCriticalRegion
<1>2. NestingOK'
  <2>1. leaving' \subseteq leaving \cup {Len(frames)} /\ UNCHANGED <<frames, inProgress>>
    BY DEF KeLeaveCriticalRegion, Leave
  <2>2. leaving' \subseteq {1, 3} /\ (3 \in leaving' => Len(frames) > 2 /\ frames[3] = "normal")
    BY <1>1, <2>1 DEF IInv, NestingOK
  <2> QED
    BY <2>1, <2>2 DEF IInv, NestingOK
<1>3. ListOK'
  BY DEF IInv, KeLeaveCriticalRegion, ListOK
<1>4. Typed'
  BY DEF IInv, KeLeaveCriticalRegion, Typed, Leave
<1>5. InterruptOK'
  BY DEF IInv, KeLeaveCriticalRegion, InterruptOK
<1>6. SemaphoreOK'
  BY DEF IInv, KeLeaveCriticalRegion, SemaphoreOK, SuspensionsBalance,
     Waits, Top
<1>7. NotStranded'
  BY DEF IInv, KeLeaveCriticalRegion, NotStranded, Deliverable,
     MayRunNormal, Leaving, Top, Leave, Typed
<1>8. PhaseOK'
  BY DEF IInv, KeLeaveCriticalRegion, PhaseOK, Leave
<1> QED
  BY <1>2, <1>3, <1>4, <1>5, <1>6, <1>7, <1>8 DEF IInv

(* The test makes up for the APCs that came while the region was left.     *)
LEMMA LeaveTestKeeps ==
    ASSUME KeSuspendAssumption, IInv, LeaveTest
    PROVE  IInv'
<1>1. ListOK'
  BY DEF IInv, LeaveTest, ListOK
<1>2. Typed'
  BY DEF IInv, LeaveTest, Typed
<1>3. NestingOK'
  BY DEF IInv, LeaveTest, NestingOK, Leaving
<1>4. InterruptOK'
  BY DEF IInv, LeaveTest, InterruptOK, Executes
<1>5. SemaphoreOK'
  BY DEF IInv, LeaveTest, SemaphoreOK, SuspensionsBalance, Waits, Top,
     Executes
<1>6. NotStranded'
  BY DEF IInv, LeaveTest, NotStranded, Deliverable, MayRunNormal, Leaving,
     Top, Executes
<1>7. PhaseOK'
  BY DEF IInv, LeaveTest, PhaseOK, Leaving
<1> QED
  BY <1>1, <1>2, <1>3, <1>4, <1>5, <1>6, <1>7 DEF IInv

(* PsTerminateSystemThread enters its region.                              *)
LEMMA ExitEnterRegionKeeps ==
    ASSUME KeSuspendAssumption, IInv, ExitEnterRegion
    PROVE  IInv'
<1>1. NestingOK' /\ ListOK'
  BY DEF IInv, ExitEnterRegion, NestingOK, ListOK
<1>2. Typed'
  BY DEF IInv, ExitEnterRegion, Typed, Enter, KeSuspendAssumption
<1>3. InterruptOK'
  BY DEF IInv, ExitEnterRegion, InterruptOK
<1>4. SemaphoreOK'
  BY DEF IInv, ExitEnterRegion, SemaphoreOK, SuspensionsBalance, Waits, Top
<1>5. NotStranded'
  BY DEF IInv, ExitEnterRegion, NotStranded, Deliverable, MayRunNormal,
     Leaving, Top, Enter
<1>6. PhaseOK'
  BY Innermost DEF IInv, ExitEnterRegion, PhaseOK, Enter, Leaving, NestingOK
<1> QED
  BY <1>1, <1>2, <1>3, <1>4, <1>5, <1>6 DEF IInv

(* No APC is queued from here.                                             *)
LEMMA KeDisableApcQueuingThreadKeeps ==
    ASSUME KeSuspendAssumption, IInv, KeDisableApcQueuingThread
    PROVE  IInv'
<1>1. NestingOK' /\ ListOK'
  BY DEF IInv, KeDisableApcQueuingThread, NestingOK, ListOK
<1>2. Typed'
  BY DEF IInv, KeDisableApcQueuingThread, Typed
<1>3. InterruptOK'
  BY DEF IInv, KeDisableApcQueuingThread, InterruptOK
<1>4. SemaphoreOK'
  BY DEF IInv, KeDisableApcQueuingThread, SemaphoreOK, SuspensionsBalance,
     Waits, Top
<1>5. NotStranded'
  BY DEF IInv, KeDisableApcQueuingThread, NotStranded, Deliverable,
     MayRunNormal, Leaving, Top
<1>6. PhaseOK'
  BY DEF IInv, KeDisableApcQueuingThread, PhaseOK
<1> QED
  BY <1>1, <1>2, <1>3, <1>4, <1>5, <1>6 DEF IInv

(* The thread resumes itself.                                              *)
LEMMA KeForceResumeThreadKeeps ==
    ASSUME KeSuspendAssumption, IInv, KeForceResumeThread
    PROVE  IInv'
<1>1. NestingOK' /\ ListOK'
  BY DEF IInv, KeForceResumeThread, NestingOK, ListOK, ReleaseSemaphore,
     Executes
<1>2. Typed'
  BY DEF IInv, KeForceResumeThread, Typed, ReleaseSemaphore, Executes
<1>3. InterruptOK'
  BY DEF IInv, KeForceResumeThread, InterruptOK, ReleaseSemaphore, Executes
<1>4. SemaphoreOK'
  BY DEF IInv, KeForceResumeThread, SemaphoreOK, SuspensionsBalance, Waits,
     Top, ReleaseSemaphore, Executes, Typed
<1>5. NotStranded'
  BY DEF IInv, KeForceResumeThread, NotStranded, Deliverable, MayRunNormal,
     Leaving, Top, ReleaseSemaphore, Executes
<1>6. PhaseOK'
  BY DEF IInv, KeForceResumeThread, PhaseOK, ReleaseSemaphore, Executes
<1> QED
  BY <1>1, <1>2, <1>3, <1>4, <1>5, <1>6 DEF IInv

(* PsTerminateSystemThread leaves its region.                              *)
LEMMA ExitLeaveRegionKeeps ==
    ASSUME KeSuspendAssumption, IInv, ExitLeaveRegion
    PROVE  IInv'
<1>1. Len(frames) = 1 \/ (Len(frames) = 3 /\ frames[3] = "normal")
  BY Innermost DEF ExitLeaveRegion, IInv
<1>2. NestingOK'
  <2>1. leaving' \subseteq leaving \cup {Len(frames)} /\ UNCHANGED <<frames, inProgress>>
    BY DEF ExitLeaveRegion, Leave
  <2>2. leaving' \subseteq {1, 3} /\ (3 \in leaving' => Len(frames) > 2 /\ frames[3] = "normal")
    BY <1>1, <2>1 DEF IInv, NestingOK
  <2> QED
    BY <2>1, <2>2 DEF IInv, NestingOK
<1>3. ListOK'
  BY DEF IInv, ExitLeaveRegion, ListOK
<1>4. Typed'
  BY DEF IInv, ExitLeaveRegion, Typed, Leave, PhaseOK
<1>5. InterruptOK'
  BY DEF IInv, ExitLeaveRegion, InterruptOK
<1>6. SemaphoreOK'
  BY DEF IInv, ExitLeaveRegion, SemaphoreOK, SuspensionsBalance, Waits, Top
<1>7. NotStranded'
  BY DEF IInv, ExitLeaveRegion, NotStranded, Deliverable, MayRunNormal,
     Leaving, Top, Leave, PhaseOK
<1>8. PhaseOK'
  <2>1. disable' = 0 /\ leaving' = {1}
    BY Innermost DEF IInv, ExitLeaveRegion, Leave, PhaseOK
  <2> QED
    BY <2>1 DEF IInv, ExitLeaveRegion, PhaseOK
<1> QED
  BY <1>2, <1>3, <1>4, <1>5, <1>6, <1>7, <1>8 DEF IInv

(* There is nothing to flush.                                              *)
LEMMA KeFlushQueueApcKeeps ==
    ASSUME KeSuspendAssumption, IInv, KeFlushQueueApc
    PROVE  IInv'
<1>1. list = <<>> /\ Len(frames) < 3
  BY Innermost DEF IInv, KeFlushQueueApc, NestingOK, NotStranded, Deliverable,
     MayRunNormal, PhaseOK, Executes
<1>2. Typed' /\ NestingOK'
  BY DEF IInv, KeFlushQueueApc, Typed, NestingOK
<1>3. ListOK'
  BY <1>1 DEF IInv, KeFlushQueueApc, ListOK
<1>4. InterruptOK'
  BY DEF IInv, KeFlushQueueApc, InterruptOK
<1>5. SemaphoreOK'
  BY <1>1 DEF IInv, KeFlushQueueApc, SemaphoreOK, SuspensionsBalance, Waits,
     Top
<1>6. NotStranded'
  BY DEF IInv, KeFlushQueueApc, NotStranded, Deliverable, MayRunNormal,
     Leaving, Top
<1>7. PhaseOK'
  BY <1>1 DEF IInv, KeFlushQueueApc, PhaseOK
<1> QED
  BY <1>2, <1>3, <1>4, <1>5, <1>6, <1>7 DEF IInv

(* The thread is gone.                                                     *)
LEMMA KeTerminateThreadKeeps ==
    ASSUME KeSuspendAssumption, IInv, KeTerminateThread
    PROVE  IInv'
<1>1. NestingOK' /\ ListOK'
  BY DEF IInv, KeTerminateThread, NestingOK, ListOK
<1>2. Typed'
  BY DEF IInv, KeTerminateThread, Typed
<1>3. InterruptOK'
  BY DEF IInv, KeTerminateThread, InterruptOK, Executes
<1>4. SemaphoreOK'
  BY DEF IInv, KeTerminateThread, SemaphoreOK, SuspensionsBalance, Waits,
     Top
<1>5. NotStranded'
  BY DEF IInv, KeTerminateThread, NotStranded, Deliverable, MayRunNormal,
     Leaving, Top
<1>6. PhaseOK'
  BY DEF IInv, KeTerminateThread, PhaseOK
<1> QED
  BY <1>1, <1>2, <1>3, <1>4, <1>5, <1>6 DEF IInv

(* The APC interrupt begins KiDeliverApc.                                  *)
LEMMA TakeInterruptKeeps ==
    ASSUME KeSuspendAssumption, IInv, TakeInterrupt
    PROVE  IInv'
<1>1. Len(frames) = 1 \/ Len(frames) = 3
  BY Innermost DEF TakeInterrupt
<1>2. /\ Nested(frames') /\ Len(frames') = Len(frames) + 1
      /\ Len(frames) > 2 => frames'[3] = frames[3]
  BY DeliverBegins DEF IInv, NestingOK, TakeInterrupt, Deliver, Push, Top
<1>3. /\ Top' = "deliver"
      /\ Contains(frames', "suspend") <=> Contains(frames, "suspend")
      /\ Len(frames) < 3 => Len(frames') < 3
      /\ Len(frames) > 2 <=> Len(frames') > 2
  <2>1. CASE Len(frames) = 1
    <3>1. Len(frames') = 2 /\ Len(frames) = 1
      BY <1>2, <2>1
    <3> QED
      BY <1>2, <3>1, Innermost, InnermostAfter
  <2>2. CASE Len(frames) = 3
    <3>1. Len(frames') = 4 /\ Len(frames) = 3 /\ frames'[3] = frames[3]
      BY <1>2, <2>2
    <3> QED
      BY <1>2, <3>1, Innermost, InnermostAfter
  <2> QED
    BY <1>1, <2>1, <2>2
<1>4. ListOK'
  BY DEF IInv, TakeInterrupt, ListOK
<1>5. Typed'
  BY DEF IInv, TakeInterrupt, Typed, Deliver
<1>6. NestingOK'
  BY <1>2, <1>3 DEF IInv, TakeInterrupt, NestingOK
<1>7. InterruptOK'
  BY DEF IInv, TakeInterrupt, InterruptOK
<1>8. SemaphoreOK'
  BY <1>3 DEF IInv, TakeInterrupt, SemaphoreOK, SuspensionsBalance, Waits,
     Top
<1>9. NotStranded'
  BY <1>3 DEF IInv, TakeInterrupt, NotStranded, Deliverable, MayRunNormal,
     Leaving, Top
<1>10. PhaseOK'
  BY <1>3 DEF IInv, TakeInterrupt, PhaseOK
<1> QED
  BY <1>4, <1>5, <1>6, <1>7, <1>8, <1>9, <1>10 DEF IInv

(* A special APC is delivered.                                             *)
LEMMA DeliverSpecialKeeps ==
    ASSUME KeSuspendAssumption, IInv, DeliverSpecial
    PROVE  IInv'
<1>1. /\ list' \in Seq(Apc) /\ IsInjective(list') /\ SpecialsFirst(list')
      /\ Contains(list', SuspendApc) <=> Contains(list, SuspendApc)
      /\ list' # <<>> /\ Head(list') \in Special => list # <<>> /\ Head(list) \in Special
      /\ list' # <<>> => list # <<>>
  BY FirstRemoved DEF IInv, DeliverSpecial, KeSuspendAssumption
<1>2. Typed' /\ NestingOK'
  BY DEF IInv, DeliverSpecial, Typed, NestingOK
<1>3. ListOK'
  BY <1>1 DEF IInv, DeliverSpecial, ListOK
<1>4. InterruptOK'
  BY <1>1 DEF IInv, DeliverSpecial, InterruptOK
<1>5. SemaphoreOK'
  BY <1>1 DEF IInv, DeliverSpecial, SemaphoreOK, SuspensionsBalance, Waits,
     Top
<1>6. NotStranded'
  BY DEF IInv, DeliverSpecial, NotStranded, Deliverable, MayRunNormal,
     Leaving, Top
<1>7. PhaseOK'
  BY <1>1 DEF IInv, DeliverSpecial, PhaseOK
<1> QED
  BY <1>2, <1>3, <1>4, <1>5, <1>6, <1>7 DEF IInv

(* An APC is taken out of the queue.                                       *)
LEMMA KeRemoveQueueApcKeeps ==
    ASSUME KeSuspendAssumption, IInv, NEW apc \in Apc, KeRemoveQueueApc(apc)
    PROVE  IInv'
<1>1. /\ list' \in Seq(Apc) /\ IsInjective(list') /\ SpecialsFirst(list')
      /\ Contains(list', SuspendApc) <=> Contains(list, SuspendApc)
      /\ list' # <<>> /\ Head(list') \in Special => list # <<>> /\ Head(list) \in Special
      /\ list' # <<>> => list # <<>>
  BY Removed DEF IInv, KeRemoveQueueApc
<1>2. NestingOK'
  BY DEF IInv, KeRemoveQueueApc, NestingOK
<1>3. Typed'
  BY DEF IInv, KeRemoveQueueApc, Typed
<1>4. ListOK'
  BY <1>1 DEF IInv, KeRemoveQueueApc, ListOK
<1>5. InterruptOK'
  BY <1>1 DEF IInv, KeRemoveQueueApc, InterruptOK
<1>6. SemaphoreOK'
  BY <1>1 DEF IInv, KeRemoveQueueApc, SemaphoreOK, SuspensionsBalance,
     Waits, Top
<1>7. NotStranded'
  BY <1>1 DEF IInv, KeRemoveQueueApc, NotStranded, Deliverable,
     MayRunNormal, Leaving, Top, InterruptOK, NestingOK
<1>8. PhaseOK'
  BY <1>1 DEF IInv, KeRemoveQueueApc, PhaseOK
<1> QED
  BY <1>2, <1>3, <1>4, <1>5, <1>6, <1>7, <1>8 DEF IInv

(* What every insertion does.                                              *)
LEMMA InsertionKeeps ==
    ASSUME KeSuspendAssumption, IInv, NEW apc \in Apc, ~Contains(list, apc),
           InsertQueueApc(apc),
           UNCHANGED <<frames, phase, inProgress, queueable, disable, leaving>>
    PROVE  /\ NestingOK' /\ ListOK' /\ InterruptOK' /\ NotStranded'
           /\ Contains(list', SuspendApc) <=> Contains(list, SuspendApc) \/ apc = SuspendApc
           /\ state' \in {state, "ready"} /\ pending' /\ interrupt' \in BOOLEAN
<1>1. /\ list' \in Seq(Apc) /\ IsInjective(list') /\ SpecialsFirst(list') /\ list' # <<>>
      /\ Contains(list', SuspendApc) <=> Contains(list, SuspendApc) \/ apc = SuspendApc
      /\ Head(list') \in Special
            <=> apc \in Special \/ (list # <<>> /\ Head(list) \in Special)
  BY Inserted DEF IInv, InsertQueueApc
<1>2. NestingOK' /\ ListOK'
  BY <1>1 DEF IInv, NestingOK, ListOK
<1>3. state' \in {state, "ready"} /\ pending' /\ interrupt' \in BOOLEAN
  BY DEF IInv, InsertQueueApc, Typed
<1>4. InterruptOK'
  BY <1>1 DEF IInv, InsertQueueApc, InterruptOK
<1>5. NotStranded'
  <2>1. CASE state = "running"
    BY <2>1 DEF InsertQueueApc, NotStranded
  <2>2. CASE state \in {"ready", "terminated"}
    BY <2>2 DEF InsertQueueApc, NotStranded
  <2>3. CASE state = "waiting" /\ Unwaits(apc)
    BY <2>3 DEF InsertQueueApc, NotStranded
  <2>4. CASE state = "waiting" /\ ~Unwaits(apc)
    BY <1>1, <2>4 DEF IInv, InsertQueueApc, NotStranded, Deliverable, MayRunNormal,
       Leaving, Top, Unwaits, Typed
  <2> QED
    BY <2>1, <2>2, <2>3, <2>4 DEF IInv, Typed
<1> QED
  BY <1>1, <1>2, <1>3, <1>4, <1>5

(* Another thread or a DPC queues an APC.                                  *)
LEMMA KeInsertQueueApcKeeps ==
    ASSUME KeSuspendAssumption, IInv, NEW apc \in Apc, KeInsertQueueApc(apc)
    PROVE  IInv'
<1>1. /\ NestingOK' /\ ListOK' /\ InterruptOK' /\ NotStranded'
      /\ Contains(list', SuspendApc) <=> Contains(list, SuspendApc)
      /\ state' \in {state, "ready"} /\ pending' /\ interrupt' \in BOOLEAN
  BY InsertionKeeps DEF KeInsertQueueApc
<1>2. Typed'
  BY <1>1 DEF IInv, KeInsertQueueApc, Typed
<1>3. SemaphoreOK'
  BY <1>1 DEF IInv, KeInsertQueueApc, SemaphoreOK, SuspensionsBalance, Waits, Top
<1>4. PhaseOK'
  BY DEF IInv, KeInsertQueueApc, PhaseOK
<1> QED
  BY <1>1, <1>2, <1>3, <1>4 DEF IInv

(* A suspension queues its APC, or takes back what a resumption gave.      *)
LEMMA KeSuspendThreadKeeps ==
    ASSUME KeSuspendAssumption, IInv, KeSuspendThread
    PROVE  IInv'
<1>1. PhaseOK'
  BY DEF IInv, KeSuspendThread, PhaseOK
<1>2. CASE suspendCount # 0 \/ Contains(list, SuspendApc)
  <2>1. /\ UNCHANGED <<list, pending, interrupt, state>>
        /\ suspendCount' = suspendCount + 1
        /\ signal' = IF suspendCount = 0 THEN signal - 1 ELSE signal
    BY <1>2 DEF KeSuspendThread, Suspend, IInv, Typed
  <2>2. suspendCount = 0 => signal > 0
    BY <1>2 DEF IInv, SemaphoreOK, SuspensionsBalance, Waits
  <2>3. Typed'
    BY <2>1, <2>2 DEF IInv, KeSuspendThread, Typed, KeSuspendAssumption
  <2>4. NestingOK' /\ ListOK' /\ InterruptOK'
    BY <2>1 DEF IInv, KeSuspendThread, NestingOK, ListOK, InterruptOK
  <2>5. SemaphoreOK'
    BY <2>1, <2>2 DEF IInv, KeSuspendThread, SemaphoreOK, SuspensionsBalance, Waits, Top,
       Typed
  <2>6. NotStranded'
    BY <2>1 DEF IInv, KeSuspendThread, NotStranded, Deliverable, MayRunNormal, Leaving, Top
  <2> QED
    BY <1>1, <2>3, <2>4, <2>5, <2>6 DEF IInv
<1>3. CASE suspendCount = 0 /\ ~Contains(list, SuspendApc)
  <2>1. /\ InsertQueueApc(SuspendApc) /\ suspendCount' = 1 /\ signal' = signal
        /\ UNCHANGED <<frames, phase, inProgress, queueable, disable, leaving>>
    BY <1>3 DEF KeSuspendThread, Suspend
  <2>2. SuspendApc \in Apc
    BY DEF Apc
  <2>3. /\ NestingOK' /\ ListOK' /\ InterruptOK' /\ NotStranded'
        /\ Contains(list', SuspendApc)
        /\ state' \in {state, "ready"} /\ pending' /\ interrupt' \in BOOLEAN
    BY <1>3, <2>1, <2>2, InsertionKeeps
  <2>4. Typed'
    BY <2>1, <2>3 DEF IInv, Typed, KeSuspendAssumption
  <2>5. SemaphoreOK'
    BY <1>3, <2>1, <2>3 DEF IInv, SemaphoreOK, SuspensionsBalance, Waits, Top
  <2> QED
    BY <1>1, <2>3, <2>4, <2>5 DEF IInv
<1> QED
  BY <1>2, <1>3

(* A resumption lets the thread go that waits for it.                      *)
LEMMA KeResumeThreadKeeps ==
    ASSUME KeSuspendAssumption, IInv, KeResumeThread
    PROVE  IInv'
<1>1. ListOK'
  BY DEF IInv, KeResumeThread, ListOK
<1>2. CASE suspendCount = 1 /\ state = "waiting" /\ Top = "suspend"
  <2>1. /\ state' = "ready" /\ signal' = signal /\ suspendCount' = 0
        /\ frames' = Append(Front(frames), "normal")
    BY <1>2 DEF KeResumeThread, ReleaseSemaphore
  <2>2. Nested(frames') /\ Len(frames) = 3 /\ Len(frames') = 3 /\ frames'[3] = "normal"
    BY <1>2, <2>1, SuspendEnds DEF IInv, NestingOK, Top
  <2>3. frames[3] = "suspend"
    BY <1>2, <2>2, Innermost
  <2>4. Typed'
    BY <2>1 DEF IInv, KeResumeThread, Typed
  <2>5. NestingOK'
    BY <2>2 DEF IInv, KeResumeThread, NestingOK
  <2>6. InterruptOK'
    BY <1>2, <2>1 DEF IInv, KeResumeThread, InterruptOK
  <2>7. SemaphoreOK'
    BY <1>2, <2>1, <2>2, <2>3, Innermost, InnermostAfter DEF IInv, KeResumeThread,
       SemaphoreOK, SuspensionsBalance, Waits
  <2>8. NotStranded'
    BY <1>2, <2>1, <2>2 DEF IInv, KeResumeThread, NotStranded, Deliverable, MayRunNormal,
       Leaving
  <2>9. PhaseOK'
    BY <2>1, <2>2 DEF IInv, KeResumeThread, PhaseOK
  <2> QED
    BY <1>1, <2>4, <2>5, <2>6, <2>7, <2>8, <2>9 DEF IInv
<1>3. CASE ~(suspendCount = 1 /\ state = "waiting" /\ Top = "suspend")
  <2>1. /\ UNCHANGED <<state, frames>>
        /\ suspendCount # 0 /\ suspendCount' = suspendCount - 1
        /\ signal' = IF suspendCount = 1 THEN signal + 1 ELSE signal
    BY <1>3 DEF KeResumeThread, ReleaseSemaphore
  <2>2. Typed'
    BY <2>1 DEF IInv, KeResumeThread, Typed
  <2>3. NestingOK' /\ InterruptOK'
    BY <2>1 DEF IInv, KeResumeThread, NestingOK, InterruptOK
  <2>4. SemaphoreOK'
    BY <1>3, <2>1 DEF IInv, KeResumeThread, SemaphoreOK, SuspensionsBalance, Waits, Top,
       Typed
  <2>5. NotStranded'
    BY <2>1 DEF IInv, KeResumeThread, NotStranded, Deliverable, MayRunNormal, Leaving, Top
  <2>6. PhaseOK'
    BY <2>1 DEF IInv, KeResumeThread, PhaseOK
  <2> QED
    BY <1>1, <2>2, <2>3, <2>4, <2>5, <2>6 DEF IInv
<1> QED
  BY <1>2, <1>3

(* A normal APC is delivered: its routine begins.                          *)
LEMMA DeliverNormalKeeps ==
    ASSUME KeSuspendAssumption, IInv, DeliverNormal
    PROVE  IInv'
<1> DEFINE r == IF Head(list) = SuspendApc THEN "suspend" ELSE "normal"
<1>1. /\ Len(frames) = 2 /\ list # <<>> /\ Head(list) \notin Special /\ disable = 0
      /\ frames' = Append(frames, r) /\ inProgress'
  <2>1. ~(Len(frames) > 2) /\ Len(frames) \in {2, 4}
    BY Innermost DEF IInv, NestingOK, DeliverNormal, MayRunNormal
  <2> QED
    BY <2>1 DEF DeliverNormal, MayRunNormal, Push
<1>2. Nested(frames') /\ Len(frames') = 3 /\ frames'[3] = r
  <2>1. r \in {"normal", "suspend"}
    OBVIOUS
  <2> HIDE DEF r
  <2> QED
    BY <1>1, <2>1, NormalBegins DEF IInv, NestingOK
<1>3. /\ list' \in Seq(Apc) /\ IsInjective(list') /\ SpecialsFirst(list')
      /\ Contains(list', SuspendApc) <=> Contains(list, SuspendApc) /\ SuspendApc # Head(list)
      /\ ~(list' # <<>> /\ Head(list') \in Special)
  BY <1>1, FirstRemoved DEF IInv, DeliverNormal
<1>4. Typed'
  BY DEF IInv, DeliverNormal, Typed
<1>5. NestingOK'
  BY <1>1, <1>2 DEF IInv, DeliverNormal, NestingOK
<1>6. ListOK'
  BY <1>3 DEF ListOK
<1>7. InterruptOK'
  BY <1>1 DEF IInv, DeliverNormal, InterruptOK
<1>8. SemaphoreOK'
  <2>1. /\ ~Contains(frames, "suspend")
        /\ Contains(frames', "suspend") <=> Head(list) = SuspendApc
    BY <1>1, <1>2, Innermost, InnermostAfter
  <2>2. Head(list) = SuspendApc => Contains(list, SuspendApc)
    BY <1>1 DEF IInv, ListOK, Contains
  <2> QED
    BY <1>3, <2>1, <2>2 DEF IInv, DeliverNormal, SemaphoreOK, SuspensionsBalance, Waits
<1>9. NotStranded'
  BY <1>1, <1>3 DEF NotStranded, Deliverable, MayRunNormal
<1>10. PhaseOK'
  BY <1>1 DEF IInv, DeliverNormal, PhaseOK
<1> QED
  BY <1>4, <1>5, <1>6, <1>7, <1>8, <1>9, <1>10 DEF IInv

(* A normal routine returns into KiDeliverApc.                             *)
LEMMA NormalReturnsKeeps ==
    ASSUME KeSuspendAssumption, IInv, NormalReturns
    PROVE  IInv'
<1>1. Len(frames) = 3 /\ frames[3] = "normal" /\ 3 \notin leaving
  BY Innermost DEF NormalReturns, Leaving
<1>2. Nested(frames') /\ Len(frames') = 2
  <2>1. Len(frames) > 1 /\ Len(frames) - 1 = 2
    BY <1>1
  <2>2. Nested(frames) /\ frames' = Front(frames)
    BY DEF IInv, NestingOK, NormalReturns, Pop
  <2> QED
    BY <2>1, <2>2, InnermostReturns
<1>3. Typed' /\ ListOK' /\ InterruptOK'
  BY DEF IInv, NormalReturns, Typed, ListOK, InterruptOK
<1>4. NestingOK'
  BY <1>1, <1>2 DEF IInv, NormalReturns, NestingOK
<1>5. Top' = "deliver" /\ ~Contains(frames, "suspend") /\ ~Contains(frames', "suspend")
  BY <1>1, <1>2, Innermost, InnermostAfter
<1>6. SemaphoreOK'
  BY <1>5 DEF IInv, NormalReturns, SemaphoreOK, SuspensionsBalance, Waits
<1>7. NotStranded'
  BY <1>5 DEF NotStranded
<1>8. PhaseOK'
  BY <1>2 DEF IInv, NormalReturns, PhaseOK
<1> QED
  BY <1>3, <1>4, <1>6, <1>7, <1>8 DEF IInv

(* KiDeliverApc returns when nothing can be delivered.                     *)
LEMMA DeliveredKeeps ==
    ASSUME KeSuspendAssumption, IInv, Delivered
    PROVE  IInv'
<1>1. Len(frames) = 2 \/ Len(frames) = 4
  BY Innermost DEF Delivered
<1>2. /\ Nested(frames') /\ Len(frames') = Len(frames) - 1
      /\ Len(frames') > 2 => frames'[3] = frames[3]
  BY <1>1, InnermostReturns DEF IInv, NestingOK, Delivered, Pop
<1>3. /\ Len(frames) > 2 <=> Len(frames') > 2
      /\ Len(frames) < 3 => Len(frames') < 3
      /\ Contains(frames', "suspend") <=> Contains(frames, "suspend")
  <2>1. CASE Len(frames) = 2
    <3>1. Len(frames') = 1 /\ Len(frames) = 2
      BY <1>2, <2>1
    <3> QED
      BY <1>2, <3>1, Innermost, InnermostAfter
  <2>2. CASE Len(frames) = 4
    <3>1. Len(frames') = 3 /\ Len(frames) = 4 /\ frames'[3] = frames[3]
      BY <1>2, <2>2
    <3> QED
      BY <1>2, <3>1, Innermost, InnermostAfter
  <2> QED
    BY <1>1, <2>1, <2>2
<1>4. Typed' /\ ListOK' /\ InterruptOK'
  BY DEF IInv, Delivered, Typed, ListOK, InterruptOK
<1>5. NestingOK'
  BY <1>2, <1>3 DEF IInv, Delivered, NestingOK
<1>6. SemaphoreOK'
  BY <1>3 DEF IInv, Delivered, SemaphoreOK, SuspensionsBalance, Waits
<1>7. NotStranded'
  BY DEF Delivered, NotStranded, Deliverable, MayRunNormal
<1>8. PhaseOK'
  BY <1>3 DEF IInv, Delivered, PhaseOK
<1> QED
  BY <1>4, <1>5, <1>6, <1>7, <1>8 DEF IInv

(* KiSuspendThread takes a unit or waits for one.                          *)
LEMMA KiSuspendThreadKeeps ==
    ASSUME KeSuspendAssumption, IInv, KiSuspendThread
    PROVE  IInv'
<1>1. Len(frames) = 3 /\ frames[3] = "suspend" /\ 3 \notin leaving
  BY Innermost DEF IInv, NestingOK, KiSuspendThread
<1>2. ListOK'
  BY DEF IInv, KiSuspendThread, ListOK
<1>3. ~Deliverable
  BY <1>1 DEF IInv, NotStranded, KiSuspendThread, Executes, Leaving
<1>4. NotStranded'
  BY <1>3 DEF KiSuspendThread, NotStranded, Deliverable, MayRunNormal
<1>5. CASE signal # 0
  <2>1. state' = state /\ signal' = signal - 1 /\ frames' = Append(Front(frames), "normal")
    BY <1>5 DEF KiSuspendThread
  <2>2. Nested(frames') /\ Len(frames') = 3 /\ frames'[3] = "normal"
    BY <2>1, SuspendEnds DEF IInv, NestingOK, KiSuspendThread, Top
  <2>3. Typed' /\ InterruptOK'
    BY <1>5, <2>1 DEF IInv, KiSuspendThread, Typed, InterruptOK
  <2>4. NestingOK'
    BY <1>1, <2>2 DEF IInv, KiSuspendThread, NestingOK
  <2>5. SemaphoreOK'
    <3>1. Contains(frames, "suspend") /\ ~Contains(frames', "suspend")
      BY <1>1, <2>2, Innermost, InnermostAfter
    <3> QED
      BY <2>1, <3>1 DEF IInv, KiSuspendThread, Executes, SemaphoreOK, SuspensionsBalance,
         Waits, Typed
  <2>6. PhaseOK'
    BY <1>1, <2>2 DEF IInv, KiSuspendThread, PhaseOK
  <2> QED
    BY <1>2, <1>4, <2>3, <2>4, <2>5, <2>6 DEF IInv
<1>6. CASE signal = 0
  <2>1. state' = "waiting" /\ UNCHANGED <<frames, signal>>
    BY <1>6 DEF KiSuspendThread
  <2>2. Typed' /\ InterruptOK'
    BY <2>1 DEF IInv, KiSuspendThread, Typed, InterruptOK, Executes
  <2>3. NestingOK'
    BY <2>1 DEF IInv, KiSuspendThread, NestingOK
  <2>4. SemaphoreOK'
    BY <1>6, <2>1 DEF IInv, KiSuspendThread, SemaphoreOK, SuspensionsBalance, Waits
  <2>5. PhaseOK'
    BY <2>1 DEF IInv, KiSuspendThread, PhaseOK
  <2> QED
    BY <1>2, <1>4, <2>2, <2>3, <2>4, <2>5 DEF IInv
<1> QED
  BY <1>5, <1>6

(* SwapContext makes up for an interrupt that was lost.                    *)
LEMMA SwapContextKeeps ==
    ASSUME KeSuspendAssumption, IInv, SwapContext
    PROVE  IInv'
<1>1. ListOK'
  BY DEF IInv, SwapContext, ListOK
<1>2. CASE pending /\ Top # "deliver"
  <2>1. /\ frames' = Append(frames, "deliver") /\ interrupt' = interrupt /\ ~pending'
    BY <1>2 DEF SwapContext, Deliver, Push
  <2>2. Len(frames) = 1 \/ Len(frames) = 3
    BY <1>2, Innermost
  <2>3. /\ Nested(frames') /\ Len(frames') = Len(frames) + 1
        /\ Len(frames) > 2 => frames'[3] = frames[3]
    BY <1>2, <2>1, DeliverBegins DEF IInv, NestingOK, Top
  <2>4. /\ Top' = "deliver"
        /\ Contains(frames', "suspend") <=> Contains(frames, "suspend")
        /\ Len(frames) < 3 => Len(frames') < 3
        /\ Len(frames) > 2 <=> Len(frames') > 2
    <3>1. CASE Len(frames) = 1
      <4>1. Len(frames') = 2 /\ Len(frames) = 1
        BY <2>3, <3>1
      <4> QED
        BY <2>3, <4>1, Innermost, InnermostAfter
    <3>2. CASE Len(frames) = 3
      <4>1. Len(frames') = 4 /\ Len(frames) = 3 /\ frames'[3] = frames[3]
        BY <2>3, <3>2
      <4> QED
        BY <2>3, <4>1, Innermost, InnermostAfter
    <3> QED
      BY <2>2, <3>1, <3>2
  <2>5. Typed'
    BY <2>1 DEF IInv, SwapContext, Typed, Deliver
  <2>6. NestingOK'
    BY <2>3, <2>4 DEF IInv, SwapContext, NestingOK
  <2>7. InterruptOK'
    BY <2>1 DEF IInv, SwapContext, InterruptOK
  <2>8. SemaphoreOK'
    BY <2>4 DEF IInv, SwapContext, SemaphoreOK, SuspensionsBalance, Waits
  <2>9. NotStranded'
    BY <2>4 DEF NotStranded
  <2>10. PhaseOK'
    BY <2>4 DEF IInv, SwapContext, PhaseOK
  <2> QED
    BY <1>1, <2>5, <2>6, <2>7, <2>8, <2>9, <2>10 DEF IInv
<1>3. CASE ~(pending /\ Top # "deliver")
  <2>1. interrupt' = pending /\ UNCHANGED <<frames, pending>> /\ state' = "running"
    BY <1>3 DEF SwapContext
  <2>2. Typed' /\ NestingOK'
    BY <2>1 DEF IInv, SwapContext, Typed, NestingOK
  <2>3. InterruptOK'
    BY <2>1 DEF InterruptOK
  <2>4. SemaphoreOK'
    BY <2>1 DEF IInv, SwapContext, SemaphoreOK, SuspensionsBalance, Waits
  <2>5. NotStranded'
    BY <1>3, <2>1 DEF IInv, SwapContext, NotStranded, Deliverable, MayRunNormal, Leaving, Top
  <2>6. PhaseOK'
    BY <2>1 DEF IInv, SwapContext, PhaseOK
  <2> QED
    BY <1>1, <2>2, <2>3, <2>4, <2>5, <2>6 DEF IInv
<1> QED
  BY <1>2, <1>3

-----------------------------------------------------------------------------
(* The invariant and the properties.                                       *)

LEMMA InitEstablishes ==
    ASSUME KeSuspendAssumption, Init
    PROVE  IInv
<1>1. Nested(frames) /\ Len(frames) = 1
  BY DEF Init, Nested, Frame
<1>2. /\ Typed
      /\ InterruptOK
      /\ PhaseOK
  <2>1. Typed
    <3>1. pending \in BOOLEAN /\ inProgress \in BOOLEAN /\ queueable \in BOOLEAN
          /\ interrupt \in BOOLEAN
      BY Zenon DEF Init
    <3>2. disable \in 0..MaxRegions /\ suspendCount \in 0..MaximumSuspendCount /\ signal \in Nat
      BY DEF KeSuspendAssumption, Init
    <3> QED
      BY <3>1, <3>2 DEF Init, Typed
  <2>2. InterruptOK
    BY DEF Init, InterruptOK
  <2>3. PhaseOK
    <3>1. queueable /\ phase = "alive"
      BY DEF Init
    <3>2. /\ phase \in {"alive", "entered"}
          /\ phase \notin {"entered", "disabled", "resumed"}
          /\ phase \notin {"left", "flushed", "exited"}
          /\ phase \notin {"resumed", "left", "flushed", "exited"}
          /\ phase \notin {"flushed", "exited"}
      BY <3>1
    <3> QED
      BY <3>1, <3>2 DEF PhaseOK
  <2> QED
    BY <2>1, <2>2, <2>3
<1>3. NestingOK
  BY <1>1 DEF Init, NestingOK
<1>4. list = <<>>
  BY DEF Init
<1>5. ListOK
  BY <1>4 DEF ListOK, IsInjective, SpecialsFirst
<1>6. SemaphoreOK
  <2>1. ~Contains(list, SuspendApc) /\ ~Contains(frames, "suspend")
    BY <1>1, <1>4, NestingFacts DEF Contains
  <2> QED
    BY <2>1 DEF Init, SemaphoreOK, SuspensionsBalance, Waits
<1>7. NotStranded
  BY <1>4 DEF NotStranded, Deliverable, MayRunNormal
<1> QED
  BY <1>2, <1>3, <1>5, <1>6, <1>7 DEF IInv

LEMMA StepKeeps ==
    ASSUME KeSuspendAssumption, IInv, [Next]_vars
    PROVE  IInv'
<1>1. CASE UNCHANGED vars
  BY <1>1 DEF vars, IInv, Typed, NestingOK, ListOK, InterruptOK, SemaphoreOK, NotStranded,
     PhaseOK, SuspensionsBalance, Waits, Deliverable, MayRunNormal, Leaving, Top
<1>2. CASE \E apc \in Special \cup Normal : KeInsertQueueApc(apc) \/ KeRemoveQueueApc(apc)
  BY <1>2, KeInsertQueueApcKeeps, KeRemoveQueueApcKeeps DEF Apc
<1>3. CASE KeSuspendThread \/ KeResumeThread
  BY <1>3, KeSuspendThreadKeeps, KeResumeThreadKeeps
<1>4. CASE Deliveries
  BY <1>4, TakeInterruptKeeps, DeliverSpecialKeeps, DeliverNormalKeeps, NormalReturnsKeeps,
     DeliveredKeeps, KiSuspendThreadKeeps DEF Deliveries
<1>5. CASE Scheduling
  BY <1>5, PreemptKeeps, SwapContextKeeps, WaitKeeps, SignalKeeps DEF Scheduling
<1>6. CASE Regions
  BY <1>6, KeEnterCriticalRegionKeeps, KeLeaveCriticalRegionKeeps, LeaveTestKeeps DEF Regions
<1>7. CASE Exiting
  BY <1>7, ExitEnterRegionKeeps, KeDisableApcQueuingThreadKeeps, KeForceResumeThreadKeeps,
     ExitLeaveRegionKeeps, KeFlushQueueApcKeeps, KeTerminateThreadKeeps DEF Exiting
<1> QED
  BY <1>1, <1>2, <1>3, <1>4, <1>5, <1>6, <1>7 DEF Next

LEMMA InvariantHolds == Spec => []IInv
<1>1. Init => IInv
  BY InitEstablishes, KeSuspendAssumption
<1>2. IInv /\ [Next]_vars => IInv'
  BY StepKeeps, KeSuspendAssumption
<1> QED
  BY <1>1, <1>2, PTL DEF Spec

LEMMA TypeFollows ==
    ASSUME IInv
    PROVE  TypeOK
<1>1. /\ frames \in Seq(Frame) /\ frames # <<>> /\ DOMAIN frames = 1..Len(frames)
      /\ Len(frames) \in 1..4
  BY NestingFacts DEF IInv, NestingOK, Nested
<1>2. leaving \subseteq DOMAIN frames
  BY <1>1 DEF IInv, NestingOK
<1>3. signal \in 0..2
  BY DEF IInv, Typed, SemaphoreOK, SuspensionsBalance, Waits
<1> QED
  BY <1>1, <1>2, <1>3 DEF IInv, Typed, ListOK, TypeOK, Frame

(* Suspensions and resumptions, in any order and at any moment, leave no   *)
(* thread stopped that should run and let none run its own code, with      *)
(* normal APCs enabled, that is suspended: one that is has its APC queued  *)
(* and the interrupt for it on its way.                                    *)
THEOREM SuspensionStops == Spec => []SuspendedStops
<1>1. ASSUME IInv
      PROVE  SuspendedStops
  <2>1. TypeOK /\ SuspensionsBalance
    BY <1>1, TypeFollows DEF IInv, SemaphoreOK
  <2>2. ASSUME suspendCount # 0, disable = 0, ~Leaving, frames = <<"code">>, state = "running"
        PROVE  interrupt
    <3>1. ~Contains(frames, "suspend") /\ Len(frames) = 1 /\ Top = "code"
      BY <1>1, <2>2, Innermost
    <3>2. Contains(list, SuspendApc)
      BY <1>1, <2>1, <2>2, <3>1 DEF IInv, Typed, SuspensionsBalance, Waits
    <3>3. list # <<>>
      BY <1>1, <3>2 DEF IInv, ListOK, Contains
    <3>4. Deliverable
      BY <1>1, <2>2, <3>1, <3>3 DEF IInv, NestingOK, Deliverable, MayRunNormal
    <3> QED
      BY <1>1, <2>2, <3>1, <3>4 DEF IInv, NotStranded
  <2>3. state = "waiting" /\ Top = "suspend" => suspendCount # 0
    <3>1. Top = "suspend" => Contains(frames, "suspend")
      BY <1>1, Innermost
    <3> QED
      BY <1>1, <3>1 DEF IInv, SemaphoreOK, SuspensionsBalance, Waits
  <2> QED
    BY <2>1, <2>2, <2>3 DEF SuspendedStops
<1> QED
  BY <1>1, InvariantHolds, PTL

(* No kernel APC is stranded: when the first of the queue could be         *)
(* delivered, the thread is on its way to KiDeliverApc; special APCs come  *)
(* first and normal routines do not nest.                                  *)
THEOREM ApcsAreDelivered == Spec => []ApcsDelivered
<1>1. ASSUME IInv
      PROVE  ApcsDelivered
  <2>1. Cardinality({i \in DOMAIN frames : frames[i] \in {"normal", "suspend"}})
           = IF inProgress THEN 1 ELSE 0
    <3>1. DOMAIN frames = 1..Len(frames) /\ Nested(frames) /\ Len(frames) \in 1..4
      BY <1>1, NestingFacts DEF IInv, NestingOK, Nested
    <3>2. ASSUME NEW i \in DOMAIN frames
          PROVE  frames[i] \in {"normal", "suspend"} <=> i = 3
      BY <3>1, <3>2 DEF Nested
    <3>3. CASE Len(frames) > 2
      <4>1. {i \in DOMAIN frames : frames[i] \in {"normal", "suspend"}} = {3}
        BY <3>1, <3>2, <3>3
      <4> QED
        BY <1>1, <3>3, <4>1, FS_Singleton DEF IInv, NestingOK
    <3>4. CASE ~(Len(frames) > 2)
      <4>1. {i \in DOMAIN frames : frames[i] \in {"normal", "suspend"}} = {}
        BY <3>1, <3>2, <3>4
      <4> QED
        BY <1>1, <3>4, <4>1, FS_EmptySet DEF IInv, NestingOK
    <3> QED
      BY <3>3, <3>4
  <2>2. NormalsInOrder
    BY <1>1, <2>1 DEF IInv, ListOK, SpecialsFirst, NormalsInOrder
  <2> QED
    BY <1>1, <2>2 DEF IInv, NotStranded, ApcsDelivered
<1> QED
  BY <1>1, InvariantHolds, PTL

(* PsTerminateSystemThread never finds an APC that has come during the     *)
(* exit: with the queue flushed, and already before, none is left, and no  *)
(* suspension is in force or owed.                                         *)
THEOREM ExitFindsNoApc == Spec => []NoApcAtExit
<1>1. ASSUME IInv
      PROVE  NoApcAtExit
  <2>1. ASSUME phase \in {"flushed", "exited"} \/ (phase = "left" /\ Executes /\ Top = "code" /\ ~Leaving)
        PROVE  list = <<>> /\ suspendCount = 0 /\ Len(frames) < 3
    <3>1. CASE phase \in {"flushed", "exited"}
      BY <1>1, <3>1 DEF IInv, PhaseOK
    <3>2. CASE phase = "left" /\ Executes /\ Top = "code" /\ ~Leaving
      BY <1>1, <3>2, Innermost DEF IInv, NestingOK, NotStranded, Deliverable, MayRunNormal,
         PhaseOK, Executes
    <3> QED
      BY <2>1, <3>1, <3>2
  <2>2. ASSUME list = <<>>, suspendCount = 0, Len(frames) < 3
        PROVE  signal = 0
    <3>1. ~Contains(list, SuspendApc) /\ ~Contains(frames, "suspend")
      BY <1>1, <2>2, Innermost DEF Contains
    <3> QED
      BY <1>1, <2>2, <3>1 DEF IInv, SemaphoreOK, SuspensionsBalance, Waits
  <2> QED
    BY <2>1, <2>2 DEF NoApcAtExit
<1> QED
  BY <1>1, InvariantHolds, PTL

-----------------------------------------------------------------------------
(* Part 2, KeSched: the scheduler.  First the numbers it computes with.    *)

LEMMA MaxOfTwo ==
    ASSUME NEW a \in Int, NEW b \in Int
    PROVE  Max({a, b}) = IF a >= b THEN a ELSE b
<1> DEFINE P(x) == x \in {a, b} /\ \A y \in {a, b} : x >= y
           m == IF a >= b THEN a ELSE b
<1>1. P(m)
  OBVIOUS
<1>2. \A x \in {a, b} : (\A y \in {a, b} : x >= y) => x = m
  OBVIOUS
<1> QED BY <1>1, <1>2 DEF Max

LEMMA MinOfTwo ==
    ASSUME NEW a \in Int, NEW b \in Int
    PROVE  Min({a, b}) = IF a <= b THEN a ELSE b
<1> DEFINE P(x) == x \in {a, b} /\ \A y \in {a, b} : x =< y
           m == IF a <= b THEN a ELSE b
<1>1. P(m)
  OBVIOUS
<1>2. \A x \in {a, b} : (\A y \in {a, b} : x =< y) => x = m
  OBVIOUS
<1> QED BY <1>1, <1>2 DEF Min

LEMMA MaxOfSet ==
    ASSUME NEW H \in Nat, NEW S, S \subseteq 0..H, S # {}
    PROVE  Max(S) \in S /\ \A y \in S : Max(S) >= y
<1> DEFINE T == {H - x : x \in S}
<1>1. \A x \in S : H - x \in Nat
  OBVIOUS
<1>2. T \subseteq Nat
  BY <1>1
<1>3. T # {}
  OBVIOUS
<1>4. \E x \in T : \A y \in T : ~(<<y, x>> \in OpToRel(<, Nat))
  <2> HIDE DEF T
  <2> QED BY <1>2, <1>3, WFMin, NatLessThanWellFounded, Zenon
<1>5. \E x \in T : \A y \in T : ~(y < x)
  <2> HIDE DEF T
  <2>1. ASSUME NEW x \in T, \A y \in T : ~(<<y, x>> \in OpToRel(<, Nat))
        PROVE  \A y \in T : ~(y < x)
    BY <1>2, <2>1, Zenon DEF OpToRel
  <2> QED BY <1>4, <2>1, Zenon
<1>6. PICK x \in T : \A y \in T : ~(y < x)
  BY <1>5
<1>7. PICK h \in S : x = H - h
  BY <1>6
<1>8. \A y \in S : h >= y
  BY <1>1, <1>6, <1>7
<1> QED BY <1>7, <1>8 DEF Max

-----------------------------------------------------------------------------
(* What the ready queues hold, apart from the threads in X, which are on   *)
(* none of them, and which thread stands by.                               *)
Queues(d, X) ==
    /\ \A p \in Priorities : IsInjective(d.ready[p])
    /\ \A t \in Thread, p \in Priorities :
          t \in Range(d.ready[p]) <=> t \notin X /\ d.state[t] = "Ready" /\ d.priority[t] = p
    /\ \A p \in Priorities : p \in d.summary <=> Range(d.ready[p]) # {}

(* The fields that the queues are not about.                               *)
Aside(d, e) ==
    /\ d.priority = e.priority /\ d.base = e.base
    /\ d.idle = e.idle /\ d.next = e.next /\ d.current = e.current

Enqueued(d, t, p, q, S) ==
    [d EXCEPT !.state[t] = "Ready", !.preempted[t] = FALSE, !.ready[p] = q, !.summary = S]

Dequeued(d, p, q, S) == [d EXCEPT !.ready[p] = q, !.summary = S]

LEMMA QueuesChange ==
    ASSUME NEW d \in Database, NEW t \in Thread, NEW p \in Priorities,
           NEW q \in Seq(Thread), NEW S \in SUBSET Priorities, NEW e,
           e = Enqueued(d, t, p, q, S)
    PROVE  /\ e \in Database
           /\ e.state = [d.state EXCEPT ![t] = "Ready"]
           /\ e.ready = [d.ready EXCEPT ![p] = q]
           /\ e.summary = S
           /\ Aside(e, d)
BY DEF Enqueued, Database, Aside

LEMMA QueueChanges ==
    ASSUME NEW d \in Database, NEW p \in Priorities,
           NEW q \in Seq(Thread), NEW S \in SUBSET Priorities, NEW e,
           e = Dequeued(d, p, q, S)
    PROVE  /\ e \in Database
           /\ e.state = d.state
           /\ e.ready = [d.ready EXCEPT ![p] = q]
           /\ e.summary = S
           /\ Aside(e, d)
BY DEF Dequeued, Database, Aside

LEMMA SequencesFilled ==
    ASSUME NEW T, NEW s \in Seq(T)
    PROVE  s = <<>> <=> Range(s) = {}
<1>1. DOMAIN s = 1..Len(s) /\ Len(s) \in Nat /\ (s = <<>> <=> Len(s) = 0)
  OBVIOUS
<1>2. CASE Len(s) = 0
  <2>1. DOMAIN s = {}
    BY <1>1, <1>2
  <2> QED BY <1>1, <1>2, <2>1 DEF Range
<1>3. CASE Len(s) # 0
  <2>1. s[1] \in Range(s)
    BY <1>1, <1>3 DEF Range
  <2> QED BY <1>1, <1>3, <2>1
<1> QED BY <1>2, <1>3

Gains(d, e, t) ==
    \A p \in Priorities :
       Range(e.ready[p]) = Range(d.ready[p]) \cup (IF p = d.priority[t] THEN {t} ELSE {})

Loses(d, e, t) ==
    \A p \in Priorities : Range(e.ready[p]) = Range(d.ready[p]) \ {t}

(* A thread is put on the queue of its priority, at one end.               *)
LEMMA InsertQueues ==
    ASSUME NEW X, NEW t \in Thread, t \in X, NEW d \in Database, Queues(d, X),
           NEW e, e = Insert(d, t)
    PROVE  /\ e \in Database
           /\ e.state = [d.state EXCEPT ![t] = "Ready"]
           /\ Aside(e, d)
           /\ Queues(e, X \ {t})
           /\ Gains(d, e, t)
<1> DEFINE p == d.priority[t]
           s == d.ready[p]
           q == IF d.preempted[t] THEN <<t>> \o s ELSE Append(s, t)
           S == d.summary \cup {p}
<1>1. /\ p \in Priorities /\ s \in Seq(Thread) /\ S \in SUBSET Priorities
      /\ DOMAIN d.ready = Priorities /\ DOMAIN d.state = Thread
  BY DEF Database
<1>2. IsInjective(s) /\ t \notin Range(s)
  BY <1>1 DEF Queues
<1>3. q \in Seq(Thread) /\ IsInjective(q) /\ Range(q) = Range(s) \cup {t}
  <2> HIDE DEF s
  <2>1. CASE d.preempted[t]
    BY <1>1, <1>2, <2>1, PrependLinks
  <2>2. CASE ~d.preempted[t]
    BY <1>1, <1>2, <2>2, AppendLinks
  <2> QED BY <2>1, <2>2
<1>4. e = Enqueued(d, t, p, q, S)
  BY Zenon DEF Insert, Enqueued
<1> HIDE DEF q, S
<1>5. /\ e \in Database
      /\ e.state = [d.state EXCEPT ![t] = "Ready"]
      /\ e.ready = [d.ready EXCEPT ![p] = q]
      /\ e.summary = S
      /\ Aside(e, d)
  <2> HIDE DEF p, s
  <2> QED BY <1>1, <1>3, <1>4, QueuesChange
<1>6. \A r \in Priorities : e.ready[r] = IF r = p THEN q ELSE d.ready[r]
  BY <1>1, <1>5
<1>7. \A r \in Priorities :
          Range(e.ready[r]) = Range(d.ready[r]) \cup (IF r = p THEN {t} ELSE {})
  BY <1>3, <1>6
<1>8. Queues(e, X \ {t})
  <2>1. \A r \in Priorities : IsInjective(e.ready[r])
    BY <1>3, <1>6 DEF Queues
  <2>2. \A u \in Thread : e.state[u] = IF u = t THEN "Ready" ELSE d.state[u]
    BY <1>1, <1>5
  <2>3. e.priority = d.priority
    BY <1>5 DEF Aside
  <2>4. \A u \in Thread, r \in Priorities :
            u \in Range(e.ready[r]) <=> u \notin X \ {t} /\ e.state[u] = "Ready" /\ e.priority[u] = r
    BY <1>7, <2>2, <2>3 DEF Queues
  <2>5. \A r \in Priorities : r \in e.summary <=> r \in d.summary \/ r = p
    BY <1>5 DEF S
  <2>6. \A r \in Priorities : r \in e.summary <=> Range(e.ready[r]) # {}
    BY <1>7, <2>5 DEF Queues
  <2> QED BY <2>1, <2>4, <2>6 DEF Queues
<1> QED BY <1>5, <1>7, <1>8 DEF Gains

SameButFor(c, d, t) ==
    /\ c.state = d.state /\ c.ready = d.ready /\ c.summary = d.summary
    /\ \A u \in Thread : u # t => c.priority[u] = d.priority[u]

Stays(e, d) == e.state = d.state /\ Aside(e, d)

(* A thread is taken off its queue; c is the database before the thread's  *)
(* priority changed, if it did.                                            *)
LEMMA TakeOffQueues ==
    ASSUME NEW X, NEW t \in Thread, t \notin X, NEW d \in Database, NEW c \in Database,
           Queues(c, X), c.state[t] = "Ready",
           SameButFor(c, d, t),
           NEW e, e = TakeOff(d, t, c.priority[t])
    PROVE  /\ e \in Database
           /\ Stays(e, d)
           /\ Queues(e, X \cup {t})
           /\ Loses(d, e, t)
<1> DEFINE p == c.priority[t]
           s == d.ready[p]
           q == Unlink(s, t)
           S == IF q = <<>> THEN d.summary \ {p} ELSE d.summary
<1>0. /\ c.state = d.state /\ c.ready = d.ready /\ c.summary = d.summary
      /\ \A u \in Thread : u # t => c.priority[u] = d.priority[u]
  BY DEF SameButFor
<1>1. /\ p \in Priorities /\ s \in Seq(Thread) /\ S \in SUBSET Priorities
      /\ DOMAIN d.ready = Priorities
  BY DEF Database
<1>2. IsInjective(s) /\ t \in Range(s)
  BY <1>0, <1>1 DEF Queues
<1>3. q \in Seq(Thread) /\ IsInjective(q) /\ Range(q) = Range(s) \ {t}
  <2> HIDE DEF s
  <2> QED BY <1>1, <1>2, UnlinkProperties
<1>4. e = Dequeued(d, p, q, S)
  BY Zenon DEF TakeOff, Dequeued
<1> HIDE DEF q, S
<1>5. /\ e \in Database
      /\ e.state = d.state
      /\ e.ready = [d.ready EXCEPT ![p] = q]
      /\ e.summary = S
      /\ Aside(e, d)
  <2> HIDE DEF p, s
  <2> QED BY <1>1, <1>3, <1>4, QueueChanges
<1>6. \A r \in Priorities : e.ready[r] = IF r = p THEN q ELSE d.ready[r]
  BY <1>1, <1>5
<1>7. \A r \in Priorities : r # p => t \notin Range(d.ready[r])
  BY <1>0 DEF Queues
<1>8. \A r \in Priorities : Range(e.ready[r]) = Range(d.ready[r]) \ {t}
  BY <1>3, <1>6, <1>7
<1>9. Queues(e, X \cup {t})
  <2>1. \A r \in Priorities : IsInjective(e.ready[r])
    BY <1>0, <1>3, <1>6 DEF Queues
  <2>3. e.priority = d.priority
    BY <1>5 DEF Aside
  <2>4. \A u \in Thread, r \in Priorities :
            u \in Range(e.ready[r])
              <=> u \notin X \cup {t} /\ e.state[u] = "Ready" /\ e.priority[u] = r
    BY <1>0, <1>5, <1>8, <2>3 DEF Queues
  <2>5. \A r \in Priorities : r \in e.summary <=> r \in d.summary /\ (r = p => q # <<>>)
    BY <1>5 DEF S
  <2>6. q = <<>> <=> Range(q) = {}
    BY <1>3, SequencesFilled
  <2>7. \A r \in Priorities : r \in e.summary <=> Range(e.ready[r]) # {}
    <3> TAKE r \in Priorities
    <3>1. CASE r = p
      <4>1. r \in d.summary
        BY <1>0, <1>1, <1>2, <3>1 DEF Queues
      <4> QED BY <1>6, <2>5, <2>6, <3>1, <4>1
    <3>2. CASE r # p
      BY <1>0, <1>6, <2>5, <3>2 DEF Queues
    <3> QED BY <3>1, <3>2
  <2> QED BY <2>1, <2>4, <2>7 DEF Queues
<1> QED BY <1>5, <1>8, <1>9 DEF Loses, Stays
-----------------------------------------------------------------------------
(* The database while the dispatcher works on it: the threads in X are     *)
(* being moved, those in Y are ready since they yielded.                   *)
StandsBy(d, X) == \A t \in Thread \ X : d.state[t] = "Standby" <=> d.next = t

IdleIs(d) == d.idle <=> d.current = IdleThread /\ d.next = NoThread

Rests(d, X) == d.idle => \A t \in Thread \ X : d.state[t] = "Waiting"

(* The priority of the thread the processor has or is about to have.       *)
Bar(d) == Priority(d, IF d.next # NoThread THEN d.next ELSE d.current)

NoneAbove(d, Y) == \A p \in Priorities : \A u \in Range(d.ready[p]) : p <= Bar(d) \/ u \in Y

Placed(d, X) ==
    /\ d \in Database
    /\ Queues(d, X) /\ StandsBy(d, X) /\ IdleIs(d) /\ Rests(d, X)

Sound(d, X, Y) == Placed(d, X) /\ NoneAbove(d, Y)

(* What readying t leaves alone, and where it leaves t.                    *)
Readied(d, e, t) ==
    /\ e.priority = d.priority /\ e.base = d.base /\ e.current = d.current
    /\ e.next \in {d.next, t}
    /\ d.next # NoThread => e.next # NoThread
    /\ e.state[t] \in {"Ready", "Standby"}
    /\ d.next \in Thread => e.state[d.next] \in {"Ready", "Standby"}
    /\ \A u \in Thread \ {t, d.next} : e.state[u] = d.state[u]

LEMMA BarIsPriority ==
    ASSUME NEW d \in Database
    PROVE  /\ Bar(d) \in Priorities
           /\ d.next \in Thread => Bar(d) = d.priority[d.next]
           /\ d.next = NoThread /\ d.current \in Thread => Bar(d) = d.priority[d.current]
BY KeSchedAssumption DEF Bar, Priority, Database, Priorities

LEMMA StandByFields ==
    ASSUME NEW d \in Database, NEW t \in Thread, NEW e, e = StandBy(d, t)
    PROVE  /\ e \in Database
           /\ e.state = [d.state EXCEPT ![t] = "Standby"]
           /\ e.next = t
           /\ e.ready = d.ready /\ e.summary = d.summary /\ e.idle = d.idle
           /\ e.priority = d.priority /\ e.base = d.base /\ e.current = d.current
BY DEF StandBy, Database

Preempted(d, t) == [d EXCEPT !.preempted[t] = TRUE]
Busy(d) == [d EXCEPT !.idle = FALSE]

LEMMA PreemptedFields ==
    ASSUME NEW d \in Database, NEW t \in Thread, NEW e, e = Preempted(d, t)
    PROVE  /\ e \in Database
           /\ e.state = d.state /\ e.ready = d.ready /\ e.summary = d.summary
           /\ Aside(e, d)
BY DEF Preempted, Database, Aside

LEMMA BusyFields ==
    ASSUME NEW d \in Database, NEW e, e = Busy(d)
    PROVE  /\ e \in Database
           /\ e.state = d.state /\ e.ready = d.ready /\ e.summary = d.summary
           /\ e.priority = d.priority /\ e.base = d.base
           /\ e.next = d.next /\ e.current = d.current
           /\ ~e.idle
BY DEF Busy, Database

(* Making a thread that is on no queue the next one.                       *)
LEMMA StandByQueues ==
    ASSUME NEW X, NEW t \in Thread, t \in X, NEW d \in Database, Queues(d, X),
           NEW e \in Database,
           e.state = [d.state EXCEPT ![t] = "Standby"],
           e.ready = d.ready, e.summary = d.summary, e.priority = d.priority
    PROVE  Queues(e, X \ {t})
<1>1. \A u \in Thread : e.state[u] = IF u = t THEN "Standby" ELSE d.state[u]
  BY DEF Database
<1> QED BY <1>1 DEF Queues

(* KiReadyThread keeps the queues and the bar, whichever thread it readies.*)
LEMMA ReadyThread ==
    ASSUME NEW X, NEW Y, NEW t \in Thread, t \in X,
           NEW d, Sound(d, X, Y), d.next \notin X
    PROVE  Sound(KiReadyThread(d, t), X \ {t}, Y) /\ Readied(d, KiReadyThread(d, t), t)
<1> DEFINE e == KiReadyThread(d, t)
<1>0. /\ d \in Database /\ Queues(d, X) /\ StandsBy(d, X)
      /\ IdleIs(d) /\ Rests(d, X) /\ NoneAbove(d, Y)
  BY DEF Sound, Placed
<1>1. CASE d.idle
  <2>1. e = Busy(StandBy(d, t))
    BY <1>1 DEF KiReadyThread, Busy
  <2> DEFINE c == StandBy(d, t)
  <2>2. /\ c \in Database
        /\ c.state = [d.state EXCEPT ![t] = "Standby"]
        /\ c.next = t
        /\ c.ready = d.ready /\ c.summary = d.summary
        /\ c.priority = d.priority /\ c.base = d.base /\ c.current = d.current
    BY <1>0, StandByFields
  <2>3. e = Busy(c)
    BY <2>1
  <2> HIDE DEF c, e
  <2>4. /\ e \in Database
        /\ e.state = [d.state EXCEPT ![t] = "Standby"]
        /\ e.next = t /\ ~e.idle
        /\ e.ready = d.ready /\ e.summary = d.summary
        /\ e.priority = d.priority /\ e.base = d.base /\ e.current = d.current
    BY <2>2, <2>3, BusyFields
  <2>5. Queues(e, X \ {t})
    BY <1>0, <2>4, StandByQueues
  <2>6. d.current = IdleThread /\ d.next = NoThread
    BY <1>0, <1>1 DEF IdleIs
  <2>7. \A u \in Thread : e.state[u] = IF u = t THEN "Standby" ELSE d.state[u]
    BY <1>0, <2>4 DEF Database
  <2>8. \A u \in Thread \ X : d.state[u] = "Waiting"
    BY <1>0, <1>1 DEF Rests
  <2>9. StandsBy(e, X \ {t})
    BY <2>4, <2>7, <2>8 DEF StandsBy
  <2>10. IdleIs(e) /\ Rests(e, X \ {t})
    BY <2>4, KeSchedAssumption DEF IdleIs, Rests
  <2>11. NoneAbove(e, Y)
    <3>1. \A p \in Priorities : Range(e.ready[p]) \subseteq Thread
      BY <2>4 DEF Database, Range
    <3>2. \A p \in Priorities : Range(e.ready[p]) = {}
      BY <1>0, <2>4, <2>8, <3>1 DEF Queues
    <3> QED BY <3>2 DEF NoneAbove
  <2>12. Readied(d, e, t)
    BY <2>4, <2>6, <2>7, KeSchedAssumption DEF Readied
  <2> QED BY <2>4, <2>5, <2>9, <2>10, <2>11, <2>12 DEF Sound, Placed, e
<1>2. CASE ~d.idle /\ ~Outranks(d, t)
  <2>1. e = Insert(d, t)
    BY <1>2 DEF KiReadyThread
  <2> HIDE DEF e
  <2>2. /\ e \in Database
        /\ e.state = [d.state EXCEPT ![t] = "Ready"]
        /\ Aside(e, d)
        /\ Queues(e, X \ {t})
        /\ Gains(d, e, t)
    BY <1>0, <2>1, InsertQueues
  <2>3. /\ e.priority = d.priority /\ e.base = d.base
        /\ e.idle = d.idle /\ e.next = d.next /\ e.current = d.current
    BY <2>2 DEF Aside
  <2>4. \A u \in Thread : e.state[u] = IF u = t THEN "Ready" ELSE d.state[u]
    BY <1>0, <2>2 DEF Database
  <2>5. StandsBy(e, X \ {t})
    BY <1>0, <2>3, <2>4 DEF StandsBy
  <2>6. IdleIs(e) /\ Rests(e, X \ {t})
    BY <1>0, <1>2, <2>3 DEF IdleIs, Rests
  <2>7. Bar(e) = Bar(d)
    BY <2>3 DEF Bar, Priority
  <2>8. d.priority[t] <= Bar(d)
    <3>1. Bar(d) \in Priorities
      BY <1>0, BarIsPriority
    <3>2. d.priority[t] \in Priorities
      BY <1>0 DEF Database
    <3>3. ~(d.priority[t] > Bar(d))
      BY <1>2 DEF Outranks, Bar
    <3> QED BY <3>1, <3>2, <3>3 DEF Priorities
  <2>9. NoneAbove(e, Y)
    BY <1>0, <2>2, <2>7, <2>8 DEF NoneAbove, Gains
  <2>10. Readied(d, e, t)
    BY <1>0, <2>3, <2>4 DEF Readied, StandsBy
  <2> QED BY <2>2, <2>5, <2>6, <2>9, <2>10 DEF Sound, Placed, e
<1>3. CASE ~d.idle /\ Outranks(d, t) /\ d.next # NoThread
  <2>1. e = Insert(Preempted(StandBy(d, t), d.next), d.next)
    BY <1>3 DEF KiReadyThread, Preempted
  <2> DEFINE b == StandBy(d, t)
             n == d.next
             c == Preempted(b, n)
             Moving == (X \ {t}) \cup {n}
  <2>2. n \in Thread /\ n # t /\ n \notin X /\ d.state[n] = "Standby"
    BY <1>0, <1>3 DEF Database, StandsBy
  <2>3. e = Insert(c, n)
    BY <2>1
  <2>4. /\ b \in Database
        /\ b.state = [d.state EXCEPT ![t] = "Standby"]
        /\ b.next = t
        /\ b.ready = d.ready /\ b.summary = d.summary /\ b.idle = d.idle
        /\ b.priority = d.priority /\ b.base = d.base /\ b.current = d.current
    BY <1>0, StandByFields
  <2> HIDE DEF b, e
  <2>5. /\ c \in Database
        /\ c.state = b.state /\ c.ready = b.ready /\ c.summary = b.summary
        /\ Aside(c, b)
    BY <2>2, <2>4, PreemptedFields
  <2> HIDE DEF c
  <2>6. c.priority = d.priority /\ c.base = d.base /\ c.idle = d.idle
        /\ c.next = t /\ c.current = d.current
    BY <2>4, <2>5 DEF Aside
  <2>7. Queues(c, X \ {t})
    BY <1>0, <2>4, <2>5, <2>6, StandByQueues
  <2>8. \A u \in Thread : c.state[u] = IF u = t THEN "Standby" ELSE d.state[u]
    <3>1. DOMAIN d.state = Thread
      BY <1>0 DEF Database
    <3>2. c.state = [d.state EXCEPT ![t] = "Standby"]
      BY <2>4, <2>5
    <3> QED BY <3>1, <3>2
  <2>9. Queues(c, Moving)
    BY <2>2, <2>7, <2>8 DEF Queues
  <2>10. n \in Moving /\ Moving \ {n} = X \ {t}
    BY <2>2
  <2> HIDE DEF n, Moving
  <2>11. /\ e \in Database
         /\ e.state = [c.state EXCEPT ![n] = "Ready"]
         /\ Aside(e, c)
         /\ Queues(e, Moving \ {n})
         /\ Gains(c, e, n)
    <3>1. n \in Thread /\ n \in Moving /\ c \in Database /\ Queues(c, Moving)
      BY <2>2, <2>5, <2>9, <2>10
    <3> QED BY <2>3, <3>1, InsertQueues
  <2>12. /\ e.priority = d.priority /\ e.base = d.base
         /\ e.idle = d.idle /\ e.next = t /\ e.current = d.current
    BY <2>6, <2>11 DEF Aside
  <2>13. \A u \in Thread :
            e.state[u] = IF u = n THEN "Ready" ELSE IF u = t THEN "Standby" ELSE d.state[u]
    BY <2>5, <2>8, <2>11 DEF Database
  <2>14. StandsBy(e, X \ {t})
    BY <1>0, <2>2, <2>12, <2>13 DEF StandsBy, n
  <2>15. IdleIs(e) /\ Rests(e, X \ {t})
    BY <1>0, <1>3, <2>12, KeSchedAssumption DEF IdleIs, Rests
  <2>16. Bar(d) = d.priority[n] /\ Bar(e) = d.priority[t] /\ Bar(d) < Bar(e)
         /\ Bar(d) \in Priorities /\ Bar(e) \in Priorities
    <3>1. Bar(d) = d.priority[n] /\ Bar(d) \in Priorities
      BY <1>0, <2>2, BarIsPriority DEF n
    <3>2. Bar(e) = d.priority[t] /\ Bar(e) \in Priorities
      BY <2>11, <2>12, BarIsPriority
    <3>3. d.priority[t] > Bar(d)
      BY <1>3 DEF Outranks, Bar
    <3> QED BY <3>1, <3>2, <3>3 DEF Priorities
  <2>17. NoneAbove(e, Y)
    <3>1. \A p \in Priorities :
             Range(e.ready[p]) = Range(d.ready[p]) \cup (IF p = d.priority[n] THEN {n} ELSE {})
      BY <2>4, <2>5, <2>6, <2>11 DEF Gains
    <3> SUFFICES ASSUME NEW p \in Priorities, NEW u \in Range(e.ready[p])
                 PROVE  p <= Bar(e) \/ u \in Y
      BY DEF NoneAbove
    <3>2. p <= Bar(d) \/ u \in Y
      <4>1. CASE u \in Range(d.ready[p])
        BY <1>0, <4>1 DEF NoneAbove
      <4>2. CASE p = d.priority[n]
        BY <2>16, <4>2 DEF Priorities
      <4> QED BY <3>1, <4>1, <4>2
    <3> QED BY <2>16, <3>2 DEF Priorities
  <2>18. Readied(d, e, t)
    BY <2>2, <2>12, <2>13, KeSchedAssumption DEF Readied, n
  <2> QED BY <2>10, <2>11, <2>14, <2>15, <2>17, <2>18 DEF Sound, Placed, e
<1>4. CASE ~d.idle /\ Outranks(d, t) /\ d.next = NoThread
  <2>1. e = Preempted(StandBy(d, t), d.current)
    BY <1>4 DEF KiReadyThread, Preempted
  <2> DEFINE b == StandBy(d, t)
             r == d.current
  <2>2. r \in Thread
    BY <1>0, <1>4 DEF Database, IdleIs
  <2>3. e = Preempted(b, r)
    BY <2>1
  <2>4. /\ b \in Database
        /\ b.state = [d.state EXCEPT ![t] = "Standby"]
        /\ b.next = t
        /\ b.ready = d.ready /\ b.summary = d.summary /\ b.idle = d.idle
        /\ b.priority = d.priority /\ b.base = d.base /\ b.current = d.current
    BY <1>0, StandByFields
  <2> HIDE DEF b, e, r
  <2>5. /\ e \in Database
        /\ e.state = b.state /\ e.ready = b.ready /\ e.summary = b.summary
        /\ Aside(e, b)
    BY <2>2, <2>3, <2>4, PreemptedFields
  <2>6. e.priority = d.priority /\ e.base = d.base /\ e.idle = d.idle
        /\ e.next = t /\ e.current = d.current
    BY <2>4, <2>5 DEF Aside
  <2>7. Queues(e, X \ {t})
    BY <1>0, <2>4, <2>5, <2>6, StandByQueues
  <2>8. \A u \in Thread : e.state[u] = IF u = t THEN "Standby" ELSE d.state[u]
    <3>1. DOMAIN d.state = Thread
      BY <1>0 DEF Database
    <3>2. e.state = [d.state EXCEPT ![t] = "Standby"]
      BY <2>4, <2>5
    <3> QED BY <3>1, <3>2
  <2>9. StandsBy(e, X \ {t})
    BY <1>0, <1>4, <2>6, <2>8, KeSchedAssumption DEF StandsBy
  <2>10. IdleIs(e) /\ Rests(e, X \ {t})
    BY <1>0, <1>4, <2>6, KeSchedAssumption DEF IdleIs, Rests
  <2>11. Bar(d) < Bar(e) /\ Bar(d) \in Priorities /\ Bar(e) \in Priorities
    <3>1. Bar(d) \in Priorities
      BY <1>0, BarIsPriority
    <3>2. Bar(e) = d.priority[t] /\ Bar(e) \in Priorities
      BY <2>5, <2>6, BarIsPriority
    <3>3. d.priority[t] > Bar(d)
      BY <1>4 DEF Outranks, Bar
    <3> QED BY <3>1, <3>2, <3>3 DEF Priorities
  <2>12. NoneAbove(e, Y)
    BY <1>0, <2>4, <2>5, <2>11 DEF NoneAbove, Priorities
  <2>13. Readied(d, e, t)
    BY <1>4, <2>6, <2>8, KeSchedAssumption DEF Readied
  <2> QED BY <2>5, <2>7, <2>9, <2>10, <2>12, <2>13 DEF Sound, Placed, e
<1> QED BY <1>1, <1>2, <1>3, <1>4

-----------------------------------------------------------------------------
(* KiFindReadyThread found e.next, or nobody.                              *)
Taken(d, t) == [d EXCEPT !.next = t, !.state[t] = "Standby"]

LEMMA TakenFields ==
    ASSUME NEW d \in Database, NEW t \in Thread, NEW e, e = Taken(d, t)
    PROVE  /\ e \in Database
           /\ e.state = [d.state EXCEPT ![t] = "Standby"]
           /\ e.next = t
           /\ e.ready = d.ready /\ e.summary = d.summary /\ e.idle = d.idle
           /\ e.priority = d.priority /\ e.base = d.base /\ e.current = d.current
BY DEF Taken, Database

Found(d, e, X) ==
    /\ e \in Database /\ Queues(e, X) /\ StandsBy(e, X) /\ NoneAbove(e, {})
    /\ e.priority = d.priority /\ e.base = d.base
    /\ e.current = d.current /\ e.idle = d.idle
    /\ e.next \in Thread \ X /\ d.state[e.next] = "Ready"
    /\ \A u \in Thread : e.state[u] = IF u = e.next THEN "Standby" ELSE d.state[u]

NobodyFrom(d, low) == \A p \in Priorities : Range(d.ready[p]) # {} => p < low

LEMMA FindReadyThread ==
    ASSUME NEW X, NEW d \in Database, Queues(d, X), StandsBy(d, X),
           d.next \in X \cup {NoThread}, NEW low \in Priorities
    PROVE  \/ KiFindReadyThread(d, low) = d /\ NobodyFrom(d, low)
           \/ Found(d, KiFindReadyThread(d, low), X)
<1> DEFINE found == {p \in d.summary : p >= low}
           high == Max(found)
           t == Head(d.ready[high])
           e == KiFindReadyThread(d, low)
<1>1. CASE found = {}
  <2>1. e = d
    BY <1>1 DEF KiFindReadyThread
  <2>2. NobodyFrom(d, low)
    BY <1>1 DEF NobodyFrom, Queues, Priorities
  <2> QED BY <2>1, <2>2
<1>2. CASE found # {}
  <2>1. found \subseteq 0..HighPriority /\ HighPriority \in Nat
    BY KeSchedAssumption DEF Database, Priorities
  <2>2. high \in found /\ \A p \in found : high >= p
    <3> HIDE DEF found
    <3> QED BY <1>2, <2>1, MaxOfSet
  <2>3. e = Taken(TakeOff(d, t, high), t)
    BY <1>2 DEF KiFindReadyThread, Taken
  <2>4. high \in Priorities /\ high >= low /\ high \in d.summary
    BY <2>1, <2>2 DEF Priorities
  <2> HIDE DEF high
  <2>5. d.ready[high] \in Seq(Thread) /\ IsInjective(d.ready[high]) /\ d.ready[high] # <<>>
    <3>1. d.ready[high] \in Seq(Thread) /\ IsInjective(d.ready[high]) /\ Range(d.ready[high]) # {}
      BY <2>4 DEF Database, Queues
    <3> QED BY <3>1, SequencesFilled
  <2>6. t \in Thread /\ t \in Range(d.ready[high])
    BY <2>5, TailScans
  <2>7. t \notin X /\ d.state[t] = "Ready" /\ d.priority[t] = high
    BY <2>4, <2>6 DEF Queues
  <2> DEFINE c == TakeOff(d, t, high)
  <2>8. c = TakeOff(d, t, d.priority[t])
    BY <2>7
  <2>9. e = Taken(c, t)
    BY <2>3
  <2> HIDE DEF t, c, e
  <2>10. /\ c \in Database
         /\ Stays(c, d)
         /\ Queues(c, X \cup {t})
         /\ Loses(d, c, t)
    BY <2>6, <2>7, <2>8, TakeOffQueues DEF SameButFor
  <2>11. /\ e \in Database
         /\ e.state = [c.state EXCEPT ![t] = "Standby"]
         /\ e.next = t
         /\ e.ready = c.ready /\ e.summary = c.summary /\ e.idle = c.idle
         /\ e.priority = c.priority /\ e.base = c.base /\ e.current = c.current
    BY <2>6, <2>9, <2>10, TakenFields
  <2>12. /\ e.priority = d.priority /\ e.base = d.base
         /\ e.idle = d.idle /\ e.current = d.current
    BY <2>10, <2>11 DEF Aside, Stays
  <2>13. \A u \in Thread : e.state[u] = IF u = t THEN "Standby" ELSE d.state[u]
    <3>1. DOMAIN d.state = Thread
      BY DEF Database
    <3>2. e.state = [d.state EXCEPT ![t] = "Standby"]
      BY <2>10, <2>11 DEF Stays
    <3> QED BY <3>1, <3>2
  <2>14. Queues(e, X)
    <3>1. e.priority = c.priority
      BY <2>11
    <3>2. \A p \in Priorities : IsInjective(e.ready[p])
      BY <2>10, <2>11 DEF Queues
    <3>3. \A p \in Priorities : p \in e.summary <=> Range(e.ready[p]) # {}
      BY <2>10, <2>11 DEF Queues
    <3>4. \A u \in Thread, p \in Priorities :
             u \in Range(e.ready[p]) <=> u \notin X /\ e.state[u] = "Ready" /\ e.priority[u] = p
      BY <2>7, <2>10, <2>11, <2>13, <3>1 DEF Queues, Loses, Stays
    <3> QED BY <3>2, <3>3, <3>4 DEF Queues
  <2>15. StandsBy(e, X)
    BY <2>7, <2>11, <2>13, KeSchedAssumption DEF StandsBy
  <2>16. Bar(e) = high
    BY <2>6, <2>7, <2>11, <2>12, BarIsPriority
  <2>17. NoneAbove(e, {})
    <3> SUFFICES ASSUME NEW p \in Priorities, NEW u \in Range(e.ready[p]) PROVE p <= high
      BY <2>16 DEF NoneAbove
    <3>1. Range(d.ready[p]) # {}
      BY <2>10, <2>11 DEF Loses
    <3>2. p \in d.summary
      BY <3>1 DEF Queues
    <3>3. CASE p >= low
      BY <2>2, <2>4, <3>2, <3>3 DEF Priorities
    <3>4. CASE ~(p >= low)
      BY <2>4, <3>4 DEF Priorities
    <3> QED BY <3>3, <3>4
  <2>18. Found(d, e, X)
    BY <2>6, <2>7, <2>11, <2>12, <2>13, <2>14, <2>15, <2>17 DEF Found
  <2> QED BY <2>18 DEF e
<1> QED BY <1>1, <1>2

-----------------------------------------------------------------------------
Runs(d) == \A t \in Thread : d.state[t] = "Running" <=> d.current = t

Halted(d) == \A t \in Thread : d.state[t] # "Running"

(* The database between two operations.                                    *)
Steady(d, Y) == Sound(d, {}, Y) /\ Runs(d)

Keeps(d, e) == e.priority = d.priority /\ e.base = d.base /\ e.current = d.current

LEMMA NoneAboveWeakens ==
    ASSUME NEW d, NEW Y, NEW Z, Y \subseteq Z, NoneAbove(d, Y)
    PROVE  NoneAbove(d, Z)
BY DEF NoneAbove

(* The search from "low" up, of one that is next when nobody is.           *)
Searched(d, e, low) ==
    /\ Placed(e, {}) /\ Keeps(d, e)
    /\ \A u \in Thread : e.state[u] = "Running" <=> d.state[u] = "Running"
    /\ \/ e = d /\ NobodyFrom(d, low)
       \/ NoneAbove(e, {}) /\ e.next \in Thread

LEMMA FindPlaced ==
    ASSUME NEW d, Placed(d, {}), d.next = NoThread, d.current \in Thread,
           NEW low \in Priorities
    PROVE  Searched(d, KiFindReadyThread(d, low), low)
<1> DEFINE e == KiFindReadyThread(d, low)
<1>1. d \in Database /\ Queues(d, {}) /\ StandsBy(d, {}) /\ IdleIs(d) /\ Rests(d, {})
  BY DEF Placed
<1>2. CASE e = d /\ NobodyFrom(d, low)
  <2>1. Searched(d, d, low)
    BY <1>2 DEF Keeps, Searched
  <2> QED BY <1>2, <2>1
<1>3. CASE Found(d, e, {})
  <2> HIDE DEF e
  <2>1. IdleIs(e) /\ Rests(e, {})
    BY <1>1, <1>3, KeSchedAssumption DEF Found, IdleIs, Rests
  <2>2. \A u \in Thread : e.state[u] = "Running" <=> d.state[u] = "Running"
    BY <1>1, <1>3 DEF Found
  <2>3. Placed(e, {}) /\ Keeps(d, e) /\ NoneAbove(e, {}) /\ e.next \in Thread
    BY <1>3, <2>1 DEF Found, Placed, Keeps
  <2> QED BY <2>2, <2>3 DEF e, Searched
<1>4. d.next \in {} \cup {NoThread}
  OBVIOUS
<1> HIDE DEF e
<1>5. (e = d /\ NobodyFrom(d, low)) \/ Found(d, e, {})
  BY <1>1, <1>4, FindReadyThread DEF e
<1> QED BY <1>2, <1>3, <1>5 DEF e

LEMMA NobodyIsAbove ==
    ASSUME NEW d \in Database, NEW Y, NEW low \in Priorities,
           NobodyFrom(d, low), low <= Bar(d)
    PROVE  NoneAbove(d, Y)
<1> SUFFICES ASSUME NEW p \in Priorities, NEW u \in Range(d.ready[p]) PROVE p <= Bar(d)
  BY DEF NoneAbove
<1>1. p < low
  BY DEF NobodyFrom
<1>2. Bar(d) \in Priorities
  BY BarIsPriority
<1> QED BY <1>1, <1>2 DEF Priorities

LEMMA SearchedSteady ==
    ASSUME NEW d, NEW e, NEW Y, NEW low \in Priorities,
           Searched(d, e, low), Runs(d), low <= Bar(d)
    PROVE  Steady(e, Y)
<1>1. Runs(e)
  BY DEF Searched, Runs, Keeps
<1>2. NoneAbove(e, Y)
  <2>1. CASE e = d /\ NobodyFrom(d, low)
    BY <2>1, NobodyIsAbove DEF Searched, Placed
  <2>2. CASE NoneAbove(e, {})
    BY <2>2, NoneAboveWeakens
  <2> QED BY <2>1, <2>2 DEF Searched
<1> QED BY <1>1, <1>2 DEF Steady, Sound, Searched

(* Readying t leaves the running thread running.                           *)
LEMMA ReadiedRuns ==
    ASSUME NEW X, NEW d, Placed(d, X), d.next \notin X, NEW t \in Thread, d.current # t,
           \A u \in Thread \ {t} : d.state[u] = "Running" <=> d.current = u,
           NEW e, Readied(d, e, t)
    PROVE  Runs(e)
<1>1. d.next \in Thread => d.state[d.next] = "Standby"
  BY DEF Placed, StandsBy
<1>2. d.next \in Thread /\ d.next # t => d.current # d.next
  BY <1>1
<1> QED BY <1>1, <1>2 DEF Readied, Runs

Prioritized(d, t, p) == [d EXCEPT !.priority[t] = p]

LEMMA PriorityFields ==
    ASSUME NEW d \in Database, NEW t \in Thread, NEW p \in Priorities,
           NEW e, e = Prioritized(d, t, p)
    PROVE  /\ e \in Database
           /\ e.priority = [d.priority EXCEPT ![t] = p]
           /\ e.state = d.state /\ e.ready = d.ready /\ e.summary = d.summary
           /\ e.base = d.base /\ e.idle = d.idle /\ e.next = d.next /\ e.current = d.current
BY DEF Database, Prioritized

-----------------------------------------------------------------------------
(* KiSetPriorityThread finds the thread's place again, wherever it is.     *)
LEMMA SetPriority ==
    ASSUME NEW d, NEW Y, Steady(d, Y), NEW t \in Thread, NEW p \in Priorities
    PROVE  LET e == KiSetPriorityThread(d, t, p)
           IN /\ Steady(e, Y)
              /\ e.priority = [d.priority EXCEPT ![t] = p]
              /\ e.base = d.base /\ e.current = d.current
<1> DEFINE e == KiSetPriorityThread(d, t, p)
           old == d.priority[t]
           set == Prioritized(d, t, p)
           None == {}
           One == {t}
           Goal == /\ Steady(e, Y)
                   /\ e.priority = [d.priority EXCEPT ![t] = p]
                   /\ e.base = d.base /\ e.current = d.current
<1>1. /\ d \in Database /\ Queues(d, {}) /\ StandsBy(d, {}) /\ IdleIs(d) /\ Rests(d, {})
      /\ NoneAbove(d, Y) /\ Runs(d)
  BY DEF Steady, Sound, Placed
<1>2. old \in Priorities /\ d.priority \in [Thread -> Priorities]
  BY <1>1 DEF Database
<1>3. /\ set \in Database
      /\ set.priority = [d.priority EXCEPT ![t] = p]
      /\ set.state = d.state /\ set.ready = d.ready /\ set.summary = d.summary
      /\ set.base = d.base /\ set.idle = d.idle /\ set.next = d.next
      /\ set.current = d.current
  BY <1>1, PriorityFields
<1>4. CASE p = old
  <2>1. e = d
    BY <1>2, <1>4 DEF KiSetPriorityThread, Priorities
  <2>2. d.priority = [d.priority EXCEPT ![t] = p]
    BY <1>2, <1>4
  <2> QED BY <2>1, <2>2
<1> HIDE DEF set
<1>5. \A u \in Thread : set.priority[u] = IF u = t THEN p ELSE d.priority[u]
  BY <1>2, <1>3
<1>6. IdleIs(set) /\ Runs(set) /\ StandsBy(set, {}) /\ Rests(set, {})
  BY <1>1, <1>3 DEF IdleIs, Runs, StandsBy, Rests
<1>7. d.next # t /\ d.current # t => Bar(set) = Bar(d)
  BY <1>1, <1>3, <1>5, KeSchedAssumption DEF Bar, Priority, Database
<1>8. d.state[t] # "Ready" => Queues(set, {}) /\ Queues(set, {t})
  BY <1>1, <1>3, <1>5 DEF Queues
<1>9. CASE p # old /\ d.state[t] = "Ready"
  <2> DEFINE c == TakeOff(set, t, old)
  <2>1. e = IF p < old THEN Insert(c, t) ELSE KiReadyThread(c, t)
    BY <1>9 DEF KiSetPriorityThread, Prioritized, set
  <2>2. c = TakeOff(set, t, d.priority[t])
    OBVIOUS
  <2> HIDE DEF c, e
  <2>3. /\ t \notin None /\ Queues(d, None)
        /\ SameButFor(d, set, t)
    BY <1>1, <1>3, <1>5 DEF SameButFor
  <2> HIDE DEF None
  <2>4. /\ c \in Database
        /\ Stays(c, set)
        /\ Queues(c, None \cup {t})
        /\ Loses(set, c, t)
    <3>1. d \in Database /\ set \in Database /\ d.state[t] = "Ready"
      BY <1>1, <1>3, <1>9
    <3> QED BY <2>2, <2>3, <3>1, TakeOffQueues
  <2>5. /\ c.state = d.state /\ c.priority = set.priority /\ c.base = d.base
        /\ c.idle = d.idle /\ c.next = d.next /\ c.current = d.current
    BY <1>3, <2>4 DEF Aside, Stays
  <2>6. None \cup {t} = One /\ One \ {t} = None /\ t \in One
    BY DEF None, One
  <2>7. d.next # t /\ d.current # t
    BY <1>1, <1>9 DEF StandsBy, Runs
  <2>8. Bar(c) = Bar(d) /\ Bar(d) \in Priorities
    <3>1. Bar(c) = Bar(set)
      BY <2>4 DEF Bar, Priority, Aside, Stays
    <3> QED BY <1>1, <1>7, <2>7, <3>1, BarIsPriority
  <2>9. Queues(c, One)
    BY <2>4, <2>6
  <2>10. StandsBy(c, One) /\ IdleIs(c) /\ Rests(c, One)
    BY <1>1, <2>5 DEF StandsBy, IdleIs, Rests
  <2> HIDE DEF One
  <2>11. NoneAbove(c, Y)
    BY <1>1, <1>3, <2>4, <2>8 DEF NoneAbove, Loses
  <2>12. CASE p < old
    <3>1. e = Insert(c, t)
      BY <2>1, <2>12
    <3>2. /\ e \in Database
          /\ e.state = [c.state EXCEPT ![t] = "Ready"]
          /\ Aside(e, c)
          /\ Queues(e, One \ {t})
          /\ Gains(c, e, t)
      BY <2>4, <2>6, <2>9, <3>1, InsertQueues
    <3>3. /\ e.priority = set.priority /\ e.base = d.base
          /\ e.idle = d.idle /\ e.next = d.next /\ e.current = d.current
      BY <2>5, <3>2 DEF Aside
    <3>4. e.state = d.state
      <4>1. d.state = [d.state EXCEPT ![t] = "Ready"]
        BY <1>1, <1>9 DEF Database
      <4> QED BY <2>5, <3>2, <4>1
    <3>5. StandsBy(e, {}) /\ IdleIs(e) /\ Rests(e, {}) /\ Runs(e)
      BY <1>1, <3>3, <3>4 DEF StandsBy, IdleIs, Rests, Runs
    <3>6. Bar(e) = Bar(d)
      <4>1. Bar(e) = Bar(c)
        BY <2>5, <3>3 DEF Bar, Priority
      <4> QED BY <2>8, <4>1
    <3>7. p <= Bar(d) \/ t \in Y
      <4>1. t \in Range(d.ready[old])
        BY <1>1, <1>2, <1>9 DEF Queues
      <4>2. old <= Bar(d) \/ t \in Y
        BY <1>1, <1>2, <4>1 DEF NoneAbove
      <4> QED BY <1>2, <2>8, <2>12, <4>2 DEF Priorities
    <3>8. NoneAbove(e, Y)
      <4>1. \A r \in Priorities :
               Range(e.ready[r]) = Range(c.ready[r]) \cup (IF r = p THEN {t} ELSE {})
        BY <1>5, <2>5, <3>2 DEF Gains
      <4> SUFFICES ASSUME NEW r \in Priorities, NEW u \in Range(e.ready[r])
                   PROVE  r <= Bar(e) \/ u \in Y
        BY DEF NoneAbove
      <4>2. CASE u \in Range(c.ready[r])
        BY <2>8, <2>11, <3>6, <4>2 DEF NoneAbove
      <4>3. CASE r = p /\ u = t
        BY <3>6, <3>7, <4>3
      <4> QED BY <4>1, <4>2, <4>3
    <3> QED BY <1>3, <2>6, <3>2, <3>3, <3>5, <3>8 DEF Steady, Sound, Placed, None, e
  <2>13. CASE ~(p < old)
    <3>1. e = KiReadyThread(c, t)
      BY <2>1, <2>13
    <3>2. Sound(c, One, Y) /\ c.next \notin One
      BY <2>4, <2>5, <2>7, <2>9, <2>10, <2>11 DEF Sound, Placed, One
    <3>3. Sound(e, {}, Y) /\ Readied(c, e, t)
      <4>1. Sound(KiReadyThread(c, t), One \ {t}, Y) /\ Readied(c, KiReadyThread(c, t), t)
        BY <2>6, <3>2, ReadyThread
      <4> QED BY <2>6, <3>1, <4>1 DEF None
    <3>4. Runs(e)
      <4>1. \A u \in Thread \ {t} : c.state[u] = "Running" <=> c.current = u
        BY <1>1, <2>5 DEF Runs
      <4>2. Placed(c, One) /\ c.current # t
        BY <2>5, <2>7, <3>2 DEF Sound
      <4> QED BY <3>2, <3>3, <4>1, <4>2, ReadiedRuns
    <3> QED BY <1>3, <2>5, <3>3, <3>4 DEF Steady, Readied, e
  <2> QED BY <2>12, <2>13
<1>10. CASE p < old /\ d.state[t] = "Standby"
  <2> DEFINE s == KiFindReadyThread(set, p)
  <2>1. e = IF s.next = t THEN set ELSE KiReadyThread(s, t)
    BY <1>2, <1>10 DEF KiSetPriorityThread, Prioritized, set, Priorities
  <2> HIDE DEF s, e
  <2>2. d.next = t /\ t \in {t} \cup {NoThread}
    BY <1>1, <1>10 DEF StandsBy
  <2>3. Queues(set, {t}) /\ Queues(set, {}) /\ StandsBy(set, {t})
    BY <1>6, <1>8, <1>10 DEF StandsBy
  <2>4. (s = set /\ NobodyFrom(set, p)) \/ Found(set, s, {t})
    BY <1>3, <2>2, <2>3, FindReadyThread DEF s
  <2>5. Bar(set) = p
    <3>1. Bar(set) = set.priority[t]
      BY <1>3, <2>2, BarIsPriority
    <3> QED BY <1>5, <3>1
  <2>6. CASE s = set /\ NobodyFrom(set, p)
    <3>1. e = set
      BY <1>3, <2>1, <2>2, <2>6
    <3>2. NoneAbove(set, Y)
      BY <1>3, <2>5, <2>6, NobodyIsAbove DEF Priorities
    <3> QED BY <1>3, <1>6, <2>3, <3>1, <3>2 DEF Steady, Sound, Placed, e
  <2>7. CASE Found(set, s, {t})
    <3>1. e = KiReadyThread(s, t) /\ s.next \notin {t}
      BY <2>1, <2>7 DEF Found
    <3>2. IdleIs(s) /\ Rests(s, {t})
      BY <1>3, <1>6, <2>2, <2>7, KeSchedAssumption DEF Found, IdleIs, Rests
    <3>3. Sound(s, {t}, Y)
      BY <2>7, <3>2, NoneAboveWeakens DEF Found, Sound, Placed
    <3>4. Sound(e, {}, Y) /\ Readied(s, e, t)
      <4>1. Sound(KiReadyThread(s, t), {t} \ {t}, Y) /\ Readied(s, KiReadyThread(s, t), t)
        BY <3>1, <3>3, ReadyThread
      <4>2. {t} \ {t} = {}
        OBVIOUS
      <4> QED BY <3>1, <4>1, <4>2
    <3>5. Runs(e)
      <4>1. s.current = d.current /\ d.current # t
        BY <1>1, <1>3, <1>10, <2>7 DEF Found, Runs
      <4>2. \A u \in Thread \ {t} : s.state[u] = "Running" <=> s.current = u
        BY <1>3, <1>6, <2>7, <4>1 DEF Found, Runs
      <4>3. Placed(s, {t})
        BY <3>3 DEF Sound
      <4> QED BY <3>1, <3>4, <4>1, <4>2, <4>3, ReadiedRuns
    <3> QED BY <1>3, <2>7, <3>4, <3>5 DEF Steady, Readied, Found, e
  <2> QED BY <2>4, <2>6, <2>7
<1>11. CASE p < old /\ d.state[t] = "Running" /\ d.next = NoThread
  <2>1. e = KiFindReadyThread(set, p)
    BY <1>2, <1>11 DEF KiSetPriorityThread, Prioritized, set, Priorities
  <2> HIDE DEF e
  <2>2. d.current = t
    BY <1>1, <1>11 DEF Runs
  <2>3. Placed(set, {})
    BY <1>3, <1>6, <1>8, <1>11 DEF Placed
  <2>4. Searched(set, e, p)
    BY <1>3, <1>11, <2>1, <2>2, <2>3, FindPlaced
  <2>5. Bar(set) = p
    <3>1. Bar(set) = set.priority[t]
      BY <1>3, <1>11, <2>2, BarIsPriority
    <3> QED BY <1>5, <3>1
  <2>6. Steady(e, Y)
    BY <1>6, <2>4, <2>5, SearchedSteady DEF Priorities
  <2> QED BY <1>3, <2>4, <2>6 DEF Searched, Keeps, e
<1>12. CASE /\ p # old /\ d.state[t] # "Ready"
            /\ ~(p < old /\ d.state[t] = "Standby")
            /\ ~(p < old /\ d.state[t] = "Running" /\ d.next = NoThread)
  <2>1. e = set
    BY <1>12 DEF KiSetPriorityThread, Prioritized, set
  <2>2. Bar(d) <= Bar(set) /\ Bar(d) \in Priorities /\ Bar(set) \in Priorities
    <3>1. Bar(d) \in Priorities /\ Bar(set) \in Priorities
      BY <1>1, <1>3, BarIsPriority
    <3>2. CASE d.next = t
      <4>1. ~(p < old)
        BY <1>1, <1>12, <3>2 DEF StandsBy
      <4>2. Bar(d) = old /\ Bar(set) = p
        BY <1>1, <1>3, <1>5, <3>2, BarIsPriority
      <4> QED BY <1>2, <3>1, <4>1, <4>2 DEF Priorities
    <3>3. CASE d.next = NoThread /\ d.current = t
      <4>1. ~(p < old)
        BY <1>1, <1>12, <3>3 DEF Runs
      <4>2. Bar(d) = old /\ Bar(set) = p
        BY <1>1, <1>3, <1>5, <3>3, BarIsPriority
      <4> QED BY <1>2, <3>1, <4>1, <4>2 DEF Priorities
    <3>4. CASE d.next # t /\ (d.next # NoThread \/ d.current # t)
      <4>1. Bar(set) = Bar(d)
        BY <1>1, <1>3, <1>5, <3>4, KeSchedAssumption DEF Bar, Priority, Database
      <4> QED BY <3>1, <4>1 DEF Priorities
    <3> QED BY <3>2, <3>3, <3>4, KeSchedAssumption
  <2>3. NoneAbove(set, Y)
    <3> SUFFICES ASSUME NEW r \in Priorities, NEW u \in Range(d.ready[r])
                 PROVE  r <= Bar(set) \/ u \in Y
      BY <1>3 DEF NoneAbove
    <3>1. r <= Bar(d) \/ u \in Y
      BY <1>1 DEF NoneAbove
    <3> QED BY <2>2, <3>1 DEF Priorities
  <2> QED BY <1>3, <1>6, <1>8, <1>12, <2>1, <2>3 DEF Steady, Sound, Placed
<1> QED
  <2>1. Goal
    BY <1>4, <1>9, <1>10, <1>11, <1>12
  <2> QED BY <2>1

-----------------------------------------------------------------------------
(* The switches.                                                           *)
LEMMA SwapFields ==
    ASSUME NEW d \in Database, d.next \in Thread, NEW e, e = SwapToNext(d)
    PROVE  /\ e \in Database
           /\ e.state = [d.state EXCEPT ![d.next] = "Running"]
           /\ e.next = NoThread /\ e.current = d.next
           /\ e.ready = d.ready /\ e.summary = d.summary /\ e.idle = d.idle
           /\ e.priority = d.priority /\ e.base = d.base
BY DEF SwapToNext, Database

(* The next thread takes a processor on which nobody runs any more.        *)
LEMMA SwapSteady ==
    ASSUME NEW d, NEW Y, Sound(d, {}, Y), Halted(d), d.next \in Thread
    PROVE  /\ Steady(SwapToNext(d), Y)
           /\ SwapToNext(d).current \in Thread
           /\ SwapToNext(d).priority = d.priority /\ SwapToNext(d).base = d.base
<1> DEFINE n == d.next
           e == SwapToNext(d)
<1>1. /\ d \in Database /\ Queues(d, {}) /\ StandsBy(d, {}) /\ IdleIs(d) /\ Rests(d, {})
      /\ NoneAbove(d, Y)
  BY DEF Sound, Placed
<1>2. /\ e \in Database
      /\ e.state = [d.state EXCEPT ![n] = "Running"]
      /\ e.next = NoThread /\ e.current = n
      /\ e.ready = d.ready /\ e.summary = d.summary /\ e.idle = d.idle
      /\ e.priority = d.priority /\ e.base = d.base
  BY <1>1, SwapFields
<1> HIDE DEF e
<1>3. \A u \in Thread : e.state[u] = IF u = n THEN "Running" ELSE d.state[u]
  BY <1>1, <1>2 DEF Database
<1>4. n \in Thread /\ d.state[n] = "Standby" /\ ~d.idle
  BY <1>1, KeSchedAssumption DEF StandsBy, IdleIs
<1>5. Queues(e, {})
  BY <1>1, <1>2, <1>3, <1>4 DEF Queues
<1>6. StandsBy(e, {}) /\ IdleIs(e) /\ Rests(e, {})
  BY <1>1, <1>2, <1>3, <1>4, KeSchedAssumption DEF StandsBy, IdleIs, Rests
<1>7. Runs(e)
  BY <1>2, <1>3 DEF Halted, Runs
<1>8. Bar(e) = Bar(d)
  <2>1. Bar(d) = d.priority[n]
    BY <1>1, <1>4, BarIsPriority
  <2>2. Bar(e) = e.priority[n]
    BY <1>2, <1>4, BarIsPriority
  <2> QED BY <1>2, <2>1, <2>2
<1>9. NoneAbove(e, Y)
  BY <1>1, <1>2, <1>8 DEF NoneAbove
<1> QED BY <1>2, <1>4, <1>5, <1>6, <1>7, <1>9 DEF Steady, Sound, Placed, e

Changing(d) == [d EXCEPT !.next = NoThread, !.current = d.next]
InState(d, t, x) == [d EXCEPT !.state[t] = x]

LEMMA ChangingFields ==
    ASSUME NEW d \in Database, d.next \in Thread, NEW e, e = Changing(d)
    PROVE  /\ e \in Database
           /\ e.next = NoThread /\ e.current = d.next
           /\ e.state = d.state
           /\ e.ready = d.ready /\ e.summary = d.summary /\ e.idle = d.idle
           /\ e.priority = d.priority /\ e.base = d.base
BY DEF Changing, Database

LEMMA StateFields ==
    ASSUME NEW d \in Database, NEW t \in Thread, NEW x \in {"Waiting", "Running"},
           NEW e, e = InState(d, t, x)
    PROVE  /\ e \in Database
           /\ \A u \in Thread : e.state[u] = IF u = t THEN x ELSE d.state[u]
           /\ e.ready = d.ready /\ e.summary = d.summary
           /\ Aside(e, d)
BY DEF InState, Database, Aside

(* The current thread goes back to the queues, or next to its successor.   *)
LEMMA RedispatchSteady ==
    ASSUME NEW d, NEW Y, Steady(d, Y), d.next \in Thread, d.current \in Thread
    PROVE  /\ Steady(Redispatch(d), Y)
           /\ Redispatch(d).current \in Thread
           /\ Redispatch(d).priority = d.priority /\ Redispatch(d).base = d.base
<1> DEFINE n == d.next
           r == d.current
           c == Changing(d)
           b == KiReadyThread(c, r)
           e == InState(b, n, "Running")
           Pair == {n, r}
<1>1. /\ d \in Database /\ Queues(d, {}) /\ StandsBy(d, {}) /\ IdleIs(d) /\ Rests(d, {})
      /\ NoneAbove(d, Y) /\ Runs(d)
  BY DEF Steady, Sound, Placed
<1>2. Redispatch(d) = e
  BY DEF Redispatch, Changing, InState
<1>3. /\ n \in Thread /\ r \in Thread /\ n # r
      /\ d.state[n] = "Standby" /\ d.state[r] = "Running" /\ ~d.idle
  BY <1>1, KeSchedAssumption DEF StandsBy, Runs, IdleIs
<1>4. /\ c \in Database
      /\ c.next = NoThread /\ c.current = n
      /\ c.state = d.state
      /\ c.ready = d.ready /\ c.summary = d.summary /\ c.idle = d.idle
      /\ c.priority = d.priority /\ c.base = d.base
  BY <1>1, ChangingFields
<1> HIDE DEF c
<1>5. Sound(c, Pair, Y)
  <2>1. Queues(c, Pair)
    BY <1>1, <1>3, <1>4 DEF Queues
  <2>2. StandsBy(c, Pair) /\ IdleIs(c) /\ Rests(c, Pair)
    BY <1>1, <1>3, <1>4, KeSchedAssumption DEF StandsBy, IdleIs, Rests
  <2>3. Bar(c) = Bar(d)
    <3>1. Bar(d) = d.priority[n]
      BY <1>1, <1>3, BarIsPriority
    <3>2. Bar(c) = c.priority[n]
      BY <1>3, <1>4, BarIsPriority
    <3> QED BY <1>4, <3>1, <3>2
  <2>4. NoneAbove(c, Y)
    BY <1>1, <1>4, <2>3 DEF NoneAbove
  <2> QED BY <1>4, <2>1, <2>2, <2>4 DEF Sound, Placed
<1>6. c.next \notin Pair /\ r \in Pair /\ Pair \ {r} = {n}
  BY <1>3, <1>4, KeSchedAssumption
<1> DEFINE Rest == Pair \ {r}
<1>7. Sound(b, Rest, Y) /\ Readied(c, b, r)
  <2> HIDE DEF n, r, Pair
  <2> QED BY <1>3, <1>5, <1>6, ReadyThread
<1>8. Rest = {n}
  BY <1>6
<1> HIDE DEF b, Rest
<1>9. /\ b \in Database /\ Queues(b, {n}) /\ StandsBy(b, {n}) /\ IdleIs(b) /\ NoneAbove(b, Y)
  BY <1>7, <1>8 DEF Sound, Placed
<1>10. /\ b.priority = d.priority /\ b.base = d.base /\ b.current = n
       /\ b.next \in {NoThread, r}
       /\ b.state[r] \in {"Ready", "Standby"}
       /\ \A u \in Thread \ {r} : b.state[u] = d.state[u]
  BY <1>4, <1>7, KeSchedAssumption DEF Readied
<1>11. /\ e \in Database
       /\ \A u \in Thread : e.state[u] = IF u = n THEN "Running" ELSE b.state[u]
       /\ e.ready = b.ready /\ e.summary = b.summary
       /\ Aside(e, b)
  <2> HIDE DEF n
  <2> QED BY <1>3, <1>9, StateFields
<1> HIDE DEF e
<1>12. /\ e.priority = d.priority /\ e.base = d.base /\ e.current = n
       /\ e.next = b.next /\ e.idle = b.idle
  BY <1>10, <1>11 DEF Aside
<1>13. Queues(e, {})
  BY <1>9, <1>10, <1>11, <1>12 DEF Queues
<1>14. StandsBy(e, {})
  BY <1>3, <1>9, <1>10, <1>11, <1>12, KeSchedAssumption DEF StandsBy
<1>15. IdleIs(e) /\ Rests(e, {})
  BY <1>3, <1>9, <1>10, <1>12, KeSchedAssumption DEF IdleIs, Rests
<1>16. Runs(e)
  BY <1>1, <1>3, <1>10, <1>11, <1>12 DEF Runs
<1>17. Bar(e) = Bar(b)
  BY <1>10, <1>12 DEF Bar, Priority
<1>18. NoneAbove(e, Y)
  BY <1>9, <1>11, <1>17 DEF NoneAbove
<1> QED BY <1>2, <1>3, <1>11, <1>12, <1>13, <1>14, <1>15, <1>16, <1>18 DEF Steady, Sound, Placed

Idled(d) == [d EXCEPT !.current = IdleThread, !.idle = TRUE]

LEMMA IdledFields ==
    ASSUME NEW d \in Database, NEW e, e = Idled(d)
    PROVE  /\ e \in Database
           /\ e.current = IdleThread /\ e.idle = TRUE
           /\ e.next = d.next /\ e.state = d.state
           /\ e.ready = d.ready /\ e.summary = d.summary
           /\ e.priority = d.priority /\ e.base = d.base
BY DEF Idled, Database

(* Nobody is next, and nobody is ready: everybody waits.                   *)
LEMMA IdleSteady ==
    ASSUME NEW d, NEW Y, Sound(d, {}, Y), Halted(d), d.next = NoThread,
           NobodyFrom(d, 0)
    PROVE  Steady(Idled(d), Y)
<1> DEFINE e == Idled(d)
<1>1. /\ d \in Database /\ Queues(d, {}) /\ StandsBy(d, {})
  BY DEF Sound, Placed
<1>2. /\ e \in Database
      /\ e.current = IdleThread /\ e.idle = TRUE
      /\ e.next = d.next /\ e.state = d.state
      /\ e.ready = d.ready /\ e.summary = d.summary
      /\ e.priority = d.priority /\ e.base = d.base
  BY <1>1, IdledFields
<1> HIDE DEF e
<1>3. \A p \in Priorities : Range(d.ready[p]) = {}
  BY DEF NobodyFrom, Priorities
<1>4. \A t \in Thread : d.state[t] = "Waiting"
  <2> TAKE t \in Thread
  <2>1. d.state[t] \in {"Waiting", "Ready", "Standby", "Running"} /\ d.priority[t] \in Priorities
    BY <1>1 DEF Database
  <2>2. d.state[t] # "Ready"
    BY <1>1, <1>3, <2>1 DEF Queues
  <2>3. d.state[t] # "Standby"
    BY <1>1, KeSchedAssumption DEF StandsBy
  <2>4. d.state[t] # "Running"
    BY DEF Halted
  <2> QED BY <2>1, <2>2, <2>3, <2>4
<1>5. Queues(e, {}) /\ StandsBy(e, {}) /\ IdleIs(e) /\ Rests(e, {})
  BY <1>1, <1>2, <1>4 DEF Queues, StandsBy, IdleIs, Rests
<1>6. Runs(e) /\ NoneAbove(e, Y)
  BY <1>2, <1>3, <1>4, KeSchedAssumption DEF Runs, NoneAbove
<1> QED BY <1>2, <1>5, <1>6 DEF Steady, Sound, Placed, e

(* The levels at which the idle thread is current.                         *)
LevelFits(d, l) ==
    /\ d.current = IdleThread <=> l \in {"idle", "idledpc"}
    /\ l \in {"passive", "locked", "dispatch", "dpc", "idle", "idledpc"}

LEMMA SwapThread ==
    ASSUME NEW d, NEW Y, Sound(d, {}, Y), Halted(d), d.current \in Thread,
           KiSwapThread(d)
    PROVE  /\ Steady(db', Y) /\ db'.priority = d.priority /\ db'.base = d.base
           /\ LevelFits(db', level')
<1> DEFINE s == KiFindReadyThread(d, 0)
<1>1. Placed(d, {}) /\ NoneAbove(d, Y) /\ d \in Database
  BY DEF Sound, Placed
<1>2. CASE d.next # NoThread
  <2>1. d.next \in Thread
    BY <1>1, <1>2 DEF Database
  <2>2. db' = SwapToNext(d) /\ level' = "passive"
    BY <1>2 DEF KiSwapThread
  <2>3. /\ Steady(db', Y) /\ db'.current \in Thread
        /\ db'.priority = d.priority /\ db'.base = d.base
    BY <2>1, <2>2, SwapSteady
  <2> QED BY <2>2, <2>3, KeSchedAssumption DEF LevelFits
<1>3. CASE d.next = NoThread
  <2>1. 0 \in Priorities
    BY KeSchedAssumption DEF Priorities
  <2>2. Searched(d, s, 0)
    BY <1>1, <1>3, <2>1, FindPlaced
  <2>3. /\ db' = IF s.next # NoThread THEN SwapToNext(s) ELSE Idled(s)
        /\ level' = IF s.next # NoThread THEN "passive" ELSE "idle"
    BY <1>3 DEF KiSwapThread, Idled
  <2> HIDE DEF s
  <2>4. Halted(s) /\ s.priority = d.priority /\ s.base = d.base
    BY <2>2 DEF Searched, Halted, Keeps
  <2>5. CASE s = d /\ NobodyFrom(d, 0)
    <3>1. Steady(Idled(d), Y)
      BY <1>3, <2>5, IdleSteady
    <3>2. db' = Idled(d) /\ level' = "idle"
      BY <1>3, <2>3, <2>5
    <3>3. db'.current = IdleThread /\ db'.priority = d.priority /\ db'.base = d.base
      BY <1>1, <3>2, IdledFields
    <3> QED BY <3>1, <3>2, <3>3 DEF LevelFits
  <2>6. CASE NoneAbove(s, {}) /\ s.next \in Thread
    <3>1. Sound(s, {}, Y)
      BY <2>2, <2>6, NoneAboveWeakens DEF Searched, Sound
    <3>2. db' = SwapToNext(s) /\ level' = "passive"
      BY <2>3, <2>6, KeSchedAssumption
    <3>3. /\ Steady(db', Y) /\ db'.current \in Thread
          /\ db'.priority = s.priority /\ db'.base = s.base
      BY <2>4, <2>6, <3>1, <3>2, SwapSteady
    <3> QED BY <2>4, <3>2, <3>3, KeSchedAssumption DEF LevelFits
  <2> QED BY <2>2, <2>5, <2>6 DEF Searched
<1> QED BY <1>2, <1>3

LEMMA UnlockSteady ==
    ASSUME NEW d, NEW Y, Steady(d, Y), LevelFits(d, level), requested \in BOOLEAN,
           KiUnlockDispatcherDatabase(d)
    PROVE  /\ Steady(db', Y) /\ db'.priority = d.priority /\ db'.base = d.base
           /\ LevelFits(db', level') /\ requested' \in BOOLEAN
<1>1. d \in Database
  BY DEF Steady, Sound, Placed
<1>2. requested' \in BOOLEAN
  BY DEF KiUnlockDispatcherDatabase
<1>3. CASE d.next # NoThread /\ level = "locked"
  <2>1. d.next \in Thread /\ d.current \in Thread
    BY <1>1, <1>3 DEF Database, LevelFits
  <2>2. db' = Redispatch(d) /\ level' = "passive"
    BY <1>3 DEF KiUnlockDispatcherDatabase
  <2>3. /\ Steady(db', Y) /\ db'.current \in Thread
        /\ db'.priority = d.priority /\ db'.base = d.base
    BY <2>1, <2>2, RedispatchSteady
  <2> QED BY <1>2, <2>2, <2>3, KeSchedAssumption DEF LevelFits
<1>4. CASE ~(d.next # NoThread /\ level = "locked")
  <2>1. db' = d /\ level' = IF level = "locked" THEN "passive" ELSE level
    BY <1>4 DEF KiUnlockDispatcherDatabase
  <2>2. LevelFits(db', level')
    BY <2>1 DEF LevelFits
  <2> QED BY <1>2, <2>1, <2>2
<1> QED BY <1>3, <1>4

-----------------------------------------------------------------------------
(* Priorities and bases.                                                   *)
LEMMA BasesBounded == Bases \subseteq 1..(LowRealtime - 1)
<1>1. \A i \in BaseIncrements : Base(i) \in 1..(LowRealtime - 1)
  <2> TAKE i \in BaseIncrements
  <2> DEFINE m == Min({ProcessBase + i, LowRealtime - 1})
  <2>1. ProcessBase + i \in Int /\ LowRealtime \in Nat /\ LowRealtime >= 2
    BY KeSchedAssumption
  <2>2. m = IF ProcessBase + i <= LowRealtime - 1 THEN ProcessBase + i ELSE LowRealtime - 1
    BY <2>1, MinOfTwo
  <2>3. m \in Int /\ m <= LowRealtime - 1
    <3> HIDE DEF m
    <3> QED BY <2>1, <2>2
  <2> HIDE DEF m
  <2>4. Max({1, m}) = IF 1 >= m THEN 1 ELSE m
    BY <2>3, MaxOfTwo
  <2>5. Base(i) = Max({1, m})
    BY DEF Base, m
  <2> QED BY <2>1, <2>3, <2>4, <2>5
<1> QED BY <1>1, KeSchedAssumption DEF Bases

LEMMA DatabaseNumbers ==
    ASSUME NEW d \in Database, NEW t \in Thread
    PROVE  /\ d.priority[t] \in 0..HighPriority /\ d.base[t] \in 1..(LowRealtime - 1)
           /\ d.base[t] \in Bases /\ d.quantum[t] \in Int
           /\ HighPriority \in Nat /\ LowRealtime \in 2..HighPriority
BY BasesBounded, KeSchedAssumption DEF Database, Priorities

(* What the ticks and the charges take away can always be given again.     *)
LEMMA DecayedBounds ==
    ASSUME NEW d \in Database, NEW t \in Thread
    PROVE  Decayed(d, t) \in Priorities /\ Decayed(d, t) >= d.base[t]
<1> DEFINE a == d.priority[t] - 1
           b == d.base[t]
<1>1. a \in Int /\ b \in Int /\ a <= HighPriority /\ b <= HighPriority /\ b >= 1
  BY DatabaseNumbers
<1>2. Decayed(d, t) = Max({a, b})
  BY DEF Decayed
<1> HIDE DEF a, b
<1>3. Max({a, b}) = IF a >= b THEN a ELSE b
  BY <1>1, MaxOfTwo
<1>4. Decayed(d, t) \in Priorities /\ Decayed(d, t) >= b
  BY <1>1, <1>2, <1>3, KeSchedAssumption DEF Priorities
<1> QED BY <1>4 DEF b

(* A priority stays one when it moves with the base.                       *)
MarginOf(d, t) == \A b \in Bases : d.priority[t] + b >= d.base[t]

Margin(d) == \A t \in Thread : MarginOf(d, t)

LEMMA MarginKept ==
    ASSUME NEW d \in Database, NEW e \in Database, NEW t \in Thread, Margin(d),
           e.base = d.base,
           \A u \in Thread \ {t} : e.priority[u] = d.priority[u],
           e.priority[t] >= d.priority[t] \/ e.priority[t] >= d.base[t]
    PROVE  Margin(e)
<1> SUFFICES ASSUME NEW u \in Thread, NEW b \in Bases PROVE e.priority[u] + b >= e.base[u]
  BY DEF Margin, MarginOf
<1>1. /\ b \in Nat /\ d.priority[u] \in Int /\ e.priority[u] \in Int /\ d.base[u] \in Int
      /\ d.priority[u] + b >= d.base[u]
  BY BasesBounded, DatabaseNumbers, KeSchedAssumption DEF Margin, MarginOf
<1>2. CASE u # t
  BY <1>1, <1>2
<1>3. CASE u = t
  BY <1>1, <1>3
<1> QED BY <1>2, <1>3

(* Changes that move nobody.                                               *)
Same(d, e) ==
    /\ e \in Database
    /\ e.state = d.state /\ e.ready = d.ready /\ e.summary = d.summary
    /\ e.priority = d.priority /\ e.idle = d.idle
    /\ e.next = d.next /\ e.current = d.current

LEMMA SameSound ==
    ASSUME NEW d, NEW e, NEW X, NEW Y, Same(d, e)
    PROVE  /\ Sound(d, X, Y) => Sound(e, X, Y)
           /\ Steady(d, Y) => Steady(e, Y)
           /\ Bar(e) = Bar(d)
<1>1. Bar(e) = Bar(d)
  BY DEF Same, Bar, Priority
<1>2. \A Z : Queues(d, Z) => Queues(e, Z)
  BY DEF Same, Queues
<1>3. \A Z : Placed(d, Z) => Placed(e, Z)
  BY <1>2 DEF Same, Placed, StandsBy, IdleIs, Rests
<1>4. \A Z : NoneAbove(d, Z) => NoneAbove(e, Z)
  BY <1>1 DEF Same, NoneAbove
<1>5. Runs(d) => Runs(e)
  BY DEF Same, Runs
<1> QED BY <1>1, <1>3, <1>4, <1>5 DEF Sound, Steady

Charged(d, t, q) == [d EXCEPT !.quantum[t] = q]
Unpreempted(d, t) == [d EXCEPT !.preempted[t] = FALSE]
Renewed(d, t, q) == [d EXCEPT !.preempted[t] = FALSE, !.quantum[t] = q]
Based(d, t, b) == [d EXCEPT !.base[t] = b]

LEMMA ChargedSame ==
    ASSUME NEW d \in Database, NEW t \in Thread, NEW q \in Int
    PROVE  Same(d, Charged(d, t, q)) /\ Charged(d, t, q).base = d.base
BY DEF Same, Charged, Database

LEMMA UnpreemptedSame ==
    ASSUME NEW d \in Database, NEW t \in Thread
    PROVE  Same(d, Unpreempted(d, t)) /\ Unpreempted(d, t).base = d.base
BY DEF Same, Unpreempted, Database

LEMMA RenewedSame ==
    ASSUME NEW d \in Database, NEW t \in Thread, NEW q \in Int
    PROVE  Same(d, Renewed(d, t, q)) /\ Renewed(d, t, q).base = d.base
BY DEF Same, Renewed, Database

LEMMA BasedSame ==
    ASSUME NEW d \in Database, NEW t \in Thread, NEW b \in Bases
    PROVE  /\ Same(d, Based(d, t, b))
           /\ \A u \in Thread : Based(d, t, b).base[u] = IF u = t THEN b ELSE d.base[u]
BY DEF Same, Based, Database

-----------------------------------------------------------------------------
(* The database that the invariant is about.                               *)
Held(d, Y) == Steady(d, Y) /\ Margin(d)

LEMMA SameHeld ==
    ASSUME NEW d, NEW e, NEW Y, Held(d, Y), Same(d, e), e.base = d.base
    PROVE  Held(e, Y)
BY SameSound DEF Held, Margin, MarginOf, Same

LEMMA SetHeld ==
    ASSUME NEW d, NEW Y, Steady(d, Y), NEW t \in Thread, NEW p \in Priorities,
           \A u \in Thread \ {t} : MarginOf(d, u),
           \A b \in Bases : p + b >= d.base[t]
    PROVE  LET e == KiSetPriorityThread(d, t, p)
           IN Held(e, Y) /\ e.base = d.base /\ e.current = d.current
<1> DEFINE e == KiSetPriorityThread(d, t, p)
<1>1. /\ Steady(e, Y)
      /\ e.priority = [d.priority EXCEPT ![t] = p]
      /\ e.base = d.base /\ e.current = d.current
  BY SetPriority
<1> HIDE DEF e
<1>2. d \in Database
  BY DEF Steady, Sound, Placed
<1>3. \A u \in Thread : e.priority[u] = IF u = t THEN p ELSE d.priority[u]
  BY <1>1, <1>2 DEF Database
<1>4. Margin(e)
  BY <1>1, <1>3 DEF Margin, MarginOf
<1> QED BY <1>1, <1>4 DEF Held, e

(* A priority that is at least the base leaves the margin.                 *)
LEMMA BaseIsMargin ==
    ASSUME NEW d \in Database, NEW t \in Thread, NEW p \in Priorities, p >= d.base[t]
    PROVE  \A b \in Bases : p + b >= d.base[t]
BY BasesBounded, DatabaseNumbers, KeSchedAssumption DEF Priorities

LEMMA DecayHeld ==
    ASSUME NEW d, NEW Y, Held(d, Y), NEW t \in Thread
    PROVE  LET e == KiSetPriorityThread(d, t, Decayed(d, t))
           IN Held(e, Y) /\ e.base = d.base /\ e.current = d.current
<1>1. Steady(d, Y) /\ d \in Database /\ \A u \in Thread \ {t} : MarginOf(d, u)
  BY DEF Held, Steady, Sound, Placed, Margin
<1>2. Decayed(d, t) \in Priorities /\ Decayed(d, t) >= d.base[t]
  BY <1>1, DecayedBounds
<1>3. \A b \in Bases : Decayed(d, t) + b >= d.base[t]
  BY <1>1, <1>2, BaseIsMargin
<1> QED BY <1>1, <1>2, <1>3, SetHeld

(* The highest ready thread of the current one's priority or more.         *)
LEMMA FindHeld ==
    ASSUME NEW d, NEW Y, Held(d, Y), d.next = NoThread, d.current \in Thread,
           NEW low \in Priorities, low <= Bar(d)
    PROVE  LET e == KiFindReadyThread(d, low)
           IN Held(e, Y) /\ e.base = d.base /\ e.current = d.current
<1> DEFINE e == KiFindReadyThread(d, low)
<1>1. Placed(d, {}) /\ Runs(d) /\ Margin(d)
  BY DEF Held, Steady, Sound
<1>2. Searched(d, e, low)
  BY <1>1, FindPlaced
<1> HIDE DEF e
<1>3. Steady(e, Y)
  BY <1>1, <1>2, SearchedSteady
<1>4. e.priority = d.priority /\ e.base = d.base /\ e.current = d.current
  BY <1>2 DEF Searched, Keeps
<1>5. Margin(e)
  BY <1>1, <1>4 DEF Margin, MarginOf
<1> QED BY <1>3, <1>4, <1>5 DEF Held, e

-----------------------------------------------------------------------------
(* The wake-up: the priority is raised, or decays to the base at worst.    *)
Paid(d, t, k, q) == [d EXCEPT !.quantum[t] = k, !.priority[t] = q]

LEMMA PaidFields ==
    ASSUME NEW d \in Database, NEW t \in Thread, NEW k \in Int, NEW q \in Priorities,
           NEW e, e = Paid(d, t, k, q)
    PROVE  /\ e \in Database
           /\ e.priority = [d.priority EXCEPT ![t] = q]
           /\ e.state = d.state /\ e.ready = d.ready /\ e.summary = d.summary
           /\ e.base = d.base /\ e.idle = d.idle /\ e.next = d.next /\ e.current = d.current
BY DEF Paid, Database

(* A waiting thread's priority can change at will.                         *)
LEMMA WaiterFree ==
    ASSUME NEW d, NEW Y, Steady(d, Y), NEW t \in Thread, d.state[t] = "Waiting",
           NEW e \in Database, SameButFor(d, e, t),
           e.idle = d.idle, e.next = d.next, e.current = d.current
    PROVE  /\ Sound(e, {t}, Y) /\ e.next \notin {t} /\ e.current # t
<1>1. /\ d \in Database /\ Queues(d, {}) /\ StandsBy(d, {}) /\ IdleIs(d) /\ Rests(d, {})
      /\ NoneAbove(d, Y) /\ Runs(d)
  BY DEF Steady, Sound, Placed
<1> USE DEF SameButFor
<1>2. d.next # t /\ d.current # t
  BY <1>1 DEF StandsBy, Runs
<1>3. Queues(e, {t})
  BY <1>1 DEF Queues
<1>4. StandsBy(e, {t}) /\ IdleIs(e) /\ Rests(e, {t})
  BY <1>1 DEF StandsBy, IdleIs, Rests
<1>5. Bar(e) = Bar(d)
  BY <1>1, <1>2 DEF Bar, Priority, Database
<1>6. NoneAbove(e, Y)
  BY <1>1, <1>5 DEF NoneAbove
<1> QED BY <1>2, <1>3, <1>4, <1>6 DEF Sound, Placed

LEMMA UnwaitHeld ==
    ASSUME NEW d, NEW Y, Held(d, Y), NEW t \in Thread, d.state[t] = "Waiting",
           NEW i \in Nat
    PROVE  LET e == KiUnwaitThread(d, t, i)
           IN Held(e, Y) /\ e.base = d.base /\ e.current = d.current
<1> DEFINE p == d.priority[t]
           wanted == d.base[t] + i
           boosted == IF wanted > p /\ p < LowRealtime THEN Min({wanted, LowRealtime - 1}) ELSE p
           b == Prioritized(d, t, boosted)
           left == d.quantum[t] - WaitDecrement
           uncharged == p >= LowRealtime \/ d.base[t] >= TimeCritical
           k == IF ~uncharged /\ left > 0 THEN left ELSE ThreadQuantum
           q == IF uncharged \/ left > 0 THEN boosted ELSE Decayed(b, t)
           c == Paid(b, t, k, q)
           e == KiReadyThread(c, t)
           One == {t}
<1>1. KiUnwaitThread(d, t, i) = e
  BY Zenon DEF KiUnwaitThread, Prioritized, Paid
<1>2. Steady(d, Y) /\ d \in Database /\ Margin(d) /\ Runs(d)
  BY DEF Held, Steady, Sound, Placed
<1>3. /\ p \in 0..HighPriority /\ d.base[t] \in 1..(LowRealtime - 1)
      /\ d.quantum[t] \in Int /\ HighPriority \in Nat /\ LowRealtime \in 2..HighPriority
      /\ WaitDecrement \in Nat /\ ThreadQuantum \in Nat
  BY <1>2, DatabaseNumbers, KeSchedAssumption
<1>4. boosted \in Priorities /\ boosted >= p
  <2>1. wanted \in Int /\ LowRealtime - 1 \in Int
    BY <1>3
  <2>2. Min({wanted, LowRealtime - 1})
          = IF wanted <= LowRealtime - 1 THEN wanted ELSE LowRealtime - 1
    <3> HIDE DEF wanted
    <3> QED BY <2>1, MinOfTwo
  <2> HIDE DEF wanted, p
  <2> QED BY <1>3, <2>1, <2>2 DEF Priorities
<1>5. k \in Int
  BY <1>3
<1> HIDE DEF boosted, k, uncharged, left
<1>6. /\ b \in Database
      /\ b.priority = [d.priority EXCEPT ![t] = boosted]
      /\ b.state = d.state /\ b.ready = d.ready /\ b.summary = d.summary
      /\ b.base = d.base /\ b.idle = d.idle /\ b.next = d.next /\ b.current = d.current
  BY <1>2, <1>4, PriorityFields
<1> HIDE DEF b
<1>7. q \in Priorities /\ (q >= p \/ q >= d.base[t])
  <2>1. Decayed(b, t) \in Priorities /\ Decayed(b, t) >= b.base[t]
    BY <1>6, DecayedBounds
  <2> QED BY <1>4, <1>6, <2>1
<1> HIDE DEF q
<1>8. /\ c \in Database
      /\ c.priority = [b.priority EXCEPT ![t] = q]
      /\ c.state = b.state /\ c.ready = b.ready /\ c.summary = b.summary
      /\ c.base = b.base /\ c.idle = b.idle /\ c.next = b.next /\ c.current = b.current
  BY <1>5, <1>6, <1>7, PaidFields
<1> HIDE DEF c
<1>9. /\ c.state = d.state /\ c.ready = d.ready /\ c.summary = d.summary
      /\ c.base = d.base /\ c.idle = d.idle /\ c.next = d.next /\ c.current = d.current
  BY <1>6, <1>8
<1>10. \A u \in Thread : c.priority[u] = IF u = t THEN q ELSE d.priority[u]
  <2>1. \A u \in Thread : b.priority[u] = IF u = t THEN boosted ELSE d.priority[u]
    BY <1>2, <1>6 DEF Database
  <2>2. b.priority \in [Thread -> Priorities]
    BY <1>6 DEF Database
  <2>3. c.priority = [b.priority EXCEPT ![t] = q]
    BY <1>8
  <2>4. \A u \in Thread : c.priority[u] = IF u = t THEN q ELSE b.priority[u]
    BY <2>2, <2>3
  <2> QED BY <2>1, <2>4
<1>11. Sound(c, {t}, Y) /\ c.next \notin {t} /\ c.current # t
  <2>1. SameButFor(d, c, t)
    BY <1>9, <1>10 DEF SameButFor
  <2> QED BY <1>2, <1>8, <1>9, <2>1, WaiterFree
<1>12. Sound(e, One \ {t}, Y) /\ Readied(c, e, t)
  <2>1. Sound(c, One, Y) /\ c.next \notin One /\ t \in One
    BY <1>11
  <2> HIDE DEF One
  <2> QED BY <2>1, ReadyThread
<1>13. One \ {t} = {}
  OBVIOUS
<1> HIDE DEF e, One
<1>14. Runs(e)
  <2>1. \A u \in Thread \ {t} : c.state[u] = "Running" <=> c.current = u
    BY <1>2, <1>9 DEF Runs
  <2>2. Placed(c, {t})
    BY <1>11 DEF Sound
  <2> QED BY <1>11, <1>12, <2>1, <2>2, ReadiedRuns
<1>15. /\ e \in Database /\ e.base = d.base /\ e.current = d.current
       /\ e.priority = c.priority
  BY <1>9, <1>12 DEF Readied, Sound, Placed
<1>16. Margin(e)
  <2>1. \A u \in Thread \ {t} : e.priority[u] = d.priority[u]
    BY <1>10, <1>15
  <2>2. e.priority[t] >= d.priority[t] \/ e.priority[t] >= d.base[t]
    BY <1>7, <1>10, <1>15
  <2> QED BY <1>2, <1>15, <2>1, <2>2, MarginKept
<1> QED BY <1>1, <1>12, <1>13, <1>14, <1>15, <1>16 DEF Held, Steady

-----------------------------------------------------------------------------
(* The current thread gives the processor away.                            *)
LEMMA WaitHalts ==
    ASSUME NEW d, NEW Y, Steady(d, Y), d.current \in Thread,
           NEW e, e = InState(d, d.current, "Waiting")
    PROVE  /\ Sound(e, {}, Y) /\ Halted(e)
           /\ e.priority = d.priority /\ e.base = d.base /\ e.current = d.current
<1> DEFINE t == d.current
<1>1. /\ d \in Database /\ Queues(d, {}) /\ StandsBy(d, {}) /\ IdleIs(d) /\ Rests(d, {})
      /\ NoneAbove(d, Y) /\ Runs(d)
  BY DEF Steady, Sound, Placed
<1>2. /\ e \in Database
      /\ \A u \in Thread : e.state[u] = IF u = t THEN "Waiting" ELSE d.state[u]
      /\ e.ready = d.ready /\ e.summary = d.summary
      /\ Aside(e, d)
  <2>1. t \in Thread /\ e = InState(d, t, "Waiting")
    OBVIOUS
  <2> HIDE DEF t
  <2> QED BY <1>1, <2>1, StateFields
<1>3. /\ e.priority = d.priority /\ e.base = d.base /\ e.current = d.current
      /\ e.idle = d.idle /\ e.next = d.next
  BY <1>2 DEF Aside
<1>4. d.state[t] = "Running"
  BY <1>1 DEF Runs
<1>5. Queues(e, {})
  BY <1>1, <1>2, <1>3, <1>4 DEF Queues
<1>6. StandsBy(e, {}) /\ IdleIs(e) /\ Rests(e, {})
  BY <1>1, <1>2, <1>3, <1>4 DEF StandsBy, IdleIs, Rests
<1>7. Bar(e) = Bar(d)
  BY <1>3 DEF Bar, Priority
<1>8. NoneAbove(e, Y) /\ Halted(e)
  BY <1>1, <1>2, <1>7 DEF NoneAbove, Halted, Runs
<1> QED BY <1>2, <1>3, <1>5, <1>6, <1>8 DEF Sound, Placed

LEMMA WaitHeld ==
    ASSUME NEW d, NEW Y, Held(d, Y), d.current \in Thread,
           KiSwapThread(InState(d, d.current, "Waiting"))
    PROVE  Held(db', Y) /\ LevelFits(db', level')
<1> DEFINE e == InState(d, d.current, "Waiting")
<1>1. /\ Sound(e, {}, Y) /\ Halted(e)
      /\ e.priority = d.priority /\ e.base = d.base /\ e.current = d.current
  BY WaitHalts DEF Held
<1>2. KiSwapThread(e)
  OBVIOUS
<1> HIDE DEF e
<1>3. /\ Steady(db', Y) /\ db'.priority = e.priority /\ db'.base = e.base
      /\ LevelFits(db', level')
  BY <1>1, <1>2, SwapThread
<1>4. Margin(db')
  BY <1>1, <1>3 DEF Held, Margin, MarginOf
<1> QED BY <1>3, <1>4 DEF Held

Yielding(d, t, k, p, q, S) ==
    [d EXCEPT !.quantum[t] = k, !.state[t] = "Ready", !.priority[t] = p,
              !.ready[p] = q, !.summary = S]

Yielded(d, e, t, p, q, S) ==
    /\ e \in Database
    /\ e.state = [d.state EXCEPT ![t] = "Ready"]
    /\ e.priority = [d.priority EXCEPT ![t] = p]
    /\ e.ready = [d.ready EXCEPT ![p] = q]
    /\ e.summary = S
    /\ e.base = d.base /\ e.idle = d.idle /\ e.next = d.next /\ e.current = d.current

LEMMA YieldingFields ==
    ASSUME NEW d \in Database, NEW t \in Thread, NEW k \in Int, NEW p \in Priorities,
           NEW q \in Seq(Thread), NEW S \in SUBSET Priorities,
           NEW e, e = Yielding(d, t, k, p, q, S)
    PROVE  Yielded(d, e, t, p, q, S)
BY DEF Yielding, Yielded, Database

YieldsTo(d, e, k, p) ==
    e = Yielding(d, d.current, k, p, Append(d.ready[p], d.current), d.summary \cup {p})

(* What that leaves for the switch.                                        *)
GivesWay(d, e, p, Z) ==
    /\ Sound(e, {}, Z) /\ Halted(e)
    /\ e.base = d.base /\ e.current = d.current
    /\ \A u \in Thread : e.priority[u] = IF u = d.current THEN p ELSE d.priority[u]

(* It goes to the tail of its queue, and the next thread replaces it,      *)
(* however low.                                                            *)
LEMMA YieldHalts ==
    ASSUME NEW d, NEW Y, Steady(d, Y), d.current \in Thread, d.next \in Thread,
           NEW k \in Int, NEW p \in Priorities,
           NEW e, YieldsTo(d, e, k, p)
    PROVE  GivesWay(d, e, p, Y \cup {d.current})
<1> DEFINE t == d.current
           s == d.ready[p]
           q == Append(s, t)
           S == d.summary \cup {p}
<1>1. /\ d \in Database /\ Queues(d, {}) /\ StandsBy(d, {}) /\ IdleIs(d) /\ Rests(d, {})
      /\ NoneAbove(d, Y) /\ Runs(d)
  BY DEF Steady, Sound, Placed
<1>2. /\ d.state[t] = "Running" /\ ~d.idle /\ d.next # t
  BY <1>1, KeSchedAssumption DEF Runs, IdleIs, StandsBy
<1>3. /\ s \in Seq(Thread) /\ IsInjective(s) /\ t \notin Range(s) /\ S \in SUBSET Priorities
  BY <1>1, <1>2 DEF Database, Queues
<1>4. q \in Seq(Thread) /\ IsInjective(q) /\ Range(q) = Range(s) \cup {t}
  <2> HIDE DEF s, t
  <2>1. t \in Thread
    BY DEF t
  <2> QED BY <1>3, <2>1, AppendLinks
<1>5. e = Yielding(d, t, k, p, q, S)
  BY DEF YieldsTo
<1>6. t \in Thread
  OBVIOUS
<1> HIDE DEF q, S, t
<1>7. Yielded(d, e, t, p, q, S)
  BY <1>1, <1>3, <1>4, <1>5, <1>6, YieldingFields
<1>8. /\ e \in Database /\ e.summary = S
      /\ e.base = d.base /\ e.idle = d.idle /\ e.next = d.next /\ e.current = d.current
  BY <1>7 DEF Yielded
<1>9. \A u \in Thread : e.state[u] = IF u = t THEN "Ready" ELSE d.state[u]
  BY <1>1, <1>7 DEF Database, Yielded
<1>10. \A u \in Thread : e.priority[u] = IF u = t THEN p ELSE d.priority[u]
  BY <1>1, <1>7 DEF Database, Yielded
<1>11. \A r \in Priorities : e.ready[r] = IF r = p THEN q ELSE d.ready[r]
  BY <1>1, <1>7 DEF Database, Yielded
<1>12. \A r \in Priorities :
           Range(e.ready[r]) = Range(d.ready[r]) \cup (IF r = p THEN {t} ELSE {})
  BY <1>4, <1>11
<1>13. Queues(e, {})
  <2>1. \A r \in Priorities : IsInjective(e.ready[r])
    BY <1>1, <1>4, <1>11 DEF Queues
  <2>2. \A u \in Thread, r \in Priorities :
            u \in Range(e.ready[r]) <=> u \notin {} /\ e.state[u] = "Ready" /\ e.priority[u] = r
    BY <1>1, <1>2, <1>9, <1>10, <1>12 DEF Queues
  <2>3. \A r \in Priorities : r \in e.summary <=> r \in d.summary \/ r = p
    BY <1>8 DEF S
  <2>4. \A r \in Priorities : r \in e.summary <=> Range(e.ready[r]) # {}
    BY <1>1, <1>12, <2>3 DEF Queues
  <2> QED BY <2>1, <2>2, <2>4 DEF Queues
<1>14. StandsBy(e, {}) /\ IdleIs(e) /\ Rests(e, {})
  BY <1>1, <1>2, <1>8, <1>9 DEF StandsBy, IdleIs, Rests
<1>15. Bar(e) = Bar(d)
  <2>1. Bar(d) = d.priority[d.next] /\ Bar(e) = e.priority[d.next]
    BY <1>1, <1>8, BarIsPriority
  <2> QED BY <1>2, <1>10, <2>1
<1>16. NoneAbove(e, Y \cup {t})
  BY <1>1, <1>12, <1>15 DEF NoneAbove
<1>17. Halted(e)
  BY <1>1, <1>9 DEF Halted, Runs, t
<1> QED BY <1>8, <1>10, <1>13, <1>14, <1>16, <1>17 DEF GivesWay, Sound, Placed, t

(* It is readied while it runs, with somebody next.                        *)
LEMMA ReadyHalts ==
    ASSUME NEW d, NEW Y, Steady(d, Y), d.current \in Thread, d.next \in Thread,
           NEW e, e = KiReadyThread(d, d.current)
    PROVE  /\ Sound(e, {}, Y) /\ Halted(e)
           /\ e.priority = d.priority /\ e.base = d.base /\ e.current = d.current
<1> DEFINE t == d.current
           One == {t}
<1>1. /\ d \in Database /\ Queues(d, {}) /\ StandsBy(d, {}) /\ IdleIs(d) /\ Rests(d, {})
      /\ NoneAbove(d, Y) /\ Runs(d)
  BY DEF Steady, Sound, Placed
<1>2. d.state[t] = "Running" /\ d.next # t /\ d.state[d.next] = "Standby"
  BY <1>1 DEF Runs, StandsBy
<1>3. Sound(d, One, Y) /\ d.next \notin One /\ t \in One /\ t \in Thread
  BY <1>1, <1>2 DEF Sound, Placed, Queues, StandsBy, Rests
<1>4. e = KiReadyThread(d, t) /\ One \ {t} = {}
  OBVIOUS
<1> HIDE DEF t, One
<1>5. Sound(KiReadyThread(d, t), One \ {t}, Y) /\ Readied(d, KiReadyThread(d, t), t)
  BY <1>3, ReadyThread
<1>6. Sound(e, {}, Y) /\ Readied(d, e, t)
  BY <1>4, <1>5
<1>7. Halted(e)
  BY <1>1, <1>6 DEF Halted, Readied, Runs, t
<1> QED BY <1>6, <1>7 DEF Readied

-----------------------------------------------------------------------------
(* The same of what ends in a switch or in the release of the lock.        *)
LEMMA MarginSame ==
    ASSUME NEW d, NEW e, Margin(d), e.priority = d.priority, e.base = d.base
    PROVE  Margin(e)
BY DEF Margin, MarginOf

LEMMA RedispatchHeld ==
    ASSUME NEW d, NEW Y, Held(d, Y), d.next # NoThread, d.current \in Thread
    PROVE  Held(Redispatch(d), Y) /\ Redispatch(d).current \in Thread
<1>1. Steady(d, Y) /\ Margin(d) /\ d.next \in Thread
  BY DEF Held, Steady, Sound, Placed, Database
<1>2. /\ Steady(Redispatch(d), Y) /\ Redispatch(d).current \in Thread
      /\ Redispatch(d).priority = d.priority /\ Redispatch(d).base = d.base
  BY <1>1, RedispatchSteady
<1> QED BY <1>1, <1>2, MarginSame DEF Held

LEMMA UnlockHeld ==
    ASSUME NEW d, NEW Y, Held(d, Y), LevelFits(d, level), requested \in BOOLEAN,
           KiUnlockDispatcherDatabase(d)
    PROVE  Held(db', Y) /\ LevelFits(db', level') /\ requested' \in BOOLEAN
<1>1. Steady(d, Y) /\ Margin(d)
  BY DEF Held
<1>2. /\ Steady(db', Y) /\ db'.priority = d.priority /\ db'.base = d.base
      /\ LevelFits(db', level') /\ requested' \in BOOLEAN
  BY <1>1, UnlockSteady
<1> QED BY <1>1, <1>2, MarginSame DEF Held

LEMMA QuantumEndHeld ==
    ASSUME NEW d, NEW Y, Held(d, Y), d.current \in Thread
    PROVE  Held(KiQuantumEnd(d), Y) /\ KiQuantumEnd(d).current = d.current
<1> DEFINE t == d.current
           p == d.priority[t]
           new == IF p < LowRealtime THEN Decayed(d, t) ELSE p
           r == Charged(d, t, ThreadQuantum)
           e == KiQuantumEnd(d)
<1>1. d \in Database /\ t \in Thread
  BY DEF Held, Steady, Sound, Placed
<1>2. Same(d, r) /\ r.base = d.base /\ r \in Database
  BY <1>1, ChargedSame, KeSchedAssumption DEF Same
<1>3. Held(r, Y) /\ r.current = t /\ r.next = d.next /\ r.priority = d.priority
  BY <1>2, SameHeld DEF Same
<1>4. p \in Priorities /\ d.quantum[t] \in Int
  BY <1>1 DEF Database
<1>5. CASE d.quantum[t] > 0
  <2>1. e = d
    BY <1>4, <1>5 DEF KiQuantumEnd
  <2> QED BY <2>1
<1>6. CASE d.quantum[t] <= 0 /\ new # p
  <2>1. e = KiSetPriorityThread(r, t, new)
    BY <1>4, <1>6 DEF KiQuantumEnd, Charged
  <2>2. new = Decayed(r, t)
    BY <1>2, <1>3, <1>6 DEF Decayed
  <2>3. e = KiSetPriorityThread(r, t, Decayed(r, t))
    BY <2>1, <2>2
  <2> HIDE DEF e, r, t
  <2>4. Held(e, Y) /\ e.current = r.current
    BY <1>1, <1>3, <2>3, DecayHeld
  <2> QED BY <1>3, <2>4 DEF e, t
<1>7. CASE d.quantum[t] <= 0 /\ new = p /\ d.next = NoThread
  <2>1. e = KiFindReadyThread(r, p)
    BY <1>4, <1>7 DEF KiQuantumEnd, Charged
  <2>2. Bar(r) = p
    BY <1>1, <1>2, <1>3, <1>7, BarIsPriority
  <2>3. p <= Bar(r)
    BY <1>4, <2>2 DEF Priorities
  <2> HIDE DEF e, r, t, p
  <2>4. Held(e, Y) /\ e.current = r.current
    BY <1>1, <1>3, <1>4, <1>7, <2>1, <2>3, FindHeld
  <2> QED BY <1>3, <2>4 DEF e, t
<1>8. CASE d.quantum[t] <= 0 /\ new = p /\ d.next # NoThread
  <2>1. e = Unpreempted(r, t)
    BY <1>4, <1>8 DEF KiQuantumEnd, Charged, Unpreempted
  <2> HIDE DEF e, r, t
  <2>2. Same(r, e) /\ e.base = r.base
    BY <1>1, <1>2, <2>1, UnpreemptedSame
  <2>3. Held(e, Y) /\ e.current = t
    BY <1>3, <2>2, SameHeld DEF Same
  <2> QED BY <2>3 DEF e, t
<1> HIDE DEF e, r
<1> QED BY <1>4, <1>5, <1>6, <1>7, <1>8

-----------------------------------------------------------------------------
(* The inductive invariant.                                                *)
SchedInv ==
    /\ Held(db, yielded) /\ LevelFits(db, level)
    /\ requested \in BOOLEAN /\ quantumEnd \in BOOLEAN /\ yielded \subseteq Thread

(* What a step other than NtYieldExecution leaves, while those that        *)
(* yielded are remembered.                                                 *)
Left ==
    /\ Held(db', yielded) /\ LevelFits(db', level')
    /\ requested' \in BOOLEAN /\ quantumEnd' \in BOOLEAN

LEMMA SchedInvInit == SchedInit => SchedInv
<1> SUFFICES ASSUME SchedInit PROVE SchedInv
  OBVIOUS
<1>1. ProcessBase \in Priorities /\ ProcessBase \in Bases /\ ThreadQuantum \in Int
  BY KeSchedAssumption DEF Priorities, Bases
<1>2. db \in Database
  BY <1>1 DEF SchedInit, Database
<1>3. /\ db.state = [t \in Thread |-> "Waiting"]
      /\ db.priority = [t \in Thread |-> ProcessBase]
      /\ db.base = [t \in Thread |-> ProcessBase]
      /\ db.ready = [p \in Priorities |-> <<>>]
      /\ db.summary = {} /\ db.idle = TRUE
      /\ db.next = NoThread /\ db.current = IdleThread
  BY DEF SchedInit
<1>4. \A p \in Priorities : Range(db.ready[p]) = {} /\ IsInjective(db.ready[p])
  BY <1>3 DEF Range, IsInjective
<1>5. Queues(db, {})
  BY <1>3, <1>4 DEF Queues
<1>6. StandsBy(db, {}) /\ IdleIs(db) /\ Rests(db, {})
  BY <1>3, KeSchedAssumption DEF StandsBy, IdleIs, Rests
<1>7. NoneAbove(db, yielded) /\ Runs(db)
  BY <1>3, <1>4, KeSchedAssumption DEF NoneAbove, Runs
<1>8. Margin(db)
  <2>1. \A b \in Bases : b \in Nat /\ ProcessBase \in Nat
    BY BasesBounded, KeSchedAssumption
  <2> QED BY <1>3, <2>1 DEF Margin, MarginOf
<1>9. LevelFits(db, level)
  BY <1>3 DEF SchedInit, LevelFits
<1> QED BY <1>2, <1>5, <1>6, <1>7, <1>8, <1>9 DEF SchedInv, SchedInit, Held, Steady, Sound, Placed

-----------------------------------------------------------------------------
(* Interrupts and the idle loop.                                           *)
LEMMA ClockLeaves == SchedInv /\ KeClockInterrupt => Left
<1> SUFFICES ASSUME SchedInv, KeClockInterrupt PROVE Left
  OBVIOUS
<1> DEFINE q == db.quantum[db.current] - ClockDecrement
<1>1. Held(db, yielded) /\ db \in Database
  BY DEF SchedInv, Held, Steady, Sound, Placed
<1>2. db.current \in Thread
  BY <1>1 DEF KeClockInterrupt, Database
<1>3. q \in Int
  BY <1>1, <1>2, KeSchedAssumption DEF Database
<1>4. db' = Charged(db, db.current, q)
  BY DEF KeClockInterrupt, Charged
<1> HIDE DEF q
<1>5. Same(db, db') /\ db'.base = db.base
  BY <1>1, <1>2, <1>3, <1>4, ChargedSame
<1>6. Held(db', yielded) /\ db'.current = db.current
  BY <1>1, <1>5, SameHeld DEF Same
<1>7. requested' \in BOOLEAN /\ quantumEnd' \in BOOLEAN /\ level' = level
  BY DEF SchedInv, KeClockInterrupt
<1> QED BY <1>6, <1>7 DEF SchedInv, Left, LevelFits

(* The steps that change the level or the requests only.                   *)
LevelSteps ==
    \/ DeviceInterrupt \/ HalpDispatchInterrupt \/ IdleRetiresDpcs \/ IdleRetired
    \/ KeRaiseIrql \/ KfLowerIrql \/ KiLockDispatcherDatabase

LEMMA LevelStepsLeave == SchedInv /\ LevelSteps => Left
<1> SUFFICES ASSUME SchedInv, LevelSteps PROVE Left
  OBVIOUS
<1>1. db' = db /\ quantumEnd' = quantumEnd /\ requested' \in BOOLEAN
  BY DEF SchedInv, LevelSteps, DeviceInterrupt, HalpDispatchInterrupt, IdleRetiresDpcs,
         IdleRetired, KeRaiseIrql, KfLowerIrql, KiLockDispatcherDatabase
<1>2. LevelFits(db, level')
  BY DEF SchedInv, LevelSteps, DeviceInterrupt, HalpDispatchInterrupt, IdleRetiresDpcs,
         IdleRetired, KeRaiseIrql, KfLowerIrql, KiLockDispatcherDatabase, LevelFits
<1> QED BY <1>1, <1>2 DEF SchedInv, Left

LEMMA DispatchInterruptLeaves == SchedInv /\ KiDispatchInterrupt => Left
<1> SUFFICES ASSUME SchedInv, KiDispatchInterrupt PROVE Left
  OBVIOUS
<1> DEFINE d == IF quantumEnd THEN KiQuantumEnd(db) ELSE db
<1>1. Held(db, yielded) /\ db.current \in Thread
  BY DEF SchedInv, Held, Steady, Sound, Placed, Database, LevelFits, KiDispatchInterrupt
<1>2. Held(d, yielded) /\ d.current \in Thread
  BY <1>1, QuantumEndHeld
<1>3. /\ db' = IF d.next # NoThread THEN Redispatch(d) ELSE d
      /\ level' = "passive" /\ quantumEnd' = FALSE /\ requested' = requested
  BY DEF KiDispatchInterrupt
<1> HIDE DEF d
<1>4. Held(db', yielded) /\ db'.current \in Thread
  BY <1>2, <1>3, RedispatchHeld
<1> QED BY <1>3, <1>4, KeSchedAssumption DEF SchedInv, Left, LevelFits

LEMMA IdleLoopLeaves == SchedInv /\ KiIdleLoop => Left
<1> SUFFICES ASSUME SchedInv, KiIdleLoop PROVE Left
  OBVIOUS
<1>1. /\ Sound(db, {}, yielded) /\ Runs(db) /\ Margin(db) /\ db \in Database
      /\ db.current = IdleThread /\ db.next # NoThread
  BY DEF SchedInv, Held, Steady, Sound, Placed, LevelFits, KiIdleLoop
<1>2. Halted(db) /\ db.next \in Thread
  BY <1>1, KeSchedAssumption DEF Halted, Runs, Database
<1>3. /\ db' = SwapToNext(db) /\ level' = "passive"
      /\ requested' = requested /\ quantumEnd' = quantumEnd
  BY DEF KiIdleLoop
<1>4. /\ Steady(db', yielded) /\ db'.current \in Thread
      /\ db'.priority = db.priority /\ db'.base = db.base
  BY <1>1, <1>2, <1>3, SwapSteady
<1>5. Held(db', yielded)
  BY <1>1, <1>4, MarginSame DEF Held
<1> QED BY <1>3, <1>4, <1>5, KeSchedAssumption DEF SchedInv, Left, LevelFits

-----------------------------------------------------------------------------
(* The calls of the current thread and of DPCs.                            *)
LEMMA UnlockLeaves ==
    ASSUME NEW d, SchedInv, Held(d, yielded), d.current = db.current,
           KiUnlockDispatcherDatabase(d)
    PROVE  Left
<1>1. LevelFits(d, level) /\ requested \in BOOLEAN
  BY DEF SchedInv, LevelFits
<1>2. quantumEnd' = quantumEnd
  BY DEF KiUnlockDispatcherDatabase
<1>3. Held(db', yielded) /\ LevelFits(db', level') /\ requested' \in BOOLEAN
  BY <1>1, UnlockHeld
<1> QED BY <1>2, <1>3 DEF SchedInv, Left

LEMMA SwapKeeps ==
    ASSUME NEW d, SchedInv, KiSwapThread(d)
    PROVE  requested' \in BOOLEAN /\ quantumEnd' \in BOOLEAN
BY DEF SchedInv, KiSwapThread

LEMMA LockedRuns == SchedInv /\ Locked => db.current \in Thread /\ db.state[db.current] = "Running"
BY DEF SchedInv, Locked, LevelFits, Held, Steady, Sound, Placed, Database, Runs

LEMMA WakeLeaves ==
    ASSUME SchedInv, NEW t \in Thread, Wake(t)
    PROVE  Left
<1>1. Held(db, yielded) /\ db.state[t] = "Waiting"
  BY DEF SchedInv, Wake
<1>2. PICK i \in Boosts : KiUnlockDispatcherDatabase(KiUnwaitThread(db, t, i))
  BY DEF Wake
<1> DEFINE d == KiUnwaitThread(db, t, i)
<1>3. i \in Nat
  BY KeSchedAssumption
<1>4. Held(d, yielded) /\ d.current = db.current
  BY <1>1, <1>3, UnwaitHeld
<1>5. KiUnlockDispatcherDatabase(d)
  BY <1>2
<1> HIDE DEF d
<1> QED BY <1>4, <1>5, UnlockLeaves

LEMMA WaitLeaves == SchedInv /\ KeWait => Left
<1> SUFFICES ASSUME SchedInv, KeWait PROVE Left
  OBVIOUS
<1>1. Held(db, yielded) /\ db.current \in Thread
  BY LockedRuns DEF SchedInv, KeWait
<1>2. KiSwapThread(InState(db, db.current, "Waiting"))
  BY DEF KeWait, InState
<1>3. Held(db', yielded) /\ LevelFits(db', level')
  BY <1>1, <1>2, WaitHeld
<1> QED BY <1>2, <1>3, SwapKeeps DEF Left

LEMMA SignalAndWaitLeaves ==
    ASSUME SchedInv, NEW t \in Thread, SignalAndWait(t)
    PROVE  Left
<1>1. Held(db, yielded) /\ db.state[t] = "Waiting" /\ db.current \in Thread
  BY LockedRuns DEF SchedInv, SignalAndWait
<1>2. PICK i \in Boosts :
          KiSwapThread([KiUnwaitThread(db, t, i) EXCEPT !.state[db.current] = "Waiting"])
  BY DEF SignalAndWait
<1> DEFINE d == KiUnwaitThread(db, t, i)
<1>3. i \in Nat
  BY KeSchedAssumption
<1>4. Held(d, yielded) /\ d.current = db.current
  BY <1>1, <1>3, UnwaitHeld
<1>5. KiSwapThread(InState(d, d.current, "Waiting"))
  BY <1>2, <1>4 DEF InState
<1> HIDE DEF d
<1>6. Held(db', yielded) /\ LevelFits(db', level')
  BY <1>1, <1>4, <1>5, WaitHeld
<1> QED BY <1>5, <1>6, SwapKeeps DEF Left

LEMMA AdjustLeaves == SchedInv /\ KiAdjustQuantumThread => Left
<1> SUFFICES ASSUME SchedInv, KiAdjustQuantumThread PROVE Left
  OBVIOUS
<1> DEFINE t == db.current
           left == db.quantum[t] - WaitDecrement
           r == Charged(db, t, ThreadQuantum)
           c == Charged(db, t, left)
           p == Decayed(db, t)
<1>1. Held(db, yielded) /\ db \in Database /\ t \in Thread
  BY LockedRuns DEF SchedInv, Held, Steady, Sound, Placed, KiAdjustQuantumThread
<1>2. left \in Int /\ ThreadQuantum \in Int
  BY <1>1, KeSchedAssumption DEF Database
<1>3. /\ Held(r, yielded) /\ r.current = t /\ r.next = db.next /\ r.priority = db.priority
      /\ r.base = db.base /\ r \in Database
  <2> HIDE DEF t
  <2>1. Same(db, r) /\ r.base = db.base
    BY <1>1, <1>2, ChargedSame
  <2> HIDE DEF r
  <2> QED BY <1>1, <2>1, SameHeld DEF Same, t
<1>4. Held(c, yielded) /\ c.current = t
  <2> HIDE DEF t, left
  <2>1. Same(db, c) /\ c.base = db.base
    BY <1>1, <1>2, ChargedSame
  <2> HIDE DEF c
  <2> QED BY <1>1, <2>1, SameHeld DEF Same, t
<1>5. p \in Priorities /\ p = Decayed(r, t)
  BY <1>1, <1>3, DecayedBounds DEF Decayed
<1>6. CASE left > 0
  <2>1. KiUnlockDispatcherDatabase(c)
    BY <1>2, <1>6 DEF KiAdjustQuantumThread, Charged
  <2> HIDE DEF c
  <2> QED BY <1>4, <2>1, UnlockLeaves
<1>7. CASE left <= 0 /\ p # db.priority[t]
  <2> DEFINE e == KiSetPriorityThread(r, t, p)
  <2>1. KiUnlockDispatcherDatabase(e)
    BY <1>2, <1>7 DEF KiAdjustQuantumThread, Charged
  <2>2. Held(e, yielded) /\ e.current = t
    <3>1. e = KiSetPriorityThread(r, t, Decayed(r, t))
      BY <1>5
    <3> HIDE DEF e, r, t, p
    <3> QED BY <1>1, <1>3, <3>1, DecayHeld
  <2> HIDE DEF e
  <2> QED BY <2>1, <2>2, UnlockLeaves
<1>8. CASE left <= 0 /\ p = db.priority[t] /\ db.next = NoThread
  <2> DEFINE e == KiFindReadyThread(r, p)
  <2>1. KiUnlockDispatcherDatabase(e)
    BY <1>2, <1>8 DEF KiAdjustQuantumThread, Charged
  <2>2. p <= Bar(r)
    <3>1. Bar(r) = p
      BY <1>1, <1>3, <1>8, BarIsPriority
    <3> QED BY <1>5, <3>1 DEF Priorities
  <2>3. Held(e, yielded) /\ e.current = t
    <3> HIDE DEF r, p, t
    <3> QED BY <1>1, <1>3, <1>5, <1>8, <2>2, FindHeld
  <2> HIDE DEF e
  <2> QED BY <2>1, <2>3, UnlockLeaves
<1>9. CASE left <= 0 /\ p = db.priority[t] /\ db.next # NoThread
  <2>1. KiUnlockDispatcherDatabase(r)
    BY <1>2, <1>9 DEF KiAdjustQuantumThread, Charged
  <2> HIDE DEF r
  <2> QED BY <1>3, <2>1, UnlockLeaves
<1> QED BY <1>2, <1>6, <1>7, <1>8, <1>9

LEMMA UnlockingLeaves == SchedInv /\ Unlock => Left
BY UnlockLeaves DEF SchedInv, Unlock

LEMMA PrioritySetLeaves ==
    ASSUME SchedInv, NEW t \in Thread, KeSetPriorityThread(t)
    PROVE  Left
<1> DEFINE r == Charged(db, t, ThreadQuantum)
<1>1. Held(db, yielded) /\ db \in Database
  BY DEF SchedInv, Held, Steady, Sound, Placed
<1>2. PICK p \in SetPriorities \cup {db.base[t]} :
          KiUnlockDispatcherDatabase(KiSetPriorityThread(r, t, p))
  BY DEF KeSetPriorityThread, Charged
<1>3. Same(db, r) /\ r.base = db.base
  BY <1>1, ChargedSame, KeSchedAssumption
<1> HIDE DEF r
<1>4. Held(r, yielded) /\ r \in Database /\ r.current = db.current
  BY <1>1, <1>3, SameHeld DEF Same
<1>5. Steady(r, yielded) /\ \A u \in Thread \ {t} : MarginOf(r, u)
  BY <1>4 DEF Held, Margin
<1>6. r.base[t] \in Bases /\ r.base[t] \in Priorities
  BY <1>4, DatabaseNumbers, KeSchedAssumption DEF Priorities
<1>7. CASE p \in SetPriorities
  <2>1. p \in Priorities
    BY <1>7, KeSchedAssumption DEF Priorities
  <2>2. \A b \in Bases : p + b >= r.base[t]
    BY <1>6, <1>7, SetPrioritiesAssumption
  <2> QED BY <1>2, <1>4, <1>5, <2>1, <2>2, SetHeld, UnlockLeaves
<1>8. CASE p = db.base[t]
  <2>1. p = r.base[t] /\ p \in Priorities /\ p >= r.base[t]
    BY <1>3, <1>6, <1>8, KeSchedAssumption DEF Priorities
  <2>2. \A b \in Bases : p + b >= r.base[t]
    BY <1>4, <2>1, BaseIsMargin
  <2> QED BY <1>2, <1>4, <1>5, <2>1, <2>2, SetHeld, UnlockLeaves
<1> QED BY <1>2, <1>7, <1>8

(* The priority that moves with the base is still one, and the margin is   *)
(* what it was.                                                            *)
LEMMA MovedPriority ==
    ASSUME NEW d \in Database, Margin(d), NEW t \in Thread, NEW base \in Bases,
           NEW p, p = Min({d.priority[t] + base - d.base[t], LowRealtime - 1})
    PROVE  p \in Priorities /\ \A b \in Bases : p + b >= base
<1> DEFINE m == d.priority[t] + base - d.base[t]
           top == LowRealtime - 1
<1>1. /\ d.priority[t] \in 0..HighPriority /\ d.base[t] \in Nat /\ LowRealtime \in Nat
      /\ HighPriority \in Nat /\ LowRealtime >= 2 /\ LowRealtime <= HighPriority
      /\ base \in Nat /\ base <= top /\ base >= 1
  BY BasesBounded, DatabaseNumbers
<1>2. m \in Int /\ m >= 0 /\ \A b \in Bases : m + b >= base
  <2>1. \A b \in Bases : b \in Nat /\ d.priority[t] + b >= d.base[t]
    BY BasesBounded, KeSchedAssumption DEF Margin, MarginOf
  <2> QED BY <1>1, <2>1
<1>3. \A b \in Bases : b \in Nat
  BY BasesBounded, KeSchedAssumption
<1>4. p = Min({m, top})
  OBVIOUS
<1> HIDE DEF m
<1>5. p = IF m <= top THEN m ELSE top
  BY <1>1, <1>2, <1>4, MinOfTwo
<1> HIDE DEF top
<1>6. CASE m <= top
  <2>1. p = m
    BY <1>5, <1>6
  <2>2. p \in 0..HighPriority
    BY <1>1, <1>2, <1>6, <2>1 DEF top
  <2> QED BY <1>2, <2>1, <2>2 DEF Priorities
<1>7. CASE ~(m <= top)
  <2>1. p = top
    BY <1>5, <1>7
  <2>2. p \in 0..HighPriority /\ p \in Nat
    BY <1>1, <2>1 DEF top
  <2>3. \A b \in Bases : p + b >= base
    BY <1>1, <1>3, <2>1, <2>2
  <2> QED BY <2>2, <2>3 DEF Priorities
<1> QED BY <1>6, <1>7

LEMMA BaseSetLeaves ==
    ASSUME SchedInv, NEW t \in Thread, KeSetBasePriorityThread(t)
    PROVE  Left
<1>1. Held(db, yielded) /\ db \in Database /\ Margin(db) /\ Steady(db, yielded)
  BY DEF SchedInv, Held, Steady, Sound, Placed
<1>2. PICK i \in BaseIncrements :
         LET half == (HighPriority + 1) \div 2
             base == Base(i)
             moved == Min({db.priority[t] + base - db.base[t], LowRealtime - 1})
             p == IF i >= half \/ -i >= half THEN base ELSE moved
             based == [db EXCEPT !.base[t] = base]
         IN KiUnlockDispatcherDatabase(
                IF p = db.priority[t] THEN based
                ELSE KiSetPriorityThread([based EXCEPT !.quantum[t] = ThreadQuantum], t, p))
  BY DEF KeSetBasePriorityThread
<1> DEFINE half == (HighPriority + 1) \div 2
           base == Base(i)
           moved == Min({db.priority[t] + base - db.base[t], LowRealtime - 1})
           p == IF i >= half \/ -i >= half THEN base ELSE moved
           c == Based(db, t, base)
           r == Charged(c, t, ThreadQuantum)
           e == IF p = db.priority[t] THEN c ELSE KiSetPriorityThread(r, t, p)
<1>3. KiUnlockDispatcherDatabase(e)
  BY <1>2 DEF Based, Charged
<1>4. base \in Bases
  BY DEF Bases
<1> HIDE DEF base, half
<1>5. p \in Priorities /\ \A b \in Bases : p + b >= base
  <2>1. moved \in Priorities /\ \A b \in Bases : moved + b >= base
    <3> HIDE DEF moved
    <3>1. moved = Min({db.priority[t] + base - db.base[t], LowRealtime - 1})
      BY DEF moved
    <3> QED BY <1>1, <1>4, <3>1, MovedPriority
  <2>2. base \in Priorities /\ \A b \in Bases : base + b >= base
    BY <1>4, BasesBounded, KeSchedAssumption DEF Priorities
  <2> HIDE DEF moved
  <2> QED BY <2>1, <2>2
<1> HIDE DEF p
<1>6. Same(db, c) /\ \A u \in Thread : c.base[u] = IF u = t THEN base ELSE db.base[u]
  BY <1>1, <1>4, BasedSame
<1> HIDE DEF c
<1>7. Steady(c, yielded) /\ c \in Database /\ \A u \in Thread \ {t} : MarginOf(c, u)
  BY <1>1, <1>6, SameSound DEF Same, Margin, MarginOf
<1>8. Same(c, r) /\ r.base = c.base
  BY <1>7, ChargedSame, KeSchedAssumption
<1> HIDE DEF r
<1>9. /\ Steady(r, yielded) /\ r.base[t] = base /\ r.current = db.current
      /\ \A u \in Thread \ {t} : MarginOf(r, u)
  BY <1>6, <1>7, <1>8, SameSound DEF Same, MarginOf
<1>10. Held(e, yielded) /\ e.current = db.current
  <2>1. CASE p = db.priority[t]
    <3>1. MarginOf(c, t)
      BY <1>5, <1>6, <2>1 DEF Same, MarginOf
    <3>2. Margin(c)
      BY <1>7, <3>1 DEF Margin
    <3> QED BY <1>6, <1>7, <2>1, <3>2 DEF Held, Same
  <2>2. CASE p # db.priority[t]
    <3>1. \A b \in Bases : p + b >= r.base[t]
      BY <1>5, <1>9
    <3>2. LET s == KiSetPriorityThread(r, t, p)
          IN Held(s, yielded) /\ s.base = r.base /\ s.current = r.current
      BY <1>5, <1>9, <3>1, SetHeld
    <3> QED BY <1>9, <2>2, <3>2
  <2> QED BY <2>1, <2>2
<1> HIDE DEF e
<1> QED BY <1>3, <1>10, UnlockLeaves

-----------------------------------------------------------------------------
(* The calls by which the current thread lets others run.                  *)
LEMMA DelayLeaves == SchedInv /\ KeDelayExecutionThread => Left
<1> SUFFICES ASSUME SchedInv, KeDelayExecutionThread PROVE Left
  OBVIOUS
<1> DEFINE t == db.current
           d == IF db.priority[t] < LowRealtime THEN KiSetPriorityThread(db, t, db.base[t])
                                                ELSE db
           e == IF d.next = NoThread THEN KiFindReadyThread(d, d.priority[t]) ELSE d
           r == Renewed(e, t, ThreadQuantum)
           a == KiReadyThread(r, t)
<1>1. /\ Held(db, yielded) /\ Steady(db, yielded) /\ db \in Database /\ t \in Thread
      /\ \A u \in Thread \ {t} : MarginOf(db, u)
  BY LockedRuns DEF SchedInv, Held, Steady, Sound, Placed, Margin, KeDelayExecutionThread
<1>2. Held(d, yielded) /\ d.current = t
  <2>1. db.base[t] \in Priorities /\ db.base[t] >= db.base[t]
    BY <1>1, DatabaseNumbers, KeSchedAssumption DEF Priorities
  <2>2. \A b \in Bases : db.base[t] + b >= db.base[t]
    BY <1>1, <2>1, BaseIsMargin
  <2>3. LET s == KiSetPriorityThread(db, t, db.base[t])
        IN Held(s, yielded) /\ s.base = db.base /\ s.current = db.current
    <3> HIDE DEF t
    <3> QED BY <1>1, <2>1, <2>2, SetHeld
  <2> QED BY <1>1, <2>3
<1>3. IF e.next = NoThread THEN KiUnlockDispatcherDatabase(e) ELSE KiSwapThread(a)
  BY DEF KeDelayExecutionThread, Renewed
<1> HIDE DEF d
<1>4. Held(e, yielded) /\ e.current = t
  <2>1. CASE d.next = NoThread
    <3> DEFINE p == d.priority[t]
    <3>1. d \in Database
      BY <1>2 DEF Held, Steady, Sound, Placed
    <3>2. Bar(d) = p /\ p \in Priorities
      BY <1>1, <1>2, <2>1, <3>1, BarIsPriority DEF Database
    <3>3. p <= Bar(d)
      BY <3>2 DEF Priorities
    <3>4. e = KiFindReadyThread(d, p)
      BY <2>1
    <3> HIDE DEF e, p, t
    <3> QED BY <1>1, <1>2, <2>1, <3>2, <3>3, <3>4, FindHeld
  <2>2. CASE d.next # NoThread
    BY <1>2, <2>2
  <2> QED BY <2>1, <2>2
<1> HIDE DEF e
<1>5. e \in Database
  BY <1>4 DEF Held, Steady, Sound, Placed
<1>6. CASE e.next = NoThread
  BY <1>3, <1>4, <1>6, UnlockLeaves
<1>7. CASE e.next # NoThread
  <2>1. Same(e, r) /\ r.base = e.base
    BY <1>1, <1>5, RenewedSame, KeSchedAssumption
  <2> HIDE DEF r
  <2>2. Held(r, yielded) /\ r.current = t /\ r.next \in Thread
    BY <1>4, <1>5, <1>7, <2>1, SameHeld DEF Same, Database
  <2>3. Steady(r, yielded) /\ Margin(r) /\ a = KiReadyThread(r, r.current)
    BY <2>2 DEF Held
  <2> HIDE DEF a
  <2>4. /\ Sound(a, {}, yielded) /\ Halted(a)
        /\ a.priority = r.priority /\ a.base = r.base /\ a.current = r.current
    BY <1>1, <2>2, <2>3, ReadyHalts
  <2>5. KiSwapThread(a)
    BY <1>3, <1>7
  <2>6. /\ Steady(db', yielded) /\ db'.priority = a.priority /\ db'.base = a.base
        /\ LevelFits(db', level')
    BY <1>1, <2>2, <2>4, <2>5, SwapThread
  <2>7. Margin(db')
    BY <2>3, <2>4, <2>6, MarginSame
  <2> QED BY <2>5, <2>6, <2>7, SwapKeeps DEF Left, Held
<1> QED BY <1>6, <1>7

(* The thread that yields is remembered.                                   *)
LeftYielding ==
    /\ Held(db', yielded \cup {db.current}) /\ LevelFits(db', level')
    /\ requested' \in BOOLEAN /\ quantumEnd' \in BOOLEAN

LEMMA YieldLeaves == SchedInv /\ NtYieldExecution => LeftYielding
<1> SUFFICES ASSUME SchedInv, NtYieldExecution PROVE LeftYielding
  OBVIOUS
<1> DEFINE t == db.current
           d == IF db.next = NoThread THEN KiFindReadyThread(db, 1) ELSE db
           p == IF d.priority[t] < LowRealtime THEN Decayed(d, t) ELSE d.priority[t]
           e == Yielding(d, t, ThreadQuantum, p, Append(d.ready[p], t), d.summary \cup {p})
           Z == yielded \cup {t}
<1>1. /\ Steady(db, yielded) /\ Margin(db) /\ Runs(db) /\ Placed(db, {}) /\ t \in Thread
      /\ 1 \in Priorities
  BY LockedRuns, KeSchedAssumption
  DEF SchedInv, Held, Steady, Sound, NtYieldExecution, Priorities
<1>2. d.next # NoThread /\ KiSwapThread(e)
  <2>1. d.next # NoThread
    BY DEF NtYieldExecution
  <2>2. KiSwapThread([d EXCEPT !.quantum[t] = ThreadQuantum,
                               !.state[t] = "Ready",
                               !.priority[t] = p,
                               !.ready[p] = Append(@, t),
                               !.summary = @ \cup {p}])
    BY DEF NtYieldExecution
  <2> QED BY <2>1, <2>2 DEF Yielding
<1>3. Steady(d, yielded) /\ d.priority = db.priority /\ d.base = db.base /\ d.current = t
  <2>1. CASE db.next = NoThread
    <3>1. Searched(db, d, 1)
      BY <1>1, <2>1, FindPlaced
    <3> HIDE DEF d
    <3>2. Runs(d) /\ Keeps(db, d) /\ Placed(d, {})
      BY <1>1, <3>1 DEF Searched, Runs, Keeps
    <3>3. NoneAbove(d, {})
      BY <1>2, <2>1, <3>1 DEF Searched
    <3>4. NoneAbove(d, yielded)
      BY <3>3, NoneAboveWeakens
    <3> QED BY <3>2, <3>4 DEF Steady, Sound, Keeps
  <2>2. CASE db.next # NoThread
    BY <1>1, <2>2
  <2> QED BY <2>1, <2>2
<1> HIDE DEF d
<1>4. d \in Database /\ d.next \in Thread
  BY <1>2, <1>3 DEF Steady, Sound, Placed, Database
<1>5. p \in Priorities /\ (p >= d.priority[t] \/ p >= d.base[t])
  <2>1. Decayed(d, t) \in Priorities /\ Decayed(d, t) >= d.base[t]
    BY <1>1, <1>4, DecayedBounds
  <2>2. d.priority[t] \in Priorities /\ d.priority[t] >= d.priority[t]
    BY <1>1, <1>4 DEF Database, Priorities
  <2> QED BY <2>1, <2>2
<1> HIDE DEF p
<1>6. YieldsTo(d, e, ThreadQuantum, p)
  BY <1>3 DEF YieldsTo
<1> HIDE DEF e
<1>7. /\ Sound(e, {}, Z) /\ Halted(e)
      /\ e.base = d.base /\ e.current = t
      /\ \A u \in Thread : e.priority[u] = IF u = t THEN p ELSE d.priority[u]
  <2>1. ThreadQuantum \in Int /\ d.current \in Thread /\ Z = yielded \cup {d.current}
    BY <1>1, <1>3, KeSchedAssumption
  <2> HIDE DEF Z, t
  <2>2. GivesWay(d, e, p, yielded \cup {d.current})
    BY <1>3, <1>4, <1>5, <1>6, <2>1, YieldHalts
  <2> QED BY <1>3, <2>1, <2>2 DEF GivesWay
<1>8. Margin(e)
  <2>1. Margin(d)
    BY <1>1, <1>3, MarginSame
  <2>2. e \in Database
    BY <1>7 DEF Sound, Placed
  <2>3. \A u \in Thread \ {t} : e.priority[u] = d.priority[u]
    BY <1>7
  <2>4. e.priority[t] >= d.priority[t] \/ e.priority[t] >= d.base[t]
    BY <1>1, <1>5, <1>7
  <2> HIDE DEF t
  <2> QED BY <1>1, <1>4, <1>7, <2>1, <2>2, <2>3, <2>4, MarginKept
<1> HIDE DEF Z
<1>9. /\ Steady(db', Z) /\ db'.priority = e.priority /\ db'.base = e.base
      /\ LevelFits(db', level')
  BY <1>1, <1>2, <1>7, SwapThread
<1>10. Margin(db')
  BY <1>8, <1>9, MarginSame
<1> QED BY <1>2, <1>9, <1>10, SwapKeeps DEF LeftYielding, Held, Z

-----------------------------------------------------------------------------
(* Those that yielded and are not ready any more may be forgotten.         *)
LEMMA Forget ==
    ASSUME NEW Y, Y \subseteq Thread, Held(db', Y)
    PROVE  Held(db', StillReady(Y)) /\ StillReady(Y) \subseteq Thread
<1>1. Queues(db', {}) /\ NoneAbove(db', Y) /\ db' \in Database
  BY DEF Held, Steady, Sound, Placed
<1>2. \A p \in Priorities : \A u \in Range(db'.ready[p]) : u \in Thread
  <2> TAKE p \in Priorities
  <2>1. db'.ready[p] \in Seq(Thread)
    BY <1>1 DEF Database
  <2> QED BY <2>1 DEF Range
<1>3. \A p \in Priorities : \A u \in Range(db'.ready[p]) : db'.state[u] = "Ready"
  BY <1>1, <1>2 DEF Queues
<1>4. NoneAbove(db', StillReady(Y))
  BY <1>1, <1>3 DEF NoneAbove, StillReady
<1> QED BY <1>4 DEF Held, Steady, Sound, StillReady

LEMMA DispatchLeaves == SchedInv /\ Dispatch => Left
<1> SUFFICES ASSUME SchedInv, Dispatch PROVE Left
  OBVIOUS
<1>1. CASE LevelSteps
  BY <1>1, LevelStepsLeave
<1>2. CASE KeClockInterrupt
  BY <1>2, ClockLeaves
<1>3. CASE KiDispatchInterrupt
  BY <1>3, DispatchInterruptLeaves
<1>4. CASE KiIdleLoop
  BY <1>4, IdleLoopLeaves
<1>5. CASE Unlock
  BY <1>5, UnlockingLeaves
<1>6. CASE KeWait
  BY <1>6, WaitLeaves
<1>7. CASE KiAdjustQuantumThread
  BY <1>7, AdjustLeaves
<1>8. CASE KeDelayExecutionThread
  BY <1>8, DelayLeaves
<1>9. ASSUME NEW t \in Thread,
             Wake(t) \/ SignalAndWait(t) \/ KeSetPriorityThread(t) \/ KeSetBasePriorityThread(t)
      PROVE  Left
  <2>1. CASE Wake(t)
    BY <2>1, WakeLeaves
  <2>2. CASE SignalAndWait(t)
    BY <2>2, SignalAndWaitLeaves
  <2>3. CASE KeSetPriorityThread(t)
    BY <2>3, PrioritySetLeaves
  <2>4. CASE KeSetBasePriorityThread(t)
    BY <2>4, BaseSetLeaves
  <2> QED BY <1>9, <2>1, <2>2, <2>3, <2>4
<1> QED BY <1>1, <1>2, <1>3, <1>4, <1>5, <1>6, <1>7, <1>8, <1>9 DEF Dispatch, LevelSteps

LEMMA SchedInvNext == SchedInv /\ [SchedNext]_schedVars => SchedInv'
<1> SUFFICES ASSUME SchedInv, [SchedNext]_schedVars PROVE SchedInv'
  OBVIOUS
<1>1. CASE Dispatch /\ yielded' = StillReady(yielded)
  <2>1. Left /\ yielded \subseteq Thread
    BY <1>1, DispatchLeaves DEF SchedInv
  <2>2. Held(db', yielded') /\ yielded' \subseteq Thread
    BY <1>1, <2>1, Forget DEF Left
  <2> QED BY <2>1, <2>2 DEF SchedInv, Left
<1>2. CASE NtYieldExecution /\ yielded' = StillReady(yielded \cup {db.current})
  <2> DEFINE Z == yielded \cup {db.current}
  <2>1. LeftYielding /\ Z \subseteq Thread
    BY <1>2, YieldLeaves, LockedRuns DEF SchedInv, NtYieldExecution
  <2>2. Held(db', Z) /\ yielded' = StillReady(Z)
    BY <1>2, <2>1 DEF LeftYielding
  <2> HIDE DEF Z
  <2>3. Held(db', yielded') /\ yielded' \subseteq Thread
    BY <2>1, <2>2, Forget
  <2> QED BY <2>1, <2>3 DEF SchedInv, LeftYielding
<1>3. CASE UNCHANGED schedVars
  BY <1>3 DEF schedVars, SchedInv
<1> QED BY <1>1, <1>2, <1>3 DEF SchedNext

LEMMA SchedInvHighest == SchedInv => HighestRuns
<1> SUFFICES ASSUME SchedInv PROVE HighestRuns
  OBVIOUS
<1>1. /\ db \in Database /\ Queues(db, {}) /\ StandsBy(db, {}) /\ IdleIs(db) /\ Rests(db, {})
      /\ NoneAbove(db, yielded) /\ Runs(db)
  BY DEF SchedInv, Held, Steady, Sound, Placed
<1>2. SchedTypeOK
  BY <1>1 DEF SchedInv, SchedTypeOK, LevelFits
<1>3. EachInItsPlace
  <2>1. \A p \in Priorities : IsInjective(db.ready[p])
    BY <1>1 DEF Queues
  <2>2. \A t \in Thread, p \in Priorities :
            t \in Range(db.ready[p]) <=> db.state[t] = "Ready" /\ db.priority[t] = p
    BY <1>1 DEF Queues
  <2>3. \A t \in Thread : db.state[t] = "Standby" <=> db.next = t
    BY <1>1 DEF StandsBy
  <2>4. \A t \in Thread : db.state[t] = "Running" <=> db.current = t
    BY <1>1 DEF Runs
  <2>5. \A p \in Priorities : db.ready[p] = <<>> <=> Range(db.ready[p]) = {}
    <3> TAKE p \in Priorities
    <3>1. db.ready[p] \in Seq(Thread)
      BY <1>1 DEF Database
    <3> QED BY <3>1, SequencesFilled
  <2>6. db.summary \subseteq Priorities
    BY <1>1 DEF Database
  <2>7. \A p \in Priorities : p \in db.summary <=> db.ready[p] # <<>>
    BY <1>1, <2>5 DEF Queues
  <2>8. db.summary = {p \in Priorities : db.ready[p] # <<>>}
    BY <2>6, <2>7
  <2> QED BY <2>1, <2>2, <2>3, <2>4, <2>8 DEF EachInItsPlace
<1>4. \A t \in Thread : db.state[t] = "Ready" => ~Outranks(db, t) \/ t \in yielded
  <2> SUFFICES ASSUME NEW t \in Thread, db.state[t] = "Ready", t \notin yielded
               PROVE  ~Outranks(db, t)
    OBVIOUS
  <2>1. db.priority[t] \in Priorities /\ Bar(db) \in Priorities
    BY <1>1, BarIsPriority DEF Database
  <2>2. t \in Range(db.ready[db.priority[t]])
    BY <1>1, <2>1 DEF Queues
  <2>3. db.priority[t] <= Bar(db)
    BY <1>1, <2>1, <2>2 DEF NoneAbove
  <2> QED BY <2>1, <2>3 DEF Outranks, Bar, Priorities
<1>5. db.idle <=> db.current = IdleThread /\ db.next = NoThread
  BY <1>1 DEF IdleIs
<1>6. db.idle => \A t \in Thread : db.state[t] = "Waiting"
  BY <1>1 DEF Rests
<1>7. db.current = IdleThread <=> level \in {"idle", "idledpc"}
  BY DEF SchedInv, LevelFits
<1> QED BY <1>2, <1>3, <1>4, <1>5, <1>6, <1>7 DEF HighestRuns

(* At every level, and between any two steps, every thread is on the one   *)
(* queue or in the one place that its state says, the ready summary and    *)
(* the idle summary tell the truth, and no ready thread outranks the one   *)
(* the processor has or is about to have, other than one that yielded it.  *)
THEOREM HighestThreadRuns == SchedSpec => []HighestRuns
<1>1. SchedInit => SchedInv
  BY SchedInvInit
<1>2. SchedInv /\ [SchedNext]_schedVars => SchedInv'
  BY SchedInvNext
<1>3. SchedInv => HighestRuns
  BY SchedInvHighest
<1> QED BY <1>1, <1>2, <1>3, PTL DEF SchedSpec
=============================================================================
