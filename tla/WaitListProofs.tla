--------------------------- MODULE WaitListProofs ---------------------------
(***************************************************************************)
(* Lemmas about wait lists: what linking, unlinking and waking a thread do *)
(* to a list that holds each thread at most once.                          *)
(***************************************************************************)
EXTENDS WaitLists, SequenceTheorems, TLAPS

-----------------------------------------------------------------------------
(* Unlinking a thread from a wait list moves those behind it up by one.    *)
LEMMA UnlinkShifts ==
    ASSUME NEW T, NEW s \in Seq(T), NEW t \in Range(s)
    PROVE  \E k \in 1..Len(s) :
              /\ s[k] = t
              /\ Unlink(s, t) =
                    [i \in 1..(Len(s) - 1) |-> IF i < k THEN s[i] ELSE s[i + 1]]
<1> DEFINE k == CHOOSE i \in DOMAIN s : s[i] = t
           u == [i \in 1..(Len(s) - 1) |-> IF i < k THEN s[i] ELSE s[i + 1]]
<1>1. k \in 1..Len(s) /\ s[k] = t
  BY DEF Range
<1>2. Unlink(s, t) = RemoveAt(s, k)
  BY DEF Unlink
<1> HIDE DEF k
<1>3. RemoveAt(s, k) = u
  <2> DEFINE front == SubSeq(s, 1, k - 1)
             rear  == SubSeq(s, k + 1, Len(s))
  <2>1. /\ front \in Seq(T) /\ Len(front) = k - 1
        /\ \A i \in 1..(k - 1) : front[i] = s[i]
    BY <1>1
  <2>2. /\ rear \in Seq(T) /\ Len(rear) = Len(s) - k
        /\ \A i \in 1..(Len(s) - k) : rear[i] = s[i + k]
    BY <1>1
  <2> HIDE DEF front, rear
  <2> DEFINE w == front \o rear
  <2>3. RemoveAt(s, k) = w
    BY DEF RemoveAt, front, rear
  <2>4. /\ w \in Seq(T) /\ Len(w) = Len(front) + Len(rear)
        /\ \A i \in 1..(Len(front) + Len(rear)) :
              w[i] = IF i <= Len(front) THEN front[i] ELSE rear[i - Len(front)]
    BY <2>1, <2>2, ConcatProperties, Zenon
  <2> HIDE DEF w
  <2>5. k - 1 \in Nat /\ Len(s) \in Nat /\ Len(front) + Len(rear) = Len(s) - 1
    BY <1>1, <2>1, <2>2
  <2>6. \A i \in 1..(Len(s) - 1) : w[i] = u[i]
    <3> SUFFICES ASSUME NEW i \in 1..(Len(s) - 1) PROVE w[i] = u[i]
      OBVIOUS
    <3>1. w[i] = IF i <= Len(front) THEN front[i] ELSE rear[i - Len(front)]
      BY <2>4, <2>5
    <3>2. CASE i < k
      <4>1. i <= Len(front) /\ i \in 1..(k - 1)
        BY <1>1, <2>1, <3>2
      <4> QED BY <2>1, <3>1, <3>2, <4>1
    <3>3. CASE i >= k
      <4>1. ~(i <= Len(front)) /\ i - Len(front) \in 1..(Len(s) - k)
            /\ i - Len(front) + k = i + 1
        BY <1>1, <2>1, <3>3
      <4>2. rear[i - Len(front)] = s[i + 1]
        BY <2>2, <4>1
      <4> QED BY <1>1, <3>1, <3>3, <4>1, <4>2
    <3> QED BY <1>1, <3>2, <3>3
  <2>7. u \in Seq(T) /\ Len(u) = Len(s) - 1
    BY <1>1
  <2> HIDE DEF u
  <2>8. w = u
    BY <2>4, <2>5, <2>6, <2>7, SeqEqual
  <2> QED BY <2>3, <2>8
<1> QED BY <1>1, <1>2, <1>3

(* Unlinking a thread from a wait list that holds it at most once.         *)
LEMMA UnlinkProperties ==
    ASSUME NEW T, NEW s \in Seq(T), NEW t, IsInjective(s)
    PROVE  /\ Unlink(s, t) \in Seq(T)
           /\ IsInjective(Unlink(s, t))
           /\ Range(Unlink(s, t)) = Range(s) \ {t}
<1>1. CASE t \notin Range(s)
  BY <1>1 DEF Unlink
<1>2. CASE t \in Range(s)
  <2>1. PICK k \in 1..Len(s) :
            /\ s[k] = t
            /\ Unlink(s, t) =
                  [i \in 1..(Len(s) - 1) |-> IF i < k THEN s[i] ELSE s[i + 1]]
    BY <1>2, UnlinkShifts
  <2> DEFINE u == [i \in 1..(Len(s) - 1) |-> IF i < k THEN s[i] ELSE s[i + 1]]
  <2>2. u \in Seq(T) /\ DOMAIN u = 1..(Len(s) - 1)
    BY <2>1
  <2>3. IsInjective(u)
    BY <2>1, <2>2 DEF IsInjective
  <2>4. Range(u) \subseteq Range(s) \ {t}
    BY <2>1, <2>2 DEF IsInjective, Range
  <2>5. ASSUME NEW x \in Range(s) \ {t} PROVE x \in Range(u)
    <3>1. PICK i \in 1..Len(s) : s[i] = x
      BY DEF Range
    <3>2. i # k
      BY <2>1, <3>1
    <3>3. CASE i < k
      <4>1. i \in DOMAIN u /\ u[i] = x
        BY <2>1, <3>1, <3>3
      <4> QED BY <4>1 DEF Range
    <3>4. CASE i > k
      <4>1. i - 1 \in DOMAIN u /\ u[i - 1] = x
        BY <2>1, <3>1, <3>4
      <4> QED BY <4>1 DEF Range
    <3> QED BY <2>1, <3>1, <3>2, <3>3, <3>4
  <2> QED BY <2>1, <2>2, <2>3, <2>4, <2>5
<1> QED BY <1>1, <1>2

(* Those that stay on a list stay in their order. *)
LEMMA UnlinkKeepsOrder ==
    ASSUME NEW T, NEW s \in Seq(T), NEW t,
           NEW i \in DOMAIN Unlink(s, t), NEW j \in DOMAIN Unlink(s, t), i < j
    PROVE  \E k, l \in DOMAIN s :
              k < l /\ s[k] = Unlink(s, t)[i] /\ s[l] = Unlink(s, t)[j]
<1>1. CASE t \notin Range(s)
  BY <1>1 DEF Unlink
<1>2. CASE t \in Range(s)
  <2>1. PICK n \in 1..Len(s) :
            /\ s[n] = t
            /\ Unlink(s, t) =
                  [m \in 1..(Len(s) - 1) |-> IF m < n THEN s[m] ELSE s[m + 1]]
    BY <1>2, UnlinkShifts
  <2> DEFINE place(m) == IF m < n THEN m ELSE m + 1
  <2>2. i \in 1..(Len(s) - 1) /\ j \in 1..(Len(s) - 1) /\ Len(s) \in Nat
    BY <2>1
  <2>3. /\ place(i) \in DOMAIN s /\ place(j) \in DOMAIN s
        /\ place(i) < place(j)
    BY <2>2
  <2>4. s[place(i)] = Unlink(s, t)[i] /\ s[place(j)] = Unlink(s, t)[j]
    BY <2>1, <2>2
  <2> QED BY <2>3, <2>4
<1> QED BY <1>1, <1>2

LEMMA AppendKeepsOrder ==
    ASSUME NEW T, NEW s \in Seq(T), NEW t,
           NEW i \in DOMAIN Append(s, t), NEW j \in DOMAIN Append(s, t), i < j
    PROVE  \/ \E k, l \in DOMAIN s :
                 k < l /\ s[k] = Append(s, t)[i] /\ s[l] = Append(s, t)[j]
           \/ Append(s, t)[j] = t /\ Append(s, t)[i] \in Range(s)
<1> DEFINE a == Append(s, t)
<1>1. DOMAIN a = 1..(Len(s) + 1) /\ DOMAIN s = 1..Len(s) /\ Len(s) \in Nat
  OBVIOUS
<1>2. \A m \in 1..Len(s) : a[m] = s[m]
  OBVIOUS
<1>3. a[Len(s) + 1] = t
  OBVIOUS
<1>4. a[i] = s[i] /\ i \in 1..Len(s)
  BY <1>1, <1>2
<1>5. CASE j \in 1..Len(s)
  BY <1>1, <1>2, <1>4, <1>5
<1>6. CASE j = Len(s) + 1
  BY <1>1, <1>3, <1>4, <1>6 DEF Range
<1> QED BY <1>1, <1>5, <1>6

(* A newcomer at the tail of a wait list that does not hold it. *)
LEMMA AppendLinks ==
    ASSUME NEW T, NEW s \in Seq(T), NEW t \in T, IsInjective(s), t \notin Range(s)
    PROVE  /\ Append(s, t) \in Seq(T)
           /\ IsInjective(Append(s, t))
           /\ Range(Append(s, t)) = Range(s) \cup {t}
<1> DEFINE a == Append(s, t)
<1>1. a \in Seq(T) /\ DOMAIN a = 1..(Len(s) + 1) /\ DOMAIN s = 1..Len(s)
  OBVIOUS
<1>2. \A i \in 1..Len(s) : a[i] = s[i]
  OBVIOUS
<1>3. a[Len(s) + 1] = t
  OBVIOUS
<1>4. Len(s) \in Nat
  OBVIOUS
<1> HIDE DEF a
<1>5. IsInjective(a)
  BY <1>1, <1>2, <1>3, <1>4 DEF IsInjective, Range
<1>6. Range(a) = Range(s) \cup {t}
  BY <1>1, <1>2, <1>3, <1>4 DEF Range
<1> QED BY <1>1, <1>5, <1>6 DEF a

(* What the loop of KiWaitTest has still to look at, one block later. *)
LEMMA TailScans ==
    ASSUME NEW T, NEW s \in Seq(T), s # <<>>, IsInjective(s)
    PROVE  /\ Tail(s) \in Seq(T) /\ Head(s) \in T
           /\ IsInjective(Tail(s))
           /\ Head(s) \in Range(s)
           /\ Range(Tail(s)) = Range(s) \ {Head(s)}
<1>1. Len(s) \in Nat \ {0} /\ DOMAIN s = 1..Len(s)
  OBVIOUS
<1>2. Tail(s) \in Seq(T) /\ Len(Tail(s)) = Len(s) - 1
      /\ DOMAIN Tail(s) = 1..(Len(s) - 1)
  OBVIOUS
<1>3. \A i \in 1..(Len(s) - 1) : Tail(s)[i] = s[i + 1]
  OBVIOUS
<1>4. Head(s) = s[1] /\ Head(s) \in T
  OBVIOUS
<1>5. IsInjective(Tail(s))
  BY <1>1, <1>2, <1>3 DEF IsInjective
<1>6. Head(s) \in Range(s)
  BY <1>1, <1>4 DEF Range
<1>7. Range(Tail(s)) \subseteq Range(s) \ {Head(s)}
  BY <1>1, <1>2, <1>3, <1>4 DEF IsInjective, Range
<1>8. ASSUME NEW x \in Range(s) \ {Head(s)} PROVE x \in Range(Tail(s))
  <2>1. PICK i \in 1..Len(s) : s[i] = x
    BY <1>1 DEF Range
  <2>2. i # 1
    BY <1>4, <2>1
  <2>3. i - 1 \in DOMAIN Tail(s) /\ Tail(s)[i - 1] = x
    BY <1>1, <1>2, <1>3, <2>1, <2>2
  <2> QED BY <2>3 DEF Range
<1> QED BY <1>2, <1>4, <1>5, <1>6, <1>7, <1>8

(* A new one at the head of a list. *)
LEMMA PrependLinks ==
    ASSUME NEW T, NEW s \in Seq(T), NEW i \in T, IsInjective(s), i \notin Range(s)
    PROVE  /\ <<i>> \o s \in Seq(T)
           /\ IsInjective(<<i>> \o s)
           /\ Range(<<i>> \o s) = Range(s) \cup {i}
<1> DEFINE a == <<i>> \o s
<1>1. /\ a \in Seq(T) /\ Len(a) = Len(s) + 1 /\ a[1] = i
      /\ \A k \in 1..Len(s) : a[k + 1] = s[k]
      /\ \A k \in 1..Len(a) : k # 1 => k - 1 \in 1..Len(s) /\ a[k] = s[k - 1]
  BY SMTT(30)
<1>2. /\ DOMAIN s = 1..Len(s) /\ DOMAIN a = 1..Len(a) /\ Len(s) \in Nat
      /\ 1 \in 1..Len(a) /\ \A k \in 1..Len(s) : k + 1 \in 1..Len(a)
  BY <1>1
<1> HIDE DEF a
<1>3. \A k, m \in 1..Len(s) : s[k] = s[m] => k = m
  BY <1>2 DEF IsInjective
<1>4. \A k \in 1..Len(s) : s[k] # i
  BY <1>2 DEF Range
<1>5. IsInjective(a)
  <2> SUFFICES ASSUME NEW k \in 1..Len(a), NEW m \in 1..Len(a), a[k] = a[m] PROVE k = m
    BY <1>2 DEF IsInjective
  <2>1. CASE k = 1 /\ m # 1
    BY <1>1, <1>4, <2>1
  <2>2. CASE k # 1 /\ m = 1
    BY <1>1, <1>4, <2>2
  <2>3. CASE k # 1 /\ m # 1
    <3>1. k - 1 = m - 1
      BY <1>1, <1>3, <2>3
    <3> QED BY <3>1
  <2>4. CASE k = 1 /\ m = 1
    BY <2>4
  <2> QED BY <2>1, <2>2, <2>3, <2>4
<1>6. Range(a) = Range(s) \cup {i}
  <2>1. ASSUME NEW x \in Range(a) PROVE x \in Range(s) \cup {i}
    <3>1. PICK k \in 1..Len(a) : a[k] = x
      BY <1>2 DEF Range
    <3> QED BY <1>1, <1>2, <3>1 DEF Range
  <2>2. ASSUME NEW x \in Range(s) PROVE x \in Range(a)
    <3>1. PICK k \in 1..Len(s) : s[k] = x
      BY <1>2 DEF Range
    <3> QED BY <1>1, <1>2, <3>1 DEF Range
  <2>3. i \in Range(a)
    BY <1>1, <1>2 DEF Range
  <2> QED BY <2>1, <2>2, <2>3
<1> QED BY <1>1, <1>5, <1>6 DEF a

(* The last of a list, which KeInsertQueue and KiActivateWaiterQueue take. *)
LEMMA FrontLinks ==
    ASSUME NEW T, NEW s \in Seq(T), s # <<>>, IsInjective(s)
    PROVE  /\ Front(s) \in Seq(T) /\ Last(s) \in T
           /\ IsInjective(Front(s))
           /\ Last(s) \in Range(s)
           /\ Range(Front(s)) = Range(s) \ {Last(s)}
<1> DEFINE n == Len(s)
           f == SubSeq(s, 1, n - 1)
<1>1. n \in Nat \ {0} /\ DOMAIN s = 1..n
  OBVIOUS
<1>2. f \in Seq(T) /\ DOMAIN f = 1..(n - 1)
  BY <1>1
<1>3. \A i \in 1..(n - 1) : f[i] = s[i]
  BY <1>1
<1>4. s[n] \in T /\ s[n] \in Range(s)
  BY <1>1 DEF Range
<1> HIDE DEF f, n
<1>5. IsInjective(f)
  BY <1>1, <1>2, <1>3 DEF IsInjective
<1>6. Range(f) \subseteq Range(s) \ {s[n]}
  BY <1>1, <1>2, <1>3 DEF IsInjective, Range
<1>7. ASSUME NEW x \in Range(s) \ {s[n]} PROVE x \in Range(f)
  <2>1. PICK i \in 1..n : s[i] = x
    BY <1>1 DEF Range
  <2>2. i \in 1..(n - 1)
    BY <1>1, <2>1
  <2> QED BY <1>2, <1>3, <2>1, <2>2 DEF Range
<1>8. Front(s) = f /\ Last(s) = s[n]
  BY DEF Front, Last, f, n
<1> QED BY <1>2, <1>4, <1>5, <1>6, <1>7, <1>8
=============================================================================
