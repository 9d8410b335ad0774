-------------------------- MODULE KeTimerProofs --------------------------
(***************************************************************************)
(* The timer table for every set of timers, every size of the table, every *)
(* clock increment and any number of clock interrupts: the table is        *)
(* ordered, no timer is passed over, none is early.  And the DPC queue the *)
(* expiration is run from: its types, that the list and the Inserted marks *)
(* agree, and that a DPC on the list is attended to.                       *)
(***************************************************************************)
EXTENDS KeTimer, KeDpc, WaitListProofs

-----------------------------------------------------------------------------
(* Arithmetic of ticks and hands.                                          *)

(* Euclid's division. *)
LEMMA Divides ==
    ASSUME NEW m \in Nat \ {0}, NEW a \in Int
    PROVE  /\ a \div m \in Int /\ a % m \in 0..(m - 1)
           /\ a = m * (a \div m) + (a % m)
OBVIOUS

LEMMA ProductGrows ==
    ASSUME NEW m \in Nat, NEW x \in Int, NEW y \in Int, x <= y
    PROVE  m * x <= m * y
OBVIOUS

LEMMA QuotientUnique ==
    ASSUME NEW m \in Nat \ {0}, NEW a \in Int, NEW q \in Int, NEW r \in 0..(m - 1),
           a = m * q + r
    PROVE  a \div m = q /\ a % m = r
<1>1. /\ a \div m \in Int /\ a % m \in 0..(m - 1)
      /\ a = m * (a \div m) + (a % m)
  BY Divides
<1> DEFINE p == a \div m
           s == a % m
<1>2. p \in Int /\ s \in 0..(m - 1) /\ a = m * p + s
  BY <1>1
<1> HIDE DEF p, s
<1>3. ~(p > q)
  <2> SUFFICES ASSUME p >= q + 1 PROVE FALSE
    BY <1>2
  <2>1. m * (q + 1) <= m * p
    BY <1>2, ProductGrows
  <2>2. m * (q + 1) = m * q + m
    OBVIOUS
  <2>3. m * q \in Int /\ m * p \in Int
    BY <1>2
  <2> QED BY <1>2, <2>1, <2>2, <2>3
<1>4. ~(p < q)
  <2> SUFFICES ASSUME p + 1 <= q PROVE FALSE
    BY <1>2
  <2>1. m * (p + 1) <= m * q
    BY <1>2, ProductGrows
  <2>2. m * (p + 1) = m * p + m
    BY <1>2
  <2>3. m * q \in Int /\ m * p \in Int
    BY <1>2
  <2> QED BY <1>2, <2>1, <2>2, <2>3
<1>5. p = q
  BY <1>2, <1>3, <1>4
<1>6. s = r
  BY <1>2, <1>5
<1> QED BY <1>5, <1>6 DEF p, s

(* The tick within which a time falls. *)
LEMMA TickOf ==
    ASSUME NEW m \in Nat \ {0}, NEW c \in Int, NEW d \in Int,
           c * m <= d, d < (c + 1) * m
    PROVE  d \div m = c
<1>1. c * m \in Int /\ c * m = m * c /\ (c + 1) * m = c * m + m
  OBVIOUS
<1>2. d - c * m \in 0..(m - 1) /\ d = m * c + (d - c * m)
  BY <1>1
<1> QED BY <1>2, QuotientUnique

LEMMA TickBetween ==
    ASSUME NEW m \in Nat \ {0}, NEW a \in Int, NEW c \in Int, NEW d \in Int,
           a * m <= d, d <= c * m
    PROVE  d \div m \in a..c
<1> DEFINE q == d \div m
           r == d % m
<1>1. q \in Int /\ r \in 0..(m - 1) /\ d = m * q + r
  BY Divides
<1> HIDE DEF q, r
<1>2. a <= q
  <2> SUFFICES ASSUME q + 1 <= a PROVE FALSE
    BY <1>1
  <2>1. m * (q + 1) <= m * a /\ m * (q + 1) = m * q + m
    BY <1>1, ProductGrows
  <2>2. m * a = a * m /\ m * q \in Int /\ a * m \in Int
    BY <1>1
  <2> QED BY <1>1, <2>1, <2>2
<1>3. q <= c
  <2> SUFFICES ASSUME c + 1 <= q PROVE FALSE
    BY <1>1
  <2>1. m * (c + 1) <= m * q /\ m * (c + 1) = m * c + m
    BY <1>1, ProductGrows
  <2>2. m * c = c * m /\ m * q \in Int /\ c * m \in Int
    BY <1>1
  <2> QED BY <1>1, <2>1, <2>2
<1> QED BY <1>1, <1>2, <1>3 DEF q

(* A hand that is moved on after it was reduced, and one moved a turn. *)
LEMMA TurnsReduced ==
    ASSUME NEW m \in Nat \ {0}, NEW x \in Int, NEW k \in Int
    PROVE  ((x % m) + k) % m = (x + k) % m
<1>1. x \div m \in Int /\ x % m \in 0..(m - 1) /\ x = m * (x \div m) + (x % m)
  BY Divides
<1> DEFINE p == x \div m
           r == x % m
<1>2. p \in Int /\ r \in Int /\ x = m * p + r
  BY <1>1
<1> HIDE DEF p, r
<1> DEFINE q == (r + k) \div m
           s == (r + k) % m
<1>3. q \in Int /\ s \in 0..(m - 1) /\ r + k = m * q + s
  <2>1. r + k \in Int
    BY <1>2
  <2> QED BY <2>1, Divides
<1> HIDE DEF q, s
<1>4. x + k = m * (p + q) + s
  <2>1. m * (p + q) = m * p + m * q
    BY <1>2, <1>3
  <2>2. m * p \in Int /\ m * q \in Int
    BY <1>2, <1>3
  <2> QED BY <1>2, <1>3, <2>1, <2>2
<1>5. (x + k) % m = s
  <2>1. x + k \in Int /\ p + q \in Int
    BY <1>2, <1>3
  <2> QED BY <1>3, <1>4, <2>1, QuotientUnique
<1> QED BY <1>5 DEF r, s

LEMMA WholeTurn ==
    ASSUME NEW m \in Nat \ {0}, NEW x \in Int
    PROVE  (x + m) % m = x % m
<1>1. x \div m \in Int /\ x % m \in 0..(m - 1) /\ x = m * (x \div m) + (x % m)
  BY Divides
<1> DEFINE p == x \div m
           r == x % m
<1>2. p \in Int /\ r \in 0..(m - 1) /\ x = m * p + r
  BY <1>1
<1> HIDE DEF p, r
<1>3. x + m = m * (p + 1) + r
  <2>1. m * (p + 1) = m * p + m /\ m * p \in Int
    BY <1>2
  <2> QED BY <1>2, <2>1
<1>4. (x + m) % m = r
  BY <1>2, <1>3, QuotientUnique
<1> QED BY <1>4 DEF r

(* Within one turn two moves of the hand that end in one place are equal. *)
LEMMA OneTurn ==
    ASSUME NEW m \in Nat \ {0}, NEW x \in Int, NEW d \in 1..m,
           (x + d) % m = (x + 1) % m
    PROVE  d = 1
<1>1. x + d \in Int /\ x + 1 \in Int
  OBVIOUS
<1> DEFINE p == (x + d) \div m
           q == (x + 1) \div m
           r == (x + d) % m
<1>2. p \in Int /\ q \in Int /\ r \in 0..(m - 1)
      /\ x + d = m * p + r /\ x + 1 = m * q + r
  BY <1>1, Divides
<1> HIDE DEF p, q, r
<1>3. p = q
  <2>1. CASE p >= q + 1
    <3>1. m * (q + 1) <= m * p /\ m * (q + 1) = m * q + m
      BY <1>2, <2>1, ProductGrows
    <3>2. m * p \in Int /\ m * q \in Int
      BY <1>2
    <3> QED BY <1>2, <3>1, <3>2
  <2>2. CASE q >= p + 1
    <3>1. m * (p + 1) <= m * q /\ m * (p + 1) = m * p + m
      BY <1>2, <2>2, ProductGrows
    <3>2. m * p \in Int /\ m * q \in Int
      BY <1>2
    <3> QED BY <1>2, <3>1, <3>2
  <2> QED BY <1>2, <2>1, <2>2
<1> QED BY <1>2, <1>3

-----------------------------------------------------------------------------
(* Sequences: what linking and cutting do.                                 *)

LEMMA Position ==
    ASSUME NEW T, NEW s \in Seq(T)
    PROVE  /\ DOMAIN s = 1..Len(s) /\ Len(s) \in Nat
           /\ \A x : x \in Range(s) <=> \E i \in 1..Len(s) : s[i] = x
           /\ Range(s) \subseteq T
<1>1. DOMAIN s = 1..Len(s) /\ Len(s) \in Nat /\ \A i \in 1..Len(s) : s[i] \in T
  OBVIOUS
<1> QED BY <1>1 DEF Range

(* What linking behind the first k does. *)
BehindFirst(r, s, k, t) ==
    /\ Len(r) = Len(s) + 1
    /\ \A j \in 1..(Len(s) + 1) :
          r[j] = IF j <= k THEN s[j] ELSE IF j = k + 1 THEN t ELSE s[j - 1]

LEMMA InsertShifts ==
    ASSUME NEW T, NEW s \in Seq(T), NEW k \in 0..Len(s), NEW t \in T
    PROVE  InsertAt(s, k + 1, t) \in Seq(T) /\ BehindFirst(InsertAt(s, k + 1, t), s, k, t)
<1> DEFINE front == SubSeq(s, 1, k)
           rear  == SubSeq(s, k + 1, Len(s))
           mid   == front \o <<t>>
           r     == mid \o rear
<1>1. Len(s) \in Nat /\ k \in Nat
  OBVIOUS
<1>2. front \in Seq(T) /\ Len(front) = k /\ \A j \in 1..k : front[j] = s[j]
  BY <1>1
<1>3. /\ rear \in Seq(T) /\ Len(rear) = Len(s) - k
      /\ \A j \in 1..(Len(s) - k) : rear[j] = s[j + k]
  BY <1>1
<1>4. InsertAt(s, k + 1, t) = r
  <2>1. (k + 1) - 1 = k
    BY <1>1
  <2> QED BY <2>1, Zenon DEF InsertAt
<1> HIDE DEF front, rear
<1>5. /\ mid \in Seq(T) /\ Len(mid) = k + 1
      /\ \A j \in 1..(k + 1) : mid[j] = IF j <= k THEN s[j] ELSE t
  BY <1>1, <1>2
<1> HIDE DEF mid
<1>6. /\ r \in Seq(T) /\ Len(r) = Len(s) + 1
      /\ \A j \in 1..(Len(s) + 1) : r[j] = IF j <= k + 1 THEN mid[j] ELSE rear[j - (k + 1)]
  BY <1>1, <1>3, <1>5
<1> HIDE DEF r
<1>7. ASSUME NEW j \in 1..(Len(s) + 1)
      PROVE  r[j] = IF j <= k THEN s[j] ELSE IF j = k + 1 THEN t ELSE s[j - 1]
  <2>1. CASE j <= k + 1
    BY <1>1, <1>5, <1>6, <2>1
  <2>2. CASE j > k + 1
    <3>1. j - (k + 1) \in 1..(Len(s) - k) /\ (j - (k + 1)) + k = j - 1
      BY <1>1, <2>2
    <3>2. rear[j - (k + 1)] = s[j - 1]
      BY <1>3, <3>1
    <3> QED BY <1>1, <1>6, <2>2, <3>2
  <2> QED BY <1>1, <2>1, <2>2
<1>8. BehindFirst(r, s, k, t)
  BY <1>6, <1>7 DEF BehindFirst
<1> QED BY <1>4, <1>6, <1>8

LEMMA InsertParts ==
    ASSUME NEW T, NEW s \in Seq(T), NEW k \in 0..Len(s), NEW t, NEW r, BehindFirst(r, s, k, t)
    PROVE  \A j \in 1..Len(r) :
              /\ j <= k => j \in 1..Len(s) /\ r[j] = s[j]
              /\ j = k + 1 => r[j] = t
              /\ j > k + 1 => /\ j - 1 \in 1..Len(s) /\ j - 1 \in (k + 1)..Len(s)
                             /\ r[j] = s[j - 1]
<1>1. Len(s) \in Nat /\ k \in Nat /\ k <= Len(s) /\ Len(r) = Len(s) + 1
  BY DEF BehindFirst
<1> SUFFICES ASSUME NEW j \in 1..Len(r)
             PROVE  /\ j <= k => j \in 1..Len(s) /\ r[j] = s[j]
                    /\ j = k + 1 => r[j] = t
                    /\ j > k + 1 => /\ j - 1 \in 1..Len(s) /\ j - 1 \in (k + 1)..Len(s)
                                   /\ r[j] = s[j - 1]
  OBVIOUS
<1>2. r[j] = IF j <= k THEN s[j] ELSE IF j = k + 1 THEN t ELSE s[j - 1]
  BY <1>1 DEF BehindFirst
<1>3. /\ j <= k => j \in 1..Len(s)
      /\ j > k + 1 => j - 1 \in 1..Len(s) /\ j - 1 \in (k + 1)..Len(s)
  BY <1>1
<1>4. (j = k + 1 => ~(j <= k)) /\ (j > k + 1 => ~(j <= k) /\ j # k + 1)
  BY <1>1
<1> QED BY <1>2, <1>3, <1>4

LEMMA InsertLinks ==
    ASSUME NEW T, NEW s \in Seq(T), NEW k \in 0..Len(s), NEW t \in T,
           IsInjective(s), t \notin Range(s)
    PROVE  /\ IsInjective(InsertAt(s, k + 1, t))
           /\ Range(InsertAt(s, k + 1, t)) = Range(s) \cup {t}
<1> DEFINE r == InsertAt(s, k + 1, t)
<1>0. r \in Seq(T) /\ BehindFirst(r, s, k, t)
  BY InsertShifts
<1>2. /\ DOMAIN s = 1..Len(s) /\ Len(s) \in Nat
      /\ \A x : x \in Range(s) <=> \E i \in 1..Len(s) : s[i] = x
  BY Position
<1> HIDE DEF r
<1>1. /\ r \in Seq(T) /\ Len(r) = Len(s) + 1
      /\ \A j \in 1..(Len(s) + 1) :
            r[j] = IF j <= k THEN s[j] ELSE IF j = k + 1 THEN t ELSE s[j - 1]
  BY <1>0 DEF BehindFirst
<1>3. /\ DOMAIN r = 1..(Len(s) + 1)
      /\ \A x : x \in Range(r) <=> \E i \in 1..(Len(s) + 1) : r[i] = x
  BY <1>1, Position
<1>4. \A i, j \in 1..Len(s) : s[i] = s[j] => i = j
  BY <1>2 DEF IsInjective
<1>5. \A i \in 1..Len(s) : s[i] # t
  BY <1>2
<1>6. ASSUME NEW i \in 1..(Len(s) + 1), NEW j \in 1..(Len(s) + 1), r[i] = r[j]
      PROVE  i = j
  BY <1>1, <1>2, <1>4, <1>5, <1>6
<1>7. ASSUME NEW x, x \in Range(r)
      PROVE  x \in Range(s) \cup {t}
  <2>1. PICK i \in 1..(Len(s) + 1) : r[i] = x
    BY <1>3, <1>7
  <2>2. CASE i <= k
    BY <1>1, <1>2, <2>1, <2>2
  <2>3. CASE i = k + 1
    BY <1>1, <1>2, <2>1, <2>3
  <2>4. CASE i > k + 1
    <3>1. i - 1 \in 1..Len(s) /\ s[i - 1] = x
      BY <1>1, <1>2, <2>1, <2>4
    <3> QED BY <1>2, <3>1
  <2> QED BY <1>2, <2>2, <2>3, <2>4
<1>8. ASSUME NEW x, x \in Range(s) \cup {t}
      PROVE  x \in Range(r)
  <2>1. CASE x = t
    <3>1. k + 1 \in 1..(Len(s) + 1) /\ r[k + 1] = t
      BY <1>1, <1>2
    <3> QED BY <1>3, <2>1, <3>1
  <2>2. CASE x \in Range(s)
    <3>1. PICK i \in 1..Len(s) : s[i] = x
      BY <1>2, <2>2
    <3>2. CASE i <= k
      <4>1. i \in 1..(Len(s) + 1) /\ r[i] = x
        BY <1>1, <1>2, <3>1, <3>2
      <4> QED BY <1>3, <4>1
    <3>3. CASE i > k
      <4>1. i + 1 \in 1..(Len(s) + 1) /\ r[i + 1] = x
        BY <1>1, <1>2, <3>1, <3>3
      <4> QED BY <1>3, <4>1
    <3> QED BY <1>2, <3>2, <3>3
  <2> QED BY <1>8, <2>1, <2>2
<1>9. Range(r) = Range(s) \cup {t}
  BY <1>7, <1>8
<1>10. IsInjective(r)
  BY <1>3, <1>6 DEF IsInjective
<1> QED BY <1>9, <1>10 DEF r

(* A list cut behind its first n. *)
LEMMA CutShifts ==
    ASSUME NEW T, NEW s \in Seq(T), NEW n \in 0..Len(s)
    PROVE  /\ SubSeq(s, 1, n) \in Seq(T) /\ Len(SubSeq(s, 1, n)) = n
           /\ \A j \in 1..n : SubSeq(s, 1, n)[j] = s[j]
           /\ SubSeq(s, n + 1, Len(s)) \in Seq(T)
           /\ Len(SubSeq(s, n + 1, Len(s))) = Len(s) - n
           /\ \A j \in 1..(Len(s) - n) : SubSeq(s, n + 1, Len(s))[j] = s[j + n]
           /\ Len(s) \in Nat /\ n \in Nat /\ DOMAIN s = 1..Len(s)
OBVIOUS

LEMMA CutLinks ==
    ASSUME NEW T, NEW s \in Seq(T), NEW n \in 0..Len(s), IsInjective(s)
    PROVE  /\ IsInjective(SubSeq(s, 1, n)) /\ IsInjective(SubSeq(s, n + 1, Len(s)))
           /\ Range(SubSeq(s, 1, n)) \cup Range(SubSeq(s, n + 1, Len(s))) = Range(s)
           /\ Range(SubSeq(s, 1, n)) \cap Range(SubSeq(s, n + 1, Len(s))) = {}
<1> DEFINE f == SubSeq(s, 1, n)
           r == SubSeq(s, n + 1, Len(s))
<1>1. /\ f \in Seq(T) /\ Len(f) = n /\ \A j \in 1..n : f[j] = s[j]
      /\ r \in Seq(T) /\ Len(r) = Len(s) - n /\ \A j \in 1..(Len(s) - n) : r[j] = s[j + n]
      /\ Len(s) \in Nat /\ n \in Nat /\ DOMAIN s = 1..Len(s)
  BY CutShifts, Zenon
<1>2. \A x : x \in Range(s) <=> \E i \in 1..Len(s) : s[i] = x
  BY Position
<1> HIDE DEF f, r
<1>3. DOMAIN f = 1..n /\ \A x : x \in Range(f) <=> \E i \in 1..n : f[i] = x
  <2>1. f \in Seq(T) /\ Len(f) = n
    BY <1>1
  <2> QED BY <2>1, Position
<1>4. /\ DOMAIN r = 1..(Len(s) - n)
      /\ \A x : x \in Range(r) <=> \E i \in 1..(Len(s) - n) : r[i] = x
  BY <1>1, Position
<1>5. \A i, j \in 1..Len(s) : s[i] = s[j] => i = j
  BY <1>1 DEF IsInjective
<1>6. IsInjective(f)
  <2>1. ASSUME NEW i \in 1..n, NEW j \in 1..n, f[i] = f[j] PROVE i = j
    <3>1. i \in 1..Len(s) /\ j \in 1..Len(s) /\ s[i] = s[j]
      BY <1>1, <2>1
    <3> QED BY <1>5, <3>1
  <2> QED BY <1>3, <2>1 DEF IsInjective
<1>7. IsInjective(r)
  <2>1. ASSUME NEW i \in 1..(Len(s) - n), NEW j \in 1..(Len(s) - n), r[i] = r[j]
        PROVE  i = j
    <3>1. i + n \in 1..Len(s) /\ j + n \in 1..Len(s) /\ s[i + n] = s[j + n]
      BY <1>1, <2>1
    <3> QED BY <1>1, <1>5, <3>1
  <2> QED BY <1>4, <2>1 DEF IsInjective
<1>8. \A x : x \in Range(s) <=> x \in Range(f) \/ x \in Range(r)
  <2> SUFFICES ASSUME NEW x PROVE x \in Range(s) <=> x \in Range(f) \/ x \in Range(r)
    OBVIOUS
  <2>1. ASSUME x \in Range(s) PROVE x \in Range(f) \/ x \in Range(r)
    <3>1. PICK i \in 1..Len(s) : s[i] = x
      BY <1>2, <2>1
    <3>2. CASE i <= n
      <4>1. i \in 1..n /\ f[i] = x
        BY <1>1, <3>1, <3>2
      <4> QED BY <1>3, <4>1
    <3>3. CASE i > n
      <4>1. i - n \in 1..(Len(s) - n) /\ r[i - n] = x
        BY <1>1, <3>1, <3>3
      <4> QED BY <1>4, <4>1
    <3> QED BY <1>1, <3>2, <3>3
  <2>2. ASSUME x \in Range(f) PROVE x \in Range(s)
    BY <1>1, <1>2, <1>3, <2>2
  <2>3. ASSUME x \in Range(r) PROVE x \in Range(s)
    <3>1. PICK i \in 1..(Len(s) - n) : r[i] = x
      BY <1>4, <2>3
    <3>2. i + n \in 1..Len(s) /\ s[i + n] = x
      BY <1>1, <3>1
    <3> QED BY <1>2, <3>2
  <2> QED BY <2>1, <2>2, <2>3
<1>9. ASSUME NEW x, x \in Range(f), x \in Range(r) PROVE FALSE
  <2>1. PICK i \in 1..n : f[i] = x
    BY <1>3, <1>9
  <2>2. PICK j \in 1..(Len(s) - n) : r[j] = x
    BY <1>4, <1>9
  <2>3. s[i] = s[j + n] /\ i \in 1..Len(s) /\ j + n \in 1..Len(s)
    BY <1>1, <2>1, <2>2
  <2> QED BY <1>1, <1>5, <2>3
<1>10. Range(f) \cup Range(r) = Range(s) /\ Range(f) \cap Range(r) = {}
  BY <1>8, <1>9
<1> QED BY <1>6, <1>7, <1>10 DEF f, r

(* One list behind another that holds none of its members. *)
LEMMA ConcatLinks ==
    ASSUME NEW T, NEW s \in Seq(T), NEW u \in Seq(T), IsInjective(s), IsInjective(u),
           Range(s) \cap Range(u) = {}
    PROVE  /\ s \o u \in Seq(T) /\ IsInjective(s \o u)
           /\ Range(s \o u) = Range(s) \cup Range(u)
<1> DEFINE r == s \o u
<1>1. /\ r \in Seq(T) /\ Len(r) = Len(s) + Len(u)
      /\ \A i \in 1..(Len(s) + Len(u)) :
            r[i] = IF i <= Len(s) THEN s[i] ELSE u[i - Len(s)]
  BY ConcatProperties, Zenon
<1>2. /\ DOMAIN s = 1..Len(s) /\ Len(s) \in Nat
      /\ \A x : x \in Range(s) <=> \E i \in 1..Len(s) : s[i] = x
  BY Position
<1>3. /\ DOMAIN u = 1..Len(u) /\ Len(u) \in Nat
      /\ \A x : x \in Range(u) <=> \E i \in 1..Len(u) : u[i] = x
  BY Position
<1> HIDE DEF r
<1>4. /\ DOMAIN r = 1..(Len(s) + Len(u))
      /\ \A x : x \in Range(r) <=> \E i \in 1..(Len(s) + Len(u)) : r[i] = x
  BY <1>1, Position
<1>5. \A i, j \in 1..Len(s) : s[i] = s[j] => i = j
  BY <1>2 DEF IsInjective
<1>6. \A i, j \in 1..Len(u) : u[i] = u[j] => i = j
  BY <1>3 DEF IsInjective
<1>7. \A i \in 1..Len(s), j \in 1..Len(u) : s[i] # u[j]
  BY <1>2, <1>3
<1>8. \A i \in 1..(Len(s) + Len(u)) :
         \/ i \in 1..Len(s) /\ r[i] = s[i]
         \/ i > Len(s) /\ i - Len(s) \in 1..Len(u) /\ r[i] = u[i - Len(s)]
  BY <1>1, <1>2, <1>3
<1>9. ASSUME NEW i \in 1..(Len(s) + Len(u)), NEW j \in 1..(Len(s) + Len(u)), r[i] = r[j]
      PROVE  i = j
  <2>1. CASE i \in 1..Len(s) /\ r[i] = s[i]
    <3>1. CASE j \in 1..Len(s) /\ r[j] = s[j]
      BY <1>5, <1>9, <2>1, <3>1
    <3>2. CASE j > Len(s) /\ j - Len(s) \in 1..Len(u) /\ r[j] = u[j - Len(s)]
      BY <1>7, <1>9, <2>1, <3>2
    <3> QED BY <1>8, <3>1, <3>2
  <2>2. CASE i > Len(s) /\ i - Len(s) \in 1..Len(u) /\ r[i] = u[i - Len(s)]
    <3>1. j > Len(s) /\ j - Len(s) \in 1..Len(u) /\ r[j] = u[j - Len(s)]
      BY <1>7, <1>8, <1>9, <2>2
    <3>2. i - Len(s) = j - Len(s)
      BY <1>6, <1>9, <2>2, <3>1
    <3> QED BY <1>2, <1>3, <3>2
  <2> QED BY <1>8, <2>1, <2>2
<1>10. \A x : x \in Range(r) <=> x \in Range(s) \/ x \in Range(u)
  <2> SUFFICES ASSUME NEW x PROVE x \in Range(r) <=> x \in Range(s) \/ x \in Range(u)
    OBVIOUS
  <2>1. ASSUME x \in Range(r) PROVE x \in Range(s) \/ x \in Range(u)
    BY <1>2, <1>3, <1>4, <1>8, <2>1
  <2>2. ASSUME x \in Range(s) PROVE x \in Range(r)
    <3>1. PICK i \in 1..Len(s) : s[i] = x
      BY <1>2, <2>2
    <3>2. i \in 1..(Len(s) + Len(u)) /\ r[i] = x
      BY <1>1, <1>2, <1>3, <3>1
    <3> QED BY <1>4, <3>2
  <2>3. ASSUME x \in Range(u) PROVE x \in Range(r)
    <3>1. PICK i \in 1..Len(u) : u[i] = x
      BY <1>3, <2>3
    <3>2. i + Len(s) \in 1..(Len(s) + Len(u)) /\ ~(i + Len(s) <= Len(s))
          /\ (i + Len(s)) - Len(s) = i
      BY <1>2, <1>3
    <3>3. r[i + Len(s)] = x
      BY <1>1, <3>1, <3>2
    <3> QED BY <1>4, <3>2, <3>3
  <2> QED BY <2>1, <2>2, <2>3
<1>11. Range(r) = Range(s) \cup Range(u)
  BY <1>10
<1>12. IsInjective(r)
  BY <1>4, <1>9 DEF IsInjective
<1> QED BY <1>1, <1>11, <1>12 DEF r

-----------------------------------------------------------------------------
(* One list of the table, under the due times d.                           *)

(* A list of the table: the timers in it hash to i and are in order. *)
ListOK(i, s, d) ==
    /\ s \in Seq(Timer) /\ IsInjective(s)
    /\ \A j \in 1..Len(s) : Bucket(d[s[j]]) = i
    /\ \A j, k \in 1..Len(s) : j <= k => d[s[j]] <= d[s[k]]

LEMMA Hashes ==
    ASSUME NEW i, NEW s, NEW d, ListOK(i, s, d), NEW t \in Range(s)
    PROVE  t \in Timer /\ Bucket(d[t]) = i
<1>1. PICK j \in 1..Len(s) : s[j] = t
  BY Position DEF ListOK
<1> QED BY <1>1 DEF ListOK

(* What one list looks like does not depend on timers that are not in it. *)
LEMMA SameDue ==
    ASSUME NEW i, NEW s, NEW d, NEW e, ListOK(i, s, d),
           \A t \in Range(s) : e[t] = d[t]
    PROVE  ListOK(i, s, e)
<1>1. \A j \in 1..Len(s) : s[j] \in Range(s)
  BY Position DEF ListOK
<1>2. \A j \in 1..Len(s) : e[s[j]] = d[s[j]]
  BY <1>1
<1> QED BY <1>2 DEF ListOK

LEMMA UnlinkOK ==
    ASSUME NEW i, NEW s, NEW d \in [Timer -> Int], NEW t, ListOK(i, s, d)
    PROVE  /\ ListOK(i, Unlink(s, t), d)
           /\ Range(Unlink(s, t)) = Range(s) \ {t}
<1> DEFINE r == Unlink(s, t)
<1>0. s \in Seq(Timer) /\ IsInjective(s)
  BY DEF ListOK
<1>1. r \in Seq(Timer) /\ IsInjective(r) /\ Range(r) = Range(s) \ {t}
  BY <1>0, UnlinkProperties
<1>2. ASSUME NEW j \in 1..Len(r), NEW k \in 1..Len(r), j < k
      PROVE  d[r[j]] <= d[r[k]]
  <2>1. j \in DOMAIN r /\ k \in DOMAIN r
    BY <1>1
  <2>2. PICK a, b \in DOMAIN s : a < b /\ s[a] = r[j] /\ s[b] = r[k]
    BY <1>0, <1>2, <2>1, UnlinkKeepsOrder
  <2>3. a \in 1..Len(s) /\ b \in 1..Len(s) /\ a <= b
    BY <1>0, <2>2
  <2>4. d[s[a]] <= d[s[b]]
    BY <2>3 DEF ListOK
  <2> QED BY <2>2, <2>4
<1> HIDE DEF r
<1>3. \A j \in 1..Len(r) : r[j] \in Range(s)
  <2>1. \A j \in 1..Len(r) : r[j] \in Range(r)
    BY <1>1, Position
  <2> QED BY <1>1, <2>1
<1>4. \A j \in 1..Len(r) : Bucket(d[r[j]]) = i
  BY <1>3, Hashes
<1>5. \A j, k \in 1..Len(r) : j <= k => d[r[j]] <= d[r[k]]
  <2>1. ASSUME NEW j \in 1..Len(r), NEW k \in 1..Len(r), j <= k
        PROVE  d[r[j]] <= d[r[k]]
    <3>1. CASE j < k
      BY <1>2, <3>1
    <3>2. CASE j = k
      <4>1. r[j] \in Timer
        BY <1>1
      <4> QED BY <3>2, <4>1
    <3> QED BY <1>1, <2>1, <3>1, <3>2
  <2> QED BY <2>1
<1>6. ListOK(i, r, d)
  BY <1>1, <1>4, <1>5 DEF ListOK
<1> QED BY <1>1, <1>6 DEF r

(* A timer goes behind those that are due no later. *)
DueBehind(s, k, t, d) ==
    /\ k > 0 => d[s[k]] <= d[t]
    /\ \A j \in (k + 1)..Len(s) : d[s[j]] > d[t]

LEMMA InsertOK ==
    ASSUME NEW i, NEW s, NEW d \in [Timer -> Int], ListOK(i, s, d),
           NEW t \in Timer, t \notin Range(s),
           Bucket(d[t]) = i,
           NEW k \in 0..Len(s), DueBehind(s, k, t, d)
    PROVE  /\ ListOK(i, InsertAt(s, k + 1, t), d)
           /\ Range(InsertAt(s, k + 1, t)) = Range(s) \cup {t}
<1> DEFINE r == InsertAt(s, k + 1, t)
<1>0. s \in Seq(Timer) /\ IsInjective(s) /\ Len(s) \in Nat
  BY DEF ListOK
<1>1. r \in Seq(Timer) /\ BehindFirst(r, s, k, t)
  BY <1>0, InsertShifts
<1>2. IsInjective(r) /\ Range(r) = Range(s) \cup {t}
  BY <1>0, InsertLinks
<1> HIDE DEF r
<1>a. Len(r) = Len(s) + 1 /\ k \in Nat
  BY <1>0, <1>1 DEF BehindFirst
<1>b. \A j \in 1..Len(r) :
          /\ j <= k => j \in 1..Len(s) /\ r[j] = s[j]
          /\ j = k + 1 => r[j] = t
          /\ j > k + 1 => /\ j - 1 \in 1..Len(s) /\ j - 1 \in (k + 1)..Len(s)
                         /\ r[j] = s[j - 1]
  BY <1>0, <1>1, InsertParts
<1>3. \A j \in 1..Len(s) : Bucket(d[s[j]]) = i
  BY DEF ListOK
<1>4. \A j, l \in 1..Len(s) : j <= l => d[s[j]] <= d[s[l]]
  BY DEF ListOK
<1>5. \A j \in 1..Len(s) : s[j] \in Timer /\ d[s[j]] \in Int
  BY <1>0
<1>6. ASSUME NEW j \in 1..Len(r)
      PROVE  Bucket(d[r[j]]) = i
  <2>1. CASE j <= k
    <3>1. j \in 1..Len(s) /\ r[j] = s[j]
      BY <1>b, <2>1
    <3> QED BY <1>3, <3>1
  <2>2. CASE j = k + 1
    <3>1. r[j] = t
      BY <1>b, <2>2
    <3> QED BY <3>1
  <2>3. CASE j > k + 1
    <3>1. j - 1 \in 1..Len(s) /\ r[j] = s[j - 1]
      BY <1>b, <2>3
    <3> QED BY <1>3, <3>1
  <2> QED BY <1>a, <2>1, <2>2, <2>3
<1>7. \A j \in 1..k : d[s[j]] <= d[t]
  <2> SUFFICES ASSUME NEW j \in 1..k PROVE d[s[j]] <= d[t]
    OBVIOUS
  <2>1. k > 0 /\ j \in 1..Len(s) /\ k \in 1..Len(s) /\ j <= k
    BY <1>0
  <2>2. d[s[j]] <= d[s[k]] /\ d[s[k]] <= d[t]
    BY <1>4, <2>1 DEF DueBehind
  <2> QED BY <1>5, <2>1, <2>2
<1>8. ASSUME NEW j \in 1..Len(r), NEW l \in 1..Len(r), j <= l
      PROVE  d[r[j]] <= d[r[l]]
  <2>1. CASE l <= k
    <3>1. /\ j \in 1..Len(s) /\ r[j] = s[j] /\ l \in 1..Len(s) /\ r[l] = s[l]
      BY <1>8, <1>a, <1>b, <2>1
    <3> QED BY <1>4, <1>8, <3>1
  <2>2. CASE l = k + 1
    <3>1. r[l] = t
      BY <1>b, <2>2
    <3>2. CASE j = l
      BY <3>1, <3>2
    <3>3. CASE j <= k
      <4>1. j \in 1..k /\ r[j] = s[j]
        BY <1>b, <3>3
      <4> QED BY <1>7, <3>1, <4>1
    <3> QED BY <1>8, <1>a, <2>2, <3>2, <3>3
  <2>3. CASE l > k + 1
    <3>1. l - 1 \in 1..Len(s) /\ l - 1 \in (k + 1)..Len(s) /\ r[l] = s[l - 1]
      BY <1>b, <2>3
    <3>2. CASE j <= k
      <4>1. j \in 1..Len(s) /\ r[j] = s[j]
        BY <1>b, <3>2
      <4>2. j <= l - 1
        BY <1>a, <2>3, <3>2
      <4> QED BY <1>4, <3>1, <4>1, <4>2
    <3>3. CASE j = k + 1
      <4>1. r[j] = t /\ d[s[l - 1]] > d[t]
        BY <1>b, <3>1, <3>3 DEF DueBehind
      <4>2. d[s[l - 1]] \in Int
        BY <1>5, <3>1
      <4> QED BY <3>1, <4>1, <4>2
    <3>4. CASE j > k + 1
      <4>1. j - 1 \in 1..Len(s) /\ r[j] = s[j - 1]
        BY <1>b, <3>4
      <4>2. j - 1 <= l - 1
        BY <1>8, <1>a
      <4> QED BY <1>4, <3>1, <4>1, <4>2
    <3> QED BY <1>a, <3>2, <3>3, <3>4
  <2> QED BY <1>a, <2>1, <2>2, <2>3
<1>9. ListOK(i, r, d)
  BY <1>1, <1>2, <1>6, <1>8 DEF ListOK
<1> QED BY <1>2, <1>9 DEF r

(* What is left of a list when its first n timers are taken. *)
LEMMA CutOK ==
    ASSUME NEW i, NEW s, NEW d \in [Timer -> Int], ListOK(i, s, d), NEW n \in 0..Len(s)
    PROVE  /\ ListOK(i, SubSeq(s, n + 1, Len(s)), d)
           /\ n < Len(s) => \A t \in Range(SubSeq(s, n + 1, Len(s))) : d[s[n + 1]] <= d[t]
           /\ n >= Len(s) => Range(SubSeq(s, n + 1, Len(s))) = {}
<1> DEFINE r == SubSeq(s, n + 1, Len(s))
<1>0. s \in Seq(Timer) /\ IsInjective(s)
  BY DEF ListOK
<1>1. /\ r \in Seq(Timer) /\ Len(r) = Len(s) - n
      /\ \A j \in 1..(Len(s) - n) : r[j] = s[j + n]
      /\ Len(s) \in Nat /\ n \in Nat
  BY <1>0, CutShifts
<1>2. IsInjective(r)
  BY <1>0, CutLinks
<1> HIDE DEF r
<1>3. \A j \in 1..Len(s) : Bucket(d[s[j]]) = i
  BY DEF ListOK
<1>4. \A j, l \in 1..Len(s) : j <= l => d[s[j]] <= d[s[l]]
  BY DEF ListOK
<1>5. \A j \in 1..Len(r) : j + n \in 1..Len(s) /\ r[j] = s[j + n]
  BY <1>1
<1>6. \A j \in 1..Len(r) : Bucket(d[r[j]]) = i
  BY <1>3, <1>5
<1>7. \A j, l \in 1..Len(r) : j <= l => d[r[j]] <= d[r[l]]
  <2>1. ASSUME NEW j \in 1..Len(r), NEW l \in 1..Len(r), j <= l
        PROVE  d[r[j]] <= d[r[l]]
    <3>1. j + n <= l + n
      BY <1>1, <2>1
    <3> QED BY <1>4, <1>5, <3>1
  <2> QED BY <2>1
<1>8. ListOK(i, r, d)
  BY <1>1, <1>2, <1>6, <1>7 DEF ListOK
<1>9. ASSUME n < Len(s), NEW t \in Range(r)
      PROVE  d[s[n + 1]] <= d[t]
  <2>1. PICK j \in 1..Len(r) : r[j] = t
    BY <1>1, Position
  <2>2. n + 1 \in 1..Len(s) /\ n + 1 <= j + n
    BY <1>1, <1>9
  <2> QED BY <1>4, <1>5, <2>1, <2>2
<1>10. ASSUME n >= Len(s) PROVE Range(r) = {}
  <2>1. \A x : x \in Range(r) <=> \E j \in 1..Len(r) : r[j] = x
    BY <1>1, Position
  <2>2. 1..Len(r) = {}
    BY <1>1, <1>10
  <2> QED BY <2>1, <2>2
<1> QED BY <1>8, <1>9, <1>10 DEF r

-----------------------------------------------------------------------------
(* The types, in groups that change together.                              *)

ClockType ==
    tick \in 0..MaxTick /\ bias \in Int /\ dpcQueued \in BOOLEAN /\ dpcArg \in Nat
TimerType ==
    /\ inserted \in [Timer -> BOOLEAN] /\ signal \in [Timer -> {0, 1}]
    /\ absolute \in [Timer -> BOOLEAN] /\ due \in [Timer -> Int]
    /\ period \in [Timer -> Period \cup {0}] /\ dpc \in [Timer -> BOOLEAN]
    /\ asked \in [Timer -> Nat \cup {NoTime}]
InsertType ==
    /\ pc \in {"idle", "index", "link", "verify", "done", "failed"}
    /\ cur \in Timer \cup {NoTimer} /\ interval \in Nat
ScanType ==
    /\ exp \in {"idle", "time", "hand", "scan", "check", "list", "routines", "full",
                "collect", "absolute"}
    /\ curTime \in Nat /\ arg \in Nat /\ index \in Hand /\ handLimit \in Hand
ListType ==
    /\ table \in [Hand -> Seq(Timer)] /\ delta \in Int
    /\ absList \in Seq(Timer) /\ expired \in Seq(Timer) /\ dpcList \in Seq(Timer)

LEMMA TypeParts ==
    TypeOK <=> ClockType /\ TimerType /\ InsertType /\ ScanType /\ ListType
BY DEF TypeOK, ClockType, TimerType, InsertType, ScanType, ListType

LEMMA TypePartsNext ==
    TypeOK' <=> ClockType' /\ TimerType' /\ InsertType' /\ ScanType' /\ ListType'
BY DEF TypeOK, ClockType, TimerType, InsertType, ScanType, ListType

LEMMA ClockSame == ClockType /\ UNCHANGED clockVars => ClockType'
BY DEF ClockType, clockVars
LEMMA TimerSame == TimerType /\ UNCHANGED timerVars => TimerType'
BY DEF TimerType, timerVars
LEMMA InsertSame == InsertType /\ UNCHANGED insertVars => InsertType'
BY DEF InsertType, insertVars
LEMMA ScanSame == ScanType /\ UNCHANGED <<exp, scanVars>> => ScanType'
BY DEF ScanType, scanVars
LEMMA ListSame == ListType /\ UNCHANGED <<table, listVars>> => ListType'
BY DEF ListType, listVars

(* A clock is a natural number of ticks. *)
LEMMA ClockReads ==
    ASSUME ClockType
    PROVE  tick \in Nat /\ Now \in Nat /\ Now = tick * Increment /\ SystemTime \in Int
           /\ SystemTime = Now + bias /\ Increment \in Nat \ {0} /\ TableSize \in Nat \ {0}
<1>1. tick \in Nat /\ Increment \in Nat \ {0} /\ TableSize \in Nat \ {0} /\ bias \in Int
  BY KeTimerAssumption DEF ClockType
<1>2. tick * Increment \in Nat
  BY <1>1
<1> QED BY <1>1, <1>2 DEF Now, SystemTime

-----------------------------------------------------------------------------
(* KiInsertTreeTimer gives up at once or leaves the timer to be linked. *)
LEMMA Starting ==
    ASSUME ClockType, TimerType, InsertType,
           NEW t \in Timer, NEW isTime \in BOOLEAN, NEW time \in Nat, NEW sig \in {0, 1},
           StartInsert(t, isTime, time, sig)
    PROVE  /\ inserted' \in [Timer -> BOOLEAN] /\ signal' \in [Timer -> {0, 1}]
           /\ absolute' \in [Timer -> BOOLEAN]
           /\ InsertType' /\ cur' = t
           /\ pc' = "failed" \/ pc' = "index"
           /\ inserted'[t] <=> pc' = "index"
           /\ \A u \in Timer \ {t} : /\ inserted'[u] = inserted[u] /\ signal'[u] = signal[u]
                                     /\ absolute'[u] = absolute[u]
           /\ pc' = "failed" => isTime /\ SystemTime >= time /\ signal'[t] = 1
           /\ pc' = "index" => /\ absolute'[t] = isTime /\ signal'[t] = sig
                               /\ isTime => interval' + SystemTime = time
<1>1. SystemTime \in Int
  BY ClockReads
<1>2. /\ inserted \in [Timer -> BOOLEAN] /\ signal \in [Timer -> {0, 1}]
      /\ absolute \in [Timer -> BOOLEAN] /\ interval \in Nat
  BY DEF TimerType, InsertType
<1>3. cur' = t
  BY DEF StartInsert
<1>4. CASE /\ isTime /\ SystemTime >= time
           /\ signal' = [signal EXCEPT ![t] = 1]
           /\ inserted' = [inserted EXCEPT ![t] = FALSE]
           /\ absolute' = [absolute EXCEPT ![t] = FALSE]
           /\ pc' = "failed"
           /\ UNCHANGED interval
  <2>1. InsertType'
    BY <1>2, <1>3, <1>4 DEF InsertType
  <2> QED BY <1>2, <1>3, <1>4, <2>1
<1>5. CASE /\ isTime => SystemTime < time
           /\ signal' = [signal EXCEPT ![t] = sig]
           /\ inserted' = [inserted EXCEPT ![t] = TRUE]
           /\ absolute' = [absolute EXCEPT ![t] = isTime]
           /\ pc' = "index"
           /\ interval' = IF isTime THEN time - SystemTime ELSE time
  <2>1. interval' \in Nat /\ (isTime => interval' + SystemTime = time)
    BY <1>1, <1>5
  <2>2. InsertType'
    BY <1>3, <1>5, <2>1 DEF InsertType
  <2> QED BY <1>2, <1>3, <1>5, <2>1, <2>2
<1> QED BY <1>4, <1>5 DEF StartInsert

-----------------------------------------------------------------------------
(* The lists.  An inserted timer is on one of them unless KiInsertTreeTimer *)
(* is between marking and linking it.                                      *)

Between(t) == t = cur /\ pc \in {"index", "link"}

ListsOK ==
    /\ \A i \in Hand : ListOK(i, table[i], due)
    /\ IsInjective(expired) /\ IsInjective(absList)
Apart ==
    /\ InTable \cap Range(expired) = {}
    /\ InTable \cap Range(absList) = {}
    /\ Range(expired) \cap Range(absList) = {}
Linked == \A t \in Timer :
    t \in InTable \/ t \in Range(expired) \/ t \in Range(absList)
        <=> inserted[t] /\ ~Between(t)
Lists == ListsOK /\ Apart /\ Linked

LEMMA InTableHas ==
    ASSUME NEW t
    PROVE  t \in InTable <=> \E i \in Hand : t \in Range(table[i])
BY DEF InTable

LEMMA InTableHasNext ==
    ASSUME NEW t
    PROVE  t \in InTable' <=> \E i \in Hand : t \in Range(table'[i])
BY DEF InTable

LEMMA RangesAreTimers ==
    ASSUME ListType
    PROVE  /\ InTable \subseteq Timer /\ Range(expired) \subseteq Timer
           /\ Range(absList) \subseteq Timer
<1>1. \A i \in Hand : table[i] \in Seq(Timer)
  BY DEF ListType
<1>2. \A i \in Hand : Range(table[i]) \subseteq Timer
  BY <1>1, Position
<1>3. expired \in Seq(Timer) /\ absList \in Seq(Timer)
  BY DEF ListType
<1>4. Range(expired) \subseteq Timer /\ Range(absList) \subseteq Timer
  BY <1>3, Position
<1> QED BY <1>2, <1>4 DEF InTable

(* TableOK, with its parts named. *)
LEMMA TableParts ==
    ASSUME TypeOK, Lists PROVE TableOK
<1>1. ListType
  BY TypeParts
<1>2. \A i \in Hand : ListOK(i, table[i], due)
  BY DEF Lists, ListsOK
<1>3. \A i \in Hand : IsInjective(table[i])
  BY <1>2 DEF ListOK
<1>4. ASSUME NEW i \in Hand, NEW j \in DOMAIN table[i]
      PROVE  /\ Bucket(due[table[i][j]]) = i
             /\ \A k \in 1..j : due[table[i][k]] <= due[table[i][j]]
  <2>1. DOMAIN table[i] = 1..Len(table[i]) /\ Len(table[i]) \in Nat
    BY <1>1, Position DEF ListType
  <2>2. /\ Bucket(due[table[i][j]]) = i
        /\ \A k, l \in 1..Len(table[i]) : k <= l => due[table[i][k]] <= due[table[i][l]]
    BY <1>2, <2>1 DEF ListOK
  <2>3. ASSUME NEW k \in 1..j PROVE due[table[i][k]] <= due[table[i][j]]
    <3>1. k \in 1..Len(table[i]) /\ j \in 1..Len(table[i]) /\ k <= j
      BY <2>1
    <3> QED BY <2>2, <3>1
  <2> QED BY <2>2, <2>3
<1>5. InTable \cup Range(expired) \cup Range(absList)
         = {t \in Timer : inserted[t] /\ ~(t = cur /\ pc \in {"index", "link"})}
  BY <1>1, RangesAreTimers DEF Lists, Linked, Between
<1>6. /\ InTable \cap Range(expired) = {}
      /\ (InTable \cup Range(expired)) \cap Range(absList) = {}
  BY DEF Lists, Apart
<1> QED BY <1>3, <1>4, <1>5, <1>6 DEF TableOK, Lists, ListsOK

(* A timer of the table is in the list its due time hashes to. *)
LEMMA WhereInTable ==
    ASSUME Lists, NEW t \in InTable
    PROVE  /\ t \in Timer /\ Bucket(due[t]) \in Hand
           /\ \A i \in Hand : t \in Range(table[i]) <=> i = Bucket(due[t])
<1>1. \A i \in Hand : ListOK(i, table[i], due)
  BY DEF Lists, ListsOK
<1>2. \A i \in Hand : t \in Range(table[i]) => t \in Timer /\ Bucket(due[t]) = i
  BY <1>1, Hashes
<1>3. PICK i \in Hand : t \in Range(table[i])
  BY InTableHas
<1> QED BY <1>2, <1>3

-----------------------------------------------------------------------------
(* KiRemoveTreeTimer takes the timer off the table and the expired list.   *)
LEMMA RemovingTimer ==
    ASSUME ListType, TimerType, ListsOK, NEW t, RemoveTreeTimer(t)
    PROVE  /\ table' \in [Hand -> Seq(Timer)] /\ expired' \in Seq(Timer)
           /\ \A i \in Hand : ListOK(i, table'[i], due)
           /\ IsInjective(expired')
           /\ InTable' = InTable \ {t} /\ Range(expired') = Range(expired) \ {t}
<1>1. due \in [Timer -> Int]
  BY DEF TimerType
<1>2. \A i \in Hand : ListOK(i, table[i], due)
  BY DEF ListsOK
<1>3. table' = [i \in Hand |-> Unlink(table[i], t)]
  BY DEF RemoveTreeTimer
<1>4. \A i \in Hand : /\ ListOK(i, table'[i], due)
                      /\ Range(table'[i]) = Range(table[i]) \ {t}
  BY <1>1, <1>2, <1>3, UnlinkOK
<1>5. table' \in [Hand -> Seq(Timer)]
  <2>1. \A i \in Hand : Unlink(table[i], t) \in Seq(Timer)
    BY <1>1, <1>2, UnlinkOK DEF ListOK
  <2> QED BY <1>3, <2>1, Zenon
<1>6. InTable' = InTable \ {t}
  BY <1>4 DEF InTable
<1>7. expired \in Seq(Timer) /\ IsInjective(expired) /\ expired' = Unlink(expired, t)
  BY DEF ListType, ListsOK, RemoveTreeTimer
<1>8. /\ expired' \in Seq(Timer) /\ IsInjective(expired')
      /\ Range(expired') = Range(expired) \ {t}
  BY <1>7, UnlinkProperties
<1> QED BY <1>4, <1>5, <1>6, <1>8

(* One list is replaced by another. *)
LEMMA OneList ==
    ASSUME ListType, Lists, NEW b \in Hand, NEW s, ListOK(b, s, due),
           table' = [table EXCEPT ![b] = s]
    PROVE  /\ table' \in [Hand -> Seq(Timer)]
           /\ \A i \in Hand : ListOK(i, table'[i], due)
           /\ \A t : t \in InTable' <=> t \in Range(s) \/ (t \in InTable /\ t \notin Range(table[b]))
<1>1. table \in [Hand -> Seq(Timer)] /\ s \in Seq(Timer)
  BY DEF ListType, ListOK
<1>2. \A i \in Hand : table'[i] = IF i = b THEN s ELSE table[i]
  BY <1>1
<1>3. table' \in [Hand -> Seq(Timer)]
  BY <1>1
<1>4. \A i \in Hand : ListOK(i, table'[i], due)
  BY <1>2 DEF Lists, ListsOK
<1>5. ASSUME NEW t, t \in InTable'
      PROVE  t \in Range(s) \/ (t \in InTable /\ t \notin Range(table[b]))
  <2>1. PICK i \in Hand : t \in Range(table'[i])
    BY <1>5, InTableHasNext
  <2>2. CASE i = b
    BY <1>2, <2>1, <2>2
  <2>3. CASE i # b
    <3>1. t \in Range(table[i])
      BY <1>2, <2>1, <2>3
    <3>2. t \in InTable
      BY <3>1, InTableHas
    <3> QED BY <2>3, <3>1, <3>2, WhereInTable
  <2> QED BY <2>2, <2>3
<1>6. ASSUME NEW t, t \in Range(s) PROVE t \in InTable'
  BY <1>2, <1>6, InTableHasNext
<1>7. ASSUME NEW t, t \in InTable, t \notin Range(table[b]) PROVE t \in InTable'
  <2>1. PICK i \in Hand : t \in Range(table[i])
    BY <1>7, InTableHas
  <2>2. i # b
    BY <1>7, <2>1
  <2>3. t \in Range(table'[i])
    BY <1>2, <2>1, <2>2
  <2> QED BY <2>3, InTableHasNext
<1> QED BY <1>3, <1>4, <1>5, <1>6, <1>7

-----------------------------------------------------------------------------
(* Where the insertion of a timer and the expiration can be together: the  *)
(* insertion runs inside a call, KiTimerListExpire or KeSetSystemTime,     *)
(* never while the table is scanned; the timer it is about is marked until *)
(* it has failed; and a list is empty when nobody can have put timers on   *)
(* it.  With the types and the lists this is inductive.                    *)
Phases ==
    /\ pc = "idle" <=> cur = NoTimer
    /\ pc # "idle" => exp \in {"idle", "routines", "full", "list", "absolute"}
    /\ pc \in {"index", "link", "verify", "done"} => inserted[cur]
    /\ pc \in {"verify", "done"} => cur \in InTable
    /\ pc = "failed" => ~inserted[cur] /\ signal[cur] = 1
    /\ exp \notin {"scan", "check", "list", "full", "absolute"} => expired = <<>>
    /\ exp \notin {"collect", "absolute"} => absList = <<>>

Struct == TypeOK /\ Lists /\ Phases

LEMMA CurrentTimer ==
    ASSUME InsertType, Phases
    PROVE  pc # "idle" => cur \in Timer
BY DEF InsertType, Phases

(* Steps that leave the lists alone. *)
LEMMA QuietLists ==
    ASSUME Lists, UNCHANGED <<table, expired, absList, inserted, due, pc, cur>>
    PROVE  Lists' /\ InTable' = InTable
<1>1. InTable' = InTable
  BY DEF InTable
<1>2. ListsOK'
  BY DEF Lists, ListsOK
<1>3. Apart'
  BY <1>1 DEF Lists, Apart
<1>4. Linked'
  BY <1>1 DEF Lists, Linked, Between
<1> QED BY <1>1, <1>2, <1>3, <1>4 DEF Lists

LEMMA TickStruct == Struct /\ Tick => Struct'
<1> SUFFICES ASSUME Struct, Tick PROVE Struct'
  OBVIOUS
<1>0. ClockType /\ TimerType /\ InsertType /\ ScanType /\ ListType /\ Lists /\ Phases
  BY TypeParts DEF Struct
<1>1. /\ tick < MaxTick /\ tick' = tick + 1
      /\ dpcQueued' \in BOOLEAN /\ (dpcArg' = tick \/ dpcArg' = dpcArg)
      /\ UNCHANGED <<bias, table, timerVars, insertVars, exp, scanVars, listVars>>
  BY <1>0 DEF Tick, ClockType
<1>2. ClockType'
  BY <1>0, <1>1, KeTimerAssumption DEF ClockType
<1>3. TimerType' /\ InsertType' /\ ScanType' /\ ListType'
  BY <1>0, <1>1, TimerSame, InsertSame, ScanSame, ListSame
<1>4. Lists' /\ InTable' = InTable
  BY <1>0, <1>1, QuietLists DEF timerVars, insertVars, listVars
<1>5. Phases'
  BY <1>0, <1>1, <1>4 DEF Phases, timerVars, insertVars, listVars
<1> QED BY <1>2, <1>3, <1>4, <1>5, TypePartsNext DEF Struct

LEMMA IndexStruct == Struct /\ ComputeIndex => Struct'
<1> SUFFICES ASSUME Struct, ComputeIndex PROVE Struct'
  OBVIOUS
<1>0. ClockType /\ TimerType /\ InsertType /\ ScanType /\ ListType /\ Lists /\ Phases
  BY TypeParts DEF Struct
<1>1. /\ pc = "index" /\ pc' = "link"
      /\ due' = [due EXCEPT ![cur] = Now + interval]
      /\ UNCHANGED <<clockVars, table, inserted, signal, absolute, period, dpc, asked,
                     cur, interval, exp, scanVars, listVars>>
  BY DEF ComputeIndex
<1>2. Now + interval \in Int
  BY <1>0, ClockReads DEF InsertType
<1>3. cur \in Timer
  BY <1>0, <1>1, CurrentTimer
<1>4. TimerType'
  BY <1>0, <1>1, <1>2 DEF TimerType
<1>5. ClockType' /\ ScanType' /\ ListType'
  BY <1>0, <1>1, ClockSame, ScanSame, ListSame
<1>6. InsertType'
  BY <1>0, <1>1 DEF InsertType
<1>7. cur \notin InTable /\ \A u \in Timer \ {cur} : due'[u] = due[u]
  BY <1>0, <1>1, <1>3 DEF Lists, Linked, Between, TimerType
<1>8. InTable' = InTable
  BY <1>1 DEF InTable
<1>9. ListsOK'
  <2>1. ASSUME NEW i \in Hand PROVE ListOK(i, table[i], due')
    <3>1. ListOK(i, table[i], due)
      BY <1>0 DEF Lists, ListsOK
    <3>2. \A u \in Range(table[i]) : u \in Timer \ {cur}
      BY <1>7, <3>1, Hashes, InTableHas
    <3>3. \A u \in Range(table[i]) : due'[u] = due[u]
      BY <1>7, <3>2
    <3> QED BY <3>1, <3>3, SameDue
  <2> QED BY <1>0, <1>1, <2>1 DEF Lists, ListsOK, listVars
<1>10. Apart'
  BY <1>0, <1>1, <1>8 DEF Lists, Apart, listVars
<1>11. Linked'
  BY <1>0, <1>1, <1>8 DEF Lists, Linked, Between, listVars
<1>12. Phases'
  BY <1>0, <1>1, <1>8 DEF Phases, listVars
<1> QED BY <1>4, <1>5, <1>6, <1>9, <1>10, <1>11, <1>12, TypePartsNext DEF Struct, Lists

LEMMA LinkStruct ==
    ASSUME Struct, Link
    PROVE  /\ Struct' /\ InTable' = InTable \cup {cur} /\ cur \in Timer
           /\ pc' = "verify" \/ (pc' = "done" /\ \E u \in InTable : u # cur /\ due[u] <= due[cur])
<1>0. ClockType /\ TimerType /\ InsertType /\ ScanType /\ ListType /\ Lists /\ Phases
  BY TypeParts DEF Struct
<1>1. pc = "link" /\ UNCHANGED <<clockVars, timerVars, cur, interval, exp, scanVars, listVars>>
  BY DEF Link
<1> DEFINE b == Bucket(due[cur])
<1>2. cur \in Timer /\ due \in [Timer -> Int]
  BY <1>0, <1>1, CurrentTimer DEF TimerType
<1>3. b \in Hand
  <2>1. due[cur] \in Int /\ Increment \in Nat \ {0} /\ TableSize \in Nat \ {0}
    BY <1>2, KeTimerAssumption
  <2>2. due[cur] \div Increment \in Int
    BY <2>1, Divides
  <2> QED BY <2>1, <2>2, Divides DEF Bucket, Hand
<1>4. PICK k \in 0..Len(table[b]) :
          /\ GoesBehind(table[b], k)
          /\ table' = [table EXCEPT ![b] = InsertAt(@, k + 1, cur)]
          /\ pc' = IF k = 0 THEN "verify" ELSE "done"
  BY DEF Link
<1>5. Bucket(due[cur]) = b
  OBVIOUS
<1> HIDE DEF b
<1>6. ListOK(b, table[b], due) /\ table[b] \in Seq(Timer)
  BY <1>0, <1>3 DEF Lists, ListsOK, ListOK
<1>7. /\ cur \notin InTable /\ cur \notin Range(expired) /\ cur \notin Range(absList)
      /\ inserted[cur]
  BY <1>0, <1>1, <1>2 DEF Lists, Linked, Between, Phases
<1>8. cur \notin Range(table[b])
  BY <1>3, <1>7, InTableHas
<1>9. DueBehind(table[b], k, cur, due)
  BY <1>4 DEF GoesBehind, DueBehind
<1> DEFINE s == InsertAt(table[b], k + 1, cur)
<1>10. ListOK(b, s, due) /\ Range(s) = Range(table[b]) \cup {cur}
  BY <1>2, <1>5, <1>6, <1>8, <1>9, InsertOK
<1>11. table' = [table EXCEPT ![b] = s]
  BY <1>4
<1> HIDE DEF s
<1>12. /\ table' \in [Hand -> Seq(Timer)]
       /\ \A i \in Hand : ListOK(i, table'[i], due)
       /\ \A t : t \in InTable' <=> t \in Range(s) \/ (t \in InTable /\ t \notin Range(table[b]))
  BY <1>0, <1>3, <1>10, <1>11, OneList
<1>13. InTable' = InTable \cup {cur}
  <2>1. \A t : t \in Range(table[b]) => t \in InTable
    BY <1>3, InTableHas
  <2> QED BY <1>10, <1>12, <2>1
<1>14. ListsOK'
  BY <1>0, <1>1, <1>12 DEF Lists, ListsOK, listVars, timerVars
<1>15. Apart'
  BY <1>0, <1>1, <1>7, <1>13 DEF Lists, Apart, listVars
<1>16. Linked'
  BY <1>0, <1>1, <1>4, <1>7, <1>13 DEF Lists, Linked, Between, listVars, timerVars
<1>17. Phases'
  BY <1>0, <1>1, <1>4, <1>7, <1>13 DEF Phases, listVars, timerVars
<1>18. ClockType' /\ TimerType' /\ ScanType'
  BY <1>0, <1>1, ClockSame, TimerSame, ScanSame
<1>19. InsertType' /\ ListType'
  BY <1>0, <1>1, <1>4, <1>12 DEF InsertType, ListType, listVars
<1>20. Struct'
  BY <1>14, <1>15, <1>16, <1>17, <1>18, <1>19, TypePartsNext DEF Struct, Lists
<1>21. ASSUME k # 0
       PROVE  \E u \in InTable : u # cur /\ due[u] <= due[cur]
  <2>1. k \in 1..Len(table[b]) /\ k > 0
    BY <1>6, <1>21
  <2>2. table[b][k] \in Range(table[b])
    BY <1>6, <2>1, Position
  <2>3. table[b][k] \in InTable /\ table[b][k] # cur
    BY <1>3, <1>7, <2>2, InTableHas
  <2> QED BY <1>9, <2>1, <2>3 DEF DueBehind
<1> QED BY <1>2, <1>4, <1>13, <1>20, <1>21

LEMMA VerifyStruct ==
    ASSUME Struct, Verify
    PROVE  Struct' /\ InTable' \subseteq InTable
<1>0. ClockType /\ TimerType /\ InsertType /\ ScanType /\ ListType /\ Lists /\ Phases
  BY TypeParts DEF Struct
<1>1. /\ pc = "verify"
      /\ UNCHANGED <<clockVars, absolute, due, period, dpc, asked, cur, interval,
                     exp, scanVars, delta, absList, dpcList>>
  BY DEF Verify
<1>2. cur \in Timer /\ inserted[cur] /\ cur \in InTable
  BY <1>0, <1>1, CurrentTimer DEF Phases
<1>3. ClockType' /\ ScanType'
  BY <1>0, <1>1, ClockSame, ScanSame
<1>4. CASE pc' = "done" /\ UNCHANGED <<table, expired, inserted, signal>>
  <2>1. TimerType' /\ InsertType' /\ ListType'
    BY <1>0, <1>1, <1>4 DEF TimerType, InsertType, ListType
  <2>2. InTable' = InTable
    BY <1>4 DEF InTable
  <2>3. ListsOK' /\ Apart'
    BY <1>0, <1>1, <1>4, <2>2 DEF Lists, ListsOK, Apart
  <2>4. Linked'
    BY <1>0, <1>1, <1>4, <2>2 DEF Lists, Linked, Between
  <2>5. Phases'
    BY <1>0, <1>1, <1>4, <2>2 DEF Phases
  <2> QED BY <1>3, <2>1, <2>2, <2>3, <2>4, <2>5, TypePartsNext DEF Struct, Lists
<1>5. CASE /\ RemoveTreeTimer(cur)
           /\ inserted' = [inserted EXCEPT ![cur] = FALSE]
           /\ signal' = [signal EXCEPT ![cur] = 1]
           /\ pc' = "failed"
  <2>1. /\ table' \in [Hand -> Seq(Timer)] /\ expired' \in Seq(Timer)
        /\ \A i \in Hand : ListOK(i, table'[i], due)
        /\ IsInjective(expired')
        /\ InTable' = InTable \ {cur} /\ Range(expired') = Range(expired) \ {cur}
    BY <1>0, <1>5, RemovingTimer DEF Lists
  <2>2. TimerType'
    BY <1>0, <1>1, <1>2, <1>5 DEF TimerType
  <2>3. InsertType' /\ ListType'
    BY <1>0, <1>1, <1>5, <2>1 DEF InsertType, ListType
  <2>4. ListsOK' /\ Apart'
    BY <1>0, <1>1, <2>1 DEF Lists, ListsOK, Apart
  <2>5. inserted' \in [Timer -> BOOLEAN] /\ \A u \in Timer : inserted'[u] <=> inserted[u] /\ u # cur
    BY <1>0, <1>2, <1>5 DEF TimerType
  <2>6. cur \notin Range(absList)
    BY <1>0, <1>2 DEF Lists, Apart
  <2>7. Linked'
    BY <1>0, <1>1, <1>5, <2>1, <2>5, <2>6 DEF Lists, Linked, Between
  <2>8. signal'[cur] = 1 /\ ~inserted'[cur]
    BY <1>0, <1>2, <1>5, <2>5 DEF TimerType
  <2>9. expired = <<>> => expired' = <<>>
    BY <1>5 DEF RemoveTreeTimer, Unlink, Range
  <2>10. Phases'
    BY <1>0, <1>1, <1>2, <1>5, <2>8, <2>9 DEF Phases
  <2> QED BY <1>3, <2>1, <2>2, <2>3, <2>4, <2>7, <2>10, TypePartsNext DEF Struct, Lists
<1> QED BY <1>4, <1>5 DEF Verify

LEMMA AgainStruct ==
    ASSUME Struct, InsertAgain
    PROVE  Struct' /\ InTable' = InTable
<1>0. ClockType /\ TimerType /\ InsertType /\ ScanType /\ ListType /\ Lists /\ Phases
  BY TypeParts DEF Struct
<1>1. /\ pc = "failed" /\ exp # "absolute" /\ period[cur] # 0
      /\ StartInsert(cur, FALSE, period[cur], 1)
      /\ asked' = [asked EXCEPT ![cur] = NoTime]
      /\ UNCHANGED <<clockVars, table, due, period, dpc, exp, scanVars, listVars>>
  BY DEF InsertAgain
<1>2. cur \in Timer /\ ~inserted[cur]
  BY <1>0, <1>1, CurrentTimer DEF Phases
<1>3. period[cur] \in Nat
  <2>1. period[cur] \in Period \cup {0}
    BY <1>0, <1>2 DEF TimerType
  <2>2. \A p \in Period : p \in Nat
    BY KeTimerAssumption
  <2>3. 0 \in Nat
    OBVIOUS
  <2> QED BY <2>1, <2>2, <2>3, Zenon
<1>4. /\ inserted' \in [Timer -> BOOLEAN] /\ signal' \in [Timer -> {0, 1}]
      /\ absolute' \in [Timer -> BOOLEAN]
      /\ InsertType' /\ cur' = cur /\ pc' = "index"
      /\ inserted'[cur]
      /\ \A u \in Timer \ {cur} : inserted'[u] = inserted[u]
  BY <1>0, <1>1, <1>2, <1>3, Starting
<1>5. TimerType'
  BY <1>0, <1>1, <1>2, <1>4 DEF TimerType
<1>6. ClockType' /\ ScanType' /\ ListType'
  BY <1>0, <1>1, ClockSame, ScanSame, ListSame
<1>7. InTable' = InTable
  BY <1>1 DEF InTable
<1>8. ListsOK' /\ Apart'
  BY <1>0, <1>1, <1>7 DEF Lists, ListsOK, Apart, listVars
<1>9. Linked'
  BY <1>0, <1>1, <1>2, <1>4, <1>7 DEF Lists, Linked, Between, listVars
<1>10. Phases'
  BY <1>0, <1>1, <1>4 DEF Phases, listVars
<1> QED BY <1>4, <1>5, <1>6, <1>7, <1>8, <1>9, <1>10, TypePartsNext DEF Struct, Lists

LEMMA InsertedStruct ==
    ASSUME Struct, Inserted
    PROVE  Struct' /\ InTable' = InTable
<1>0. ClockType /\ TimerType /\ InsertType /\ ScanType /\ ListType /\ Lists /\ Phases
  BY TypeParts DEF Struct
<1>1. /\ pc \in {"done", "failed"} /\ pc' = "idle" /\ cur' = NoTimer /\ interval' = 0
      /\ UNCHANGED <<clockVars, table, signal, absolute, due, period, dpc, asked,
                     exp, scanVars, delta, absList, dpcList>>
  BY DEF Inserted, Finish
<1>2. cur \in Timer
  BY <1>0, <1>1, CurrentTimer
<1>3. ClockType' /\ ScanType' /\ InsertType'
  BY <1>0, <1>1, ClockSame, ScanSame DEF InsertType
<1>4. InTable' = InTable
  BY <1>1 DEF InTable
<1>5. CASE UNCHANGED <<inserted, expired>>
  <2>1. TimerType' /\ ListType'
    BY <1>0, <1>1, <1>5 DEF TimerType, ListType
  <2>2. ListsOK' /\ Apart'
    BY <1>0, <1>1, <1>4, <1>5 DEF Lists, ListsOK, Apart
  <2>3. Linked'
    BY <1>0, <1>1, <1>4, <1>5, KeTimerAssumption DEF Lists, Linked, Between
  <2>4. Phases'
    BY <1>0, <1>1, <1>5 DEF Phases
  <2> QED BY <1>3, <1>4, <2>1, <2>2, <2>3, <2>4, TypePartsNext DEF Struct, Lists
<1>6. CASE /\ pc = "failed" /\ exp = "absolute"
           /\ inserted' = [inserted EXCEPT ![cur] = TRUE]
           /\ expired' = Append(expired, cur)
  <2>1. /\ cur \notin InTable /\ cur \notin Range(expired) /\ cur \notin Range(absList)
    BY <1>0, <1>2, <1>6 DEF Lists, Linked, Phases
  <2>2. expired \in Seq(Timer) /\ IsInjective(expired)
    BY <1>0 DEF ListType, Lists, ListsOK
  <2>3. /\ expired' \in Seq(Timer) /\ IsInjective(expired')
        /\ Range(expired') = Range(expired) \cup {cur}
    BY <1>2, <1>6, <2>1, <2>2, AppendLinks
  <2>4. TimerType' /\ ListType'
    BY <1>0, <1>1, <1>2, <1>6, <2>3 DEF TimerType, ListType
  <2>5. ListsOK' /\ Apart'
    BY <1>0, <1>1, <1>4, <2>1, <2>3 DEF Lists, ListsOK, Apart
  <2>6. inserted'[cur] /\ \A u \in Timer \ {cur} : inserted'[u] = inserted[u]
    BY <1>0, <1>2, <1>6 DEF TimerType
  <2>7. Linked'
    BY <1>0, <1>1, <1>2, <1>4, <1>6, <2>1, <2>3, <2>6 DEF Lists, Linked, Between
  <2>8. Phases'
    BY <1>0, <1>1, <1>6 DEF Phases
  <2> QED BY <1>3, <1>4, <2>4, <2>5, <2>7, <2>8, TypePartsNext DEF Struct, Lists
<1> QED BY <1>5, <1>6 DEF Inserted

LEMMA SetStruct ==
    ASSUME Struct, NEW t \in Timer, NEW isTime \in BOOLEAN, NEW time \in Nat,
           NEW p \in Period, NEW d \in HasDpc, KeSetTimerEx(t, isTime, time, p, d)
    PROVE  Struct' /\ InTable' \subseteq InTable
<1>0. ClockType /\ TimerType /\ InsertType /\ ScanType /\ ListType /\ Lists /\ Phases
  BY TypeParts DEF Struct
<1>1. /\ pc = "idle" /\ exp \in {"idle", "routines", "full"}
      /\ RemoveTreeTimer(t)
      /\ period' = [period EXCEPT ![t] = p]
      /\ dpc' = [dpc EXCEPT ![t] = d]
      /\ asked' = [asked EXCEPT ![t] = IF isTime THEN time ELSE NoTime]
      /\ StartInsert(t, isTime, time, 0)
      /\ UNCHANGED <<clockVars, due, exp, scanVars, delta, absList, dpcList>>
  BY DEF KeSetTimerEx, CanCall
<1>2. /\ inserted' \in [Timer -> BOOLEAN] /\ signal' \in [Timer -> {0, 1}]
      /\ absolute' \in [Timer -> BOOLEAN]
      /\ InsertType' /\ cur' = t
      /\ pc' = "failed" \/ pc' = "index"
      /\ inserted'[t] <=> pc' = "index"
      /\ \A u \in Timer \ {t} : inserted'[u] = inserted[u]
      /\ pc' = "failed" => signal'[t] = 1
  BY <1>0, <1>1, Starting
<1>3. d \in BOOLEAN /\ p \in Period \cup {0}
  BY KeTimerAssumption
<1>4. TimerType'
  BY <1>0, <1>1, <1>2, <1>3 DEF TimerType
<1>5. /\ table' \in [Hand -> Seq(Timer)] /\ expired' \in Seq(Timer)
      /\ \A i \in Hand : ListOK(i, table'[i], due)
      /\ IsInjective(expired')
      /\ InTable' = InTable \ {t} /\ Range(expired') = Range(expired) \ {t}
  BY <1>0, <1>1, RemovingTimer DEF Lists
<1>6. ClockType' /\ ScanType' /\ ListType'
  BY <1>0, <1>1, <1>5, ClockSame, ScanSame DEF ListType
<1>7. absList = <<>> /\ Range(absList) = {}
  BY <1>0, <1>1 DEF Phases, Range
<1>8. ListsOK' /\ Apart'
  BY <1>0, <1>1, <1>5 DEF Lists, ListsOK, Apart
<1>9. Linked'
  BY <1>0, <1>1, <1>2, <1>5, <1>7 DEF Lists, Linked, Between
<1>10. expired = <<>> => expired' = <<>>
  BY <1>1 DEF RemoveTreeTimer, Unlink, Range
<1>11. Phases'
  BY <1>0, <1>1, <1>2, <1>10, KeTimerAssumption DEF Phases
<1> QED BY <1>2, <1>4, <1>5, <1>6, <1>8, <1>9, <1>11, TypePartsNext DEF Struct, Lists

LEMMA CancelStruct ==
    ASSUME Struct, NEW t \in Timer, KeCancelTimer(t)
    PROVE  Struct' /\ InTable' \subseteq InTable
<1>0. ClockType /\ TimerType /\ InsertType /\ ScanType /\ ListType /\ Lists /\ Phases
  BY TypeParts DEF Struct
<1>1. /\ pc = "idle" /\ exp \in {"idle", "routines", "full"}
      /\ RemoveTreeTimer(t)
      /\ inserted' = [inserted EXCEPT ![t] = FALSE]
      /\ UNCHANGED <<clockVars, signal, absolute, due, period, dpc, asked, insertVars,
                     exp, scanVars, delta, absList, dpcList>>
  BY DEF KeCancelTimer, CanCall
<1>2. /\ table' \in [Hand -> Seq(Timer)] /\ expired' \in Seq(Timer)
      /\ \A i \in Hand : ListOK(i, table'[i], due)
      /\ IsInjective(expired')
      /\ InTable' = InTable \ {t} /\ Range(expired') = Range(expired) \ {t}
  BY <1>0, <1>1, RemovingTimer DEF Lists
<1>3. TimerType' /\ \A u \in Timer : inserted'[u] <=> inserted[u] /\ u # t
  BY <1>0, <1>1 DEF TimerType
<1>4. ClockType' /\ ScanType' /\ InsertType' /\ ListType'
  BY <1>0, <1>1, <1>2, ClockSame, ScanSame, InsertSame DEF ListType
<1>5. absList = <<>> /\ Range(absList) = {}
  BY <1>0, <1>1 DEF Phases, Range
<1>6. ListsOK' /\ Apart'
  BY <1>0, <1>1, <1>2 DEF Lists, ListsOK, Apart
<1>7. Linked'
  BY <1>0, <1>1, <1>2, <1>3, <1>5 DEF Lists, Linked, Between, insertVars
<1>8. expired = <<>> => expired' = <<>>
  BY <1>1 DEF RemoveTreeTimer, Unlink, Range
<1>9. Phases'
  BY <1>0, <1>1, <1>8 DEF Phases, insertVars
<1> QED BY <1>2, <1>3, <1>4, <1>6, <1>7, <1>9, TypePartsNext DEF Struct, Lists

(* The steps of the expiration and of KeSetSystemTime that only move on.   *)
LEMMA QuietStruct ==
    ASSUME Struct, Dequeue \/ ReadTime \/ ReadHand \/ CheckTable \/ RunDpcs \/ DpcRoutine
                   \/ ReinsertOver \/ UNCHANGED vars
    PROVE  Struct' /\ InTable' = InTable
<1>0. ClockType /\ TimerType /\ InsertType /\ ScanType /\ ListType /\ Lists /\ Phases
  BY TypeParts DEF Struct
<1>1. UNCHANGED <<tick, bias, table, timerVars, insertVars, expired, absList>>
  BY DEF Dequeue, ReadTime, ReadHand, CheckTable, RunDpcs, DpcRoutine,
         ReinsertOver, clockVars, listVars, vars
<1>2. TimerType' /\ InsertType'
  BY <1>0, <1>1, TimerSame, InsertSame
<1>3. Lists' /\ InTable' = InTable
  BY <1>0, <1>1, QuietLists DEF timerVars, insertVars
<1>4. ClockType'
  BY <1>0 DEF ClockType, Dequeue, ReadTime, ReadHand, CheckTable, RunDpcs, DpcRoutine,
         ReinsertOver, clockVars, vars
<1>5. ListType'
  <2>1. dpcList' \in Seq(Timer) /\ delta' \in Int
    <3>1. CASE DpcRoutine
      <4>1. dpcList' = Tail(dpcList) /\ dpcList # <<>> /\ dpcList \in Seq(Timer)
        BY <1>0, <3>1 DEF DpcRoutine, ListType
      <4>2. Tail(dpcList) \in Seq(Timer)
        BY <4>1
      <4> QED BY <1>0, <3>1, <4>1, <4>2 DEF DpcRoutine, ListType
    <3>2. CASE ~DpcRoutine
      BY <1>0, <3>2 DEF ListType, Dequeue, ReadTime, ReadHand, CheckTable, RunDpcs,
         ReinsertOver, listVars, vars
    <3> QED BY <3>1, <3>2
  <2> QED BY <1>0, <1>1, <2>1 DEF ListType
<1>6. ScanType'
  <2>1. CASE ReadHand
    <3>1. TableSize \in Nat \ {0} /\ tick \in Nat /\ arg \in Nat
      BY <1>0, ClockReads DEF ScanType
    <3>2. arg + TableSize - 1 \in Int /\ TableSize - 1 \in Hand
      BY <3>1 DEF Hand
    <3>3. (arg + TableSize - 1) % TableSize \in Hand /\ tick % TableSize \in Hand
      BY <3>1, <3>2, Divides DEF Hand
    <3>4. index' \in Hand /\ handLimit' \in Hand
      BY <2>1, <3>2, <3>3 DEF ReadHand
    <3> QED BY <1>0, <2>1, <3>4 DEF ReadHand, ScanType
  <2>2. CASE ReadTime
    BY <1>0, <2>2, ClockReads DEF ReadTime, ScanType
  <2>3. CASE CheckTable
    <3>1. 0 \in Hand
      BY KeTimerAssumption DEF Hand
    <3> QED BY <1>0, <2>3, <3>1 DEF CheckTable, ScanType
  <2>4. CASE Dequeue
    BY <1>0, <2>4 DEF Dequeue, ScanType, ClockType
  <2>5. CASE RunDpcs \/ DpcRoutine \/ ReinsertOver \/ UNCHANGED vars
    BY <1>0, <2>5 DEF RunDpcs, DpcRoutine, ReinsertOver, vars, scanVars, ScanType
  <2> QED BY <2>1, <2>2, <2>3, <2>4, <2>5
<1>7. Phases'
  <2>1. /\ pc' = "idle" <=> cur' = NoTimer
        /\ pc' \in {"index", "link", "verify", "done"} => inserted'[cur']
        /\ pc' \in {"verify", "done"} => cur' \in InTable'
        /\ pc' = "failed" => ~inserted'[cur'] /\ signal'[cur'] = 1
    BY <1>0, <1>1, <1>3 DEF Phases, timerVars, insertVars
  <2>2. CASE Dequeue \/ ReadTime \/ ReadHand \/ CheckTable
    BY <1>0, <1>1, <2>1, <2>2 DEF Phases, insertVars, Dequeue, ReadTime, ReadHand, CheckTable
  <2>3. CASE RunDpcs
    <3>1. exp = "list" /\ pc = "idle" /\ ListOver /\ exp' \in {"idle", "routines", "full"}
          /\ (exp' # "full" => Len(dpcList) # DpcListSize \/ dpcList = <<>>)
      BY <2>3 DEF RunDpcs
    <3>2. Len(<<>>) # DpcListSize
      BY KeTimerAssumption
    <3>3. exp' # "full" => expired = <<>>
      BY <3>1, <3>2 DEF ListOver
    <3> QED BY <1>0, <1>1, <2>1, <3>1, <3>3 DEF Phases, insertVars
  <2>4. CASE DpcRoutine
    BY <1>0, <1>1, <2>1, <2>4 DEF Phases, insertVars, DpcRoutine
  <2>5. CASE ReinsertOver
    BY <1>0, <1>1, <2>1, <2>5 DEF Phases, insertVars, ReinsertOver
  <2>6. CASE UNCHANGED vars
    BY <1>0, <1>1, <2>1, <2>6 DEF Phases, insertVars, vars
  <2> QED BY <2>2, <2>3, <2>4, <2>5, <2>6
<1> QED BY <1>2, <1>3, <1>4, <1>5, <1>6, <1>7, TypePartsNext DEF Struct

LEMMA SetSystemTimeStruct ==
    ASSUME Struct, NEW time \in Nat, KeSetSystemTime(time)
    PROVE  Struct' /\ InTable' = InTable
<1>0. ClockType /\ TimerType /\ InsertType /\ ScanType /\ ListType /\ Lists /\ Phases
  BY TypeParts DEF Struct
<1>1. /\ pc = "idle" /\ exp = "idle" /\ exp' = "collect"
      /\ bias' = bias + time - SystemTime
      /\ delta' = time - SystemTime
      /\ UNCHANGED <<tick, dpcQueued, dpcArg, table, timerVars, insertVars, scanVars,
                     absList, expired, dpcList>>
  BY DEF KeSetSystemTime
<1>2. SystemTime \in Int
  BY <1>0, ClockReads
<1>3. ClockType' /\ ScanType' /\ ListType'
  BY <1>0, <1>1, <1>2 DEF ClockType, ScanType, ListType, scanVars
<1>4. TimerType' /\ InsertType'
  BY <1>0, <1>1, TimerSame, InsertSame
<1>5. Lists' /\ InTable' = InTable
  BY <1>0, <1>1, QuietLists DEF timerVars, insertVars
<1>6. Phases'
  BY <1>0, <1>1, <1>5 DEF Phases, timerVars, insertVars
<1> QED BY <1>3, <1>4, <1>5, <1>6, TypePartsNext DEF Struct

(* One list of the table is scanned. *)
LEMMA ScanStruct ==
    ASSUME Struct, Scan
    PROVE  /\ Struct'
           /\ index' = (index + 1) % TableSize
           /\ InTable' \subseteq InTable
           /\ \A t \in InTable' : due[t] > curTime \/ Bucket(due[t]) # index'
           /\ \A t \in Range(expired') : t \in Range(expired) \/ (t \in InTable /\ due[t] <= curTime)
<1>0. ClockType /\ TimerType /\ InsertType /\ ScanType /\ ListType /\ Lists /\ Phases
  BY TypeParts DEF Struct
<1> DEFINE i == (index + 1) % TableSize
<1>1. /\ exp = "scan" /\ index' = i
      /\ exp' = IF i = handLimit THEN "check" ELSE "scan"
      /\ UNCHANGED <<clockVars, timerVars, insertVars, curTime, arg, handLimit,
                     delta, absList, dpcList>>
  BY DEF Scan
<1>2. PICK n \in 0..Len(table[i]) :
          /\ \A k \in 1..n : due[table[i][k]] <= curTime
          /\ n < Len(table[i]) => due[table[i][n + 1]] > curTime
          /\ expired' = expired \o SubSeq(table[i], 1, n)
          /\ table' = [table EXCEPT ![i] = SubSeq(@, n + 1, Len(@))]
  BY DEF Scan
<1>3. i \in Hand
  <2>1. index + 1 \in Int /\ TableSize \in Nat \ {0}
    BY <1>0, ClockReads DEF ScanType, Hand
  <2> QED BY <2>1, Divides DEF Hand
<1> HIDE DEF i
<1>4. ListOK(i, table[i], due) /\ due \in [Timer -> Int] /\ table[i] \in Seq(Timer)
      /\ IsInjective(table[i])
  BY <1>0, <1>3 DEF Lists, ListsOK, TimerType, ListOK
<1> DEFINE f == SubSeq(table[i], 1, n)
           s == SubSeq(table[i], n + 1, Len(table[i]))
<1>5. /\ ListOK(i, s, due)
      /\ n < Len(table[i]) => \A t \in Range(s) : due[table[i][n + 1]] <= due[t]
      /\ n >= Len(table[i]) => Range(s) = {}
  BY <1>4, CutOK
<1>6. /\ IsInjective(f) /\ Range(f) \cup Range(s) = Range(table[i])
      /\ Range(f) \cap Range(s) = {}
  BY <1>4, CutLinks
<1>7. f \in Seq(Timer) /\ Len(f) = n /\ \A j \in 1..n : f[j] = table[i][j]
  BY <1>4, CutShifts
<1>8. table' = [table EXCEPT ![i] = s] /\ expired' = expired \o f
  BY <1>2
<1> HIDE DEF f, s
<1>9. /\ table' \in [Hand -> Seq(Timer)]
      /\ \A j \in Hand : ListOK(j, table'[j], due)
      /\ \A t : t \in InTable' <=> t \in Range(s) \/ (t \in InTable /\ t \notin Range(table[i]))
  BY <1>0, <1>3, <1>5, <1>8, OneList
<1>10. \A t : t \in Range(table[i]) => t \in InTable
  BY <1>3, InTableHas
<1>11. /\ InTable' = InTable \ Range(f) /\ Range(f) \subseteq InTable
  BY <1>6, <1>9, <1>10
<1>12. expired \in Seq(Timer) /\ IsInjective(expired) /\ Range(expired) \cap Range(f) = {}
  BY <1>0, <1>11 DEF ListType, Lists, ListsOK, Apart
<1>13. /\ expired' \in Seq(Timer) /\ IsInjective(expired')
       /\ Range(expired') = Range(expired) \cup Range(f)
  BY <1>6, <1>7, <1>8, <1>12, ConcatLinks
<1>14. ListsOK' /\ Apart'
  <2>1. Range(f) \cap Range(absList) = {}
    BY <1>0, <1>11 DEF Lists, Apart
  <2> QED BY <1>0, <1>1, <1>9, <1>11, <1>13, <2>1 DEF Lists, ListsOK, Apart, timerVars
<1>15. Linked'
  <2>1. \A t : t \in InTable' \/ t \in Range(expired') <=> t \in InTable \/ t \in Range(expired)
    BY <1>11, <1>13
  <2> QED BY <1>0, <1>1, <2>1 DEF Lists, Linked, Between, timerVars, insertVars
<1>16. ClockType' /\ TimerType' /\ InsertType'
  BY <1>0, <1>1, ClockSame, TimerSame, InsertSame
<1>17. ScanType' /\ ListType'
  BY <1>0, <1>1, <1>3, <1>9, <1>13 DEF ScanType, ListType
<1>18. Phases'
  <2>1. pc = "idle"
    BY <1>0, <1>1 DEF Phases
  <2> QED BY <1>0, <1>1, <2>1 DEF Phases, insertVars
<1>19. ASSUME NEW t \in InTable', due[t] <= curTime, Bucket(due[t]) = index'
       PROVE  FALSE
  <2>1. t \in InTable /\ t \notin Range(f)
    BY <1>11
  <2>2. t \in Range(table[i])
    BY <1>0, <1>1, <1>3, <1>19, <2>1, WhereInTable
  <2>3. t \in Range(s)
    BY <1>6, <2>1, <2>2
  <2>4. n < Len(table[i])
    BY <1>4, <1>5, <2>3
  <2>5. due[table[i][n + 1]] <= due[t] /\ due[table[i][n + 1]] > curTime
    BY <1>2, <1>5, <2>3, <2>4
  <2>6. n + 1 \in 1..Len(table[i]) /\ t \in Timer
    BY <1>0, <1>4, <2>1, <2>4, WhereInTable
  <2>7. due[table[i][n + 1]] \in Int /\ due[t] \in Int /\ curTime \in Int
    BY <1>0, <1>4, <2>6 DEF ScanType
  <2> QED BY <1>19, <2>5, <2>7
<1>20. \A t \in InTable' : due[t] > curTime \/ Bucket(due[t]) # index'
  <2>1. \A t \in InTable' : due[t] \in Int /\ curTime \in Int
    BY <1>0, <1>4, <1>11, WhereInTable DEF ScanType
  <2> QED BY <1>19, <2>1
<1>21. ASSUME NEW t \in Range(expired')
       PROVE  t \in Range(expired) \/ (t \in InTable /\ due[t] <= curTime)
  <2>1. CASE t \in Range(f)
    <3>1. PICK j \in 1..Len(f) : f[j] = t
      BY <1>7, <2>1, Position
    <3>2. due[t] <= curTime
      BY <1>2, <1>7, <3>1
    <3> QED BY <1>11, <2>1, <3>2
  <2> QED BY <1>13, <2>1
<1>22. Struct'
  BY <1>14, <1>15, <1>16, <1>17, <1>18, TypePartsNext DEF Struct, Lists
<1>23. index' = (index + 1) % TableSize /\ InTable' \subseteq InTable
  BY <1>1, <1>11 DEF i
<1> QED BY <1>20, <1>21, <1>22, <1>23

LEMMA FirstOf ==
    ASSUME NEW s \in Seq(Timer), s # <<>>, IsInjective(s)
    PROVE  /\ s[1] \in Timer /\ s[1] \in Range(s)
           /\ Tail(s) \in Seq(Timer) /\ IsInjective(Tail(s))
           /\ Range(Tail(s)) = Range(s) \ {s[1]}
<1>1. Head(s) = s[1]
  OBVIOUS
<1>2. /\ Tail(s) \in Seq(Timer) /\ Head(s) \in Timer /\ IsInjective(Tail(s))
      /\ Head(s) \in Range(s) /\ Range(Tail(s)) = Range(s) \ {Head(s)}
  BY TailScans
<1> QED BY <1>1, <1>2

LEMMA ExpireStruct ==
    ASSUME Struct, Expire
    PROVE  Struct' /\ InTable' = InTable
<1>0. ClockType /\ TimerType /\ InsertType /\ ScanType /\ ListType /\ Lists /\ Phases
  BY TypeParts DEF Struct
<1> DEFINE t == expired[1]
<1>1. /\ exp = "list" /\ pc = "idle" /\ expired # <<>>
      /\ dpcList' = IF dpc[t] THEN Append(dpcList, t) ELSE dpcList
      /\ expired' = Tail(expired)
      /\ UNCHANGED <<clockVars, table, due, period, dpc, exp, scanVars, delta, absList>>
  BY DEF Expire, ListOver
<1>2. \/ /\ period[t] = 0
         /\ inserted' = [inserted EXCEPT ![t] = FALSE]
         /\ signal' = [signal EXCEPT ![t] = 1]
         /\ UNCHANGED <<absolute, asked, insertVars>>
      \/ /\ period[t] # 0
         /\ StartInsert(t, FALSE, period[t], 1)
         /\ asked' = [asked EXCEPT ![t] = NoTime]
  BY DEF Expire
<1> HIDE DEF t
<1>3. expired \in Seq(Timer) /\ IsInjective(expired)
  BY <1>0 DEF ListType, Lists, ListsOK
<1>4. /\ t \in Timer /\ t \in Range(expired)
      /\ expired' \in Seq(Timer) /\ IsInjective(expired')
      /\ Range(expired') = Range(expired) \ {t}
  BY <1>1, <1>3, FirstOf DEF t
<1>5. ClockType' /\ ScanType'
  BY <1>0, <1>1, ClockSame, ScanSame
<1>6. dpcList' \in Seq(Timer)
  <2>1. dpcList \in Seq(Timer)
    BY <1>0 DEF ListType
  <2> QED BY <1>1, <1>4, <2>1
<1>7. ListType'
  BY <1>0, <1>1, <1>4, <1>6 DEF ListType
<1>8. InTable' = InTable
  BY <1>1 DEF InTable
<1>9. ListsOK' /\ Apart'
  BY <1>0, <1>1, <1>4, <1>8 DEF Lists, ListsOK, Apart
<1>10. t \notin InTable /\ t \notin Range(absList)
  BY <1>0, <1>4 DEF Lists, Apart
<1>11. CASE /\ inserted' = [inserted EXCEPT ![t] = FALSE]
            /\ signal' = [signal EXCEPT ![t] = 1]
            /\ UNCHANGED <<absolute, asked, insertVars>>
  <2>1. TimerType' /\ InsertType'
    BY <1>0, <1>1, <1>4, <1>11, InsertSame DEF TimerType
  <2>2. \A u \in Timer : inserted'[u] <=> inserted[u] /\ u # t
    BY <1>0, <1>4, <1>11 DEF TimerType
  <2>3. Linked'
    BY <1>0, <1>1, <1>4, <1>8, <1>10, <1>11, <2>2 DEF Lists, Linked, Between, insertVars
  <2>4. Phases'
    BY <1>0, <1>1, <1>11 DEF Phases, insertVars
  <2> QED BY <1>5, <1>7, <1>8, <1>9, <2>1, <2>3, <2>4, TypePartsNext DEF Struct, Lists
<1>12. CASE /\ period[t] # 0
            /\ StartInsert(t, FALSE, period[t], 1)
            /\ asked' = [asked EXCEPT ![t] = NoTime]
  <2>1. period[t] \in Nat
    <3>1. period[t] \in Period \cup {0}
      BY <1>0, <1>4 DEF TimerType
    <3>2. \A p \in Period : p \in Nat
      BY KeTimerAssumption
    <3>3. 0 \in Nat
      OBVIOUS
    <3> QED BY <3>1, <3>2, <3>3, Zenon
  <2>2. /\ inserted' \in [Timer -> BOOLEAN] /\ signal' \in [Timer -> {0, 1}]
        /\ absolute' \in [Timer -> BOOLEAN]
        /\ InsertType' /\ cur' = t /\ pc' = "index"
        /\ inserted'[t]
        /\ \A u \in Timer \ {t} : inserted'[u] = inserted[u]
    BY <1>0, <1>4, <1>12, <2>1, Starting
  <2>3. TimerType'
    BY <1>0, <1>1, <1>4, <1>12, <2>2 DEF TimerType
  <2>4. Linked'
    BY <1>0, <1>1, <1>4, <1>8, <1>10, <2>2 DEF Lists, Linked, Between
  <2>5. Phases'
    BY <1>0, <1>1, <1>4, <2>2, KeTimerAssumption DEF Phases
  <2> QED BY <1>5, <1>7, <1>8, <1>9, <2>2, <2>3, <2>4, <2>5, TypePartsNext DEF Struct, Lists
<1> QED BY <1>2, <1>11, <1>12

LEMMA CollectStruct ==
    ASSUME Struct, CollectAbsolute
    PROVE  Struct' /\ InTable' \subseteq InTable
<1>0. ClockType /\ TimerType /\ InsertType /\ ScanType /\ ListType /\ Lists /\ Phases
  BY TypeParts DEF Struct
<1>1. /\ exp = "collect"
      /\ UNCHANGED <<clockVars, timerVars, insertVars, scanVars, delta, expired, dpcList>>
  BY DEF CollectAbsolute
<1>2. ClockType' /\ TimerType' /\ InsertType'
  BY <1>0, <1>1, ClockSame, TimerSame, InsertSame
<1>3. pc = "idle" /\ cur = NoTimer
  BY <1>0, <1>1 DEF Phases
<1>4. CASE exp' = "absolute" /\ UNCHANGED <<table, absList>>
  <2>1. Lists' /\ InTable' = InTable
    BY <1>0, <1>1, <1>4, QuietLists DEF timerVars, insertVars
  <2>2. ScanType' /\ ListType' /\ Phases'
    BY <1>0, <1>1, <1>3, <1>4 DEF ScanType, scanVars, ListType, Phases, insertVars
  <2> QED BY <1>2, <2>1, <2>2, TypePartsNext DEF Struct
<1>5. ASSUME NEW i \in Hand, NEW k \in DOMAIN table[i],
             /\ table' = [table EXCEPT ![i] = Unlink(@, table[i][k])]
             /\ absList' = Append(absList, table[i][k])
             /\ UNCHANGED exp
      PROVE  Struct' /\ InTable' \subseteq InTable
  <2> DEFINE t == table[i][k]
             s == Unlink(table[i], t)
  <2>1. ListOK(i, table[i], due) /\ due \in [Timer -> Int] /\ table[i] \in Seq(Timer)
    BY <1>0 DEF Lists, ListsOK, TimerType, ListOK
  <2>2. t \in Range(table[i])
    BY <2>1, Position
  <2>3. ListOK(i, s, due) /\ Range(s) = Range(table[i]) \ {t}
    BY <2>1, UnlinkOK
  <2>4. table' = [table EXCEPT ![i] = s] /\ absList' = Append(absList, t)
    BY <1>5
  <2> HIDE DEF s, t
  <2>5. /\ table' \in [Hand -> Seq(Timer)]
        /\ \A j \in Hand : ListOK(j, table'[j], due)
        /\ \A u : u \in InTable' <=> u \in Range(s) \/ (u \in InTable /\ u \notin Range(table[i]))
    BY <1>0, <2>3, <2>4, OneList
  <2>6. \A u : u \in Range(table[i]) => u \in InTable
    BY InTableHas
  <2>7. t \in InTable /\ InTable' = InTable \ {t}
    BY <2>2, <2>3, <2>5, <2>6
  <2>8. t \in Timer /\ t \notin Range(absList) /\ t \notin Range(expired)
    BY <1>0, <2>7, WhereInTable DEF Lists, Apart
  <2>9. absList \in Seq(Timer) /\ IsInjective(absList)
    BY <1>0 DEF ListType, Lists, ListsOK
  <2>10. /\ absList' \in Seq(Timer) /\ IsInjective(absList')
         /\ Range(absList') = Range(absList) \cup {t}
    BY <2>4, <2>8, <2>9, AppendLinks
  <2>11. ListsOK' /\ Apart'
    BY <1>0, <1>1, <2>5, <2>7, <2>8, <2>10 DEF Lists, ListsOK, Apart, timerVars
  <2>12. Linked'
    <3>1. \A u : u \in InTable' \/ u \in Range(absList') <=> u \in InTable \/ u \in Range(absList)
      BY <2>7, <2>10
    <3> QED BY <1>0, <1>1, <3>1 DEF Lists, Linked, Between, timerVars, insertVars
  <2>13. ScanType' /\ ListType'
    BY <1>0, <1>1, <1>5, <2>5, <2>10 DEF ScanType, scanVars, ListType
  <2>14. Phases'
    BY <1>0, <1>1, <1>3, <1>5 DEF Phases, insertVars
  <2> QED BY <1>2, <2>7, <2>11, <2>12, <2>13, <2>14, TypePartsNext DEF Struct, Lists
<1> QED BY <1>4, <1>5 DEF CollectAbsolute

LEMMA ReinsertStruct ==
    ASSUME Struct, Reinsert
    PROVE  /\ Struct' /\ InTable' = InTable /\ cur' \notin InTable
           /\ cur' = absList[1] /\ cur' \in Timer /\ cur' \in Range(absList)
           /\ Range(absList') = Range(absList) \ {cur'}
           /\ due' = [due EXCEPT ![cur'] = @ - delta]
<1>0. ClockType /\ TimerType /\ InsertType /\ ScanType /\ ListType /\ Lists /\ Phases
  BY TypeParts DEF Struct
<1> DEFINE t == absList[1]
           overdue == due[t] - delta <= Now
<1>1. /\ exp = "absolute" /\ pc = "idle" /\ absList # <<>>
      /\ due' = [due EXCEPT ![t] = @ - delta]
      /\ signal' = [signal EXCEPT ![t] = IF overdue THEN 1
                                         ELSE IF period[t] = 0 THEN 0 ELSE @]
      /\ inserted' = [inserted EXCEPT ![t] = ~overdue]
      /\ pc' = IF overdue THEN "failed" ELSE "link"
      /\ cur' = t
      /\ absList' = Tail(absList)
      /\ UNCHANGED <<clockVars, table, absolute, period, dpc, asked, interval, exp,
                     scanVars, delta, expired, dpcList>>
  BY DEF Reinsert
<1> HIDE DEF t, overdue
<1>2. absList \in Seq(Timer) /\ IsInjective(absList) /\ delta \in Int
  BY <1>0 DEF ListType, Lists, ListsOK
<1>3. /\ t \in Timer /\ t \in Range(absList)
      /\ absList' \in Seq(Timer) /\ IsInjective(absList')
      /\ Range(absList') = Range(absList) \ {t}
  BY <1>1, <1>2, FirstOf DEF t
<1>4. overdue \in BOOLEAN
  BY DEF overdue
<1>5. TimerType'
  <2>1. inserted' \in [Timer -> BOOLEAN] /\ signal' \in [Timer -> {0, 1}]
    BY <1>0, <1>1, <1>3, <1>4 DEF TimerType
  <2>2. due' \in [Timer -> Int]
    BY <1>0, <1>1, <1>2, <1>3 DEF TimerType
  <2> QED BY <1>0, <1>1, <2>1, <2>2 DEF TimerType
<1>6. InsertType' /\ ClockType' /\ ScanType'
  BY <1>0, <1>1, <1>3, ClockSame, ScanSame DEF InsertType
<1>7. ListType'
  BY <1>0, <1>1, <1>3 DEF ListType
<1>8. InTable' = InTable
  BY <1>1 DEF InTable
<1>9. t \notin InTable /\ t \notin Range(expired)
  BY <1>0, <1>3 DEF Lists, Apart
<1>10. \A u \in Timer \ {t} : due'[u] = due[u] /\ inserted'[u] = inserted[u]
  BY <1>0, <1>1, <1>3 DEF TimerType
<1>11. inserted'[t] <=> ~overdue
  BY <1>0, <1>1, <1>3, <1>4 DEF TimerType
<1>12. ListsOK'
  <2>1. ASSUME NEW i \in Hand PROVE ListOK(i, table[i], due')
    <3>1. ListOK(i, table[i], due)
      BY <1>0 DEF Lists, ListsOK
    <3>2. \A u \in Range(table[i]) : u \in Timer \ {t}
      BY <1>9, <3>1, Hashes, InTableHas
    <3>3. \A u \in Range(table[i]) : due'[u] = due[u]
      BY <1>10, <3>2
    <3> QED BY <3>1, <3>3, SameDue
  <2> QED BY <1>0, <1>1, <1>3, <2>1 DEF Lists, ListsOK
<1>13. Apart'
  BY <1>0, <1>1, <1>3, <1>8 DEF Lists, Apart
<1>14. Linked'
  BY <1>0, <1>1, <1>3, <1>8, <1>9, <1>10, <1>11 DEF Lists, Linked, Between
<1>15. overdue => signal'[t] = 1
  BY <1>0, <1>1, <1>3 DEF TimerType
<1>16. Phases'
  BY <1>0, <1>1, <1>3, <1>11, <1>15, KeTimerAssumption DEF Phases
<1>17. Struct'
  BY <1>5, <1>6, <1>7, <1>12, <1>13, <1>14, <1>16, TypePartsNext DEF Struct, Lists
<1> QED BY <1>1, <1>3, <1>8, <1>9, <1>17 DEF t

LEMMA StartStruct == Init => Struct
<1> SUFFICES ASSUME Init PROVE Struct
  OBVIOUS
<1>1. <<>> \in Seq(Timer) /\ DOMAIN <<>> = {} /\ Len(<<>>) = 0
  OBVIOUS
<1>2. <<>> \in Seq(Timer) /\ Range(<<>>) = {} /\ IsInjective(<<>>)
  BY <1>1 DEF Range, IsInjective
<1>3. \A i \in Hand : table[i] = <<>>
  BY DEF Init
<1>4. InTable = {}
  BY <1>2, <1>3 DEF InTable
<1>5. ClockType /\ InsertType
  <2>1. MaxTick \in Nat
    BY KeTimerAssumption
  <2>2. ClockType
    <3>1. tick = 0 /\ bias = 0 /\ dpcQueued = FALSE /\ dpcArg = 0
      BY DEF Init
    <3>2. tick \in 0..MaxTick
      BY <2>1, <3>1
    <3>3. bias \in Int /\ dpcArg \in Nat
      BY <3>1
    <3>4. dpcQueued \in BOOLEAN
      BY <3>1
    <3> QED BY <3>2, <3>3, <3>4, Zenon DEF ClockType
  <2> QED BY <2>2 DEF Init, InsertType
<1>6. TimerType
  BY DEF Init, TimerType
<1>7. ScanType
  BY KeTimerAssumption DEF Init, ScanType, Hand
<1>8. ListType
  BY <1>2 DEF Init, ListType
<1>9. ListsOK
  <2>1. \A i \in Hand : ListOK(i, table[i], due)
    <3>1. \A j : j \notin 1..Len(<<>>)
      BY <1>1
    <3>2. \A i \in Hand : ListOK(i, <<>>, due)
      BY <1>2, <3>1, Zenon DEF ListOK
    <3> QED BY <1>3, <3>2
  <2> QED BY <1>2, <2>1 DEF ListsOK, Init
<1>10. Apart
  BY <1>2, <1>4 DEF Apart, Init
<1>11. Linked
  BY <1>2, <1>4 DEF Linked, Init
<1>12. Phases
  BY DEF Phases, Init
<1> QED BY <1>5, <1>6, <1>7, <1>8, <1>9, <1>10, <1>11, <1>12, TypeParts DEF Struct, Lists

LEMMA StructStep == Struct /\ [Next]_vars => Struct'
<1> SUFFICES ASSUME Struct, [Next]_vars PROVE Struct'
  OBVIOUS
<1>1. CASE Tick
  BY <1>1, TickStruct
<1>2. ASSUME NEW t \in Timer, NEW p \in Period, NEW d \in HasDpc,
             (\E time \in Delay : KeSetTimerEx(t, FALSE, time, p, d))
             \/ \E time \in Absolute : KeSetTimerEx(t, TRUE, time, p, d)
      PROVE  Struct'
  <2>1. PICK isTime \in BOOLEAN, time \in Nat : KeSetTimerEx(t, isTime, time, p, d)
    BY <1>2, KeTimerAssumption
  <2> QED BY <2>1, SetStruct
<1>3. ASSUME NEW t \in Timer, KeCancelTimer(t) PROVE Struct'
  BY <1>3, CancelStruct
<1>4. ASSUME NEW time \in NewTime, KeSetSystemTime(time) PROVE Struct'
  BY <1>4, SetSystemTimeStruct, KeTimerAssumption
<1>5. CASE Insertion
  BY <1>5, IndexStruct, LinkStruct, VerifyStruct, AgainStruct, InsertedStruct DEF Insertion
<1>6. CASE Expiration
  BY <1>6, QuietStruct, ScanStruct, ExpireStruct DEF Expiration
<1>7. CASE SettingTime
  BY <1>7, CollectStruct, ReinsertStruct, QuietStruct DEF SettingTime
<1>8. CASE UNCHANGED vars
  BY <1>8, QuietStruct
<1> QED BY <1>1, <1>2, <1>3, <1>4, <1>5, <1>6, <1>7, <1>8 DEF Next

-----------------------------------------------------------------------------
(* Due times.                                                              *)

(* While KeSetSystemTime moves the timers, the due time of one that was    *)
(* set to a system time is off by what it is still to be moved.            *)
Moving(t) == IF exp = "collect" \/ t \in Range(absList) THEN delta ELSE 0
Reaches(t) == asked[t] # NoTime => absolute[t] /\ due[t] + bias - Moving(t) >= asked[t]

(* Expired timers were due; a timer that is kept, and one whose insertion  *)
(* has just failed, is due no earlier than the system time it was set to.  *)
ExpiredDue == \A t \in Range(expired) : due[t] <= Now
KeptReach  == \A t \in Timer : inserted[t] /\ ~(t = cur /\ pc = "index") => Reaches(t)
IndexReach == pc = "index" /\ asked[cur] # NoTime
                => absolute[cur] /\ Now + interval + bias >= asked[cur]
FailedDue  == pc = "failed" /\ exp = "absolute" => due[cur] <= Now /\ Reaches(cur)
Dues == ExpiredDue /\ KeptReach /\ IndexReach /\ FailedDue

(* Time does not go back. *)
LEMMA NowGrows ==
    ASSUME ClockType, ClockType', tick' \in {tick, tick + 1}
    PROVE  Now \in Nat /\ Now' \in Nat /\ Now <= Now'
           /\ (tick' = tick + 1 => Now' = Now + Increment)
<1>1. /\ tick \in Nat /\ Now = tick * Increment /\ Increment \in Nat \ {0}
      /\ Now' = tick' * Increment /\ Now \in Nat
  BY ClockReads DEF Now
<1>2. (tick + 1) * Increment = tick * Increment + Increment
  BY <1>1
<1>3. Now \in Nat /\ Increment \in Nat \ {0}
  BY <1>1
<1>4. CASE tick' = tick + 1
  <2>1. Now' = Now + Increment
    BY <1>1, <1>2, <1>4
  <2> QED BY <1>3, <2>1
<1>5. CASE tick' = tick /\ tick' # tick + 1
  <2>1. Now' = Now
    BY <1>5 DEF Now
  <2> QED BY <1>3, <1>5, <2>1
<1>6. tick # tick + 1
  BY <1>1
<1> QED BY <1>4, <1>5, <1>6

(* Due times, intervals and the bias as numbers. *)
LEMMA Numbers ==
    ASSUME TypeOK
    PROVE  /\ \A t \in Timer : due[t] \in Int /\ (asked[t] # NoTime => asked[t] \in Nat)
           /\ bias \in Int /\ delta \in Int /\ interval \in Nat /\ Now \in Nat /\ curTime \in Nat
           /\ \A t : Moving(t) \in Int
           /\ Range(expired) \subseteq Timer /\ InTable \subseteq Timer
<1>1. ClockType /\ TimerType /\ InsertType /\ ScanType /\ ListType
  BY TypeParts
<1>2. Now \in Nat
  BY <1>1, ClockReads
<1>3. Range(expired) \subseteq Timer /\ InTable \subseteq Timer
  BY <1>1, RangesAreTimers
<1>4. \A t \in Timer : due[t] \in Int /\ (asked[t] # NoTime => asked[t] \in Nat)
  BY <1>1 DEF TimerType
<1>5. bias \in Int /\ delta \in Int /\ interval \in Nat /\ curTime \in Nat
  BY <1>1 DEF ClockType, ListType, InsertType, ScanType
<1> QED BY <1>2, <1>3, <1>4, <1>5 DEF Moving

(* Steps after which no due time has changed: what is left to be seen is   *)
(* the timers that are on another list than before.                        *)
LEMMA QuietDues ==
    ASSUME Struct, Struct', Dues, tick' \in {tick, tick + 1},
           UNCHANGED <<bias, absolute, due, asked, delta, absList>>,
           exp' = "collect" <=> exp = "collect",
           \A t \in Range(expired') : t \in Range(expired) \/ due[t] <= Now,
           \A t \in Timer : inserted'[t] /\ ~(t = cur' /\ pc' = "index") => Reaches(t),
           pc' = "index" => pc = "index" /\ cur' = cur /\ interval' = interval,
           pc' = "failed" /\ exp' = "absolute" => due[cur'] <= Now /\ Reaches(cur')
    PROVE  Dues'
<1>1. Now \in Nat /\ Now' \in Nat /\ Now <= Now'
  <2>1. ClockType /\ ClockType'
    BY TypeParts, TypePartsNext DEF Struct
  <2> QED BY <2>1, NowGrows
<1>2. /\ \A t \in Timer : due[t] \in Int /\ (asked[t] # NoTime => asked[t] \in Nat)
      /\ bias \in Int /\ interval \in Nat
      /\ InsertType /\ InsertType'
  BY Numbers, TypeParts, TypePartsNext DEF Struct
<1>3. Range(expired') \subseteq Timer
  <2>1. expired' \in Seq(Timer)
    BY DEF Struct, TypeOK
  <2> QED BY <2>1, Position
<1>4. \A t : Moving(t)' = Moving(t)
  BY DEF Moving
<1>5. \A t : Reaches(t) => Reaches(t)'
  BY <1>4 DEF Reaches
<1>6. ExpiredDue'
  <2>1. ASSUME NEW t \in Range(expired') PROVE due'[t] <= Now'
    <3>1. due[t] <= Now /\ due[t] \in Int
      BY <1>2, <1>3 DEF Dues, ExpiredDue
    <3> QED BY <1>1, <3>1
  <2> QED BY <2>1 DEF ExpiredDue
<1>7. KeptReach'
  BY <1>5 DEF KeptReach
<1>8. IndexReach'
  <2> SUFFICES ASSUME pc' = "index", asked[cur'] # NoTime
               PROVE  absolute[cur'] /\ Now' + interval' + bias >= asked[cur']
    BY DEF IndexReach
  <2>1. cur \in Timer /\ pc = "index" /\ cur' = cur /\ interval' = interval
    BY CurrentTimer, <1>2 DEF Struct
  <2>2. absolute[cur] /\ Now + interval + bias >= asked[cur] /\ asked[cur] \in Nat
    BY <1>2, <2>1 DEF Dues, IndexReach
  <2> QED BY <1>1, <1>2, <2>1, <2>2
<1>9. FailedDue'
  <2> SUFFICES ASSUME pc' = "failed", exp' = "absolute"
               PROVE  due[cur'] <= Now' /\ Reaches(cur)'
    BY DEF FailedDue
  <2>1. cur' \in Timer
    <3>1. pc' # "idle" => cur' # NoTimer
      BY DEF Struct, Phases
    <3> QED BY <1>2, <3>1 DEF InsertType
  <2>2. due[cur'] <= Now /\ due[cur'] \in Int /\ Reaches(cur')
    BY <1>2, <2>1
  <2>3. Reaches(cur)'
    BY <2>2 DEF Reaches, Moving
  <2> QED BY <1>1, <2>2, <2>3
<1> QED BY <1>6, <1>7, <1>8, <1>9 DEF Dues

(* KiInsertTreeTimer, wherever it is called. *)
LEMMA StartDues ==
    ASSUME Struct, Struct', Dues, NEW t \in Timer, NEW isTime \in BOOLEAN, NEW time \in Nat,
           NEW sig \in {0, 1}, StartInsert(t, isTime, time, sig),
           asked' = [asked EXCEPT ![t] = IF isTime THEN time ELSE NoTime],
           pc # "index", exp # "absolute",
           UNCHANGED <<clockVars, due, exp, delta, absList>>,
           Range(expired') \subseteq Range(expired)
    PROVE  Dues'
<1>0. ClockType /\ TimerType /\ InsertType
  BY TypeParts DEF Struct
<1>1. /\ cur' = t
      /\ pc' = "failed" \/ pc' = "index"
      /\ inserted'[t] <=> pc' = "index"
      /\ \A u \in Timer \ {t} : inserted'[u] = inserted[u] /\ absolute'[u] = absolute[u]
      /\ pc' = "index" => /\ absolute'[t] = isTime
                          /\ isTime => interval' + SystemTime = time
  BY <1>0, Starting
<1>2. \A u \in Timer \ {t} : asked'[u] = asked[u]
  BY <1>0 DEF TimerType
<1>3. asked'[t] = IF isTime THEN time ELSE NoTime
  BY <1>0 DEF TimerType
<1>4. Now' = Now /\ bias' = bias
  BY DEF Now, clockVars
<1>5. ExpiredDue'
  BY <1>4 DEF Dues, ExpiredDue
<1>6. KeptReach'
  <2>1. ASSUME NEW u \in Timer, inserted'[u], ~(u = cur' /\ pc' = "index")
        PROVE  Reaches(u)'
    <3>1. u # t
      BY <1>1, <2>1
    <3>2. Reaches(u)
      BY <1>1, <2>1, <3>1 DEF Dues, KeptReach
    <3>3. absolute'[u] = absolute[u] /\ asked'[u] = asked[u] /\ due'[u] = due[u]
          /\ Moving(u)' = Moving(u)
      BY <1>1, <1>2, <3>1 DEF Moving
    <3> QED BY <1>4, <3>2, <3>3 DEF Reaches
  <2> QED BY <2>1 DEF KeptReach
<1>7. IndexReach'
  <2> SUFFICES ASSUME pc' = "index", asked'[t] # NoTime
               PROVE  absolute'[t] /\ Now + interval' + bias >= asked'[t]
    BY <1>1, <1>4 DEF IndexReach
  <2>1. isTime /\ asked'[t] = time /\ absolute'[t] /\ interval' + SystemTime = time
    BY <1>1, <1>3
  <2>2. interval' \in Nat /\ Now \in Nat /\ bias \in Int /\ SystemTime = Now + bias
    BY <1>0, ClockReads, TypePartsNext DEF Struct, InsertType, ClockType
  <2>3. interval' + SystemTime = time
    BY <2>1
  <2>4. Now + interval' + bias = time
    <3>1. \A n, i \in Nat, b \in Int : n + i + b = i + (n + b)
      OBVIOUS
    <3>2. Now + interval' + bias = interval' + (Now + bias)
      BY <2>2, <3>1
    <3> QED BY <2>2, <2>3, <3>2
  <2>5. Now + interval' + bias >= time
    BY <2>4
  <2> QED BY <2>1, <2>5
<1>8. FailedDue'
  BY DEF FailedDue
<1> QED BY <1>5, <1>6, <1>7, <1>8 DEF Dues

LEMMA IndexDues ==
    ASSUME Struct, Struct', Dues, ComputeIndex
    PROVE  Dues'
<1>0. ClockType /\ TimerType /\ InsertType /\ Lists /\ Phases
  BY TypeParts DEF Struct
<1>1. /\ pc = "index" /\ pc' = "link"
      /\ due' = [due EXCEPT ![cur] = Now + interval]
      /\ UNCHANGED <<clockVars, table, inserted, signal, absolute, period, dpc, asked,
                     cur, interval, exp, scanVars, listVars>>
  BY DEF ComputeIndex
<1>2. cur \in Timer /\ Now + interval \in Int
  BY <1>0, <1>1, CurrentTimer, ClockReads DEF InsertType
<1>3. due'[cur] = Now + interval /\ \A u \in Timer \ {cur} : due'[u] = due[u]
  BY <1>0, <1>1, <1>2 DEF TimerType
<1>4. cur \notin Range(expired) /\ cur \notin Range(absList) /\ exp # "collect"
  BY <1>0, <1>1, <1>2 DEF Lists, Linked, Between, Phases
<1>5. Now' = Now /\ bias' = bias
  BY <1>1 DEF Now, clockVars
<1>6. ExpiredDue'
  <2>1. \A u \in Range(expired) : u \in Timer /\ u # cur
    BY <1>4, Numbers DEF Struct
  <2> QED BY <1>1, <1>3, <1>5, <2>1 DEF Dues, ExpiredDue, listVars
<1>7. \A u : Moving(u)' = Moving(u)
  BY <1>1 DEF Moving, listVars
<1>8. KeptReach'
  <2>1. ASSUME NEW u \in Timer, inserted[u], u # cur PROVE Reaches(u)'
    <3>1. Reaches(u)
      BY <2>1 DEF Dues, KeptReach
    <3> QED BY <1>1, <1>3, <1>5, <1>7, <2>1, <3>1 DEF Reaches
  <2>2. Reaches(cur)'
    <3> SUFFICES ASSUME asked[cur] # NoTime
                 PROVE  absolute[cur] /\ due'[cur] + bias - Moving(cur)' >= asked[cur]
      BY <1>1, <1>5 DEF Reaches
    <3>1. absolute[cur] /\ Now + interval + bias >= asked[cur]
      BY <1>1 DEF Dues, IndexReach
    <3>2. Moving(cur)' = 0
      BY <1>1, <1>4 DEF Moving, listVars
    <3>3. /\ Now \in Nat /\ interval \in Nat /\ bias \in Int /\ asked[cur] \in Nat
      BY <1>2, Numbers DEF Struct
    <3> QED BY <1>3, <3>1, <3>2, <3>3
  <2> QED BY <1>1, <2>1, <2>2 DEF KeptReach
<1>9. IndexReach' /\ FailedDue'
  BY <1>1 DEF IndexReach, FailedDue
<1> QED BY <1>6, <1>8, <1>9 DEF Dues

LEMMA SetSystemTimeDues ==
    ASSUME Struct, Struct', Dues, NEW time \in Nat, KeSetSystemTime(time)
    PROVE  Dues'
<1>1. /\ pc = "idle" /\ exp = "idle" /\ exp' = "collect"
      /\ bias' = bias + time - SystemTime
      /\ delta' = time - SystemTime
      /\ UNCHANGED <<tick, dpcQueued, dpcArg, table, timerVars, insertVars, scanVars,
                     absList, expired, dpcList>>
  BY DEF KeSetSystemTime
<1>2. absList = <<>> /\ Range(absList) = {}
  BY <1>1 DEF Struct, Phases, Range
<1>3. Now' = Now /\ SystemTime \in Int /\ bias \in Int
  BY <1>1, ClockReads, TypeParts DEF Now, Struct, ClockType
<1>4. ASSUME NEW u \in Timer, Reaches(u) PROVE Reaches(u)'
  <2> SUFFICES ASSUME asked[u] # NoTime
               PROVE  absolute[u] /\ due[u] + bias' - Moving(u)' >= asked[u]
    BY <1>1 DEF Reaches, timerVars
  <2>1. Moving(u) = 0 /\ Moving(u)' = time - SystemTime
    BY <1>1, <1>2 DEF Moving
  <2>2. absolute[u] /\ due[u] + bias >= asked[u] /\ due[u] \in Int /\ asked[u] \in Nat
    <3>1. due[u] \in Int /\ asked[u] \in Nat
      BY Numbers DEF Struct
    <3> QED BY <1>3, <1>4, <2>1, <3>1 DEF Reaches
  <2>3. due[u] + bias' - Moving(u)' = due[u] + bias
    BY <1>1, <1>3, <2>1, <2>2
  <2> QED BY <2>2, <2>3
<1>5. ExpiredDue'
  BY <1>1, <1>3 DEF Dues, ExpiredDue, timerVars
<1>6. KeptReach'
  BY <1>1, <1>4 DEF Dues, KeptReach, timerVars, insertVars
<1>7. IndexReach' /\ FailedDue'
  BY <1>1 DEF IndexReach, FailedDue, insertVars
<1> QED BY <1>5, <1>6, <1>7 DEF Dues

LEMMA CollectDues ==
    ASSUME Struct, Struct', Dues, CollectAbsolute
    PROVE  Dues'
<1>0. Lists /\ Phases
  BY DEF Struct
<1>1. /\ exp = "collect" /\ exp' \in {"collect", "absolute"}
      /\ UNCHANGED <<clockVars, timerVars, insertVars, scanVars, delta, expired, dpcList>>
  BY DEF CollectAbsolute
<1>2. pc = "idle" /\ expired = <<>> /\ Range(expired) = {}
  BY <1>0, <1>1 DEF Phases, Range
<1>3. Now' = Now
  BY <1>1 DEF Now, clockVars
<1>4. ASSUME NEW u \in Timer, inserted[u], Reaches(u) PROVE Reaches(u)'
  <2>1. CASE exp' = "collect"
    <3>1. Moving(u)' = Moving(u)
      BY <1>1, <2>1 DEF Moving
    <3> QED BY <1>1, <1>4, <3>1 DEF Reaches, timerVars, clockVars
  <2>2. CASE exp' = "absolute"
    <3>1. absList' = absList /\ \A v \in InTable : ~absolute[v]
      BY <1>1, <2>2 DEF CollectAbsolute
    <3>2. CASE u \in InTable
      BY <1>1, <1>4, <3>1, <3>2 DEF Reaches, timerVars
    <3>3. CASE u \in Range(absList)
      <4>1. Moving(u)' = Moving(u)
        BY <1>1, <3>1, <3>3 DEF Moving
      <4> QED BY <1>1, <1>4, <4>1 DEF Reaches, timerVars, clockVars
    <3> QED BY <1>0, <1>2, <1>4, <3>2, <3>3 DEF Lists, Linked, Between
  <2> QED BY <1>1, <2>1, <2>2
<1>5. ExpiredDue'
  BY <1>1, <1>3 DEF Dues, ExpiredDue, timerVars
<1>6. KeptReach'
  BY <1>1, <1>4 DEF Dues, KeptReach, timerVars, insertVars
<1>7. IndexReach' /\ FailedDue'
  BY <1>1, <1>2 DEF IndexReach, FailedDue, insertVars
<1> QED BY <1>5, <1>6, <1>7 DEF Dues

LEMMA ReinsertDues ==
    ASSUME Struct, Struct', Dues, Reinsert
    PROVE  Dues'
<1>0. TimerType /\ ListType /\ Lists /\ Phases
  BY TypeParts DEF Struct
<1>1. /\ cur' = absList[1] /\ cur' \in Timer /\ cur' \in Range(absList)
      /\ Range(absList') = Range(absList) \ {cur'}
      /\ due' = [due EXCEPT ![cur'] = @ - delta]
  BY ReinsertStruct
<1>2. /\ exp = "absolute" /\ pc = "idle" /\ pc' \in {"failed", "link"}
      /\ pc' = "failed" => due[cur'] - delta <= Now
      /\ UNCHANGED <<clockVars, table, absolute, period, dpc, asked, interval, exp,
                     scanVars, delta, expired, dpcList>>
  BY DEF Reinsert
<1>3. \A u \in Timer \ {cur'} : inserted'[u] = inserted[u] /\ due'[u] = due[u]
  <2>1. cur' = absList[1]
    BY <1>1
  <2>2. \E x : inserted' = [inserted EXCEPT ![cur'] = x]
    BY <2>1 DEF Reinsert
  <2> QED BY <1>0, <1>1, <2>2 DEF TimerType
<1>4. due'[cur'] = due[cur'] - delta
  BY <1>0, <1>1 DEF TimerType
<1>5. Now' = Now /\ bias' = bias
  BY <1>2 DEF Now, clockVars
<1>6. cur' \notin Range(expired) /\ inserted[cur']
  BY <1>0, <1>1 DEF Lists, Linked, Apart
<1>7. ExpiredDue'
  <2>1. \A u \in Range(expired) : u \in Timer /\ u # cur'
    BY <1>6, Numbers DEF Struct
  <2> QED BY <1>2, <1>3, <1>5, <2>1 DEF Dues, ExpiredDue
<1>8. ASSUME NEW u \in Timer, u # cur', Reaches(u) PROVE Reaches(u)'
  <2>1. Moving(u)' = Moving(u)
    BY <1>1, <1>2, <1>8 DEF Moving
  <2> QED BY <1>2, <1>3, <1>5, <1>8, <2>1 DEF Reaches
<1>9. Reaches(cur)'
  <2> SUFFICES ASSUME asked[cur'] # NoTime
               PROVE  absolute[cur'] /\ due'[cur'] + bias - Moving(cur)' >= asked[cur']
    BY <1>2, <1>5 DEF Reaches
  <2>1. Reaches(cur')
    BY <1>1, <1>2, <1>6 DEF Dues, KeptReach
  <2>2. Moving(cur') = delta /\ Moving(cur)' = 0
    BY <1>1, <1>2 DEF Moving
  <2>3. due[cur'] \in Int /\ asked[cur'] \in Nat /\ bias \in Int /\ delta \in Int
    BY <1>1, Numbers DEF Struct
  <2>4. absolute[cur'] /\ due[cur'] + bias - delta >= asked[cur']
    BY <2>1, <2>2 DEF Reaches
  <2> QED BY <1>4, <2>2, <2>3, <2>4
<1>10. KeptReach'
  <2>1. ASSUME NEW u \in Timer, inserted'[u] PROVE Reaches(u)'
    <3>1. CASE u = cur'
      BY <1>9, <3>1 DEF Reaches, Moving
    <3>2. CASE u # cur'
      <4>1. Reaches(u)
        BY <1>2, <1>3, <2>1, <3>2 DEF Dues, KeptReach
      <4> QED BY <1>8, <3>2, <4>1
    <3> QED BY <3>1, <3>2
  <2> QED BY <2>1 DEF KeptReach
<1>11. IndexReach'
  BY <1>2 DEF IndexReach
<1>12. FailedDue'
  BY <1>2, <1>4, <1>5, <1>9 DEF FailedDue
<1> QED BY <1>7, <1>10, <1>11, <1>12 DEF Dues

LEMMA ReinsertOverDues ==
    ASSUME Struct, Struct', Dues, ReinsertOver
    PROVE  Dues'
<1>1. /\ exp = "absolute" /\ pc = "idle" /\ absList = <<>>
      /\ exp' = "list" /\ delta' = 0
      /\ UNCHANGED <<clockVars, table, timerVars, insertVars, scanVars,
                     absList, expired, dpcList>>
  BY DEF ReinsertOver
<1>2. Range(absList) = {}
  BY <1>1 DEF Range
<1>3. \A u : Moving(u) = 0 /\ Moving(u)' = 0
  BY <1>1, <1>2 DEF Moving
<1>4. Now' = Now
  BY <1>1 DEF Now, clockVars
<1>5. \A u : Reaches(u) => Reaches(u)'
  BY <1>1, <1>3 DEF Reaches, timerVars, clockVars
<1>6. ExpiredDue'
  BY <1>1, <1>4 DEF Dues, ExpiredDue, timerVars
<1>7. KeptReach'
  BY <1>1, <1>5 DEF Dues, KeptReach, timerVars, insertVars
<1>8. IndexReach' /\ FailedDue'
  BY <1>1 DEF IndexReach, FailedDue, insertVars
<1> QED BY <1>6, <1>7, <1>8 DEF Dues

LEMMA KeptDues ==
    ASSUME Struct, Dues, NEW t \in Timer, inserted[t], ~(t = cur /\ pc = "index")
    PROVE  Reaches(t)
BY DEF Dues, KeptReach

(* Steps that go from the lists to a failed insertion, and back. *)
LEMMA VerifyDues ==
    ASSUME Struct, Struct', Dues, Verify
    PROVE  Dues'
<1>0. TimerType /\ InsertType /\ Lists /\ Phases
  BY TypeParts DEF Struct
<1>1. /\ pc = "verify" /\ pc' \in {"done", "failed"}
      /\ pc' = "failed" => due[cur] <= Now
      /\ UNCHANGED <<clockVars, absolute, due, period, dpc, asked, cur, interval,
                     exp, scanVars, delta, absList, dpcList>>
  BY DEF Verify
<1>2. cur \in Timer /\ inserted[cur]
  BY <1>0, <1>1, CurrentTimer DEF Phases
<1>3. Reaches(cur)
  BY <1>1, <1>2, KeptDues
<1>4. \A u \in Timer : inserted'[u] => inserted[u]
  BY <1>0, <1>2 DEF Verify, TimerType
<1>5. Range(expired') \subseteq Range(expired)
  <2>1. CASE UNCHANGED expired
    BY <2>1
  <2>2. CASE RemoveTreeTimer(cur)
    BY <2>2, RemovingTimer, TypeParts DEF Struct, Lists
  <2> QED BY <2>1, <2>2 DEF Verify
<1>6. \A t \in Timer : inserted'[t] => Reaches(t)
  BY <1>1, <1>4, KeptDues
<1> QED BY <1>1, <1>3, <1>5, <1>6, QuietDues DEF clockVars

LEMMA InsertedDues ==
    ASSUME Struct, Struct', Dues, Inserted
    PROVE  Dues'
<1>0. TimerType /\ InsertType /\ ListType /\ Lists /\ Phases
  BY TypeParts DEF Struct
<1>1. /\ pc \in {"done", "failed"} /\ pc' = "idle"
      /\ UNCHANGED <<clockVars, table, signal, absolute, due, period, dpc, asked,
                     exp, scanVars, delta, absList, dpcList>>
  BY DEF Inserted, Finish
<1>2. cur \in Timer
  BY <1>0, <1>1, CurrentTimer
<1>3. CASE UNCHANGED <<inserted, expired>>
  <2>1. \A t \in Timer : inserted'[t] => Reaches(t)
    BY <1>1, <1>3, KeptDues
  <2> QED BY <1>1, <1>3, <2>1, QuietDues DEF clockVars
<1>4. CASE /\ pc = "failed" /\ exp = "absolute"
           /\ inserted' = [inserted EXCEPT ![cur] = TRUE]
           /\ expired' = Append(expired, cur)
  <2>1. due[cur] <= Now /\ Reaches(cur)
    BY <1>4 DEF Dues, FailedDue
  <2>2. \A t \in Timer : inserted'[t] => t = cur \/ inserted[t]
    BY <1>0, <1>2, <1>4 DEF TimerType
  <2>3. \A t \in Timer : inserted'[t] => Reaches(t)
    BY <1>1, <2>1, <2>2, KeptDues
  <2>4. \A t \in Range(expired') : t \in Range(expired) \/ t = cur
    <3>1. expired \in Seq(Timer) /\ IsInjective(expired) /\ cur \notin Range(expired)
      BY <1>0, <1>2, <1>4 DEF ListType, Lists, ListsOK, Linked, Phases
    <3> QED BY <1>2, <1>4, <3>1, AppendLinks
  <2> QED BY <1>1, <2>1, <2>3, <2>4, QuietDues DEF clockVars
<1> QED BY <1>3, <1>4 DEF Inserted

LEMMA ExpireDues ==
    ASSUME Struct, Struct', Dues, Expire
    PROVE  Dues'
<1>0. TimerType /\ ListType /\ Lists /\ Phases
  BY TypeParts DEF Struct
<1> DEFINE t == expired[1]
<1>1. /\ exp = "list" /\ pc = "idle" /\ expired # <<>>
      /\ expired' = Tail(expired)
      /\ UNCHANGED <<clockVars, table, due, period, dpc, exp, scanVars, delta, absList>>
  BY DEF Expire, ListOver
<1>2. \/ /\ inserted' = [inserted EXCEPT ![t] = FALSE]
         /\ UNCHANGED <<absolute, asked, insertVars>>
      \/ /\ StartInsert(t, FALSE, period[t], 1)
         /\ asked' = [asked EXCEPT ![t] = NoTime]
  BY DEF Expire
<1>3. expired \in Seq(Timer) /\ IsInjective(expired)
  BY <1>0 DEF ListType, Lists, ListsOK
<1>4. t \in Timer /\ Range(expired') \subseteq Range(expired)
  BY <1>1, <1>3, FirstOf
<1> HIDE DEF t
<1>5. CASE /\ inserted' = [inserted EXCEPT ![t] = FALSE]
           /\ UNCHANGED <<absolute, asked, insertVars>>
  <2>1. \A u \in Timer : inserted'[u] => inserted[u]
    BY <1>0, <1>4, <1>5 DEF TimerType
  <2>2. \A u \in Timer : inserted'[u] => Reaches(u)
    BY <1>1, <2>1, KeptDues
  <2>3. UNCHANGED <<pc, cur, interval>>
    BY <1>5 DEF insertVars
  <2> QED BY <1>1, <1>4, <1>5, <2>2, <2>3, QuietDues DEF clockVars
<1>6. CASE StartInsert(t, FALSE, period[t], 1) /\ asked' = [asked EXCEPT ![t] = NoTime]
  <2>1. period[t] \in Nat
    <3>1. period[t] \in Period \cup {0}
      BY <1>0, <1>4 DEF TimerType
    <3>2. \A p \in Period : p \in Nat
      BY KeTimerAssumption
    <3>3. 0 \in Nat
      OBVIOUS
    <3> QED BY <3>1, <3>2, <3>3, Zenon
  <2>2. asked' = [asked EXCEPT ![t] = IF FALSE THEN period[t] ELSE NoTime]
    BY <1>6
  <2> QED BY <1>1, <1>4, <1>6, <2>1, <2>2, StartDues
<1> QED BY <1>2, <1>5, <1>6

LEMMA AgainDues ==
    ASSUME Struct, Struct', Dues, InsertAgain
    PROVE  Dues'
<1>0. TimerType /\ InsertType
  BY TypeParts DEF Struct
<1>1. /\ pc = "failed" /\ exp # "absolute"
      /\ StartInsert(cur, FALSE, period[cur], 1)
      /\ asked' = [asked EXCEPT ![cur] = NoTime]
      /\ UNCHANGED <<clockVars, table, due, period, dpc, exp, scanVars, listVars>>
  BY DEF InsertAgain
<1>2. cur \in Timer
  BY <1>0, <1>1, CurrentTimer DEF Struct
<1>3. period[cur] \in Nat
  <2>1. period[cur] \in Period \cup {0}
    BY <1>0, <1>2 DEF TimerType
  <2>2. \A p \in Period : p \in Nat
    BY KeTimerAssumption
  <2>3. 0 \in Nat
    OBVIOUS
  <2> QED BY <2>1, <2>2, <2>3, Zenon
<1>4. asked' = [asked EXCEPT ![cur] = IF FALSE THEN period[cur] ELSE NoTime]
  BY <1>1
<1>5. UNCHANGED <<delta, absList, expired>>
  BY <1>1 DEF listVars
<1> QED BY <1>1, <1>2, <1>3, <1>4, <1>5, StartDues

LEMMA SetDues ==
    ASSUME Struct, Struct', Dues, NEW t \in Timer, NEW isTime \in BOOLEAN, NEW time \in Nat,
           NEW p \in Period, NEW d \in HasDpc, KeSetTimerEx(t, isTime, time, p, d)
    PROVE  Dues'
<1>1. /\ pc = "idle" /\ exp # "absolute"
      /\ RemoveTreeTimer(t)
      /\ asked' = [asked EXCEPT ![t] = IF isTime THEN time ELSE NoTime]
      /\ StartInsert(t, isTime, time, 0)
      /\ UNCHANGED <<clockVars, due, exp, scanVars, delta, absList, dpcList>>
  BY DEF KeSetTimerEx, CanCall
<1>2. Range(expired') \subseteq Range(expired)
  BY <1>1, RemovingTimer, TypeParts DEF Struct, Lists
<1> QED BY <1>1, <1>2, StartDues

LEMMA CancelDues ==
    ASSUME Struct, Struct', Dues, NEW t \in Timer, KeCancelTimer(t)
    PROVE  Dues'
<1>0. TimerType
  BY TypeParts DEF Struct
<1>1. /\ pc = "idle" /\ RemoveTreeTimer(t)
      /\ inserted' = [inserted EXCEPT ![t] = FALSE]
      /\ UNCHANGED <<clockVars, signal, absolute, due, period, dpc, asked, insertVars,
                     exp, scanVars, delta, absList, dpcList>>
  BY DEF KeCancelTimer, CanCall
<1>2. Range(expired') \subseteq Range(expired)
  BY <1>1, RemovingTimer, TypeParts DEF Struct, Lists
<1>3. \A u \in Timer : inserted'[u] => inserted[u]
  BY <1>0, <1>1 DEF TimerType
<1>4. \A u \in Timer : inserted'[u] => Reaches(u)
  BY <1>1, <1>3, KeptDues
<1>5. UNCHANGED <<pc, cur, interval>>
  BY <1>1 DEF insertVars
<1> QED BY <1>1, <1>2, <1>4, <1>5, QuietDues DEF clockVars

LEMMA StartingDues == Init => Dues
<1> SUFFICES ASSUME Init PROVE Dues
  OBVIOUS
<1>1. ExpiredDue
  BY DEF Init, ExpiredDue, Range
<1> QED BY <1>1 DEF Init, Dues, KeptReach, IndexReach, FailedDue

(* DuesStep needs that no timer expires that is not due: the time read at  *)
(* the start of the expiration has passed.                                 *)
LEMMA DuesStep ==
    ASSUME Struct, Struct', Dues, [Next]_vars, exp = "scan" => curTime <= Now
    PROVE  Dues'
<1>1. CASE Tick \/ Link \/ Scan \/ Dequeue \/ ReadTime \/ ReadHand \/ CheckTable \/ RunDpcs
           \/ DpcRoutine \/ UNCHANGED vars
  <2>1. /\ tick' \in {tick, tick + 1}
        /\ UNCHANGED <<bias, absolute, due, asked, inserted, cur, interval, delta, absList>>
        /\ exp' = "collect" <=> exp = "collect"
        /\ exp' = "absolute" => exp = "absolute"
        /\ pc' = pc \/ (pc = "link" /\ pc' \notin {"index", "failed"})
    BY <1>1 DEF Tick, Link, Scan, Dequeue, ReadTime, ReadHand, CheckTable, RunDpcs, DpcRoutine,
       vars, clockVars, timerVars, insertVars, listVars
  <2>2. \A t \in Range(expired') : t \in Range(expired) \/ due[t] <= Now
    <3>1. CASE Scan
      <4>1. curTime <= Now /\ Now \in Nat /\ curTime \in Nat
        BY <3>1, Numbers DEF Scan, Struct
      <4>2. \A t \in InTable : due[t] \in Int
        BY Numbers DEF Struct
      <4>3. \A t \in Range(expired') : t \in Range(expired) \/ (t \in InTable /\ due[t] <= curTime)
        BY <3>1, ScanStruct
      <4> QED BY <4>1, <4>2, <4>3
    <3>2. CASE ~Scan
      <4>1. expired' = expired
        BY <1>1, <3>2 DEF Tick, Link, Dequeue, ReadTime, ReadHand, CheckTable, RunDpcs,
           DpcRoutine, vars, listVars
      <4> QED BY <4>1
    <3> QED BY <3>1, <3>2
  <2>3. \A t \in Timer : inserted'[t] /\ ~(t = cur' /\ pc' = "index") => Reaches(t)
    BY <2>1, KeptDues
  <2>4. pc' = "failed" /\ exp' = "absolute" => due[cur'] <= Now /\ Reaches(cur')
    BY <2>1 DEF Dues, FailedDue
  <2> QED BY <2>1, <2>2, <2>3, <2>4, QuietDues
<1>2. ASSUME NEW t \in Timer, NEW p \in Period, NEW d \in HasDpc,
             (\E time \in Delay : KeSetTimerEx(t, FALSE, time, p, d))
             \/ \E time \in Absolute : KeSetTimerEx(t, TRUE, time, p, d)
      PROVE  Dues'
  <2>1. PICK isTime \in BOOLEAN, time \in Nat : KeSetTimerEx(t, isTime, time, p, d)
    BY <1>2, KeTimerAssumption
  <2> QED BY <2>1, SetDues
<1>3. ASSUME NEW t \in Timer, KeCancelTimer(t) PROVE Dues'
  BY <1>3, CancelDues
<1>4. ASSUME NEW time \in NewTime, KeSetSystemTime(time) PROVE Dues'
  BY <1>4, SetSystemTimeDues, KeTimerAssumption
<1>5. CASE ComputeIndex \/ Verify \/ InsertAgain \/ Inserted \/ Expire
  BY <1>5, IndexDues, VerifyDues, AgainDues, InsertedDues, ExpireDues
<1>6. CASE SettingTime
  BY <1>6, CollectDues, ReinsertDues, ReinsertOverDues DEF SettingTime
<1> QED BY <1>1, <1>2, <1>3, <1>4, <1>5, <1>6 DEF Next, Insertion, Expiration

-----------------------------------------------------------------------------
(* That no timer is passed over.                                           *)

(* What was due before this has been seen by the clock interrupt: all up   *)
(* to now, or up to the tick for which the expiration is queued.           *)
Floor == IF dpcQueued THEN dpcArg * Increment ELSE Now

(* The expiration starts from a hand behind the clock, and no timer is due *)
(* before that hand's tick.  Once it has read the time, a timer is either  *)
(* due by that time or not before Floor; while it scans, those due by that *)
(* time are in lists still ahead of it; and when it has scanned, and when  *)
(* none runs, every timer is due at Floor or later, but for one that is    *)
(* about to be verified.                                                   *)
QueuedBehind == dpcQueued => dpcArg < tick
ArgBehind ==
    exp \in {"time", "hand"} => arg < tick /\ \A t \in InTable : due[t] >= arg * Increment
TimeRead  == exp \in {"hand", "scan", "check"} => curTime <= Now
StillDue  == exp \in {"hand", "scan"} => \A t \in InTable : due[t] >= Floor \/ due[t] <= curTime
ToScan ==
    exp = "scan" =>
        \E d \in 1..TableSize :
            /\ (index + d) % TableSize = handLimit
            /\ \A t \in InTable : due[t] <= curTime =>
                   \E k \in 1..d : Bucket(due[t]) = (index + k) % TableSize
Scanned   == exp = "check" => \A t \in InTable : due[t] > curTime
Settled   ==
    exp \notin {"time", "hand", "scan"} =>
        \A t \in InTable : (t = cur /\ pc = "verify") \/ due[t] >= Floor

Misses == QueuedBehind /\ ArgBehind /\ TimeRead /\ StillDue /\ ToScan /\ Scanned /\ Settled

LEMMA FloorBelow ==
    ASSUME ClockType, QueuedBehind
    PROVE  Floor \in Int /\ Floor <= Now /\ Now \in Nat
<1>1. /\ tick \in Nat /\ Now \in Nat /\ Now = tick * Increment /\ Increment \in Nat \ {0}
  BY ClockReads
<1>2. CASE dpcQueued
  <2>1. dpcArg \in Nat /\ dpcArg <= tick
    BY <1>1, <1>2 DEF ClockType, QueuedBehind
  <2>2. Increment * dpcArg <= Increment * tick
    BY <1>1, <2>1, ProductGrows
  <2>3. /\ dpcArg * Increment = Increment * dpcArg /\ tick * Increment = Increment * tick
        /\ dpcArg * Increment \in Int
    BY <1>1, <2>1
  <2>4. Floor = dpcArg * Increment
    BY <1>2 DEF Floor
  <2> QED BY <1>1, <2>2, <2>3, <2>4
<1>3. CASE ~dpcQueued
  BY <1>1, <1>3 DEF Floor
<1> QED BY <1>2, <1>3

(* Where no expiration reads the table, and none starts to. *)
LEMMA SettledStep ==
    ASSUME Misses, UNCHANGED <<tick, dpcQueued, dpcArg>>,
           exp' \notin {"time", "hand", "scan", "check"},
           \A t \in InTable' : (t = cur' /\ pc' = "verify") \/ due'[t] >= Floor
    PROVE  Misses'
<1>1. Floor' = Floor
  BY DEF Floor, Now
<1>2. Settled'
  BY <1>1 DEF Settled
<1> QED BY <1>2 DEF Misses, QueuedBehind, ArgBehind, TimeRead, StillDue, ToScan, Scanned

LEMMA DequeueMisses ==
    ASSUME Struct, Misses, Dequeue
    PROVE  Misses'
<1>1. /\ dpcQueued /\ pc = "idle" /\ exp = "idle" /\ ~dpcQueued' /\ arg' = dpcArg /\ exp' = "time"
      /\ UNCHANGED <<tick, bias, dpcArg, table, timerVars, insertVars,
                     curTime, index, handLimit, listVars>>
  BY DEF Dequeue
<1>2. InTable' = InTable
  BY <1>1, QuietStruct
<1>3. \A t \in InTable : due[t] >= dpcArg * Increment
  BY <1>1 DEF Misses, Settled, Floor
<1>4. dpcArg < tick
  BY <1>1 DEF Misses, QueuedBehind
<1>5. ArgBehind'
  BY <1>1, <1>2, <1>3, <1>4 DEF ArgBehind, timerVars
<1> QED BY <1>1, <1>5 DEF Misses, QueuedBehind, TimeRead, StillDue, ToScan, Scanned, Settled

LEMMA ReadTimeMisses ==
    ASSUME Struct, Misses, ReadTime
    PROVE  Misses'
<1>1. /\ exp = "time" /\ exp' = "hand" /\ curTime' = Now
      /\ UNCHANGED <<clockVars, table, timerVars, insertVars,
                     arg, index, handLimit, listVars>>
  BY DEF ReadTime
<1>2. InTable' = InTable
  BY <1>1, QuietStruct
<1>3. Floor' = Floor /\ Now' = Now
  BY <1>1 DEF Floor, Now, clockVars
<1>4. Floor \in Int /\ Floor <= Now /\ Now \in Nat
  BY FloorBelow, TypeParts DEF Struct, Misses
<1>5. \A t \in InTable : due[t] \in Int
  BY Numbers DEF Struct
<1>6. StillDue'
  <2>1. \A t \in InTable : due[t] >= Floor \/ due[t] <= Now
    BY <1>4, <1>5
  <2> QED BY <1>1, <1>2, <1>3, <2>1 DEF StillDue, timerVars
<1>7. ArgBehind'
  BY <1>1, <1>2 DEF Misses, ArgBehind, timerVars, clockVars
<1>8. TimeRead'
  BY <1>1, <1>3, <1>4 DEF TimeRead
<1>9. QueuedBehind'
  BY <1>1 DEF Misses, QueuedBehind, clockVars
<1> QED BY <1>1, <1>6, <1>7, <1>8, <1>9 DEF Misses, ToScan, Scanned, Settled

LEMMA ReadHandMisses ==
    ASSUME Struct, Misses, ReadHand
    PROVE  Misses'
<1>0. ClockType /\ ScanType
  BY TypeParts DEF Struct
<1>1. /\ exp = "hand" /\ exp' = "scan"
      /\ UNCHANGED <<clockVars, table, timerVars, insertVars, curTime, arg, listVars>>
  BY DEF ReadHand
<1>2. \/ tick - arg >= TableSize /\ index' = TableSize - 1 /\ handLimit' = TableSize - 1
      \/ /\ tick - arg < TableSize
         /\ index' = (arg + TableSize - 1) % TableSize
         /\ handLimit' = tick % TableSize
  BY DEF ReadHand
<1>3. InTable' = InTable
  BY QuietStruct
<1>4. Floor' = Floor /\ Now' = Now
  BY <1>1 DEF Floor, Now, clockVars
<1>5. /\ tick \in Nat /\ arg \in Nat /\ arg < tick /\ curTime <= Now /\ curTime \in Nat
      /\ Now = tick * Increment /\ Now \in Nat
      /\ Increment \in Nat \ {0} /\ TableSize \in Nat \ {0}
  BY <1>0, <1>1, ClockReads DEF Misses, ArgBehind, TimeRead, ScanType
<1>6. \A t \in InTable : due[t] \in Int /\ due[t] >= arg * Increment
  BY <1>1, Numbers DEF Struct, Misses, ArgBehind
<1>7. ToScan'
  <2> SUFFICES \E d \in 1..TableSize :
                 /\ (index' + d) % TableSize = handLimit'
                 /\ \A t \in InTable : due[t] <= curTime =>
                       \E k \in 1..d : Bucket(due[t]) = (index' + k) % TableSize
    BY <1>1, <1>3 DEF ToScan, timerVars, Bucket
  <2>1. CASE tick - arg >= TableSize /\ index' = TableSize - 1 /\ handLimit' = TableSize - 1
    <3>1. (index' + TableSize) % TableSize = handLimit'
      <4>1. ((TableSize - 1) + TableSize) % TableSize = (TableSize - 1) % TableSize
        <5> DEFINE x == TableSize - 1
        <5>1. x \in Int
          BY <1>5
        <5> HIDE DEF x
        <5>2. (x + TableSize) % TableSize = x % TableSize
          BY <1>5, <5>1, WholeTurn
        <5> QED BY <5>2 DEF x
      <4>2. (TableSize - 1) % TableSize = TableSize - 1
        <5>1. TableSize - 1 = TableSize * 0 + (TableSize - 1) /\ TableSize - 1 \in 0..(TableSize - 1)
              /\ TableSize - 1 \in Int
          BY <1>5
        <5> QED BY <1>5, <5>1, QuotientUnique
      <4> QED BY <2>1, <4>1, <4>2
    <3>2. ASSUME NEW t \in InTable
          PROVE  \E k \in 1..TableSize : Bucket(due[t]) = (index' + k) % TableSize
      <4> DEFINE b == Bucket(due[t])
      <4>1. b \in 0..(TableSize - 1) /\ b % TableSize = b
        <5>1. due[t] \div Increment \in Int
          BY <1>5, <1>6, Divides
        <5>2. b \in 0..(TableSize - 1)
          BY <1>5, <5>1, Divides DEF Bucket
        <5> HIDE DEF b
        <5>3. b = TableSize * 0 + b /\ b \in Int
          BY <1>5, <5>2
        <5> QED BY <1>5, <5>2, <5>3, QuotientUnique
      <4> HIDE DEF b
      <4>2. b + 1 \in 1..TableSize /\ index' + (b + 1) = b + TableSize /\ b \in Int
        BY <1>5, <2>1, <4>1
      <4>3. (b + TableSize) % TableSize = b
        BY <1>5, <4>1, <4>2, WholeTurn
      <4>4. b = (index' + (b + 1)) % TableSize
        BY <4>2, <4>3
      <4> QED BY <4>2, <4>4 DEF b
    <3>3. TableSize \in 1..TableSize
      BY <1>5
    <3> QED BY <3>1, <3>2, <3>3
  <2>2. CASE /\ tick - arg < TableSize
             /\ index' = (arg + TableSize - 1) % TableSize
             /\ handLimit' = tick % TableSize
    <3> DEFINE d == (tick - arg) + 1
    <3>1. d \in 1..TableSize
      BY <1>5, <2>2
    <3>2. \A k \in Int : (index' + k) % TableSize = ((arg + k) - 1) % TableSize
      <4> SUFFICES ASSUME NEW k \in Int
                   PROVE  (index' + k) % TableSize = ((arg + k) - 1) % TableSize
        OBVIOUS
      <4>1. arg + TableSize - 1 \in Int
        BY <1>5
      <4>2. (index' + k) % TableSize = ((arg + TableSize - 1) + k) % TableSize
        BY <1>5, <2>2, <4>1, TurnsReduced
      <4>3. (arg + TableSize - 1) + k = ((arg + k) - 1) + TableSize /\ (arg + k) - 1 \in Int
        BY <1>5
      <4> QED BY <1>5, <4>2, <4>3, WholeTurn
    <3>3. (index' + d) % TableSize = handLimit'
      <4>1. d \in Int /\ (arg + d) - 1 = tick
        BY <1>5
      <4> QED BY <2>2, <3>2, <4>1
    <3>4. ASSUME NEW t \in InTable, due[t] <= curTime
          PROVE  \E k \in 1..d : Bucket(due[t]) = (index' + k) % TableSize
      <4> DEFINE q == due[t] \div Increment
      <4>1. due[t] \in Int /\ arg * Increment <= due[t] /\ due[t] <= tick * Increment
        <5>1. arg * Increment \in Int
          BY <1>5
        <5>2. due[t] <= Now
          BY <1>5, <1>6, <3>4
        <5>3. due[t] \in Int /\ arg * Increment <= due[t]
          BY <1>6, <5>1
        <5> QED BY <1>5, <5>2, <5>3
      <4>2. q \in arg..tick
        <5>1. arg \in Int /\ tick \in Int
          BY <1>5
        <5> QED BY <1>5, <4>1, <5>1, TickBetween
      <4>3. Bucket(due[t]) = q % TableSize
        BY DEF Bucket
      <4> HIDE DEF q
      <4> DEFINE k == (q - arg) + 1
      <4>4. k \in 1..d /\ k \in Int /\ (arg + k) - 1 = q
        BY <1>5, <4>2
      <4>5. (index' + k) % TableSize = q % TableSize
        BY <3>2, <4>4
      <4> QED BY <4>3, <4>4, <4>5
    <3> QED BY <3>1, <3>3, <3>4
  <2> QED BY <1>2, <2>1, <2>2
<1>8. StillDue'
  BY <1>1, <1>3, <1>4 DEF Misses, StillDue, timerVars
<1>9. TimeRead' /\ QueuedBehind'
  BY <1>1, <1>4 DEF Misses, TimeRead, QueuedBehind, clockVars
<1> QED BY <1>1, <1>7, <1>8, <1>9 DEF Misses, ArgBehind, Scanned, Settled

LEMMA ScanMisses ==
    ASSUME Struct, Misses, Scan
    PROVE  Misses'
<1>0. ClockType /\ ScanType
  BY TypeParts DEF Struct
<1>1. /\ exp = "scan" /\ exp' = IF index' = handLimit THEN "check" ELSE "scan"
      /\ UNCHANGED <<clockVars, timerVars, insertVars, curTime, arg, handLimit,
                     delta, absList, dpcList>>
  BY DEF Scan
<1>2. /\ index' = (index + 1) % TableSize
      /\ InTable' \subseteq InTable
      /\ \A t \in InTable' : due[t] > curTime \/ Bucket(due[t]) # index'
  BY ScanStruct
<1>3. Floor' = Floor /\ Now' = Now
  BY <1>1 DEF Floor, Now, clockVars
<1>4. index \in Int /\ TableSize \in Nat \ {0} /\ curTime \in Nat /\ handLimit \in Hand
      /\ index' \in Int
  <2>1. index \in Hand /\ handLimit \in Hand /\ curTime \in Nat
    BY <1>0 DEF ScanType
  <2>2. TableSize \in Nat \ {0}
    BY <1>0, ClockReads
  <2>3. index \in Int /\ index + 1 \in Int
    BY <2>1, <2>2 DEF Hand
  <2>4. index' \in 0..(TableSize - 1)
    BY <1>2, <2>2, <2>3, Divides
  <2> QED BY <2>1, <2>2, <2>3, <2>4
<1>5. PICK d \in 1..TableSize :
         /\ (index + d) % TableSize = handLimit
         /\ \A t \in InTable : due[t] <= curTime =>
               \E k \in 1..d : Bucket(due[t]) = (index + k) % TableSize
  BY <1>1 DEF Misses, ToScan
<1>6. \A t \in InTable : due[t] \in Int
  BY Numbers DEF Struct
<1>7. d \in Int
  BY <1>4
<1>8. \A k \in Int : (index' + (k - 1)) % TableSize = (index + k) % TableSize
  <2> SUFFICES ASSUME NEW k \in Int
               PROVE  (index' + (k - 1)) % TableSize = (index + k) % TableSize
    OBVIOUS
  <2>1. index + 1 \in Int /\ k - 1 \in Int /\ (index + 1) + (k - 1) = index + k
    BY <1>4
  <2>2. (((index + 1) % TableSize) + (k - 1)) % TableSize = ((index + 1) + (k - 1)) % TableSize
    BY <1>4, <2>1, TurnsReduced
  <2> QED BY <1>2, <2>1, <2>2
<1>9. ASSUME NEW t \in InTable', due[t] <= curTime
      PROVE  \E k \in 2..d : Bucket(due[t]) = (index + k) % TableSize
  <2>1. t \in InTable /\ Bucket(due[t]) # index'
    BY <1>2, <1>4, <1>6, <1>9
  <2>2. PICK k \in 1..d : Bucket(due[t]) = (index + k) % TableSize
    BY <1>5, <1>9, <2>1
  <2>3. k # 1
    BY <1>2, <2>1, <2>2
  <2>4. k \in 2..d
    BY <1>7, <2>3
  <2> QED BY <2>2, <2>4
<1>10. CASE index' = handLimit
  <2>1. d = 1
    BY <1>2, <1>4, <1>5, <1>10, OneTurn
  <2>2. ASSUME NEW t \in InTable', due[t] <= curTime PROVE FALSE
    BY <1>9, <2>1, <2>2
  <2>3. \A t \in InTable' : due[t] > curTime
    BY <1>2, <1>4, <1>6, <2>2
  <2>4. \A t \in InTable' : due[t] >= Floor
    <3>1. \A t \in InTable : due[t] >= Floor \/ due[t] <= curTime
      BY <1>1 DEF Misses, StillDue
    <3> QED BY <1>2, <2>2, <3>1
  <2>5. Scanned' /\ Settled'
    BY <1>1, <1>3, <2>3, <2>4 DEF Scanned, Settled, timerVars
  <2>6. TimeRead' /\ QueuedBehind'
    BY <1>1, <1>3 DEF Misses, TimeRead, QueuedBehind, clockVars
  <2>7. exp' = "check"
    BY <1>1, <1>10
  <2> QED BY <2>5, <2>6, <2>7 DEF Misses, ArgBehind, StillDue, ToScan
<1>11. CASE index' # handLimit
  <2>1. d # 1
    BY <1>2, <1>5, <1>11
  <2>2. d - 1 \in 1..TableSize /\ d - 1 \in Int
    BY <1>4, <2>1
  <2>3. (index' + (d - 1)) % TableSize = handLimit
    BY <1>5, <1>7, <1>8
  <2>4. ASSUME NEW t \in InTable', due[t] <= curTime
        PROVE  \E k \in 1..(d - 1) : Bucket(due[t]) = (index' + k) % TableSize
    <3>1. PICK k \in 2..d : Bucket(due[t]) = (index + k) % TableSize
      BY <1>9, <2>4
    <3>2. k - 1 \in 1..(d - 1) /\ k \in Int
      BY <1>7
    <3>3. Bucket(due[t]) = (index' + (k - 1)) % TableSize
      BY <1>8, <3>1, <3>2
    <3> QED BY <3>2, <3>3
  <2>5. ToScan'
    <3>1. \E e \in 1..TableSize :
             /\ (index' + e) % TableSize = handLimit
             /\ \A t \in InTable' : due[t] <= curTime =>
                   \E k \in 1..e : Bucket(due[t]) = (index' + k) % TableSize
      BY <2>2, <2>3, <2>4
    <3> QED BY <1>1, <3>1 DEF ToScan, timerVars, Bucket
  <2>6. StillDue'
    BY <1>1, <1>2, <1>3 DEF Misses, StillDue, timerVars
  <2>7. TimeRead' /\ QueuedBehind'
    BY <1>1, <1>3 DEF Misses, TimeRead, QueuedBehind, clockVars
  <2>8. exp' = "scan"
    BY <1>1, <1>11
  <2> QED BY <2>5, <2>6, <2>7, <2>8 DEF Misses, ArgBehind, Scanned, Settled
<1> QED BY <1>10, <1>11

(* The clock interrupt looks at the list of the tick that ends.            *)
LEMMA TickMisses ==
    ASSUME Struct, Struct', Misses, Tick
    PROVE  Misses'
<1>0. ClockType /\ ClockType' /\ TimerType /\ ListType /\ Lists
  BY TypeParts, TypePartsNext DEF Struct
<1> DEFINE hand == table[tick % TableSize]
<1>1. /\ tick' = tick + 1
      /\ IF hand # <<>> /\ due[hand[1]] <= Now' /\ ~dpcQueued
         THEN dpcQueued' = TRUE /\ dpcArg' = tick
         ELSE UNCHANGED <<dpcQueued, dpcArg>>
      /\ UNCHANGED <<bias, table, timerVars, insertVars, exp, scanVars, listVars>>
  BY DEF Tick
<1>2. /\ tick \in Nat /\ Now \in Nat /\ Now = tick * Increment
      /\ Increment \in Nat \ {0} /\ TableSize \in Nat \ {0}
  BY <1>0, ClockReads
<1>3. Now' = Now + Increment /\ Now' \in Nat /\ Now' = (tick + 1) * Increment
  <2>1. Now' = Now + Increment /\ Now' \in Nat
    BY <1>0, <1>1, NowGrows
  <2> QED BY <1>1, <2>1 DEF Now
<1>4. InTable' = InTable
  BY <1>1 DEF InTable
<1>5. \A t \in InTable : t \in Timer /\ due[t] \in Int
  BY Numbers DEF Struct
<1>6. QueuedBehind'
  <2>1. CASE dpcQueued' = TRUE /\ dpcArg' = tick
    BY <1>1, <1>2, <2>1 DEF QueuedBehind
  <2>2. CASE UNCHANGED <<dpcQueued, dpcArg>>
    <3>1. dpcQueued => dpcArg < tick /\ dpcArg \in Nat
      BY <1>0 DEF Misses, QueuedBehind, ClockType
    <3> QED BY <1>1, <1>2, <2>2, <3>1 DEF QueuedBehind
  <2> QED BY <1>1, <2>1, <2>2
<1>7. ASSUME NEW t \in InTable, due[t] >= Floor
      PROVE  due[t] >= Floor'
  <2>1. CASE dpcQueued
    <3>1. Floor' = Floor
      BY <1>1, <2>1 DEF Floor
    <3> QED BY <1>7, <3>1
  <2>2. CASE ~dpcQueued /\ dpcQueued' = TRUE /\ dpcArg' = tick
    <3>1. Floor' = Floor
      BY <1>2, <2>2 DEF Floor
    <3> QED BY <1>7, <3>1
  <2>3. CASE ~dpcQueued /\ UNCHANGED <<dpcQueued, dpcArg>>
            /\ ~(hand # <<>> /\ due[hand[1]] <= Now')
    <3>1. Floor = Now /\ Floor' = Now'
      BY <2>3 DEF Floor
    <3>2. ASSUME due[t] < Now' PROVE FALSE
      <4>1. /\ due[t] \in Int /\ tick * Increment <= due[t] /\ due[t] < (tick + 1) * Increment
            /\ tick \in Int
        BY <1>2, <1>3, <1>5, <1>7, <3>1, <3>2
      <4>2. due[t] \div Increment = tick
        BY <1>2, <4>1, TickOf
      <4>3. Bucket(due[t]) = tick % TableSize
        BY <4>2 DEF Bucket
      <4>4. tick % TableSize \in Hand /\ t \in Range(hand)
        BY <1>0, <4>3, WhereInTable
      <4>5. ListOK(tick % TableSize, hand, due)
        BY <1>0, <4>4 DEF Lists, ListsOK
      <4> HIDE DEF hand
      <4>6. hand \in Seq(Timer)
        BY <4>5 DEF ListOK
      <4>7. PICK j \in 1..Len(hand) : hand[j] = t
        BY <4>4, <4>6, Position
      <4>8. 1 \in 1..Len(hand) /\ 1 <= j /\ hand # <<>>
        BY <4>6
      <4>9. due[hand[1]] <= due[t]
        BY <4>5, <4>7, <4>8 DEF ListOK
      <4>10. hand[1] \in Timer /\ due[hand[1]] \in Int
        BY <1>0, <4>6, <4>8 DEF TimerType
      <4>11. due[hand[1]] <= Now'
        BY <1>3, <1>5, <3>2, <4>9, <4>10
      <4> QED BY <2>3, <4>8, <4>11
    <3> QED BY <1>3, <1>5, <3>1, <3>2
  <2> HIDE DEF hand
  <2> QED BY <1>1, <2>1, <2>2, <2>3
<1> HIDE DEF hand
<1>8. Settled' /\ StillDue'
  BY <1>1, <1>4, <1>7 DEF Misses, Settled, StillDue, timerVars, insertVars, scanVars
<1>9. ArgBehind'
  <2>1. exp \in {"time", "hand"} => arg < tick /\ arg \in Nat
    BY TypeParts DEF Struct, ScanType, Misses, ArgBehind
  <2> QED BY <1>1, <1>2, <1>4, <2>1 DEF Misses, ArgBehind, timerVars, scanVars
<1>10. TimeRead'
  <2>1. curTime \in Nat
    BY Numbers DEF Struct
  <2>2. exp \in {"hand", "scan", "check"} => curTime <= Now + Increment
    BY <1>2, <2>1 DEF Misses, TimeRead
  <2> QED BY <1>1, <1>3, <2>2 DEF TimeRead, scanVars
<1>11. ToScan' /\ Scanned'
  BY <1>1, <1>4 DEF Misses, ToScan, Scanned, Bucket, timerVars, scanVars
<1> QED BY <1>6, <1>8, <1>9, <1>10, <1>11 DEF Misses

LEMMA StartMisses == Init => Misses
<1> SUFFICES ASSUME Init PROVE Misses
  OBVIOUS
<1>1. InTable = {}
  <2>1. \A i \in Hand : table[i] = <<>>
    BY DEF Init
  <2>2. Range(<<>>) = {}
    BY DEF Range
  <2> QED BY <2>1, <2>2 DEF InTable
<1> QED BY <1>1 DEF Init, Misses, QueuedBehind, ArgBehind, TimeRead, StillDue, ToScan, Scanned,
                      Settled

(* The calls that insert, take away and move timers.                       *)
Call ==
    \/ \E t \in Timer : KeCancelTimer(t)
    \/ \E t \in Timer, isTime \in BOOLEAN, time \in Nat, p \in Period, d \in HasDpc :
          KeSetTimerEx(t, isTime, time, p, d)
    \/ \E time \in Nat : KeSetSystemTime(time)

LEMMA OtherMisses ==
    ASSUME Struct, Struct', Misses,
           \/ ComputeIndex \/ Link \/ Verify \/ InsertAgain \/ Inserted
           \/ CheckTable \/ Expire \/ RunDpcs \/ DpcRoutine
           \/ CollectAbsolute \/ Reinsert \/ ReinsertOver
           \/ Call
    PROVE  Misses'
<1>0. ClockType /\ TimerType /\ InsertType /\ Lists /\ Phases
  BY TypeParts DEF Struct
<1>1. Floor \in Int /\ Floor <= Now /\ Now \in Nat
  BY <1>0, FloorBelow DEF Misses
<1>2. \A t \in InTable : t \in Timer /\ due[t] \in Int
  BY Numbers DEF Struct
<1>3. ASSUME exp \notin {"time", "hand", "scan"}, NEW t \in InTable,
             ~(t = cur /\ pc = "verify")
      PROVE  due[t] >= Floor
  BY <1>3 DEF Misses, Settled
<1>4. CASE ComputeIndex
  <2>1. /\ pc = "index" /\ pc' = "link" /\ cur' = cur /\ exp' = exp
        /\ UNCHANGED <<tick, dpcQueued, dpcArg, table>>
        /\ due' = [due EXCEPT ![cur] = Now + interval]
    BY <1>4 DEF ComputeIndex, clockVars
  <2>2. exp \in {"idle", "routines", "full", "list", "absolute"}
    BY <1>0, <2>1 DEF Phases
  <2>3. cur \in Timer /\ cur \notin InTable
    BY <1>0, <2>1, CurrentTimer DEF Lists, Linked, Between
  <2>4. InTable' = InTable
    BY <2>1 DEF InTable
  <2>5. \A t \in InTable : due'[t] = due[t]
    BY <1>0, <1>2, <2>1, <2>3 DEF TimerType
  <2>6. \A t \in InTable' : due'[t] >= Floor
    BY <1>3, <2>1, <2>2, <2>4, <2>5
  <2> QED BY <2>1, <2>2, <2>6, SettledStep
<1>5. CASE Link
  <2>1. pc = "link" /\ UNCHANGED <<tick, dpcQueued, dpcArg, exp, due, cur>>
    BY <1>5 DEF Link, clockVars, timerVars
  <2>2. exp \in {"idle", "routines", "full", "list", "absolute"}
    BY <1>0, <2>1 DEF Phases
  <2>3. /\ InTable' = InTable \cup {cur} /\ cur \in Timer
        /\ pc' = "verify" \/ (pc' = "done" /\ \E u \in InTable : u # cur /\ due[u] <= due[cur])
    BY <1>5, LinkStruct
  <2>4. pc' # "verify" => due[cur] >= Floor
    <3>1. ASSUME NEW u \in InTable, u # cur, due[u] <= due[cur] PROVE due[cur] >= Floor
      <4>1. due[u] >= Floor /\ due[u] \in Int
        BY <1>2, <1>3, <2>2, <3>1
      <4>2. due[cur] \in Int
        BY <1>0, <2>3 DEF TimerType
      <4> QED BY <1>1, <3>1, <4>1, <4>2
    <3> QED BY <2>3, <3>1
  <2>5. \A t \in InTable : due[t] >= Floor
    BY <1>3, <2>1, <2>2
  <2>6. \A t \in InTable' : (t = cur' /\ pc' = "verify") \/ due'[t] >= Floor
    BY <2>1, <2>3, <2>4, <2>5
  <2> QED BY <2>1, <2>2, <2>6, SettledStep
<1>6. CASE Verify
  <2>1. /\ pc = "verify" /\ UNCHANGED <<tick, dpcQueued, dpcArg, exp, due, cur>>
        /\ (pc' = "done" /\ due[cur] > Now) \/ RemoveTreeTimer(cur)
    BY <1>6 DEF Verify, clockVars
  <2>2. exp \in {"idle", "routines", "full", "list", "absolute"} /\ cur \in InTable
    BY <1>0, <2>1 DEF Phases
  <2>3. InTable' \subseteq InTable
    BY <1>6, VerifyStruct
  <2>4. cur \in InTable' => due[cur] >= Floor
    <3>1. CASE due[cur] > Now
      BY <1>1, <1>2, <2>2, <3>1
    <3>2. CASE RemoveTreeTimer(cur)
      BY <1>0, <3>2, RemovingTimer, TypeParts DEF Struct, Lists
    <3> QED BY <2>1, <3>1, <3>2
  <2>5. \A t \in InTable' : due'[t] >= Floor
    BY <1>3, <2>1, <2>2, <2>3, <2>4
  <2> QED BY <2>1, <2>2, <2>5, SettledStep
<1>7. CASE InsertAgain \/ Inserted \/ CheckTable \/ Expire \/ RunDpcs \/ DpcRoutine
           \/ CollectAbsolute \/ ReinsertOver
           \/ Call
  <2>1. UNCHANGED <<tick, dpcQueued, dpcArg, due>>
    BY <1>7 DEF InsertAgain, Inserted, CheckTable, Expire, RunDpcs, DpcRoutine, CollectAbsolute,
       ReinsertOver, Call, KeCancelTimer, KeSetTimerEx, KeSetSystemTime,
       clockVars, timerVars
  <2>2. pc \in {"idle", "done", "failed"} \/ exp \in {"check", "collect"}
    BY <1>7 DEF InsertAgain, Inserted, CheckTable, Expire, RunDpcs, DpcRoutine, CollectAbsolute,
       ReinsertOver, Call, KeCancelTimer, KeSetTimerEx, KeSetSystemTime, CanCall
  <2>3. pc # "verify"
    BY <1>0, <2>2 DEF Phases
  <2>4. exp \notin {"time", "hand", "scan"} /\ exp' \notin {"time", "hand", "scan", "check"}
    <3>1. CASE InsertAgain \/ Inserted
      <4>1. pc # "idle" /\ exp' = exp
        BY <3>1 DEF InsertAgain, Inserted
      <4> QED BY <1>0, <4>1 DEF Phases
    <3>2. CASE CheckTable \/ Expire \/ RunDpcs \/ DpcRoutine \/ CollectAbsolute \/ ReinsertOver
      BY <3>2 DEF CheckTable, Expire, RunDpcs, DpcRoutine, CollectAbsolute, ReinsertOver
    <3>3. CASE Call
      BY <3>3 DEF Call, KeCancelTimer, KeSetTimerEx, KeSetSystemTime, CanCall
    <3> QED BY <1>7, <3>1, <3>2, <3>3
  <2>5. InTable' \subseteq InTable
    BY <1>7, AgainStruct, InsertedStruct, QuietStruct, ExpireStruct, CollectStruct,
       CancelStruct, SetStruct, SetSystemTimeStruct DEF Call
  <2>6. \A t \in InTable' : due'[t] >= Floor
    BY <1>3, <2>1, <2>3, <2>4, <2>5
  <2> QED BY <2>1, <2>4, <2>6, SettledStep
<1>8. CASE Reinsert
  <2>1. exp = "absolute" /\ pc = "idle" /\ UNCHANGED <<tick, dpcQueued, dpcArg, exp>>
    BY <1>8 DEF Reinsert, clockVars
  <2>2. /\ InTable' = InTable /\ cur' \notin InTable /\ cur' \in Timer
        /\ due' = [due EXCEPT ![cur'] = @ - delta]
    BY <1>8, ReinsertStruct
  <2>3. \A t \in InTable : due'[t] = due[t]
    BY <1>0, <1>2, <2>2 DEF TimerType
  <2>4. \A t \in InTable' : due'[t] >= Floor
    BY <1>3, <2>1, <2>2, <2>3
  <2> QED BY <2>1, <2>4, SettledStep
<1> QED BY <1>4, <1>5, <1>6, <1>7, <1>8, Zenon

LEMMA MissesStep ==
    ASSUME Struct, Struct', Misses, [Next]_vars
    PROVE  Misses'
<1>1. CASE Tick
  BY <1>1, TickMisses
<1>2. CASE Dequeue \/ ReadTime \/ ReadHand \/ Scan
  BY <1>2, DequeueMisses, ReadTimeMisses, ReadHandMisses, ScanMisses
<1>3. CASE UNCHANGED vars
  <2>1. InTable' = InTable /\ Floor' = Floor /\ Now' = Now
    BY <1>3 DEF vars, clockVars, InTable, Floor, Now
  <2> QED BY <1>3, <2>1 DEF vars, clockVars, timerVars, insertVars, scanVars, Misses, QueuedBehind,
              ArgBehind, TimeRead, StillDue, ToScan, Scanned, Settled, Bucket
<1>4. ASSUME NEW t \in Timer, NEW p \in Period, NEW d \in HasDpc,
             (\E time \in Delay : KeSetTimerEx(t, FALSE, time, p, d))
             \/ \E time \in Absolute : KeSetTimerEx(t, TRUE, time, p, d)
      PROVE  Misses'
  <2>1. PICK isTime \in BOOLEAN, time \in Nat : KeSetTimerEx(t, isTime, time, p, d)
    BY <1>4, KeTimerAssumption
  <2> QED BY <2>1, OtherMisses DEF Call
<1>5. ASSUME NEW t \in Timer, KeCancelTimer(t) PROVE Misses'
  BY <1>5, OtherMisses DEF Call
<1>6. ASSUME NEW time \in NewTime, KeSetSystemTime(time) PROVE Misses'
  <2>1. time \in Nat
    BY KeTimerAssumption
  <2> QED BY <1>6, <2>1, OtherMisses DEF Call
<1>7. CASE \/ ComputeIndex \/ Link \/ Verify \/ InsertAgain \/ Inserted
           \/ CheckTable \/ Expire \/ RunDpcs \/ DpcRoutine
           \/ CollectAbsolute \/ Reinsert \/ ReinsertOver
  BY <1>7, OtherMisses
<1> QED BY <1>1, <1>2, <1>3, <1>4, <1>5, <1>6, <1>7 DEF Next, Insertion, Expiration, SettingTime

-----------------------------------------------------------------------------
(* The inductive invariant and what follows from it.                       *)

TimerInv == Struct /\ Dues /\ Misses

LEMMA TimerStart == Init => TimerInv
BY StartStruct, StartingDues, StartMisses DEF TimerInv

LEMMA TimerStep == TimerInv /\ [Next]_vars => TimerInv'
<1> SUFFICES ASSUME TimerInv, [Next]_vars PROVE TimerInv'
  OBVIOUS
<1>1. Struct'
  BY StructStep DEF TimerInv
<1>2. exp = "scan" => curTime <= Now
  BY DEF TimerInv, Misses, TimeRead
<1>3. Dues'
  BY <1>1, <1>2, DuesStep DEF TimerInv
<1>4. Misses'
  BY <1>1, MissesStep DEF TimerInv
<1> QED BY <1>1, <1>3, <1>4 DEF TimerInv

LEMMA TimerInductive == Spec => []TimerInv
<1>1. Init => TimerInv
  BY TimerStart
<1>2. TimerInv /\ [Next]_vars => TimerInv'
  BY TimerStep
<1> QED BY <1>1, <1>2, PTL DEF Spec

(* KiInsertTimerTable, KiRemoveTreeTimer, the expiration and               *)
(* KeSetSystemTime keep every inserted timer on one list, once, the lists  *)
(* of the table in the order of due times, and every timer in the list its *)
(* due time hashes to: for any number of timers, lists and ticks.          *)
THEOREM TableIsOrdered == Spec => []TableOK
<1>1. TimerInv => TableOK
  BY TableParts DEF TimerInv, Struct
<1> QED BY <1>1, TimerInductive, PTL

(* Whenever the clock interrupts insertions and the expiration, the first  *)
(* timer of the hand's list tells it enough: with no expiration running or *)
(* queued no timer is overdue, and KiCheckTimerTable finds none after the  *)
(* scan.                                                                   *)
THEOREM NoTimerIsMissed == Spec => []NoTimerMissed
<1>1. TimerInv => NoTimerMissed
  <2> SUFFICES ASSUME TimerInv PROVE NoTimerMissed
    OBVIOUS
  <2>1. pc = "idle" /\ exp = "idle" /\ ~dpcQueued => \A t \in InTable : due[t] >= Now
    BY DEF TimerInv, Misses, Settled, Floor
  <2>2. exp = "check" => \A t \in InTable : due[t] > curTime
    BY DEF TimerInv, Misses, Scanned
  <2> QED BY <2>1, <2>2 DEF NoTimerMissed
<1> QED BY <1>1, TimerInductive, PTL

-----------------------------------------------------------------------------
(* NeverEarly of one timer.                                                *)
NotEarly(t) ==
    signal[t] = 0 /\ signal'[t] = 1 =>
        IF asked[t] = NoTime /\ asked'[t] = NoTime THEN Now >= due'[t]
        ELSE SystemTime >= (IF asked'[t] = NoTime THEN asked[t] ELSE asked'[t])

(* When a timer that reaches the system time it was set to is due, the     *)
(* system clock shows that time.                                           *)
LEMMA DueReaches ==
    ASSUME TypeOK, NEW t \in Timer, Reaches(t), due[t] - Moving(t) <= Now, asked[t] # NoTime
    PROVE  SystemTime >= asked[t]
<1>1. /\ due[t] \in Int /\ asked[t] \in Nat /\ bias \in Int /\ Now \in Nat /\ Moving(t) \in Int
  BY Numbers
<1>2. SystemTime = Now + bias
  BY ClockReads, TypeParts
<1>3. due[t] + bias - Moving(t) >= asked[t]
  BY DEF Reaches
<1> QED BY <1>1, <1>2, <1>3

LEMMA StartNotEarly ==
    ASSUME Struct, NEW t \in Timer, NEW isTime \in BOOLEAN, NEW time \in Nat,
           StartInsert(t, isTime, time, 0),
           asked' = [asked EXCEPT ![t] = IF isTime THEN time ELSE NoTime],
           NEW u \in Timer
    PROVE  NotEarly(u)
<1>1. ClockType /\ TimerType /\ InsertType
  BY TypeParts DEF Struct
<1>2. /\ pc' = "failed" \/ pc' = "index"
      /\ \A v \in Timer \ {t} : signal'[v] = signal[v]
      /\ pc' = "failed" => isTime /\ SystemTime >= time /\ signal'[t] = 1
      /\ pc' = "index" => signal'[t] = 0
  BY <1>1, Starting
<1>3. asked'[t] = IF isTime THEN time ELSE NoTime
  BY <1>1 DEF TimerType
<1>4. CASE u # t
  BY <1>2, <1>4 DEF NotEarly
<1>5. CASE u = t /\ pc' = "index"
  BY <1>2, <1>5 DEF NotEarly
<1>6. CASE u = t /\ pc' = "failed"
  <2>1. asked'[t] = time /\ asked'[t] # NoTime /\ SystemTime >= time
    BY <1>2, <1>3, <1>6, KeTimerAssumption
  <2> QED BY <1>6, <2>1 DEF NotEarly
<1> QED BY <1>2, <1>4, <1>5, <1>6

LEMMA ExpireNotEarly ==
    ASSUME Struct, Dues, Expire, NEW u \in Timer
    PROVE  NotEarly(u)
<1>1. ClockType /\ TimerType /\ InsertType /\ ListType /\ Lists /\ Phases
  BY TypeParts DEF Struct
<1> DEFINE t == expired[1]
<1>2. /\ exp = "list" /\ pc = "idle" /\ expired # <<>> /\ UNCHANGED due
      /\ \/ signal' = [signal EXCEPT ![t] = 1] /\ UNCHANGED asked
         \/ /\ StartInsert(t, FALSE, period[t], 1)
            /\ asked' = [asked EXCEPT ![t] = NoTime]
  BY DEF Expire, ListOver
<1>3. t \in Timer /\ t \in Range(expired)
  BY <1>1, <1>2, FirstOf DEF ListType, Lists, ListsOK
<1> HIDE DEF t
<1>4. u # t => signal'[u] = signal[u]
  BY <1>1, <1>2, <1>3 DEF StartInsert, TimerType
<1>5. asked'[t] = asked[t] \/ asked'[t] = NoTime
  BY <1>1, <1>2, <1>3 DEF TimerType
<1>6. due[t] <= Now /\ due[t] \in Int /\ Now \in Nat
  BY <1>3, Numbers DEF Dues, ExpiredDue, Struct
<1>7. inserted[t] /\ Reaches(t)
  BY <1>1, <1>2, <1>3, KeptDues DEF Lists, Linked
<1>8. Moving(t) = 0
  BY <1>1, <1>2 DEF Phases, Moving, Range
<1>9. asked[t] # NoTime => SystemTime >= asked[t]
  <2>1. due[t] - Moving(t) <= Now
    BY <1>6, <1>8
  <2> QED BY <1>3, <1>7, <2>1, DueReaches DEF Struct
<1> QED BY <1>2, <1>4, <1>5, <1>6, <1>9 DEF NotEarly

LEMMA VerifyNotEarly ==
    ASSUME Struct, Dues, Verify, NEW u \in Timer
    PROVE  NotEarly(u)
<1>1. ClockType /\ TimerType /\ InsertType /\ ListType /\ Lists /\ Phases
  BY TypeParts DEF Struct
<1>2. /\ pc = "verify" /\ UNCHANGED <<due, asked>>
      /\ UNCHANGED signal \/ (due[cur] <= Now /\ signal' = [signal EXCEPT ![cur] = 1])
  BY DEF Verify
<1>3. cur \in Timer /\ inserted[cur] /\ cur \in InTable
  BY <1>1, <1>2, CurrentTimer DEF Phases
<1>4. CASE UNCHANGED signal
  BY <1>4 DEF NotEarly
<1>5. CASE due[cur] <= Now /\ signal' = [signal EXCEPT ![cur] = 1]
  <2>1. Reaches(cur)
    BY <1>2, <1>3, KeptDues
  <2>2. cur \notin Range(absList) /\ exp # "collect"
    BY <1>1, <1>2, <1>3 DEF Lists, Apart, Phases
  <2>3. Moving(cur) = 0 /\ due[cur] \in Int /\ Now \in Nat
    BY <1>3, <2>2, Numbers DEF Moving, Struct
  <2>4. asked[cur] # NoTime => SystemTime >= asked[cur]
    <3>1. due[cur] - Moving(cur) <= Now
      BY <1>5, <2>3
    <3> QED BY <1>3, <2>1, <3>1, DueReaches DEF Struct
  <2>5. u # cur => signal'[u] = signal[u]
    BY <1>1, <1>3, <1>5 DEF TimerType
  <2> QED BY <1>2, <1>5, <2>3, <2>4, <2>5 DEF NotEarly
<1> QED BY <1>2, <1>4, <1>5

LEMMA ReinsertNotEarly ==
    ASSUME Struct, Dues, Reinsert, NEW u \in Timer
    PROVE  NotEarly(u)
<1>1. ClockType /\ TimerType /\ InsertType /\ ListType /\ Lists /\ Phases
  BY TypeParts DEF Struct
<1> DEFINE t == absList[1]
<1>2. /\ t \in Timer /\ t \in Range(absList)
      /\ due' = [due EXCEPT ![t] = @ - delta]
  <2>1. cur' = t /\ cur' \in Timer /\ cur' \in Range(absList)
        /\ due' = [due EXCEPT ![cur'] = @ - delta]
    BY ReinsertStruct
  <2> QED BY <2>1
<1>3. /\ exp = "absolute" /\ pc = "idle" /\ UNCHANGED asked
      /\ signal' = [signal EXCEPT ![t] = IF due[t] - delta <= Now THEN 1
                                         ELSE IF period[t] = 0 THEN 0 ELSE @]
  BY DEF Reinsert
<1> HIDE DEF t
<1>4. u # t => signal'[u] = signal[u]
  BY <1>1, <1>2, <1>3 DEF TimerType
<1>5. signal[t] = 0 /\ signal'[t] = 1 => due[t] - delta <= Now
  BY <1>1, <1>2, <1>3 DEF TimerType
<1>6. due'[t] = due[t] - delta
  BY <1>1, <1>2 DEF TimerType
<1>7. inserted[t] /\ Reaches(t)
  BY <1>1, <1>2, <1>3, KeptDues DEF Lists, Linked
<1>8. Moving(t) = delta
  BY <1>2 DEF Moving
<1>9. due[t] \in Int /\ delta \in Int /\ Now \in Nat
  BY <1>2, Numbers DEF Struct
<1>10. asked[t] # NoTime /\ due[t] - delta <= Now => SystemTime >= asked[t]
  BY <1>2, <1>7, <1>8, DueReaches DEF Struct
<1> QED BY <1>3, <1>4, <1>5, <1>6, <1>9, <1>10 DEF NotEarly

LEMMA NeverEarlyStep ==
    ASSUME TimerInv, [Next]_vars, NEW u \in Timer
    PROVE  NotEarly(u)
<1>0. Struct /\ Dues
  BY DEF TimerInv
<1>1. ASSUME NEW t \in Timer, NEW p \in Period, NEW d \in HasDpc,
             (\E time \in Delay : KeSetTimerEx(t, FALSE, time, p, d))
             \/ \E time \in Absolute : KeSetTimerEx(t, TRUE, time, p, d)
      PROVE  NotEarly(u)
  <2>1. PICK isTime \in BOOLEAN, time \in Nat : KeSetTimerEx(t, isTime, time, p, d)
    BY <1>1, KeTimerAssumption
  <2>2. /\ StartInsert(t, isTime, time, 0)
        /\ asked' = [asked EXCEPT ![t] = IF isTime THEN time ELSE NoTime]
    BY <2>1 DEF KeSetTimerEx
  <2> QED BY <1>0, <2>2, StartNotEarly
<1>2. CASE InsertAgain
  <2>1. /\ pc = "failed" /\ StartInsert(cur, FALSE, period[cur], 1)
    BY <1>2 DEF InsertAgain
  <2>2. cur \in Timer /\ signal[cur] = 1 /\ TimerType
    BY <1>0, <2>1, CurrentTimer, TypeParts DEF Struct, Phases
  <2>3. u # cur => signal'[u] = signal[u]
    BY <2>1, <2>2 DEF StartInsert, TimerType
  <2> QED BY <2>2, <2>3 DEF NotEarly
<1>3. CASE Verify \/ Expire \/ Reinsert
  BY <1>0, <1>3, VerifyNotEarly, ExpireNotEarly, ReinsertNotEarly
<1>4. CASE \/ UNCHANGED vars \/ Tick \/ ComputeIndex \/ Link \/ Inserted
           \/ Dequeue \/ ReadTime \/ ReadHand \/ Scan \/ CheckTable \/ RunDpcs \/ DpcRoutine
           \/ CollectAbsolute \/ ReinsertOver
           \/ \E t \in Timer : KeCancelTimer(t)
           \/ \E time \in NewTime : KeSetSystemTime(time)
  <2>1. UNCHANGED signal
    BY <1>4 DEF vars, timerVars, Tick, ComputeIndex, Link, Inserted, Dequeue, ReadTime, ReadHand,
       Scan, CheckTable, RunDpcs, DpcRoutine, CollectAbsolute, ReinsertOver, KeCancelTimer,
       KeSetSystemTime
  <2> QED BY <2>1 DEF NotEarly
<1> QED BY <1>1, <1>2, <1>3, <1>4 DEF Next, Insertion, Expiration, SettingTime

(* KiInsertTreeTimer, KiReinsertTreeTimer and KiTimerListExpire signal no  *)
(* timer before its due time, nor before the system time it was set to,    *)
(* however KeSetSystemTime has moved the clock and the timers meanwhile.   *)
THEOREM NoTimerIsEarly == Spec => NeverEarly
<1>1. TimerInv /\ [Next]_vars =>
        [\A t \in Timer :
            signal[t] = 0 /\ signal'[t] = 1 =>
                IF asked[t] = NoTime /\ asked'[t] = NoTime THEN Now >= due'[t]
                ELSE SystemTime >= (IF asked'[t] = NoTime THEN asked[t] ELSE asked'[t])
        ]_vars
  BY NeverEarlyStep DEF NotEarly
<1> QED BY <1>1, TimerInductive, PTL DEF Spec, NeverEarly

-----------------------------------------------------------------------------
(* The queue of DPCs.  The interrupt may have been requested while the     *)
(* list is empty for two reasons only: a DPC routine is active, or a       *)
(* removal has emptied the list.                                           *)
RequestAccounted == dpcRequested /\ queue = <<>> => active \/ emptied

DpcInv == DpcTypeOK /\ ListMatchesMarks /\ ListAttended /\ RequestAccounted

(* A DPC taken out of a list without repetitions, wherever it is.          *)
LEMMA Removal ==
    ASSUME NEW S, NEW q \in Seq(S), NEW i \in DOMAIN q,
           \A j, k \in DOMAIN q : q[j] = q[k] => j = k
    PROVE  /\ RemoveAt(q, i) \in Seq(S)
           /\ \A e : (\E j \in DOMAIN RemoveAt(q, i) : RemoveAt(q, i)[j] = e)
                     <=> e # q[i] /\ \E j \in DOMAIN q : q[j] = e
           /\ \A j, k \in DOMAIN RemoveAt(q, i) :
                 RemoveAt(q, i)[j] = RemoveAt(q, i)[k] => j = k
<1> DEFINE r == RemoveAt(q, i)
<1>1. i \in 1..Len(q) /\ Len(q) \in Nat
  OBVIOUS
<1> DEFINE a == SubSeq(q, 1, i - 1)
           b == SubSeq(q, i + 1, Len(q))
<1>a. a \in Seq(S) /\ Len(a) = i - 1 /\ \A j \in 1..(i - 1) : a[j] = q[j]
  BY <1>1
<1>b. b \in Seq(S) /\ Len(b) = Len(q) - i /\ \A j \in 1..(Len(q) - i) : b[j] = q[j + i]
  BY <1>1
<1>c. r = a \o b
  BY DEF RemoveAt
<1> HIDE DEF a, b, r
<1>2. r \in Seq(S) /\ Len(r) = Len(q) - 1
  BY <1>1, <1>a, <1>b, <1>c
<1>3. \A j \in 1..(Len(q) - 1) : r[j] = IF j < i THEN q[j] ELSE q[j + 1]
  BY <1>1, <1>a, <1>b, <1>c
<1>4. DOMAIN r = 1..(Len(q) - 1) /\ DOMAIN q = 1..Len(q)
  BY <1>2
<1>5. ASSUME NEW e, NEW j \in DOMAIN r, r[j] = e
      PROVE  e # q[i] /\ \E k \in DOMAIN q : q[k] = e
  BY <1>1, <1>3, <1>4, <1>5
<1>6. ASSUME NEW e, e # q[i], NEW j \in DOMAIN q, q[j] = e
      PROVE  \E k \in DOMAIN r : r[k] = e
  <2>1. CASE j < i
    BY <1>1, <1>3, <1>4, <1>6, <2>1
  <2>2. CASE j > i
    <3>1. j - 1 \in DOMAIN r /\ r[j - 1] = e
      BY <1>1, <1>3, <1>4, <1>6, <2>2
    <3> QED BY <3>1
  <2> QED BY <1>1, <1>4, <1>6, <2>1, <2>2
<1>7. ASSUME NEW j \in DOMAIN r, NEW k \in DOMAIN r, r[j] = r[k]
      PROVE  j = k
  <2> DEFINE old(m) == IF m < i THEN m ELSE m + 1
  <2>1. \A m \in DOMAIN r : old(m) \in DOMAIN q /\ r[m] = q[old(m)]
    BY <1>1, <1>3, <1>4
  <2>2. old(j) = old(k)
    BY <1>7, <1>1, <2>1
  <2> QED BY <1>1, <1>4, <2>2
<1> QED BY <1>2, <1>5, <1>6, <1>7 DEF r

LEMMA Appended ==
    ASSUME NEW S, NEW q \in Seq(S), NEW d \in S
    PROVE  /\ Append(q, d) \in Seq(S) /\ Append(q, d) # <<>>
           /\ DOMAIN Append(q, d) = 1..(Len(q) + 1) /\ DOMAIN q = 1..Len(q) /\ Len(q) \in Nat
           /\ Append(q, d)[Len(q) + 1] = d
           /\ \A j \in DOMAIN q : Append(q, d)[j] = q[j]
OBVIOUS

LEMMA Taken ==
    ASSUME NEW S, NEW q \in Seq(S), q # <<>>
    PROVE  /\ Head(q) \in S /\ Head(q) = q[1] /\ 1 \in DOMAIN q
           /\ Tail(q) \in Seq(S)
           /\ DOMAIN Tail(q) = 1..(Len(q) - 1) /\ DOMAIN q = 1..Len(q) /\ Len(q) \in Nat
           /\ \A j \in DOMAIN Tail(q) : Tail(q)[j] = q[j + 1]
OBVIOUS

-----------------------------------------------------------------------------
(* What the three things done to the list do to it and to the marks.       *)
LEMMA Inserting ==
    ASSUME DpcTypeOK, ListMatchesMarks, NEW d \in Dpc, ~dpcInserted[d], InsertTail(d)
    PROVE  /\ queue' \in Seq(Dpc) /\ dpcInserted' \in [Dpc -> BOOLEAN] /\ queue' # <<>>
           /\ ListMatchesMarks'
<1>1. queue \in Seq(Dpc) /\ dpcInserted \in [Dpc -> BOOLEAN]
  BY DEF DpcTypeOK
<1>2. /\ queue' = Append(queue, d)
      /\ dpcInserted' = [dpcInserted EXCEPT ![d] = TRUE]
  BY DEF InsertTail
<1>3. /\ queue' \in Seq(Dpc) /\ queue' # <<>>
      /\ DOMAIN queue' = 1..(Len(queue) + 1) /\ DOMAIN queue = 1..Len(queue)
      /\ Len(queue) \in Nat
      /\ queue'[Len(queue) + 1] = d
      /\ \A j \in DOMAIN queue : queue'[j] = queue[j]
  BY <1>1, <1>2, Appended
<1>4. ASSUME NEW c \in Dpc
      PROVE  dpcInserted'[c] <=> \E i \in DOMAIN queue' : queue'[i] = c
  <2>1. dpcInserted'[c] <=> c = d \/ dpcInserted[c]
    BY <1>1, <1>2
  <2>2. dpcInserted[c] <=> \E i \in DOMAIN queue : queue[i] = c
    BY DEF ListMatchesMarks
  <2>3. (\E i \in DOMAIN queue' : queue'[i] = c)
        <=> c = d \/ \E i \in DOMAIN queue : queue[i] = c
    BY <1>3
  <2> QED BY <2>1, <2>2, <2>3
<1>5. ASSUME NEW i \in DOMAIN queue', NEW j \in DOMAIN queue', queue'[i] = queue'[j]
      PROVE  i = j
  BY <1>3, <1>5 DEF ListMatchesMarks
<1>6. dpcInserted' \in [Dpc -> BOOLEAN]
  BY <1>1, <1>2
<1> QED BY <1>3, <1>4, <1>5, <1>6 DEF ListMatchesMarks

LEMMA Calling ==
    ASSUME DpcTypeOK, ListMatchesMarks, NEW where, CallRoutine(where)
    PROVE  /\ queue' \in Seq(Dpc) /\ dpcInserted' \in [Dpc -> BOOLEAN] /\ running' \in Dpc
           /\ ListMatchesMarks'
<1>1. queue \in Seq(Dpc) /\ dpcInserted \in [Dpc -> BOOLEAN] /\ queue # <<>>
  BY DEF DpcTypeOK, CallRoutine
<1>2. /\ queue' = Tail(queue) /\ running' = Head(queue)
      /\ dpcInserted' = [dpcInserted EXCEPT ![Head(queue)] = FALSE]
  BY DEF CallRoutine
<1>3. /\ Head(queue) \in Dpc /\ Head(queue) = queue[1] /\ 1 \in DOMAIN queue
      /\ queue' \in Seq(Dpc)
      /\ DOMAIN queue' = 1..(Len(queue) - 1) /\ DOMAIN queue = 1..Len(queue)
      /\ Len(queue) \in Nat
      /\ \A j \in DOMAIN queue' : queue'[j] = queue[j + 1]
  BY <1>1, <1>2, Taken
<1>4. ASSUME NEW c \in Dpc
      PROVE  dpcInserted'[c] <=> \E i \in DOMAIN queue' : queue'[i] = c
  <2>1. dpcInserted'[c] <=> c # queue[1] /\ dpcInserted[c]
    BY <1>1, <1>2, <1>3
  <2>2. dpcInserted[c] <=> \E i \in DOMAIN queue : queue[i] = c
    BY DEF ListMatchesMarks
  <2>3. ASSUME NEW i \in DOMAIN queue', queue'[i] = c
        PROVE  c # queue[1] /\ \E j \in DOMAIN queue : queue[j] = c
    BY <1>3, <2>3 DEF ListMatchesMarks
  <2>4. ASSUME c # queue[1], NEW i \in DOMAIN queue, queue[i] = c
        PROVE  \E j \in DOMAIN queue' : queue'[j] = c
    <3>1. i - 1 \in DOMAIN queue' /\ queue'[i - 1] = c
      BY <1>3, <2>4
    <3> QED BY <3>1
  <2> QED BY <2>1, <2>2, <2>3, <2>4
<1>5. ASSUME NEW i \in DOMAIN queue', NEW j \in DOMAIN queue', queue'[i] = queue'[j]
      PROVE  i = j
  <2>1. i + 1 \in DOMAIN queue /\ j + 1 \in DOMAIN queue /\ queue[i + 1] = queue[j + 1]
    BY <1>3, <1>5
  <2> QED BY <1>3, <2>1 DEF ListMatchesMarks
<1>6. dpcInserted' \in [Dpc -> BOOLEAN]
  BY <1>1, <1>2
<1> QED BY <1>2, <1>3, <1>4, <1>5, <1>6 DEF ListMatchesMarks

LEMMA Removing ==
    ASSUME DpcTypeOK, ListMatchesMarks, NEW d \in Dpc, KeRemoveQueueDpc(d)
    PROVE  queue' \in Seq(Dpc) /\ dpcInserted' \in [Dpc -> BOOLEAN] /\ ListMatchesMarks'
<1>1. queue \in Seq(Dpc) /\ dpcInserted \in [Dpc -> BOOLEAN]
  BY DEF DpcTypeOK
<1>2. PICK i \in DOMAIN queue : queue[i] = d /\ queue' = RemoveAt(queue, i)
  BY DEF KeRemoveQueueDpc
<1>3. dpcInserted' = [dpcInserted EXCEPT ![d] = FALSE]
  BY DEF KeRemoveQueueDpc
<1>4. \A j, k \in DOMAIN queue : queue[j] = queue[k] => j = k
  BY DEF ListMatchesMarks
<1>5. /\ queue' \in Seq(Dpc)
      /\ \A e : (\E j \in DOMAIN queue' : queue'[j] = e)
                <=> e # d /\ \E j \in DOMAIN queue : queue[j] = e
      /\ \A j, k \in DOMAIN queue' : queue'[j] = queue'[k] => j = k
  <2>1. /\ RemoveAt(queue, i) \in Seq(Dpc)
        /\ \A e : (\E j \in DOMAIN RemoveAt(queue, i) : RemoveAt(queue, i)[j] = e)
                  <=> e # queue[i] /\ \E j \in DOMAIN queue : queue[j] = e
        /\ \A j, k \in DOMAIN RemoveAt(queue, i) :
              RemoveAt(queue, i)[j] = RemoveAt(queue, i)[k] => j = k
    BY <1>1, <1>4, Removal, Zenon
  <2> QED BY <1>2, <2>1, Zenon
<1>6. \A c \in Dpc : dpcInserted'[c] <=> c # d /\ dpcInserted[c]
  BY <1>1, <1>3
<1>7. \A c \in Dpc : dpcInserted'[c] <=> \E j \in DOMAIN queue' : queue'[j] = c
  BY <1>5, <1>6 DEF ListMatchesMarks
<1> QED BY <1>1, <1>3, <1>5, <1>7 DEF ListMatchesMarks

-----------------------------------------------------------------------------
LEMMA DpcStart == DpcInit => DpcInv
<1> SUFFICES ASSUME DpcInit PROVE DpcInv
  OBVIOUS
<1>1. DpcTypeOK
  <2>1. queue \in Seq(Dpc) /\ dpcInserted \in [Dpc -> BOOLEAN]
    BY DEF DpcInit
  <2>2. running = NoDpc /\ active = FALSE /\ level = "idle"
    BY DEF DpcInit
  <2> QED BY <2>1, <2>2 DEF DpcInit, DpcTypeOK
<1>2. ListMatchesMarks
  BY DEF DpcInit, ListMatchesMarks
<1> QED BY <1>1, <1>2 DEF DpcInit, DpcInv, ListAttended, RequestAccounted

LEMMA DpcStep == DpcInv /\ [DpcNext]_dpcVars => DpcInv'
<1> SUFFICES ASSUME DpcInv, [DpcNext]_dpcVars PROVE DpcInv'
  OBVIOUS
<1> USE DEF DpcInv
<1>0. ASSUME UNCHANGED <<queue, dpcInserted>>
      PROVE  queue' \in Seq(Dpc) /\ dpcInserted' \in [Dpc -> BOOLEAN] /\ ListMatchesMarks'
  BY <1>0 DEF DpcTypeOK, ListMatchesMarks
<1>1. ASSUME NEW d \in Dpc, KeInsertQueueDpc(d)
      PROVE  DpcInv'
  <2>1. queue' \in Seq(Dpc) /\ dpcInserted' \in [Dpc -> BOOLEAN] /\ queue' # <<>> /\ ListMatchesMarks'
    BY <1>1, Inserting DEF KeInsertQueueDpc
  <2>2. DpcTypeOK'
    BY <1>1, <2>1 DEF KeInsertQueueDpc, DpcTypeOK
  <2>3. ListAttended'
    <3>1. CASE dpcRequested
      BY <1>1, <3>1 DEF KeInsertQueueDpc, DpcTypeOK, ListAttended, RequestAccounted, Attended
    <3>2. CASE ~dpcRequested
      BY <1>1, <3>2 DEF KeInsertQueueDpc, DpcTypeOK, ListAttended, Attended
    <3> QED BY <3>1, <3>2
  <2> QED BY <2>1, <2>2, <2>3 DEF RequestAccounted
<1>2. ASSUME NEW d \in Dpc, KeRemoveQueueDpc(d)
      PROVE  DpcInv'
  <2>1. queue' \in Seq(Dpc) /\ dpcInserted' \in [Dpc -> BOOLEAN] /\ ListMatchesMarks'
    BY <1>2, Removing
  <2>2. queue # <<>>
    BY <1>2 DEF KeRemoveQueueDpc, ListMatchesMarks
  <2>3. DpcTypeOK'
    BY <1>2, <2>1 DEF KeRemoveQueueDpc, DpcTypeOK
  <2> QED BY <1>2, <2>1, <2>2, <2>3 DEF KeRemoveQueueDpc, ListAttended, RequestAccounted, Attended
<1>3. CASE KeClockInterrupt
  <2>1. queue' \in Seq(Dpc) /\ dpcInserted' \in [Dpc -> BOOLEAN] /\ queue' # <<>> /\ ListMatchesMarks'
    BY <1>3, KeDpcAssumption, Inserting DEF KeClockInterrupt
  <2>2. DpcTypeOK'
    BY <1>3, <2>1 DEF KeClockInterrupt, DpcTypeOK
  <2> QED BY <1>3, <2>1, <2>2 DEF KeClockInterrupt, ListAttended, RequestAccounted, Attended
<1>4. CASE KiDispatchInterrupt
  <2>1. CASE CallRoutine("routine")
    <3>1. queue' \in Seq(Dpc) /\ dpcInserted' \in [Dpc -> BOOLEAN] /\ running' \in Dpc /\ ListMatchesMarks'
      BY <2>1, Calling
    <3>2. DpcTypeOK'
      BY <1>4, <2>1, <3>1, KeDpcAssumption DEF KiDispatchInterrupt, CallRoutine, DpcTypeOK
    <3> QED BY <1>4, <2>1, <3>1, <3>2
            DEF KiDispatchInterrupt, CallRoutine, ListAttended, RequestAccounted, Attended
  <2>2. CASE queue = <<>> /\ level' = "exit" /\ UNCHANGED <<queue, dpcInserted, running, active>>
    <3>1. queue' \in Seq(Dpc) /\ dpcInserted' \in [Dpc -> BOOLEAN] /\ ListMatchesMarks'
      BY <1>0, <2>2
    <3>2. DpcTypeOK'
      BY <1>4, <2>2, <3>1 DEF KiDispatchInterrupt, DpcTypeOK
    <3> QED BY <1>4, <2>2, <3>1, <3>2 DEF KiDispatchInterrupt, ListAttended, RequestAccounted
  <2> QED BY <1>4, <2>1, <2>2 DEF KiDispatchInterrupt
<1>5. CASE KiRetireDpcList
  <2>1. CASE CallRoutine(level) /\ UNCHANGED <<dpcRequested, emptied>>
    <3>1. queue' \in Seq(Dpc) /\ dpcInserted' \in [Dpc -> BOOLEAN] /\ running' \in Dpc /\ ListMatchesMarks'
      BY <2>1, Calling
    <3>2. DpcTypeOK'
      BY <1>5, <2>1, <3>1, KeDpcAssumption DEF KiRetireDpcList, CallRoutine, DpcTypeOK
    <3> QED BY <1>5, <2>1, <3>1, <3>2
            DEF KiRetireDpcList, CallRoutine, ListAttended, RequestAccounted, Attended
  <2>2. CASE Retired /\ level' = IF level = "routine" THEN "exit" ELSE "idle"
    <3>1. queue' \in Seq(Dpc) /\ dpcInserted' \in [Dpc -> BOOLEAN] /\ ListMatchesMarks'
      BY <1>0, <2>2 DEF Retired
    <3>2. DpcTypeOK'
      BY <1>5, <2>2, <3>1 DEF KiRetireDpcList, Retired, DpcTypeOK
    <3> QED BY <1>5, <2>2, <3>1, <3>2 DEF KiRetireDpcList, Retired, ListAttended, RequestAccounted
  <2> QED BY <1>5, <2>1, <2>2 DEF KiRetireDpcList
<1>6. CASE IdleRetiresDpcs
  <2>1. queue' \in Seq(Dpc) /\ dpcInserted' \in [Dpc -> BOOLEAN] /\ running' \in Dpc /\ ListMatchesMarks'
    BY <1>6, Calling DEF IdleRetiresDpcs
  <2>2. DpcTypeOK'
    BY <1>6, <2>1, KeDpcAssumption DEF IdleRetiresDpcs, CallRoutine, DpcTypeOK
  <2> QED BY <1>6, <2>1, <2>2
          DEF IdleRetiresDpcs, CallRoutine, ListAttended, RequestAccounted, Attended
<1>7. ASSUME \/ QuantumEnd \/ HalpDispatchInterrupt \/ DispatchInterruptReturns \/ KiIdleLoop
             \/ KeRaiseIrql \/ KfLowerIrql \/ SwitchToIdle \/ UNCHANGED dpcVars
      PROVE  DpcInv'
  <2> USE DEF QuantumEnd, HalpDispatchInterrupt, DispatchInterruptReturns, KiIdleLoop,
              KeRaiseIrql, KfLowerIrql, SwitchToIdle, dpcVars
  <2>1. UNCHANGED <<queue, dpcInserted, active, dpcRequested, running, emptied>>
    BY <1>7
  <2>2. queue' \in Seq(Dpc) /\ dpcInserted' \in [Dpc -> BOOLEAN] /\ ListMatchesMarks'
    BY <1>0, <2>1
  <2>3. DpcTypeOK'
    BY <1>7, <2>1, <2>2 DEF DpcTypeOK
  <2>4. ListAttended'
    BY <1>7, <2>1 DEF ListAttended, Attended
  <2> QED BY <2>1, <2>2, <2>3, <2>4 DEF RequestAccounted
<1> QED BY <1>1, <1>2, <1>3, <1>4, <1>5, <1>6, <1>7 DEF DpcNext

LEMMA DpcInductive == DpcSpec => []DpcInv
<1>1. DpcInit => DpcInv
  BY DpcStart
<1>2. DpcInv /\ [DpcNext]_dpcVars => DpcInv'
  BY DpcStep
<1> QED BY <1>1, <1>2, PTL DEF DpcSpec

(* Of the DPC list, whatever the DPCs are: the types, a routine active     *)
(* exactly while one runs (KiRetireDpcList).                               *)
THEOREM TypeCorrect == DpcSpec => []DpcTypeOK
<1>1. DpcInv => DpcTypeOK
  BY DEF DpcInv
<1> QED BY <1>1, DpcInductive, PTL

(* The Inserted marks of KeInsertQueueDpc, KeRemoveQueueDpc, the clock and *)
(* KiRetireDpcList agree with the list.                                    *)
THEOREM MarksCorrect == DpcSpec => []ListMatchesMarks
<1>1. DpcInv => ListMatchesMarks
  BY DEF DpcInv
<1> QED BY <1>1, DpcInductive, PTL

(* No DPC is left on the list with nobody to look at it, unless            *)
(* KeRemoveQueueDpc has emptied the list under a requested interrupt.      *)
THEOREM AlwaysAttended == DpcSpec => []ListAttended
<1>1. DpcInv => ListAttended
  BY DEF DpcInv
<1> QED BY <1>1, DpcInductive, PTL

=============================================================================
