---------------------------- MODULE ExTimerProofs ----------------------------
(***************************************************************************)
(* Executive timers and their objects: references are counted exactly,     *)
(* names end with handles, lists follow timers and no APC comes stale, for *)
(* any number of threads, objects and handles.                             *)
(***************************************************************************)
EXTENDS ExTimer, WaitListProofs, FiniteSetTheorems

-----------------------------------------------------------------------------
(* The invariant.                                                          *)

(* Items that own a reference. *)
Referencing == Owning \cup {"set", "cancel", "recheck"}

Item == [op : {"close"}, on : Handle]
        \cup [op : {"deref", "handle", "open", "temporary", "cancel", "recheck", "apc"}, on : Object]
        \cup [op : {"insert"}, on : Object, how : Attributes]
        \cup [op : {"set"}, on : Object, apc : BOOLEAN, period : BOOLEAN]
        \cup [op : {"rundown"}, on : {NoObject}]

(* An item that trusts in a reference comes right before the one that gives it back. *)
Trusting == {"insert", "open", "temporary"}

WellFormed(s) ==
    \A i \in DOMAIN s :
        /\ s[i].op \in Trusting => i + 1 \in DOMAIN s /\ s[i + 1] = Step("deref", s[i].on)
        /\ s[i].op = "apc" => i = 1
        /\ s[i].op = "rundown" => i = Len(s)

Header == [live : BOOLEAN, pointers : Int, handles : Int,
           attached : BOOLEAN, permanent : BOOLEAN]
ETimer == [associated : BOOLEAN, apcThread : Thread \cup {NoThread}, period : BOOLEAN,
           armed : BOOLEAN, inserted : BOOLEAN]

ObTypes ==
    /\ object \in [Object -> Header]
    /\ slot \in [Handle -> Object \cup {NoObject}]
    /\ entry \in Object \cup {NoObject}
    /\ todo \in [Thread -> Seq(Item)]

TimerTypes ==
    /\ timer \in [Object -> ETimer]
    /\ active \in [Thread -> Seq(Object)]
    /\ life \in [Thread -> {"alive", "exiting", "exited"}]
    /\ late \subseteq Thread

Calls == \A t \in Thread : WellFormed(todo[t])

Ended == \A t \in Thread : life[t] = "exited" => todo[t] = <<>> /\ active[t] = <<>>

Owners(o) == Owned(o, Referencing)
Bit(b) == IF b THEN 1 ELSE 0
Refs(o) == Cardinality(HandlesOf(o)) + Bit(entry = o) + Bit(timer[o].associated)
           + Cardinality(Owners(o))

Counted ==
    \A o \in Object :
        /\ IsFiniteSet(HandlesOf(o)) /\ IsFiniteSet(Owners(o))
        /\ object[o].pointers = Refs(o)
        /\ object[o].handles = Cardinality(HandlesOf(o))
        /\ object[o].live <=> Refs(o) > 0

Named == entry # NoObject => /\ object[entry].attached
                             /\ object[entry].permanent \/ object[entry].handles > 0

Listed == \A t \in Thread :
    /\ IsInjective(active[t])
    /\ Range(active[t]) = {o \in Object : timer[o].associated /\ timer[o].apcThread = t}

Queued == \A o \in Object :
    /\ timer[o].armed => object[o].live
    /\ timer[o].inserted => timer[o].associated
    /\ timer[o].inserted /\ ~timer[o].period => ~timer[o].armed
    /\ timer[o].associated <=> timer[o].apcThread # NoThread

Coming == \A t \in Thread : todo[t] # <<>> /\ Head(todo[t]).op = "apc" /\ Runs(t) =>
    /\ t \notin late
    /\ ~timer[On(t)].period => ~timer[On(t)].armed /\ ~timer[On(t)].inserted

ObInv == ObTypes /\ Calls /\ Counted /\ Named
TimerInv == ObInv /\ TimerTypes /\ Ended /\ Listed /\ Queued /\ Coming

-----------------------------------------------------------------------------
(* How many references of o the items of a sequence own.                   *)

Owns(x, o) == x.op \in Referencing /\ x.on = o
Places(s, o) == {i \in DOMAIN s : s[i].op \in Referencing /\ s[i].on = o}
Share(s, o) == Cardinality(Places(s, o))

LEMMA DisjointUnion ==
    ASSUME NEW S, NEW T, IsFiniteSet(S), IsFiniteSet(T), S \cap T = {}
    PROVE  /\ IsFiniteSet(S \cup T)
           /\ Cardinality(S \cup T) = Cardinality(S) + Cardinality(T)
<1>1. /\ IsFiniteSet(S \cup T)
      /\ Cardinality(S \cup T) = Cardinality(S) + Cardinality(T) - Cardinality({})
  BY FS_Union
<1>2. Cardinality({}) = 0 /\ Cardinality(S) \in Nat /\ Cardinality(T) \in Nat
  BY FS_EmptySet, FS_CardinalityType
<1> QED BY <1>1, <1>2

LEMMA ShareType ==
    ASSUME NEW s \in Seq(Item), NEW o
    PROVE  /\ IsFiniteSet(Places(s, o)) /\ Share(s, o) \in Nat
           /\ \A i \in DOMAIN s : Owns(s[i], o) => Share(s, o) > 0
<1>1. Places(s, o) \in SUBSET (1..Len(s)) /\ Len(s) \in Nat
  BY DEF Places
<1>2. IsFiniteSet(1..Len(s))
  BY <1>1, FS_Interval
<1>3. IsFiniteSet(Places(s, o))
  BY <1>1, <1>2, FS_Subset
<1>4. Share(s, o) \in Nat /\ (Share(s, o) = 0 <=> Places(s, o) = {})
  BY <1>3, FS_CardinalityType, FS_EmptySet DEF Share
<1>5. ASSUME NEW i \in DOMAIN s, Owns(s[i], o) PROVE Share(s, o) > 0
  <2>1. i \in Places(s, o)
    BY <1>5 DEF Owns, Places
  <2> QED BY <2>1, <1>4
<1> QED BY <1>3, <1>4, <1>5

LEMMA ShareConcat ==
    ASSUME NEW s \in Seq(Item), NEW u \in Seq(Item), NEW o
    PROVE  Share(s \o u, o) = Share(s, o) + Share(u, o)
<1> DEFINE n == Len(s)
           shifted == {i \in DOMAIN (s \o u) : i > n /\ (s \o u)[i].op \in Referencing
                                                     /\ (s \o u)[i].on = o}
           f == [i \in Places(u, o) |-> i + n]
<1>1. /\ n \in Nat /\ Len(u) \in Nat /\ DOMAIN s = 1..n /\ DOMAIN u = 1..Len(u)
      /\ DOMAIN (s \o u) = 1..(n + Len(u))
      /\ \A i \in 1..n : (s \o u)[i] = s[i]
      /\ \A i \in 1..(n + Len(u)) : i > n => i - n \in 1..Len(u) /\ (s \o u)[i] = u[i - n]
  OBVIOUS
<1>a. \A i \in 1..Len(u) : (s \o u)[i + n] = u[i]
  BY <1>1
<1>2. Places(s \o u, o) = Places(s, o) \cup shifted
  BY <1>1 DEF Places
<1>3. Places(s, o) \cap shifted = {}
  BY <1>1 DEF Places
<1>4. f \in Bijection(Places(u, o), shifted)
  <2>1. \A i \in Places(u, o) : i \in 1..Len(u) /\ u[i].op \in Referencing /\ u[i].on = o
    BY <1>1 DEF Places
  <2>2. \A i \in Places(u, o) : i + n \in shifted
    BY <2>1, <1>1, <1>a
  <2>3. f \in [Places(u, o) -> shifted]
    BY <2>2
  <2>4. \A i, j \in Places(u, o) : f[i] = f[j] => i = j
    BY <2>1, <1>1
  <2>5. ASSUME NEW k \in shifted PROVE \E i \in Places(u, o) : f[i] = k
    <3>1. k - n \in 1..Len(u) /\ u[k - n].op \in Referencing /\ u[k - n].on = o
      BY <1>1
    <3>2. k - n \in Places(u, o)
      BY <3>1, <1>1 DEF Places
    <3> QED BY <3>2, <1>1
  <2> QED BY <2>3, <2>4, <2>5 DEF Bijection, Injection, Surjection, IsInjective
<1>5. IsFiniteSet(shifted) /\ Cardinality(shifted) = Share(u, o)
  BY <1>4, ShareType, FS_Bijection DEF ExistsBijection, Share
<1>6. IsFiniteSet(Places(s, o)) /\ Share(s, o) \in Nat
  BY ShareType
<1> HIDE DEF shifted
<1>7. Cardinality(Places(s, o) \cup shifted) = Cardinality(Places(s, o)) + Cardinality(shifted)
  BY <1>3, <1>5, <1>6, DisjointUnion, Zenon
<1> QED BY <1>2, <1>5, <1>7, Zenon DEF Share

LEMMA ShareOne ==
    ASSUME NEW x \in Item, NEW o
    PROVE  Share(<<x>>, o) = Bit(Owns(x, o))
<1>1. CASE Owns(x, o)
  <2>1. Places(<<x>>, o) = {1}
    BY <1>1 DEF Places, Owns
  <2> QED BY <1>1, <2>1, FS_Singleton DEF Share, Bit
<1>2. CASE ~Owns(x, o)
  <2>1. Places(<<x>>, o) = {}
    BY <1>2 DEF Places, Owns
  <2> QED BY <1>2, <2>1, FS_EmptySet DEF Share, Bit
<1> QED BY <1>1, <1>2

LEMMA ShareNone == ASSUME NEW o PROVE Share(<<>>, o) = 0
<1>1. Places(<<>>, o) = {}
  BY DEF Places
<1> QED BY <1>1, FS_EmptySet DEF Share

LEMMA SameItems ==
    ASSUME NEW T, NEW s \in Seq(T), NEW u \in Seq(T), Len(s) = Len(u),
           \A i \in 1..Len(s) : s[i] = u[i]
    PROVE  s = u
OBVIOUS

LEMMA NoItems == ASSUME NEW T, NEW s \in Seq(T), Len(s) = 0 PROVE s = <<>>
<1>1. <<>> \in Seq(T) /\ Len(<<>>) = 0
  OBVIOUS
<1>2. \A i \in 1..Len(s) : s[i] = <<>>[i]
  OBVIOUS
<1> QED BY <1>1, <1>2, SameItems

LEMMA OneItem == ASSUME NEW T, NEW x \in T PROVE <<x>> \in Seq(T)
OBVIOUS

LEMMA TwoItems ==
    ASSUME NEW T, NEW x \in T, NEW y \in T
    PROVE  <<x, y>> \in Seq(T) /\ <<x, y>> = <<x>> \o <<y>>
<1> DEFINE c == <<x>> \o <<y>>
           d == <<x, y>>
<1>1. <<x>> \in Seq(T) /\ <<y>> \in Seq(T) /\ Len(<<x>>) = 1 /\ Len(<<y>>) = 1
  OBVIOUS
<1>2. c \in Seq(T) /\ Len(c) = 2 /\ c[1] = x /\ c[2] = y
  BY <1>1
<1>3. d \in Seq(T) /\ Len(d) = 2 /\ d[1] = x /\ d[2] = y
  OBVIOUS
<1> HIDE DEF c, d
<1>4. \A i \in 1..2 : c[i] = d[i]
  BY <1>2, <1>3
<1>5. \A i \in 1..Len(c) : c[i] = d[i]
  BY <1>2, <1>4
<1>6. c = d
  BY <1>2, <1>3, <1>5, SameItems
<1> QED BY <1>3, <1>6 DEF c, d

LEMMA ThreeItems ==
    ASSUME NEW T, NEW x \in T, NEW y \in T, NEW z \in T
    PROVE  <<x, y, z>> \in Seq(T) /\ <<x, y, z>> = <<x>> \o <<y, z>>
<1> DEFINE c == <<x>> \o <<y, z>>
           d == <<x, y, z>>
<1>1. <<x>> \in Seq(T) /\ <<y, z>> \in Seq(T) /\ Len(<<x>>) = 1 /\ Len(<<y, z>>) = 2
  OBVIOUS
<1>2. c \in Seq(T) /\ Len(c) = 3 /\ c[1] = x /\ c[2] = y /\ c[3] = z
  BY <1>1
<1>3. d \in Seq(T) /\ Len(d) = 3 /\ d[1] = x /\ d[2] = y /\ d[3] = z
  OBVIOUS
<1> HIDE DEF c, d
<1>4. \A i \in 1..3 : c[i] = d[i]
  BY <1>2, <1>3
<1>5. \A i \in 1..Len(c) : c[i] = d[i]
  BY <1>2, <1>4
<1>6. c = d
  BY <1>2, <1>3, <1>5, SameItems
<1> QED BY <1>3, <1>6 DEF c, d

LEMMA ShareTwo ==
    ASSUME NEW x \in Item, NEW y \in Item, NEW o
    PROVE  Share(<<x, y>>, o) = Bit(Owns(x, o)) + Bit(Owns(y, o))
<1>1. <<x, y>> = <<x>> \o <<y>>
  BY OneItem, TwoItems, ThreeItems, Zenon
<1>a. <<x>> \in Seq(Item) /\ <<y>> \in Seq(Item)
  BY OneItem, TwoItems, ThreeItems, Zenon
<1>2. Share(<<x>> \o <<y>>, o) = Share(<<x>>, o) + Share(<<y>>, o)
  <2> DEFINE a == <<x>>
             b == <<y>>
  <2>1. a \in Seq(Item) /\ b \in Seq(Item)
    BY <1>a
  <2> HIDE DEF a, b
  <2>2. Share(a \o b, o) = Share(a, o) + Share(b, o)
    BY <2>1, ShareConcat
  <2> QED BY <2>2 DEF a, b
<1>3. Share(<<x>>, o) = Bit(Owns(x, o)) /\ Share(<<y>>, o) = Bit(Owns(y, o))
  BY ShareOne, Zenon
<1> QED BY <1>1, <1>2, <1>3, Zenon

LEMMA ShareThree ==
    ASSUME NEW x \in Item, NEW y \in Item, NEW z \in Item, NEW o
    PROVE  Share(<<x, y, z>>, o) = Bit(Owns(x, o)) + Bit(Owns(y, o)) + Bit(Owns(z, o))
<1>1. <<x, y, z>> = <<x>> \o <<y, z>>
  BY OneItem, TwoItems, ThreeItems, Zenon
<1>a. <<x>> \in Seq(Item) /\ <<y, z>> \in Seq(Item)
  BY OneItem, TwoItems, ThreeItems, Zenon
<1>2. Share(<<x>> \o <<y, z>>, o) = Share(<<x>>, o) + Share(<<y, z>>, o)
  <2> DEFINE a == <<x>>
             b == <<y, z>>
  <2>1. a \in Seq(Item) /\ b \in Seq(Item)
    BY <1>a
  <2> HIDE DEF a, b
  <2>2. Share(a \o b, o) = Share(a, o) + Share(b, o)
    BY <2>1, ShareConcat
  <2> QED BY <2>2 DEF a, b
<1>3. Share(<<x>>, o) = Bit(Owns(x, o))
  BY ShareOne, Zenon
<1>4. Share(<<y, z>>, o) = Bit(Owns(y, o)) + Bit(Owns(z, o))
  BY ShareTwo, Zenon
<1>5. Share(<<x, y, z>>, o) = Bit(Owns(x, o)) + (Bit(Owns(y, o)) + Bit(Owns(z, o)))
  BY <1>1, <1>2, <1>3, <1>4, Zenon
<1>6. Bit(Owns(x, o)) \in Int /\ Bit(Owns(y, o)) \in Int /\ Bit(Owns(z, o)) \in Int
  BY DEF Bit
<1> QED BY <1>5, <1>6

LEMMA ShareHead ==
    ASSUME NEW s \in Seq(Item), s # <<>>, NEW o
    PROVE  Share(s, o) = Bit(Owns(Head(s), o)) + Share(Tail(s), o)
<1>1. s = <<Head(s)>> \o Tail(s) /\ Head(s) \in Item /\ Tail(s) \in Seq(Item)
  OBVIOUS
<1>a. <<Head(s)>> \in Seq(Item)
  BY <1>1, OneItem, Zenon
<1>2. Share(<<Head(s)>> \o Tail(s), o) = Share(<<Head(s)>>, o) + Share(Tail(s), o)
  BY <1>1, <1>a, ShareConcat, Zenon
<1>3. Share(<<Head(s)>>, o) = Bit(Owns(Head(s), o))
  BY <1>1, ShareOne, Zenon
<1> QED BY <1>1, <1>2, <1>3, Zenon

-----------------------------------------------------------------------------
(* One thread's call goes on, the others stay where they are.              *)
LEMMA OwnersStep ==
    ASSUME todo \in [Thread -> Seq(Item)], NEW t \in Thread, NEW s \in Seq(Item),
           Does(t, s), NEW o, IsFiniteSet(Owners(o))
    PROVE  /\ IsFiniteSet(Owners(o)')
           /\ Cardinality(Owners(o)') = Cardinality(Owners(o)) - Share(todo[t], o) + Share(s, o)
           /\ Cardinality(Owners(o)) \in Nat /\ Share(todo[t], o) \in Nat /\ Share(s, o) \in Nat
           /\ Share(todo[t], o) =< Cardinality(Owners(o))
<1> DEFINE others == UNION {{u} \X Places(todo[u], o) : u \in Thread \ {t}}
           mine == {t} \X Places(todo[t], o)
           new == {t} \X Places(s, o)
<1>1. Owners(o) = others \cup mine
  BY DEF Owners, Owned, Places
<1>2. /\ todo' \in [Thread -> Seq(Item)] /\ todo'[t] = s
      /\ \A u \in Thread \ {t} : todo'[u] = todo[u]
  BY DEF Does
<1>3. Owners(o)' = UNION {{u} \X Places(todo'[u], o) : u \in Thread}
  BY DEF Owners, Owned, Places
<1>4. Owners(o)' = others \cup new
  BY <1>2, <1>3
<1>5. others \cap mine = {} /\ others \cap new = {}
  OBVIOUS
<1>6. IsFiniteSet(others)
  BY <1>1, FS_Subset
<1>7. IsFiniteSet({t}) /\ Cardinality({t}) = 1
  BY FS_Singleton
<1>8. IsFiniteSet(Places(todo[t], o)) /\ IsFiniteSet(Places(s, o))
  BY ShareType
<1>9. /\ IsFiniteSet(mine) /\ Cardinality(mine) = 1 * Share(todo[t], o)
      /\ IsFiniteSet(new) /\ Cardinality(new) = 1 * Share(s, o)
  BY <1>7, <1>8, FS_Product DEF Share
<1> HIDE DEF others, mine, new
<1>10. /\ Cardinality(others \cup mine) = Cardinality(others) + Cardinality(mine)
       /\ IsFiniteSet(others \cup new)
       /\ Cardinality(others \cup new) = Cardinality(others) + Cardinality(new)
  BY <1>5, <1>6, <1>9, DisjointUnion, Zenon
<1>11. /\ Cardinality(others) \in Nat /\ Cardinality(Owners(o)) \in Nat
       /\ Share(todo[t], o) \in Nat /\ Share(s, o) \in Nat
  BY <1>6, FS_CardinalityType, ShareType
<1> QED BY <1>1, <1>4, <1>9, <1>10, <1>11

LEMMA ItemFacts ==
    ASSUME NEW x \in Item
    PROVE  /\ x.op \notin {"close", "rundown"} => x.on \in Object
           /\ x.op = "close" => x.on \in Handle
           /\ x.op = "insert" => x.how \in Attributes
BY DEF Item

LEMMA NewItems ==
    /\ \A o \in Object, op \in {"deref", "handle", "open", "temporary", "cancel", "recheck", "apc"} :
            Step(op, o) \in Item /\ Step(op, o).op = op /\ Step(op, o).on = o
    /\ \A h \in Handle :
            Step("close", h) \in Item /\ Step("close", h).op = "close" /\ Step("close", h).on = h
    /\ Step("rundown", NoObject) \in Item /\ Step("rundown", NoObject).op = "rundown"
BY DEF Item, Step

LEMMA InvTypes ==
    ASSUME ObInv, NEW o \in Object
    PROVE  /\ object[o] \in Header
           /\ object[o].live \in BOOLEAN
           /\ Cardinality(HandlesOf(o)) \in Nat /\ Cardinality(Owners(o)) \in Nat
           /\ Refs(o) \in Nat
           /\ object[o].pointers = Refs(o) /\ object[o].handles = Cardinality(HandlesOf(o))
           /\ object[o].live <=> Refs(o) > 0
<1>1. /\ IsFiniteSet(HandlesOf(o)) /\ IsFiniteSet(Owners(o))
      /\ object[o].pointers = Refs(o) /\ object[o].handles = Cardinality(HandlesOf(o))
      /\ object[o].live <=> Refs(o) > 0
  BY DEF ObInv, Counted
<1>2. Cardinality(HandlesOf(o)) \in Nat /\ Cardinality(Owners(o)) \in Nat
  BY <1>1, FS_CardinalityType
<1>3. object[o] \in Header
  BY DEF ObInv, ObTypes
<1> QED BY <1>1, <1>2, <1>3 DEF Refs, Bit, Header

(* An object that something refers to is there. *)
LEMMA Referred ==
    ASSUME ObInv, NEW o \in Object
    PROVE  /\ \A h \in Handle : slot[h] = o => Cardinality(HandlesOf(o)) > 0 /\ object[o].live
           /\ entry = o => object[o].live
           /\ timer[o].associated => object[o].live
           /\ \A t \in Thread : \A i \in DOMAIN todo[t] :
                Owns(todo[t][i], o) => Cardinality(Owners(o)) > 0 /\ object[o].live
<1>1. /\ Cardinality(HandlesOf(o)) \in Nat /\ Cardinality(Owners(o)) \in Nat
      /\ Refs(o) \in Nat
      /\ object[o].live <=> Refs(o) > 0
  BY InvTypes
<1>2. ASSUME NEW h \in Handle, slot[h] = o PROVE Cardinality(HandlesOf(o)) > 0
  <2>1. HandlesOf(o) # {}
    BY <1>2 DEF HandlesOf
  <2>2. IsFiniteSet(HandlesOf(o))
    BY DEF ObInv, Counted
  <2> QED BY <1>1, <2>1, <2>2, FS_EmptySet
<1>3. ASSUME NEW t \in Thread, NEW i \in DOMAIN todo[t], Owns(todo[t][i], o)
      PROVE  Cardinality(Owners(o)) > 0
  <2>1. <<t, i>> \in Owners(o)
    BY <1>3 DEF Owns, Owners, Owned
  <2>2. IsFiniteSet(Owners(o))
    BY DEF ObInv, Counted
  <2> QED BY <1>1, <2>1, <2>2, FS_EmptySet
<1>4. Cardinality(HandlesOf(o)) > 0 \/ Cardinality(Owners(o)) > 0 => Refs(o) > 0
  BY <1>1 DEF Refs, Bit
<1>5. entry = o \/ timer[o].associated => Refs(o) > 0
  BY <1>1 DEF Refs, Bit
<1>6. \A h \in Handle : slot[h] = o => Cardinality(HandlesOf(o)) > 0 /\ object[o].live
  BY <1>1, <1>2, <1>4
<1>7. entry = o \/ timer[o].associated => object[o].live
  BY <1>1, <1>5
<1>8. \A t \in Thread : \A i \in DOMAIN todo[t] :
        Owns(todo[t][i], o) => Cardinality(Owners(o)) > 0 /\ object[o].live
  BY <1>1, <1>3, <1>4
<1> QED BY <1>6, <1>7, <1>8, Zenon

LEMMA HandleTaken ==
    ASSUME ObInv, NEW h \in Handle, Free(h), NEW o \in Object,
           slot' = [slot EXCEPT ![h] = o], NEW p \in Object
    PROVE  /\ IsFiniteSet(HandlesOf(p)')
           /\ Cardinality(HandlesOf(p)') = Cardinality(HandlesOf(p)) + Bit(p = o)
<1>1. /\ IsFiniteSet(HandlesOf(p)) /\ h \notin HandlesOf(p)
      /\ Cardinality(HandlesOf(p)) \in Nat
  BY ObAssumption, InvTypes DEF ObInv, Counted, HandlesOf, Free
<1>2. slot \in [Handle -> Object \cup {NoObject}]
  BY DEF ObInv, ObTypes
<1>3. CASE p = o
  <2>1. HandlesOf(p)' = HandlesOf(p) \cup {h}
    BY <1>2, <1>3 DEF HandlesOf
  <2> QED BY <1>1, <1>3, <2>1, FS_AddElement DEF Bit
<1>4. CASE p # o
  <2>1. HandlesOf(p)' = HandlesOf(p)
    BY <1>1, <1>2, <1>4 DEF HandlesOf
  <2> QED BY <1>1, <1>4, <2>1 DEF Bit
<1> QED BY <1>3, <1>4

LEMMA HandleGiven ==
    ASSUME ObInv, NEW h \in Handle, NEW o \in Object, slot[h] = o,
           slot' = [slot EXCEPT ![h] = NoObject], NEW p \in Object
    PROVE  /\ IsFiniteSet(HandlesOf(p)')
           /\ Cardinality(HandlesOf(p)') = Cardinality(HandlesOf(p)) - Bit(p = o)
<1>1. IsFiniteSet(HandlesOf(p)) /\ Cardinality(HandlesOf(p)) \in Nat
  BY InvTypes DEF ObInv, Counted
<1>2. slot \in [Handle -> Object \cup {NoObject}]
  BY DEF ObInv, ObTypes
<1>3. CASE p = o
  <2>1. HandlesOf(p)' = HandlesOf(p) \ {h} /\ h \in HandlesOf(p)
    BY <1>2, <1>3, ObAssumption DEF HandlesOf
  <2> QED BY <1>1, <1>3, <2>1, FS_RemoveElement DEF Bit
<1>4. CASE p # o
  <2>1. HandlesOf(p)' = HandlesOf(p)
    BY <1>1, <1>2, <1>4, ObAssumption DEF HandlesOf
  <2> QED BY <1>1, <1>4, <2>1 DEF Bit
<1> QED BY <1>3, <1>4

(* What may be put before the rest of a call. *)
Fits(P) ==
    \A i \in DOMAIN P :
        /\ P[i].op \in Trusting => i + 1 \in DOMAIN P /\ P[i + 1] = Step("deref", P[i].on)
        /\ P[i].op \notin {"apc", "rundown"}

LEMMA FitsBefore ==
    ASSUME NEW s \in Seq(Item), s # <<>>, WellFormed(s), NEW P \in Seq(Item), Fits(P)
    PROVE  /\ WellFormed(P \o Tail(s))
           /\ P \o Tail(s) # <<>> => Head(P \o Tail(s)).op # "apc"
<1> DEFINE r == Tail(s)
           c == P \o r
           n == Len(P)
<1>1. /\ n \in Nat /\ Len(s) \in Nat \ {0} /\ DOMAIN s = 1..Len(s)
      /\ r \in Seq(Item) /\ Len(r) = Len(s) - 1 /\ DOMAIN r = 1..(Len(s) - 1)
      /\ \A i \in 1..(Len(s) - 1) : r[i] = s[i + 1]
  OBVIOUS
<1>2. /\ DOMAIN c = 1..(n + Len(s) - 1) /\ Len(c) = n + Len(s) - 1 /\ DOMAIN P = 1..n
      /\ \A i \in 1..n : c[i] = P[i]
      /\ \A i \in 1..(n + Len(s) - 1) : i > n => i - n \in 1..(Len(s) - 1) /\ c[i] = r[i - n]
  BY <1>1
<1>3. \A i \in 1..(n + Len(s) - 1) : i > n => i - n + 1 \in 2..Len(s) /\ c[i] = s[i - n + 1]
  BY <1>1, <1>2
<1> HIDE DEF c, r, n
<1>4. ASSUME NEW i \in DOMAIN c
      PROVE  /\ c[i].op \in Trusting => i + 1 \in DOMAIN c /\ c[i + 1] = Step("deref", c[i].on)
             /\ c[i].op # "apc"
             /\ c[i].op = "rundown" => i = Len(c)
  <2>1. CASE i \in 1..n
    <3>1. c[i] = P[i] /\ i \in DOMAIN P
      BY <1>2, <2>1
    <3>2. i + 1 \in DOMAIN P => i + 1 \in DOMAIN c /\ c[i + 1] = P[i + 1]
      BY <1>1, <1>2
    <3> QED BY <3>1, <3>2 DEF Fits
  <2>2. CASE i > n
    <3> DEFINE k == i - n + 1
    <3>1. k \in 2..Len(s) /\ c[i] = s[k] /\ i = n + k - 1
      BY <1>1, <1>2, <1>3, <2>2
    <3>2. k \in DOMAIN s /\ k # 1
      BY <1>1, <3>1
    <3>3. k + 1 \in DOMAIN s => i + 1 \in DOMAIN c /\ c[i + 1] = s[k + 1]
      <4>1. k + 1 \in 1..Len(s) => i + 1 \in 1..(n + Len(s) - 1) /\ i + 1 > n /\ (i + 1) - n + 1 = k + 1
        BY <1>1, <3>1
      <4>2. k + 1 \in 1..Len(s) => i + 1 \in DOMAIN c /\ c[i + 1] = s[(i + 1) - n + 1]
        BY <4>1, <1>2, <1>3
      <4>3. DOMAIN s = 1..Len(s)
        BY <1>1
      <4> QED BY <4>1, <4>2, <4>3
    <3>4. k = Len(s) => i = Len(c)
      BY <1>1, <1>2, <3>1
    <3> HIDE DEF k
    <3> QED BY <3>1, <3>2, <3>3, <3>4 DEF WellFormed
  <2> QED BY <1>1, <1>2, <2>1, <2>2
<1>5. WellFormed(c)
  BY <1>4 DEF WellFormed
<1>6. c # <<>> => Head(c).op # "apc"
  <2>1. c \in Seq(Item)
    BY <1>1 DEF c
  <2>2. c # <<>> => 1 \in DOMAIN c /\ Head(c) = c[1]
    BY <2>1
  <2> QED BY <1>4, <2>2
<1> QED BY <1>5, <1>6 DEF c, r

(* The calls when t goes on with P put before its rest, or begins with P. *)
Given(t, o) == IF todo[t] = <<>> THEN 0 ELSE Bit(Owns(Head(todo[t]), o))

Calm(t) == todo[t] # <<>> => Head(todo[t]).op # "apc"

Moved(t, P) ==
    /\ todo' \in [Thread -> Seq(Item)]
    /\ Calls'
    /\ \A u \in Thread : u # t => todo'[u] = todo[u]
    /\ \A o \in Object :
        /\ IsFiniteSet(Owners(o)')
        /\ Cardinality(Owners(o)') = Cardinality(Owners(o)) + Share(P, o) - Given(t, o)
        /\ Share(P, o) \in Nat /\ Given(t, o) \in {0, 1}
        /\ Given(t, o) =< Cardinality(Owners(o))

LEMMA MovedBy ==
    ASSUME ObInv, NEW t \in Thread, NEW s \in Seq(Item), Does(t, s), WellFormed(s),
           NEW P \in Seq(Item),
           \A o \in Object : Share(s, o) = Share(P, o) + Share(todo[t], o) - Given(t, o),
           \A o \in Object : Given(t, o) =< Share(todo[t], o)
    PROVE  Moved(t, P) /\ todo'[t] = s
<1>1. todo \in [Thread -> Seq(Item)] /\ Calls
  BY DEF ObInv, ObTypes
<1>2. /\ todo' \in [Thread -> Seq(Item)] /\ todo'[t] = s
      /\ \A u \in Thread : u # t => todo'[u] = todo[u]
  BY <1>1 DEF Does
<1>3. Calls'
  BY <1>1, <1>2 DEF Calls
<1>4. ASSUME NEW o \in Object
      PROVE  /\ IsFiniteSet(Owners(o)')
             /\ Cardinality(Owners(o)') = Cardinality(Owners(o)) + Share(P, o) - Given(t, o)
             /\ Share(P, o) \in Nat /\ Given(t, o) \in {0, 1}
             /\ Given(t, o) =< Cardinality(Owners(o))
  <2>1. IsFiniteSet(Owners(o))
    BY DEF ObInv, Counted
  <2>2. /\ IsFiniteSet(Owners(o)')
        /\ Cardinality(Owners(o)') = Cardinality(Owners(o)) - Share(todo[t], o) + Share(s, o)
        /\ Cardinality(Owners(o)) \in Nat /\ Share(todo[t], o) \in Nat /\ Share(s, o) \in Nat
        /\ Share(todo[t], o) =< Cardinality(Owners(o))
    BY <1>1, <2>1, OwnersStep
  <2>3. Share(P, o) \in Nat
    BY ShareType
  <2>4. Given(t, o) \in {0, 1}
    BY DEF Given, Bit
  <2> QED BY <2>2, <2>3, <2>4
<1> QED BY <1>2, <1>3, <1>4 DEF Moved

LEMMA GoesOnWith ==
    ASSUME ObInv, NEW t \in Thread, todo[t] # <<>>, NEW P \in Seq(Item), Fits(P),
           Does(t, P \o Rest(t))
    PROVE  Moved(t, P) /\ Calm(t)'
<1> DEFINE s == todo[t]
           r == Tail(s)
<1>1. s \in Seq(Item) /\ r \in Seq(Item) /\ P \o r \in Seq(Item) /\ WellFormed(s)
  BY DEF ObInv, ObTypes, Calls
<1>2. WellFormed(P \o r) /\ (P \o r # <<>> => Head(P \o r).op # "apc")
  BY <1>1, FitsBefore
<1>3. ASSUME NEW o \in Object
      PROVE  /\ Share(P \o r, o) = Share(P, o) + Share(s, o) - Given(t, o)
             /\ Given(t, o) =< Share(s, o)
  <2>1. Share(P \o r, o) = Share(P, o) + Share(r, o)
    BY <1>1, ShareConcat
  <2>2. Share(s, o) = Given(t, o) + Share(r, o)
    BY <1>1, ShareHead DEF Given
  <2>3. Share(P, o) \in Nat /\ Share(r, o) \in Nat /\ Given(t, o) \in {0, 1}
    BY <1>1, ShareType DEF Given, Bit
  <2> QED BY <2>1, <2>2, <2>3
<1>4. Does(t, P \o r)
  BY DEF Rest
<1> HIDE DEF r
<1>5. Moved(t, P) /\ todo'[t] = P \o r
  BY <1>1, <1>2, <1>3, <1>4, MovedBy
<1> QED BY <1>2, <1>5 DEF Calm

LEMMA GoesOn ==
    ASSUME ObInv, NEW t \in Thread, todo[t] # <<>>, Does(t, Rest(t))
    PROVE  Moved(t, <<>>) /\ Calm(t)'
<1>1. todo[t] \in Seq(Item)
  BY DEF ObInv, ObTypes
<1>2. Rest(t) = <<>> \o Rest(t) /\ <<>> \in Seq(Item)
  BY <1>1 DEF Rest
<1>3. Fits(<<>>)
  BY DEF Fits
<1> QED BY <1>2, <1>3, GoesOnWith, Zenon

LEMMA Begins ==
    ASSUME ObInv, NEW t \in Thread, todo[t] = <<>>, NEW P \in Seq(Item), WellFormed(P),
           Does(t, P)
    PROVE  Moved(t, P) /\ todo'[t] = P
<1>1. ASSUME NEW o \in Object
      PROVE  Share(P, o) = Share(P, o) + Share(todo[t], o) - Given(t, o)
             /\ Given(t, o) =< Share(todo[t], o)
  <2>1. Share(todo[t], o) = 0 /\ Given(t, o) = 0 /\ Share(P, o) \in Nat
    BY ShareNone, ShareType DEF Given
  <2> QED BY <2>1
<1> QED BY <1>1, MovedBy

(* What comes before the rest: at most two references that are given back. *)
LEMMA Deref ==
    ASSUME NEW o \in Object
    PROVE  /\ <<Step("deref", o)>> \in Seq(Item) /\ Fits(<<Step("deref", o)>>)
           /\ \A p \in Object : Share(<<Step("deref", o)>>, p) = Bit(p = o)
<1>1. Step("deref", o) \in Item /\ Step("deref", o).op = "deref" /\ Step("deref", o).on = o
  BY NewItems
<1>2. <<Step("deref", o)>> \in Seq(Item)
  BY <1>1, OneItem
<1>3. Fits(<<Step("deref", o)>>)
  BY <1>1 DEF Fits, Trusting
<1>4. \A p \in Object : Share(<<Step("deref", o)>>, p) = Bit(p = o)
  <2> TAKE p \in Object
  <2>1. Share(<<Step("deref", o)>>, p) = Bit(Owns(Step("deref", o), p))
    BY <1>1, ShareOne
  <2> QED BY <1>1, <2>1 DEF Owns, Referencing, Owning, Bit
<1> QED BY <1>2, <1>3, <1>4

LEMMA Derefs ==
    ASSUME NEW o \in Object
    PROVE  /\ <<Step("deref", o), Step("deref", o)>> \in Seq(Item)
           /\ Fits(<<Step("deref", o), Step("deref", o)>>)
           /\ <<Step("deref", o), Step("deref", o)>>
                = <<Step("deref", o)>> \o <<Step("deref", o)>>
           /\ \A p \in Object :
                Share(<<Step("deref", o), Step("deref", o)>>, p) = 2 * Bit(p = o)
<1> DEFINE P == <<Step("deref", o), Step("deref", o)>>
<1>1. Step("deref", o) \in Item /\ Step("deref", o).op = "deref" /\ Step("deref", o).on = o
  BY NewItems
<1>2. P \in Seq(Item) /\ P = <<Step("deref", o)>> \o <<Step("deref", o)>>
  BY <1>1, TwoItems
<1>3. Fits(P)
  BY <1>1 DEF Fits, Trusting
<1>4. \A p \in Object : Share(P, p) = 2 * Bit(p = o)
  <2> TAKE p \in Object
  <2>1. Share(P, p) = Bit(Owns(Step("deref", o), p)) + Bit(Owns(Step("deref", o), p))
    BY <1>1, ShareTwo
  <2> QED BY <1>1, <2>1 DEF Owns, Referencing, Owning, Bit
<1> QED BY <1>2, <1>3, <1>4

-----------------------------------------------------------------------------
(* The steps of ObHandle, beside timers that keep their associations.      *)

Keeps == \A o \in Object : timer'[o].associated = timer[o].associated

Alone(t) == \A u \in Thread : u # t => todo'[u] = todo[u]

LEMMA AtFacts ==
    ASSUME ObInv, NEW t \in Thread, NEW op, At(t, op)
    PROVE  /\ todo[t] # <<>> /\ Head(todo[t]) \in Item /\ Head(todo[t]).op = op
           /\ op \notin {"close", "rundown"} => On(t) \in Object
           /\ op = "close" => On(t) \in Handle
           /\ op \in Referencing \cup Trusting =>
                object[On(t)].live /\ Cardinality(Owners(On(t))) > 0
           /\ \A p \in Object : Given(t, p) = IF op \in Referencing THEN Bit(On(t) = p) ELSE 0
           /\ op = "rundown" => Rest(t) = <<>>
<1> DEFINE s == todo[t]
<1>1. /\ s \in Seq(Item) /\ s # <<>> /\ Head(s).op = op /\ Head(s) = s[1] /\ 1 \in DOMAIN s
      /\ Head(s) \in Item /\ WellFormed(s) /\ On(t) = s[1].on
  BY DEF ObInv, ObTypes, Calls, At, On
<1>2. /\ op \notin {"close", "rundown"} => On(t) \in Object
      /\ op = "close" => On(t) \in Handle
  BY <1>1, ItemFacts DEF On
<1>3. ASSUME op \in Referencing PROVE object[On(t)].live /\ Cardinality(Owners(On(t))) > 0
  <2>1. On(t) \in Object
    BY <1>2, <1>3 DEF Referencing, Owning
  <2>2. Owns(s[1], On(t))
    BY <1>1, <1>3 DEF Owns
  <2> QED BY <1>1, <2>1, <2>2, Referred
<1>4. ASSUME op \in Trusting PROVE object[On(t)].live /\ Cardinality(Owners(On(t))) > 0
  <2>1. On(t) \in Object
    BY <1>2, <1>4 DEF Trusting
  <2>2. 2 \in DOMAIN s /\ s[2] = Step("deref", On(t))
    BY <1>1, <1>4 DEF WellFormed
  <2>3. Owns(s[2], On(t))
    BY <2>1, <2>2, NewItems DEF Owns, Referencing, Owning
  <2> QED BY <2>1, <2>2, <2>3, Referred
<1>5. \A p \in Object : Given(t, p) = IF op \in Referencing THEN Bit(On(t) = p) ELSE 0
  BY <1>1 DEF Given, Owns, Bit
<1>6. op = "rundown" => Rest(t) = <<>>
  <2>1. op = "rundown" => Len(s) = 1
    BY <1>1 DEF WellFormed
  <2>2. Tail(s) \in Seq(Item) /\ Len(Tail(s)) = Len(s) - 1
    BY <1>1
  <2>3. ASSUME Len(s) = 1 PROVE Tail(s) = <<>>
    <3>1. Len(Tail(s)) = 0
      BY <2>2, <2>3
    <3> QED BY <2>2, <3>1, NoItems, Zenon
  <2> QED BY <2>1, <2>3 DEF Rest
<1> QED BY <1>1, <1>2, <1>3, <1>4, <1>5, <1>6

(* The counts stay exact when each changes by what its holders change by.  *)
LEMMA CountedStep ==
    ASSUME ObInv, Keeps, NEW t \in Thread, NEW P, Moved(t, P),
           \A p \in Object :
                /\ IsFiniteSet(HandlesOf(p)')
                /\ object'[p].handles = object[p].handles
                        + (Cardinality(HandlesOf(p)') - Cardinality(HandlesOf(p)))
                /\ object'[p].pointers = object[p].pointers
                        + (Cardinality(HandlesOf(p)') - Cardinality(HandlesOf(p)))
                        + (Bit(entry' = p) - Bit(entry = p)) + (Share(P, p) - Given(t, p))
                /\ object'[p].live <=> object'[p].pointers > 0
    PROVE  Counted'
<1> SUFFICES ASSUME NEW p \in Object
             PROVE  /\ IsFiniteSet(HandlesOf(p)') /\ IsFiniteSet(Owners(p)')
                    /\ object'[p].pointers = Refs(p)'
                    /\ object'[p].handles = Cardinality(HandlesOf(p)')
                    /\ object'[p].live <=> Refs(p)' > 0
  BY DEF Counted
<1>1. /\ IsFiniteSet(Owners(p)')
      /\ Cardinality(Owners(p)') = Cardinality(Owners(p)) + Share(P, p) - Given(t, p)
      /\ Share(P, p) \in Nat /\ Given(t, p) \in {0, 1}
  BY DEF Moved
<1>2. /\ Cardinality(HandlesOf(p)) \in Nat /\ Cardinality(Owners(p)) \in Nat
      /\ object[p].pointers = Refs(p) /\ object[p].handles = Cardinality(HandlesOf(p))
  BY InvTypes
<1>3. /\ IsFiniteSet(HandlesOf(p)')
      /\ object'[p].handles = object[p].handles
              + (Cardinality(HandlesOf(p)') - Cardinality(HandlesOf(p)))
      /\ object'[p].pointers = object[p].pointers
              + (Cardinality(HandlesOf(p)') - Cardinality(HandlesOf(p)))
              + (Bit(entry' = p) - Bit(entry = p)) + (Share(P, p) - Given(t, p))
      /\ object'[p].live <=> object'[p].pointers > 0
  OBVIOUS
<1>4. Cardinality(HandlesOf(p)') \in Nat
  BY <1>3, FS_CardinalityType
<1>5. Bit(timer'[p].associated) = Bit(timer[p].associated)
  BY DEF Keeps, Bit
<1>6. Bit(timer[p].associated) \in {0, 1} /\ Bit(entry = p) \in {0, 1} /\ Bit(entry' = p) \in {0, 1}
  BY DEF Bit
<1>7. Refs(p)' = Cardinality(HandlesOf(p)') + Bit(entry' = p) + Bit(timer'[p].associated)
                 + Cardinality(Owners(p)')
  BY DEF Refs, Bit
<1>8. object'[p].pointers = Refs(p)'
  BY <1>1, <1>2, <1>3, <1>4, <1>5, <1>6, <1>7 DEF Refs
<1> QED BY <1>1, <1>2, <1>3, <1>4, <1>8

(* Most steps change no handle and no name, and one count by references.   *)
LEMMA CountStep ==
    ASSUME ObInv, Keeps, NEW t \in Thread, NEW P, Moved(t, P),
           slot' = slot, entry' = entry,
           \A p \in Object :
                /\ object'[p].handles = object[p].handles
                /\ object'[p].pointers = object[p].pointers + (Share(P, p) - Given(t, p))
                /\ object'[p].live <=> object'[p].pointers > 0
    PROVE  Counted'
<1>1. ASSUME NEW p \in Object
      PROVE  /\ IsFiniteSet(HandlesOf(p)')
             /\ Cardinality(HandlesOf(p)') = Cardinality(HandlesOf(p))
             /\ Cardinality(HandlesOf(p)) \in Nat
             /\ Bit(entry' = p) = Bit(entry = p) /\ Bit(entry = p) \in {0, 1}
             /\ object[p].pointers \in Nat /\ object[p].handles \in Nat
             /\ Share(P, p) \in Nat /\ Given(t, p) \in {0, 1}
  <2>1. HandlesOf(p)' = HandlesOf(p) /\ IsFiniteSet(HandlesOf(p))
    BY DEF HandlesOf, ObInv, Counted
  <2> QED BY <2>1, InvTypes DEF Bit, Moved
<1>2. \A p \in Object :
                /\ IsFiniteSet(HandlesOf(p)')
                /\ object'[p].handles = object[p].handles
                        + (Cardinality(HandlesOf(p)') - Cardinality(HandlesOf(p)))
                /\ object'[p].pointers = object[p].pointers
                        + (Cardinality(HandlesOf(p)') - Cardinality(HandlesOf(p)))
                        + (Bit(entry' = p) - Bit(entry = p)) + (Share(P, p) - Given(t, p))
                /\ object'[p].live <=> object'[p].pointers > 0
  BY <1>1
<1> QED BY <1>2, CountedStep

(* With P the call owns one more reference, to o. *)
Adds(t, P, o) == \A p \in Object : Share(P, p) - Given(t, p) = Bit(p = o)

LEMMA ReferencesStep ==
    ASSUME ObInv, Keeps, NEW t \in Thread, NEW o \in Object, object[o].live,
           NEW P, Moved(t, P), Adds(t, P, o),
           object' = [object EXCEPT ![o].pointers = @ + 1], slot' = slot, entry' = entry
    PROVE  ObInv'
<1>1. ObTypes /\ Named
  BY DEF ObInv
<1>2. /\ object' \in [Object -> Header]
      /\ \A p \in Object :
            /\ object'[p].handles = object[p].handles /\ object'[p].live = object[p].live
            /\ object'[p].attached = object[p].attached
            /\ object'[p].permanent = object[p].permanent
            /\ object'[p].pointers = object[p].pointers + Bit(p = o)
  <2>1. object \in [Object -> Header] /\ object[o] \in Header
    BY <1>1 DEF ObTypes
  <2>2. \A p \in Object : object'[p] = IF p = o THEN [object[o] EXCEPT !.pointers = @ + 1]
                                     ELSE object[p]
    BY <2>1
  <2>3. [object[o] EXCEPT !.pointers = @ + 1] \in Header
    BY <2>1 DEF Header
  <2>4. object' \in [Object -> Header]
    BY <2>1, <2>2, <2>3
  <2>5. \A p \in Object : object[p].pointers \in Int
    BY <2>1 DEF Header
  <2> QED BY <2>1, <2>2, <2>4, <2>5 DEF Bit, Header
<1>3. \A p \in Object : /\ object[p].pointers \in Nat
                        /\ object[p].live <=> object[p].pointers > 0
  BY InvTypes
<1>4. Counted'
  <2>1. \A p \in Object :
                /\ object'[p].handles = object[p].handles
                /\ object'[p].pointers = object[p].pointers + (Share(P, p) - Given(t, p))
                /\ object'[p].live <=> object'[p].pointers > 0
    BY <1>2, <1>3 DEF Bit, Adds
  <2> QED BY <2>1, CountStep
<1>5. ObTypes' /\ Calls'
  BY <1>1, <1>2 DEF ObTypes, Moved
<1>6. Named'
  BY <1>1, <1>2 DEF Named, ObTypes
<1> QED BY <1>4, <1>5, <1>6 DEF ObInv

(* No count changes. *)
LEMMA StillStep ==
    ASSUME ObInv, Keeps, NEW t \in Thread, NEW P, Moved(t, P),
           \A p \in Object : Share(P, p) = Given(t, p),
           object' = object, slot' = slot, entry' = entry
    PROVE  ObInv'
<1>1. \A p \in Object :
                /\ object'[p].handles = object[p].handles
                /\ object'[p].pointers = object[p].pointers + (Share(P, p) - Given(t, p))
                /\ object'[p].live <=> object'[p].pointers > 0
  <2> TAKE p \in Object
  <2>1. /\ object[p].pointers \in Nat
        /\ object[p].live <=> object[p].pointers > 0
        /\ Share(P, p) \in Nat
    BY InvTypes DEF Moved
  <2> QED BY <2>1
<1>2. Counted'
  BY <1>1, CountStep
<1>3. ObTypes' /\ Calls'
  BY DEF ObInv, ObTypes, Moved
<1>4. Named'
  BY DEF ObInv, Named
<1> QED BY <1>2, <1>3, <1>4 DEF ObInv

(* What a thread of an object step leaves. *)
StepOK(t) == ObInv' /\ Calm(t)' /\ Alone(t)

LEMMA CreateStep ==
    ASSUME ObInv, Keeps, NEW t \in Thread, ObCreateObject(t)
    PROVE  StepOK(t)
<1> PICK o \in Object, how \in Attributes :
        /\ Unused(o)
        /\ object' = [object EXCEPT ![o] = [NoHeader EXCEPT !.live = TRUE, !.pointers = 1]]
        /\ Does(t, <<[op |-> "insert", on |-> o, how |-> how], Step("deref", o)>>)
        /\ slot' = slot /\ entry' = entry
  BY DEF ObCreateObject
<1> DEFINE x == [op |-> "insert", on |-> o, how |-> how]
           y == Step("deref", o)
<1>1. /\ x \in Item /\ x.op = "insert" /\ x.on = o
      /\ y \in Item /\ y.op = "deref" /\ y.on = o
  BY NewItems DEF Item
<1>2. todo[t] = <<>> /\ Does(t, <<x, y>>)
  BY DEF ObCreateObject, Idle
<1>n. y = Step("deref", x.on)
  BY <1>1
<1> HIDE DEF x, y
<1>3. <<x, y>> \in Seq(Item)
  BY <1>1, TwoItems
<1>4. WellFormed(<<x, y>>)
  BY <1>1, <1>n DEF WellFormed, Trusting
<1>5. Moved(t, <<x, y>>) /\ todo'[t] = <<x, y>>
  BY <1>2, <1>3, <1>4, Begins
<1>6. \A p \in Object : Share(<<x, y>>, p) = Bit(p = o) /\ Given(t, p) = 0
  <2> TAKE p \in Object
  <2>1. Share(<<x, y>>, p) = Bit(Owns(x, p)) + Bit(Owns(y, p))
    BY <1>1, ShareTwo
  <2> QED BY <1>1, <1>2, <2>1 DEF Owns, Referencing, Owning, Bit, Given
<1>7. ~object[o].live
  BY DEF Unused
<1>8. object[o].pointers = 0 /\ object[o].handles = 0 /\ entry # o
  BY <1>7, InvTypes, Referred DEF Refs, Bit
<1>9. /\ object' \in [Object -> Header]
      /\ object'[o] = [NoHeader EXCEPT !.live = TRUE, !.pointers = 1]
      /\ \A p \in Object : p # o => object'[p] = object[p]
  <2>1. object \in [Object -> Header]
    BY DEF ObInv, ObTypes
  <2>2. [NoHeader EXCEPT !.live = TRUE, !.pointers = 1] \in Header
    <3>1. NoHeader \in Header
      BY DEF NoHeader, Header
    <3> DEFINE r == NoHeader
    <3> HIDE DEF r
    <3>2. r \in Header
      BY <3>1 DEF r
    <3> DEFINE q == [r EXCEPT !.live = TRUE]
    <3>3. q \in Header
      BY <3>2 DEF Header
    <3> HIDE DEF q
    <3>4. [q EXCEPT !.pointers = 1] \in Header
      BY <3>3 DEF Header
    <3>5. [[r EXCEPT !.live = TRUE] EXCEPT !.pointers = 1] = [r EXCEPT !.live = TRUE, !.pointers = 1]
      BY <3>2 DEF Header
    <3> QED BY <3>4, <3>5 DEF r, q
  <2> QED BY <2>1, <2>2
<1>10. object'[o].live /\ object'[o].pointers = 1 /\ object'[o].handles = 0
  BY <1>9 DEF NoHeader
<1>11. \A p \in Object :
                /\ object'[p].handles = object[p].handles
                /\ object'[p].pointers = object[p].pointers + (Share(<<x, y>>, p) - Given(t, p))
                /\ object'[p].live <=> object'[p].pointers > 0
  <2> TAKE p \in Object
  <2>1. CASE p = o
    BY <2>1, <1>6, <1>8, <1>10 DEF Bit
  <2>2. CASE p # o
    <3>1. object[p].pointers \in Nat
      BY InvTypes
    <3>2. object[p].live <=> object[p].pointers > 0
      BY InvTypes
    <3> QED BY <2>2, <3>1, <3>2, <1>6, <1>9 DEF Bit
  <2> QED BY <2>1, <2>2
<1>12. Counted'
  BY <1>5, <1>11, CountStep
<1>13. ObTypes' /\ Calls'
  BY <1>5, <1>9 DEF ObInv, ObTypes, Moved
<1>14. Named'
  BY <1>8, <1>9 DEF ObInv, ObTypes, Named
<1>15. Calm(t)'
  BY <1>1, <1>5 DEF Calm
<1> QED BY <1>5, <1>12, <1>13, <1>14, <1>15 DEF StepOK, ObInv, Moved, Alone

LEMMA BeginsWith ==
    ASSUME ObInv, NEW t \in Thread, Idle(t), NEW P \in Seq(Item), P # <<>>, Fits(P), Does(t, P)
    PROVE  Moved(t, P) /\ Calm(t)' /\ \A p \in Object : Given(t, p) = 0
<1>1. WellFormed(P)
  BY DEF Fits, WellFormed
<1>2. Moved(t, P) /\ todo'[t] = P /\ todo[t] = <<>>
  BY <1>1, Begins DEF Idle
<1>3. 1 \in DOMAIN P /\ Head(P) = P[1]
  OBVIOUS
<1>4. Calm(t)'
  BY <1>2, <1>3 DEF Calm, Fits
<1> QED BY <1>2, <1>4 DEF Given

(* The beginnings of calls that reference the object of a handle. *)
LEMMA ReferencesOK ==
    ASSUME ObInv, Keeps, NEW t \in Thread, Idle(t), NEW o \in Object, object[o].live,
           NEW P \in Seq(Item), P # <<>>, Fits(P), References(t, o, P),
           \A p \in Object : Share(P, p) = Bit(p = o)
    PROVE  StepOK(t)
<1>1. /\ object' = [object EXCEPT ![o].pointers = @ + 1] /\ Does(t, P)
      /\ slot' = slot /\ entry' = entry
  BY DEF References
<1>2. Moved(t, P) /\ Calm(t)' /\ \A p \in Object : Given(t, p) = 0
  BY <1>1, BeginsWith
<1>3. Adds(t, P, o)
  BY <1>2 DEF Bit, Adds
<1>4. ObInv'
  BY <1>1, <1>2, <1>3, ReferencesStep
<1> QED BY <1>2, <1>4 DEF StepOK, Moved, Alone

LEMMA SlotLive ==
    ASSUME ObInv, NEW h \in Handle, ~Free(h)
    PROVE  slot[h] \in Object /\ object[slot[h]].live
<1>1. slot[h] \in Object
  BY DEF ObInv, ObTypes, Free
<1> QED BY <1>1, Referred

LEMMA CloseCall ==
    ASSUME ObInv, Keeps, NEW t \in Thread, Close(t)
    PROVE  StepOK(t)
<1>1. PICK h \in Handle : Does(t, <<Step("close", h)>>)
  BY DEF Close
<1>2. Step("close", h) \in Item /\ Step("close", h).op = "close" /\ Step("close", h).on = h
  BY NewItems
<1>3. <<Step("close", h)>> \in Seq(Item) /\ <<Step("close", h)>> # <<>>
  BY <1>2, OneItem
<1>4. Fits(<<Step("close", h)>>)
  BY <1>2 DEF Fits, Trusting
<1>5. Idle(t) /\ object' = object /\ slot' = slot /\ entry' = entry
  BY DEF Close
<1>6. /\ Moved(t, <<Step("close", h)>>) /\ Calm(t)'
      /\ \A p \in Object : Given(t, p) = 0
  BY <1>1, <1>3, <1>4, <1>5, BeginsWith
<1>7. \A p \in Object : Share(<<Step("close", h)>>, p) = 0
  <2> TAKE p \in Object
  <2>1. Share(<<Step("close", h)>>, p) = Bit(Owns(Step("close", h), p))
    BY <1>2, ShareOne
  <2> QED BY <1>2, <2>1 DEF Owns, Referencing, Owning, Bit
<1>8. ObInv'
  BY <1>5, <1>6, <1>7, StillStep
<1> QED BY <1>6, <1>8 DEF StepOK, Moved, Alone

LEMMA DuplicateCall ==
    ASSUME ObInv, Keeps, NEW t \in Thread, NtDuplicateObject(t)
    PROVE  StepOK(t)
<1>1. PICK h \in Handle, closes \in BOOLEAN :
        /\ ~Free(h)
        /\ References(t, slot[h], (IF closes THEN <<Step("close", h)>> ELSE <<>>)
                                    \o <<Step("open", slot[h]), Step("deref", slot[h])>>)
  BY DEF NtDuplicateObject
<1> DEFINE o == slot[h]
           x == Step("close", h)
           y == Step("open", o)
           z == Step("deref", o)
<1>2. o \in Object /\ object[o].live
  BY <1>1, SlotLive
<1>3. /\ x \in Item /\ x.op = "close" /\ x.on = h
      /\ y \in Item /\ y.op = "open" /\ y.on = o
      /\ z \in Item /\ z.op = "deref" /\ z.on = o
      /\ z = Step("deref", y.on)
  BY <1>2, NewItems
<1>4. Idle(t)
  BY DEF NtDuplicateObject
<1>a. References(t, o, (IF closes THEN <<x>> ELSE <<>>) \o <<y, z>>)
  BY <1>1
<1> HIDE DEF x, y, z, o
<1>5. /\ <<y, z>> \in Seq(Item) /\ <<x, y, z>> \in Seq(Item)
      /\ <<x, y, z>> = <<x>> \o <<y, z>>
  BY <1>3, TwoItems, ThreeItems
<1>6. CASE closes
  <2>1. References(t, o, <<x, y, z>>)
    BY <1>a, <1>5, <1>6
  <2>2. \A p \in Object : Share(<<x, y, z>>, p) = Bit(p = o)
    <3> TAKE p \in Object
    <3>1. Share(<<x, y, z>>, p) = Bit(Owns(x, p)) + Bit(Owns(y, p)) + Bit(Owns(z, p))
      BY <1>3, ShareThree
    <3> QED BY <1>3, <3>1 DEF Owns, Referencing, Owning, Bit
  <2>3. Fits(<<x, y, z>>)
    BY <1>3 DEF Fits, Trusting
  <2>4. <<x, y, z>> # <<>>
    OBVIOUS
  <2> QED BY <1>2, <1>4, <1>5, <2>1, <2>2, <2>3, <2>4, ReferencesOK
<1>7. CASE ~closes
  <2>1. References(t, o, <<y, z>>)
    <3>1. <<>> \o <<y, z>> = <<y, z>>
      BY <1>5
    <3> QED BY <1>a, <1>7, <3>1
  <2>2. \A p \in Object : Share(<<y, z>>, p) = Bit(p = o)
    <3> TAKE p \in Object
    <3>1. Share(<<y, z>>, p) = Bit(Owns(y, p)) + Bit(Owns(z, p))
      BY <1>3, ShareTwo
    <3> QED BY <1>3, <3>1 DEF Owns, Referencing, Owning, Bit
  <2>3. Fits(<<y, z>>)
    BY <1>3 DEF Fits, Trusting
  <2>4. <<y, z>> # <<>>
    OBVIOUS
  <2> QED BY <1>2, <1>4, <1>5, <2>1, <2>2, <2>3, <2>4, ReferencesOK
<1> QED BY <1>6, <1>7

LEMMA OpenByNameCall ==
    ASSUME ObInv, Keeps, NEW t \in Thread, ObOpenObjectByName(t)
    PROVE  StepOK(t)
<1> DEFINE x == Step("handle", entry)
<1>1. Idle(t) /\ entry # NoObject /\ References(t, entry, <<x>>)
  BY DEF ObOpenObjectByName
<1>2. entry \in Object /\ object[entry].live
  BY <1>1, Referred DEF ObInv, ObTypes
<1>3. x \in Item /\ x.op = "handle" /\ x.on = entry
  BY <1>2, NewItems
<1> HIDE DEF x
<1>4. <<x>> \in Seq(Item) /\ <<x>> # <<>>
  BY <1>3, OneItem
<1>5. Fits(<<x>>)
  BY <1>3 DEF Fits, Trusting
<1>6. \A p \in Object : Share(<<x>>, p) = Bit(p = entry)
  <2> TAKE p \in Object
  <2>1. Share(<<x>>, p) = Bit(Owns(x, p))
    BY <1>3, ShareOne
  <2> QED BY <1>3, <2>1 DEF Owns, Referencing, Owning, Bit
<1> QED BY <1>1, <1>2, <1>4, <1>5, <1>6, ReferencesOK

LEMMA MakeTemporaryCall ==
    ASSUME ObInv, Keeps, NEW t \in Thread, NtMakeTemporaryObject(t)
    PROVE  StepOK(t)
<1>1. PICK h \in Handle :
        /\ ~Free(h)
        /\ References(t, slot[h], <<Step("temporary", slot[h]), Step("deref", slot[h])>>)
  BY DEF NtMakeTemporaryObject
<1> DEFINE o == slot[h]
           y == Step("temporary", o)
           z == Step("deref", o)
<1>2. o \in Object /\ object[o].live
  BY <1>1, SlotLive
<1>3. /\ y \in Item /\ y.op = "temporary" /\ y.on = o
      /\ z \in Item /\ z.op = "deref" /\ z.on = o
      /\ z = Step("deref", y.on)
  BY <1>2, NewItems
<1>4. Idle(t) /\ References(t, o, <<y, z>>)
  BY <1>1 DEF NtMakeTemporaryObject
<1> HIDE DEF y, z, o
<1>5. <<y, z>> \in Seq(Item) /\ <<y, z>> # <<>>
  BY <1>3, TwoItems
<1>6. \A p \in Object : Share(<<y, z>>, p) = Bit(p = o)
  <2> TAKE p \in Object
  <2>1. Share(<<y, z>>, p) = Bit(Owns(y, p)) + Bit(Owns(z, p))
    BY <1>3, ShareTwo
  <2> QED BY <1>3, <2>1 DEF Owns, Referencing, Owning, Bit
<1>7. Fits(<<y, z>>)
  BY <1>3 DEF Fits, Trusting
<1> QED BY <1>2, <1>4, <1>5, <1>6, <1>7, ReferencesOK

LEMMA ObCallStep ==
    ASSUME ObInv, Keeps, NEW t \in Thread, ObCall(t)
    PROVE  StepOK(t)
BY CreateStep, CloseCall, DuplicateCall, OpenByNameCall, MakeTemporaryCall DEF ObCall

LEMMA InsertFailsStep ==
    ASSUME ObInv, Keeps, NEW t \in Thread, InsertFails(t) \/ CloseInvalid(t)
    PROVE  StepOK(t)
<1>1. PICK op \in {"insert", "close"} : At(t, op)
  BY DEF InsertFails, CloseInvalid
<1>2. Does(t, Rest(t)) /\ object' = object /\ slot' = slot /\ entry' = entry
  BY DEF InsertFails, CloseInvalid
<1>3. todo[t] # <<>> /\ \A p \in Object : Given(t, p) = 0
  BY <1>1, AtFacts DEF Referencing, Owning
<1>4. Moved(t, <<>>) /\ Calm(t)'
  BY <1>2, <1>3, GoesOn
<1>5. \A p \in Object : Share(<<>>, p) = Given(t, p)
  BY <1>3, ShareNone
<1>6. ObInv'
  BY <1>2, <1>4, <1>5, StillStep
<1> QED BY <1>4, <1>6 DEF StepOK, Moved, Alone

(* A handle of o more, and its name if it gets that. *)
LEMMA InsertStep ==
    ASSUME ObInv, Keeps, NEW t \in Thread, ObInsertObject(t)
    PROVE  StepOK(t)
<1> DEFINE how == Head(todo[t]).how
           found == how.named /\ entry # NoObject
           names == how.named /\ entry = NoObject
           o == IF found THEN entry ELSE On(t)
           n == IF names THEN 2 ELSE 1
<1>1. /\ At(t, "insert")
      /\ object' = [object EXCEPT ![o].pointers = @ + n, ![o].handles = @ + 1,
                                  ![o].attached = @ \/ names,
                                  ![o].permanent = @ \/ how.permanent]
      /\ entry' = IF names THEN o ELSE entry
      /\ Does(t, Rest(t))
  BY DEF ObInsertObject
<1>2. PICK h \in Handle : Free(h) /\ slot' = [slot EXCEPT ![h] = o]
  BY DEF ObInsertObject
<1>3. /\ todo[t] # <<>> /\ On(t) \in Object /\ object[On(t)].live
      /\ \A p \in Object : Given(t, p) = 0
  BY <1>1, AtFacts DEF Referencing, Owning, Trusting
<1>4. /\ object \in [Object -> Header] /\ slot \in [Handle -> Object \cup {NoObject}]
      /\ entry \in Object \cup {NoObject}
  BY DEF ObInv, ObTypes
<1>5. o \in Object /\ object[o].live /\ object[o] \in Header
  BY <1>3, <1>4, Referred
<1>6. Moved(t, <<>>) /\ Calm(t)'
  BY <1>1, <1>3, GoesOn
<1>7. names => entry = NoObject /\ entry' = o
  BY <1>1
<1>8. ~names => entry' = entry
  BY <1>1
<1>n. (names => n = 2) /\ (~names => n = 1) /\ n \in Int /\ names \in BOOLEAN
  OBVIOUS
<1>9. /\ object' \in [Object -> Header]
      /\ \A p \in Object : p # o => object'[p] = object[p]
      /\ object'[o].live = object[o].live
      /\ object'[o].pointers = object[o].pointers + n
      /\ object'[o].handles = object[o].handles + 1
      /\ names => object'[o].attached
      /\ ~names => object'[o].attached = object[o].attached
      /\ object[o].permanent => object'[o].permanent
  <2> HIDE DEF o, n, names, how
  <2>1. \A p \in Object : p # o => object'[p] = object[p]
    BY <1>1, <1>4, <1>5
  <2>2. /\ object'[o].live = object[o].live
        /\ object'[o].pointers = object[o].pointers + n
        /\ object'[o].handles = object[o].handles + 1
        /\ object'[o].attached = (object[o].attached \/ names)
        /\ object'[o].permanent = (object[o].permanent \/ how.permanent)
    BY <1>1, <1>4, <1>5 DEF Header
  <2>3. object' \in [Object -> Header]
    BY <1>1, <1>4, <1>5, <1>n DEF Header
  <2> QED BY <2>1, <2>2, <2>3, <1>4, <1>5 DEF Header
<1> HIDE DEF o, n, names, found, how
<1>10. \A p \in Object : /\ IsFiniteSet(HandlesOf(p)')
                         /\ Cardinality(HandlesOf(p)') = Cardinality(HandlesOf(p)) + Bit(p = o)
                         /\ Cardinality(HandlesOf(p)) \in Nat
                         /\ object[p].pointers \in Nat
                         /\ object[p].live <=> object[p].pointers > 0
                         /\ object[p].handles \in Nat
                         /\ Share(<<>>, p) = 0
  <2> TAKE p \in Object
  <2>1. /\ IsFiniteSet(HandlesOf(p)')
        /\ Cardinality(HandlesOf(p)') = Cardinality(HandlesOf(p)) + Bit(p = o)
    BY <1>2, <1>5, HandleTaken
  <2> QED BY <2>1, InvTypes, ShareNone
<1>11. Counted'
  <2>1. ASSUME NEW p \in Object
        PROVE  /\ IsFiniteSet(HandlesOf(p)')
               /\ object'[p].handles = object[p].handles
                        + (Cardinality(HandlesOf(p)') - Cardinality(HandlesOf(p)))
               /\ object'[p].pointers = object[p].pointers
                        + (Cardinality(HandlesOf(p)') - Cardinality(HandlesOf(p)))
                        + (Bit(entry' = p) - Bit(entry = p)) + (Share(<<>>, p) - Given(t, p))
               /\ object'[p].live <=> object'[p].pointers > 0
    <3>1. CASE p = o /\ names
      <4>1. entry' = p /\ entry # p
        BY <1>7, <3>1, ObAssumption
      <4> QED BY <4>1, <3>1, <1>3, <1>5, <1>n, <1>9, <1>10 DEF Bit
    <3>2. CASE p = o /\ ~names
      BY <3>2, <1>3, <1>5, <1>8, <1>n, <1>9, <1>10 DEF Bit
    <3>3. CASE p # o
      <4>1. entry' = p <=> entry = p
        BY <1>7, <1>8, <3>3, ObAssumption
      <4> QED BY <4>1, <3>3, <1>3, <1>9, <1>10 DEF Bit
    <3> QED BY <3>1, <3>2, <3>3
  <2> QED BY <2>1, <1>6, CountedStep
<1>12. ObTypes' /\ Calls'
  BY <1>2, <1>4, <1>5, <1>6, <1>7, <1>8, <1>9 DEF ObTypes, Moved
<1>13. Named'
  <2>1. CASE names
    BY <2>1, <1>5, <1>7, <1>9, <1>10 DEF Named
  <2>2. CASE ~names
    BY <2>2, <1>4, <1>5, <1>8, <1>9, <1>10 DEF Named, ObInv
  <2> QED BY <2>1, <2>2
<1> QED BY <1>6, <1>11, <1>12, <1>13 DEF StepOK, ObInv, Moved, Alone

LEMMA WithHandles ==
    ASSUME object \in [Object -> Header], NEW o \in Object, NEW n \in Int,
           object' = [object EXCEPT ![o].handles = n]
    PROVE  /\ object' \in [Object -> Header]
           /\ \A p \in Object : p # o => object'[p] = object[p]
           /\ object'[o].live = object[o].live
           /\ object'[o].pointers = object[o].pointers
           /\ object'[o].handles = n
           /\ object'[o].attached = object[o].attached
           /\ object'[o].permanent = object[o].permanent
<1> DEFINE R == [object[o] EXCEPT !.handles = n]
<1>1. object[o] \in Header
  OBVIOUS
<1>2. R \in Header
  BY <1>1 DEF Header
<1>3. /\ R.live = object[o].live /\ R.pointers = object[o].pointers /\ R.handles = n
      /\ R.attached = object[o].attached /\ R.permanent = object[o].permanent
  BY <1>1 DEF Header
<1>4. object' = [object EXCEPT ![o] = R]
  OBVIOUS
<1> HIDE DEF R
<1>5. object'[o] = R /\ \A p \in Object : p # o => object'[p] = object[p]
  BY <1>4
<1>6. object' \in [Object -> Header]
  BY <1>2, <1>4
<1> QED BY <1>3, <1>5, <1>6

LEMMA HandleStep ==
    ASSUME ObInv, Keeps, NEW t \in Thread, CreateObjectHandle(t)
    PROVE  StepOK(t)
<1> DEFINE o == On(t)
<1>1. At(t, "handle") /\ entry' = entry
  BY DEF CreateObjectHandle
<1>2. /\ todo[t] # <<>> /\ o \in Object /\ object[o].live
      /\ \A p \in Object : Given(t, p) = Bit(o = p)
  BY <1>1, AtFacts DEF Referencing, Owning
<1>3. /\ object \in [Object -> Header] /\ slot \in [Handle -> Object \cup {NoObject}]
      /\ entry \in Object \cup {NoObject} /\ Named
  BY DEF ObInv, ObTypes
<1>o. o \in Object
  BY <1>2
<1> HIDE DEF o
<1>4. CASE (\E h \in Handle : Free(h) /\ slot' = [slot EXCEPT ![h] = o])
           /\ object' = [object EXCEPT ![o].handles = @ + 1] /\ Does(t, Rest(t))
  <2>1. PICK h \in Handle : Free(h) /\ slot' = [slot EXCEPT ![h] = o]
    BY <1>4
  <2>2. Moved(t, <<>>) /\ Calm(t)'
    BY <1>2, <1>4, GoesOn
  <2>3. /\ object' \in [Object -> Header]
        /\ \A p \in Object : p # o => object'[p] = object[p]
        /\ object'[o].live = object[o].live
        /\ object'[o].pointers = object[o].pointers
        /\ object'[o].handles = object[o].handles + 1
        /\ object'[o].attached = object[o].attached
        /\ object'[o].permanent = object[o].permanent
    <3>1. object[o].handles + 1 \in Int
      BY <1>2, InvTypes
    <3> QED BY <1>2, <1>3, <1>4, <3>1, WithHandles
  <2>4. \A p \in Object : /\ IsFiniteSet(HandlesOf(p)')
                          /\ Cardinality(HandlesOf(p)') = Cardinality(HandlesOf(p)) + Bit(p = o)
                          /\ Cardinality(HandlesOf(p)) \in Nat
                          /\ object[p].pointers \in Nat
                          /\ object[p].live <=> object[p].pointers > 0
                          /\ object[p].handles \in Nat
                          /\ Share(<<>>, p) = 0
    <3> TAKE p \in Object
    <3>1. /\ IsFiniteSet(HandlesOf(p)')
          /\ Cardinality(HandlesOf(p)') = Cardinality(HandlesOf(p)) + Bit(p = o)
      BY <2>1, <1>o, HandleTaken
    <3> QED BY <3>1, InvTypes, ShareNone
  <2>5. Counted'
    <3>1. ASSUME NEW p \in Object
          PROVE  /\ IsFiniteSet(HandlesOf(p)')
                 /\ object'[p].handles = object[p].handles
                        + (Cardinality(HandlesOf(p)') - Cardinality(HandlesOf(p)))
                 /\ object'[p].pointers = object[p].pointers
                        + (Cardinality(HandlesOf(p)') - Cardinality(HandlesOf(p)))
                        + (Bit(entry' = p) - Bit(entry = p)) + (Share(<<>>, p) - Given(t, p))
                 /\ object'[p].live <=> object'[p].pointers > 0
      <4>1. CASE p = o
        BY <4>1, <1>1, <1>2, <2>3, <2>4 DEF Bit
      <4>2. CASE p # o
        BY <4>2, <1>1, <1>2, <2>3, <2>4 DEF Bit
      <4> QED BY <4>1, <4>2
    <3> QED BY <3>1, <2>2, CountedStep
  <2>6. ObTypes' /\ Calls'
    BY <1>1, <1>2, <1>3, <2>1, <2>2, <2>3 DEF ObTypes, Moved
  <2>7. Named'
    BY <1>1, <1>2, <1>3, <2>3, <2>4 DEF Named
  <2> QED BY <2>2, <2>5, <2>6, <2>7 DEF StepOK, ObInv, Moved, Alone
<1>5. CASE slot' = slot /\ object' = object /\ Does(t, <<Step("deref", o)>> \o Rest(t))
  <2>1. Moved(t, <<Step("deref", o)>>) /\ Calm(t)'
    BY <1>2, <1>5, Deref, GoesOnWith
  <2>2. \A p \in Object : Share(<<Step("deref", o)>>, p) = Given(t, p)
    BY <1>2, Deref DEF Bit
  <2>3. ObInv'
    BY <1>1, <1>5, <2>1, <2>2, StillStep
  <2> QED BY <2>1, <2>3 DEF StepOK, Moved, Alone
<1> QED BY <1>4, <1>5 DEF CreateObjectHandle, o

LEMMA CloseStep ==
    ASSUME ObInv, Keeps, NEW t \in Thread, NtClose(t)
    PROVE  StepOK(t)
<1> DEFINE h == On(t)
           o == slot[h]
           goes == Detaches(o, object[o].handles - 1)
           d == <<Step("deref", o)>>
           P == (IF goes THEN d ELSE <<>>) \o d
<1>1. /\ At(t, "close") /\ ~Free(h) /\ (goes => entry = o)
      /\ slot' = [slot EXCEPT ![h] = NoObject]
      /\ object' = [object EXCEPT ![o].handles = @ - 1]
      /\ entry' = IF goes THEN NoObject ELSE entry
      /\ Does(t, P \o Rest(t))
  BY DEF NtClose, CloseWith, HandlesAfter
<1>2. /\ todo[t] # <<>> /\ h \in Handle /\ \A p \in Object : Given(t, p) = 0
  BY <1>1, AtFacts DEF Referencing, Owning
<1>3. o \in Object /\ object[o].live
  BY <1>1, <1>2, SlotLive
<1>4. /\ object \in [Object -> Header] /\ slot \in [Handle -> Object \cup {NoObject}]
      /\ entry \in Object \cup {NoObject} /\ Named
  BY DEF ObInv, ObTypes
<1>5. /\ P \in Seq(Item) /\ Fits(P)
      /\ \A p \in Object : Share(P, p) = Bit(p = o) + (IF goes THEN Bit(p = o) ELSE 0)
  <2>1. CASE goes
    <3> DEFINE Q == <<Step("deref", o), Step("deref", o)>>
    <3>1. /\ Q \in Seq(Item) /\ Fits(Q) /\ Q = d \o d
          /\ \A p \in Object : Share(Q, p) = 2 * Bit(p = o)
      BY <1>3, Derefs
    <3> HIDE DEF Q, d
    <3>2. P = Q
      BY <2>1, <3>1
    <3> HIDE DEF P, o, goes
    <3> QED BY <2>1, <3>1, <3>2 DEF Bit
  <2>2. CASE ~goes
    <3>1. d \in Seq(Item) /\ Fits(d) /\ \A p \in Object : Share(d, p) = Bit(p = o)
      BY <1>3, Deref
    <3> HIDE DEF d
    <3>2. <<>> \o d = d
      BY <3>1
    <3>3. P = d
      BY <2>2, <3>2
    <3> QED BY <2>2, <3>1, <3>3 DEF Bit
  <2> QED BY <2>1, <2>2
<1>6. goes <=> object[o].handles - 1 = 0 /\ object[o].attached /\ ~object[o].permanent
  BY DEF Detaches
<1> HIDE DEF P, d, goes, o, h
<1>7. Moved(t, P) /\ Calm(t)'
  BY <1>1, <1>2, <1>5, GoesOnWith
<1>8. /\ object' \in [Object -> Header]
      /\ \A p \in Object : p # o => object'[p] = object[p]
      /\ object'[o].live = object[o].live
      /\ object'[o].pointers = object[o].pointers
      /\ object'[o].handles = object[o].handles - 1
      /\ object'[o].attached = object[o].attached
      /\ object'[o].permanent = object[o].permanent
  <2>1. object[o].handles - 1 \in Int
    BY <1>3, InvTypes
  <2> QED BY <1>1, <1>3, <1>4, <2>1, WithHandles
<1>9. \A p \in Object : /\ IsFiniteSet(HandlesOf(p)')
                        /\ Cardinality(HandlesOf(p)') = Cardinality(HandlesOf(p)) - Bit(p = o)
                        /\ Cardinality(HandlesOf(p)) \in Nat
                        /\ object[p].pointers \in Nat
                        /\ object[p].live <=> object[p].pointers > 0
                        /\ object[p].handles \in Nat
  <2>1. slot[h] = o
    BY DEF o
  <2> TAKE p \in Object
  <2>2. /\ IsFiniteSet(HandlesOf(p)')
        /\ Cardinality(HandlesOf(p)') = Cardinality(HandlesOf(p)) - Bit(p = o)
    BY <1>1, <1>2, <1>3, <2>1, HandleGiven
  <2> QED BY <2>2, InvTypes
<1>10. object[o].handles > 0
  <2>1. slot[h] = o
    BY DEF o
  <2> QED BY <1>2, <1>3, <2>1, Referred, InvTypes
<1>11. Counted'
  <2>1. ASSUME NEW p \in Object
        PROVE  /\ IsFiniteSet(HandlesOf(p)')
               /\ object'[p].handles = object[p].handles
                        + (Cardinality(HandlesOf(p)') - Cardinality(HandlesOf(p)))
               /\ object'[p].pointers = object[p].pointers
                        + (Cardinality(HandlesOf(p)') - Cardinality(HandlesOf(p)))
                        + (Bit(entry' = p) - Bit(entry = p)) + (Share(P, p) - Given(t, p))
               /\ object'[p].live <=> object'[p].pointers > 0
    <3>1. CASE p = o /\ goes
      <4>1. entry' # p /\ entry = p
        BY <1>1, <3>1, ObAssumption
      <4> QED BY <4>1, <3>1, <1>2, <1>5, <1>8, <1>9 DEF Bit
    <3>2. CASE p = o /\ ~goes
      <4>1. entry' = entry
        BY <1>1, <3>2
      <4> QED BY <4>1, <3>2, <1>2, <1>5, <1>8, <1>9 DEF Bit
    <3>3. CASE p # o
      <4>1. entry' = p <=> entry = p
        BY <1>1, <3>3, ObAssumption
      <4> QED BY <4>1, <3>3, <1>2, <1>5, <1>8, <1>9 DEF Bit
    <3> QED BY <3>1, <3>2, <3>3
  <2> QED BY <2>1, <1>7, CountedStep
<1>12. ObTypes' /\ Calls'
  BY <1>1, <1>2, <1>4, <1>7, <1>8 DEF ObTypes, Moved
<1>13. Named'
  <2>1. CASE goes
    BY <1>1, <2>1 DEF Named
  <2>2. CASE ~goes
    <3>1. entry' = entry
      BY <1>1, <2>2
    <3>2. CASE entry = o
      <4>1. object[o].attached
        BY <1>3, <1>4, <3>2, ObAssumption DEF Named
      <4>2. object[o].permanent \/ object[o].handles - 1 # 0
        BY <1>6, <2>2, <4>1
      <4>3. object[o].handles - 1 # 0 => object[o].handles - 1 > 0
        BY <1>3, <1>9, <1>10
      <4> QED BY <1>8, <3>1, <3>2, <4>1, <4>2, <4>3 DEF Named
    <3>3. CASE entry # o
      BY <1>4, <1>8, <3>1, <3>3 DEF Named
    <3> QED BY <3>2, <3>3
  <2> QED BY <2>1, <2>2
<1> QED BY <1>7, <1>11, <1>12, <1>13 DEF StepOK, ObInv, Moved, Alone

LEMMA OpenStep ==
    ASSUME ObInv, Keeps, NEW t \in Thread, ObOpenObjectByPointer(t)
    PROVE  StepOK(t)
<1> DEFINE o == On(t)
           x == Step("handle", o)
<1>1. /\ At(t, "open") /\ Does(t, <<x>> \o Rest(t))
      /\ object' = [object EXCEPT ![o].pointers = @ + 1]
      /\ slot' = slot /\ entry' = entry
  BY DEF ObOpenObjectByPointer, References
<1>2. todo[t] # <<>> /\ o \in Object /\ object[o].live
  BY <1>1, AtFacts DEF Trusting
<1>3. \A p \in Object : Given(t, p) = 0
  BY <1>1, AtFacts DEF Referencing, Owning
<1>4. x \in Item /\ x.op = "handle" /\ x.on = o
  BY <1>2, NewItems
<1> HIDE DEF x, o
<1>5. <<x>> \in Seq(Item)
  BY <1>4, OneItem
<1>6. Fits(<<x>>)
  BY <1>4 DEF Fits, Trusting
<1>7. Moved(t, <<x>>) /\ Calm(t)'
  BY <1>1, <1>2, <1>5, <1>6, GoesOnWith
<1>8. Adds(t, <<x>>, o)
  <2> SUFFICES ASSUME NEW p \in Object PROVE Share(<<x>>, p) - Given(t, p) = Bit(p = o)
    BY DEF Adds
  <2>1. Share(<<x>>, p) = Bit(Owns(x, p))
    BY <1>4, ShareOne
  <2> QED BY <1>3, <1>4, <2>1 DEF Owns, Referencing, Owning, Bit
<1>9. ObInv'
  BY <1>1, <1>2, <1>7, <1>8, ReferencesStep
<1> QED BY <1>7, <1>9 DEF StepOK, Moved, Alone

LEMMA TemporaryStep ==
    ASSUME ObInv, Keeps, NEW t \in Thread, ObMakeTemporaryObject(t)
    PROVE  StepOK(t)
<1> DEFINE o == On(t)
           goes == object[o].handles = 0 /\ object[o].attached
           d == <<Step("deref", o)>>
           P == IF goes THEN d ELSE <<>>
<1>1. /\ At(t, "temporary") /\ (goes => entry = o)
      /\ object' = [object EXCEPT ![o].permanent = FALSE]
      /\ entry' = IF goes THEN NoObject ELSE entry
      /\ Does(t, P \o Rest(t))
      /\ slot' = slot
  BY DEF ObMakeTemporaryObject
<1>2. todo[t] # <<>> /\ o \in Object /\ object[o].live
  BY <1>1, AtFacts DEF Trusting
<1>3. \A p \in Object : Given(t, p) = 0
  BY <1>1, AtFacts DEF Referencing, Owning
<1>4. /\ object \in [Object -> Header] /\ slot \in [Handle -> Object \cup {NoObject}]
      /\ entry \in Object \cup {NoObject} /\ Named
  BY DEF ObInv, ObTypes
<1>5. /\ P \in Seq(Item) /\ Fits(P)
      /\ \A p \in Object : Share(P, p) = IF goes THEN Bit(p = o) ELSE 0
  <2>1. CASE goes
    BY <2>1, <1>2, Deref
  <2>2. CASE ~goes
    <3>1. P = <<>>
      BY <2>2
    <3>2. Fits(<<>>) /\ <<>> \in Seq(Item)
      BY DEF Fits
    <3> QED BY <2>2, <3>1, <3>2, ShareNone
  <2> QED BY <2>1, <2>2
<1> HIDE DEF P, d, goes, o
<1>6. Moved(t, P) /\ Calm(t)'
  BY <1>1, <1>2, <1>5, GoesOnWith
<1>7. /\ object' \in [Object -> Header]
      /\ \A p \in Object : p # o => object'[p] = object[p]
      /\ \A p \in Object : /\ object'[p].live = object[p].live
                           /\ object'[p].pointers = object[p].pointers
                           /\ object'[p].handles = object[p].handles
                           /\ object'[p].attached = object[p].attached
  <2> DEFINE R == [object[o] EXCEPT !.permanent = FALSE]
  <2>1. object[o] \in Header
    BY <1>2, <1>4
  <2>2. R \in Header
    BY <2>1 DEF Header
  <2>3. /\ R.live = object[o].live /\ R.pointers = object[o].pointers
        /\ R.handles = object[o].handles /\ R.attached = object[o].attached
    BY <2>1 DEF Header
  <2>4. object' = [object EXCEPT ![o] = R]
    BY <1>1
  <2> HIDE DEF R
  <2>5. object'[o] = R /\ \A p \in Object : p # o => object'[p] = object[p]
    BY <1>2, <1>4, <2>4
  <2>6. object' \in [Object -> Header]
    BY <1>4, <2>2, <2>4
  <2> QED BY <2>3, <2>5, <2>6
<1>8. \A p \in Object : /\ IsFiniteSet(HandlesOf(p)') /\ HandlesOf(p)' = HandlesOf(p)
                        /\ Cardinality(HandlesOf(p)) \in Nat
                        /\ object[p].pointers \in Nat
                        /\ object[p].live <=> object[p].pointers > 0
                        /\ object[p].handles \in Nat
  <2> TAKE p \in Object
  <2>1. HandlesOf(p)' = HandlesOf(p) /\ IsFiniteSet(HandlesOf(p))
    BY <1>1 DEF HandlesOf, ObInv, Counted
  <2> QED BY <2>1, InvTypes
<1>9. Counted'
  <2>1. ASSUME NEW p \in Object
        PROVE  /\ IsFiniteSet(HandlesOf(p)')
               /\ object'[p].handles = object[p].handles
                        + (Cardinality(HandlesOf(p)') - Cardinality(HandlesOf(p)))
               /\ object'[p].pointers = object[p].pointers
                        + (Cardinality(HandlesOf(p)') - Cardinality(HandlesOf(p)))
                        + (Bit(entry' = p) - Bit(entry = p)) + (Share(P, p) - Given(t, p))
               /\ object'[p].live <=> object'[p].pointers > 0
    <3>1. CASE p = o /\ goes
      <4>1. entry' # p /\ entry = p
        BY <1>1, <3>1, ObAssumption
      <4> QED BY <4>1, <3>1, <1>3, <1>5, <1>7, <1>8 DEF Bit
    <3>2. CASE ~goes
      <4>1. entry' = entry
        BY <1>1, <3>2
      <4> QED BY <4>1, <3>2, <1>3, <1>5, <1>7, <1>8 DEF Bit
    <3>3. CASE p # o
      <4>1. entry' = p <=> entry = p
        BY <1>1, <3>3, ObAssumption
      <4> QED BY <4>1, <3>3, <1>3, <1>5, <1>7, <1>8 DEF Bit
    <3> QED BY <3>1, <3>2, <3>3
  <2> QED BY <2>1, <1>6, CountedStep
<1>10. ObTypes' /\ Calls'
  BY <1>1, <1>4, <1>6, <1>7 DEF ObTypes, Moved
<1>11. Named'
  <2>1. CASE goes
    BY <1>1, <2>1 DEF Named
  <2>2. CASE ~goes /\ entry = o
    <3>1. object[o].attached
      BY <1>2, <1>4, <2>2, ObAssumption DEF Named
    <3>2. object[o].handles # 0
      BY <2>2, <3>1 DEF goes
    <3>3. object[o].handles > 0
      BY <1>2, <1>8, <3>2
    <3> QED BY <1>1, <1>2, <1>7, <2>2, <3>1, <3>3 DEF Named
  <2>3. CASE ~goes /\ entry # o
    BY <1>1, <1>4, <1>7, <2>3 DEF Named
  <2> QED BY <2>1, <2>2, <2>3
<1> QED BY <1>6, <1>9, <1>10, <1>11 DEF StepOK, ObInv, Moved, Alone

LEMMA CrashStep ==
    ASSUME ObInv, Keeps, NEW t \in Thread, DetachesAgain(t)
    PROVE  StepOK(t)
<1>1. object' = object /\ slot' = slot /\ entry' = entry /\ todo' = todo
  BY DEF DetachesAgain
<1>2. PICK op \in {"close", "temporary"} : At(t, op)
  BY DEF DetachesAgain
<1>3. Calm(t)'
  BY <1>1, <1>2 DEF Calm, At
<1>4. ObTypes' /\ Calls' /\ Named'
  BY <1>1 DEF ObInv, ObTypes, Calls, Named
<1>5. Counted'
  <2> SUFFICES ASSUME NEW p \in Object
               PROVE  /\ IsFiniteSet(HandlesOf(p)') /\ IsFiniteSet(Owners(p)')
                      /\ object'[p].pointers = Refs(p)'
                      /\ object'[p].handles = Cardinality(HandlesOf(p)')
                      /\ object'[p].live <=> Refs(p)' > 0
    BY DEF Counted
  <2>1. HandlesOf(p)' = HandlesOf(p) /\ Owners(p)' = Owners(p)
    BY <1>1 DEF HandlesOf, Owners, Owned
  <2>2. Refs(p)' = Refs(p)
    BY <1>1, <2>1 DEF Refs, Keeps
  <2> QED BY <1>1, <2>1, <2>2 DEF ObInv, Counted
<1> QED BY <1>1, <1>3, <1>4, <1>5 DEF StepOK, ObInv, Alone

LEMMA DerefStep ==
    ASSUME ObInv, Keeps, NEW t \in Thread, ObDereferenceObject(t)
    PROVE  StepOK(t)
<1> DEFINE o == On(t)
           R == Dereferenced(object[o])
<1>1. /\ At(t, "deref") /\ object' = [object EXCEPT ![o] = R]
      /\ slot' = slot /\ entry' = entry /\ Does(t, Rest(t))
  BY DEF ObDereferenceObject
<1>2. todo[t] # <<>> /\ o \in Object /\ object[o].live /\ Cardinality(Owners(o)) > 0
  BY <1>1, AtFacts DEF Referencing, Owning
<1>3. \A p \in Object : Given(t, p) = Bit(o = p)
  BY <1>1, AtFacts DEF Referencing, Owning
<1>4. /\ object \in [Object -> Header] /\ slot \in [Handle -> Object \cup {NoObject}]
      /\ entry \in Object \cup {NoObject} /\ Named
  BY DEF ObInv, ObTypes
<1>5. Moved(t, <<>>) /\ Calm(t)'
  BY <1>1, <1>2, GoesOn
<1> HIDE DEF o
<1>6. /\ object[o] \in Header /\ object[o].pointers \in Nat /\ object[o].pointers > 0
      /\ object[o].handles \in Nat
      /\ object[o].pointers = 1 => object[o].handles = 0 /\ entry # o
  <2>1. /\ Cardinality(HandlesOf(o)) \in Nat /\ Cardinality(Owners(o)) \in Nat
        /\ object[o].pointers = Refs(o) /\ object[o].handles = Cardinality(HandlesOf(o))
        /\ Refs(o) \in Nat /\ object[o] \in Header
    BY <1>2, InvTypes
  <2>2. Refs(o) > 0
    BY <1>2, InvTypes
  <2>3. Refs(o) = 1 => Cardinality(HandlesOf(o)) = 0 /\ entry # o
    BY <1>2, <2>1 DEF Refs, Bit
  <2> QED BY <2>1, <2>2, <2>3
<1>7. /\ R \in Header /\ R.pointers = object[o].pointers - 1
      /\ R.handles = object[o].handles
      /\ R.live <=> R.pointers > 0
      /\ object[o].pointers # 1 => /\ R.attached = object[o].attached
                                   /\ R.permanent = object[o].permanent
  <2>1. CASE object[o].pointers = 1
    <3>1. R = NoHeader
      BY <2>1 DEF Dereferenced
    <3>2. /\ NoHeader \in Header /\ NoHeader.pointers = 0 /\ NoHeader.handles = 0
          /\ NoHeader.live = FALSE
      BY DEF NoHeader, Header
    <3> QED BY <2>1, <3>1, <3>2, <1>6
  <2>2. CASE object[o].pointers # 1
    <3> DEFINE n == object[o].pointers - 1
    <3>1. R = [object[o] EXCEPT !.pointers = n]
      BY <2>2 DEF Dereferenced
    <3>2. n \in Int /\ n > 0
      BY <2>2, <1>6
    <3> HIDE DEF R, n
    <3>3. /\ R \in Header /\ R.pointers = n /\ R.handles = object[o].handles
          /\ R.live = object[o].live /\ R.attached = object[o].attached
          /\ R.permanent = object[o].permanent
      BY <3>1, <3>2, <1>6 DEF Header
    <3> QED BY <2>2, <3>2, <3>3, <1>2 DEF n
  <2> QED BY <2>1, <2>2
<1> HIDE DEF R
<1>8. object' \in [Object -> Header] /\ object'[o] = R /\ \A p \in Object : p # o => object'[p] = object[p]
  BY <1>1, <1>2, <1>4, <1>7
<1>9. \A p \in Object :
                /\ object'[p].handles = object[p].handles
                /\ object'[p].pointers = object[p].pointers + (Share(<<>>, p) - Given(t, p))
                /\ object'[p].live <=> object'[p].pointers > 0
  <2> TAKE p \in Object
  <2>1. Share(<<>>, p) = 0 /\ object[p].pointers \in Nat
    BY ShareNone, InvTypes
  <2>2. object[p].live <=> object[p].pointers > 0
    BY InvTypes
  <2>3. CASE p = o
    BY <2>3, <2>1, <1>3, <1>6, <1>7, <1>8 DEF Bit
  <2>4. CASE p # o
    BY <2>4, <2>1, <2>2, <1>3, <1>8 DEF Bit
  <2> QED BY <2>3, <2>4
<1>10. Counted'
  BY <1>1, <1>5, <1>9, CountStep
<1>11. ObTypes' /\ Calls'
  BY <1>1, <1>4, <1>5, <1>8 DEF ObTypes, Moved
<1>12. Named'
  BY <1>1, <1>4, <1>6, <1>7, <1>8 DEF Named
<1> QED BY <1>5, <1>10, <1>11, <1>12 DEF StepOK, ObInv, Moved, Alone

LEMMA ObStepStep ==
    ASSUME ObInv, Keeps, NEW t \in Thread, ObStep(t)
    PROVE  StepOK(t)
BY InsertFailsStep, InsertStep, HandleStep, CloseStep, OpenStep, TemporaryStep, CrashStep,
   DerefStep DEF ObStep

-----------------------------------------------------------------------------
(* Timers beside a step that leaves their associations alone.              *)

(* All that such a step does to a timer: one that is gone is not armed any *)
(* more, one without an association may be initialized.                    *)
TimersStay ==
    /\ timer' \in [Object -> ETimer]
    /\ \A o \in Object :
        /\ timer'[o].associated = timer[o].associated
        /\ timer'[o].apcThread = timer[o].apcThread
        /\ timer'[o].inserted = timer[o].inserted
        /\ timer[o].associated => timer'[o].period = timer[o].period
        /\ timer'[o].armed => timer[o].armed /\ object'[o].live
    /\ active' = active /\ life' = life

LEMMA TimerFields ==
    ASSUME TimerTypes, NEW o \in Object
    PROVE  /\ timer[o] \in ETimer
           /\ timer[o].associated \in BOOLEAN /\ timer[o].period \in BOOLEAN
           /\ timer[o].armed \in BOOLEAN /\ timer[o].inserted \in BOOLEAN
           /\ timer[o].apcThread \in Thread \cup {NoThread}
BY DEF TimerTypes, ETimer

LEMMA ApcOn ==
    ASSUME ObInv, NEW u \in Thread, todo[u] # <<>>, Head(todo[u]).op = "apc"
    PROVE  On(u) \in Object
<1>1. Head(todo[u]) \in Item
  BY DEF ObInv, ObTypes
<1> QED BY <1>1, ItemFacts DEF On

LEMMA StayStep ==
    ASSUME TimerInv, NEW t \in Thread, StepOK(t), TimersStay, late' = late,
           life[t] = "exited" => todo'[t] = todo[t]
    PROVE  TimerInv'
<1>1. ObInv' /\ Calm(t)' /\ Alone(t)
  BY DEF StepOK
<1>2. TimerTypes'
  BY DEF TimerInv, TimerTypes, TimersStay
<1>3. Ended'
  BY <1>1 DEF TimerInv, TimersStay, Ended, Alone
<1>4. Listed'
  BY DEF TimerInv, TimersStay, Listed
<1>5. Queued'
  <2> SUFFICES ASSUME NEW o \in Object
               PROVE  /\ timer'[o].armed => object'[o].live
                      /\ timer'[o].inserted => timer'[o].associated
                      /\ timer'[o].inserted /\ ~timer'[o].period => ~timer'[o].armed
                      /\ timer'[o].associated <=> timer'[o].apcThread # NoThread
    BY DEF Queued
  <2>1. /\ timer[o].inserted => timer[o].associated
        /\ timer[o].inserted /\ ~timer[o].period => ~timer[o].armed
        /\ timer[o].associated <=> timer[o].apcThread # NoThread
    BY DEF TimerInv, Queued
  <2> QED BY <2>1 DEF TimersStay
<1>6. Coming'
  <2> SUFFICES ASSUME NEW u \in Thread, todo'[u] # <<>>, Head(todo'[u]).op = "apc", Runs(u)'
               PROVE  u \notin late' /\ (~timer'[On(u)'].period =>
                            ~timer'[On(u)'].armed /\ ~timer'[On(u)'].inserted)
    BY DEF Coming
  <2>1. u # t
    BY <1>1 DEF Calm
  <2>2. todo'[u] = todo[u]
    BY <1>1, <2>1 DEF Alone
  <2>3. On(u) \in Object /\ On(u)' = On(u)
    BY <2>2, ApcOn DEF On, TimerInv
  <2>4. Runs(u)
    BY <2>3 DEF Runs, TimersStay
  <2>5. u \notin late /\ (~timer[On(u)].period => ~timer[On(u)].armed /\ ~timer[On(u)].inserted)
    BY <2>2, <2>4 DEF TimerInv, Coming
  <2> QED BY <2>3, <2>4, <2>5 DEF TimersStay, Runs
<1> QED BY <1>1, <1>2, <1>3, <1>4, <1>5, <1>6 DEF TimerInv

LEMMA ObjectStepStep ==
    ASSUME TimerInv, NEW t \in Thread, ObjectStep(t)
    PROVE  TimerInv'
<1>1. /\ ObStep(t) /\ active' = active /\ life' = life /\ late' = late
      /\ timer' = [o \in Object |-> IF object[o].live /\ ~object'[o].live
                       THEN [timer[o] EXCEPT !.armed = FALSE] ELSE timer[o]]
  BY DEF ObjectStep
<1>2. timer \in [Object -> ETimer] /\ ObInv /\ Queued /\ Ended
  BY DEF TimerInv, TimerTypes
<1>3. ASSUME NEW o \in Object
      PROVE  /\ timer'[o] \in ETimer
             /\ timer'[o].associated = timer[o].associated
             /\ timer'[o].apcThread = timer[o].apcThread
             /\ timer'[o].inserted = timer[o].inserted
             /\ timer'[o].period = timer[o].period
             /\ timer'[o].armed => timer[o].armed /\ object'[o].live
  <2>1. timer[o] \in ETimer
    BY <1>2
  <2>2. CASE object[o].live /\ ~object'[o].live
    <3>1. timer'[o] = [timer[o] EXCEPT !.armed = FALSE]
      BY <1>1, <2>2
    <3> QED BY <2>1, <3>1 DEF ETimer
  <2>3. CASE ~(object[o].live /\ ~object'[o].live)
    <3>1. timer'[o] = timer[o]
      BY <1>1, <2>3
    <3>2. timer[o].armed => object[o].live
      BY <1>2 DEF Queued
    <3> QED BY <2>1, <2>3, <3>1, <3>2
  <2> QED BY <2>2, <2>3
<1>4. timer' \in [Object -> ETimer]
  BY <1>1, <1>3
<1>5. TimersStay /\ Keeps
  BY <1>1, <1>3, <1>4 DEF TimersStay, Keeps
<1>6. StepOK(t)
  BY <1>1, <1>2, <1>5, ObStepStep
<1>7. todo[t] # <<>>
  BY <1>1 DEF ObStep, InsertFails, ObInsertObject, CreateObjectHandle, NtClose, CloseWith,
              CloseInvalid, ObOpenObjectByPointer, ObMakeTemporaryObject, DetachesAgain,
              ObDereferenceObject, At
<1>8. life[t] # "exited"
  BY <1>2, <1>7 DEF Ended
<1> QED BY <1>1, <1>5, <1>6, <1>8, StayStep

LEMMA ObjectCallStep ==
    ASSUME TimerInv, NEW t \in Thread, ObjectCall(t)
    PROVE  TimerInv'
<1>1. /\ ObCall(t) /\ active' = active /\ life' = life /\ late' = late /\ life[t] = "alive"
      /\ timer' = [o \in Object |-> IF ~object[o].live /\ object'[o].live
                                    THEN NoTimer ELSE timer[o]]
  BY DEF ObjectCall
<1>2. timer \in [Object -> ETimer] /\ ObInv /\ Queued
  BY DEF TimerInv, TimerTypes
<1>n. /\ NoTimer \in ETimer /\ ~NoTimer.associated /\ NoTimer.apcThread = NoThread
      /\ NoTimer.inserted = FALSE /\ NoTimer.armed = FALSE /\ NoTimer.associated = FALSE
  BY DEF NoTimer, ETimer
<1>3. ASSUME NEW o \in Object
      PROVE  /\ timer'[o] \in ETimer
             /\ timer'[o].associated = timer[o].associated
             /\ timer'[o].apcThread = timer[o].apcThread
             /\ timer'[o].inserted = timer[o].inserted
             /\ timer[o].associated => timer'[o].period = timer[o].period
             /\ timer'[o].armed => timer[o].armed
  <2>1. timer[o] \in ETimer /\ timer[o].associated \in BOOLEAN /\ timer[o].inserted \in BOOLEAN
    BY TimerFields DEF TimerInv
  <2>2. CASE ~object[o].live /\ object'[o].live
    <3>1. timer'[o] = NoTimer
      BY <1>1, <2>2
    <3>2. timer[o].associated = FALSE
      BY <1>2, <2>1, <2>2, Referred
    <3>3. timer[o].inserted = FALSE /\ timer[o].apcThread = NoThread
      BY <1>2, <2>1, <3>2 DEF Queued
    <3> QED BY <1>n, <3>1, <3>2, <3>3
  <2>3. CASE ~(~object[o].live /\ object'[o].live)
    <3>1. timer'[o] = timer[o]
      BY <1>1, <2>3
    <3> QED BY <2>1, <3>1
  <2> QED BY <2>2, <2>3
<1>4. timer' \in [Object -> ETimer]
  BY <1>1, <1>3
<1>5. Keeps
  BY <1>3 DEF Keeps
<1>6. StepOK(t)
  BY <1>1, <1>2, <1>5, ObCallStep
<1>7. ASSUME NEW o \in Object, timer[o].armed PROVE object'[o].live
  <2>1. object[o].live /\ object \in [Object -> Header]
    BY <1>2, <1>7 DEF Queued, ObInv, ObTypes
  <2>2. CASE ObCreateObject(t)
    <3>1. PICK p \in Object : Unused(p) /\ object' = [object EXCEPT ![p] =
                                 [NoHeader EXCEPT !.live = TRUE, !.pointers = 1]]
      BY <2>2 DEF ObCreateObject
    <3>2. p # o
      BY <2>1, <3>1 DEF Unused
    <3> QED BY <2>1, <3>1, <3>2
  <2>3. CASE Close(t)
    BY <2>1, <2>3 DEF Close
  <2>4. CASE \E p, P : References(t, p, P)
    <3>1. PICK p, P : object' = [object EXCEPT ![p].pointers = @ + 1]
      BY <2>4 DEF References
    <3>2. CASE p \in Object
      BY <2>1, <3>1, <3>2 DEF Header
    <3>3. CASE p \notin Object
      BY <2>1, <3>1, <3>3
    <3> QED BY <3>2, <3>3
  <2>5. NtDuplicateObject(t) \/ ObOpenObjectByName(t) \/ NtMakeTemporaryObject(t)
           => \E p, P : References(t, p, P)
    BY Zenon DEF NtDuplicateObject, ObOpenObjectByName, NtMakeTemporaryObject
  <2> QED BY <1>1, <2>2, <2>3, <2>4, <2>5 DEF ObCall
<1>8. TimersStay
  BY <1>1, <1>3, <1>4, <1>7 DEF TimersStay
<1> QED BY <1>1, <1>6, <1>8, StayStep

(* The beginnings of NtCancelTimer and NtSetTimerEx. *)
LEMMA StartWith ==
    ASSUME TimerInv, NEW t \in Thread, NEW o \in Object, object[o].live,
           life[t] = "alive", Idle(t), NEW x \in Item, x.op \in {"cancel", "set"}, x.on = o,
           References(t, o, <<x>>), timer' = timer, active' = active, life' = life, late' = late
    PROVE  TimerInv'
<1>1. <<x>> \in Seq(Item) /\ <<x>> # <<>>
  BY OneItem
<1>2. Fits(<<x>>)
  BY DEF Fits, Trusting
<1>3. \A p \in Object : Share(<<x>>, p) = Bit(p = o)
  <2> TAKE p \in Object
  <2>1. Share(<<x>>, p) = Bit(Owns(x, p))
    BY ShareOne
  <2> QED BY <2>1 DEF Owns, Referencing, Bit
<1>4. ObInv /\ Keeps /\ Queued /\ timer \in [Object -> ETimer] /\ object \in [Object -> Header]
  BY DEF TimerInv, TimerTypes, ObInv, ObTypes, Keeps
<1>5. StepOK(t)
  BY <1>1, <1>2, <1>3, <1>4, ReferencesOK
<1>6. \A p \in Object : object'[p].live = object[p].live
  <2>1. object' = [object EXCEPT ![o].pointers = @ + 1]
    BY DEF References
  <2> QED BY <1>4, <2>1 DEF Header
<1>7. TimersStay
  BY <1>4, <1>6 DEF TimersStay, Queued
<1> QED BY <1>5, <1>7, StayStep

LEMMA CancelCall ==
    ASSUME TimerInv, NEW t \in Thread, Cancel(t)
    PROVE  TimerInv'
<1>1. PICK h \in Handle : ~Free(h) /\ References(t, slot[h],
                              <<[o \in Object |-> Step("cancel", o)][slot[h]]>>)
  BY DEF Cancel, Start
<1>2. slot[h] \in Object /\ object[slot[h]].live
  BY <1>1, SlotLive DEF TimerInv
<1> DEFINE x == Step("cancel", slot[h])
<1>3. x \in Item /\ x.op \in {"cancel", "set"} /\ x.on = slot[h]
  BY <1>2, NewItems
<1>4. References(t, slot[h], <<x>>)
  BY <1>1, <1>2
<1>5. life[t] = "alive" /\ Idle(t) /\ timer' = timer /\ active' = active /\ life' = life
      /\ late' = late
  BY DEF Cancel, Start, timerVars
<1> HIDE DEF x
<1> QED BY <1>2, <1>3, <1>4, <1>5, StartWith

LEMMA SetCall ==
    ASSUME TimerInv, NEW t \in Thread, Set(t)
    PROVE  TimerInv'
<1>1. PICK apc \in BOOLEAN, period \in BOOLEAN :
        Start(t, [o \in Object |-> [op |-> "set", on |-> o, apc |-> apc, period |-> period]])
  BY DEF Set
<1>2. PICK h \in Handle : ~Free(h) /\ References(t, slot[h],
        <<[o \in Object |-> [op |-> "set", on |-> o, apc |-> apc, period |-> period]][slot[h]]>>)
  BY <1>1 DEF Start
<1>3. slot[h] \in Object /\ object[slot[h]].live
  BY <1>2, SlotLive DEF TimerInv
<1> DEFINE x == [op |-> "set", on |-> slot[h], apc |-> apc, period |-> period]
<1>4. x \in Item /\ x.op \in {"cancel", "set"} /\ x.on = slot[h]
  BY <1>3 DEF Item
<1>5. References(t, slot[h], <<x>>)
  BY <1>2, <1>3
<1>6. life[t] = "alive" /\ Idle(t) /\ timer' = timer /\ active' = active /\ life' = life
      /\ late' = late
  BY <1>1 DEF Start, timerVars
<1> HIDE DEF x
<1> QED BY <1>3, <1>4, <1>5, <1>6, StartWith

(* An APC whose timer is gone. *)
LEMMA FreedStep ==
    ASSUME TimerInv, NEW t \in Thread, ApcFindsFreed(t)
    PROVE  TimerInv'
<1>1. /\ At(t, "apc") /\ Does(t, Rest(t)) /\ object' = object /\ slot' = slot /\ entry' = entry
      /\ timer' = timer /\ active' = active /\ life' = life /\ late' = late
  BY DEF ApcFindsFreed, timerVars
<1>2. ObInv /\ Keeps /\ Queued /\ Ended /\ timer \in [Object -> ETimer]
  BY <1>1 DEF TimerInv, TimerTypes, Keeps
<1>3. todo[t] # <<>> /\ \A p \in Object : Given(t, p) = 0
  BY <1>1, <1>2, AtFacts DEF Referencing, Owning
<1>4. Moved(t, <<>>) /\ Calm(t)'
  BY <1>1, <1>2, <1>3, GoesOn
<1>5. \A p \in Object : Share(<<>>, p) = Given(t, p)
  BY <1>3, ShareNone
<1>6. ObInv'
  BY <1>1, <1>2, <1>4, <1>5, StillStep
<1>7. StepOK(t)
  BY <1>4, <1>6 DEF StepOK, Moved, Alone
<1>8. TimersStay
  BY <1>1, <1>2 DEF TimersStay, Queued
<1>9. life[t] # "exited"
  BY <1>2, <1>3 DEF Ended
<1> QED BY <1>1, <1>7, <1>8, <1>9, StayStep

-----------------------------------------------------------------------------
(* An association with an APC begins or ends.                              *)

LEMMA AssociationStep ==
    ASSUME ObInv, TimerTypes, TimerTypes', NEW t \in Thread, NEW P, Moved(t, P), Calm(t)',
           object' = object, slot' = slot, entry' = entry,
           \A p \in Object : Bit(timer'[p].associated) + Share(P, p)
                                = Bit(timer[p].associated) + Given(t, p)
    PROVE  StepOK(t)
<1>1. Counted'
  <2> SUFFICES ASSUME NEW p \in Object
               PROVE  /\ IsFiniteSet(HandlesOf(p)') /\ IsFiniteSet(Owners(p)')
                      /\ object'[p].pointers = Refs(p)'
                      /\ object'[p].handles = Cardinality(HandlesOf(p)')
                      /\ object'[p].live <=> Refs(p)' > 0
    BY DEF Counted
  <2>1. HandlesOf(p)' = HandlesOf(p) /\ IsFiniteSet(HandlesOf(p))
    BY DEF HandlesOf, ObInv, Counted
  <2>2. /\ IsFiniteSet(Owners(p)')
        /\ Cardinality(Owners(p)') = Cardinality(Owners(p)) + Share(P, p) - Given(t, p)
        /\ Share(P, p) \in Nat /\ Given(t, p) \in {0, 1}
    BY DEF Moved
  <2>3. /\ Cardinality(HandlesOf(p)) \in Nat /\ Cardinality(Owners(p)) \in Nat
        /\ object[p].pointers = Refs(p) /\ object[p].handles = Cardinality(HandlesOf(p))
    BY InvTypes
  <2>4. object[p].live <=> Refs(p) > 0
    BY InvTypes
  <2>5. /\ Bit(timer[p].associated) \in {0, 1} /\ Bit(timer'[p].associated) \in {0, 1}
        /\ Bit(entry = p) \in {0, 1}
    BY DEF Bit
  <2>6. Refs(p)' = Cardinality(HandlesOf(p)) + Bit(entry = p) + Bit(timer'[p].associated)
                   + Cardinality(Owners(p)')
    BY <2>1 DEF Refs, Bit
  <2>7. Refs(p)' = Refs(p)
    BY <2>2, <2>3, <2>5, <2>6 DEF Refs
  <2> QED BY <2>1, <2>2, <2>3, <2>4, <2>7
<1>2. ObTypes' /\ Calls' /\ Named'
  BY DEF ObInv, ObTypes, Named, Moved
<1> QED BY <1>1, <1>2 DEF StepOK, ObInv, Moved, Alone

LEMMA OutOf ==
    ASSUME active \in [Thread -> Seq(Object)], \A u \in Thread : IsInjective(active[u]),
           NEW o
    PROVE  /\ Out(o, active) \in [Thread -> Seq(Object)]
           /\ \A u \in Thread : /\ Out(o, active)[u] \in Seq(Object)
                                /\ IsInjective(Out(o, active)[u])
                                /\ Range(Out(o, active)[u]) = Range(active[u]) \ {o}
<1>1. ASSUME NEW u \in Thread
      PROVE  /\ Unlink(active[u], o) \in Seq(Object)
             /\ IsInjective(Unlink(active[u], o))
             /\ Range(Unlink(active[u], o)) = Range(active[u]) \ {o}
  <2>1. active[u] \in Seq(Object) /\ IsInjective(active[u])
    OBVIOUS
  <2> QED BY <2>1, UnlinkProperties
<1> QED BY <1>1 DEF Out

(* The association of o ends, and o leaves every list. *)
LEMMA ListsLose ==
    ASSUME TimerTypes, Listed, NEW o \in Object, NEW R, R.associated = FALSE,
           timer' = [timer EXCEPT ![o] = R], active' = Out(o, active)
    PROVE  active' \in [Thread -> Seq(Object)] /\ Listed'
<1>1. active \in [Thread -> Seq(Object)] /\ \A u \in Thread : IsInjective(active[u])
  BY DEF TimerTypes, Listed
<1>2. /\ active' \in [Thread -> Seq(Object)]
      /\ \A u \in Thread : /\ IsInjective(active'[u])
                           /\ Range(active'[u]) = Range(active[u]) \ {o}
  BY <1>1, OutOf
<1>3. timer'[o] = R /\ \A p \in Object : p # o => timer'[p] = timer[p]
  BY DEF TimerTypes
<1>4. ASSUME NEW u \in Thread
      PROVE  Range(active'[u]) = {p \in Object : timer'[p].associated /\ timer'[p].apcThread = u}
  <2>1. Range(active[u]) = {p \in Object : timer[p].associated /\ timer[p].apcThread = u}
    BY DEF Listed
  <2> QED BY <1>2, <1>3, <2>1
<1> QED BY <1>2, <1>4 DEF Listed

(* o is associated with an APC for t, at the end of whose list it stands.  *)
LEMMA ListsGain ==
    ASSUME TimerTypes, Listed, NEW o \in Object, NEW t \in Thread, NEW R,
           R.associated = TRUE, R.apcThread = t, timer' = [timer EXCEPT ![o] = R],
           active' = [Out(o, active) EXCEPT ![t] = Append(@, o)]
    PROVE  active' \in [Thread -> Seq(Object)] /\ Listed'
<1>1. active \in [Thread -> Seq(Object)] /\ \A u \in Thread : IsInjective(active[u])
  BY DEF TimerTypes, Listed
<1> DEFINE A == Out(o, active)
<1>2. /\ A \in [Thread -> Seq(Object)]
      /\ \A u \in Thread : /\ A[u] \in Seq(Object) /\ IsInjective(A[u])
                           /\ Range(A[u]) = Range(active[u]) \ {o}
  BY <1>1, OutOf
<1> HIDE DEF A
<1>3. timer'[o] = R /\ \A p \in Object : p # o => timer'[p] = timer[p]
  BY DEF TimerTypes
<1> DEFINE B == Append(A[t], o)
<1>4. B \in Seq(Object) /\ IsInjective(B) /\ Range(B) = Range(A[t]) \cup {o}
  <2>1. A[t] \in Seq(Object) /\ IsInjective(A[t]) /\ o \notin Range(A[t])
    BY <1>2
  <2> QED BY <2>1, AppendLinks
<1>5. active' = [A EXCEPT ![t] = B]
  BY DEF A
<1> HIDE DEF B
<1>6. /\ active' \in [Thread -> Seq(Object)] /\ active'[t] = B
      /\ \A u \in Thread : u # t => active'[u] = A[u]
  <2>1. A \in [Thread -> Seq(Object)]
    BY <1>2
  <2>2. B \in Seq(Object)
    BY <1>4
  <2> QED BY <1>5, <2>1, <2>2
<1>7. ASSUME NEW u \in Thread
      PROVE  /\ IsInjective(active'[u])
             /\ Range(active'[u]) = {p \in Object : timer'[p].associated /\ timer'[p].apcThread = u}
  <2>1. Range(active[u]) = {p \in Object : timer[p].associated /\ timer[p].apcThread = u}
    BY DEF Listed
  <2>2. CASE u = t
    <3>1. Range(active'[u]) = (Range(active[u]) \ {o}) \cup {o}
      BY <1>2, <1>4, <1>6, <2>2
    <3>2. IsInjective(active'[u])
      BY <1>4, <1>6, <2>2
    <3>3. \A p \in Object : timer'[p].associated /\ timer'[p].apcThread = u
                <=> p = o \/ (timer[p].associated /\ timer[p].apcThread = u)
      BY <1>3, <2>2
    <3>4. Range(active'[u]) = Range(active[u]) \cup {o}
      BY <3>1
    <3> QED BY <2>1, <3>2, <3>3, <3>4
  <2>3. CASE u # t
    <3>1. Range(active'[u]) = Range(active[u]) \ {o} /\ IsInjective(active'[u])
      BY <1>2, <1>6, <2>3
    <3> QED BY <1>3, <2>1, <2>3, <3>1
  <2> QED BY <2>2, <2>3
<1> QED BY <1>6, <1>7 DEF Listed

(* The rest of the invariant when t changes the timer o only, and leaves   *)
(* it without an association or with its own.                              *)
Settled(R, t) ==
    /\ R \in ETimer /\ R.inserted = FALSE
    /\ IF R.associated THEN R.apcThread = t ELSE R.apcThread = NoThread

LEMMA SettleStep ==
    ASSUME TimerInv, NEW t \in Thread, NEW o \in Object, object[o].live, NEW R, Settled(R, t),
           timer' = [timer EXCEPT ![o] = R], object' = object, life' = life,
           StepOK(t), active' \in [Thread -> Seq(Object)], Listed', todo[t] # <<>>,
           \A u \in Thread : active[u] = <<>> /\ u # t => active'[u] = <<>>,
           late' \subseteq late \cup OnItsWay(o)
    PROVE  TimerInv'
<1>1. ObInv' /\ Calm(t)' /\ Alone(t)
  BY DEF StepOK
<1>2. /\ timer \in [Object -> ETimer] /\ late \subseteq Thread /\ TimerTypes
      /\ Queued /\ Coming /\ Ended /\ ObInv
  BY DEF TimerInv, TimerTypes
<1>3. /\ timer' \in [Object -> ETimer] /\ timer'[o] = R
      /\ \A p \in Object : p # o => timer'[p] = timer[p]
  BY <1>2 DEF Settled
<1>4. TimerTypes'
  <2>1. OnItsWay(o) \subseteq Thread
    BY DEF OnItsWay
  <2> QED BY <1>2, <1>3, <2>1 DEF TimerTypes
<1>5. Ended'
  <2>1. life[t] # "exited"
    BY <1>2 DEF Ended
  <2> QED BY <1>1, <1>2, <2>1 DEF Ended, Alone
<1>6. Queued'
  <2> SUFFICES ASSUME NEW p \in Object
               PROVE  /\ timer'[p].armed => object'[p].live
                      /\ timer'[p].inserted => timer'[p].associated
                      /\ timer'[p].inserted /\ ~timer'[p].period => ~timer'[p].armed
                      /\ timer'[p].associated <=> timer'[p].apcThread # NoThread
    BY DEF Queued
  <2>1. CASE p = o
    BY <1>3, <2>1, ExTimerAssumption DEF Settled
  <2>2. CASE p # o
    BY <1>2, <1>3, <2>2 DEF Queued
  <2> QED BY <2>1, <2>2
<1>7. Coming'
  <2> SUFFICES ASSUME NEW u \in Thread, todo'[u] # <<>>, Head(todo'[u]).op = "apc", Runs(u)'
               PROVE  u \notin late' /\ (~timer'[On(u)'].period =>
                            ~timer'[On(u)'].armed /\ ~timer'[On(u)'].inserted)
    BY DEF Coming
  <2>1. u # t
    BY <1>1 DEF Calm
  <2>2. todo'[u] = todo[u]
    BY <1>1, <2>1 DEF Alone
  <2>3. On(u) \in Object /\ On(u)' = On(u)
    BY <1>2, <2>2, ApcOn DEF On
  <2>4. On(u) # o
    <3>1. ASSUME On(u) = o PROVE FALSE
      <4>1. R.associated /\ R.apcThread = u
        BY <1>3, <2>3, <3>1 DEF Runs
      <4> QED BY <2>1, <4>1 DEF Settled
    <3> QED BY <3>1
  <2>5. timer'[On(u)'] = timer[On(u)] /\ Runs(u)
    BY <1>3, <2>3, <2>4 DEF Runs
  <2>6. u \notin late /\ (~timer[On(u)].period => ~timer[On(u)].armed /\ ~timer[On(u)].inserted)
    BY <1>2, <2>2, <2>5 DEF Coming
  <2>7. u \notin OnItsWay(o)
    BY <2>4 DEF OnItsWay
  <2> QED BY <2>5, <2>6, <2>7
<1> QED BY <1>1, <1>4, <1>5, <1>6, <1>7 DEF TimerInv

LEMMA DisassociatedFacts ==
    ASSUME TimerTypes, Queued, NEW o \in Object
    PROVE  /\ Disassociated(o) \in ETimer /\ Disassociated(o).associated = FALSE
           /\ Disassociated(o).apcThread = NoThread /\ Disassociated(o).inserted = FALSE
<1>1. /\ timer[o] \in ETimer /\ timer[o].associated \in BOOLEAN /\ timer[o].inserted \in BOOLEAN
  BY TimerFields
<1>2. CASE timer[o].associated
  <2>1. Disassociated(o) = NoTimer
    BY <1>2 DEF Disassociated
  <2> QED BY <2>1 DEF NoTimer, ETimer
<1>3. CASE ~timer[o].associated
  <2>1. Disassociated(o) = [timer[o] EXCEPT !.armed = FALSE]
    BY <1>3 DEF Disassociated
  <2>2. timer[o].inserted = FALSE /\ timer[o].apcThread = NoThread
    BY <1>1, <1>3 DEF Queued
  <2> QED BY <1>1, <1>3, <2>1, <2>2 DEF ETimer
<1> QED BY <1>2, <1>3

(* The reference of an association that ends is given back. *)
LEMMA BeforeFacts ==
    ASSUME NEW o \in Object
    PROVE  /\ Before(o) \in Seq(Item) /\ Fits(Before(o))
           /\ Before(o) \o <<Step("deref", o)>> \in Seq(Item)
           /\ Fits(Before(o) \o <<Step("deref", o)>>)
           /\ \A p \in Object :
                Share(Before(o), p) = IF timer[o].associated THEN Bit(p = o) ELSE 0
           /\ \A p \in Object :
                Share(Before(o) \o <<Step("deref", o)>>, p) =
                    IF timer[o].associated THEN 2 * Bit(p = o) ELSE Bit(p = o)
<1> DEFINE d == <<Step("deref", o)>>
           Q == <<Step("deref", o), Step("deref", o)>>
<1>1. /\ Q \in Seq(Item) /\ Fits(Q) /\ Q = d \o d
      /\ \A p \in Object : Share(Q, p) = 2 * Bit(p = o)
  BY Derefs
<1>2. /\ d \in Seq(Item) /\ Fits(d)
      /\ \A p \in Object : Share(d, p) = Bit(p = o)
  BY Deref
<1>3. /\ <<>> \in Seq(Item) /\ Fits(<<>>)
      /\ \A p \in Object : Share(<<>>, p) = 0
  BY ShareNone DEF Fits
<1>4. Before(o) = IF timer[o].associated THEN d ELSE <<>>
  BY DEF Before
<1> HIDE DEF d, Q
<1>5. <<>> \o d = d
  BY <1>2
<1>6. Before(o) \o d = IF timer[o].associated THEN Q ELSE d
  BY <1>1, <1>4, <1>5
<1>7. CASE timer[o].associated
  <2>1. Before(o) = d /\ Before(o) \o d = Q
    BY <1>4, <1>6, <1>7
  <2>2. /\ Before(o) \in Seq(Item) /\ Fits(Before(o))
        /\ Before(o) \o d \in Seq(Item) /\ Fits(Before(o) \o d)
    BY <2>1, <1>1, <1>2
  <2>3. \A p \in Object : Share(Before(o), p) = Bit(p = o)
    BY <2>1, <1>2
  <2>4. \A p \in Object : Share(Before(o) \o d, p) = 2 * Bit(p = o)
    BY <2>1, <1>1
  <2> QED BY <2>2, <2>3, <2>4, <1>7 DEF d
<1>8. CASE ~timer[o].associated
  <2>1. Before(o) = <<>> /\ Before(o) \o d = d
    BY <1>4, <1>6, <1>8
  <2>2. /\ Before(o) \in Seq(Item) /\ Fits(Before(o))
        /\ Before(o) \o d \in Seq(Item) /\ Fits(Before(o) \o d)
    BY <2>1, <1>2, <1>3
  <2>3. \A p \in Object : Share(Before(o), p) = 0
    BY <2>1, <1>3
  <2>4. \A p \in Object : Share(Before(o) \o d, p) = Bit(p = o)
    BY <2>1, <1>2
  <2> QED BY <2>2, <2>3, <2>4, <1>8 DEF d
<1> QED BY <1>7, <1>8

LEMMA CancelStep ==
    ASSUME TimerInv, NEW t \in Thread, NtCancelTimer(t)
    PROVE  TimerInv'
<1> DEFINE o == On(t)
           d == <<Step("deref", o)>>
           P == Before(o) \o d
           R == Disassociated(o)
<1>1. /\ At(t, "cancel") /\ timer' = [timer EXCEPT ![o] = R] /\ active' = Out(o, active)
      /\ late' = late \cup OnItsWay(o)
      /\ object' = object /\ slot' = slot /\ entry' = entry /\ life' = life
  BY DEF NtCancelTimer
<1>2. Does(t, P \o Rest(t))
  BY DEF NtCancelTimer
<1>3. ObInv /\ TimerTypes /\ Queued /\ Listed /\ timer \in [Object -> ETimer]
      /\ late \subseteq Thread
  BY DEF TimerInv, TimerTypes
<1>4. /\ todo[t] # <<>> /\ o \in Object /\ object[o].live
      /\ \A p \in Object : Given(t, p) = Bit(o = p)
  BY <1>1, <1>3, AtFacts DEF Referencing, Owning
<1>5. /\ R \in ETimer /\ R.associated = FALSE /\ R.apcThread = NoThread /\ R.inserted = FALSE
  BY <1>3, <1>4, DisassociatedFacts
<1>6. /\ P \in Seq(Item) /\ Fits(P)
      /\ \A p \in Object : Share(P, p) =
                    IF timer[o].associated THEN 2 * Bit(p = o) ELSE Bit(p = o)
  BY <1>4, BeforeFacts
<1> HIDE DEF P, d, R, o
<1>7. Moved(t, P) /\ Calm(t)'
  BY <1>2, <1>3, <1>4, <1>6, GoesOnWith
<1>8. /\ timer' \in [Object -> ETimer] /\ timer'[o] = R
      /\ \A p \in Object : p # o => timer'[p] = timer[p]
  BY <1>1, <1>3, <1>4, <1>5
<1>9. active' \in [Thread -> Seq(Object)] /\ Listed'
  BY <1>1, <1>3, <1>4, <1>5, ListsLose
<1>10. TimerTypes'
  <2>1. OnItsWay(o) \subseteq Thread
    BY DEF OnItsWay
  <2> QED BY <2>1, <1>1, <1>3, <1>8, <1>9 DEF TimerTypes
<1>11. \A p \in Object : Bit(timer'[p].associated) + Share(P, p)
                            = Bit(timer[p].associated) + Given(t, p)
  <2> TAKE p \in Object
  <2>1. CASE p = o
    BY <2>1, <1>4, <1>5, <1>6, <1>8 DEF Bit
  <2>2. CASE p # o
    BY <2>2, <1>4, <1>6, <1>8 DEF Bit
  <2> QED BY <2>1, <2>2
<1>12. StepOK(t)
  BY <1>1, <1>3, <1>7, <1>10, <1>11, AssociationStep
<1>13. Settled(R, t)
  BY <1>5 DEF Settled
<1>14. \A u \in Thread : active[u] = <<>> /\ u # t => active'[u] = <<>>
  BY <1>1 DEF Out, Unlink, Range
<1> QED BY <1>1, <1>4, <1>9, <1>12, <1>13, <1>14, SettleStep

LEMMA SetStep ==
    ASSUME TimerInv, NEW t \in Thread, NtSetTimerEx(t)
    PROVE  TimerInv'
<1> DEFINE o == On(t)
           how == Head(todo[t])
           d == <<Step("deref", o)>>
           P == Before(o) \o (IF how.apc THEN <<>> ELSE d)
           R == IF how.apc
                THEN [associated |-> TRUE, apcThread |-> t, period |-> how.period,
                      armed |-> TRUE, inserted |-> FALSE]
                ELSE [Disassociated(o) EXCEPT !.armed = TRUE]
<1>1. /\ At(t, "set") /\ timer' = [timer EXCEPT ![o] = R]
      /\ active' = IF how.apc
                   THEN [Out(o, active) EXCEPT ![t] = Append(@, o)] ELSE Out(o, active)
      /\ late' = late \cup OnItsWay(o)
      /\ object' = object /\ slot' = slot /\ entry' = entry /\ life' = life
  BY DEF NtSetTimerEx
<1>2. Does(t, P \o Rest(t))
  BY DEF NtSetTimerEx
<1>3. ObInv /\ TimerTypes /\ Queued /\ Listed /\ timer \in [Object -> ETimer]
      /\ late \subseteq Thread
  BY DEF TimerInv, TimerTypes
<1>4. /\ todo[t] # <<>> /\ o \in Object /\ object[o].live /\ how \in Item /\ how.op = "set"
      /\ \A p \in Object : Given(t, p) = Bit(o = p)
  BY <1>1, <1>3, AtFacts DEF Referencing, Owning
<1>h. how.apc \in BOOLEAN /\ how.period \in BOOLEAN
  BY <1>4 DEF Item
<1>5. /\ R \in ETimer /\ R.inserted = FALSE
      /\ how.apc => R.associated = TRUE /\ R.apcThread = t
      /\ ~how.apc => R.associated = FALSE /\ R.apcThread = NoThread
  <2>1. CASE how.apc
    <3>1. R = [associated |-> TRUE, apcThread |-> t, period |-> how.period,
               armed |-> TRUE, inserted |-> FALSE]
      BY <2>1
    <3> QED BY <2>1, <3>1, <1>h DEF ETimer
  <2>2. CASE ~how.apc
    <3> DEFINE D == Disassociated(o)
    <3>1. /\ D \in ETimer /\ D.associated = FALSE /\ D.apcThread = NoThread
          /\ D.inserted = FALSE
      BY <1>3, <1>4, DisassociatedFacts
    <3>2. R = [D EXCEPT !.armed = TRUE]
      BY <2>2
    <3> HIDE DEF D, R
    <3> QED BY <2>2, <3>1, <3>2 DEF ETimer
  <2> QED BY <2>1, <2>2
<1>6. /\ P \in Seq(Item) /\ Fits(P)
      /\ \A p \in Object : Share(P, p) =
            (IF timer[o].associated THEN Bit(p = o) ELSE 0) + (IF how.apc THEN 0 ELSE Bit(p = o))
  <2>1. CASE how.apc
    <3> DEFINE b == Before(o)
    <3>1. /\ b \in Seq(Item) /\ Fits(b)
          /\ \A p \in Object : Share(b, p) = IF timer[o].associated THEN Bit(p = o) ELSE 0
      BY <1>4, BeforeFacts
    <3> HIDE DEF b
    <3>2. b \o <<>> = b
      BY <3>1
    <3>3. P = b
      BY <2>1, <3>2 DEF b
    <3> HIDE DEF P, how, o
    <3> QED BY <2>1, <3>1, <3>3 DEF Bit
  <2>2. CASE ~how.apc
    <3> DEFINE b == Before(o) \o d
    <3>1. /\ b \in Seq(Item) /\ Fits(b)
          /\ \A p \in Object : Share(b, p) =
                IF timer[o].associated THEN 2 * Bit(p = o) ELSE Bit(p = o)
      BY <1>4, BeforeFacts
    <3>2. P = b
      BY <2>2
    <3> HIDE DEF P, b, how, o
    <3> QED BY <2>2, <3>1, <3>2 DEF Bit
  <2> QED BY <2>1, <2>2
<1> HIDE DEF P, d, R, how, o
<1>7. Moved(t, P) /\ Calm(t)'
  BY <1>2, <1>3, <1>4, <1>6, GoesOnWith
<1>8. /\ timer' \in [Object -> ETimer] /\ timer'[o] = R
      /\ \A p \in Object : p # o => timer'[p] = timer[p]
  BY <1>1, <1>3, <1>4, <1>5
<1>9. active' \in [Thread -> Seq(Object)] /\ Listed'
  <2>1. CASE how.apc
    <3>1. active' = [Out(o, active) EXCEPT ![t] = Append(@, o)]
      BY <1>1, <2>1
    <3>2. R.associated = TRUE /\ R.apcThread = t
      BY <1>5, <2>1
    <3> QED BY <3>1, <3>2, <1>1, <1>3, <1>4, ListsGain
  <2>2. CASE ~how.apc
    <3>1. active' = Out(o, active)
      BY <1>1, <2>2
    <3>2. R.associated = FALSE
      BY <1>5, <2>2
    <3> QED BY <3>1, <3>2, <1>1, <1>3, <1>4, ListsLose
  <2> QED BY <2>1, <2>2
<1>10. TimerTypes'
  <2>1. OnItsWay(o) \subseteq Thread
    BY DEF OnItsWay
  <2> QED BY <2>1, <1>1, <1>3, <1>8, <1>9 DEF TimerTypes
<1>11. \A p \in Object : Bit(timer'[p].associated) + Share(P, p)
                            = Bit(timer[p].associated) + Given(t, p)
  <2> TAKE p \in Object
  <2>1. CASE p = o /\ how.apc
    BY <2>1, <1>4, <1>5, <1>6, <1>8 DEF Bit
  <2>2. CASE p = o /\ ~how.apc
    BY <2>2, <1>4, <1>5, <1>6, <1>8 DEF Bit
  <2>3. CASE p # o
    BY <2>3, <1>4, <1>6, <1>8 DEF Bit
  <2> QED BY <2>1, <2>2, <2>3
<1>12. StepOK(t)
  BY <1>1, <1>3, <1>7, <1>10, <1>11, AssociationStep
<1>13. Settled(R, t)
  BY <1>5, <1>h DEF Settled
<1>14. \A u \in Thread : active[u] = <<>> /\ u # t => active'[u] = <<>>
  <2> SUFFICES ASSUME NEW u \in Thread, active[u] = <<>>, u # t PROVE active'[u] = <<>>
    OBVIOUS
  <2>1. Out(o, active)[u] = <<>>
    BY DEF Out, Unlink, Range
  <2>2. Out(o, active) \in [Thread -> Seq(Object)]
    BY <1>3, OutOf DEF TimerTypes, Listed
  <2> QED BY <1>1, <2>1, <2>2
<1> QED BY <1>1, <1>4, <1>9, <1>12, <1>13, <1>14, SettleStep

(* ExpTimerApcRoutine and RundownTimer, when the timer is still t's. *)
LEMMA EndsAssociation ==
    ASSUME TimerInv, NEW t \in Thread, NEW op \in {"apc", "recheck"}, At(t, op),
           object[On(t)].live, Runs(t), NEW R, R \in ETimer, R.associated = FALSE,
           R.apcThread = NoThread, R.inserted = FALSE,
           timer' = [timer EXCEPT ![On(t)] = R], active' = Out(On(t), active),
           NEW P \in Seq(Item), Fits(P), Does(t, P \o Rest(t)),
           \A p \in Object : Share(P, p) = Given(t, p) + Bit(p = On(t)),
           object' = object, slot' = slot, entry' = entry, life' = life, late' = late
    PROVE  TimerInv'
<1> DEFINE o == On(t)
<1>1. ObInv /\ TimerTypes /\ Queued /\ Listed /\ timer \in [Object -> ETimer]
  BY DEF TimerInv, TimerTypes
<1>2. todo[t] # <<>> /\ o \in Object /\ object[o].live /\ timer[o].associated
  BY <1>1, AtFacts DEF Runs
<1>3. Moved(t, P) /\ Calm(t)'
  BY <1>1, <1>2, GoesOnWith
<1>4. timer' = [timer EXCEPT ![o] = R] /\ active' = Out(o, active)
  OBVIOUS
<1>5. \A p \in Object : Share(P, p) = Given(t, p) + Bit(p = o) /\ Given(t, p) \in {0, 1}
  BY <1>3 DEF Moved
<1> HIDE DEF o
<1>6. /\ timer' \in [Object -> ETimer] /\ timer'[o] = R
      /\ \A p \in Object : p # o => timer'[p] = timer[p]
  BY <1>1, <1>2, <1>4
<1>7. active' \in [Thread -> Seq(Object)] /\ Listed'
  BY <1>1, <1>2, <1>4, ListsLose
<1>8. TimerTypes'
  BY <1>1, <1>6, <1>7 DEF TimerTypes
<1>9. \A p \in Object : Bit(timer'[p].associated) + Share(P, p)
                           = Bit(timer[p].associated) + Given(t, p)
  <2> TAKE p \in Object
  <2>1. CASE p = o
    BY <2>1, <1>2, <1>5, <1>6 DEF Bit
  <2>2. CASE p # o
    BY <2>2, <1>5, <1>6 DEF Bit
  <2> QED BY <2>1, <2>2
<1>10. StepOK(t)
  BY <1>1, <1>3, <1>8, <1>9, AssociationStep
<1>11. Settled(R, t)
  BY DEF Settled
<1>12. \A u \in Thread : active[u] = <<>> /\ u # t => active'[u] = <<>>
  BY <1>4 DEF Out, Unlink, Range
<1> QED BY <1>2, <1>4, <1>7, <1>10, <1>11, <1>12, SettleStep

(* A step of a call that only gives references back. *)
LEMMA GivesBack ==
    ASSUME TimerInv, NEW t \in Thread, todo[t] # <<>>, NEW P \in Seq(Item), Fits(P),
           Does(t, P \o Rest(t)), \A p \in Object : Share(P, p) = Given(t, p),
           object' = object, slot' = slot, entry' = entry,
           timer' = timer, active' = active, life' = life, late' = late
    PROVE  TimerInv'
<1>1. ObInv /\ Keeps /\ Queued /\ Ended /\ timer \in [Object -> ETimer]
  BY DEF TimerInv, TimerTypes, Keeps
<1>2. Moved(t, P) /\ Calm(t)'
  BY <1>1, GoesOnWith
<1>3. ObInv'
  BY <1>1, <1>2, StillStep
<1>4. StepOK(t)
  BY <1>2, <1>3 DEF StepOK, Moved, Alone
<1>5. TimersStay
  BY <1>1 DEF TimersStay, Queued
<1>6. life[t] # "exited"
  BY <1>1 DEF Ended
<1> QED BY <1>4, <1>5, <1>6, StayStep

LEMMA RoutineStep ==
    ASSUME TimerInv, NEW t \in Thread, ExpTimerApcRoutine(t)
    PROVE  TimerInv'
<1> DEFINE o == On(t)
           d == <<Step("deref", o)>>
<1>1. /\ At(t, "apc") /\ object[o].live
      /\ object' = object /\ slot' = slot /\ entry' = entry /\ life' = life /\ late' = late
  BY DEF ExpTimerApcRoutine
<1>2. ObInv /\ TimerTypes /\ Queued /\ Coming
  BY DEF TimerInv
<1>3. /\ todo[t] # <<>> /\ Head(todo[t]).op = "apc" /\ o \in Object
      /\ \A p \in Object : Given(t, p) = 0
  BY <1>1, <1>2, AtFacts DEF Referencing, Owning
<1>4. CASE Runs(t) /\ ~timer[o].period
  <2> DEFINE R == [timer[o] EXCEPT !.associated = FALSE, !.apcThread = NoThread]
  <2>1. /\ timer' = [timer EXCEPT ![o].associated = FALSE, ![o].apcThread = NoThread]
        /\ active' = Out(o, active) /\ Does(t, d \o Rest(t))
    BY <1>4 DEF ExpTimerApcRoutine
  <2>2. timer[o] \in ETimer /\ timer[o].inserted = FALSE
    <3>1. timer[o] \in ETimer /\ timer[o].inserted \in BOOLEAN
      BY <1>2, <1>3, TimerFields
    <3> QED BY <3>1, <1>2, <1>3, <1>4 DEF Coming
  <2>3. /\ R \in ETimer /\ R.associated = FALSE /\ R.apcThread = NoThread
        /\ R.inserted = FALSE
    <3> DEFINE q == timer[o]
               A == [q EXCEPT !.associated = FALSE]
               B == [A EXCEPT !.apcThread = NoThread]
    <3>1. A \in ETimer /\ A.associated = FALSE /\ A.inserted = FALSE
      BY <2>2 DEF ETimer
    <3> HIDE DEF A
    <3>2. B \in ETimer /\ B.associated = FALSE /\ B.inserted = FALSE /\ B.apcThread = NoThread
      BY <3>1 DEF ETimer
    <3>3. B = R
      BY <2>2 DEF A, ETimer
    <3> QED BY <3>2, <3>3
  <2>4. timer' = [timer EXCEPT ![o] = R]
    BY <2>1
  <2>5. d \in Seq(Item) /\ Fits(d) /\ \A p \in Object : Share(d, p) = Given(t, p) + Bit(p = o)
    BY <1>3, Deref DEF Bit
  <2> HIDE DEF d, R
  <2> QED BY <1>1, <1>4, <2>1, <2>3, <2>4, <2>5, EndsAssociation
<1>5. CASE ~(Runs(t) /\ ~timer[o].period)
  <2>1. timer' = timer /\ active' = active /\ Does(t, Rest(t))
    BY <1>5 DEF ExpTimerApcRoutine
  <2>2. todo[t] \in Seq(Item)
    BY <1>2 DEF ObInv, ObTypes
  <2>3. Does(t, <<>> \o Rest(t))
    BY <1>3, <2>1, <2>2 DEF Rest
  <2>4. <<>> \in Seq(Item) /\ Fits(<<>>) /\ \A p \in Object : Share(<<>>, p) = Given(t, p)
    BY <1>3, ShareNone DEF Fits
  <2> QED BY <1>1, <1>3, <2>1, <2>3, <2>4, GivesBack
<1> QED BY <1>4, <1>5

LEMMA RundownStep ==
    ASSUME TimerInv, NEW t \in Thread, RundownTimer(t)
    PROVE  TimerInv'
<1> DEFINE o == On(t)
           d == <<Step("deref", o)>>
           Q == <<Step("deref", o), Step("deref", o)>>
<1>1. /\ At(t, "recheck")
      /\ object' = object /\ slot' = slot /\ entry' = entry /\ life' = life /\ late' = late
  BY DEF RundownTimer
<1>2. ObInv /\ TimerTypes /\ Queued
  BY DEF TimerInv
<1>3. /\ todo[t] # <<>> /\ o \in Object /\ object[o].live
      /\ \A p \in Object : Given(t, p) = Bit(o = p)
  BY <1>1, <1>2, AtFacts DEF Referencing, Owning
<1>4. CASE Runs(t)
  <2> DEFINE R == Disassociated(o)
  <2>1. timer' = [timer EXCEPT ![o] = R] /\ active' = Out(o, active) /\ Does(t, Q \o Rest(t))
    BY <1>4 DEF RundownTimer
  <2>2. /\ R \in ETimer /\ R.associated = FALSE /\ R.apcThread = NoThread
        /\ R.inserted = FALSE
    BY <1>2, <1>3, DisassociatedFacts
  <2>3. Q \in Seq(Item) /\ Fits(Q) /\ \A p \in Object : Share(Q, p) = 2 * Bit(p = o)
    BY <1>3, Derefs
  <2> HIDE DEF Q, R
  <2>4. \A p \in Object : Share(Q, p) = Given(t, p) + Bit(p = o)
    BY <1>3, <2>3 DEF Bit
  <2> QED BY <1>1, <1>3, <1>4, <2>1, <2>2, <2>3, <2>4, EndsAssociation
<1>5. CASE ~Runs(t)
  <2>1. timer' = timer /\ active' = active /\ Does(t, d \o Rest(t))
    BY <1>5 DEF RundownTimer
  <2>2. d \in Seq(Item) /\ Fits(d) /\ \A p \in Object : Share(d, p) = Given(t, p)
    BY <1>3, Deref DEF Bit
  <2> HIDE DEF d
  <2> QED BY <1>1, <1>3, <2>1, <2>2, GivesBack
<1> QED BY <1>4, <1>5

-----------------------------------------------------------------------------
(* Expiration, delivery of the APC and the end of a thread.                *)

LEMMA ObStays ==
    ASSUME ObInv, Keeps, object' = object, slot' = slot, entry' = entry, todo' = todo
    PROVE  ObInv'
<1>1. ObTypes' /\ Calls' /\ Named'
  BY DEF ObInv, ObTypes, Calls, Named
<1>2. Counted'
  <2> SUFFICES ASSUME NEW p \in Object
               PROVE  /\ IsFiniteSet(HandlesOf(p)') /\ IsFiniteSet(Owners(p)')
                      /\ object'[p].pointers = Refs(p)'
                      /\ object'[p].handles = Cardinality(HandlesOf(p)')
                      /\ object'[p].live <=> Refs(p)' > 0
    BY DEF Counted
  <2>1. HandlesOf(p)' = HandlesOf(p) /\ Owners(p)' = Owners(p)
    BY DEF HandlesOf, Owners, Owned
  <2>2. Refs(p)' = Refs(p)
    BY <2>1 DEF Refs, Keeps
  <2> QED BY <2>1, <2>2 DEF ObInv, Counted
<1> QED BY <1>1, <1>2 DEF ObInv

LEMMA ExpiresStep ==
    ASSUME TimerInv, NEW o \in Object, Expires(o)
    PROVE  TimerInv'
<1> DEFINE q == timer[o]
           A == [q EXCEPT !.armed = q.period]
           R == [A EXCEPT !.inserted = q.inserted \/ q.associated]
<1>1. /\ timer[o].armed
      /\ timer' = [timer EXCEPT ![o].armed = timer[o].period,
                                ![o].inserted = @ \/ timer[o].associated]
      /\ object' = object /\ slot' = slot /\ entry' = entry /\ todo' = todo
      /\ active' = active /\ life' = life /\ late' = late
  BY DEF Expires, obVars
<1>2. /\ timer \in [Object -> ETimer] /\ TimerTypes /\ ObInv
      /\ Queued /\ Coming /\ Listed /\ Ended
  BY DEF TimerInv, TimerTypes
<1>3. q \in ETimer /\ q.period \in BOOLEAN /\ q.inserted \in BOOLEAN /\ q.associated \in BOOLEAN
  BY <1>2, TimerFields
<1>4. /\ R \in ETimer /\ R.associated = q.associated /\ R.apcThread = q.apcThread
      /\ R.period = q.period /\ R.armed = q.period
      /\ R.inserted <=> q.inserted \/ q.associated
  <2> HIDE DEF q
  <2>1. /\ A \in ETimer /\ A.associated = q.associated /\ A.apcThread = q.apcThread
        /\ A.period = q.period /\ A.armed = q.period
    BY <1>3 DEF ETimer
  <2> HIDE DEF A
  <2> QED BY <1>3, <2>1 DEF ETimer
<1>5. timer' = [timer EXCEPT ![o] = R]
  BY <1>1, <1>2
<1> HIDE DEF R, A, q
<1>6. /\ timer' \in [Object -> ETimer] /\ timer'[o] = R
      /\ \A p \in Object : p # o => timer'[p] = timer[p]
  BY <1>2, <1>4, <1>5
<1>7. \A p \in Object : /\ timer'[p].associated = timer[p].associated
                        /\ timer'[p].apcThread = timer[p].apcThread
                        /\ timer'[p].period = timer[p].period
  BY <1>4, <1>6 DEF q
<1>8. ObInv'
  BY <1>1, <1>2, <1>7, ObStays DEF Keeps
<1>9. TimerTypes'
  BY <1>1, <1>2, <1>6 DEF TimerTypes
<1>10. Listed'
  BY <1>1, <1>2, <1>7 DEF Listed
<1>11. Ended'
  BY <1>1, <1>2 DEF Ended
<1>12. Queued'
  <2> SUFFICES ASSUME NEW p \in Object
               PROVE  /\ timer'[p].armed => object'[p].live
                      /\ timer'[p].inserted => timer'[p].associated
                      /\ timer'[p].inserted /\ ~timer'[p].period => ~timer'[p].armed
                      /\ timer'[p].associated <=> timer'[p].apcThread # NoThread
    BY DEF Queued
  <2>1. /\ timer[p].armed => object[p].live
        /\ timer[p].inserted => timer[p].associated
        /\ timer[p].inserted /\ ~timer[p].period => ~timer[p].armed
        /\ timer[p].associated <=> timer[p].apcThread # NoThread
    BY <1>2 DEF Queued
  <2>2. CASE p = o
    BY <1>1, <1>4, <1>6, <2>1, <2>2 DEF q
  <2>3. CASE p # o
    BY <1>1, <1>6, <2>1, <2>3
  <2> QED BY <2>2, <2>3
<1>13. Coming'
  <2> SUFFICES ASSUME NEW u \in Thread, todo'[u] # <<>>, Head(todo'[u]).op = "apc", Runs(u)'
               PROVE  u \notin late' /\ (~timer'[On(u)'].period =>
                            ~timer'[On(u)'].armed /\ ~timer'[On(u)'].inserted)
    BY DEF Coming
  <2>1. On(u) \in Object /\ On(u)' = On(u)
    BY <1>1, <1>2, ApcOn DEF On
  <2>2. Runs(u)
    BY <1>7, <2>1 DEF Runs
  <2>3. u \notin late /\ (~timer[On(u)].period => ~timer[On(u)].armed /\ ~timer[On(u)].inserted)
    BY <1>1, <1>2, <2>2 DEF Coming
  <2>4. CASE On(u) = o
    BY <1>1, <1>7, <2>1, <2>3, <2>4
  <2>5. CASE On(u) # o
    BY <1>1, <1>6, <2>1, <2>3, <2>5
  <2> QED BY <2>4, <2>5
<1> QED BY <1>8, <1>9, <1>10, <1>11, <1>12, <1>13 DEF TimerInv

LEMMA DeliverStep ==
    ASSUME TimerInv, NEW t \in Thread, Deliver(t)
    PROVE  TimerInv'
<1>1. /\ life[t] = "alive" /\ Idle(t) /\ late' = late \ {t}
      /\ object' = object /\ slot' = slot /\ entry' = entry /\ active' = active /\ life' = life
  BY DEF Deliver
<1>2. PICK o \in Object : /\ timer[o].inserted /\ timer[o].apcThread = t
                          /\ timer' = [timer EXCEPT ![o].inserted = FALSE]
                          /\ Does(t, <<Step("apc", o)>>)
  BY DEF Deliver
<1> DEFINE x == Step("apc", o)
           R == [timer[o] EXCEPT !.inserted = FALSE]
<1>3. x \in Item /\ x.op = "apc" /\ x.on = o
  BY NewItems
<1>4. Does(t, <<x>>) /\ timer' = [timer EXCEPT ![o] = R]
  BY <1>2
<1>5. /\ timer \in [Object -> ETimer] /\ timer[o] \in ETimer /\ TimerTypes /\ ObInv
      /\ Queued /\ Coming /\ Listed /\ Ended
  BY DEF TimerInv, TimerTypes
<1>6. /\ R \in ETimer /\ R.associated = timer[o].associated
      /\ R.apcThread = timer[o].apcThread /\ R.period = timer[o].period
      /\ R.armed = timer[o].armed /\ R.inserted = FALSE
  BY <1>5 DEF ETimer
<1> HIDE DEF x, R
<1>7. <<x>> \in Seq(Item) /\ Len(<<x>>) = 1 /\ <<x>>[1] = x /\ Head(<<x>>) = x
  BY <1>3, OneItem
<1>8. WellFormed(<<x>>)
  BY <1>3, <1>7 DEF WellFormed, Trusting
<1>9. Moved(t, <<x>>) /\ todo'[t] = <<x>>
  BY <1>1, <1>4, <1>5, <1>7, <1>8, Begins DEF Idle
<1>10. \A p \in Object : Share(<<x>>, p) = Given(t, p)
  <2> TAKE p \in Object
  <2>1. Share(<<x>>, p) = Bit(Owns(x, p))
    BY <1>3, ShareOne
  <2> QED BY <1>1, <1>3, <2>1 DEF Owns, Referencing, Owning, Bit, Given, Idle
<1>11. /\ timer' \in [Object -> ETimer] /\ timer'[o] = R
       /\ \A p \in Object : p # o => timer'[p] = timer[p]
  BY <1>4, <1>5, <1>6
<1>12. \A p \in Object : /\ timer'[p].associated = timer[p].associated
                         /\ timer'[p].apcThread = timer[p].apcThread
                         /\ timer'[p].period = timer[p].period
                         /\ timer'[p].armed = timer[p].armed
                         /\ timer'[p].inserted => timer[p].inserted
  BY <1>6, <1>11
<1>13. ObInv'
  <2>1. Keeps
    BY <1>12 DEF Keeps
  <2> QED BY <1>1, <1>5, <1>9, <1>10, <2>1, StillStep
<1>14. TimerTypes'
  BY <1>1, <1>5, <1>11 DEF TimerTypes
<1>15. Listed'
  BY <1>1, <1>5, <1>12 DEF Listed
<1>16. Ended'
  BY <1>1, <1>5, <1>9 DEF Ended, Moved
<1>17. Queued'
  <2> SUFFICES ASSUME NEW p \in Object
               PROVE  /\ timer'[p].armed => object'[p].live
                      /\ timer'[p].inserted => timer'[p].associated
                      /\ timer'[p].inserted /\ ~timer'[p].period => ~timer'[p].armed
                      /\ timer'[p].associated <=> timer'[p].apcThread # NoThread
    BY DEF Queued
  <2>1. /\ timer[p].armed => object[p].live
        /\ timer[p].inserted => timer[p].associated
        /\ timer[p].inserted /\ ~timer[p].period => ~timer[p].armed
        /\ timer[p].associated <=> timer[p].apcThread # NoThread
    BY <1>5 DEF Queued
  <2> QED BY <1>1, <1>12, <2>1
<1>18. Coming'
  <2> SUFFICES ASSUME NEW u \in Thread, todo'[u] # <<>>, Head(todo'[u]).op = "apc", Runs(u)'
               PROVE  u \notin late' /\ (~timer'[On(u)'].period =>
                            ~timer'[On(u)'].armed /\ ~timer'[On(u)'].inserted)
    BY DEF Coming
  <2>1. CASE u = t
    <3>1. On(u)' = o
      BY <1>3, <1>7, <1>9, <2>1 DEF On
    <3>2. ~timer[o].period => ~timer[o].armed
      BY <1>2, <1>5 DEF Queued
    <3> QED BY <1>1, <1>6, <1>11, <2>1, <3>1, <3>2
  <2>2. CASE u # t
    <3>1. todo'[u] = todo[u]
      BY <1>9, <2>2 DEF Moved
    <3>2. On(u) \in Object /\ On(u)' = On(u)
      BY <1>5, <3>1, ApcOn DEF On
    <3>3. Runs(u)
      BY <1>12, <3>2 DEF Runs
    <3>4. u \notin late /\ (~timer[On(u)].period => ~timer[On(u)].armed /\ ~timer[On(u)].inserted)
      BY <1>5, <3>1, <3>3 DEF Coming
    <3>5. On(u) # o
      BY <1>2, <2>2, <3>3 DEF Runs
    <3> QED BY <1>1, <1>11, <3>2, <3>4, <3>5
  <2> QED BY <2>1, <2>2
<1> QED BY <1>13, <1>14, <1>15, <1>16, <1>17, <1>18 DEF TimerInv

(* t goes on beside timers and lists that stay; it may be ending.          *)
LEMMA LifeStep ==
    ASSUME TimerInv, ObInv', NEW t \in Thread, Alone(t), Calm(t)',
           \A p \in Object : object'[p].live = object[p].live,
           timer' = timer, active' = active, late' = late,
           NEW x \in {"alive", "exiting", "exited"}, life' = [life EXCEPT ![t] = x],
           x = "exited" => todo'[t] = <<>> /\ active[t] = <<>>
    PROVE  TimerInv'
<1>1. ObInv /\ TimerTypes /\ Queued /\ Coming /\ Listed /\ Ended
  BY DEF TimerInv
<1>2. TimerTypes'
  BY <1>1 DEF TimerTypes
<1>3. Ended'
  BY <1>1 DEF Ended, TimerTypes, Alone
<1>4. Listed' /\ Queued'
  BY <1>1 DEF Listed, Queued
<1>5. Coming'
  <2> SUFFICES ASSUME NEW u \in Thread, todo'[u] # <<>>, Head(todo'[u]).op = "apc", Runs(u)'
               PROVE  u \notin late' /\ (~timer'[On(u)'].period =>
                            ~timer'[On(u)'].armed /\ ~timer'[On(u)'].inserted)
    BY DEF Coming
  <2>1. u # t
    BY DEF Calm
  <2>2. todo'[u] = todo[u]
    BY <2>1 DEF Alone
  <2>3. On(u)' = On(u) /\ (Runs(u)' <=> Runs(u))
    BY <2>2 DEF On, Runs
  <2> QED BY <1>1, <2>2, <2>3 DEF Coming
<1> QED BY <1>2, <1>3, <1>4, <1>5 DEF TimerInv

LEMMA ExitStep ==
    ASSUME TimerInv, NEW t \in Thread, PspExitThread(t)
    PROVE  TimerInv'
<1> DEFINE x == Step("rundown", NoObject)
<1>1. /\ Idle(t) /\ life' = [life EXCEPT ![t] = "exiting"] /\ Does(t, <<x>>)
      /\ object' = object /\ slot' = slot /\ entry' = entry
      /\ timer' = timer /\ active' = active /\ late' = late
  BY DEF PspExitThread
<1>2. x \in Item /\ x.op = "rundown"
  BY NewItems
<1> HIDE DEF x
<1>3. <<x>> \in Seq(Item) /\ Len(<<x>>) = 1 /\ <<x>>[1] = x /\ Head(<<x>>) = x
  BY <1>2, OneItem
<1>4. WellFormed(<<x>>)
  BY <1>2, <1>3 DEF WellFormed, Trusting
<1>5. ObInv /\ Keeps
  BY <1>1 DEF TimerInv, Keeps
<1>6. Moved(t, <<x>>) /\ todo'[t] = <<x>>
  BY <1>1, <1>3, <1>4, <1>5, Begins DEF Idle
<1>7. \A p \in Object : Share(<<x>>, p) = Given(t, p)
  <2> TAKE p \in Object
  <2>1. Share(<<x>>, p) = Bit(Owns(x, p))
    BY <1>2, ShareOne
  <2> QED BY <1>1, <1>2, <2>1 DEF Owns, Referencing, Owning, Bit, Given, Idle
<1>8. ObInv'
  BY <1>1, <1>5, <1>6, <1>7, StillStep
<1>9. Alone(t) /\ Calm(t)'
  BY <1>2, <1>3, <1>6 DEF Alone, Calm, Moved
<1> QED BY <1>1, <1>8, <1>9, LifeStep

LEMMA RundownStart ==
    ASSUME TimerInv, NEW t \in Thread, ExTimerRundown(t)
    PROVE  TimerInv'
<1>1. /\ At(t, "rundown") /\ slot' = slot /\ entry' = entry
      /\ timer' = timer /\ active' = active /\ late' = late
  BY DEF ExTimerRundown
<1>2. ObInv /\ Keeps /\ TimerTypes /\ Listed /\ Ended
  BY <1>1 DEF TimerInv, Keeps
<1>3. /\ todo[t] # <<>> /\ Rest(t) = <<>> /\ todo[t] \in Seq(Item)
      /\ Head(todo[t]) \in Item /\ Head(todo[t]).op = "rundown"
      /\ \A p \in Object : Given(t, p) = 0
  BY <1>1, <1>2, AtFacts DEF Referencing, Owning, ObInv, ObTypes
<1>4. CASE active[t] = <<>>
  <2>1. Does(t, Rest(t)) /\ life' = [life EXCEPT ![t] = "exited"] /\ object' = object
    BY <1>3, <1>4 DEF ExTimerRundown
  <2>2. Moved(t, <<>>) /\ Calm(t)'
    BY <1>2, <1>3, <2>1, GoesOn
  <2>3. \A p \in Object : Share(<<>>, p) = Given(t, p)
    BY <1>3, ShareNone
  <2>4. ObInv'
    BY <1>1, <1>2, <2>1, <2>2, <2>3, StillStep
  <2>5. Alone(t)
    BY <2>2 DEF Moved, Alone
  <2>6. todo'[t] = <<>>
    BY <1>2, <1>3, <2>1 DEF Does, ObInv, ObTypes
  <2> QED BY <1>1, <1>4, <2>1, <2>2, <2>4, <2>5, <2>6, LifeStep
<1>5. CASE active[t] # <<>>
  <2> DEFINE o == Head(active[t])
             x == Step("recheck", o)
             y == Head(todo[t])
             P == <<x>>
             s == <<x, y>>
  <2>1. /\ object' = [object EXCEPT ![o].pointers = @ + 1] /\ life' = life
        /\ Does(t, P \o todo[t])
    BY <1>5 DEF ExTimerRundown
  <2>2. o \in Object /\ timer[o].associated
    <3>1. active[t] \in Seq(Object)
      BY <1>2 DEF TimerTypes
    <3>2. o \in Range(active[t])
      <4>1. 1 \in DOMAIN active[t] /\ active[t][1] = o
        BY <1>5, <3>1
      <4> QED BY <4>1 DEF Range
    <3> QED BY <1>2, <3>2 DEF Listed
  <2>3. object[o].live
    BY <1>2, <2>2, Referred
  <2>4. x \in Item /\ x.op = "recheck" /\ x.on = o
    BY <2>2, NewItems
  <2>5. todo[t] = <<y>>
    <3>1. Len(Tail(todo[t])) = Len(todo[t]) - 1 /\ Tail(todo[t]) = <<>> /\ Len(todo[t]) \in Nat
      BY <1>3 DEF Rest
    <3>a. Len(Tail(todo[t])) = 0
      BY <3>1
    <3>b. Len(todo[t]) = 1
      BY <3>1, <3>a
    <3>2. Len(todo[t]) = 1 /\ todo[t][1] = y
      BY <1>3, <3>b DEF y
    <3>3. <<y>> \in Seq(Item) /\ Len(<<y>>) = 1 /\ <<y>>[1] = y
      BY <1>3, OneItem
    <3> QED BY <1>3, <3>2, <3>3, SameItems
  <2>6. y \in Item /\ y.op = "rundown"
    BY <1>3
  <2> HIDE DEF o, x, y
  <2>7. s \in Seq(Item) /\ s = P \o todo[t]
    BY <2>4, <2>5, <2>6, TwoItems
  <2>8. Len(s) = 2 /\ s[1] = x /\ s[2] = y /\ DOMAIN s = 1..2 /\ Head(s) = x
    OBVIOUS
  <2>9. P \in Seq(Item)
    BY <2>4, OneItem
  <2>10. \A p \in Object : Share(P, p) = Bit(p = o)
    <3> TAKE p \in Object
    <3>1. Share(P, p) = Bit(Owns(x, p))
      BY <2>4, ShareOne
    <3> QED BY <2>4, <3>1 DEF Owns, Referencing, Bit
  <2>11. Does(t, s)
    BY <2>1, <2>7
  <2> HIDE DEF s, P
  <2>12. WellFormed(s)
    BY <2>4, <2>6, <2>8 DEF WellFormed, Trusting
  <2>13. \A p \in Object : /\ Share(s, p) = Share(P, p) + Share(todo[t], p) - Given(t, p)
                           /\ Given(t, p) =< Share(todo[t], p)
    <3> TAKE p \in Object
    <3>1. Share(s, p) = Share(P, p) + Share(todo[t], p)
      BY <1>3, <2>7, <2>9, ShareConcat
    <3>2. Share(P, p) \in Nat /\ Share(todo[t], p) \in Nat
      BY <1>3, <2>9, ShareType
    <3> QED BY <1>3, <3>1, <3>2
  <2>14. Moved(t, P) /\ todo'[t] = s
    BY <1>2, <2>7, <2>9, <2>11, <2>12, <2>13, MovedBy
  <2>15. Adds(t, P, o)
    BY <1>3, <2>10 DEF Adds, Bit
  <2>16. ObInv'
    BY <1>1, <1>2, <2>1, <2>2, <2>3, <2>14, <2>15, ReferencesStep
  <2>17. \A p \in Object : object'[p].live = object[p].live
    <3>1. object \in [Object -> Header]
      BY <1>2 DEF ObInv, ObTypes
    <3> QED BY <2>1, <2>2, <3>1 DEF Header
  <2>18. Alone(t) /\ Calm(t)'
    BY <2>4, <2>8, <2>14 DEF Moved, Alone, Calm
  <2>19. life[t] \in {"alive", "exiting", "exited"} /\ life' = [life EXCEPT ![t] = life[t]]
    BY <1>2, <2>1 DEF TimerTypes
  <2>20. life[t] # "exited"
    BY <1>2, <1>3 DEF Ended
  <2> QED BY <1>1, <2>16, <2>17, <2>18, <2>19, <2>20, LifeStep
<1> QED BY <1>4, <1>5

-----------------------------------------------------------------------------
(* The invariant of the whole.                                             *)

LEMMA InvInit == TimerInit => TimerInv
<1> SUFFICES ASSUME TimerInit PROVE TimerInv
  OBVIOUS
<1> USE DEF TimerInit, Init
<1>1. /\ NoHeader \in Header /\ NoHeader.live = FALSE
      /\ NoHeader.pointers = 0 /\ NoHeader.handles = 0
  BY DEF NoHeader, Header
<1>2. /\ NoTimer \in ETimer /\ NoTimer.associated = FALSE /\ NoTimer.apcThread = NoThread
      /\ NoTimer.inserted = FALSE /\ NoTimer.armed = FALSE
  BY DEF NoTimer, ETimer
<1>3. ObTypes
  BY <1>1 DEF ObTypes
<1>4. TimerTypes
  BY <1>2 DEF TimerTypes
<1>5. Calls
  BY DEF Calls, WellFormed
<1>6. Counted
  <2> SUFFICES ASSUME NEW o \in Object
               PROVE  /\ IsFiniteSet(HandlesOf(o)) /\ IsFiniteSet(Owners(o))
                      /\ object[o].pointers = Refs(o)
                      /\ object[o].handles = Cardinality(HandlesOf(o))
                      /\ object[o].live <=> Refs(o) > 0
    BY DEF Counted
  <2>1. HandlesOf(o) = {}
    BY ObAssumption DEF HandlesOf
  <2>2. Owners(o) = {}
    <3>1. \A t \in Thread : DOMAIN todo[t] = {}
      OBVIOUS
    <3> QED BY <3>1 DEF Owners, Owned
  <2>3. IsFiniteSet({}) /\ Cardinality({}) = 0
    BY FS_EmptySet
  <2>4. object[o] = NoHeader /\ timer[o] = NoTimer /\ entry # o
    BY ObAssumption
  <2>5. Refs(o) = 0
    BY <1>2, <2>1, <2>2, <2>3, <2>4 DEF Refs, Bit
  <2> QED BY <1>1, <2>1, <2>2, <2>3, <2>4, <2>5
<1>7. Named
  BY DEF Named
<1>8. Ended
  BY DEF Ended
<1>9. Listed
  <2>1. IsInjective(<<>>) /\ Range(<<>>) = {}
    BY DEF IsInjective, Range
  <2>2. \A t \in Thread : active[t] = <<>>
    OBVIOUS
  <2>3. \A o \in Object : timer[o].associated = FALSE
    BY <1>2
  <2> HIDE DEF TimerInit
  <2> QED BY <2>1, <2>2, <2>3 DEF Listed
<1>10. Queued
  BY <1>2 DEF Queued
<1>11. Coming
  BY DEF Coming
<1> QED BY <1>3, <1>4, <1>5, <1>6, <1>7, <1>8, <1>9, <1>10, <1>11 DEF TimerInv, ObInv

LEMMA InvStutter == ASSUME TimerInv, UNCHANGED vars PROVE TimerInv'
<1>1. /\ object' = object /\ slot' = slot /\ entry' = entry /\ todo' = todo
      /\ timer' = timer /\ active' = active /\ life' = life /\ late' = late
  BY DEF vars, obVars, timerVars
<1>2. ObInv'
  BY <1>1, ObStays DEF TimerInv, Keeps
<1>3. TimerTypes' /\ Ended' /\ Listed' /\ Queued'
  BY <1>1 DEF TimerInv, TimerTypes, Ended, Listed, Queued
<1>4. Coming'
  BY <1>1 DEF TimerInv, Coming, Runs, On
<1> QED BY <1>2, <1>3, <1>4 DEF TimerInv

LEMMA InvStep == ASSUME TimerInv, [TimerNext]_vars PROVE TimerInv'
<1>1. ASSUME NEW t \in Thread,
             \/ ObjectCall(t) \/ ObjectStep(t)
             \/ Cancel(t) \/ NtCancelTimer(t) \/ Set(t) \/ NtSetTimerEx(t)
             \/ Deliver(t) \/ ExpTimerApcRoutine(t) \/ ApcFindsFreed(t)
             \/ PspExitThread(t) \/ ExTimerRundown(t) \/ RundownTimer(t)
      PROVE  TimerInv'
  BY <1>1, ObjectCallStep, ObjectStepStep, CancelCall, CancelStep, SetCall, SetStep,
     DeliverStep, RoutineStep, FreedStep, ExitStep, RundownStart, RundownStep
<1>2. ASSUME NEW o \in Object, Expires(o) PROVE TimerInv'
  BY <1>2, ExpiresStep
<1>3. CASE UNCHANGED vars
  BY <1>3, InvStutter
<1> QED BY <1>1, <1>2, <1>3 DEF TimerNext

LEMMA AlwaysTimerInv == TimerSpec => []TimerInv
<1>1. TimerInit => TimerInv
  BY InvInit
<1>2. TimerInv /\ [TimerNext]_vars => TimerInv'
  BY InvStep
<1> QED BY <1>1, <1>2, PTL DEF TimerSpec

(* What stands once in a list stands at one place of it. *)
LEMMA PlacesInList ==
    ASSUME NEW T, NEW s \in Seq(T), IsInjective(s), NEW o
    PROVE  Cardinality({i \in DOMAIN s : s[i] = o}) = IF o \in Range(s) THEN 1 ELSE 0
<1> DEFINE at == {i \in DOMAIN s : s[i] = o}
<1>1. CASE o \in Range(s)
  <2>1. PICK i \in DOMAIN s : s[i] = o
    BY <1>1 DEF Range
  <2>2. at = {i}
    BY <2>1 DEF IsInjective
  <2> QED BY <1>1, <2>2, FS_Singleton
<1>2. CASE o \notin Range(s)
  <2>1. at = {}
    BY <1>2 DEF Range
  <2> QED BY <1>2, <2>1, FS_EmptySet
<1> QED BY <1>1, <1>2

(* However threads close, duplicate, open by name, set, cancel and end in  *)
(* between, the count of an object's references is the number of those     *)
(* that exist, and the object is there as long as there is one             *)
(* (ObfReferenceObject, ObfDereferenceObject and all their callers).       *)
THEOREM ReferencesAreExact == TimerSpec => []ReferencesExact
<1>1. TimerInv => ReferencesExact
  <2> SUFFICES ASSUME TimerInv, NEW o \in Object
               PROVE  LET references == Cardinality(HandlesOf(o))
                              + (IF entry = o THEN 1 ELSE 0)
                              + (IF timer[o].associated THEN 1 ELSE 0)
                              + Cardinality(Owned(o, Owning \cup {"set", "cancel", "recheck"}))
                      IN  /\ object[o].pointers = references
                          /\ object[o].handles = Cardinality(HandlesOf(o))
                          /\ object[o].live <=> references > 0
                          /\ timer[o].armed \/ timer[o].inserted => object[o].live
    BY DEF ReferencesExact
  <2>1. /\ object[o].pointers = Refs(o) /\ object[o].handles = Cardinality(HandlesOf(o))
        /\ object[o].live <=> Refs(o) > 0
    BY InvTypes DEF TimerInv
  <2>2. Refs(o) = Cardinality(HandlesOf(o))
                  + (IF entry = o THEN 1 ELSE 0)
                  + (IF timer[o].associated THEN 1 ELSE 0)
                  + Cardinality(Owned(o, Owning \cup {"set", "cancel", "recheck"}))
    BY DEF Refs, Bit, Owners, Referencing
  <2>3. timer[o].armed \/ timer[o].inserted => object[o].live
    <3>1. timer[o].associated => object[o].live
      BY Referred DEF TimerInv
    <3> QED BY <3>1 DEF TimerInv, Queued
  <2> QED BY <2>1, <2>2, <2>3
<1> QED BY <1>1, AlwaysTimerInv, PTL

(* No name is left behind by the last handle (NtClose), beside the calls   *)
(* of the timers.                                                          *)
THEOREM NamesEnd == TimerSpec => []NamesEndWithHandles
<1>1. TimerInv => NamesEndWithHandles
  BY DEF TimerInv, ObInv, Named, NamesEndWithHandles
<1> QED BY <1>1, AlwaysTimerInv, PTL

(* A timer stands in the list of the thread its APC is for, once, and in   *)
(* no other; none is left of a thread that has ended (ExTimerRundown).     *)
THEOREM ListsAreTrue == TimerSpec => []ListsFollowTimers
<1>1. TimerInv => ListsFollowTimers
  <2> SUFFICES ASSUME TimerInv, NEW o \in Object
               PROVE  /\ \A t \in Thread :
                           Cardinality({i \in DOMAIN active[t] : active[t][i] = o})
                             = (IF timer[o].associated /\ timer[o].apcThread = t THEN 1 ELSE 0)
                      /\ timer[o].inserted => timer[o].associated
                      /\ \A t \in Thread : life[t] = "exited" /\ timer[o].apcThread = t
                           => ~timer[o].associated /\ ~timer[o].inserted
    BY DEF ListsFollowTimers
  <2>1. ASSUME NEW t \in Thread
        PROVE  Cardinality({i \in DOMAIN active[t] : active[t][i] = o})
                 = (IF timer[o].associated /\ timer[o].apcThread = t THEN 1 ELSE 0)
    <3>1. /\ active[t] \in Seq(Object) /\ IsInjective(active[t])
          /\ o \in Range(active[t]) <=> timer[o].associated /\ timer[o].apcThread = t
      BY DEF TimerInv, TimerTypes, Listed
    <3>2. Cardinality({i \in DOMAIN active[t] : active[t][i] = o})
                 = IF o \in Range(active[t]) THEN 1 ELSE 0
      BY <3>1, PlacesInList
    <3> QED BY <3>1, <3>2
  <2>2. timer[o].inserted => timer[o].associated
    BY DEF TimerInv, Queued
  <2>3. ASSUME NEW t \in Thread, life[t] = "exited", timer[o].apcThread = t
        PROVE  ~timer[o].associated
    <3>1. active[t] = <<>>
      BY <2>3 DEF TimerInv, Ended
    <3>2. Range(active[t]) = {}
      BY <3>1 DEF Range
    <3> QED BY <2>3, <3>2 DEF TimerInv, Listed
  <2> QED BY <2>1, <2>2, <2>3
<1> QED BY <1>1, AlwaysTimerInv, PTL

(* The caller's routine never runs for a timer that was cancelled or set   *)
(* again after its APC had left the queue (ExpTimerApcRoutine).            *)
THEOREM ApcsAreNotStale == TimerSpec => []NoStaleApc
<1>1. TimerInv => NoStaleApc
  BY DEF TimerInv, Coming, NoStaleApc, At
<1> QED BY <1>1, AlwaysTimerInv, PTL

=============================================================================
