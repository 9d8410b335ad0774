-------------------------- MODULE FatxLocksProofs --------------------------
(***************************************************************************)
(* The critical section excludes, for any number of threads, any depth of  *)
(* recursion and any number of broken waits.  The volume lock strands      *)
(* nobody and keeps the promise of RwLockSpec, and the section inside it   *)
(* still excludes, for any finite number of threads.                       *)
(***************************************************************************)
EXTENDS FatxLocks, WaitListProofs, FiniteSetTheorems

-----------------------------------------------------------------------------
(* The critical section.                                                   *)

(* The section has one token.  The thread that owns it has it, and before  *)
(* and after that: the thread it was handed to until that has written      *)
(* itself down, and the thread that gives it up until it has either found  *)
(* nobody waiting or set the event.  A set event has it too.               *)
Token(t) == OwningThread = t \/ at[t] \in {"own", "release", "signal"}

SectionType ==
    /\ SectionLock \in Int
    /\ RecursionCount \in Int
    /\ OwningThread \in Thread \cup {NoThread}
    /\ event \in {0, 1}
    /\ at \in [Thread -> Instruction]
    /\ depth \in [Thread -> Nat]

OneToken ==
    /\ \A t, u \in Thread : Token(t) /\ Token(u) => t = u
    /\ event = 1 => \A t \in Thread : ~Token(t)

(* Where the owner can be, where nobody else can, and how deep it is.      *)
Ownership ==
    \A t \in Thread :
        /\ at[t] \in {"recur", "tryRecur", "count", "unlock", "clear"} => OwningThread = t
        /\ at[t] \in {"own", "release", "signal", "wait", "blocked"} => OwningThread # t
        /\ depth[t] > 0 <=> OwningThread = t /\ at[t] \notin {"count", "clear"}
        /\ depth[t] > 0 => RecursionCount = depth[t]

(* LockCount covers what the token still has to take off it, so it can     *)
(* look free to a newcomer only when there is no token.                    *)
Locked ==
    /\ \A t \in Thread :
        /\ Token(t) => SectionLock >= 0 /\ SectionLock >= depth[t] - 1
        /\ depth[t] > 0 /\ at[t] \in {"compare", "recur", "unlock"} => SectionLock >= depth[t]
    /\ event = 1 => SectionLock >= 0

ListOK ==
    /\ waiters \in Seq(Thread) /\ IsInjective(waiters)
    /\ \A t \in Range(waiters) : at[t] = "blocked"

CountInv == SectionType /\ OneToken /\ Ownership /\ Locked
SectionInv == CountInv /\ ListOK

LEMMA InitSection == SectionInit => SectionInv
<1> SUFFICES ASSUME SectionInit PROVE SectionInv
  OBVIOUS
<1>1. CountInv
  BY RtlCritSectAssumption
  DEF SectionInit, CountInv, SectionType, OneToken, Ownership, Locked, Token, Instruction
<1>2. ListOK
  BY DEF SectionInit, ListOK, IsInjective, Range
<1> QED BY <1>1, <1>2 DEF SectionInv

(* A step that takes no thread to or from "blocked" leaves the list alone. *)
LEMMA ListKept ==
    ASSUME SectionInv, NEW t \in Thread, NEW i \in Instruction,
           Goes(t, i), UNCHANGED waiters, at[t] # "blocked"
    PROVE  ListOK'
<1> QED BY DEF SectionInv, CountInv, SectionType, ListOK, Goes, Range

LEMMA EnterStep ==
    ASSUME SectionInv, NEW t \in Thread, Enter(t) \/ TryEnter(t)
    PROVE  SectionInv'
<1>1. CountInv'
  <2>1. CASE Enter(t)
    BY <2>1, RtlCritSectAssumption
    DEF Enter, Goes, SectionInv, CountInv, SectionType, OneToken, Ownership, Locked, Token, Instruction
  <2>2. CASE TryEnter(t)
    BY <2>2, RtlCritSectAssumption
    DEF TryEnter, Goes, SectionInv, CountInv, SectionType, OneToken, Ownership, Locked, Token, Instruction
  <2> QED BY <2>1, <2>2
<1>2. ListOK'
  BY ListKept DEF Enter, TryEnter, Instruction
<1> QED BY <1>1, <1>2 DEF SectionInv

LEMMA InsideStep ==
    ASSUME SectionInv, NEW t \in Thread,
           Compare(t) \/ TryCompare(t) \/ TryRecur(t) \/ Recur(t) \/ Own(t) \/ Count(t)
    PROVE  SectionInv'
<1>1. CountInv'
  <2>1. CASE Compare(t) \/ TryCompare(t)
    BY <2>1, RtlCritSectAssumption
    DEF Compare, TryCompare, Goes, SectionInv, CountInv, SectionType, OneToken, Ownership, Locked, Token, Instruction
  <2>2. CASE TryRecur(t)
    BY <2>2, RtlCritSectAssumption
    DEF TryRecur, Goes, SectionInv, CountInv, SectionType, OneToken, Ownership, Locked, Token, Instruction
  <2>3. CASE Recur(t)
    BY <2>3, RtlCritSectAssumption
    DEF Recur, Entered, Goes, SectionInv, CountInv, SectionType, OneToken, Ownership, Locked, Token, Instruction
  <2>4. CASE Own(t)
    BY <2>4, RtlCritSectAssumption
    DEF Own, Goes, SectionInv, CountInv, SectionType, OneToken, Ownership, Locked, Token, Instruction
  <2>5. CASE Count(t)
    BY <2>5, RtlCritSectAssumption
    DEF Count, Entered, Goes, SectionInv, CountInv, SectionType, OneToken, Ownership, Locked, Token, Instruction
  <2> QED BY <2>1, <2>2, <2>3, <2>4, <2>5
<1>2. ListOK'
  BY ListKept DEF Compare, TryCompare, TryRecur, Recur, Own, Count, Instruction
<1> QED BY <1>1, <1>2 DEF SectionInv

LEMMA LeaveStep ==
    ASSUME SectionInv, NEW t \in Thread,
           Leave(t) \/ Unlock(t) \/ Clear(t) \/ SectionRelease(t)
    PROVE  SectionInv'
<1>1. CountInv'
  <2>1. CASE Leave(t)
    BY <2>1, RtlCritSectAssumption
    DEF Leave, Goes, SectionInv, CountInv, SectionType, OneToken, Ownership, Locked, Token, Instruction
  <2>2. CASE Unlock(t)
    BY <2>2, RtlCritSectAssumption
    DEF Unlock, Goes, SectionInv, CountInv, SectionType, OneToken, Ownership, Locked, Token, Instruction
  <2>3. CASE Clear(t)
    BY <2>3, RtlCritSectAssumption
    DEF Clear, Goes, SectionInv, CountInv, SectionType, OneToken, Ownership, Locked, Token, Instruction
  <2>4. CASE SectionRelease(t)
    BY <2>4, RtlCritSectAssumption
    DEF SectionRelease, Goes, SectionInv, CountInv, SectionType, OneToken, Ownership, Locked, Token, Instruction
  <2> QED BY <2>1, <2>2, <2>3, <2>4
<1>2. ListOK'
  BY ListKept DEF Leave, Unlock, Clear, SectionRelease, Instruction
<1> QED BY <1>1, <1>2 DEF SectionInv

(* The token changes hands through the event: to whoever finds it set, or  *)
(* from the signal straight to the first waiter.                           *)
LEMMA HandOver ==
    ASSUME SectionInv, NEW t \in Thread, WaitEvent(t) \/ SetEvent(t)
    PROVE  SectionInv'
<1>1. CASE WaitEvent(t) /\ event = 1
  <2>1. CountInv'
    BY <1>1, RtlCritSectAssumption
    DEF WaitEvent, Goes, SectionInv, CountInv, SectionType, OneToken, Ownership, Locked, Token, Instruction
  <2>2. ListOK'
    BY <1>1, ListKept DEF WaitEvent, Instruction
  <2> QED BY <2>1, <2>2 DEF SectionInv
<1>2. CASE WaitEvent(t) /\ event = 0
  <2>1. CountInv'
    BY <1>2, RtlCritSectAssumption
    DEF WaitEvent, Goes, SectionInv, CountInv, SectionType, OneToken, Ownership, Locked, Token, Instruction
  <2>2. /\ waiters \in Seq(Thread) /\ IsInjective(waiters)
        /\ \A u \in Range(waiters) : u # t
    BY <1>2 DEF WaitEvent, SectionInv, ListOK
  <2>3. waiters' = Append(waiters, t) /\ at' = [at EXCEPT ![t] = "blocked"]
    BY <1>2 DEF WaitEvent, Goes
  <2>4. /\ Append(waiters, t) \in Seq(Thread) /\ IsInjective(Append(waiters, t))
        /\ Range(Append(waiters, t)) = Range(waiters) \cup {t}
    BY <2>2, AppendLinks, Zenon
  <2> DEFINE w == Append(waiters, t)
  <2> HIDE DEF w
  <2>5. w \in Seq(Thread) /\ IsInjective(w) /\ Range(w) = Range(waiters) \cup {t} /\ waiters' = w
    BY <2>3, <2>4, Zenon DEF w
  <2>6. \A u \in Range(w) : at'[u] = "blocked"
    BY <2>3, <2>5 DEF SectionInv, CountInv, SectionType, ListOK
  <2>7. ListOK'
    BY <2>5, <2>6 DEF ListOK
  <2> QED BY <2>1, <2>7 DEF SectionInv
<1>3. CASE SetEvent(t) /\ waiters = <<>>
  <2>1. CountInv'
    BY <1>3, RtlCritSectAssumption
    DEF SetEvent, Goes, SectionInv, CountInv, SectionType, OneToken, Ownership, Locked, Token, Instruction
  <2>2. ListOK'
    BY <1>3, ListKept DEF SetEvent, Instruction
  <2> QED BY <2>1, <2>2 DEF SectionInv
<1>4. CASE SetEvent(t) /\ waiters # <<>>
  <2> DEFINE h == Head(waiters)
  <2>1. /\ Tail(waiters) \in Seq(Thread) /\ h \in Thread /\ IsInjective(Tail(waiters))
        /\ h \in Range(waiters) /\ Range(Tail(waiters)) = Range(waiters) \ {h}
    BY <1>4, TailScans DEF SectionInv, ListOK
  <2>2. at[h] = "blocked" /\ at[t] = "signal"
    BY <1>4, <2>1 DEF SetEvent, SectionInv, ListOK
  <2>3. /\ at' = [at EXCEPT ![t] = "caller", ![h] = "own"]
        /\ waiters' = Tail(waiters)
        /\ UNCHANGED <<SectionLock, RecursionCount, OwningThread, event, depth>>
    BY <1>4 DEF SetEvent
  <2> HIDE DEF h
  <2>4. CountInv'
    BY <2>1, <2>2, <2>3, RtlCritSectAssumption
    DEF SectionInv, CountInv, SectionType, OneToken, Ownership, Locked, Token, Instruction
  <2> DEFINE w == Tail(waiters)
  <2>5. w \in Seq(Thread) /\ IsInjective(w) /\ Range(w) = Range(waiters) \ {h} /\ waiters' = w
    BY <2>1, <2>3
  <2> HIDE DEF w
  <2>6. ASSUME NEW u \in Range(w) PROVE at'[u] = "blocked"
    <3>1. u \in Thread
      BY <2>5 DEF Range
    <3>2. at[u] = "blocked" /\ u # h
      BY <2>5 DEF SectionInv, ListOK
    <3> QED BY <2>2, <2>3, <3>1, <3>2 DEF SectionInv, CountInv, SectionType
  <2>7. ListOK'
    BY <2>5, <2>6 DEF ListOK
  <2> QED BY <2>4, <2>7 DEF SectionInv
<1> QED BY <1>1, <1>2, <1>3, <1>4 DEF WaitEvent

LEMMA BreakStep ==
    ASSUME SectionInv, NEW t \in Thread, BreakWait(t)
    PROVE  SectionInv'
<1>1. CountInv'
  BY RtlCritSectAssumption
  DEF BreakWait, Goes, SectionInv, CountInv, SectionType, OneToken, Ownership, Locked, Token, Instruction
<1>2. /\ waiters' \in Seq(Thread) /\ IsInjective(waiters')
      /\ Range(waiters') = Range(waiters) \ {t}
  BY UnlinkProperties DEF BreakWait, SectionInv, ListOK
<1>3. ListOK'
  BY <1>2 DEF BreakWait, Goes, SectionInv, CountInv, SectionType, ListOK
<1> QED BY <1>1, <1>3 DEF SectionInv

LEMMA SectionStep == SectionInv /\ [SectionNext]_sectionVars => SectionInv'
<1> SUFFICES ASSUME SectionInv, [SectionNext]_sectionVars PROVE SectionInv'
  OBVIOUS
<1>1. ASSUME NEW t \in Thread,
             Enter(t) \/ TryEnter(t) \/ Leave(t) \/ Runs(t) \/ BreakWait(t)
      PROVE  SectionInv'
  BY <1>1, EnterStep, InsideStep, LeaveStep, HandOver, BreakStep DEF Runs
<1>2. CASE UNCHANGED sectionVars
  BY <1>2 DEF sectionVars, SectionInv, CountInv, SectionType, OneToken, Ownership, Locked,
              Token, ListOK
<1> QED BY <1>1, <1>2 DEF SectionNext

(* The critical section of critsect.asm excludes, names its owner and      *)
(* counts its recursion, with every interleaving of its instructions.      *)
THEOREM SectionExcludes == SectionSpec => []SectionOwned
<1>1. SectionInv => SectionOwned
  BY DEF SectionInv, CountInv, SectionType, OneToken, Ownership, Token, SectionOwned
<1> QED BY <1>1, InitSection, SectionStep, PTL DEF SectionSpec

-----------------------------------------------------------------------------
(* The volume lock.                                                        *)

(* How many threads stand in one of the places, and what a thread that     *)
(* goes from one place to another does to that number.                     *)
NumberOf(f, places) == Cardinality({t \in Thread : f[t] \in places})
Is(place, places) == IF place \in places THEN 1 ELSE 0

LEMMA Numbers ==
    ASSUME NEW f, NEW places
    PROVE  /\ IsFiniteSet({t \in Thread : f[t] \in places})
           /\ NumberOf(f, places) \in Nat
           /\ NumberOf(f, places) = 0 <=> \A t \in Thread : f[t] \notin places
<1> DEFINE S == {t \in Thread : f[t] \in places}
<1>1. S \in SUBSET Thread
  OBVIOUS
<1>2. IsFiniteSet(S)
  BY <1>1, FS_Subset, FatxLocksAssumption
<1>3. Cardinality(S) \in Nat /\ (Cardinality(S) = 0 <=> S = {})
  BY <1>2, FS_CardinalityType, FS_EmptySet
<1>4. NumberOf(f, places) = Cardinality(S)
  BY Zenon DEF NumberOf
<1>5. S = {} <=> \A t \in Thread : f[t] \notin places
  OBVIOUS
<1> QED BY <1>2, <1>3, <1>4, <1>5

LEMMA Counted ==
    ASSUME NEW f, NEW places, NEW t \in Thread, f[t] \in places
    PROVE  NumberOf(f, places) > 0
<1>1. NumberOf(f, places) \in Nat /\ NumberOf(f, places) # 0
  BY Numbers, Zenon
<1> QED BY <1>1

LEMMA SomeCounted ==
    ASSUME NEW f, NEW places, NumberOf(f, places) > 0
    PROVE  \E t \in Thread : f[t] \in places
<1>1. NumberOf(f, places) # 0
  OBVIOUS
<1> QED BY <1>1, Numbers, Zenon

LEMMA NumberAfterMove ==
    ASSUME NEW f \in [Thread -> Where], NEW t \in Thread, NEW w \in Where, NEW places
    PROVE  NumberOf([f EXCEPT ![t] = w], places) =
               NumberOf(f, places) - Is(f[t], places) + Is(w, places)
<1> DEFINE g == [f EXCEPT ![t] = w]
           S == {u \in Thread : f[u] \in places}
           U == {u \in Thread : g[u] \in places}
           Rest == S \ {t}
<1>1. g[t] = w /\ \A u \in Thread : u # t => g[u] = f[u]
  OBVIOUS
<1>2. IsFiniteSet(S) /\ Cardinality(S) \in Nat
  BY Numbers, FS_CardinalityType
<1>3. IsFiniteSet(Rest) /\ Cardinality(Rest) = Cardinality(S) - Is(f[t], places)
  <2>1. IsFiniteSet(Rest)
    BY <1>2, FS_RemoveElement
  <2>2. Cardinality(Rest) = IF t \in S THEN Cardinality(S) - 1 ELSE Cardinality(S)
    BY <1>2, FS_RemoveElement
  <2>3. t \in S <=> f[t] \in places
    OBVIOUS
  <2> HIDE DEF Rest, S
  <2> QED BY <1>2, <2>1, <2>2, <2>3 DEF Is
<1>4. Cardinality(U) = Cardinality(Rest) + Is(w, places)
  <2>1. t \notin Rest /\ Cardinality(Rest) \in Nat
    BY <1>3, FS_CardinalityType
  <2>2. CASE w \in places
    <3>1. U = Rest \cup {t}
      BY <1>1, <2>2
    <3>2. Cardinality(Rest \cup {t}) = Cardinality(Rest) + 1
      BY <1>3, <2>1, FS_AddElement
    <3> HIDE DEF U, Rest
    <3> QED BY <2>2, <3>1, <3>2 DEF Is
  <2>3. CASE w \notin places
    <3>1. U = Rest
      BY <1>1, <2>3
    <3> HIDE DEF U, Rest
    <3> QED BY <2>1, <2>3, <3>1 DEF Is
  <2> QED BY <2>2, <2>3
<1>5. NumberOf(f, places) = Cardinality(S) /\ NumberOf(g, places) = Cardinality(U)
  BY Zenon DEF NumberOf
<1> HIDE DEF g, S, U, Rest
<1>6. NumberOf(g, places) = NumberOf(f, places) - Is(f[t], places) + Is(w, places)
  BY <1>2, <1>3, <1>4, <1>5
<1> QED BY <1>6 DEF g

(* Places that have nothing in common are counted apart. *)
LEMMA NumberOfBoth ==
    ASSUME NEW f, NEW A, NEW B, A \cap B = {}
    PROVE  NumberOf(f, A \cup B) = NumberOf(f, A) + NumberOf(f, B)
<1> DEFINE S == {t \in Thread : f[t] \in A}
           U == {t \in Thread : f[t] \in B}
           Both == {t \in Thread : f[t] \in A \cup B}
<1>1. IsFiniteSet(S) /\ IsFiniteSet(U) /\ Cardinality(S) \in Nat /\ Cardinality(U) \in Nat
  BY Numbers, FS_CardinalityType
<1>2. Both = S \cup U /\ S \cap U = {}
  OBVIOUS
<1> HIDE DEF S, U, Both
<1>3. Cardinality(S \cup U) = Cardinality(S) + Cardinality(U) - Cardinality(S \cap U)
  BY <1>1, FS_Union
<1>4. Cardinality(Both) = Cardinality(S) + Cardinality(U)
  <2>1. Cardinality(S \cap U) = 0
    BY <1>2, FS_EmptySet
  <2>2. Cardinality(Both) = Cardinality(S \cup U)
    BY <1>2
  <2> QED BY <1>1, <1>3, <2>1, <2>2
<1>5. /\ NumberOf(f, A) = Cardinality(S) /\ NumberOf(f, B) = Cardinality(U)
      /\ NumberOf(f, A \cup B) = Cardinality(Both)
  BY Zenon DEF NumberOf, S, U, Both
<1> QED BY <1>4, <1>5

(* What is left of the last release of the semaphore. *)
OneOf(S, g) == IF S = {} THEN 0 ELSE g[CHOOSE t \in S : TRUE]
Awaited(f, g) == OneOf({t \in Thread : f[t] \in {"releaseSem"}}, g)

Coming == Awaited(pc, grant)

LEMMA GrantsAre == ReaderGrants = ReaderSemaphore + Coming
BY Zenon DEF ReaderGrants, Coming, Awaited, OneOf, Releasing, In

LEMMA NobodyReleases ==
    ASSUME NEW f, NEW g, \A t \in Thread : f[t] # "releaseSem"
    PROVE  Awaited(f, g) = 0
<1>1. {t \in Thread : f[t] \in {"releaseSem"}} = {}
  OBVIOUS
<1>2. OneOf({}, g) = 0
  BY DEF OneOf
<1> QED BY <1>1, <1>2, Zenon DEF Awaited

LEMMA OneReleases ==
    ASSUME NEW f, NEW g, NEW t \in Thread, f[t] = "releaseSem",
           \A u \in Thread : f[u] = "releaseSem" => u = t
    PROVE  Awaited(f, g) = g[t]
<1>1. {u \in Thread : f[u] \in {"releaseSem"}} = {t}
  OBVIOUS
<1>2. (CHOOSE u \in {t} : TRUE) = t
  OBVIOUS
<1>3. OneOf({t}, g) = g[t]
  BY <1>2, {t} # {}, Zenon DEF OneOf
<1> QED BY <1>1, <1>3, Zenon DEF Awaited

LEMMA SameReleases ==
    ASSUME NEW f, NEW h, NEW g,
           \A t \in Thread : f[t] = "releaseSem" <=> h[t] = "releaseSem"
    PROVE  Awaited(f, g) = Awaited(h, g)
<1>1. {t \in Thread : f[t] \in {"releaseSem"}} = {t \in Thread : h[t] \in {"releaseSem"}}
  OBVIOUS
<1> QED BY <1>1, Zenon DEF Awaited

-----------------------------------------------------------------------------
(* The invariant.                                                          *)

Owning         == NumberOf(pc, {"exclusive"})
Sharing        == NumberOf(pc, {"shared"})
WaitingWriters == NumberOf(pc, {"waitWriter", "blockWriter"})
WaitingReaders == NumberOf(pc, {"waitReader", "blockReader"})
Handing        == NumberOf(pc, {"setEvent"})

(* Each count against the threads behind it. *)
CountsAgree ==
    /\ LockCount + 1 = Owning + Sharing + WaitingWriters + WaitingReaders
    /\ WritersWaitingCount + WriterEvent + Handing = WaitingWriters
    /\ ReadersWaitingCount + ReaderSemaphore + Coming = WaitingReaders
    /\ ReadersEntryCount = Sharing + ReaderSemaphore + Coming
    /\ WritersWaitingCount >= 0 /\ ReadersWaitingCount >= 0

(* The right to write is one: a writer has it, or the thread about to set  *)
(* the event, or the event.  Nobody waits for a lock that neither kind     *)
(* has, and readers wait for readers only behind a writer.                 *)
OneKind ==
    /\ Owning + Handing + WriterEvent <= 1
    /\ Owning + Handing + WriterEvent = 1 => ReadersEntryCount = 0
    /\ Owning + Handing + WriterEvent = 0 /\ ReadersEntryCount = 0
          => WaitingWriters = 0 /\ WaitingReaders = 0
    /\ ReadersWaitingCount > 0 /\ ReadersEntryCount > 0 => WritersWaitingCount > 0

(* The readers of one release are in before the next release. *)
OneRelease ==
    \A t \in Thread :
        pc[t] = "releaseSem" =>
            /\ ReaderSemaphore = 0 /\ grant[t] > 0
            /\ \A u \in Thread : pc[u] = "releaseSem" => u = t

(* The wait lists hold the blocked threads, and a signal that stays found  *)
(* nobody in the list.                                                     *)
Lists(queue, f, where) ==
    /\ queue \in Seq(Thread) /\ IsInjective(queue)
    /\ \A t \in Thread : t \in Range(queue) <=> f[t] = where

ListsOK ==
    /\ Lists(writerQueue, pc, "blockWriter")
    /\ Lists(readerQueue, pc, "blockReader")
    /\ WriterEvent = 1 => writerQueue = <<>>
    /\ ReaderSemaphore > 0 => readerQueue = <<>>

LockInv == TypeOK /\ CountsAgree /\ OneKind /\ OneRelease /\ ListsOK

LEMMA NumbersAre ==
    /\ Owning \in Nat /\ Sharing \in Nat /\ WaitingWriters \in Nat
    /\ WaitingReaders \in Nat /\ Handing \in Nat
BY Numbers DEF Owning, Sharing, WaitingWriters, WaitingReaders, Handing

(* A thread goes from one place to another: the numbers before and after.  *)
Shift(from, to) ==
    /\ Owning' = Owning - Is(from, {"exclusive"}) + Is(to, {"exclusive"})
    /\ Sharing' = Sharing - Is(from, {"shared"}) + Is(to, {"shared"})
    /\ WaitingWriters' = WaitingWriters - Is(from, {"waitWriter", "blockWriter"})
                                        + Is(to, {"waitWriter", "blockWriter"})
    /\ WaitingReaders' = WaitingReaders - Is(from, {"waitReader", "blockReader"})
                                        + Is(to, {"waitReader", "blockReader"})
    /\ Handing' = Handing - Is(from, {"setEvent"}) + Is(to, {"setEvent"})

LEMMA Moved ==
    ASSUME pc \in [Thread -> Where], NEW t \in Thread, NEW w \in Where, Goto(t, w)
    PROVE  pc' \in [Thread -> Where] /\ Shift(pc[t], w)
<1>1. pc' = [pc EXCEPT ![t] = w]
  BY DEF Goto
<1>2. pc' \in [Thread -> Where]
  BY <1>1
<1>3. Owning' = Owning - Is(pc[t], {"exclusive"}) + Is(w, {"exclusive"})
  BY <1>1, NumberAfterMove DEF Owning
<1>4. Sharing' = Sharing - Is(pc[t], {"shared"}) + Is(w, {"shared"})
  BY <1>1, NumberAfterMove DEF Sharing
<1>5. WaitingWriters' = WaitingWriters - Is(pc[t], {"waitWriter", "blockWriter"})
                                       + Is(w, {"waitWriter", "blockWriter"})
  BY <1>1, NumberAfterMove DEF WaitingWriters
<1>6. WaitingReaders' = WaitingReaders - Is(pc[t], {"waitReader", "blockReader"})
                                       + Is(w, {"waitReader", "blockReader"})
  BY <1>1, NumberAfterMove DEF WaitingReaders
<1>7. Handing' = Handing - Is(pc[t], {"setEvent"}) + Is(w, {"setEvent"})
  BY <1>1, NumberAfterMove DEF Handing
<1> QED BY <1>2, <1>3, <1>4, <1>5, <1>6, <1>7 DEF Shift

LEMMA ListsKept ==
    ASSUME NEW q, NEW f \in [Thread -> Where], NEW where, NEW t \in Thread, NEW w \in Where,
           Lists(q, f, where), f[t] # where, w # where
    PROVE  Lists(q, [f EXCEPT ![t] = w], where)
BY DEF Lists

LEMMA ListsAppend ==
    ASSUME NEW q, NEW f \in [Thread -> Where], NEW where \in Where, NEW t \in Thread,
           Lists(q, f, where), f[t] # where
    PROVE  Lists(Append(q, t), [f EXCEPT ![t] = where], where)
<1> DEFINE a == Append(q, t)
           g == [f EXCEPT ![t] = where]
<1>1. q \in Seq(Thread) /\ IsInjective(q) /\ t \notin Range(q)
  BY DEF Lists
<1>2. a \in Seq(Thread) /\ IsInjective(a) /\ Range(a) = Range(q) \cup {t}
  BY <1>1, AppendLinks
<1>3. \A u \in Thread : u \in Range(q) <=> f[u] = where
  BY DEF Lists
<1>4. g[t] = where /\ \A u \in Thread : u # t => g[u] = f[u]
  OBVIOUS
<1> HIDE DEF a, g
<1>5. Lists(a, g, where)
  BY <1>2, <1>3, <1>4 DEF Lists
<1> QED BY <1>5 DEF a, g

LEMMA ListsUnlink ==
    ASSUME NEW q, NEW f \in [Thread -> Where], NEW where, NEW t \in Thread, NEW w \in Where,
           Lists(q, f, where), w # where
    PROVE  Lists(Unlink(q, t), [f EXCEPT ![t] = w], where)
<1> DEFINE a == Unlink(q, t)
           g == [f EXCEPT ![t] = w]
<1>1. q \in Seq(Thread) /\ IsInjective(q)
  BY DEF Lists
<1>2. a \in Seq(Thread) /\ IsInjective(a) /\ Range(a) = Range(q) \ {t}
  BY <1>1, UnlinkProperties
<1>3. \A u \in Thread : u \in Range(q) <=> f[u] = where
  BY DEF Lists
<1>4. g[t] = w /\ \A u \in Thread : u # t => g[u] = f[u]
  OBVIOUS
<1> HIDE DEF a, g
<1>5. Lists(a, g, where)
  BY <1>2, <1>3, <1>4 DEF Lists
<1> QED BY <1>5 DEF a, g

(* A thread that releases no readers leaves those of the release alone. *)
LEMMA ReleaseKept ==
    ASSUME LockInv, NEW t \in Thread, NEW w \in Where, Goto(t, w),
           pc[t] # "releaseSem", w # "releaseSem", grant' = grant,
           ReaderSemaphore = 0 => ReaderSemaphore' = 0
    PROVE  Coming' = Coming /\ OneRelease'
<1>1. pc' = [pc EXCEPT ![t] = w] /\ pc \in [Thread -> Where]
  BY DEF Goto, LockInv, TypeOK
<1>2. \A u \in Thread : pc[u] = "releaseSem" <=> pc'[u] = "releaseSem"
  BY <1>1
<1>3. Coming = Awaited(pc', grant)
  BY <1>2, SameReleases DEF Coming
<1>4. OneRelease'
  BY <1>2 DEF LockInv, OneRelease
<1>5. Coming' = Awaited(pc', grant)
  BY DEF Coming
<1> QED BY <1>3, <1>4, <1>5 DEF Coming

(* What is awaited of a release is a number, and covers the semaphore. *)
LEMMA AwaitedIs ==
    ASSUME LockInv
    PROVE  /\ Coming \in Nat
           /\ \A t \in Thread : pc[t] = "releaseSem" => Coming = grant[t]
           /\ Coming = 0 => \A t \in Thread : pc[t] # "releaseSem"
<1>1. CASE \A t \in Thread : pc[t] # "releaseSem"
  BY <1>1, NobodyReleases DEF Coming
<1>2. ASSUME NEW t \in Thread, pc[t] = "releaseSem"
      PROVE  Coming = grant[t] /\ grant[t] \in Nat \ {0}
  <2>1. \A u \in Thread : pc[u] = "releaseSem" => u = t
    BY <1>2 DEF LockInv, OneRelease
  <2>2. grant[t] > 0 /\ grant[t] \in Nat
    BY <1>2 DEF LockInv, OneRelease, TypeOK
  <2> QED BY <1>2, <2>1, <2>2, OneReleases DEF Coming
<1> QED BY <1>1, <1>2

(* The integers the counts are made of. *)
Integral ==
    /\ LockCount \in Int /\ WritersWaitingCount \in Int
    /\ ReadersWaitingCount \in Int /\ ReadersEntryCount \in Int
    /\ WriterEvent \in Nat /\ WriterEvent <= 1 /\ ReaderSemaphore \in Nat
    /\ Coming \in Nat
    /\ Owning \in Nat /\ Sharing \in Nat /\ WaitingWriters \in Nat
    /\ WaitingReaders \in Nat /\ Handing \in Nat

LEMMA IntegersAre == ASSUME LockInv PROVE Integral
BY NumbersAre, AwaitedIs DEF LockInv, TypeOK, Integral

LEMMA AcquireExclusiveStep ==
    ASSUME LockInv, NEW t \in Thread, AcquireExclusive(t)
    PROVE  LockInv'
<1>1. PICK w \in {"exclusive", "waitWriter"} :
          /\ Goto(t, w)
          /\ w = "exclusive" => LockCount + 1 = 0 /\ WritersWaitingCount' = WritersWaitingCount
          /\ w = "waitWriter" => /\ LockCount + 1 # 0
                                 /\ WritersWaitingCount' = WritersWaitingCount + 1
  BY DEF AcquireExclusive
<1>2. /\ pc[t] = "idle" /\ LockCount' = LockCount + 1
      /\ UNCHANGED <<ReadersWaitingCount, ReadersEntryCount, objVars, grant, apcs>>
  BY DEF AcquireExclusive
<1>3. w \in Where
  BY DEF Where
<1>4. Coming' = Coming /\ OneRelease'
  BY <1>1, <1>2, <1>3, ReleaseKept DEF objVars
<1>5. TypeOK'
  BY <1>1, <1>2, <1>3, Moved DEF LockInv, TypeOK, objVars
<1>6. CountsAgree' /\ OneKind'
  <2>1. pc \in [Thread -> Where] /\ Integral
    BY IntegersAre DEF LockInv, TypeOK
  <2>2. /\ Owning' = Owning + Is(w, {"exclusive"}) /\ Sharing' = Sharing
        /\ WaitingWriters' = WaitingWriters + Is(w, {"waitWriter", "blockWriter"})
        /\ WaitingReaders' = WaitingReaders /\ Handing' = Handing
    <3>1. Shift("idle", w)
      BY <1>1, <1>2, <1>3, <2>1, Moved
    <3> QED BY <1>1, <1>2, <1>3, <2>1, <3>1 DEF Shift, Is, Integral
  <2>3. CountsAgree /\ OneKind /\ UNCHANGED <<WriterEvent, ReaderSemaphore>>
    BY <1>2 DEF LockInv, objVars
  <2>4. CASE w = "exclusive"
    BY <1>1, <1>2, <1>4, <2>1, <2>2, <2>3, <2>4 DEF CountsAgree, OneKind, Is, Integral
  <2>5. CASE w = "waitWriter"
    BY <1>1, <1>2, <1>4, <2>2, <2>1, <2>3, <2>5 DEF Integral, CountsAgree, OneKind, Is
  <2> QED BY <2>4, <2>5
<1>7. ListsOK'
  BY <1>1, <1>2, <1>3, ListsKept DEF LockInv, ListsOK, TypeOK, Goto, objVars
<1> QED BY <1>4, <1>5, <1>6, <1>7 DEF LockInv

LEMMA AcquireSharedStep ==
    ASSUME LockInv, NEW t \in Thread, AcquireShared(t)
    PROVE  LockInv'
<1>1. PICK w \in {"shared", "waitReader"} :
          /\ Goto(t, w)
          /\ w = "shared" => /\ MayShare
                             /\ ReadersEntryCount' = ReadersEntryCount + 1
                             /\ ReadersWaitingCount' = ReadersWaitingCount
          /\ w = "waitReader" => /\ ~MayShare
                                 /\ ReadersEntryCount' = ReadersEntryCount
                                 /\ ReadersWaitingCount' = ReadersWaitingCount + 1
  BY DEF AcquireShared
<1>2. /\ pc[t] = "idle" /\ LockCount' = LockCount + 1
      /\ UNCHANGED <<WritersWaitingCount, objVars, grant, apcs>>
  BY DEF AcquireShared
<1>3. w \in Where
  BY DEF Where
<1>4. Coming' = Coming /\ OneRelease'
  BY <1>1, <1>2, <1>3, ReleaseKept DEF objVars
<1>5. TypeOK'
  BY <1>1, <1>2, <1>3, Moved DEF LockInv, TypeOK, objVars
<1>6. CountsAgree' /\ OneKind'
  <2>1. pc \in [Thread -> Where] /\ Integral
    BY IntegersAre DEF LockInv, TypeOK
  <2>2. /\ Owning' = Owning /\ Sharing' = Sharing + Is(w, {"shared"})
        /\ WaitingWriters' = WaitingWriters
        /\ WaitingReaders' = WaitingReaders + Is(w, {"waitReader", "blockReader"})
        /\ Handing' = Handing
    <3>1. Shift("idle", w)
      BY <1>1, <1>2, <1>3, <2>1, Moved
    <3> QED BY <1>1, <1>2, <1>3, <2>1, <3>1 DEF Shift, Is, Integral
  <2>3. CountsAgree /\ OneKind /\ UNCHANGED <<WriterEvent, ReaderSemaphore>>
    BY <1>2 DEF LockInv, objVars
  <2>4. CASE w = "shared"
    BY <1>1, <1>2, <1>4, <2>2, <2>1, <2>3, <2>4 DEF Integral, CountsAgree, OneKind, Is, MayShare
  <2>5. CASE w = "waitReader"
    BY <1>1, <1>2, <1>4, <2>2, <2>1, <2>3, <2>5 DEF Integral, CountsAgree, OneKind, Is, MayShare
  <2> QED BY <2>4, <2>5
<1>7. ListsOK'
  BY <1>1, <1>2, <1>3, ListsKept DEF LockInv, ListsOK, TypeOK, Goto, objVars
<1> QED BY <1>4, <1>5, <1>6, <1>7 DEF LockInv

(* The last owner leaves, or hands the lock to a writer. *)
LEMMA ReleaseStep ==
    ASSUME LockInv, NEW t \in Thread, Release(t), pc'[t] # "releaseSem"
    PROVE  LockInv'
<1>1. /\ pc[t] \in {"exclusive", "shared"} /\ LockCount' = LockCount - 1
      /\ ReleaseFree(t) \/ ReleaseByReader(t) \/ ReleaseByWriter(t)
      /\ UNCHANGED <<objVars, apcs>>
  BY DEF Release
<1>2. pc \in [Thread -> Where] /\ Integral /\ CountsAgree /\ OneKind
  BY IntegersAre DEF LockInv, TypeOK
<1>3. PICK w \in {"idle", "setEvent"} :
          /\ Goto(t, w) /\ UNCHANGED <<ReadersWaitingCount, grant>>
          /\ \/ /\ w = "idle" /\ LockCount - 1 < 0 /\ ReadersEntryCount' = 0
                /\ WritersWaitingCount' = WritersWaitingCount
             \/ /\ w = "idle" /\ LockCount - 1 >= 0 /\ ReadersEntryCount # 0
                /\ ReadersEntryCount' = ReadersEntryCount - 1 /\ ReadersEntryCount' # 0
                /\ WritersWaitingCount' = WritersWaitingCount
             \/ /\ w = "setEvent" /\ LockCount - 1 >= 0 /\ ReadersEntryCount # 0
                /\ ReadersEntryCount' = ReadersEntryCount - 1 /\ ReadersEntryCount' = 0
                /\ WritersWaitingCount' = WritersWaitingCount - 1
             \/ /\ w = "setEvent" /\ LockCount - 1 >= 0 /\ ReadersEntryCount = 0
                /\ ReadersWaitingCount = 0 /\ ReadersEntryCount' = ReadersEntryCount
                /\ WritersWaitingCount' = WritersWaitingCount - 1
  <2>1. CASE ReleaseFree(t)
    BY <2>1 DEF ReleaseFree
  <2>2. CASE ReleaseByReader(t)
    BY <2>2 DEF ReleaseByReader
  <2>3. CASE ReleaseByWriter(t)
    <3>1. ~Goto(t, "releaseSem")
      BY <1>2 DEF Goto
    <3> QED BY <2>3, <3>1 DEF ReleaseByWriter
  <2> QED BY <1>1, <2>1, <2>2, <2>3
<1>4. w \in Where
  BY DEF Where
<1>5. Coming' = Coming /\ OneRelease'
  BY <1>1, <1>3, <1>4, ReleaseKept DEF objVars
<1>6. /\ Owning' = Owning - Is(pc[t], {"exclusive"})
      /\ Sharing' = Sharing - Is(pc[t], {"shared"})
      /\ WaitingWriters' = WaitingWriters /\ WaitingReaders' = WaitingReaders
      /\ Handing' = Handing + Is(w, {"setEvent"})
  <2>1. Shift(pc[t], w)
    BY <1>1, <1>2, <1>3, <1>4, Moved
  <2> QED BY <1>1, <1>2, <1>3, <1>4, <2>1 DEF Shift, Is, Integral
<1>7. WriterEvent' = WriterEvent /\ ReaderSemaphore' = ReaderSemaphore
  BY <1>1 DEF objVars
<1>8. /\ pc[t] = "exclusive" => Owning > 0
      /\ pc[t] = "shared" => Sharing > 0
  BY Counted DEF Owning, Sharing
<1>9. CountsAgree' /\ OneKind'
  <2>1. CASE pc[t] = "exclusive"
    <3>1. Owning' = Owning - 1 /\ Sharing' = Sharing /\ Owning > 0
      BY <1>2, <1>6, <1>8, <2>1 DEF Is, Integral
    <3>2. ReadersEntryCount = 0 /\ Sharing = 0 /\ Coming = 0
      BY <1>2, <3>1 DEF Integral, CountsAgree, OneKind
    <3>3. CASE w = "idle"
      BY <1>1, <1>2, <1>3, <1>5, <1>6, <1>7, <3>1, <3>2, <3>3
      DEF Integral, CountsAgree, OneKind, Is
    <3>4. CASE w = "setEvent"
      BY <1>1, <1>2, <1>3, <1>5, <1>6, <1>7, <3>1, <3>2, <3>4
      DEF Integral, CountsAgree, OneKind, Is
    <3> QED BY <3>3, <3>4
  <2>2. CASE pc[t] = "shared"
    BY <1>1, <1>2, <1>3, <1>5, <1>6, <1>7, <1>8, <2>2 DEF Integral, CountsAgree, OneKind, Is
  <2> QED BY <1>1, <2>1, <2>2
<1>10. TypeOK'
  BY <1>1, <1>3, <1>4, Moved DEF LockInv, TypeOK, objVars
<1>11. ListsOK'
  BY <1>1, <1>3, <1>4, ListsKept DEF LockInv, ListsOK, TypeOK, Goto, objVars
<1> QED BY <1>5, <1>9, <1>10, <1>11 DEF LockInv

(* A writer leaves to the readers that wait. *)
LEMMA ReleaseToReadersStep ==
    ASSUME LockInv, NEW t \in Thread, Release(t), pc'[t] = "releaseSem"
    PROVE  LockInv'
<1>1. /\ pc[t] \in {"exclusive", "shared"} /\ LockCount' = LockCount - 1
      /\ ReleaseFree(t) \/ ReleaseByReader(t) \/ ReleaseByWriter(t)
      /\ UNCHANGED <<objVars, apcs>>
  BY DEF Release
<1>2. pc \in [Thread -> Where] /\ Integral /\ CountsAgree /\ OneKind
  BY IntegersAre DEF LockInv, TypeOK
<1>3. /\ Goto(t, "releaseSem") /\ LockCount - 1 >= 0
      /\ ReadersEntryCount = 0 /\ ReadersWaitingCount # 0
      /\ ReadersEntryCount' = ReadersWaitingCount /\ ReadersWaitingCount' = 0
      /\ grant' = [grant EXCEPT ![t] = ReadersWaitingCount]
      /\ WritersWaitingCount' = WritersWaitingCount
  <2>1. ~Goto(t, "idle") /\ ~Goto(t, "setEvent")
    BY <1>2 DEF Goto
  <2> QED BY <1>1, <2>1 DEF ReleaseFree, ReleaseByReader, ReleaseByWriter
<1>4. "releaseSem" \in Where
  BY DEF Where
<1>5. Sharing = 0 /\ Coming = 0 /\ ReaderSemaphore = 0
  BY <1>2, <1>3 DEF Integral, CountsAgree
<1>6. pc[t] = "exclusive"
  BY <1>1, <1>5, Numbers DEF Sharing
<1>7. /\ Owning' = Owning - 1 /\ Sharing' = Sharing /\ Handing' = Handing
      /\ WaitingWriters' = WaitingWriters /\ WaitingReaders' = WaitingReaders
  <2>1. Shift("exclusive", "releaseSem")
    BY <1>2, <1>3, <1>4, <1>6, Moved
  <2> QED BY <1>2, <1>3, <1>4, <1>6, <2>1 DEF Shift, Is, Integral
<1>8. pc' = [pc EXCEPT ![t] = "releaseSem"] /\ \A u \in Thread : pc[u] # "releaseSem"
  BY <1>3, <1>5, AwaitedIs DEF Goto
<1>9. /\ grant'[t] = ReadersWaitingCount /\ ReadersWaitingCount > 0
      /\ grant' \in [Thread -> Nat]
  BY <1>2, <1>3 DEF LockInv, TypeOK, Integral, CountsAgree
<1>10. /\ pc'[t] = "releaseSem"
       /\ \A u \in Thread : pc'[u] = "releaseSem" => u = t
  BY <1>2, <1>8
<1>11. Coming' = ReadersWaitingCount
  <2>1. Awaited(pc', grant') = grant'[t]
    BY <1>10, OneReleases
  <2> QED BY <1>9, <2>1 DEF Coming
<1>12. WriterEvent' = WriterEvent /\ ReaderSemaphore' = 0
  BY <1>1, <1>5 DEF objVars
<1>13. Owning > 0
  BY <1>6, Counted DEF Owning
<1>14. CountsAgree' /\ OneKind'
  BY <1>1, <1>2, <1>3, <1>5, <1>7, <1>11, <1>12, <1>13 DEF Integral, CountsAgree, OneKind
<1>15. OneRelease'
  BY <1>9, <1>10, <1>12 DEF OneRelease
<1>16. TypeOK'
  BY <1>1, <1>2, <1>3, <1>4, <1>9, Moved DEF LockInv, TypeOK, objVars, Integral
<1>17. ListsOK'
  BY <1>1, <1>2, <1>4, <1>6, <1>8, ListsKept DEF LockInv, ListsOK, objVars
<1> QED BY <1>14, <1>15, <1>16, <1>17 DEF LockInv

(* A thread takes the signal that is left, or joins the wait list. *)
LEMMA WaitWriterStep ==
    ASSUME LockInv, NEW t \in Thread, WaitWriter(t)
    PROVE  LockInv'
<1>1. /\ pc[t] = "waitWriter" /\ UNCHANGED <<lockVars, ReaderSemaphore, readerQueue, grant, apcs>>
      /\ \/ /\ WriterEvent > 0 /\ WriterEvent' = 0 /\ Goto(t, "exclusive")
            /\ writerQueue' = writerQueue
         \/ /\ WriterEvent = 0 /\ WriterEvent' = WriterEvent /\ Goto(t, "blockWriter")
            /\ writerQueue' = Append(writerQueue, t)
  BY DEF WaitWriter
<1>2. pc \in [Thread -> Where] /\ Integral /\ CountsAgree /\ OneKind
  BY IntegersAre DEF LockInv, TypeOK
<1>3. "exclusive" \in Where /\ "blockWriter" \in Where
  BY DEF Where
<1>4. pc[t] = "waitWriter"
  BY <1>1
<1>5. Coming' = Coming /\ OneRelease'
  BY <1>1, <1>3, ReleaseKept
<1>6. CASE WriterEvent > 0
  <2>1. /\ Goto(t, "exclusive") /\ WriterEvent = 1 /\ WriterEvent' = 0
        /\ writerQueue' = writerQueue
    BY <1>1, <1>2, <1>6 DEF Integral
  <2>2. /\ Owning' = Owning + 1 /\ Sharing' = Sharing /\ Handing' = Handing
        /\ WaitingWriters' = WaitingWriters - 1 /\ WaitingReaders' = WaitingReaders
    <3>1. Shift("waitWriter", "exclusive")
      BY <1>2, <1>3, <1>4, <2>1, Moved
    <3> QED BY <1>2, <1>3, <1>4, <2>1, <3>1 DEF Shift, Is, Integral
  <2>3. CountsAgree' /\ OneKind'
    BY <1>1, <1>2, <1>5, <2>1, <2>2 DEF Integral, CountsAgree, OneKind, lockVars
  <2>4. TypeOK'
    BY <1>1, <1>3, <2>1, Moved DEF LockInv, TypeOK, lockVars
  <2>5. ListsOK'
    <3>1. pc' = [pc EXCEPT ![t] = "exclusive"]
      BY <2>1 DEF Goto
    <3>2. Lists(writerQueue, pc', "blockWriter") /\ Lists(readerQueue, pc', "blockReader")
      BY <1>1, <1>2, <1>3, <3>1, ListsKept DEF LockInv, ListsOK
    <3> QED BY <1>1, <2>1, <3>2 DEF LockInv, ListsOK
  <2> QED BY <1>5, <2>3, <2>4, <2>5 DEF LockInv
<1>7. CASE WriterEvent = 0
  <2>1. /\ Goto(t, "blockWriter") /\ WriterEvent' = 0
        /\ writerQueue' = Append(writerQueue, t)
    BY <1>1, <1>2, <1>7 DEF Integral
  <2>2. /\ Owning' = Owning /\ Sharing' = Sharing /\ Handing' = Handing
        /\ WaitingWriters' = WaitingWriters /\ WaitingReaders' = WaitingReaders
    <3>1. Shift("waitWriter", "blockWriter")
      BY <1>2, <1>3, <1>4, <2>1, Moved
    <3> QED BY <1>2, <1>3, <1>4, <2>1, <3>1 DEF Shift, Is, Integral
  <2>3. CountsAgree' /\ OneKind'
    BY <1>1, <1>2, <1>5, <1>7, <2>1, <2>2 DEF Integral, CountsAgree, OneKind, lockVars
  <2>4. TypeOK'
    BY <1>1, <1>3, <2>1, Moved DEF LockInv, TypeOK, lockVars
  <2>5. pc' = [pc EXCEPT ![t] = "blockWriter"]
    BY <2>1 DEF Goto
  <2>6. Lists(writerQueue', pc', "blockWriter")
    BY <1>1, <1>2, <1>3, <2>1, <2>5, ListsAppend DEF LockInv, ListsOK
  <2>7. Lists(readerQueue', pc', "blockReader")
    BY <1>1, <1>2, <1>3, <2>5, ListsKept DEF LockInv, ListsOK
  <2>8. ListsOK'
    BY <1>1, <2>1, <2>6, <2>7 DEF LockInv, ListsOK
  <2> QED BY <1>5, <2>3, <2>4, <2>8 DEF LockInv
<1> QED BY <1>1, <1>6, <1>7

LEMMA WaitReaderStep ==
    ASSUME LockInv, NEW t \in Thread, WaitReader(t)
    PROVE  LockInv'
<1>1. /\ pc[t] = "waitReader" /\ UNCHANGED <<lockVars, WriterEvent, writerQueue, grant, apcs>>
      /\ \/ /\ ReaderSemaphore > 0 /\ ReaderSemaphore' = ReaderSemaphore - 1
            /\ Goto(t, "shared") /\ readerQueue' = readerQueue
         \/ /\ ReaderSemaphore = 0 /\ ReaderSemaphore' = ReaderSemaphore
            /\ Goto(t, "blockReader") /\ readerQueue' = Append(readerQueue, t)
  BY DEF WaitReader
<1>2. pc \in [Thread -> Where] /\ Integral /\ CountsAgree /\ OneKind
  BY IntegersAre DEF LockInv, TypeOK
<1>3. "shared" \in Where /\ "blockReader" \in Where
  BY DEF Where
<1>4. pc[t] = "waitReader"
  BY <1>1
<1>5. Coming' = Coming /\ OneRelease'
  <2>1. ReaderSemaphore = 0 => ReaderSemaphore' = 0
    BY <1>1
  <2> QED BY <1>1, <1>3, <2>1, ReleaseKept
<1>6. CASE ReaderSemaphore > 0
  <2>1. /\ Goto(t, "shared") /\ ReaderSemaphore' = ReaderSemaphore - 1
        /\ readerQueue' = readerQueue
    BY <1>1, <1>2, <1>6 DEF Integral
  <2>2. /\ Owning' = Owning /\ Sharing' = Sharing + 1 /\ Handing' = Handing
        /\ WaitingWriters' = WaitingWriters /\ WaitingReaders' = WaitingReaders - 1
    <3>1. Shift("waitReader", "shared")
      BY <1>2, <1>3, <1>4, <2>1, Moved
    <3> QED BY <1>2, <1>3, <1>4, <2>1, <3>1 DEF Shift, Is, Integral
  <2>3. CountsAgree' /\ OneKind'
    BY <1>1, <1>2, <1>5, <1>6, <2>1, <2>2 DEF Integral, CountsAgree, OneKind, lockVars
  <2>4. TypeOK'
    BY <1>1, <1>2, <1>3, <1>6, <2>1, Moved DEF LockInv, TypeOK, lockVars, Integral
  <2>5. ListsOK'
    <3>1. pc' = [pc EXCEPT ![t] = "shared"]
      BY <2>1 DEF Goto
    <3>2. Lists(writerQueue, pc', "blockWriter") /\ Lists(readerQueue, pc', "blockReader")
      BY <1>1, <1>2, <1>3, <3>1, ListsKept DEF LockInv, ListsOK
    <3> QED BY <1>1, <1>6, <2>1, <3>2 DEF LockInv, ListsOK
  <2> QED BY <1>5, <2>3, <2>4, <2>5 DEF LockInv
<1>7. CASE ReaderSemaphore = 0
  <2>1. /\ Goto(t, "blockReader") /\ ReaderSemaphore' = 0
        /\ readerQueue' = Append(readerQueue, t)
    BY <1>1, <1>2, <1>7 DEF Integral
  <2>2. /\ Owning' = Owning /\ Sharing' = Sharing /\ Handing' = Handing
        /\ WaitingWriters' = WaitingWriters /\ WaitingReaders' = WaitingReaders
    <3>1. Shift("waitReader", "blockReader")
      BY <1>2, <1>3, <1>4, <2>1, Moved
    <3> QED BY <1>2, <1>3, <1>4, <2>1, <3>1 DEF Shift, Is, Integral
  <2>3. CountsAgree' /\ OneKind'
    BY <1>1, <1>2, <1>5, <1>7, <2>1, <2>2 DEF Integral, CountsAgree, OneKind, lockVars
  <2>4. TypeOK'
    BY <1>1, <1>3, <2>1, Moved DEF LockInv, TypeOK, lockVars
  <2>5. pc' = [pc EXCEPT ![t] = "blockReader"]
    BY <2>1 DEF Goto
  <2>6. Lists(readerQueue', pc', "blockReader")
    BY <1>1, <1>2, <1>3, <2>1, <2>5, ListsAppend DEF LockInv, ListsOK
  <2>7. Lists(writerQueue', pc', "blockWriter")
    BY <1>1, <1>2, <1>3, <2>5, ListsKept DEF LockInv, ListsOK
  <2>8. ListsOK'
    BY <1>1, <2>1, <2>6, <2>7 DEF LockInv, ListsOK
  <2> QED BY <1>5, <2>3, <2>4, <2>8 DEF LockInv
<1> QED BY <1>1, <1>6, <1>7

LEMMA LockApcStep ==
    ASSUME LockInv, NEW t \in Thread, KernelApc(t)
    PROVE  LockInv'
<1>1. PICK w \in {"waitWriter", "waitReader"} :
        /\ Goto(t, w) /\ UNCHANGED <<lockVars, WriterEvent, ReaderSemaphore, grant>>
        /\ apcs' = apcs + 1
        /\ \/ /\ w = "waitWriter" /\ pc[t] = "blockWriter"
              /\ writerQueue' = Unlink(writerQueue, t) /\ readerQueue' = readerQueue
           \/ /\ w = "waitReader" /\ pc[t] = "blockReader"
              /\ readerQueue' = Unlink(readerQueue, t) /\ writerQueue' = writerQueue
  BY DEF KernelApc
<1>2. pc \in [Thread -> Where] /\ Integral /\ CountsAgree /\ OneKind
  BY IntegersAre DEF LockInv, TypeOK
<1>3. w \in Where
  BY DEF Where
<1>4. Coming' = Coming /\ OneRelease'
  BY <1>1, <1>3, ReleaseKept
<1>5. /\ Owning' = Owning /\ Sharing' = Sharing /\ Handing' = Handing
      /\ WaitingWriters' = WaitingWriters /\ WaitingReaders' = WaitingReaders
  <2>1. Shift(pc[t], w)
    BY <1>1, <1>2, <1>3, Moved
  <2> QED BY <1>1, <1>2, <1>3, <2>1 DEF Shift, Is, Integral
<1>6. CountsAgree' /\ OneKind'
  BY <1>1, <1>2, <1>4, <1>5 DEF Integral, CountsAgree, OneKind, lockVars
<1>7. pc' = [pc EXCEPT ![t] = w]
  BY <1>1 DEF Goto
<1>8. Lists(writerQueue, pc, "blockWriter") /\ Lists(readerQueue, pc, "blockReader")
  BY DEF LockInv, ListsOK
<1>9. Lists(writerQueue', pc', "blockWriter") /\ Lists(readerQueue', pc', "blockReader")
  <2>1. CASE w = "waitWriter"
    <3>1. Lists(Unlink(writerQueue, t), [pc EXCEPT ![t] = w], "blockWriter")
      BY <1>2, <1>3, <1>8, <2>1, ListsUnlink
    <3>2. Lists(readerQueue, [pc EXCEPT ![t] = w], "blockReader")
      BY <1>1, <1>2, <1>3, <1>8, <2>1, ListsKept
    <3> QED BY <1>1, <1>7, <2>1, <3>1, <3>2
  <2>2. CASE w = "waitReader"
    <3>1. Lists(Unlink(readerQueue, t), [pc EXCEPT ![t] = w], "blockReader")
      BY <1>2, <1>3, <1>8, <2>2, ListsUnlink
    <3>2. Lists(writerQueue, [pc EXCEPT ![t] = w], "blockWriter")
      BY <1>1, <1>2, <1>3, <1>8, <2>2, ListsKept
    <3> QED BY <1>1, <1>7, <2>2, <3>1, <3>2
  <2> QED BY <2>1, <2>2
<1>10. /\ WriterEvent' = 1 => writerQueue' = <<>>
       /\ ReaderSemaphore' > 0 => readerQueue' = <<>>
  <2>1. Unlink(<<>>, t) = <<>>
    BY DEF Unlink, Range
  <2> QED BY <1>1, <2>1 DEF LockInv, ListsOK
<1>11. ListsOK'
  BY <1>9, <1>10 DEF ListsOK
<1>12. TypeOK'
  BY <1>1, <1>2, <1>3, <1>9, Moved DEF LockInv, TypeOK, lockVars, Lists
<1> QED BY <1>4, <1>6, <1>11, <1>12 DEF LockInv

(* The right to write goes to the first waiting writer, or stays in the    *)
(* event.                                                                  *)
LEMMA SetWriterEventStep ==
    ASSUME LockInv, NEW t \in Thread, SetWriterEvent(t)
    PROVE  LockInv'
<1>1. /\ pc[t] = "setEvent"
      /\ UNCHANGED <<lockVars, ReaderSemaphore, readerQueue, grant, apcs>>
  BY DEF SetWriterEvent
<1>2. /\ pc \in [Thread -> Where] /\ Integral /\ CountsAgree /\ OneKind
      /\ Lists(writerQueue, pc, "blockWriter") /\ Lists(readerQueue, pc, "blockReader")
  BY IntegersAre DEF LockInv, TypeOK, ListsOK
<1>3. "exclusive" \in Where /\ "idle" \in Where
  BY DEF Where
<1>4. Handing > 0
  BY <1>1, Counted DEF Handing
<1>5. Owning = 0 /\ Handing = 1 /\ WriterEvent = 0
  BY <1>2, <1>4 DEF Integral, OneKind
<1>6. CASE writerQueue = <<>>
  <2>1. WriterEvent' = 1 /\ Goto(t, "idle") /\ writerQueue' = <<>>
    BY <1>6 DEF SetWriterEvent
  <2>2. Coming' = Coming /\ OneRelease'
    BY <1>1, <1>3, <2>1, ReleaseKept
  <2>3. /\ Owning' = Owning /\ Sharing' = Sharing /\ Handing' = 0
        /\ WaitingWriters' = WaitingWriters /\ WaitingReaders' = WaitingReaders
    <3>1. Shift("setEvent", "idle")
      BY <1>1, <1>2, <1>3, <1>5, <2>1, Moved
    <3> QED BY <1>1, <1>2, <1>3, <1>5, <2>1, <3>1 DEF Shift, Is, Integral
  <2>4. CountsAgree' /\ OneKind'
    BY <1>1, <1>2, <1>5, <2>1, <2>2, <2>3 DEF Integral, CountsAgree, OneKind, lockVars
  <2>5. TypeOK'
    BY <1>1, <1>3, <2>1, Moved DEF LockInv, TypeOK, lockVars
  <2>6. pc' = [pc EXCEPT ![t] = "idle"]
    BY <2>1 DEF Goto
  <2>7. Lists(writerQueue, pc', "blockWriter") /\ Lists(readerQueue, pc', "blockReader")
    BY <1>1, <1>2, <1>3, <2>6, ListsKept
  <2>8. ListsOK'
    BY <1>1, <1>6, <2>1, <2>7 DEF LockInv, ListsOK
  <2> QED BY <2>2, <2>4, <2>5, <2>8 DEF LockInv
<1>7. CASE writerQueue # <<>>
  <2> DEFINE h == Head(writerQueue)
             rest == Tail(writerQueue)
             left == [pc EXCEPT ![t] = "idle"]
  <2>1. /\ rest \in Seq(Thread) /\ h \in Thread /\ IsInjective(rest)
        /\ h \in Range(writerQueue) /\ Range(rest) = Range(writerQueue) \ {h}
    BY <1>2, <1>7, TailScans DEF Lists
  <2>2. /\ writerQueue' = rest /\ WriterEvent' = WriterEvent
        /\ pc' = [pc EXCEPT ![t] = "idle", ![h] = "exclusive"]
    BY <1>7 DEF SetWriterEvent
  <2>3. pc[h] = "blockWriter" /\ h # t
    BY <1>1, <1>2, <2>1 DEF Lists
  <2> HIDE DEF h, rest
  <2>4. /\ left \in [Thread -> Where] /\ left[h] = "blockWriter"
        /\ pc' = [left EXCEPT ![h] = "exclusive"]
    BY <1>2, <1>3, <2>1, <2>2, <2>3
  <2>5. \A places : NumberOf(left, places) =
                        NumberOf(pc, places) - Is("setEvent", places) + Is("idle", places)
    <3> SUFFICES ASSUME NEW places
                 PROVE  NumberOf(left, places) =
                            NumberOf(pc, places) - Is("setEvent", places) + Is("idle", places)
      OBVIOUS
    <3>1. NumberOf(left, places) = NumberOf(pc, places) - Is(pc[t], places) + Is("idle", places)
      BY <1>2, <1>3, NumberAfterMove, Zenon
    <3> QED BY <1>1, <3>1, Zenon
  <2> HIDE DEF left
  <2>6. \A places : NumberOf(pc', places) =
                        NumberOf(left, places) - Is("blockWriter", places) + Is("exclusive", places)
    <3> SUFFICES ASSUME NEW places
                 PROVE  NumberOf(pc', places) = NumberOf(left, places) - Is("blockWriter", places)
                                                    + Is("exclusive", places)
      OBVIOUS
    <3>1. NumberOf([left EXCEPT ![h] = "exclusive"], places) =
              NumberOf(left, places) - Is(left[h], places) + Is("exclusive", places)
      BY <1>3, <2>1, <2>4, NumberAfterMove, Zenon
    <3> QED BY <2>4, <3>1, Zenon
  <2>7. /\ Owning' = 1 /\ Sharing' = Sharing /\ Handing' = 0
        /\ WaitingWriters' = WaitingWriters - 1 /\ WaitingReaders' = WaitingReaders
    <3>1. Owning' = 1
      BY <1>2, <1>5, <2>5, <2>6 DEF Owning, Is, Integral
    <3>2. Sharing' = Sharing
      BY <1>2, <2>5, <2>6 DEF Sharing, Is, Integral
    <3>3. Handing' = 0
      BY <1>2, <1>5, <2>5, <2>6 DEF Handing, Is, Integral
    <3>4. WaitingWriters' = WaitingWriters - 1
      BY <1>2, <2>5, <2>6 DEF WaitingWriters, Is, Integral
    <3>5. WaitingReaders' = WaitingReaders
      BY <1>2, <2>5, <2>6 DEF WaitingReaders, Is, Integral
    <3> QED BY <3>1, <3>2, <3>3, <3>4, <3>5
  <2>8. /\ pc' \in [Thread -> Where]
        /\ \A u \in Thread : pc'[u] = IF u = h THEN "exclusive"
                                      ELSE IF u = t THEN "idle" ELSE pc[u]
    BY <1>2, <1>3, <2>1, <2>2, <2>3
  <2>9. Coming' = Coming
    <3>1. \A u \in Thread : pc[u] = "releaseSem" <=> pc'[u] = "releaseSem"
      BY <1>1, <2>3, <2>8
    <3> QED BY <1>1, <3>1, SameReleases DEF Coming
  <2>10. OneRelease'
    BY <1>1, <2>8 DEF LockInv, OneRelease
  <2>11. CountsAgree' /\ OneKind'
    BY <1>1, <1>2, <1>5, <2>2, <2>7, <2>9 DEF Integral, CountsAgree, OneKind, lockVars
  <2>12. TypeOK'
    BY <1>1, <2>1, <2>2, <2>8 DEF LockInv, TypeOK, lockVars
  <2>13. Lists(writerQueue', pc', "blockWriter")
    BY <1>1, <1>2, <2>1, <2>2, <2>3, <2>8 DEF Lists
  <2>14. Lists(readerQueue, pc', "blockReader")
    BY <1>1, <1>2, <2>3, <2>8 DEF Lists
  <2>15. ListsOK'
    BY <1>1, <1>5, <2>2, <2>13, <2>14 DEF LockInv, ListsOK
  <2> QED BY <2>9, <2>10, <2>11, <2>12, <2>15 DEF LockInv
<1> QED BY <1>6, <1>7

-----------------------------------------------------------------------------
(* The release of the semaphore wakes the first of its waiters.            *)

LEMMA FirstWaiters ==
    ASSUME NEW q \in Seq(Thread), IsInjective(q), NEW n \in Nat, n <= Len(q)
    PROVE  LET wake == {q[i] : i \in 1..n}
               rest == SubSeq(q, n + 1, Len(q))
           IN  /\ wake \in SUBSET Range(q)
               /\ IsFiniteSet(wake) /\ Cardinality(wake) = n
               /\ rest \in Seq(Thread) /\ IsInjective(rest)
               /\ Range(rest) = Range(q) \ wake
               /\ n = Len(q) => rest = <<>>
<1> DEFINE wake == {q[i] : i \in 1..n}
           rest == SubSeq(q, n + 1, Len(q))
           b == [i \in 1..n |-> q[i]]
<1>1. DOMAIN q = 1..Len(q) /\ Len(q) \in Nat /\ 1..n \subseteq 1..Len(q)
  OBVIOUS
<1>2. wake \in SUBSET Range(q)
  BY <1>1 DEF Range
<1>3. b \in Bijection(1..n, wake)
  BY <1>1 DEF IsInjective, Bijection, Injection, Surjection
<1>4. ExistsBijection(1..n, wake)
  BY <1>3 DEF ExistsBijection
<1>5. IsFiniteSet(wake) /\ Cardinality(wake) = n
  BY <1>4, FS_CountingElements, FS_NatBijection
<1>6. /\ rest \in Seq(Thread) /\ Len(rest) = Len(q) - n
      /\ \A i \in 1..(Len(q) - n) : rest[i] = q[i + n]
  BY <1>1
<1> HIDE DEF rest
<1> DOMAIN rest = 1..(Len(q) - n)
  BY <1>6
<1>7. IsInjective(rest)
  <2> SUFFICES ASSUME NEW i \in 1..(Len(q) - n), NEW j \in 1..(Len(q) - n), rest[i] = rest[j]
               PROVE  i = j
    BY DEF IsInjective
  <2>1. q[i + n] = q[j + n] /\ i + n \in DOMAIN q /\ j + n \in DOMAIN q
    BY <1>1, <1>6
  <2>2. i + n = j + n
    BY <2>1 DEF IsInjective
  <2> QED BY <1>1, <2>2
<1>8. Range(rest) = Range(q) \ wake
  <2>1. ASSUME NEW x \in Range(rest) PROVE x \in Range(q) \ wake
    <3>1. PICK i \in 1..(Len(q) - n) : x = q[i + n]
      BY <1>6 DEF Range
    <3>2. i + n \in DOMAIN q /\ ~(i + n \in 1..n)
      BY <1>1
    <3>3. x \notin wake
      BY <1>1, <3>1, <3>2 DEF IsInjective
    <3> QED BY <3>1, <3>2, <3>3 DEF Range
  <2>2. ASSUME NEW x \in Range(q) \ wake PROVE x \in Range(rest)
    <3>1. PICK i \in 1..Len(q) : x = q[i]
      BY <1>1 DEF Range
    <3>2. ~(i \in 1..n)
      BY <3>1
    <3>3. i - n \in 1..(Len(q) - n) /\ (i - n) + n = i
      BY <1>1, <3>2
    <3>4. rest[i - n] = x /\ i - n \in DOMAIN rest
      BY <1>6, <3>1, <3>3
    <3> QED BY <3>4 DEF Range
  <2> QED BY <2>1, <2>2
<1>9. n = Len(q) => rest = <<>>
  BY <1>1, <1>6
<1> QED BY <1>2, <1>5, <1>6, <1>7, <1>8, <1>9 DEF rest

(* Some threads at one place all go to another, and one goes home. *)
LEMMA NumbersAfterWake ==
    ASSUME NEW f \in [Thread -> Where], NEW t \in Thread, f[t] = "releaseSem",
           NEW wake \in SUBSET Thread, \A u \in wake : f[u] = "blockReader",
           NEW g, g = [u \in Thread |-> IF u = t THEN "idle"
                                        ELSE IF u \in wake THEN "shared" ELSE f[u]]
    PROVE  /\ NumberOf(g, {"exclusive"}) = NumberOf(f, {"exclusive"})
           /\ NumberOf(g, {"setEvent"}) = NumberOf(f, {"setEvent"})
           /\ NumberOf(g, {"waitWriter", "blockWriter"}) =
                  NumberOf(f, {"waitWriter", "blockWriter"})
           /\ NumberOf(g, {"shared"}) = NumberOf(f, {"shared"}) + Cardinality(wake)
           /\ NumberOf(f, {"waitReader", "blockReader"}) =
                  NumberOf(g, {"waitReader", "blockReader"}) + Cardinality(wake)
<1>1. \A u \in Thread : g[u] = IF u = t THEN "idle" ELSE IF u \in wake THEN "shared" ELSE f[u]
  OBVIOUS
<1>2. t \notin wake
  OBVIOUS
<1>3. IsFiniteSet(wake)
  BY FS_Subset, FatxLocksAssumption
<1>4. {u \in Thread : g[u] \in {"exclusive"}} = {u \in Thread : f[u] \in {"exclusive"}}
  BY <1>1
<1>5. {u \in Thread : g[u] \in {"setEvent"}} = {u \in Thread : f[u] \in {"setEvent"}}
  BY <1>1
<1>6. {u \in Thread : g[u] \in {"waitWriter", "blockWriter"}}
          = {u \in Thread : f[u] \in {"waitWriter", "blockWriter"}}
  BY <1>1
<1> DEFINE before == {u \in Thread : f[u] \in {"shared"}}
           after  == {u \in Thread : g[u] \in {"shared"}}
           asked  == {u \in Thread : f[u] \in {"waitReader", "blockReader"}}
           asking == {u \in Thread : g[u] \in {"waitReader", "blockReader"}}
<1>7. after = before \cup wake /\ before \cap wake = {}
  BY <1>1, <1>2
<1>8. asked = asking \cup wake /\ asking \cap wake = {}
  BY <1>1, <1>2
<1>9. IsFiniteSet(before) /\ IsFiniteSet(asking)
  BY FS_Subset, FatxLocksAssumption
<1> HIDE DEF before, after, asked, asking
<1>10. Cardinality(after) = Cardinality(before) + Cardinality(wake)
  <2>1. Cardinality(before \cup wake) =
            Cardinality(before) + Cardinality(wake) - Cardinality(before \cap wake)
    BY <1>3, <1>9, FS_Union
  <2>2. Cardinality(before \cap wake) = 0
    BY <1>7, FS_EmptySet
  <2>3. Cardinality(before) \in Nat /\ Cardinality(wake) \in Nat
    BY <1>3, <1>9, FS_CardinalityType
  <2> QED BY <1>7, <2>1, <2>2, <2>3
<1>11. Cardinality(asked) = Cardinality(asking) + Cardinality(wake)
  <2>1. Cardinality(asking \cup wake) =
            Cardinality(asking) + Cardinality(wake) - Cardinality(asking \cap wake)
    BY <1>3, <1>9, FS_Union
  <2>2. Cardinality(asking \cap wake) = 0
    BY <1>8, FS_EmptySet
  <2>3. Cardinality(asking) \in Nat /\ Cardinality(wake) \in Nat
    BY <1>3, <1>9, FS_CardinalityType
  <2> QED BY <1>8, <2>1, <2>2, <2>3
<1>12. /\ NumberOf(g, {"shared"}) = NumberOf(f, {"shared"}) + Cardinality(wake)
       /\ NumberOf(f, {"waitReader", "blockReader"}) =
              NumberOf(g, {"waitReader", "blockReader"}) + Cardinality(wake)
  BY <1>10, <1>11, Zenon DEF NumberOf, before, after, asked, asking
<1>13. /\ NumberOf(g, {"exclusive"}) = NumberOf(f, {"exclusive"})
       /\ NumberOf(g, {"setEvent"}) = NumberOf(f, {"setEvent"})
       /\ NumberOf(g, {"waitWriter", "blockWriter"}) =
              NumberOf(f, {"waitWriter", "blockWriter"})
  BY <1>4, <1>5, <1>6, Zenon DEF NumberOf
<1> QED BY <1>12, <1>13

(* What the releasing thread knows, and what it does. *)
LEMMA ReleaseReadersFacts ==
    ASSUME LockInv, NEW t \in Thread, ReleaseReaderSemaphore(t)
    PROVE  \E wake \in SUBSET Thread, n \in Nat :
              /\ IsFiniteSet(wake) /\ Cardinality(wake) = n
              /\ n <= grant[t] /\ Coming = grant[t] /\ ReaderSemaphore = 0
              /\ \A u \in wake : pc[u] = "blockReader"
              /\ pc[t] = "releaseSem"
              /\ ReaderSemaphore' = grant[t] - n
              /\ grant' = [grant EXCEPT ![t] = 0]
              /\ pc' = [u \in Thread |-> IF u = t THEN "idle"
                                         ELSE IF u \in wake THEN "shared" ELSE pc[u]]
              /\ readerQueue' \in Seq(Thread) /\ IsInjective(readerQueue')
              /\ Range(readerQueue') = Range(readerQueue) \ wake
              /\ ReaderSemaphore' > 0 => readerQueue' = <<>>
              /\ UNCHANGED <<lockVars, WriterEvent, writerQueue, apcs>>
<1> DEFINE total == ReaderSemaphore + grant[t]
           n     == IF total < Len(readerQueue) THEN total ELSE Len(readerQueue)
           wake  == {readerQueue[i] : i \in 1..n}
           rest  == SubSeq(readerQueue, n + 1, Len(readerQueue))
<1>1. /\ pc[t] = "releaseSem" /\ ReaderSemaphore' = total - n /\ readerQueue' = rest
      /\ pc' = [u \in Thread |-> IF u = t THEN "idle"
                                 ELSE IF u \in wake THEN "shared" ELSE pc[u]]
      /\ grant' = [grant EXCEPT ![t] = 0]
      /\ UNCHANGED <<lockVars, WriterEvent, writerQueue, apcs>>
  BY DEF ReleaseReaderSemaphore
<1>2. /\ ReaderSemaphore = 0 /\ grant[t] \in Nat /\ grant[t] > 0
      /\ Lists(readerQueue, pc, "blockReader")
  BY <1>1 DEF LockInv, OneRelease, TypeOK, ListsOK
<1>3. Coming = grant[t]
  BY <1>1, AwaitedIs
<1>4. readerQueue \in Seq(Thread) /\ IsInjective(readerQueue) /\ Len(readerQueue) \in Nat
  BY <1>2 DEF Lists
<1>5. total = grant[t] /\ n \in Nat /\ n <= Len(readerQueue) /\ n <= grant[t]
      /\ (grant[t] - n > 0 => n = Len(readerQueue))
  BY <1>2, <1>4
<1> HIDE DEF n, total
<1>6. /\ wake \in SUBSET Range(readerQueue)
      /\ IsFiniteSet(wake) /\ Cardinality(wake) = n
      /\ rest \in Seq(Thread) /\ IsInjective(rest)
      /\ Range(rest) = Range(readerQueue) \ wake
      /\ n = Len(readerQueue) => rest = <<>>
  BY <1>4, <1>5, FirstWaiters
<1> HIDE DEF wake, rest
<1>7. wake \in SUBSET Thread /\ \A u \in wake : pc[u] = "blockReader"
  <2>1. Range(readerQueue) \subseteq Thread
    BY <1>4 DEF Range
  <2> QED BY <1>2, <1>6, <2>1 DEF Lists
<1>8. /\ ReaderSemaphore' = grant[t] - n
      /\ readerQueue' \in Seq(Thread) /\ IsInjective(readerQueue')
      /\ Range(readerQueue') = Range(readerQueue) \ wake
      /\ ReaderSemaphore' > 0 => readerQueue' = <<>>
  BY <1>1, <1>5, <1>6
<1> QED BY <1>1, <1>2, <1>3, <1>5, <1>6, <1>7, <1>8

(* The readers of a release come in, and what is left is in the semaphore. *)
LEMMA ReleaseReadersStep ==
    ASSUME LockInv, NEW t \in Thread, ReleaseReaderSemaphore(t)
    PROVE  LockInv'
<1>1. PICK wake \in SUBSET Thread, n \in Nat :
          /\ IsFiniteSet(wake) /\ Cardinality(wake) = n
          /\ n <= grant[t] /\ Coming = grant[t] /\ ReaderSemaphore = 0
          /\ \A u \in wake : pc[u] = "blockReader"
          /\ pc[t] = "releaseSem"
          /\ ReaderSemaphore' = grant[t] - n
          /\ grant' = [grant EXCEPT ![t] = 0]
          /\ pc' = [u \in Thread |-> IF u = t THEN "idle"
                                     ELSE IF u \in wake THEN "shared" ELSE pc[u]]
          /\ readerQueue' \in Seq(Thread) /\ IsInjective(readerQueue')
          /\ Range(readerQueue') = Range(readerQueue) \ wake
          /\ ReaderSemaphore' > 0 => readerQueue' = <<>>
          /\ UNCHANGED <<lockVars, WriterEvent, writerQueue, apcs>>
  BY ReleaseReadersFacts
<1>2. pc \in [Thread -> Where] /\ Integral /\ CountsAgree /\ OneKind
  BY IntegersAre DEF LockInv, TypeOK
<1>3. /\ Owning' = Owning /\ Handing' = Handing /\ WaitingWriters' = WaitingWriters
      /\ Sharing' = Sharing + n /\ WaitingReaders = WaitingReaders' + n
  <2>1. /\ NumberOf(pc', {"exclusive"}) = NumberOf(pc, {"exclusive"})
        /\ NumberOf(pc', {"setEvent"}) = NumberOf(pc, {"setEvent"})
        /\ NumberOf(pc', {"waitWriter", "blockWriter"}) =
               NumberOf(pc, {"waitWriter", "blockWriter"})
        /\ NumberOf(pc', {"shared"}) = NumberOf(pc, {"shared"}) + Cardinality(wake)
        /\ NumberOf(pc, {"waitReader", "blockReader"}) =
               NumberOf(pc', {"waitReader", "blockReader"}) + Cardinality(wake)
    BY <1>1, <1>2, NumbersAfterWake
  <2> QED BY <1>1, <2>1, Zenon
          DEF Owning, Handing, WaitingWriters, Sharing, WaitingReaders
<1>4. \A u \in Thread : pc'[u] = IF u = t THEN "idle"
                                 ELSE IF u \in wake THEN "shared" ELSE pc[u]
  BY <1>1
<1>5. \A u \in Thread : pc'[u] # "releaseSem"
  BY <1>1, <1>4 DEF LockInv, OneRelease
<1>6. Coming' = 0
  BY <1>5, NobodyReleases DEF Coming
<1>7. WaitingReaders' \in Nat
  BY Numbers DEF WaitingReaders
<1>8. /\ ReaderSemaphore = 0 /\ ReaderSemaphore' = Coming - n /\ ReaderSemaphore' \in Nat
      /\ WriterEvent' = WriterEvent
      /\ UNCHANGED <<LockCount, WritersWaitingCount, ReadersWaitingCount, ReadersEntryCount>>
  BY <1>1, <1>2 DEF Integral, lockVars
<1>9. CountsAgree' /\ OneKind'
  <2>1. WaitingReaders' = WaitingReaders - n
    <3>1. PICK w \in Nat : WaitingReaders' = w
      BY <1>7
    <3>2. WaitingReaders \in Nat /\ WaitingReaders = w + n
      BY <1>2, <1>3, <3>1 DEF Integral
    <3>3. w = WaitingReaders - n
      BY <3>2
    <3> QED BY <3>1, <3>3
  <2>2. Owning' + Handing' + WriterEvent' = Owning + Handing + WriterEvent
    BY <1>3, <1>8
  <2>3. LockCount' + 1 = Owning' + Sharing' + WaitingWriters' + WaitingReaders'
    <3>1. /\ LockCount \in Int /\ Owning \in Nat /\ Sharing \in Nat
          /\ WaitingWriters \in Nat /\ WaitingReaders \in Nat
          /\ LockCount + 1 = Owning + Sharing + WaitingWriters + WaitingReaders
      BY <1>2 DEF Integral, CountsAgree
    <3>2. LockCount + 1 = Owning + (Sharing + n) + WaitingWriters + (WaitingReaders - n)
      BY <3>1
    <3> QED BY <1>3, <1>8, <2>1, <3>2
  <2>4. ReadersWaitingCount' + ReaderSemaphore' + Coming' = WaitingReaders'
    <3>1. /\ ReadersWaitingCount \in Int /\ Coming \in Nat /\ WaitingReaders \in Nat
          /\ ReadersWaitingCount + Coming = WaitingReaders
      BY <1>2, <1>8 DEF Integral, CountsAgree
    <3>2. ReadersWaitingCount + (Coming - n) + 0 = WaitingReaders - n
      BY <3>1
    <3> QED BY <1>6, <1>8, <2>1, <3>2
  <2>5. ReadersEntryCount' = Sharing' + ReaderSemaphore' + Coming'
    BY <1>2, <1>3, <1>6, <1>8 DEF Integral, CountsAgree
  <2>6. CountsAgree'
    BY <1>2, <1>3, <1>8, <2>3, <2>4, <2>5 DEF CountsAgree
  <2>7. WaitingReaders = 0 => WaitingReaders' = 0
    BY <1>2, <1>7, <2>1 DEF Integral
  <2>8. OneKind'
    BY <1>2, <1>3, <1>8, <2>2, <2>7 DEF OneKind
  <2> QED BY <2>6, <2>8
<1>10. OneRelease'
  BY <1>5 DEF OneRelease
<1>11. TypeOK'
  BY <1>1, <1>2, <1>4, <1>8 DEF LockInv, TypeOK, lockVars, Where
<1>12. Lists(writerQueue', pc', "blockWriter")
  BY <1>1, <1>4 DEF LockInv, ListsOK, Lists
<1>13. Lists(readerQueue', pc', "blockReader")
  BY <1>1, <1>4 DEF LockInv, ListsOK, Lists
<1>14. ListsOK'
  BY <1>1, <1>8, <1>12, <1>13 DEF LockInv, ListsOK
<1> QED BY <1>9, <1>10, <1>11, <1>14 DEF LockInv

-----------------------------------------------------------------------------
(* The two locks together.                                                 *)

LEMMA InitLock == Init => LockInv
<1> SUFFICES ASSUME Init PROVE LockInv
  OBVIOUS
<1>1. \A t \in Thread : pc[t] = "idle"
  BY DEF Init
<1>2. Coming = 0
  BY <1>1, NobodyReleases DEF Coming
<1>3. /\ Owning = 0 /\ Sharing = 0 /\ WaitingWriters = 0 /\ WaitingReaders = 0
      /\ Handing = 0
  BY <1>1, Numbers DEF Owning, Sharing, WaitingWriters, WaitingReaders, Handing
<1>4. TypeOK
  BY DEF Init, TypeOK, Where
<1>5. CountsAgree /\ OneKind
  BY <1>2, <1>3 DEF Init, CountsAgree, OneKind
<1>6. OneRelease
  BY <1>1 DEF OneRelease
<1>7. ListsOK
  BY <1>1 DEF Init, ListsOK, Lists, IsInjective, Range
<1> QED BY <1>4, <1>5, <1>6, <1>7 DEF LockInv

LEMMA LockUnchanged ==
    ASSUME LockInv, UNCHANGED volumeVars, apcs' \in Nat
    PROVE  LockInv'
BY DEF LockInv, TypeOK, CountsAgree, OneKind, OneRelease, ListsOK, volumeVars, Coming,
       Owning, Sharing, WaitingWriters, WaitingReaders, Handing

LEMMA LockStep == LockInv /\ [LocksNext]_locksVars => LockInv'
<1> SUFFICES ASSUME LockInv, [LocksNext]_locksVars PROVE LockInv'
  OBVIOUS
<1>1. apcs \in Nat
  BY DEF LockInv, TypeOK
<1>2. CASE UNCHANGED locksVars
  BY <1>1, <1>2, LockUnchanged DEF locksVars
<1>3. ASSUME NEW t \in Thread, Volume(t) PROVE LockInv'
  BY <1>3, AcquireExclusiveStep, AcquireSharedStep, ReleaseStep, ReleaseToReadersStep,
     WaitWriterStep, WaitReaderStep, SetWriterEventStep, ReleaseReadersStep
  DEF Volume, Wait, Signal
<1>4. ASSUME NEW t \in Thread, ClusterCache(t) PROVE LockInv'
  BY <1>1, <1>4, LockUnchanged DEF ClusterCache
<1>5. ASSUME NEW t \in Thread, LocksApc(t) PROVE LockInv'
  BY <1>1, <1>5, LockUnchanged, LockApcStep DEF LocksApc
<1> QED BY <1>2, <1>3, <1>4, <1>5 DEF LocksNext

LEMMA InitLocks == LocksInit => LockInv /\ SectionInv
BY InitLock, InitSection DEF LocksInit

(* Around the section nothing happens to it: what it is proved to do alone *)
(* it does inside the volume lock.                                         *)
LEMMA SectionAlone == [LocksNext]_locksVars => [SectionNext]_sectionVars
<1> SUFFICES ASSUME [LocksNext]_locksVars PROVE [SectionNext]_sectionVars
  OBVIOUS
<1>1. CASE UNCHANGED locksVars
  BY <1>1 DEF locksVars
<1>2. ASSUME NEW t \in Thread, Volume(t) PROVE UNCHANGED sectionVars
  BY <1>2 DEF Volume
<1>3. ASSUME NEW t \in Thread, ClusterCache(t) PROVE SectionNext
  BY <1>3 DEF ClusterCache, SectionNext
<1>4. ASSUME NEW t \in Thread, LocksApc(t) PROVE [SectionNext]_sectionVars
  BY <1>4 DEF LocksApc, SectionNext
<1> QED BY <1>1, <1>2, <1>3, <1>4 DEF LocksNext

(* ClusterCacheMutex excludes and counts its owner inside the volume lock  *)
(* too, where several readers of the volume come to it at once (fcbsup.c). *)
THEOREM CacheMutexExcludes == LocksSpec => []SectionOwned
<1>1. SectionInv => SectionOwned
  BY DEF SectionInv, CountInv, SectionType, OneToken, Ownership, Token, SectionOwned
<1> QED BY <1>1, InitLocks, SectionAlone, SectionStep, PTL DEF LocksSpec

-----------------------------------------------------------------------------
LEMMA InIsNumber == \A places : Cardinality(In(places)) = NumberOf(pc, places)
BY Zenon DEF In, NumberOf

LEMMA InIsEmpty == \A places : In(places) # {} <=> \E t \in Thread : pc[t] \in places
BY DEF In

LEMMA LockInvCounts == ASSUME LockInv PROVE CountsOK
<1>1. TypeOK /\ Integral /\ CountsAgree
  BY IntegersAre DEF LockInv
<1>2. NumberOf(pc, Where \ {"idle", "setEvent", "releaseSem"}) =
          Owning + Sharing + WaitingWriters + WaitingReaders
  <2> DEFINE A == {"exclusive"}
             B == {"shared"}
             C == {"waitWriter", "blockWriter"}
             D == {"waitReader", "blockReader"}
  <2>1. Where \ {"idle", "setEvent", "releaseSem"} = ((A \cup B) \cup C) \cup D
    BY DEF Where
  <2>2. A \cap B = {} /\ (A \cup B) \cap C = {} /\ ((A \cup B) \cup C) \cap D = {}
    OBVIOUS
  <2>3. Owning = NumberOf(pc, A) /\ Sharing = NumberOf(pc, B)
        /\ WaitingWriters = NumberOf(pc, C) /\ WaitingReaders = NumberOf(pc, D)
    BY Zenon DEF Owning, Sharing, WaitingWriters, WaitingReaders
  <2> HIDE DEF A, B, C, D
  <2>4. NumberOf(pc, A \cup B) = NumberOf(pc, A) + NumberOf(pc, B)
    BY <2>2, NumberOfBoth
  <2>5. NumberOf(pc, (A \cup B) \cup C) = NumberOf(pc, A \cup B) + NumberOf(pc, C)
    BY <2>2, NumberOfBoth
  <2>6. NumberOf(pc, ((A \cup B) \cup C) \cup D) =
            NumberOf(pc, (A \cup B) \cup C) + NumberOf(pc, D)
    BY <2>2, NumberOfBoth
  <2> QED BY <2>1, <2>3, <2>4, <2>5, <2>6
<1>3. /\ Cardinality(In(Where \ {"idle", "setEvent", "releaseSem"})) =
             Owning + Sharing + WaitingWriters + WaitingReaders
      /\ Cardinality(In({"setEvent"})) = Handing
      /\ Cardinality(In({"shared"})) = Sharing
      /\ Cardinality(In({"waitWriter", "blockWriter"})) = WaitingWriters
      /\ Cardinality(In({"waitReader", "blockReader"})) = WaitingReaders
  BY <1>2, InIsNumber, Zenon DEF Handing, Sharing, WaitingWriters, WaitingReaders
<1>4. /\ Cardinality(Readers) = Sharing /\ Cardinality(QueuedWriters) = WaitingWriters
      /\ Cardinality(QueuedReaders) = WaitingReaders
  BY <1>3, Zenon DEF Readers, QueuedWriters, QueuedReaders
<1>5. WriterGrants = WriterEvent + Handing
  BY <1>3 DEF WriterGrants
<1>6. ReaderGrants = ReaderSemaphore + Coming
  BY GrantsAre
<1>7. /\ LockCount + 1 = Cardinality(In(Where \ {"idle", "setEvent", "releaseSem"}))
      /\ WritersWaitingCount + WriterGrants = Cardinality(QueuedWriters)
      /\ ReadersWaitingCount + ReaderGrants = Cardinality(QueuedReaders)
      /\ ReadersEntryCount = Cardinality(Readers) + ReaderGrants
      /\ WritersWaitingCount >= 0 /\ ReadersWaitingCount >= 0
  <2>1. WritersWaitingCount + (WriterEvent + Handing) = WaitingWriters
    BY <1>1 DEF Integral, CountsAgree
  <2>2. ReadersWaitingCount + (ReaderSemaphore + Coming) = WaitingReaders
    BY <1>1 DEF Integral, CountsAgree
  <2>3. ReadersEntryCount = Sharing + (ReaderSemaphore + Coming)
    BY <1>1 DEF Integral, CountsAgree
  <2> QED BY <1>1, <1>3, <1>4, <1>5, <1>6, <2>1, <2>2, <2>3 DEF CountsAgree
<1> QED BY <1>1, <1>7 DEF CountsOK

LEMMA SomebodyComes == ASSUME LockInv PROVE NoStrandedWaiter
<1>1. TypeOK /\ Integral /\ CountsAgree /\ OneKind /\ ListsOK
  BY IntegersAre DEF LockInv
<1> DEFINE waits == QueuedWriters \cup QueuedReaders # {}
           comes == \/ In({"exclusive", "shared", "setEvent", "releaseSem"}) # {}
                    \/ WriterEvent = 1 /\ In({"waitWriter"}) # {}
                    \/ ReaderSemaphore > 0 /\ In({"waitReader"}) # {}
<1>2. ASSUME waits PROVE comes
  <2>1. ~(WaitingWriters = 0 /\ WaitingReaders = 0)
    <3>1. PICK t \in Thread : pc[t] \in {"waitWriter", "blockWriter"}
                              \/ pc[t] \in {"waitReader", "blockReader"}
      BY <1>2 DEF QueuedWriters, QueuedReaders, In
    <3>2. WaitingWriters > 0 \/ WaitingReaders > 0
      BY <3>1, Counted DEF WaitingWriters, WaitingReaders
    <3> QED BY <3>2
  <2>2. Owning > 0 \/ Handing > 0 \/ WriterEvent = 1 \/ ReadersEntryCount # 0
    BY <1>1, <2>1 DEF Integral, OneKind
  <2>3. CASE Owning > 0 \/ Handing > 0 \/ Sharing > 0
    <3>1. \E t \in Thread : pc[t] \in {"exclusive", "shared", "setEvent", "releaseSem"}
      BY <2>3, SomeCounted DEF Owning, Handing, Sharing
    <3> QED BY <3>1, InIsEmpty
  <2>4. CASE WriterEvent = 1
    <3>1. WaitingWriters > 0
      BY <1>1, <2>4 DEF Integral, CountsAgree
    <3>2. PICK t \in Thread : pc[t] \in {"waitWriter", "blockWriter"}
      BY <3>1, SomeCounted DEF WaitingWriters
    <3>3. pc[t] # "blockWriter"
      BY <1>1, <2>4 DEF ListsOK, Lists, Range
    <3>4. pc[t] \in {"waitWriter"}
      BY <3>2, <3>3
    <3> QED BY <2>4, <3>4, InIsEmpty
  <2>5. CASE ReadersEntryCount # 0 /\ ~(Sharing > 0)
    <3>1. ReaderSemaphore > 0 \/ Coming > 0
      BY <1>1, <2>5 DEF Integral, CountsAgree
    <3>2. CASE Coming > 0
      <4>1. \E t \in Thread : pc[t] = "releaseSem"
        BY <3>2, NobodyReleases DEF Coming
      <4> QED BY <4>1, InIsEmpty
    <3>3. CASE ReaderSemaphore > 0
      <4>1. WaitingReaders > 0
        BY <1>1, <3>3 DEF Integral, CountsAgree
      <4>2. PICK t \in Thread : pc[t] \in {"waitReader", "blockReader"}
        BY <4>1, SomeCounted DEF WaitingReaders
      <4>3. pc[t] # "blockReader"
        BY <1>1, <3>3 DEF ListsOK, Lists, Range
      <4>4. pc[t] \in {"waitReader"}
        BY <4>2, <4>3
      <4> QED BY <3>3, <4>4, InIsEmpty
    <3> QED BY <3>1, <3>2, <3>3
  <2> QED BY <2>2, <2>3, <2>4, <2>5
<1> QED BY <1>2, LockInvCounts DEF NoStrandedWaiter

(* Whoever waits for the volume has somebody to wait for, whatever threads *)
(* ask, leave, are preempted between STI and the signal, or have a wait    *)
(* broken (rwlocka.asm, the counts and the two dispatcher objects).        *)
THEOREM NobodyIsStranded == LocksSpec => []NoStrandedWaiter
<1>1. LockInv => NoStrandedWaiter
  BY SomebodyComes
<1> QED BY <1>1, InitLocks, LockStep, PTL DEF LocksSpec

-----------------------------------------------------------------------------
(* The lock implements RwLockSpec: what each step does to the phases.      *)

PhaseAt(place) ==
    CASE place \in {"waitWriter", "blockWriter"} -> "wantsWrite"
      [] place \in {"waitReader", "blockReader"} -> "wantsRead"
      [] place = "exclusive" -> "writing"
      [] place = "shared" -> "reading"
      [] place \in {"idle", "setEvent", "releaseSem"} -> "out"

LEMMA PhaseTable ==
    /\ PhaseAt("waitWriter") = "wantsWrite" /\ PhaseAt("blockWriter") = "wantsWrite"
    /\ PhaseAt("waitReader") = "wantsRead" /\ PhaseAt("blockReader") = "wantsRead"
    /\ PhaseAt("exclusive") = "writing" /\ PhaseAt("shared") = "reading"
    /\ PhaseAt("idle") = "out" /\ PhaseAt("setEvent") = "out"
    /\ PhaseAt("releaseSem") = "out"
BY DEF PhaseAt

LEMMA PhaseIs ==
    /\ Phase = [t \in Thread |-> PhaseAt(pc[t])]
    /\ Phase' = [t \in Thread |-> PhaseAt(pc'[t])]
BY Zenon DEF Phase, PhaseAt

(* Nobody is in a phase whose places are empty. *)
LEMMA PhasesEmpty ==
    ASSUME LockInv
    PROVE  /\ Owning = 0 => Promise!Doing("writing") = {}
           /\ Sharing = 0 => Promise!Doing("reading") = {}
           /\ WaitingWriters = 0 => Promise!Doing("wantsWrite") = {}
           /\ WaitingReaders = 0 => Promise!Doing("wantsRead") = {}
<1>1. \A t \in Thread : Phase[t] = PhaseAt(pc[t]) /\ pc[t] \in Where
  BY PhaseIs DEF LockInv, TypeOK
<1>2. /\ Owning = 0 => \A t \in Thread : pc[t] \notin {"exclusive"}
      /\ Sharing = 0 => \A t \in Thread : pc[t] \notin {"shared"}
      /\ WaitingWriters = 0 => \A t \in Thread : pc[t] \notin {"waitWriter", "blockWriter"}
      /\ WaitingReaders = 0 => \A t \in Thread : pc[t] \notin {"waitReader", "blockReader"}
  BY Numbers, Zenon DEF Owning, Sharing, WaitingWriters, WaitingReaders
<1>3. \A t \in Thread : /\ Phase[t] = "writing" => pc[t] \in {"exclusive"}
                        /\ Phase[t] = "reading" => pc[t] \in {"shared"}
                        /\ Phase[t] = "wantsWrite" => pc[t] \in {"waitWriter", "blockWriter"}
                        /\ Phase[t] = "wantsRead" => pc[t] \in {"waitReader", "blockReader"}
  <2> SUFFICES ASSUME NEW t \in Thread
               PROVE  /\ Phase[t] = "writing" => pc[t] \in {"exclusive"}
                      /\ Phase[t] = "reading" => pc[t] \in {"shared"}
                      /\ Phase[t] = "wantsWrite" => pc[t] \in {"waitWriter", "blockWriter"}
                      /\ Phase[t] = "wantsRead" => pc[t] \in {"waitReader", "blockReader"}
    OBVIOUS
  <2>1. Phase[t] = PhaseAt(pc[t]) /\ pc[t] \in Where
    BY <1>1
  <2> QED BY <2>1, PhaseTable DEF Where
<1>4. \A p : Promise!Doing(p) = {t \in Thread : Phase[t] = p}
  BY DEF Promise!Doing
<1>5. \A p : Promise!Doing(p) = {} <=> \A t \in Thread : Phase[t] # p
  BY <1>4
<1> QED BY <1>2, <1>3, <1>5, Zenon

(* A thread that goes to another place, or stays in its phase. *)
LEMMA PhaseMoved ==
    ASSUME pc \in [Thread -> Where], NEW t \in Thread, NEW w \in Where, Goto(t, w)
    PROVE  /\ Phase[t] = PhaseAt(pc[t])
           /\ Promise!Become({t}, PhaseAt(w))
           /\ PhaseAt(w) = PhaseAt(pc[t]) => UNCHANGED Phase
<1>1. pc' = [pc EXCEPT ![t] = w]
  BY DEF Goto
<1>2. Phase = [u \in Thread |-> PhaseAt(pc[u])] /\ Phase' = [u \in Thread |-> PhaseAt(pc'[u])]
  BY PhaseIs
<1>3. \A u \in Thread : PhaseAt(pc'[u]) = IF u \in {t} THEN PhaseAt(w) ELSE Phase[u]
  BY <1>1, <1>2
<1>4. Promise!Become({t}, PhaseAt(w))
  BY <1>2, <1>3 DEF Promise!Become
<1>5. ASSUME PhaseAt(w) = PhaseAt(pc[t]) PROVE UNCHANGED Phase
  <2>1. \A u \in Thread : PhaseAt(pc'[u]) = PhaseAt(pc[u])
    BY <1>2, <1>3, <1>5
  <2> QED BY <1>2, <2>1
<1> QED BY <1>2, <1>4, <1>5

(* Every step of the locks is a step of the promise or none. *)
LEMMA AcquireKeepsPromise ==
    ASSUME LockInv, NEW t \in Thread, AcquireExclusive(t) \/ AcquireShared(t)
    PROVE  Promise!Next
<1>1. /\ pc \in [Thread -> Where] /\ Integral /\ CountsAgree /\ OneKind
      /\ pc[t] = "idle"
  BY IntegersAre DEF LockInv, TypeOK, AcquireExclusive, AcquireShared
<1>2. /\ "exclusive" \in Where /\ "shared" \in Where
      /\ "waitWriter" \in Where /\ "waitReader" \in Where
  BY DEF Where
<1>3. CASE Goto(t, "waitWriter") \/ Goto(t, "waitReader")
  <2>1. /\ Phase[t] = "out"
        /\ Promise!Become({t}, "wantsWrite") \/ Promise!Become({t}, "wantsRead")
    BY <1>1, <1>2, <1>3, PhaseMoved, PhaseTable
  <2>2. Promise!Ask(t)
    BY <2>1 DEF Promise!Ask
  <2> QED BY <2>2 DEF Promise!Next
<1>4. CASE AcquireExclusive(t) /\ Goto(t, "exclusive")
  <2>1. LockCount + 1 = 0
    <3>1. ~Goto(t, "waitWriter")
      BY <1>1, <1>4 DEF Goto
    <3> QED BY <1>4, <3>1 DEF AcquireExclusive
  <2>2. Owning = 0 /\ Sharing = 0 /\ WaitingWriters = 0 /\ WaitingReaders = 0
    BY <1>1, <2>1 DEF Integral, CountsAgree
  <2>3. /\ Promise!Doing("writing") = {} /\ Promise!Doing("reading") = {}
        /\ Promise!Doing("wantsWrite") = {} /\ Promise!Doing("wantsRead") = {}
    BY <2>2, PhasesEmpty
  <2>4. Phase[t] = "out" /\ Promise!Become({t}, "writing")
    BY <1>1, <1>2, <1>4, PhaseMoved, PhaseTable
  <2>5. Promise!EnterWrite(t)
    BY <2>3, <2>4 DEF Promise!EnterWrite
  <2> QED BY <2>5 DEF Promise!Next
<1>5. CASE AcquireShared(t) /\ Goto(t, "shared")
  <2>1. MayShare
    <3>1. ~Goto(t, "waitReader")
      BY <1>1, <1>5 DEF Goto
    <3> QED BY <1>5, <3>1 DEF AcquireShared
  <2>2. Owning = 0 /\ WaitingWriters = 0
    <3>1. CASE LockCount + 1 = 0
      BY <1>1, <3>1 DEF Integral, CountsAgree
    <3>2. CASE ReadersEntryCount # 0 /\ WritersWaitingCount = 0
      BY <1>1, <3>2 DEF Integral, CountsAgree, OneKind
    <3> QED BY <2>1, <3>1, <3>2 DEF MayShare
  <2>3. Promise!Doing("writing") = {} /\ Promise!Doing("wantsWrite") = {}
    BY <2>2, PhasesEmpty
  <2>4. Phase[t] = "out" /\ Promise!Become({t}, "reading")
    BY <1>1, <1>2, <1>5, PhaseMoved, PhaseTable
  <2>5. Promise!JoinRead(t)
    BY <2>3, <2>4 DEF Promise!JoinRead
  <2> QED BY <2>5 DEF Promise!Next
<1> QED BY <1>3, <1>4, <1>5 DEF AcquireExclusive, AcquireShared

LEMMA ReleaseKeepsPromise ==
    ASSUME LockInv, NEW t \in Thread, Release(t)
    PROVE  Promise!Next
<1>1. pc \in [Thread -> Where] /\ pc[t] \in {"exclusive", "shared"}
  BY DEF LockInv, TypeOK, Release
<1>2. PICK w \in {"idle", "setEvent", "releaseSem"} : Goto(t, w)
  BY DEF Release, ReleaseFree, ReleaseByReader, ReleaseByWriter
<1>3. w \in Where /\ PhaseAt(w) = "out"
  BY PhaseTable DEF Where
<1>4. Phase[t] \in {"writing", "reading"} /\ Promise!Become({t}, "out")
  BY <1>1, <1>2, <1>3, PhaseMoved, PhaseTable
<1>5. Promise!Leave(t)
  BY <1>4 DEF Promise!Leave
<1> QED BY <1>5 DEF Promise!Next

LEMMA WaitKeepsPromise ==
    ASSUME LockInv, NEW t \in Thread, WaitWriter(t) \/ WaitReader(t)
    PROVE  [Promise!Next]_Phase
<1>1. /\ pc \in [Thread -> Where] /\ Integral /\ CountsAgree /\ OneKind
  BY IntegersAre DEF LockInv, TypeOK
<1>2. /\ "exclusive" \in Where /\ "shared" \in Where
      /\ "blockWriter" \in Where /\ "blockReader" \in Where
  BY DEF Where
<1>3. CASE \/ pc[t] = "waitWriter" /\ Goto(t, "blockWriter")
           \/ pc[t] = "waitReader" /\ Goto(t, "blockReader")
  BY <1>1, <1>2, <1>3, PhaseMoved, PhaseTable
<1>4. CASE pc[t] = "waitWriter" /\ Goto(t, "exclusive") /\ WriterEvent > 0
  <2>1. Owning = 0 /\ ReadersEntryCount = 0
    BY <1>1, <1>4 DEF Integral, OneKind
  <2>2. Sharing = 0
    BY <1>1, <2>1 DEF Integral, CountsAgree
  <2>3. Promise!Doing("writing") = {} /\ Promise!Doing("reading") = {}
    BY <2>1, <2>2, PhasesEmpty
  <2>4. Phase[t] = "wantsWrite" /\ Promise!Become({t}, "writing")
    BY <1>1, <1>2, <1>4, PhaseMoved, PhaseTable
  <2>5. Promise!EnterWrite(t)
    BY <2>3, <2>4 DEF Promise!EnterWrite
  <2> QED BY <2>5 DEF Promise!Next
<1>5. CASE pc[t] = "waitReader" /\ Goto(t, "shared") /\ ReaderSemaphore > 0
  <2>1. ReadersEntryCount # 0
    BY <1>1, <1>5 DEF Integral, CountsAgree
  <2>2. Owning = 0
    BY <1>1, <2>1 DEF Integral, OneKind
  <2>3. Promise!Doing("writing") = {}
    BY <2>2, PhasesEmpty
  <2>4. Phase[t] = "wantsRead" /\ Promise!Become({t}, "reading")
    BY <1>1, <1>2, <1>5, PhaseMoved, PhaseTable
  <2>5. {t} # {} /\ {t} \subseteq Promise!Doing("wantsRead") /\ {t} \in SUBSET Thread
    BY <2>4 DEF Promise!Doing
  <2>6. Promise!EnterRead({t})
    BY <2>3, <2>4, <2>5 DEF Promise!EnterRead
  <2> QED BY <2>5, <2>6 DEF Promise!Next
<1>6. CASE WaitWriter(t)
  <2>1. /\ pc[t] = "waitWriter"
        /\ Goto(t, "blockWriter") \/ (Goto(t, "exclusive") /\ WriterEvent > 0)
    BY <1>6 DEF WaitWriter
  <2> QED BY <1>3, <1>4, <2>1
<1>7. CASE WaitReader(t)
  <2>1. /\ pc[t] = "waitReader"
        /\ Goto(t, "blockReader") \/ (Goto(t, "shared") /\ ReaderSemaphore > 0)
    BY <1>7 DEF WaitReader
  <2> QED BY <1>3, <1>5, <2>1
<1> QED BY <1>6, <1>7

LEMMA ApcKeepsPromise ==
    ASSUME LockInv, NEW t \in Thread, KernelApc(t)
    PROVE  UNCHANGED Phase
<1>1. pc \in [Thread -> Where] /\ "waitWriter" \in Where /\ "waitReader" \in Where
  BY DEF LockInv, TypeOK, Where
<1>2. \/ pc[t] = "blockWriter" /\ Goto(t, "waitWriter")
      \/ pc[t] = "blockReader" /\ Goto(t, "waitReader")
  BY DEF KernelApc
<1> QED BY <1>1, <1>2, PhaseMoved, PhaseTable

LEMMA SetWriterEventKeepsPromise ==
    ASSUME LockInv, NEW t \in Thread, SetWriterEvent(t)
    PROVE  [Promise!Next]_Phase
<1>1. /\ pc \in [Thread -> Where] /\ Integral /\ CountsAgree /\ OneKind
      /\ pc[t] = "setEvent" /\ Lists(writerQueue, pc, "blockWriter")
  BY IntegersAre DEF LockInv, TypeOK, ListsOK, SetWriterEvent
<1>2. "exclusive" \in Where /\ "idle" \in Where
  BY DEF Where
<1>3. Owning = 0 /\ Sharing = 0
  <2>1. Handing > 0
    BY <1>1, Counted DEF Handing
  <2>2. Owning = 0 /\ ReadersEntryCount = 0
    BY <1>1, <2>1 DEF Integral, OneKind
  <2> QED BY <1>1, <2>2 DEF Integral, CountsAgree
<1>4. CASE writerQueue = <<>>
  <2>1. Goto(t, "idle")
    BY <1>4 DEF SetWriterEvent
  <2> QED BY <1>1, <1>2, <2>1, PhaseMoved, PhaseTable
<1>5. CASE writerQueue # <<>>
  <2> DEFINE h == Head(writerQueue)
  <2>1. h \in Thread /\ h \in Range(writerQueue)
    BY <1>1, <1>5, TailScans DEF Lists
  <2>2. pc' = [pc EXCEPT ![t] = "idle", ![h] = "exclusive"]
    BY <1>5 DEF SetWriterEvent
  <2> HIDE DEF h
  <2>3. pc[h] = "blockWriter"
    BY <1>1, <2>1 DEF Lists
  <2>4. /\ Phase = [u \in Thread |-> PhaseAt(pc[u])]
        /\ Phase' = [u \in Thread |-> PhaseAt(pc'[u])]
    BY PhaseIs
  <2>5. \A u \in Thread : pc'[u] = IF u = h THEN "exclusive" ELSE IF u = t THEN "idle" ELSE pc[u]
    BY <1>1, <2>1, <2>2, <2>3
  <2>6. \A u \in Thread : PhaseAt(pc'[u]) = IF u \in {h} THEN "writing" ELSE Phase[u]
    BY <1>1, <2>4, <2>5, PhaseTable
  <2>7. Promise!Become({h}, "writing")
    BY <2>4, <2>6 DEF Promise!Become
  <2>8. Phase[h] = "wantsWrite"
    BY <2>1, <2>3, <2>4, PhaseTable
  <2>9. Promise!Doing("writing") = {} /\ Promise!Doing("reading") = {}
    BY <1>3, PhasesEmpty
  <2>10. Promise!EnterWrite(h)
    BY <2>7, <2>8, <2>9 DEF Promise!EnterWrite
  <2> QED BY <2>1, <2>10 DEF Promise!Next
<1> QED BY <1>4, <1>5

LEMMA ReleaseReadersKeepsPromise ==
    ASSUME LockInv, NEW t \in Thread, ReleaseReaderSemaphore(t)
    PROVE  [Promise!Next]_Phase
<1>1. PICK wake \in SUBSET Thread, n \in Nat :
          /\ IsFiniteSet(wake) /\ Cardinality(wake) = n
          /\ n <= grant[t] /\ Coming = grant[t] /\ ReaderSemaphore = 0
          /\ \A u \in wake : pc[u] = "blockReader"
          /\ pc[t] = "releaseSem"
          /\ ReaderSemaphore' = grant[t] - n
          /\ grant' = [grant EXCEPT ![t] = 0]
          /\ pc' = [u \in Thread |-> IF u = t THEN "idle"
                                     ELSE IF u \in wake THEN "shared" ELSE pc[u]]
          /\ readerQueue' \in Seq(Thread) /\ IsInjective(readerQueue')
          /\ Range(readerQueue') = Range(readerQueue) \ wake
          /\ ReaderSemaphore' > 0 => readerQueue' = <<>>
          /\ UNCHANGED <<lockVars, WriterEvent, writerQueue, apcs>>
  BY ReleaseReadersFacts
<1>2. /\ Integral /\ CountsAgree /\ OneKind
      /\ grant[t] > 0 /\ grant[t] \in Nat
  BY <1>1, IntegersAre DEF LockInv, OneRelease, TypeOK
<1>3. Owning = 0
  <2>1. Coming > 0
    BY <1>1, <1>2
  <2>2. ReadersEntryCount # 0
    BY <1>2, <2>1 DEF Integral, CountsAgree
  <2> QED BY <1>2, <2>2 DEF Integral, OneKind
<1>4. /\ Phase = [u \in Thread |-> PhaseAt(pc[u])]
      /\ Phase' = [u \in Thread |-> PhaseAt(pc'[u])]
  BY PhaseIs
<1>5. \A u \in Thread : pc'[u] = IF u = t THEN "idle" ELSE IF u \in wake THEN "shared" ELSE pc[u]
  BY <1>1
<1>6. t \notin wake /\ pc[t] = "releaseSem" /\ \A u \in wake : pc[u] = "blockReader"
  BY <1>1
<1>7. \A u \in Thread : PhaseAt(pc'[u]) = IF u \in wake THEN "reading" ELSE Phase[u]
  BY <1>4, <1>5, <1>6, PhaseTable
<1>8. CASE wake = {}
  BY <1>4, <1>7, <1>8
<1>9. CASE wake # {}
  <2>1. Promise!Become(wake, "reading")
    BY <1>4, <1>7 DEF Promise!Become
  <2>2. wake \subseteq Promise!Doing("wantsRead")
    BY <1>4, <1>6, PhaseTable DEF Promise!Doing
  <2>3. Promise!Doing("writing") = {}
    BY <1>3, PhasesEmpty
  <2>4. Promise!EnterRead(wake)
    BY <1>9, <2>1, <2>2, <2>3 DEF Promise!EnterRead
  <2> QED BY <2>4 DEF Promise!Next
<1> QED BY <1>8, <1>9

LEMMA PromiseInit == Init => Promise!Init
<1> SUFFICES ASSUME Init PROVE Promise!Init
  OBVIOUS
<1>1. \A t \in Thread : pc[t] = "idle"
  BY DEF Init
<1>2. Phase = [t \in Thread |-> PhaseAt(pc[t])]
  BY PhaseIs
<1>3. Phase = [t \in Thread |-> "out"]
  BY <1>1, <1>2, PhaseTable
<1> QED BY <1>3 DEF Promise!Init

LEMMA PromiseKept == LockInv /\ [LocksNext]_locksVars => [Promise!Next]_Phase
<1> SUFFICES ASSUME LockInv, [LocksNext]_locksVars PROVE [Promise!Next]_Phase
  OBVIOUS
<1>1. ASSUME UNCHANGED pc PROVE UNCHANGED Phase
  BY <1>1, PhaseIs
<1>2. CASE UNCHANGED locksVars
  BY <1>1, <1>2 DEF locksVars, volumeVars
<1>3. ASSUME NEW t \in Thread, Volume(t) PROVE [Promise!Next]_Phase
  BY <1>3, AcquireKeepsPromise, ReleaseKeepsPromise, WaitKeepsPromise,
     SetWriterEventKeepsPromise, ReleaseReadersKeepsPromise
  DEF Volume, Wait, Signal
<1>4. ASSUME NEW t \in Thread, ClusterCache(t) PROVE UNCHANGED Phase
  BY <1>1, <1>4 DEF ClusterCache, volumeVars
<1>5. ASSUME NEW t \in Thread, LocksApc(t) PROVE UNCHANGED Phase
  BY <1>1, <1>5, ApcKeepsPromise DEF LocksApc, volumeVars
<1> QED BY <1>2, <1>3, <1>4, <1>5 DEF LocksNext

(* The lock keeps the promise of RwLockSpec: one writer or any number of   *)
(* readers, and no reader that arrives behind a waiting writer gets in     *)
(* before it, although what the routines look at are four counts that run  *)
(* ahead of the owners (rwlocka.asm).                                      *)
THEOREM LockKeepsPromise == LocksSpec => ImplementsRwLock
<1>1. LocksInit => Promise!Init
  BY PromiseInit DEF LocksInit
<1> QED BY <1>1, InitLocks, LockStep, PromiseKept, PTL
        DEF LocksSpec, ImplementsRwLock, Promise!Spec
=============================================================================
