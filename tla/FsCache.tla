------------------------------ MODULE FsCache ------------------------------
(***************************************************************************)
(* The file system cache, mmx/fscache.c: pages of a device kept in a list  *)
(* ordered by least recent use, mapped, read, written through, discarded   *)
(* and invalidated by the file systems, and a cache that grows and shrinks *)
(* while it is in use.                                                     *)
(*                                                                         *)
(* MI_LOCK_MM raises to DISPATCH_LEVEL, so what happens between it and     *)
(* MI_UNLOCK_MM is one step; the steps end where the code waits.  The file *)
(* systems hold a lock of the file or the volume around their calls,       *)
(* shared to read and exclusive to write (fatx/readwrit.c): here one lock  *)
(* per block, held from Begin to the end of the call.                      *)
(***************************************************************************)
EXTENDS FiniteSets, WaitLists

CONSTANTS
    User,           \* the threads that call the cache
    Page,           \* pages the cache may be given
    Block,          \* blocks of the device
    Resizer,        \* the thread that owns FscSetCacheSizeEvent
    NoBlock, NoPage, NoRequest,
    Request,        \* [thread, block, mode]: what the threads may ask for
    InitialSize,    \* pages of the cache at first
    Size,           \* what FscSetCacheSize is called with
    IoFails,        \* may the device fail a request?
    KernelApcs      \* may a special kernel APC interrupt a wait at PASSIVE_LEVEL?

Mode == {"read", "write", "fill", "direct"}

ASSUME FsCacheAssumption ==
    /\ IsFiniteSet(User) /\ IsFiniteSet(Page)
    /\ Resizer \notin User /\ NoBlock \notin Block /\ NoPage \notin Page
    /\ NoRequest \notin Request
    /\ Request \subseteq [thread : User, block : Block, mode : Mode]
    /\ InitialSize \in 0..Cardinality(Page) /\ Size \subseteq 0..Cardinality(Page)
    /\ IoFails \in BOOLEAN /\ KernelApcs \in BOOLEAN

VARIABLES
    array,          \* the pages of FscElementArray, in order
    lru,            \* FscLruList, least recently used first
    element,        \* the FSCACHE_ELEMENT of a page, what its PTE and its page hold
    waiting,        \* the wait list of FscWaitingForElementEvent
    pc,             \* where a thread is in its call
    request,        \* what it has called for
    page,           \* the page it reads into or has mapped
    toRelease,      \* PagesToRelease of FscShrinkCacheSize
    missed,         \* history: who may have missed a signal in the present wait
    disturbed       \* history: the cache was resized or a request failed

fscVars == <<array, lru, element, waiting, pc, request, page, toRelease, missed, disturbed>>

(* "fresh": the page holds what the device holds for the block.            *)
Element == [block : Block \cup {NoBlock}, usage : 0..Cardinality(User),
            reading : BOOLEAN, readWaiters : BOOLEAN, deletePending : BOOLEAN,
            writable : BOOLEAN, fresh : BOOLEAN]

Empty == [block |-> NoBlock, usage |-> 0, reading |-> FALSE, readWaiters |-> FALSE,
          deletePending |-> FALSE, writable |-> FALSE, fresh |-> FALSE]

FscInit ==
    /\ array \in {s \in [1..InitialSize -> Page] : IsInjective(s)}
    /\ lru = Reverse(array)
    /\ element = [p \in Page |-> Empty]
    /\ waiting = <<>>
    /\ pc = [a \in User \cup {Resizer} |-> "idle"]
    /\ request = [t \in User |-> NoRequest]
    /\ page = [t \in User |-> NoPage]
    /\ toRelease = 0 /\ missed = {} /\ disturbed = FALSE

-----------------------------------------------------------------------------
(* The list and the waiters.                                               *)

Free(p) == element[p].usage = 0

ToTail(p) == Append(Unlink(lru, p), p)
ToHead(p) == <<p>> \o Unlink(lru, p)

Before(s, p, q) == \E i, j \in DOMAIN s : i < j /\ s[i] = p /\ s[j] = q

(* The lists of the pages S that have p before q only if <<p, q>> is in R. *)
Arranged(S, R) ==
    {s \in Bijection(1..Cardinality(S), S) :
        \A i, j \in DOMAIN s : i < j => <<s[i], s[j]>> \in R}

InOrder(s) == {r \in Range(s) \X Range(s) : Before(s, r[1], r[2])}

(* The search goes from the most recently used element to the first that   *)
(* holds no block.                                                         *)
FscLookupElement(b) ==
    {p \in Range(lru) :
        /\ element[p].block = b
        /\ \A q \in Range(lru) : Before(lru, p, q) => element[q].block \notin {b, NoBlock}}

(* What FscAllocateElement takes, if there is anything.                    *)
LeastRecentlyFree ==
    {p \in Range(lru) : Free(p) /\ \A q \in Range(lru) : Before(lru, q, p) => ~Free(q)}

Goes(t, where) == [pc EXCEPT ![t] = where]

(* KeSetEvent of FscWaitingForElementEvent for each of n elements, as long *)
(* as somebody waits: the event never stays signaled.                      *)
WakeFor(n, pcs) ==
    LET told == IF n <= Len(waiting) THEN n ELSE Len(waiting)
    IN  /\ waiting' = SubSeq(waiting, told + 1, Len(waiting))
        /\ pc' = [a \in DOMAIN pc |->
                    IF \E i \in 1..told : waiting[i] = a THEN "woken" ELSE pcs[a]]

(* The call is over; the caller releases its lock.                         *)
Returns(t) == request' = [request EXCEPT ![t] = NoRequest]

-----------------------------------------------------------------------------
(* The calls of the file systems.                                          *)

(* The lock is shared by readers and exclusive otherwise.                  *)
Begin(t, r) ==
    /\ pc[t] = "idle" /\ r.thread = t
    /\ \A u \in User : (request[u] # NoRequest /\ request[u].block = r.block)
                            => r.mode = "read" /\ request[u].mode = "read"
    /\ request' = [request EXCEPT ![t] = r]
    /\ pc' = Goes(t, IF r.mode = "direct" THEN "invalidate" ELSE "map")
    /\ UNCHANGED <<array, lru, element, waiting, page, toRelease>>

(* FscMapBuffer and FscMapEmptyBuffer: the block is in the cache.          *)
MapFound(t) ==
    /\ pc[t] = "map"
    /\ \E p \in FscLookupElement(request[t].block) :
        /\ ~element[p].reading
        /\ lru' = ToTail(p)
        /\ element' = [element EXCEPT ![p].usage = @ + 1,
                            ![p].writable = @ \/ request[t].mode # "read"]
        /\ page' = [page EXCEPT ![t] = p]
        /\ pc' = Goes(t, "mapped")
    /\ UNCHANGED <<array, waiting, request, toRelease>>

(* Another thread is reading the block: wait for FscCollidedMapBufferEvent.*)
MapCollides(t) ==
    /\ pc[t] = "map"
    /\ \E p \in FscLookupElement(request[t].block) :
        /\ element[p].reading
        /\ lru' = ToTail(p)
        /\ element' = [element EXCEPT ![p].readWaiters = TRUE]
        /\ pc' = Goes(t, "collided")
    /\ UNCHANGED <<array, waiting, request, page, toRelease>>

(* FscAllocateElement, called once the block was not found and resumed     *)
(* after each wait.                                                        *)
Allocates(t) ==
    \/ pc[t] = "map" /\ FscLookupElement(request[t].block) = {}
    \/ pc[t] = "woken"

(* The cache has no pages: STATUS_NO_MEMORY.                               *)
NoCache(t) ==
    /\ Allocates(t) /\ array = <<>>
    /\ pc' = Goes(t, "idle") /\ Returns(t)
    /\ UNCHANGED <<array, lru, element, waiting, page, toRelease>>

(* The element is initialized and, unless it is to be filled, read.        *)
TakeElement(t) ==
    /\ Allocates(t)
    /\ \E p \in LeastRecentlyFree :
        /\ lru' = ToTail(p)
        /\ element' = [element EXCEPT ![p] =
                [Empty EXCEPT !.block = request[t].block, !.usage = 1,
                              !.reading = request[t].mode # "fill",
                              !.writable = request[t].mode = "fill"]]
        /\ page' = [page EXCEPT ![t] = p]
        /\ pc' = Goes(t, IF request[t].mode = "fill" THEN "mapped" ELSE "reading")
    /\ UNCHANGED <<array, waiting, request, toRelease>>

(* All are in use: wait at APC_LEVEL for FscWaitingForElementEvent.        *)
WaitForElement(t) ==
    /\ Allocates(t) /\ array # <<>> /\ LeastRecentlyFree = {}
    /\ waiting' = Append(waiting, t)
    /\ pc' = Goes(t, "waiting")
    /\ UNCHANGED <<array, lru, element, request, page, toRelease>>

(* KePulseEvent: every thread that waits at this moment looks again.       *)
Pulsed(p) ==
    [a \in DOMAIN pc |-> IF element[p].readWaiters /\ pc[a] = "collided"
                         THEN "map" ELSE pc[a]]

ReadSucceeds(t) ==
    /\ pc[t] = "reading"
    /\ element' = [element EXCEPT ![page[t]].reading = FALSE,
                        ![page[t]].readWaiters = FALSE,
                        ![page[t]].writable = request[t].mode # "read",
                        ![page[t]].fresh = TRUE]
    /\ pc' = [Pulsed(page[t]) EXCEPT ![t] = "mapped"]
    /\ UNCHANGED <<array, lru, waiting, request, page, toRelease>>

(* FscDiscardBuffer: the element is free and first in the list.            *)
FscDiscardBuffer(t, pcs) ==
    /\ element' = [element EXCEPT ![page[t]] = Empty]
    /\ lru' = ToHead(page[t])
    /\ WakeFor(1, [pcs EXCEPT ![t] = "idle"])
    /\ page' = [page EXCEPT ![t] = NoPage] /\ Returns(t)
    /\ UNCHANGED <<array, toRelease>>

ReadFails(t) == IoFails /\ pc[t] = "reading" /\ FscDiscardBuffer(t, Pulsed(page[t]))

(* Mutation: nobody is told that the element is free. *)
UnmapSilently(t, elements) ==
    /\ element' = [elements EXCEPT ![page[t]].usage = @ - 1, ![page[t]].writable = FALSE]
    /\ WakeFor(0, Goes(t, "idle"))
    /\ page' = [page EXCEPT ![t] = NoPage] /\ Returns(t)
    /\ UNCHANGED <<array, lru, toRelease>>

FscUnmapBuffer(t, elements) ==
    LET last == elements[page[t]].usage = 1
    IN  /\ element' = [elements EXCEPT ![page[t]].usage = @ - 1,
                                       ![page[t]].writable = FALSE]
        /\ WakeFor(IF last THEN 1 ELSE 0, Goes(t, "idle"))
        /\ page' = [page EXCEPT ![t] = NoPage] /\ Returns(t)
        /\ UNCHANGED <<array, lru, toRelease>>

(* A reader, or a writer that has changed nothing (fatx/allocsup.c).       *)
Unmap(t) ==
    /\ pc[t] = "mapped" /\ request[t].mode # "fill"
    /\ FscUnmapBuffer(t, element)

(* The device has new contents for block b; page p holds them.             *)
Written(b, p) ==
    [q \in Page |-> IF element[q].block = b THEN [element[q] EXCEPT !.fresh = q = p]
                    ELSE element[q]]

(* FscWriteBuffer writes the page through, and discards it on an error.    *)
WriteSucceeds(t) ==
    /\ pc[t] = "mapped" /\ request[t].mode \in {"write", "fill"}
    /\ FscUnmapBuffer(t, Written(request[t].block, page[t]))

WriteFails(t) ==
    /\ IoFails /\ pc[t] = "mapped" /\ request[t].mode \in {"write", "fill"}
    /\ FscDiscardBuffer(t, pc)

(* FscInvalidateBlocks: the free elements of the blocks B lose their block *)
(* and go to the head, in their order.                                     *)
Invalidated(B) == {p \in Range(lru) : element[p].block \in B /\ Free(p)}

MovedToHead(gone) ==
    {r \in Range(lru) \X Range(lru) :
        IF r[1] \in gone THEN r[2] \in gone => Before(lru, r[1], r[2])
                         ELSE r[2] \notin gone /\ Before(lru, r[1], r[2])}

FscInvalidateBlocks(B, pcs) ==
    /\ lru' \in Arranged(Range(lru), MovedToHead(Invalidated(B)))
    /\ element' = [p \in Page |-> IF p \in Invalidated(B) THEN Empty ELSE element[p]]
    /\ WakeFor(Cardinality(Invalidated(B)), pcs)
    /\ UNCHANGED <<array, toRelease>>

(* Mutation: a direct write forgets the cache. *)
InvalidateNothing(t) ==
    /\ pc[t] = "invalidate"
    /\ FscInvalidateBlocks({}, Goes(t, "directio"))
    /\ UNCHANGED <<request, page>>

(* A write past the cache first invalidates what it will write.            *)
InvalidateFirst(t) ==
    /\ pc[t] = "invalidate"
    /\ FscInvalidateBlocks({request[t].block}, Goes(t, "directio"))
    /\ UNCHANGED <<request, page>>

DirectWrite(t) ==
    /\ pc[t] = "directio"
    /\ element' = Written(request[t].block, NoPage)
    /\ pc' = Goes(t, "idle") /\ Returns(t)
    /\ UNCHANGED <<array, lru, waiting, page, toRelease>>

FscInvalidateIdleBlocks ==
    /\ \E p \in Range(lru) : element[p].block # NoBlock /\ Free(p)
    /\ FscInvalidateBlocks(Block, pc)
    /\ UNCHANGED <<request, page>>

-----------------------------------------------------------------------------
(* FscSetCacheSize.                                                        *)

(* FscBuildElementLruList, over the pages of s in the order of the array:  *)
(* those without a block in front, in reverse.                             *)
BuildLru(s) ==
    LET blank == {p \in Range(s) : element[p].block = NoBlock}
    IN  Arranged(Range(s),
            {r \in Range(s) \X Range(s) :
                IF r[1] \in blank THEN r[2] \in blank => Before(s, r[2], r[1])
                                  ELSE r[2] \notin blank /\ Before(s, r[1], r[2])})

FscGrowCacheSize(n) ==
    /\ pc[Resizer] = "idle" /\ n > Len(array)
    /\ \E s \in [1..n - Len(array) -> Page \ Range(array)] :
        /\ IsInjective(s)
        /\ array' = array \o s
        /\ lru' \in BuildLru(array')
    /\ UNCHANGED <<element, waiting, pc, request, page, toRelease>>

Releasable(s) == {i \in 1..Len(s) : Free(s[i]) /\ ~element[s[i]].deletePending}

(* The last n of them.                                                     *)
Released(s, n) ==
    {s[i] : i \in {i \in Releasable(s) :
        Cardinality({j \in Releasable(s) : j > i}) < n}}

(* Mutation: they stay in the list. *)
MarkInPlace(pages) ==
    /\ element' = [p \in Page |-> IF p \in pages
                    THEN [Empty EXCEPT !.deletePending = TRUE] ELSE element[p]]
    /\ lru' = lru

Mark(pages) ==
    /\ element' = [p \in Page |-> IF p \in pages
                    THEN [Empty EXCEPT !.deletePending = TRUE] ELSE element[p]]
    /\ lru' \in Arranged(Range(lru) \ pages, InOrder(lru))

(* Not enough are free: mark what there is, and wait at PASSIVE_LEVEL.     *)
ReleaseSome(n) ==
    /\ Cardinality(Releasable(array)) < n
    /\ Mark(Released(array, n))
    /\ toRelease' = n - Cardinality(Releasable(array))
    /\ waiting' = Append(waiting, Resizer)
    /\ pc' = Goes(Resizer, "waiting")
    /\ UNCHANGED array

(* The marked pages are freed, the others move up, and all who wait for an *)
(* element are told.                                                       *)
ReleaseAll(n) ==
    LET freed == {p \in Page : element[p].deletePending} \cup Released(array, n)
    IN  /\ Cardinality(Releasable(array)) >= n
        /\ array' \in Arranged(Range(array) \ freed, InOrder(array))
        /\ element' = [p \in Page |-> IF p \in freed THEN Empty ELSE element[p]]
        /\ lru' \in BuildLru(array')
        /\ toRelease' = 0
        /\ WakeFor(Len(waiting), Goes(Resizer, "idle"))

FscShrinkCacheSize(n) ==
    /\ pc[Resizer] = "idle" /\ n < Len(array)
    /\ ReleaseSome(Len(array) - n) \/ ReleaseAll(Len(array) - n)
    /\ UNCHANGED <<request, page>>

ReleaseMoreElements ==
    /\ pc[Resizer] = "woken"
    /\ ReleaseSome(toRelease) \/ ReleaseAll(toRelease)
    /\ UNCHANGED <<request, page>>

-----------------------------------------------------------------------------
(* Special kernel APCs (io/iosubs.c queues one for each completed IRP)     *)
(* take a thread out of a wait at PASSIVE_LEVEL; it then waits again       *)
(* without looking at the cache.                                           *)

KernelApc(a) ==
    /\ KernelApcs
    /\ pc[a] = "collided" \/ (a = Resizer /\ pc[a] = "waiting")
    /\ waiting' = Unlink(waiting, a)
    /\ pc' = Goes(a, "interrupted")
    /\ UNCHANGED <<array, lru, element, request, page, toRelease>>

WaitAgain(a) ==
    /\ pc[a] = "interrupted"
    /\ waiting' = IF a = Resizer THEN Append(waiting, a) ELSE waiting
    /\ pc' = Goes(a, IF a = Resizer THEN "waiting" ELSE "collided")
    /\ UNCHANGED <<array, lru, element, request, page, toRelease>>

(* A wait misses a signal when a kernel APC takes the thread out of it, or *)
(* when the cache grows: FscGrowCacheSize tells nobody of its free pages.  *)
StillWaiting(S) == {a \in S : pc'[a] \in {"collided", "waiting", "interrupted"}}

Calls ==
    \/ \E r \in Request : Begin(r.thread, r)
    \/ \E t \in User :
       \/ MapFound(t) \/ MapCollides(t) \/ NoCache(t) \/ TakeElement(t)
       \/ WaitForElement(t) \/ ReadSucceeds(t) \/ Unmap(t)
       \/ WriteSucceeds(t) \/ InvalidateFirst(t) \/ DirectWrite(t)
    \/ FscInvalidateIdleBlocks
    \/ \E a \in User \cup {Resizer} : WaitAgain(a)

Disturbs ==
    \/ \E t \in User : ReadFails(t) \/ WriteFails(t)
    \/ \E n \in Size : FscShrinkCacheSize(n)
    \/ ReleaseMoreElements

FscNext ==
    \/ Calls /\ missed' = StillWaiting(missed) /\ UNCHANGED disturbed
    \/ Disturbs /\ missed' = StillWaiting(missed) /\ disturbed' = TRUE
    \/ \E n \in Size :
          FscGrowCacheSize(n) /\ missed' = StillWaiting(missed \cup Range(waiting))
                              /\ disturbed' = TRUE
    \/ \E a \in User \cup {Resizer} :
          KernelApc(a) /\ missed' = StillWaiting(missed \cup {a}) /\ UNCHANGED disturbed

FscSpec == FscInit /\ [][FscNext]_fscVars

-----------------------------------------------------------------------------
(* Properties.                                                             *)

Where == {"idle", "map", "collided", "interrupted", "waiting", "woken", "reading",
          "mapped", "invalidate", "directio"}

(* The variables keep to their types; the array and the wait list name     *)
(* nobody twice.                                                           *)
FscTypeOK ==
    /\ array \in Seq(Page) /\ IsInjective(array)
    /\ lru \in Seq(Page) /\ IsInjective(lru)
    /\ element \in [Page -> Element]
    /\ waiting \in Seq(User \cup {Resizer}) /\ IsInjective(waiting)
    /\ pc \in [User \cup {Resizer} -> Where]
    /\ request \in [User -> Request \cup {NoRequest}]
    /\ page \in [User -> Page \cup {NoPage}]
    /\ toRelease \in 0..Cardinality(Page)
    /\ missed \subseteq User \cup {Resizer} /\ disturbed \in BOOLEAN

Uses(t, p) == page[t] = p /\ pc[t] \in {"reading", "mapped"}

(* While a thread reads a block into a page nobody else has the page (the  *)
(* assertions of FscMapBuffer after its read), and a page is writable      *)
(* exactly while one thread has it mapped that may write it.               *)
BuffersProtected ==
    /\ \A p \in Page : element[p].reading = (\E t \in User : page[t] = p /\ pc[t] = "reading")
    /\ \A p \in Page : element[p].reading => element[p].usage = 1
    /\ \A p \in Page : element[p].writable =>
        /\ element[p].usage = 1
        /\ \E t \in User : Uses(t, p) /\ pc[t] = "mapped" /\ request[t].mode # "read"

(* UsageCount counts the threads that use a page, who have it protected as *)
(* they need; pages in use are in the array and hold the block their users *)
(* asked for, the LRU list holds the pages of the array that are not       *)
(* marked, and those without a block, and no others, are at its front,     *)
(* where FscLookupElement stops.                                           *)
ElementsAccounted ==
    /\ FscTypeOK
    /\ BuffersProtected
    /\ \A p \in Page : element[p].usage = Cardinality({t \in User : Uses(t, p)})
    /\ \A t \in User, p \in Page : Uses(t, p) =>
        p \in Range(lru) /\ element[p].block = request[t].block
    /\ Range(lru) = {p \in Range(array) : ~element[p].deletePending}
    /\ \A p, q \in Range(lru) : (Before(lru, p, q) /\ element[q].block = NoBlock)
                                    => element[p].block = NoBlock
    /\ \A p \in Page : element[p].deletePending => pc[Resizer] # "idle"

(* A thread that waits for another one's read of its block waits for a     *)
(* read that is going on and that will tell it.                            *)
PulseComing(t) ==
    pc[t] = "collided" =>
        \E p \in Range(lru) : /\ element[p].block = request[t].block
                              /\ element[p].reading /\ element[p].readWaiters

(* Nobody waits for what has already come, unless the cache has grown or a *)
(* kernel APC has interrupted the wait: threads wait for an element only   *)
(* as long as each free one has a thread that has been told and has not    *)
(* yet looked, and for another's read only as long as its end will be      *)
(* signaled.                                                               *)
NoLostWakeup ==
    /\ Range(waiting) \ missed # {} =>
        Cardinality({p \in Range(lru) : Free(p)})
            <= Cardinality({a \in DOMAIN pc : pc[a] = "woken"})
    /\ \A t \in User \ missed : PulseComing(t)

(* A thread that has mapped a block to read it, or to change a part of it, *)
(* finds in the page what the device holds, whatever was written through   *)
(* the cache or past it before, as long as no request has failed and the   *)
(* cache has kept its size.                                                *)
Coherent ==
    ~disturbed =>
        \A t \in User : (pc[t] = "mapped" /\ request[t].mode \in {"read", "write"})
            => element[page[t]].fresh

=============================================================================
