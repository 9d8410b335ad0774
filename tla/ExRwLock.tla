------------------------------ MODULE ExRwLock ------------------------------
(***************************************************************************)
(* The executive reader/writer lock (ERWLOCK) of ex/rwlock.c and           *)
(* ex/i386/rwlocka.asm, the lock the FATX and RAW file systems serialise a *)
(* volume with.                                                            *)
(*                                                                         *)
(* Each routine runs its bookkeeping between CLI and STI, so on the one    *)
(* processor of the machine that part is a single step.  What follows the  *)
(* STI (the call that waits, sets the event or releases the semaphore) is  *)
(* a step of its own: the thread can be preempted in between, and that     *)
(* window is where the four counts and the two dispatcher objects disagree.*)
(*                                                                         *)
(* The event and the semaphore keep their wait lists: a signal is handed   *)
(* to the thread that has waited longest (KeSetEvent, KiWaitTest).  A      *)
(* kernel APC takes a blocked thread out of its list and makes it start    *)
(* its wait again at the tail; MaxApc bounds how often that happens.       *)
(***************************************************************************)
EXTENDS FiniteSets, WaitLists

CONSTANTS
    Thread,     \* the threads that use the lock
    MaxApc      \* bound: how many waits a kernel APC interrupts

VARIABLES
    LockCount,              \* ERWLOCK.LockCount, -1 when the lock is free
    WritersWaitingCount,    \* ERWLOCK.WritersWaitingCount
    ReadersWaitingCount,    \* ERWLOCK.ReadersWaitingCount
    ReadersEntryCount,      \* ERWLOCK.ReadersEntryCount
    WriterEvent,            \* signal state of the synchronization event
    ReaderSemaphore,        \* signal state of the semaphore
    writerQueue,            \* threads blocked on WriterEvent
    readerQueue,            \* threads blocked on ReaderSemaphore
    pc,                     \* where each thread is
    grant,                  \* register EAX of a thread releasing readers
    apcs                    \* kernel APCs delivered so far

lockVars == <<LockCount, WritersWaitingCount, ReadersWaitingCount,
              ReadersEntryCount>>
objVars  == <<WriterEvent, ReaderSemaphore, writerQueue, readerQueue>>
vars     == <<lockVars, objVars, pc, grant, apcs>>

Where == {"idle",           \* outside the lock
          "waitWriter",     \* counted as waiting writer, before the wait call
          "blockWriter",    \* in the wait list of WriterEvent
          "waitReader",     \* counted as waiting reader, before the wait call
          "blockReader",    \* in the wait list of ReaderSemaphore
          "exclusive",      \* owns the lock for writing
          "shared",         \* owns the lock for reading
          "setEvent",       \* released it, about to set WriterEvent
          "releaseSem"}     \* released it, about to release ReaderSemaphore

(* ExInitializeReadWriteLock *)
Init ==
    /\ LockCount = -1
    /\ WritersWaitingCount = 0
    /\ ReadersWaitingCount = 0
    /\ ReadersEntryCount = 0
    /\ WriterEvent = 0
    /\ ReaderSemaphore = 0
    /\ writerQueue = <<>>
    /\ readerQueue = <<>>
    /\ pc = [t \in Thread |-> "idle"]
    /\ grant = [t \in Thread |-> 0]
    /\ apcs = 0

Goto(t, where) == pc' = [pc EXCEPT ![t] = where]

-----------------------------------------------------------------------------
(* ExAcquireReadWriteLockExclusive, up to STI. *)
AcquireExclusive(t) ==
    /\ pc[t] = "idle"
    /\ LockCount' = LockCount + 1
    /\ \/ /\ LockCount' = 0
          /\ Goto(t, "exclusive")
          /\ UNCHANGED WritersWaitingCount
       \/ /\ LockCount' # 0
          /\ Goto(t, "waitWriter")
          /\ WritersWaitingCount' = WritersWaitingCount + 1
    /\ UNCHANGED <<ReadersWaitingCount, ReadersEntryCount, objVars, grant, apcs>>

(* Mutation: a reader joins other readers past the waiting writers. *)
MayShareAlways == LockCount + 1 = 0 \/ ReadersEntryCount # 0

(* A reader joins when the lock is free, or when readers own it and no     *)
(* writer waits (labels ContentionShared and ContentionNoWriters).         *)
MayShare ==
    \/ LockCount + 1 = 0
    \/ ReadersEntryCount # 0 /\ WritersWaitingCount = 0

(* ExAcquireReadWriteLockShared, up to STI. *)
AcquireShared(t) ==
    /\ pc[t] = "idle"
    /\ LockCount' = LockCount + 1
    /\ \/ /\ MayShare
          /\ Goto(t, "shared")
          /\ ReadersEntryCount' = ReadersEntryCount + 1
          /\ UNCHANGED ReadersWaitingCount
       \/ /\ ~MayShare
          /\ Goto(t, "waitReader")
          /\ ReadersWaitingCount' = ReadersWaitingCount + 1
          /\ UNCHANGED ReadersEntryCount
    /\ UNCHANGED <<WritersWaitingCount, objVars, grant, apcs>>

(* The last owner leaves and nobody waits. *)
ReleaseFree(t) ==
    /\ LockCount - 1 < 0
    /\ ReadersEntryCount' = 0
    /\ Goto(t, "idle")
    /\ UNCHANGED <<WritersWaitingCount, ReadersWaitingCount, grant>>

(* Mutation: the last reader leaves without waking the writer. *)
ReleaseByReaderSilently(t) ==
    /\ LockCount - 1 >= 0
    /\ ReadersEntryCount # 0
    /\ ReadersEntryCount' = ReadersEntryCount - 1
    /\ Goto(t, "idle")
    /\ UNCHANGED <<WritersWaitingCount, ReadersWaitingCount, grant>>

(* ReleaseByReader: a reader leaves and other readers stay. *)
ReleaseByReader(t) ==
    /\ LockCount - 1 >= 0
    /\ ReadersEntryCount # 0
    /\ ReadersEntryCount' = ReadersEntryCount - 1
    /\ \/ /\ ReadersEntryCount' # 0
          /\ Goto(t, "idle")
          /\ UNCHANGED WritersWaitingCount
       \/ /\ ReadersEntryCount' = 0
          /\ WritersWaitingCount' = WritersWaitingCount - 1
          /\ Goto(t, "setEvent")
    /\ UNCHANGED <<ReadersWaitingCount, grant>>

(* ReleaseByWriter: every waiting reader goes first, else the next writer. *)
ReleaseByWriter(t) ==
    /\ LockCount - 1 >= 0
    /\ ReadersEntryCount = 0
    /\ \/ /\ ReadersWaitingCount = 0
          /\ WritersWaitingCount' = WritersWaitingCount - 1
          /\ Goto(t, "setEvent")
          /\ UNCHANGED <<ReadersWaitingCount, ReadersEntryCount, grant>>
       \/ /\ ReadersWaitingCount # 0
          /\ ReadersEntryCount' = ReadersWaitingCount
          /\ ReadersWaitingCount' = 0
          /\ grant' = [grant EXCEPT ![t] = ReadersWaitingCount]
          /\ Goto(t, "releaseSem")
          /\ UNCHANGED WritersWaitingCount

(* ExReleaseReadWriteLock, up to STI.  One routine serves both kinds of    *)
(* owner: it looks at ReadersEntryCount, not at who calls.                 *)
Release(t) ==
    /\ pc[t] \in {"exclusive", "shared"}
    /\ LockCount' = LockCount - 1
    /\ ReleaseFree(t) \/ ReleaseByReader(t) \/ ReleaseByWriter(t)
    /\ UNCHANGED <<objVars, apcs>>

-----------------------------------------------------------------------------
(* KeWaitForSingleObject on WriterEvent: take the signal or block. *)
WaitWriter(t) ==
    /\ pc[t] = "waitWriter"
    /\ \/ /\ WriterEvent > 0
          /\ WriterEvent' = 0
          /\ Goto(t, "exclusive")
          /\ UNCHANGED writerQueue
       \/ /\ WriterEvent = 0
          /\ writerQueue' = Append(writerQueue, t)
          /\ Goto(t, "blockWriter")
          /\ UNCHANGED WriterEvent
    /\ UNCHANGED <<lockVars, ReaderSemaphore, readerQueue, grant, apcs>>

(* KeWaitForSingleObject on ReaderSemaphore. *)
WaitReader(t) ==
    /\ pc[t] = "waitReader"
    /\ \/ /\ ReaderSemaphore > 0
          /\ ReaderSemaphore' = ReaderSemaphore - 1
          /\ Goto(t, "shared")
          /\ UNCHANGED readerQueue
       \/ /\ ReaderSemaphore = 0
          /\ readerQueue' = Append(readerQueue, t)
          /\ Goto(t, "blockReader")
          /\ UNCHANGED ReaderSemaphore
    /\ UNCHANGED <<lockVars, WriterEvent, writerQueue, grant, apcs>>

(* KeSetEvent: the first waiter gets the signal, else it stays in the event. *)
SetWriterEvent(t) ==
    /\ pc[t] = "setEvent"
    /\ \/ /\ writerQueue = <<>>
          /\ WriterEvent' = 1
          /\ Goto(t, "idle")
          /\ UNCHANGED writerQueue
       \/ /\ writerQueue # <<>>
          /\ writerQueue' = Tail(writerQueue)
          /\ pc' = [pc EXCEPT ![t] = "idle", ![Head(writerQueue)] = "exclusive"]
          /\ UNCHANGED WriterEvent
    /\ UNCHANGED <<lockVars, ReaderSemaphore, readerQueue, grant, apcs>>

(* KeReleaseSemaphore by EAX: wake the first waiters, keep what is left.   *)
(* An adjustment of zero would leave the state unchanged.                  *)
ReleaseReaderSemaphore(t) ==
    LET total == ReaderSemaphore + grant[t]
        woken == IF total < Len(readerQueue) THEN total ELSE Len(readerQueue)
        wake  == {readerQueue[i] : i \in 1..woken}
    IN  /\ pc[t] = "releaseSem"
        /\ ReaderSemaphore' = total - woken
        /\ readerQueue' = SubSeq(readerQueue, woken + 1, Len(readerQueue))
        /\ pc' = [u \in Thread |-> IF u = t THEN "idle"
                                   ELSE IF u \in wake THEN "shared" ELSE pc[u]]
        /\ grant' = [grant EXCEPT ![t] = 0]
        /\ UNCHANGED <<lockVars, WriterEvent, writerQueue, apcs>>

(* KiInsertQueueApc: a kernel APC unwaits the thread (STATUS_KERNEL_APC)   *)
(* and the wait loop starts over, at the tail of the list.                 *)
KernelApc(t) ==
    /\ apcs < MaxApc
    /\ apcs' = apcs + 1
    /\ \/ /\ pc[t] = "blockWriter"
          /\ writerQueue' = Unlink(writerQueue, t)
          /\ Goto(t, "waitWriter")
          /\ UNCHANGED readerQueue
       \/ /\ pc[t] = "blockReader"
          /\ readerQueue' = Unlink(readerQueue, t)
          /\ Goto(t, "waitReader")
          /\ UNCHANGED writerQueue
    /\ UNCHANGED <<lockVars, WriterEvent, ReaderSemaphore, grant>>

Wait(t)   == WaitWriter(t) \/ WaitReader(t)
Signal(t) == SetWriterEvent(t) \/ ReleaseReaderSemaphore(t)

Next == \E t \in Thread :
            \/ AcquireExclusive(t) \/ AcquireShared(t) \/ Release(t)
            \/ Wait(t) \/ Signal(t) \/ KernelApc(t)

(* A thread in the middle of a routine runs on, and an owner leaves.  *)
Fairness == \A t \in Thread : WF_vars(Release(t) \/ Wait(t) \/ Signal(t))

Spec == Init /\ [][Next]_vars /\ Fairness

-----------------------------------------------------------------------------
In(where)  == {t \in Thread : pc[t] \in where}
Writers    == In({"exclusive"})
Readers    == In({"shared"})
QueuedWriters == In({"waitWriter", "blockWriter"})
QueuedReaders == In({"waitReader", "blockReader"})

TypeOK ==
    /\ LockCount \in Int
    /\ WritersWaitingCount \in Int
    /\ ReadersWaitingCount \in Int
    /\ ReadersEntryCount \in Int
    /\ WriterEvent \in {0, 1}
    /\ ReaderSemaphore \in Nat
    /\ writerQueue \in Seq(Thread)
    /\ readerQueue \in Seq(Thread)
    /\ pc \in [Thread -> Where]
    /\ grant \in [Thread -> Nat]
    /\ apcs \in Nat

-----------------------------------------------------------------------------
(* The four counts of the lock against the threads that stand behind them. *)
(* A signal that is on its way to a waiter (in WriterEvent, in             *)
(* ReaderSemaphore, or still to be given by a releasing thread) has        *)
(* already been taken off the waiting count and, for readers, added to the *)
(* entry count.                                                            *)
WriterGrants == WriterEvent + Cardinality(In({"setEvent"}))

Releasing == In({"releaseSem"})
ReaderGrants ==
    ReaderSemaphore +
    (IF Releasing = {} THEN 0 ELSE grant[CHOOSE t \in Releasing : TRUE])

CountsOK ==
    /\ TypeOK
    /\ LockCount + 1 = Cardinality(In(Where \ {"idle", "setEvent", "releaseSem"}))
    /\ WritersWaitingCount + WriterGrants = Cardinality(QueuedWriters)
    /\ ReadersWaitingCount + ReaderGrants = Cardinality(QueuedReaders)
    /\ ReadersEntryCount = Cardinality(Readers) + ReaderGrants
    /\ WritersWaitingCount >= 0 /\ ReadersWaitingCount >= 0

(* Nobody sleeps on a lock that nobody is going to release: while a thread *)
(* waits, an owner, a releasing thread, or a signal that a waiter of the   *)
(* right kind is about to take still exists.  The releases decide from the *)
(* counts alone whom to wake, so a wrong count is a thread lost for good.  *)
NoStrandedWaiter ==
    /\ CountsOK
    /\ QueuedWriters \cup QueuedReaders # {} =>
          \/ In({"exclusive", "shared", "setEvent", "releaseSem"}) # {}
          \/ WriterEvent = 1 /\ In({"waitWriter"}) # {}
          \/ ReaderSemaphore > 0 /\ In({"waitReader"}) # {}

(* Every thread that asks for the lock gets it, writers and readers alike: *)
(* waiting writers keep new readers out, and a writer that leaves lets     *)
(* every waiting reader in before the next writer.                         *)
EveryWaiterServed ==
    \A t \in Thread :
        pc[t] \in {"waitWriter", "blockWriter", "waitReader", "blockReader"}
            ~> pc[t] \in {"exclusive", "shared"}

(* What the lock promises its users, see RwLockSpec. *)
Phase == [t \in Thread |->
            CASE pc[t] \in {"waitWriter", "blockWriter"} -> "wantsWrite"
              [] pc[t] \in {"waitReader", "blockReader"} -> "wantsRead"
              [] pc[t] = "exclusive" -> "writing"
              [] pc[t] = "shared" -> "reading"
              [] pc[t] \in {"idle", "setEvent", "releaseSem"} -> "out"]

Promise == INSTANCE RwLockSpec WITH phase <- Phase
ImplementsRwLock == Promise!Spec
=============================================================================
