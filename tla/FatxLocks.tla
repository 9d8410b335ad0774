----------------------------- MODULE FatxLocks -----------------------------
(***************************************************************************)
(* The two locks of a FATX volume as fatx/synch.c and fatx/fcbsup.c nest   *)
(* them: the volume mutex, an ERWLOCK (ExRwLock), is owned for reading or  *)
(* writing while the critical section ClusterCacheMutex (RtlCritSect) is   *)
(* entered, because readers change the cluster cache too.                  *)
(***************************************************************************)
EXTENDS RtlCritSect

CONSTANT MaxApc

ASSUME FatxLocksAssumption == IsFiniteSet(Thread) /\ MaxApc \in Nat

VARIABLES
    LockCount, WritersWaitingCount, ReadersWaitingCount, ReadersEntryCount,
    WriterEvent, ReaderSemaphore, writerQueue, readerQueue, pc, grant, apcs

INSTANCE ExRwLock

volumeVars == <<LockCount, WritersWaitingCount, ReadersWaitingCount, ReadersEntryCount,
                WriterEvent, ReaderSemaphore, writerQueue, readerQueue, pc, grant>>
locksVars == <<volumeVars, apcs, sectionVars>>

LocksInit == Init /\ SectionInit

(* A thread is in one routine at a time.  It asks for the volume and gives *)
(* it up outside the section, and enters the section as an owner.          *)
Volume(t) ==
    /\ at[t] = "caller" /\ depth[t] = 0
    /\ AcquireExclusive(t) \/ AcquireShared(t) \/ Release(t) \/ Wait(t) \/ Signal(t)
    /\ UNCHANGED sectionVars

ClusterCache(t) ==
    /\ pc[t] \in {"exclusive", "shared"}
    /\ Enter(t) \/ TryEnter(t) \/ Leave(t) \/ Runs(t)
    /\ UNCHANGED <<volumeVars, apcs>>

(* A kernel APC for a thread that is blocked, on whichever lock. *)
LocksApc(t) ==
    \/ KernelApc(t) /\ UNCHANGED sectionVars
    \/ apcs < MaxApc /\ apcs' = apcs + 1 /\ BreakWait(t)
       /\ UNCHANGED volumeVars

LocksNext == \E t \in Thread : Volume(t) \/ ClusterCache(t) \/ LocksApc(t)

(* A thread in a routine runs on.  An owner leaves in the end, the section *)
(* for the last time and then the volume, whatever else it does before.    *)
Called(t) ==
    \/ Volume(t) /\ pc[t] \notin {"idle", "exclusive", "shared"}
    \/ ClusterCache(t) /\ at[t] # "caller"
Leaves(t) == ClusterCache(t) /\ at[t] = "caller" /\ depth'[t] < depth[t]
GivesUp(t) == Volume(t) /\ pc[t] \in {"exclusive", "shared"}

LocksFairness ==
    \A t \in Thread :
        /\ WF_locksVars(Called(t) \/ Leaves(t))
        /\ SF_locksVars(Leaves(t) /\ depth[t] = 1) /\ SF_locksVars(GivesUp(t))

LocksSpec == LocksInit /\ [][LocksNext]_locksVars /\ LocksFairness
=============================================================================
