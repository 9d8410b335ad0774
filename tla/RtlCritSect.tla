---------------------------- MODULE RtlCritSect ----------------------------
(***************************************************************************)
(* The critical section of rtl/i386/critsect.asm.  It takes no lock: a     *)
(* thread can lose the processor to another after every instruction, so    *)
(* every instruction that touches the section is a step.                   *)
(*                                                                         *)
(* The section begins with the event its waiters block on.  A signal is    *)
(* handed to the thread that has waited longest, which is then neither     *)
(* waiting nor the owner until it has run.  A kernel APC makes a blocked   *)
(* thread start its wait again at the end of the list.                     *)
(*                                                                         *)
(* The AndRegion routines do the same to the section; what they do to      *)
(* KernelApcDisable is left out.                                           *)
(***************************************************************************)
EXTENDS WaitLists

CONSTANTS
    Thread, NoThread,
    MaxDepth        \* bound: how often a thread enters before it leaves

ASSUME RtlCritSectAssumption == NoThread \notin Thread /\ MaxDepth \in Nat \ {0}

VARIABLES
    SectionLock,    \* RTL_CRITICAL_SECTION.LockCount, -1 when free
    RecursionCount,
    OwningThread,
    event,          \* signal state of the event
    waiters,        \* the threads blocked on it, in order
    at,             \* the next instruction of each thread
    depth           \* how often each thread has entered and not left

sectionVars == <<SectionLock, RecursionCount, OwningThread, event, waiters, at, depth>>

Instruction ==
    {"caller",                              \* in no routine of the section
     "compare", "recur",                    \* Ent20 and after it
     "wait", "blocked",                     \* Ent30; in KeWaitForSingleObject
     "own", "count",                        \* Ent10
     "tryCompare", "tryRecur",              \* tec10, tec20
     "unlock", "clear", "release", "signal"} \* leave_recurs; RtlLeaveCriticalSection

(* RtlInitializeCriticalSection *)
SectionInit ==
    /\ SectionLock = -1
    /\ RecursionCount = 0
    /\ OwningThread = NoThread
    /\ event = 0
    /\ waiters = <<>>
    /\ at = [t \in Thread |-> "caller"]
    /\ depth = [t \in Thread |-> 0]

Goes(t, i) == at' = [at EXCEPT ![t] = i]
Entered(t) == depth' = [depth EXCEPT ![t] = @ + 1]

-----------------------------------------------------------------------------
(* RtlEnterCriticalSection, which waits, and RtlTryEnterCriticalSection.   *)

Enter(t) ==
    /\ at[t] = "caller" /\ depth[t] < MaxDepth
    /\ SectionLock' = SectionLock + 1
    /\ Goes(t, IF SectionLock' = 0 THEN "own" ELSE "compare")
    /\ UNCHANGED <<RecursionCount, OwningThread, event, waiters, depth>>

TryEnter(t) ==
    /\ at[t] = "caller" /\ depth[t] < MaxDepth
    /\ SectionLock' = IF SectionLock = -1 THEN 0 ELSE SectionLock
    /\ Goes(t, IF SectionLock = -1 THEN "own" ELSE "tryCompare")
    /\ UNCHANGED <<RecursionCount, OwningThread, event, waiters, depth>>

Compare(t) ==
    /\ at[t] = "compare"
    /\ Goes(t, IF OwningThread = t THEN "recur" ELSE "wait")
    /\ UNCHANGED <<SectionLock, RecursionCount, OwningThread, event, waiters, depth>>

(* The attempt fails if somebody else owns the section. *)
TryCompare(t) ==
    /\ at[t] = "tryCompare"
    /\ Goes(t, IF OwningThread = t THEN "tryRecur" ELSE "caller")
    /\ UNCHANGED <<SectionLock, RecursionCount, OwningThread, event, waiters, depth>>

TryRecur(t) ==
    /\ at[t] = "tryRecur"
    /\ SectionLock' = SectionLock + 1
    /\ Goes(t, "recur")
    /\ UNCHANGED <<RecursionCount, OwningThread, event, waiters, depth>>

Recur(t) ==
    /\ at[t] = "recur"
    /\ RecursionCount' = RecursionCount + 1
    /\ Goes(t, "caller") /\ Entered(t)
    /\ UNCHANGED <<SectionLock, OwningThread, event, waiters>>

Own(t) ==
    /\ at[t] = "own"
    /\ OwningThread' = t
    /\ Goes(t, "count")
    /\ UNCHANGED <<SectionLock, RecursionCount, event, waiters, depth>>

Count(t) ==
    /\ at[t] = "count"
    /\ RecursionCount' = 1
    /\ Goes(t, "caller") /\ Entered(t)
    /\ UNCHANGED <<SectionLock, OwningThread, event, waiters>>

(* KeWaitForSingleObject on the section's event. *)
WaitEvent(t) ==
    /\ at[t] = "wait"
    /\ \/ /\ event = 1
          /\ event' = 0
          /\ Goes(t, "own")
          /\ UNCHANGED waiters
       \/ /\ event = 0
          /\ waiters' = Append(waiters, t)
          /\ Goes(t, "blocked")
          /\ UNCHANGED event
    /\ UNCHANGED <<SectionLock, RecursionCount, OwningThread, depth>>

-----------------------------------------------------------------------------
(* RtlLeaveCriticalSection.                                                *)

Leave(t) ==
    /\ at[t] = "caller" /\ depth[t] > 0
    /\ RecursionCount' = RecursionCount - 1
    /\ depth' = [depth EXCEPT ![t] = @ - 1]
    /\ Goes(t, IF RecursionCount' = 0 THEN "clear" ELSE "unlock")
    /\ UNCHANGED <<SectionLock, OwningThread, event, waiters>>

Unlock(t) ==
    /\ at[t] = "unlock"
    /\ SectionLock' = SectionLock - 1
    /\ Goes(t, "caller")
    /\ UNCHANGED <<RecursionCount, OwningThread, event, waiters, depth>>

(* Mutation: the owner stays written in the section. *)
ClearNothing(t) ==
    /\ at[t] = "clear"
    /\ Goes(t, "release")
    /\ UNCHANGED <<SectionLock, RecursionCount, OwningThread, event, waiters, depth>>

Clear(t) ==
    /\ at[t] = "clear"
    /\ OwningThread' = NoThread
    /\ Goes(t, "release")
    /\ UNCHANGED <<SectionLock, RecursionCount, event, waiters, depth>>

(* Mutation: a single waiter is taken for none. *)
ReleaseForMany(t) ==
    /\ at[t] = "release"
    /\ SectionLock' = SectionLock - 1
    /\ Goes(t, IF SectionLock' > 0 THEN "signal" ELSE "caller")
    /\ UNCHANGED <<RecursionCount, OwningThread, event, waiters, depth>>

SectionRelease(t) ==
    /\ at[t] = "release"
    /\ SectionLock' = SectionLock - 1
    /\ Goes(t, IF SectionLock' >= 0 THEN "signal" ELSE "caller")
    /\ UNCHANGED <<RecursionCount, OwningThread, event, waiters, depth>>

(* KeSetEvent: the first waiter has it, or it stays. *)
SetEvent(t) ==
    /\ at[t] = "signal"
    /\ \/ /\ waiters = <<>>
          /\ event' = 1
          /\ Goes(t, "caller")
          /\ UNCHANGED waiters
       \/ /\ waiters # <<>>
          /\ waiters' = Tail(waiters)
          /\ at' = [at EXCEPT ![t] = "caller", ![Head(waiters)] = "own"]
          /\ UNCHANGED event
    /\ UNCHANGED <<SectionLock, RecursionCount, OwningThread, depth>>

(* KiInsertQueueApc and the loop of KeWaitForSingleObject. *)
BreakWait(t) ==
    /\ at[t] = "blocked"
    /\ waiters' = Unlink(waiters, t)
    /\ Goes(t, "wait")
    /\ UNCHANGED <<SectionLock, RecursionCount, OwningThread, event, depth>>

-----------------------------------------------------------------------------
(* What a thread does once it has called, and what it does as the caller.  *)
Runs(t) ==
    \/ Compare(t) \/ TryCompare(t) \/ TryRecur(t) \/ Recur(t) \/ Own(t) \/ Count(t)
    \/ WaitEvent(t)
    \/ Unlock(t) \/ Clear(t) \/ SectionRelease(t) \/ SetEvent(t)

SectionNext ==
    \E t \in Thread : Enter(t) \/ TryEnter(t) \/ Leave(t) \/ Runs(t) \/ BreakWait(t)

SectionSpec == SectionInit /\ [][SectionNext]_sectionVars

-----------------------------------------------------------------------------
(* Properties.                                                             *)

(* The section excludes and counts: threads that have entered it and not   *)
(* left are one thread, the one it names, as many times as it counts,      *)
(* although the thread it was handed to names itself only later.           *)
SectionOwned ==
    \A t \in Thread :
        depth[t] > 0 =>
            /\ OwningThread = t
            /\ \A u \in Thread \ {t} : depth[u] = 0
            /\ RecursionCount = depth[t]

(* Whoever calls RtlEnterCriticalSection gets in. *)
EveryEntererServed ==
    \A t \in Thread : at[t] \in {"compare", "wait", "blocked"} ~> depth[t] > 0
=============================================================================
