------------------------------- MODULE KeWait -------------------------------
(***************************************************************************)
(* Waiting for and signalling dispatcher objects: ke/wait.c, ke/waitsup.c, *)
(* ke/eventobj.c, ke/semphobj.c, ke/mutntobj.c, and what ke/thredobj.c and *)
(* ke/apcsup.c do to a thread that waits.                                  *)
(*                                                                         *)
(* The dispatcher database is locked by raising IRQL on the one processor, *)
(* so a routine that locks it once is one step.  Two things outlast a      *)
(* step: the loop of KiWaitTest, one wait block per step, and the lock a   *)
(* signalling call keeps for the wait that follows it (Wait = TRUE).       *)
(*                                                                         *)
(* Left out: which runnable thread runs (priority, quantum), the interval  *)
(* of a timeout (a timer may expire at any moment after its insertion),    *)
(* and what the routine of an APC does.                                    *)
(***************************************************************************)
EXTENDS WaitLists

CONSTANTS
    Thread,             \* every thread is also a dispatcher object
    Notification,       \* NotificationEvent objects
    Synchronization,    \* SynchronizationEvent objects
    Semaphore,
    Mutant,
    Limit,              \* KSEMAPHORE.Limit
    MinSignal,          \* stands for MINLONG, the deepest mutant recursion
    WaitRequest,        \* the waits threads issue
    NoRequest,
    AlertMode,          \* modes threads are alerted in
    MaxUserApc,         \* bound: user APCs queued to a thread
    NoThread, NoObject,
    Dpc                 \* a deferred procedure call as the caller

Object == Notification \cup Synchronization \cup Semaphore \cup Mutant \cup Thread
Event  == Notification \cup Synchronization
Modes  == {"kernel", "user"}

RequestType ==
    [objs : Seq(Object), all : BOOLEAN, mode : Modes, alertable : BOOLEAN,
     timeout : {"none", "zero", "finite"}, passive : BOOLEAN]

(* An object occurs once in a wait: NtWaitForMultipleObjectsEx refuses a    *)
(* WaitAll that names one twice (obx/obwait.c); a WaitAny that does is left *)
(* out.                                                                     *)
ASSUME KeWaitAssumption ==
    /\ Limit \in Nat \ {0} /\ MinSignal \in Int /\ MinSignal <= 0
    /\ MaxUserApc \in Nat /\ AlertMode \subseteq Modes
    /\ \A r \in WaitRequest :
            r \in RequestType /\ r.objs # <<>> /\ IsInjective(r.objs)
    /\ NoRequest \notin WaitRequest /\ NoObject \notin Object
    /\ NoThread \notin Thread /\ Dpc \notin Thread /\ Dpc # NoThread
    /\ \A S \in {Notification, Synchronization, Semaphore, Thread} :
            Mutant \cap S = {}
    /\ \A S \in {Notification, Synchronization, Thread} : Semaphore \cap S = {}
    /\ Thread \cap Event = {} /\ Notification \cap Synchronization = {}

VARIABLES
    signal,         \* DISPATCHER_HEADER.SignalState
    waitList,       \* DISPATCHER_HEADER.WaitListHead: the threads, in order
    owner,          \* KMUTANT.OwnerThread
    abandoned,      \* KMUTANT.Abandoned
    held,           \* KTHREAD.MutantListHead
    state,          \* KTHREAD.State
    request,        \* the wait a thread is in
    result,         \* KTHREAD.WaitStatus
    taken,          \* the objects that satisfied the wait (WaitKey)
    timer,          \* threads whose wait timer is inserted
    alerted,        \* KTHREAD.Alerted
    userApcs,       \* user APCs queued
    userApcPending, \* KAPC_STATE.UserApcPending
    lockOwner,      \* who holds the dispatcher database across steps
    scanObj,        \* the object KiWaitTest looks at
    scanRest,       \* the wait blocks it has still to look at
    after           \* what its caller does next

objVars   == <<signal, owner, abandoned, held>>
waitVars  == <<waitList, state, request, result, taken, timer>>
alertVars == <<alerted, userApcs, userApcPending>>
scanVars  == <<scanObj, scanRest, after>>
vars      == <<objVars, waitVars, alertVars, lockOwner, scanVars>>

States  == {"running",      \* runs or is ready to run
            "waiting",
            "returning",    \* its wait has ended, the call has not returned
            "exiting",      \* KeRundownThread has begun
            "drained",      \* its APC queues are closed
            "terminated"}
Results == {"none", "satisfied", "abandoned", "limit",
            "timeout", "alerted", "userApc", "kernelApc"}
After   == {"unlock", "keep", "pulse", "pulseKeep", "rundown", "terminate"}

Init ==
    /\ signal \in [Object -> 0..Limit]
    /\ \A o \in Object : \/ o \in Semaphore
                         \/ o \in Event /\ signal[o] \in {0, 1}
                         \/ o \in Mutant /\ signal[o] = 1
                         \/ o \in Thread /\ signal[o] = 0
    /\ waitList = [o \in Object |-> <<>>]
    /\ owner = [m \in Mutant |-> NoThread]
    /\ abandoned = [m \in Mutant |-> FALSE]
    /\ held = [t \in Thread |-> {}]
    /\ state = [t \in Thread |-> "running"]
    /\ request = [t \in Thread |-> NoRequest]
    /\ result = [t \in Thread |-> "none"]
    /\ taken = [t \in Thread |-> {}]
    /\ timer = {}
    /\ alerted = [t \in Thread |-> {}]
    /\ userApcs = [t \in Thread |-> 0]
    /\ userApcPending = [t \in Thread |-> FALSE]
    /\ lockOwner = NoThread
    /\ scanObj = NoObject
    /\ scanRest = <<>>
    /\ after = "unlock"

-----------------------------------------------------------------------------
(* The dispatcher database.                                                *)

CanCall(c) ==
    /\ lockOwner = NoThread
    /\ c = Dpc \/ (c \in Thread /\ state[c] = "running")

(* Leave a signalling routine: unlock, or keep the lock for the wait.      *)
Leave(c, keep) ==
    /\ lockOwner' = IF keep THEN c ELSE NoThread
    /\ UNCHANGED scanVars

(* Mutation: the list is walked from its tail. *)
WaitTestBackwards(c, o, next) ==
    /\ lockOwner' = c
    /\ scanObj' = o
    /\ scanRest' = Reverse(waitList[o])
    /\ after' = next

(* Enter KiWaitTest. *)
WaitTest(c, o, next) ==
    /\ lockOwner' = c
    /\ scanObj' = o
    /\ scanRest' = waitList[o]
    /\ after' = next

(* Mutation: the blocks behind the first stay linked. *)
UnwaitFirstBlock(t, status, objs) ==
    /\ waitList' = [waitList EXCEPT ![request[t].objs[1]] = Unlink(@, t)]
    /\ state' = [state EXCEPT ![t] = "returning"]
    /\ result' = [result EXCEPT ![t] = status]
    /\ taken' = [taken EXCEPT ![t] = objs]
    /\ timer' = timer \ {t}
    /\ UNCHANGED request

(* KiUnwaitThread: every wait block leaves its list, the timer is canceled. *)
Unwait(t, status, objs) ==
    /\ waitList' = [o \in Object |-> Unlink(waitList[o], t)]
    /\ state' = [state EXCEPT ![t] = "returning"]
    /\ result' = [result EXCEPT ![t] = status]
    /\ taken' = [taken EXCEPT ![t] = objs]
    /\ timer' = timer \ {t}
    /\ UNCHANGED request

(* A wait that ends at once: the call returns status, request is its wait. *)
EndAtOnce(t, r, status, objs) ==
    /\ state' = [state EXCEPT ![t] = "returning"]
    /\ request' = [request EXCEPT ![t] = r]
    /\ result' = [result EXCEPT ![t] = status]
    /\ taken' = [taken EXCEPT ![t] = objs]
    /\ UNCHANGED <<waitList, timer>>

-----------------------------------------------------------------------------
(* Satisfying a wait.                                                      *)

Available(o, t) == signal[o] > 0 \/ (o \in Mutant /\ owner[o] = t)

AtLimit(o, t) == o \in Mutant /\ owner[o] = t /\ signal[o] = MinSignal

(* The set of objects a wait takes when it is satisfiable: all of them, or *)
(* the available one of lowest index.                                      *)
Claims(t, r) ==
    LET ready == {i \in DOMAIN r.objs : Available(r.objs[i], t)}
    IN  IF r.all
        THEN IF ready = DOMAIN r.objs THEN {Range(r.objs)} ELSE {}
        ELSE {{r.objs[i]} : i \in {j \in ready : \A k \in ready : j <= k}}

Satisfiable(t, r) ==
    IF r.all THEN \A o \in Range(r.objs) : Available(o, t)
             ELSE \E o \in Range(r.objs) : Available(o, t)

(* SignalState after one wait has been satisfied. *)
Consumed(o) ==
    CASE o \in Synchronization -> 0
      [] o \in Semaphore \cup Mutant -> signal[o] - 1
      [] OTHER -> signal[o]

(* KiWaitSatisfyAny, KiWaitSatisfyAll, KiWaitSatisfyMutant and             *)
(* KiWaitSatisfyOther, for the objects S of a wait of t.                   *)
Acquired(S) == {m \in S \cap Mutant : signal[m] = 1}

Satisfy(t, S) ==
    /\ signal' = [o \in Object |-> IF o \in S THEN Consumed(o) ELSE signal[o]]
    /\ owner' = [m \in Mutant |-> IF m \in Acquired(S) THEN t ELSE owner[m]]
    /\ abandoned' = [m \in Mutant |-> abandoned[m] /\ m \notin Acquired(S)]
    /\ held' = [held EXCEPT ![t] = @ \cup Acquired(S)]

(* Mutation: the new owner is not told. *)
SatisfiedAlways(S) == "satisfied"

SatisfiedStatus(S) ==
    IF \E m \in Acquired(S) : abandoned[m] THEN "abandoned" ELSE "satisfied"

(* TestForAlertPending. *)
AlertStatus(t, r) ==
    CASE r.alertable /\ r.mode \in alerted[t] -> "alerted"
      [] r.alertable /\ r.mode = "user" /\ r.mode \notin alerted[t]
            /\ userApcs[t] > 0 -> "userApc"
      [] r.alertable /\ r.mode \notin alerted[t] /\ "kernel" \in alerted[t]
            /\ ~(r.mode = "user" /\ userApcs[t] > 0) -> "alerted"
      [] ~r.alertable /\ r.mode = "user" /\ userApcPending[t] -> "userApc"
      [] OTHER -> "none"

-----------------------------------------------------------------------------
(* KeWaitForSingleObject and KeWaitForMultipleObjects, one pass of the     *)
(* loop, with the dispatcher database locked by the caller.                *)

(* KernelApcPending below APC_LEVEL: unlock, take the APC, start over. *)
ApcFirst(t, r) ==
    /\ r.passive
    /\ EndAtOnce(t, r, "kernelApc", {})
    /\ UNCHANGED <<objVars, alertVars>>

LimitExceeded(t, r) ==
    IF r.all THEN \E o \in Range(r.objs) : AtLimit(o, t)
             ELSE \E S \in Claims(t, r) : \E o \in S : AtLimit(o, t)

RaiseLimit(t, r) ==
    /\ LimitExceeded(t, r)
    /\ EndAtOnce(t, r, "limit", {})
    /\ UNCHANGED <<objVars, alertVars>>

TakeNow(t, r) ==
    /\ ~LimitExceeded(t, r)
    /\ \E S \in Claims(t, r) : /\ Satisfy(t, S)
                               /\ EndAtOnce(t, r, SatisfiedStatus(S), S)
    /\ UNCHANGED alertVars

CannotTake(t, r) == ~LimitExceeded(t, r) /\ ~Satisfiable(t, r)

Interrupted(t, r) ==
    /\ CannotTake(t, r)
    /\ AlertStatus(t, r) # "none"
    /\ EndAtOnce(t, r, AlertStatus(t, r), {})
    /\ \/ /\ AlertStatus(t, r) = "alerted"
          /\ alerted' = [alerted EXCEPT ![t] =
                            @ \ {IF r.mode \in @ THEN r.mode ELSE "kernel"}]
          /\ UNCHANGED userApcPending
       \/ /\ AlertStatus(t, r) = "userApc"
          /\ userApcPending' = [userApcPending EXCEPT ![t] = TRUE]
          /\ UNCHANGED alerted
    /\ UNCHANGED <<objVars, userApcs>>

(* A zero timeout, or KiInsertTreeTimer finds the due time in the past.    *)
TimedOut(t, r) ==
    /\ CannotTake(t, r)
    /\ AlertStatus(t, r) = "none"
    /\ r.timeout # "none"
    /\ EndAtOnce(t, r, "timeout", {})
    /\ UNCHANGED <<objVars, alertVars>>

(* Mutation: a wait that starts over forgets its timeout. *)
BlockUntimed(t, r) ==
    /\ CannotTake(t, r)
    /\ AlertStatus(t, r) = "none"
    /\ r.timeout # "zero"
    /\ waitList' = [o \in Object |-> IF o \in Range(r.objs)
                                     THEN Append(waitList[o], t) ELSE waitList[o]]
    /\ timer' = IF r.timeout = "finite" /\ state[t] = "running"
                THEN timer \cup {t} ELSE timer
    /\ state' = [state EXCEPT ![t] = "waiting"]
    /\ request' = [request EXCEPT ![t] = r]
    /\ result' = [result EXCEPT ![t] = "none"]
    /\ taken' = [taken EXCEPT ![t] = {}]
    /\ UNCHANGED <<objVars, alertVars>>

Block(t, r) ==
    /\ CannotTake(t, r)
    /\ AlertStatus(t, r) = "none"
    /\ r.timeout # "zero"
    /\ waitList' = [o \in Object |-> IF o \in Range(r.objs)
                                     THEN Append(waitList[o], t) ELSE waitList[o]]
    /\ timer' = IF r.timeout = "finite" THEN timer \cup {t} ELSE timer
    /\ state' = [state EXCEPT ![t] = "waiting"]
    /\ request' = [request EXCEPT ![t] = r]
    /\ result' = [result EXCEPT ![t] = "none"]
    /\ taken' = [taken EXCEPT ![t] = {}]
    /\ UNCHANGED <<objVars, alertVars>>

WaitPass(t, r) ==
    /\ \/ ApcFirst(t, r) \/ RaiseLimit(t, r) \/ TakeNow(t, r)
       \/ Interrupted(t, r) \/ TimedOut(t, r) \/ Block(t, r)
    /\ lockOwner' = NoThread
    /\ UNCHANGED scanVars

(* The call: with the lock free, or kept for it by the caller's signal.    *)
Wait(t, r) ==
    /\ state[t] = "running"
    /\ lockOwner = NoThread \/ (lockOwner = t /\ scanObj = NoObject)
    /\ WaitPass(t, r)

(* The thread runs again after its wait: back into the loop when a kernel  *)
(* APC ended it (after the timeout has been recomputed), else out of the   *)
(* call, through KiDeliverUserApc if a user APC did.                       *)
Rewait(t) ==
    /\ state[t] = "returning" /\ lockOwner = NoThread
    /\ result[t] = "kernelApc"
    /\ WaitPass(t, request[t])

Return(t) ==
    /\ state[t] = "returning" /\ lockOwner = NoThread
    /\ result[t] # "kernelApc"
    /\ state' = [state EXCEPT ![t] = "running"]
    /\ request' = [request EXCEPT ![t] = NoRequest]
    /\ result' = [result EXCEPT ![t] = "none"]
    /\ taken' = [taken EXCEPT ![t] = {}]
    /\ \/ /\ result[t] = "userApc"
          /\ userApcs' = [userApcs EXCEPT ![t] = 0]
          /\ userApcPending' = [userApcPending EXCEPT ![t] = FALSE]
       \/ /\ result[t] # "userApc"
          /\ UNCHANGED <<userApcs, userApcPending>>
    /\ UNCHANGED <<objVars, waitList, timer, alerted, lockOwner, scanVars>>

-----------------------------------------------------------------------------
(* Signalling.  "keep" is the argument Wait; only a thread passes it, and  *)
(* NtSignalAndWaitForSingleObjectEx waits next.                            *)

SetSignal(o, n) == signal' = [signal EXCEPT ![o] = n]

KeSetEvent(c, e, keep) ==
    /\ CanCall(c) /\ (keep => c \in Thread)
    /\ \/ /\ waitList[e] = <<>>
          /\ SetSignal(e, 1)
          /\ Leave(c, keep)
          /\ UNCHANGED waitVars
       \/ /\ waitList[e] # <<>>
          /\ e \in Notification \/ request[Head(waitList[e])].all
          /\ signal[e] = 0
          /\ SetSignal(e, 1)
          /\ WaitTest(c, e, IF keep THEN "keep" ELSE "unlock")
          /\ UNCHANGED waitVars
       \/ /\ waitList[e] # <<>>
          /\ e \in Notification \/ request[Head(waitList[e])].all
          /\ signal[e] # 0
          /\ Leave(c, keep)
          /\ UNCHANGED <<signal, waitVars>>
       \/ /\ waitList[e] # <<>>
          /\ e \in Synchronization /\ ~request[Head(waitList[e])].all
          /\ Unwait(Head(waitList[e]), "satisfied", {e})
          /\ Leave(c, keep)
          /\ UNCHANGED signal
    /\ UNCHANGED <<owner, abandoned, held, alertVars>>

KeResetEvent(c, e) ==
    /\ CanCall(c)
    /\ SetSignal(e, 0)
    /\ UNCHANGED <<owner, abandoned, held, waitVars, alertVars, lockOwner, scanVars>>

KePulseEvent(c, e, keep) ==
    /\ CanCall(c) /\ (keep => c \in Thread)
    /\ \/ /\ signal[e] = 0 /\ waitList[e] # <<>>
          /\ SetSignal(e, 1)
          /\ WaitTest(c, e, IF keep THEN "pulseKeep" ELSE "pulse")
       \/ /\ signal[e] # 0 \/ waitList[e] = <<>>
          /\ SetSignal(e, 0)
          /\ Leave(c, keep)
    /\ UNCHANGED <<owner, abandoned, held, waitVars, alertVars>>

(* Beyond the limit the call raises and changes nothing. *)
KeReleaseSemaphore(c, s, adjustment, keep) ==
    /\ CanCall(c) /\ (keep => c \in Thread)
    /\ signal[s] + adjustment <= Limit
    /\ SetSignal(s, signal[s] + adjustment)
    /\ IF signal[s] = 0 /\ waitList[s] # <<>>
       THEN WaitTest(c, s, IF keep THEN "keep" ELSE "unlock")
       ELSE Leave(c, keep)
    /\ UNCHANGED <<owner, abandoned, held, waitVars, alertVars>>

(* RemoveEntryList of the mutant's entry, from whichever list holds it. *)
Unheld(m) == [t \in Thread |-> held[t] \ {m}]

(* Abandoned = FALSE.  A caller that is not the owner gets an exception.   *)
KeReleaseMutant(t, m, keep) ==
    /\ CanCall(t) /\ owner[m] = t
    /\ SetSignal(m, signal[m] + 1)
    /\ \/ /\ signal[m] + 1 = 1
          /\ held' = Unheld(m)
          /\ owner' = [owner EXCEPT ![m] = NoThread]
          /\ IF waitList[m] # <<>>
             THEN WaitTest(t, m, IF keep THEN "keep" ELSE "unlock")
             ELSE Leave(t, keep)
       \/ /\ signal[m] + 1 # 1
          /\ Leave(t, keep)
          /\ UNCHANGED <<held, owner>>
    /\ UNCHANGED <<abandoned, waitVars, alertVars>>

(* Mutation: the deleted mutant stays in the list of the thread that owns it. *)
RecycleOwnedMutant(t, m, initialOwner) ==
    /\ CanCall(t) /\ t \in Thread
    /\ waitList[m] = <<>>
    /\ \A u \in Thread : request[u] # NoRequest =>
                            m \notin Range(request[u].objs)
    /\ SetSignal(m, IF initialOwner THEN 0 ELSE 1)
    /\ owner' = [owner EXCEPT ![m] = IF initialOwner THEN t ELSE NoThread]
    /\ held' = IF initialOwner THEN [held EXCEPT ![t] = @ \cup {m}] ELSE held
    /\ abandoned' = [abandoned EXCEPT ![m] = FALSE]
    /\ UNCHANGED <<waitVars, alertVars, lockOwner, scanVars>>

(* Abandoned = TRUE, from the delete procedure ExpDeleteMutant: the last   *)
(* reference is gone, so nobody waits, and the storage serves a mutant     *)
(* that KeInitializeMutant sets up next, owned by its creator or not.      *)
RecycleMutant(t, m, initialOwner) ==
    LET freed == IF signal[m] <= 0 THEN Unheld(m) ELSE held
    IN  /\ CanCall(t) /\ t \in Thread
        /\ waitList[m] = <<>>
        /\ \A u \in Thread : request[u] # NoRequest =>
                                m \notin Range(request[u].objs)
        /\ SetSignal(m, IF initialOwner THEN 0 ELSE 1)
        /\ owner' = [owner EXCEPT ![m] = IF initialOwner THEN t ELSE NoThread]
        /\ held' = IF initialOwner THEN [freed EXCEPT ![t] = @ \cup {m}] ELSE freed
        /\ abandoned' = [abandoned EXCEPT ![m] = FALSE]
        /\ UNCHANGED <<waitVars, alertVars, lockOwner, scanVars>>

-----------------------------------------------------------------------------
(* KiWaitTest: one iteration of its loop, and what follows the loop.       *)

(* Mutation: a WaitAll takes the scanned object only. *)
ScanClaimOne(t) == {scanObj}

(* The objects a waiting thread takes when the scanned object wakes it. *)
ScanClaim(t) == IF request[t].all THEN Range(request[t].objs) ELSE {scanObj}

(* Mutation: the loop ends at the first wait it cannot satisfy. *)
ScanStepStops ==
    /\ scanObj # NoObject /\ signal[scanObj] > 0 /\ scanRest # <<>>
    /\ LET t == Head(scanRest)
       IN  \/ /\ request[t].all => Satisfiable(t, request[t])
              /\ Satisfy(t, ScanClaim(t))
              /\ Unwait(t, SatisfiedStatus(ScanClaim(t)), ScanClaim(t))
              /\ scanRest' = Tail(scanRest)
           \/ /\ request[t].all /\ ~Satisfiable(t, request[t])
              /\ UNCHANGED <<objVars, waitVars>>
              /\ scanRest' = <<>>
    /\ UNCHANGED <<alertVars, lockOwner, scanObj, after>>

ScanStep ==
    /\ scanObj # NoObject /\ signal[scanObj] > 0 /\ scanRest # <<>>
    /\ LET t == Head(scanRest)
       IN  \/ /\ request[t].all => Satisfiable(t, request[t])
              /\ Satisfy(t, ScanClaim(t))
              /\ Unwait(t, SatisfiedStatus(ScanClaim(t)), ScanClaim(t))
           \/ /\ request[t].all /\ ~Satisfiable(t, request[t])
              /\ UNCHANGED <<objVars, waitVars>>
    /\ scanRest' = Tail(scanRest)
    /\ UNCHANGED <<alertVars, lockOwner, scanObj, after>>

ScanOver == scanObj # NoObject /\ (signal[scanObj] <= 0 \/ scanRest = <<>>)

EndScan ==
    /\ scanObj' = NoObject
    /\ scanRest' = <<>>
    /\ after' = IF after = "rundown" THEN "rundown" ELSE "unlock"

(* KeSetEvent, KeReleaseSemaphore, KeReleaseMutant and KePulseEvent after  *)
(* KiWaitTest.                                                             *)
FinishSignal ==
    /\ ScanOver /\ after \in {"unlock", "keep", "pulse", "pulseKeep"}
    /\ IF after \in {"pulse", "pulseKeep"} THEN SetSignal(scanObj, 0)
                                           ELSE UNCHANGED signal
    /\ lockOwner' = IF after \in {"keep", "pulseKeep"} THEN lockOwner ELSE NoThread
    /\ EndScan
    /\ UNCHANGED <<owner, abandoned, held, waitVars, alertVars>>

-----------------------------------------------------------------------------
(* The end of a thread: PsTerminateSystemThread calls KeRundownThread,     *)
(* KeDisableApcQueuingThread and KeFlushQueueApc, and KeTerminateThread.   *)

KeRundownThread(t) ==
    /\ CanCall(t) /\ t \in Thread
    /\ state' = [state EXCEPT ![t] = "exiting"]
    /\ lockOwner' = t
    /\ after' = "rundown"
    /\ UNCHANGED <<objVars, waitList, request, result, taken, timer, alertVars,
                   scanObj, scanRest>>

(* One iteration of its loop: the mutant is abandoned and its waiters tested. *)
AbandonNext(m) ==
    /\ after = "rundown" /\ scanObj = NoObject
    /\ m \in held[lockOwner]
    /\ held' = Unheld(m)
    /\ SetSignal(m, 1)
    /\ abandoned' = [abandoned EXCEPT ![m] = TRUE]
    /\ owner' = [owner EXCEPT ![m] = NoThread]
    /\ WaitTest(lockOwner, m, "rundown")
    /\ UNCHANGED <<waitVars, alertVars>>

NextMutant ==
    /\ ScanOver /\ after = "rundown"
    /\ EndScan
    /\ UNCHANGED <<objVars, waitVars, alertVars, lockOwner>>

RundownDone ==
    /\ after = "rundown" /\ scanObj = NoObject
    /\ held[lockOwner] = {}
    /\ lockOwner' = NoThread
    /\ after' = "unlock"
    /\ UNCHANGED <<objVars, waitVars, alertVars, scanObj, scanRest>>

KeFlushQueueApc(t) ==
    /\ state[t] = "exiting" /\ lockOwner = NoThread
    /\ state' = [state EXCEPT ![t] = "drained"]
    /\ userApcs' = [userApcs EXCEPT ![t] = 0]
    /\ UNCHANGED <<objVars, waitList, request, result, taken, timer, alerted,
                   userApcPending, lockOwner, scanVars>>

KeTerminateThread(t) ==
    /\ state[t] = "drained" /\ lockOwner = NoThread
    /\ SetSignal(t, 1)
    /\ WaitTest(t, t, "terminate")
    /\ UNCHANGED <<owner, abandoned, held, waitVars, alertVars>>

Terminated ==
    /\ ScanOver /\ after = "terminate"
    /\ state' = [state EXCEPT ![lockOwner] = "terminated"]
    /\ lockOwner' = NoThread
    /\ EndScan
    /\ UNCHANGED <<objVars, waitList, request, result, taken, timer, alertVars>>

-----------------------------------------------------------------------------
(* Timers, alerts and APCs that end a wait.                                *)

(* KiTimerListExpire satisfies the timer wait block. *)
TimerExpire(t) ==
    /\ lockOwner = NoThread
    /\ t \in timer
    /\ Unwait(t, "timeout", {})
    /\ UNCHANGED <<objVars, alertVars, lockOwner, scanVars>>

(* Mutation: an alert ends only a wait of its own mode. *)
WaitsInSame(t, mode) ==
    state[t] = "waiting" /\ request[t].alertable /\ request[t].mode = mode

WaitsIn(t, mode) ==
    /\ state[t] = "waiting" /\ request[t].alertable
    /\ mode = "kernel" \/ request[t].mode = "user"

KeAlertThread(t, mode) ==
    /\ lockOwner = NoThread
    /\ mode \notin alerted[t] /\ state[t] # "terminated"
    /\ \/ /\ WaitsIn(t, mode)
          /\ Unwait(t, "alerted", {})
          /\ UNCHANGED alerted
       \/ /\ ~WaitsIn(t, mode)
          /\ alerted' = [alerted EXCEPT ![t] = @ \cup {mode}]
          /\ UNCHANGED waitVars
    /\ UNCHANGED <<objVars, userApcs, userApcPending, lockOwner, scanVars>>

KeTestAlertThread(t, mode) ==
    /\ CanCall(t) /\ t \in Thread
    /\ \/ /\ mode \in alerted[t]
          /\ alerted' = [alerted EXCEPT ![t] = @ \ {mode}]
          /\ UNCHANGED userApcPending
       \/ /\ mode \notin alerted[t] /\ mode = "user" /\ userApcs[t] > 0
          /\ userApcPending' = [userApcPending EXCEPT ![t] = TRUE]
          /\ UNCHANGED alerted
    /\ UNCHANGED <<objVars, waitVars, userApcs, lockOwner, scanVars>>

(* KiInsertQueueApc, a user APC. *)
InsertUserApc(t) ==
    /\ lockOwner = NoThread
    /\ state[t] \notin {"drained", "terminated"} /\ userApcs[t] < MaxUserApc
    /\ userApcs' = [userApcs EXCEPT ![t] = @ + 1]
    /\ \/ /\ WaitsIn(t, "user")
          /\ userApcPending' = [userApcPending EXCEPT ![t] = TRUE]
          /\ Unwait(t, "userApc", {})
       \/ /\ ~WaitsIn(t, "user")
          /\ UNCHANGED <<userApcPending, waitVars>>
    /\ UNCHANGED <<objVars, alerted, lockOwner, scanVars>>

(* KeRemoveQueueApc of a user APC that is still queued. *)
RemoveUserApc(t) ==
    /\ lockOwner = NoThread
    /\ userApcs[t] > 0
    /\ userApcs' = [userApcs EXCEPT ![t] = @ - 1]
    /\ userApcPending' = [userApcPending EXCEPT ![t] = @ /\ userApcs[t] > 1]
    /\ UNCHANGED <<objVars, waitVars, alerted, lockOwner, scanVars>>

(* KiInsertQueueApc, a kernel APC deliverable to a thread that waits below *)
(* APC_LEVEL.  To any other thread it changes nothing here.                *)
InsertKernelApc(t) ==
    /\ lockOwner = NoThread
    /\ state[t] = "waiting" /\ request[t].passive
    /\ Unwait(t, "kernelApc", {})
    /\ UNCHANGED <<objVars, alertVars, lockOwner, scanVars>>

-----------------------------------------------------------------------------
Signal ==
    \E c \in Thread \cup {Dpc}, keep \in BOOLEAN :
        \/ \E e \in Event : KeSetEvent(c, e, keep) \/ KePulseEvent(c, e, keep)
        \/ \E s \in Semaphore, n \in 1..Limit : KeReleaseSemaphore(c, s, n, keep)

Reset == \E c \in Thread \cup {Dpc}, e \in Event : KeResetEvent(c, e)

UseMutant ==
    \E t \in Thread, m \in Mutant, b \in BOOLEAN :
        KeReleaseMutant(t, m, b) \/ RecycleMutant(t, m, b)

Scan == ScanStep \/ FinishSignal \/ NextMutant \/ Terminated

Rundown == RundownDone \/ \E m \in Mutant : AbandonNext(m)

Exit(t) == KeFlushQueueApc(t) \/ KeTerminateThread(t)

Next ==
    \/ \E t \in Thread, r \in WaitRequest : Wait(t, r)
    \/ \E t \in Thread :
            \/ Rewait(t) \/ Return(t)
            \/ KeRundownThread(t) \/ Exit(t)
            \/ TimerExpire(t) \/ InsertUserApc(t) \/ RemoveUserApc(t)
            \/ InsertKernelApc(t)
            \/ \E mode \in AlertMode : KeAlertThread(t, mode)
            \/ \E mode \in AlertMode : KeTestAlertThread(t, mode)
    \/ Signal \/ Reset \/ UseMutant \/ Scan \/ Rundown

(* The routine that holds the dispatcher database runs to its end, also    *)
(* the wait a caller promises with Wait = TRUE; a thread whose wait has    *)
(* ended is scheduled.  An inserted timer expires even if kernel APCs take *)
(* the thread out of its wait and back again and again, because the due    *)
(* time stays what it was (KiComputeWaitInterval).                         *)
KeptWait(t) == lockOwner = t /\ \E r \in WaitRequest : Wait(t, r)

Fairness ==
    /\ WF_vars(Scan) /\ WF_vars(Rundown)
    /\ \A t \in Thread : /\ WF_vars(KeptWait(t))
                         /\ SF_vars(Rewait(t)) /\ SF_vars(Return(t))
                         /\ SF_vars(TimerExpire(t))

Spec     == Init /\ [][Next]_vars
FairSpec == Spec /\ Fairness

-----------------------------------------------------------------------------
TypeOK ==
    /\ signal \in [Object -> Int]
    /\ waitList \in [Object -> Seq(Thread)]
    /\ owner \in [Mutant -> Thread \cup {NoThread}]
    /\ abandoned \in [Mutant -> BOOLEAN]
    /\ held \in [Thread -> SUBSET Mutant]
    /\ state \in [Thread -> States]
    /\ request \in [Thread -> WaitRequest \cup {NoRequest}]
    /\ result \in [Thread -> Results]
    /\ taken \in [Thread -> SUBSET Object]
    /\ timer \subseteq Thread
    /\ alerted \in [Thread -> SUBSET Modes]
    /\ userApcs \in [Thread -> Nat]
    /\ userApcPending \in [Thread -> BOOLEAN]
    /\ lockOwner \in Thread \cup {NoThread, Dpc}
    /\ scanObj \in Object \cup {NoObject}
    /\ scanRest \in Seq(Thread)
    /\ after \in After

(* No wakeup is lost: a thread whose wait could be satisfied does not      *)
(* sleep, except while the scan that is about to reach it still runs.  The *)
(* signal routines look at one object, and only when it was not signaled   *)
(* before (KeSetEvent, KeReleaseSemaphore test OldState = 0); the objects  *)
(* of a WaitAll change one at a time.                                      *)
NoLostWakeup ==
    \A t \in Thread :
        state[t] = "waiting" /\ Satisfiable(t, request[t]) =>
            /\ scanObj # NoObject /\ signal[scanObj] > 0
            /\ t \in Range(scanRest)

(* A mutant is owned exactly while its state is not positive, its owner    *)
(* alone has it in its mutant list, its recursion never passes MINLONG,    *)
(* and a thread that has been run down owns none.                          *)
MutantOwnership ==
    \A m \in Mutant :
        /\ signal[m] \in MinSignal..1
        /\ signal[m] = 1 <=> owner[m] = NoThread
        /\ \A t \in Thread : m \in held[t] <=> owner[m] = t
        /\ owner[m] # NoThread =>
              /\ ~abandoned[m]
              /\ state[owner[m]] \notin {"drained", "terminated"}
              /\ state[owner[m]] = "exiting" =>
                    lockOwner = owner[m] /\ after = "rundown"

(* A thread is on the wait list of every object it waits for, once, on no  *)
(* other list and on none when it does not wait; its timer is inserted     *)
(* exactly while it waits with a timeout.                                  *)
WaitLinkage ==
    /\ \A o \in Object :
        /\ IsInjective(waitList[o])
        /\ Range(waitList[o]) =
              {t \in Thread : state[t] = "waiting" /\ o \in Range(request[t].objs)}
    /\ timer = {t \in Thread : state[t] = "waiting" /\ request[t].timeout = "finite"}

(* No alert and no user APC is slept through: an alertable wait does not   *)
(* go on with an alert pending that it accepts, nor a user-mode one with a *)
(* user APC queued.                                                        *)
AlertsSeen ==
    \A t \in Thread : state[t] = "waiting" =>
        /\ request[t].alertable =>
              /\ "kernel" \notin alerted[t] /\ request[t].mode \notin alerted[t]
              /\ request[t].mode = "user" => userApcs[t] = 0
        /\ request[t].mode = "user" => ~userApcPending[t]

-----------------------------------------------------------------------------
(* A wait is satisfied: at once, by another's signal, or when it starts    *)
(* over after a kernel APC.                                                *)
Served(t) == taken[t] = {} /\ taken'[t] # {}

(* A unit of a semaphore satisfies one wait, a wait takes all its objects  *)
(* or none of them, and an ended wait that was not satisfied took nothing. *)
AllOrNothing ==
    [][/\ \A s \in Semaphore :
            LET winners == {t \in Thread : Served(t) /\ s \in taken'[t]}
            IN  \/ winners = {} /\ signal'[s] >= signal[s]
                \/ \E t \in winners : winners = {t} /\ signal'[s] = signal[s] - 1
       /\ \A t \in Thread : Served(t) =>
            /\ result'[t] \in {"satisfied", "abandoned"}
            /\ request'[t].all => taken'[t] = Range(request'[t].objs)
            /\ ~request'[t].all => \E o \in Range(request'[t].objs) : taken'[t] = {o}
            /\ \A m \in taken'[t] \cap Mutant : owner'[m] = t
      ]_vars

(* Waits are served in the order they began.  A newcomer goes to the tail  *)
(* of the wait list and those on it never change places; a signal that     *)
(* satisfies a wait has passed over nobody who was ahead on the list and   *)
(* could have been satisfied.                                              *)
Before(s, a, b) == \E i, j \in DOMAIN s : i < j /\ s[i] = a /\ s[j] = b

ServedInOrder ==
    [][\A o \in Object :
        /\ \A i, j \in DOMAIN waitList'[o] : i < j =>
              \/ Before(waitList[o], waitList'[o][i], waitList'[o][j])
              \/ waitList'[o][j] \notin Range(waitList[o])
        /\ \A j \in DOMAIN waitList[o] :
              LET t == waitList[o][j]
              IN  state[t] = "waiting" /\ Served(t) /\ o \in taken'[t] =>
                    \A i \in 1..(j - 1) :
                        ~Satisfiable(waitList[o][i], request[waitList[o][i]])
      ]_vars

(* The thread that gets a mutant its owner left behind, and only that      *)
(* thread, is told so.                                                     *)
AbandonmentTold ==
    [][\A t \in Thread : Served(t) =>
            (result'[t] = "abandoned" <=>
                \E m \in taken'[t] \cap Mutant : abandoned[m] /\ ~abandoned'[m])
      ]_vars

(* A wait with a timeout ends, however often kernel APCs interrupt it. *)
TimedWaitEnds ==
    \A t \in Thread :
        state[t] = "waiting" /\ request[t].timeout = "finite" ~> state[t] = "running"
=============================================================================
