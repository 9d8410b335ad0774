----------------------------- MODULE KeSuspend -----------------------------
(***************************************************************************)
(* Kernel APCs and the suspension of a thread: ke/apcobj.c, ke/apcsup.c,   *)
(* KeSuspendThread, KeResumeThread and KeForceResumeThread of              *)
(* ke/thredobj.c, KiSuspendThread, the critical regions of inc/ke.h, and   *)
(* what PsTerminateSystemThread (ps/psdelete.c) does about both.           *)
(*                                                                         *)
(* One thread, to which other threads and DPCs queue kernel APCs, which    *)
(* they suspend and which they resume, at any moment.  The APC interrupt   *)
(* belongs to the processor: a thread that is preempted before it is taken *)
(* loses it.  User APCs are in KeWait.                                     *)
(***************************************************************************)
EXTENDS WaitLists

CONSTANTS
    Special,        \* APCs without a normal routine
    Normal,         \* APCs with one
    SuspendApc,
    MaximumSuspendCount,
    MaxRegions      \* bound: nested critical regions

ASSUME KeSuspendAssumption ==
    /\ SuspendApc \notin Special \cup Normal
    /\ Special \cap Normal = {}
    /\ MaximumSuspendCount \in Nat \ {0}
    /\ MaxRegions \in Nat \ {0}

VARIABLES
    state,          \* KTHREAD.State
    frames,         \* what the thread executes, innermost last
    phase,          \* how far its termination is
    list,           \* ApcState.ApcListHead[KernelMode]
    pending,        \* ApcState.KernelApcPending
    inProgress,     \* ApcState.KernelApcInProgress
    queueable,      \* ApcState.ApcQueueable
    disable,        \* KernelApcDisable, negated
    leaving,        \* which of the frames, by their place, are in
                    \* KeLeaveCriticalRegion and have yet to look at the list
    interrupt,      \* an APC interrupt is requested
    suspendCount,   \* SuspendCount
    signal          \* SuspendSemaphore.Header.SignalState

vars == <<state, frames, phase, list, pending, inProgress, queueable, disable, leaving,
          interrupt, suspendCount, signal>>

Apc == Special \cup Normal \cup {SuspendApc}

Init ==
    /\ state = "ready" /\ frames = <<"code">> /\ phase = "alive"
    /\ list = <<>> /\ pending = FALSE /\ inProgress = FALSE /\ queueable = TRUE
    /\ disable = 0 /\ leaving = {} /\ interrupt = FALSE
    /\ suspendCount = 0 /\ signal = 0

Top == Last(frames)
Push(f) == frames' = Append(frames, f)
Pop == frames' = Front(frames)

Leaving == Len(frames) \in leaving

(* The thread goes on at PASSIVE_LEVEL: an APC interrupt comes first.      *)
Executes == state = "running" /\ Top # "deliver" /\ ~interrupt

-----------------------------------------------------------------------------
(* KiInsertQueueApc: special APCs go before normal ones.                   *)
Position(apc) ==
    IF apc \in Special THEN 1 + Cardinality({i \in DOMAIN list : list[i] \in Special})
    ELSE 1 + Len(list)

Unwaits(apc) == apc \in Special \/ (disable = 0 /\ ~inProgress)

InsertQueueApc(apc) ==
    /\ list' = InsertAt(list, Position(apc), apc)
    /\ pending' = TRUE
    /\ interrupt' = (interrupt \/ state = "running")
    /\ state' = IF state = "waiting" /\ Unwaits(apc) THEN "ready" ELSE state

KeInsertQueueApc(apc) ==
    /\ apc # SuspendApc
    /\ queueable /\ ~Contains(list, apc)
    /\ InsertQueueApc(apc)
    /\ UNCHANGED <<frames, phase, inProgress, queueable, disable, leaving,
                   suspendCount, signal>>

KeRemoveQueueApc(apc) ==
    /\ apc # SuspendApc /\ Contains(list, apc)
    /\ list' = Unlink(list, apc)
    /\ pending' = (pending /\ list' # <<>>)
    /\ UNCHANGED <<state, frames, phase, inProgress, queueable, disable, leaving,
                   interrupt, suspendCount, signal>>

-----------------------------------------------------------------------------
(* KeSuspendThread.  The APC may still be queued from a suspension that    *)
(* was resumed before it was delivered; then the unit that the resumption  *)
(* put into the semaphore is taken back.                                   *)
Suspend ==
    \/ /\ suspendCount # 0
       /\ suspendCount' = suspendCount + 1
       /\ UNCHANGED <<list, pending, interrupt, state, signal>>
    \/ /\ suspendCount = 0 /\ ~Contains(list, SuspendApc)
       /\ suspendCount' = 1
       /\ InsertQueueApc(SuspendApc)
       /\ UNCHANGED signal
    \/ /\ suspendCount = 0 /\ Contains(list, SuspendApc)
       /\ suspendCount' = 1
       /\ signal' = signal - 1
       /\ UNCHANGED <<list, pending, interrupt, state>>

KeSuspendThread ==
    /\ suspendCount < MaximumSuspendCount /\ queueable
    /\ Suspend
    /\ UNCHANGED <<frames, phase, inProgress, queueable, disable, leaving>>

(* Mutation: the waiting thread does not take the unit. *)
ReleaseKeepsUnit ==
    /\ signal' = signal + 1
    /\ IF state = "waiting" /\ Top = "suspend"
       THEN state' = "ready" /\ frames' = Append(Front(frames), "normal")
       ELSE UNCHANGED <<state, frames>>

(* A unit for the semaphore, and KiWaitTest if the thread waits for it.    *)
ReleaseSemaphore ==
    IF state = "waiting" /\ Top = "suspend"
    THEN /\ state' = "ready"
         /\ frames' = Append(Front(frames), "normal")
         /\ UNCHANGED signal
    ELSE signal' = signal + 1 /\ UNCHANGED <<state, frames>>

KeResumeThread ==
    /\ suspendCount # 0
    /\ suspendCount' = suspendCount - 1
    /\ IF suspendCount = 1 THEN ReleaseSemaphore ELSE UNCHANGED <<state, frames, signal>>
    /\ UNCHANGED <<phase, list, pending, inProgress, queueable, disable, leaving, interrupt>>

-----------------------------------------------------------------------------
(* KiDeliverApc, entered by the APC interrupt or by KiSwapThread.          *)
Deliver ==
    /\ Push("deliver")
    /\ pending' = FALSE

TakeInterrupt ==
    /\ state = "running" /\ interrupt /\ Top # "deliver"
    /\ Deliver
    /\ interrupt' = FALSE
    /\ UNCHANGED <<state, phase, list, inProgress, queueable, disable, leaving,
                   suspendCount, signal>>

DeliverSpecial ==
    /\ state = "running" /\ Top = "deliver"
    /\ list # <<>> /\ Head(list) \in Special
    /\ list' = Tail(list)
    /\ UNCHANGED <<state, frames, phase, pending, inProgress, queueable, disable, leaving,
                   interrupt, suspendCount, signal>>

MayRunNormal == list # <<>> /\ Head(list) \notin Special /\ ~inProgress /\ disable = 0
Deliverable  == list # <<>> /\ (Head(list) \in Special \/ MayRunNormal)

DeliverNormal ==
    /\ state = "running" /\ Top = "deliver"
    /\ MayRunNormal
    /\ list' = Tail(list)
    /\ inProgress' = TRUE
    /\ Push(IF Head(list) = SuspendApc THEN "suspend" ELSE "normal")
    /\ UNCHANGED <<state, phase, pending, queueable, disable, leaving, interrupt,
                   suspendCount, signal>>

(* The normal routine returns, and the loop goes on.                       *)
NormalReturns ==
    /\ Executes /\ Top = "normal" /\ disable = 0 /\ ~Leaving
    /\ inProgress' = FALSE
    /\ Pop
    /\ UNCHANGED <<state, phase, list, pending, queueable, disable, leaving, interrupt,
                   suspendCount, signal>>

Delivered ==
    /\ state = "running" /\ Top = "deliver"
    /\ ~Deliverable
    /\ Pop
    /\ UNCHANGED <<state, phase, list, pending, inProgress, queueable, disable, leaving,
                   interrupt, suspendCount, signal>>

-----------------------------------------------------------------------------
(* KiSuspendThread waits for the semaphore.                                *)
KiSuspendThread ==
    /\ Executes /\ Top = "suspend"
    /\ \/ /\ signal # 0
          /\ signal' = signal - 1
          /\ frames' = Append(Front(frames), "normal")
          /\ UNCHANGED state
       \/ /\ signal = 0
          /\ state' = "waiting"
          /\ UNCHANGED <<frames, signal>>
    /\ UNCHANGED <<phase, list, pending, inProgress, queueable, disable, leaving,
                   interrupt, suspendCount>>

(* The thread, or a normal routine, waits for some other object.           *)
Wait ==
    /\ Executes /\ Top \in {"code", "normal"} /\ ~Leaving /\ phase = "alive"
    /\ state' = "waiting"
    /\ UNCHANGED <<frames, phase, list, pending, inProgress, queueable, disable, leaving,
                   interrupt, suspendCount, signal>>

Signal ==
    /\ state = "waiting" /\ Top # "suspend"
    /\ state' = "ready"
    /\ UNCHANGED <<frames, phase, list, pending, inProgress, queueable, disable, leaving,
                   interrupt, suspendCount, signal>>

(* An interrupt requested for the thread goes off in another one.          *)
Preempt ==
    /\ state = "running"
    /\ state' = "ready"
    /\ interrupt' = FALSE
    /\ UNCHANGED <<frames, phase, list, pending, inProgress, queueable, disable, leaving,
                   suspendCount, signal>>

(* Mutation: SwapContext does not look for kernel APCs. *)
SwapContextIgnoresApcs ==
    /\ state = "ready"
    /\ state' = "running"
    /\ UNCHANGED <<frames, pending, interrupt, phase, list, inProgress, queueable, disable,
                   leaving, suspendCount, signal>>

(* SwapContext: kernel APCs are delivered at once to a thread that was     *)
(* below APC_LEVEL, and by an interrupt to one that was not.               *)
SwapContext ==
    /\ state = "ready"
    /\ state' = "running"
    /\ \/ /\ pending /\ Top # "deliver"
          /\ Deliver
          /\ UNCHANGED interrupt
       \/ /\ pending => Top = "deliver"
          /\ interrupt' = pending
          /\ UNCHANGED <<frames, pending>>
    /\ UNCHANGED <<phase, list, inProgress, queueable, disable, leaving, suspendCount, signal>>

-----------------------------------------------------------------------------
(* Critical regions.  KeLeaveCriticalRegion increments the count and then  *)
(* looks at the list, with nothing locked.                                 *)
Enter == disable' = disable + 1

KeEnterCriticalRegion ==
    /\ Executes /\ Top \in {"code", "normal"} /\ ~Leaving /\ phase = "alive"
    /\ disable < MaxRegions
    /\ Enter
    /\ UNCHANGED <<state, frames, phase, list, pending, inProgress, queueable, leaving,
                   interrupt, suspendCount, signal>>

Leave ==
    /\ disable' = disable - 1
    /\ leaving' = IF disable = 1 THEN leaving \cup {Len(frames)} ELSE leaving

KeLeaveCriticalRegion ==
    /\ Executes /\ Top \in {"code", "normal"} /\ ~Leaving /\ phase = "alive"
    /\ disable # 0
    /\ Leave
    /\ UNCHANGED <<state, frames, phase, list, pending, inProgress, queueable,
                   interrupt, suspendCount, signal>>

(* Mutation: the list is not looked at. *)
LeaveWithoutTest ==
    /\ Executes /\ Leaving
    /\ leaving' = leaving \ {Len(frames)}
    /\ UNCHANGED <<state, frames, phase, list, pending, interrupt, inProgress, queueable,
                   disable, suspendCount, signal>>

LeaveTest ==
    /\ Executes /\ Leaving
    /\ leaving' = leaving \ {Len(frames)}
    /\ IF list # <<>> THEN pending' = TRUE /\ interrupt' = TRUE
       ELSE UNCHANGED <<pending, interrupt>>
    /\ UNCHANGED <<state, frames, phase, list, inProgress, queueable, disable,
                   suspendCount, signal>>

-----------------------------------------------------------------------------
(* The end of PsTerminateSystemThread.                                     *)
ExitEnterRegion ==
    /\ Executes /\ frames = <<"code">> /\ phase = "alive" /\ disable = 0 /\ ~Leaving
    /\ Enter
    /\ phase' = "entered"
    /\ UNCHANGED <<state, frames, list, pending, inProgress, queueable, leaving,
                   interrupt, suspendCount, signal>>

(* Mutation: APCs can still be queued. *)
ExitKeepsQueueable ==
    /\ Executes /\ Top = "code" /\ phase = "entered"
    /\ phase' = "disabled"
    /\ UNCHANGED <<state, frames, list, pending, inProgress, queueable, disable, leaving,
                   interrupt, suspendCount, signal>>

KeDisableApcQueuingThread ==
    /\ Executes /\ Top = "code" /\ phase = "entered"
    /\ queueable' = FALSE
    /\ phase' = "disabled"
    /\ UNCHANGED <<state, frames, list, pending, inProgress, disable, leaving,
                   interrupt, suspendCount, signal>>

KeForceResumeThread ==
    /\ Executes /\ Top = "code" /\ phase = "disabled"
    /\ suspendCount' = 0
    /\ IF suspendCount # 0 THEN ReleaseSemaphore ELSE UNCHANGED <<state, frames, signal>>
    /\ phase' = "resumed"
    /\ UNCHANGED <<list, pending, inProgress, queueable, disable, leaving, interrupt>>

ExitLeaveRegion ==
    /\ Executes /\ Top = "code" /\ phase = "resumed"
    /\ Leave
    /\ phase' = "left"
    /\ UNCHANGED <<state, frames, list, pending, inProgress, queueable,
                   interrupt, suspendCount, signal>>

(* KeFlushQueueApc for kernel APCs. *)
KeFlushQueueApc ==
    /\ Executes /\ Top = "code" /\ phase = "left" /\ ~Leaving
    /\ list' = <<>>
    /\ phase' = "flushed"
    /\ UNCHANGED <<state, frames, pending, inProgress, queueable, disable, leaving,
                   interrupt, suspendCount, signal>>

KeTerminateThread ==
    /\ Executes /\ Top = "code" /\ phase = "flushed"
    /\ state' = "terminated"
    /\ phase' = "exited"
    /\ UNCHANGED <<frames, list, pending, inProgress, queueable, disable, leaving,
                   interrupt, suspendCount, signal>>

-----------------------------------------------------------------------------
Deliveries == TakeInterrupt \/ DeliverSpecial \/ DeliverNormal \/ NormalReturns \/ Delivered
              \/ KiSuspendThread
Scheduling == Preempt \/ SwapContext \/ Wait \/ Signal
Regions    == KeEnterCriticalRegion \/ KeLeaveCriticalRegion \/ LeaveTest
Exiting    == ExitEnterRegion \/ KeDisableApcQueuingThread \/ KeForceResumeThread
              \/ ExitLeaveRegion \/ KeFlushQueueApc \/ KeTerminateThread

Next ==
    \/ \E apc \in Special \cup Normal : KeInsertQueueApc(apc) \/ KeRemoveQueueApc(apc)
    \/ KeSuspendThread \/ KeResumeThread
    \/ Deliveries \/ Scheduling \/ Regions \/ Exiting

Spec == Init /\ [][Next]_vars

-----------------------------------------------------------------------------
TypeOK ==
    /\ state \in {"ready", "running", "waiting", "terminated"}
    /\ frames \in Seq({"code", "deliver", "normal", "suspend"}) /\ frames # <<>>
    /\ phase \in {"alive", "entered", "disabled", "resumed", "left", "flushed", "exited"}
    /\ list \in Seq(Apc)
    /\ pending \in BOOLEAN /\ inProgress \in BOOLEAN /\ queueable \in BOOLEAN
    /\ disable \in 0..MaxRegions /\ leaving \subseteq DOMAIN frames /\ interrupt \in BOOLEAN
    /\ suspendCount \in 0..MaximumSuspendCount
    /\ signal \in 0..2

(* The suspend semaphore holds a unit for every suspension that was        *)
(* resumed and whose APC has yet to wait.                                  *)
Waits == (IF Contains(list, SuspendApc) THEN 1 ELSE 0) + (IF Contains(frames, "suspend") THEN 1 ELSE 0)
SuspensionsBalance == signal = Waits - (IF suspendCount # 0 THEN 1 ELSE 0)

(* Suspensions and resumptions in any order never leave a thread stopped   *)
(* that should run, nor let one run that should be stopped: the semaphore  *)
(* balances them, a suspended thread is not running its own code with      *)
(* kernel APCs enabled, except to take the APC interrupt, and one that     *)
(* waits to be resumed is suspended.                                       *)
SuspendedStops ==
    /\ TypeOK /\ SuspensionsBalance
    /\ suspendCount # 0 /\ disable = 0 /\ ~Leaving /\ frames = <<"code">> /\ state = "running"
          => interrupt
    /\ state = "waiting" /\ Top = "suspend" => suspendCount # 0

(* Normal routines do not nest, and special APCs go first.                 *)
NormalsInOrder ==
    /\ Cardinality({i \in DOMAIN frames : frames[i] \in {"normal", "suspend"}})
          = IF inProgress THEN 1 ELSE 0
    /\ \A i, j \in DOMAIN list : i < j /\ list[j] \in Special => list[i] \in Special

(* No kernel APC is stranded: a thread runs or waits below APC_LEVEL with  *)
(* an APC in its list that could be delivered only when the interrupt for  *)
(* it is on its way, and is preempted only with KernelApcPending set; and  *)
(* APCs are delivered in order.                                            *)
ApcsDelivered ==
    /\ NormalsInOrder
    /\ Deliverable /\ Top # "deliver" /\ ~Leaving =>
          \/ state = "running" /\ interrupt
          \/ state = "ready" /\ pending
          \/ state = "terminated"

(* KERNEL_APC_PENDING_DURING_EXIT, for which PsTerminateSystemThread stops *)
(* the system: a thread that flushes its queue has no kernel APC and is    *)
(* not suspended, and nothing is queued to it or suspends it any more.     *)
NoApcAtExit ==
    phase \in {"flushed", "exited"} \/ (phase = "left" /\ Executes /\ Top = "code" /\ ~Leaving)
        => list = <<>> /\ suspendCount = 0 /\ signal = 0
=============================================================================
