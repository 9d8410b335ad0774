------------------------------ MODULE KeSched ------------------------------
(***************************************************************************)
(* The thread scheduler: ke/thredsup.c, the boosts of ke/waitsup.c, quantum *)
(* end (ke/dpcsup.c), NtYieldExecution (ke/yield.c), the priorities of     *)
(* ke/thredobj.c, and the three places of ke/i386/ctxswap.asm and          *)
(* newsysbg.asm that switch: KiUnlockDispatcherDatabase, KiSwapThread and  *)
(* KiDispatchInterrupt, with the idle loop.                                *)
(*                                                                         *)
(* One processor.  The dispatcher database is locked by raising IRQL, so   *)
(* what runs under the lock is one step; between two steps come the clock  *)
(* interrupt, device interrupts that queue DPCs, and the DPCs themselves.  *)
(* KeBoostCurrentThread and KeSetDisableQuantumProcess have no caller in   *)
(* the repository and are left out: PriorityDecrement stays 0.             *)
(***************************************************************************)
EXTENDS WaitLists, FiniteSetsExt

CONSTANTS
    Thread, IdleThread, NoThread,
    HighPriority, LowRealtime, TimeCritical,  \* HIGH_, LOW_REALTIME_, TIME_CRITICAL_
    ProcessBase,                              \* KPROCESS.BasePriority
    ThreadQuantum, ClockDecrement, WaitDecrement,
    Boosts,             \* increments given with a wake-up
    SetPriorities,      \* what KeSetPriorityThread is called with
    BaseIncrements      \* what KeSetBasePriorityThread is called with

ASSUME KeSchedAssumption ==
    /\ IdleThread \notin Thread /\ NoThread \notin Thread /\ IdleThread # NoThread
    /\ HighPriority \in Nat /\ LowRealtime \in 2..HighPriority /\ TimeCritical \in Nat
    /\ ProcessBase \in 1..(LowRealtime - 1)
    /\ {ThreadQuantum, ClockDecrement, WaitDecrement} \subseteq Nat \ {0}
    /\ Boosts \subseteq Nat /\ SetPriorities \subseteq 1..HighPriority
    /\ BaseIncrements \subseteq Int

(* The base priority that an increment gives, and those that threads get.  *)
Base(i) == Max({1, Min({ProcessBase + i, LowRealtime - 1})})

Bases == {ProcessBase} \cup {Base(i) : i \in BaseIncrements}

(* A priority moves with the base and is checked against its upper end     *)
(* only: one set further below the base than the base may fall would leave *)
(* the ready queues.  The repository sets LOW_REALTIME and the base.       *)
ASSUME SetPrioritiesAssumption ==
    \A p \in SetPriorities, b, c \in Bases : p + b >= c

VARIABLES
    db,             \* the dispatcher database
    level,          \* what executes: a thread ("passive", "locked" when it has locked
                    \* the database, "dispatch" when it has raised IRQL before that),
                    \* the "dpc" part of KiDispatchInterrupt, the "idle" loop or its
                    \* DPCs ("idledpc")
    requested,      \* the DISPATCH_LEVEL bit of HalpIRR
    quantumEnd,     \* KPRCB.QuantumEnd
    yielded         \* history: threads still ready since they yielded

schedVars == <<db, level, requested, quantumEnd, yielded>>

Priorities == 0..HighPriority

SchedInit ==
    /\ db = [state |-> [t \in Thread |-> "Waiting"],
             priority |-> [t \in Thread |-> ProcessBase],
             base |-> [t \in Thread |-> ProcessBase],
             quantum |-> [t \in Thread |-> ThreadQuantum],
             preempted |-> [t \in Thread |-> FALSE],
             ready |-> [p \in Priorities |-> <<>>],    \* KiDispatcherReadyListHead
             summary |-> {},                           \* KiReadySummary
             idle |-> TRUE,                            \* KiIdleSummary
             next |-> NoThread,
             current |-> IdleThread]
    /\ level = "idle" /\ requested = FALSE /\ quantumEnd = FALSE /\ yielded = {}

-----------------------------------------------------------------------------
(* The ready queues.                                                       *)

(* The idle thread has priority 0.                                         *)
Priority(d, t) == IF t = IdleThread THEN 0 ELSE d.priority[t]

Insert(d, t) ==
    LET p == d.priority[t]
        queue == d.ready[p]
    IN [d EXCEPT !.state[t] = "Ready",
                 !.preempted[t] = FALSE,
                 !.ready[p] = IF d.preempted[t] THEN <<t>> \o queue ELSE Append(queue, t),
                 !.summary = @ \cup {p}]

TakeOff(d, t, p) ==
    LET rest == Unlink(d.ready[p], t)
    IN [d EXCEPT !.ready[p] = rest, !.summary = IF rest = <<>> THEN @ \ {p} ELSE @]

(* The first thread of the highest queue from "low" up, taken off it and   *)
(* made the next one.  Two callers leave its state to SwapContext, which   *)
(* follows under the same lock.                                            *)
KiFindReadyThread(d, low) ==
    LET found == {p \in d.summary : p >= low}
        high == Max(found)
        t == Head(d.ready[high])
    IN IF found = {} THEN d
       ELSE [TakeOff(d, t, high) EXCEPT !.next = t, !.state[t] = "Standby"]

(* Mutation: the thread standing by is not looked at. *)
OutranksCurrent(d, t) == d.priority[t] > Priority(d, d.current)

Outranks(d, t) ==
    d.priority[t] > Priority(d, IF d.next # NoThread THEN d.next ELSE d.current)

StandBy(d, t) == [d EXCEPT !.state[t] = "Standby", !.preempted[t] = FALSE, !.next = t]

(* A thread displaced from standby goes to the front of its queue: the     *)
(* call on it cannot preempt anything.  KiRequestDispatchInterrupt is      *)
(* empty.                                                                  *)
KiReadyThread(d, t) ==
    CASE d.idle -> [StandBy(d, t) EXCEPT !.idle = FALSE]
      [] ~d.idle /\ ~Outranks(d, t) -> Insert(d, t)
      [] ~d.idle /\ Outranks(d, t) /\ d.next # NoThread ->
            Insert([StandBy(d, t) EXCEPT !.preempted[d.next] = TRUE], d.next)
      [] ~d.idle /\ Outranks(d, t) /\ d.next = NoThread ->
            [StandBy(d, t) EXCEPT !.preempted[d.current] = TRUE]

KiSetPriorityThread(d, t, p) ==
    LET old == d.priority[t]
        set == [d EXCEPT !.priority[t] = p]
        searched == KiFindReadyThread(set, p)
        lowered == p < old
    IN CASE p = old -> d
         [] p # old /\ d.state[t] = "Ready" ->
               IF lowered THEN Insert(TakeOff(set, t, old), t)
                          ELSE KiReadyThread(TakeOff(set, t, old), t)
         [] lowered /\ d.state[t] = "Standby" ->
               IF searched.next = t THEN set ELSE KiReadyThread(searched, t)
         [] lowered /\ d.state[t] = "Running" /\ d.next = NoThread -> searched
         [] OTHER -> set

(* The priority after a quantum: one less, but not below the base.         *)
Decayed(d, t) == Max({d.priority[t] - 1, d.base[t]})

-----------------------------------------------------------------------------
(* The switches.                                                           *)

SwapToNext(d) ==
    [d EXCEPT !.current = d.next, !.next = NoThread, !.state[d.next] = "Running"]

(* The current thread goes back to the ready queues for the next one: it   *)
(* is compared with its successor, and may be made the next one itself.    *)
Redispatch(d) ==
    LET readied == KiReadyThread([d EXCEPT !.next = NoThread, !.current = d.next], d.current)
    IN [readied EXCEPT !.state[d.next] = "Running"]

KiUnlockDispatcherDatabase(d) ==
    /\ db' = IF d.next # NoThread /\ level = "locked" THEN Redispatch(d) ELSE d
    /\ requested' = (requested \/ (d.next # NoThread /\ level = "dispatch"))
    /\ level' = IF level = "locked" THEN "passive" ELSE level
    /\ UNCHANGED quantumEnd

(* The current thread, waiting or ready, gives the processor away.         *)
KiSwapThread(d) ==
    LET chosen == IF d.next # NoThread THEN d ELSE KiFindReadyThread(d, 0)
    IN /\ db' = IF chosen.next # NoThread THEN SwapToNext(chosen)
                ELSE [chosen EXCEPT !.current = IdleThread, !.idle = TRUE]
       /\ level' = IF chosen.next # NoThread THEN "passive" ELSE "idle"
       /\ UNCHANGED <<requested, quantumEnd>>

(* Code that calls the dispatcher: a thread below DISPATCH_LEVEL, which    *)
(* may wait, one at that level, a DPC.                                     *)
Locked == level = "locked"
Calls == level \in {"locked", "dispatch", "dpc", "idledpc"}

-----------------------------------------------------------------------------
(* Interrupts.                                                             *)

(* The quantum of whatever thread is current; it may be exceeded by        *)
(* ClockDecrement and no more (a bound: ticks at raised IRQL repeat).      *)
KeClockInterrupt ==
    /\ db.current # IdleThread
    /\ db.quantum[db.current] > 0
    /\ LET left == db.quantum[db.current] - ClockDecrement
       IN /\ db' = [db EXCEPT !.quantum[db.current] = left]
          /\ quantumEnd' = (quantumEnd \/ left <= 0)
          /\ requested' = (requested \/ left <= 0)
    /\ UNCHANGED level

(* A device queues a DPC: the interrupt is requested unless DPCs are       *)
(* being retired, when it just adds to their list.                         *)
DeviceInterrupt ==
    /\ level \notin {"dpc", "idledpc"}
    /\ requested' = TRUE
    /\ UNCHANGED <<db, level, quantumEnd>>

HalpDispatchInterrupt ==
    /\ level = "passive" /\ requested
    /\ requested' = FALSE /\ level' = "dpc"
    /\ UNCHANGED <<db, quantumEnd>>

(* The quantum has run out, or had: the thread may have changed since.     *)
KiQuantumEnd(d) ==
    LET t == d.current
        p == d.priority[t]
        new == IF p < LowRealtime THEN Decayed(d, t) ELSE p
        renewed == [d EXCEPT !.quantum[t] = ThreadQuantum]
    IN CASE d.quantum[t] > 0 -> d
         [] d.quantum[t] <= 0 /\ new # p -> KiSetPriorityThread(renewed, t, new)
         [] d.quantum[t] <= 0 /\ new = p /\ d.next = NoThread -> KiFindReadyThread(renewed, p)
         [] d.quantum[t] <= 0 /\ new = p /\ d.next # NoThread ->
               [renewed EXCEPT !.preempted[t] = FALSE]

(* The DPC list is empty: quantum end, then the next thread.               *)
KiDispatchInterrupt ==
    /\ level = "dpc"
    /\ LET d == IF quantumEnd THEN KiQuantumEnd(db) ELSE db
       IN db' = IF d.next # NoThread THEN Redispatch(d) ELSE d
    /\ level' = "passive" /\ quantumEnd' = FALSE
    /\ UNCHANGED requested

(* The idle loop runs at DISPATCH_LEVEL and takes nothing: it looks at the *)
(* DPC list, dismissing the interrupt, and then at the next thread.        *)
IdleRetiresDpcs ==
    /\ level = "idle" /\ requested
    /\ level' = "idledpc" /\ requested' = FALSE
    /\ UNCHANGED <<db, quantumEnd>>

IdleRetired ==
    /\ level = "idledpc" /\ db.next = NoThread
    /\ level' = "idle"
    /\ UNCHANGED <<db, requested, quantumEnd>>

KiIdleLoop ==
    /\ level \in {"idle", "idledpc"} /\ db.next # NoThread
    /\ db' = SwapToNext(db) /\ level' = "passive"
    /\ UNCHANGED <<requested, quantumEnd>>

-----------------------------------------------------------------------------
(* The current thread, and DPCs.                                           *)

(* An interrupt that is requested comes before what the thread does next.  *)
KeRaiseIrql ==
    /\ level = "passive" /\ ~requested
    /\ level' = "dispatch"
    /\ UNCHANGED <<db, requested, quantumEnd>>

KfLowerIrql ==
    /\ level = "dispatch"
    /\ level' = "passive"
    /\ UNCHANGED <<db, requested, quantumEnd>>

KiLockDispatcherDatabase ==
    /\ level = "passive" /\ ~requested
    /\ level' = "locked"
    /\ UNCHANGED <<db, requested, quantumEnd>>

(* A call that readied nobody returns.                                     *)
Unlock == Locked /\ KiUnlockDispatcherDatabase(db)

(* The wake-up's boost and the charge for the wait.                        *)
KiUnwaitThread(d, t, increment) ==
    LET p == d.priority[t]
        wanted == d.base[t] + increment
        boosted == IF wanted > p /\ p < LowRealtime THEN Min({wanted, LowRealtime - 1}) ELSE p
        b == [d EXCEPT !.priority[t] = boosted]
        left == d.quantum[t] - WaitDecrement
        uncharged == p >= LowRealtime \/ d.base[t] >= TimeCritical
    IN KiReadyThread(
          [b EXCEPT !.quantum[t] = IF ~uncharged /\ left > 0 THEN left ELSE ThreadQuantum,
                    !.priority[t] = IF uncharged \/ left > 0 THEN boosted ELSE Decayed(b, t)],
          t)

(* An event, semaphore, mutant or timer that a thread waits for is         *)
(* signaled.                                                               *)
Wake(t) ==
    /\ Calls
    /\ db.state[t] = "Waiting"
    /\ \E i \in Boosts : KiUnlockDispatcherDatabase(KiUnwaitThread(db, t, i))

KeWait ==
    /\ Locked
    /\ KiSwapThread([db EXCEPT !.state[db.current] = "Waiting"])

(* KeSetEvent and the like with Wait TRUE: the database stays locked until *)
(* the wait that follows.                                                  *)
SignalAndWait(t) ==
    /\ Locked
    /\ db.state[t] = "Waiting"
    /\ \E i \in Boosts :
         KiSwapThread([KiUnwaitThread(db, t, i) EXCEPT !.state[db.current] = "Waiting"])

(* A wait that is satisfied at once is charged as if the thread had waited.*)
KiAdjustQuantumThread ==
    /\ Locked
    /\ LET t == db.current
           left == db.quantum[t] - WaitDecrement
           renewed == [db EXCEPT !.quantum[t] = ThreadQuantum]
           p == Decayed(db, t)
       IN /\ db.priority[t] < LowRealtime /\ db.base[t] < TimeCritical
          /\ KiUnlockDispatcherDatabase(
               CASE left > 0 -> [db EXCEPT !.quantum[t] = left]
                 [] left <= 0 /\ p # db.priority[t] -> KiSetPriorityThread(renewed, t, p)
                 [] left <= 0 /\ p = db.priority[t] /\ db.next = NoThread ->
                       KiFindReadyThread(renewed, p)
                 [] left <= 0 /\ p = db.priority[t] /\ db.next # NoThread -> renewed)

(* Any other ready thread of priority 1 or more, and lower than this one   *)
(* too, gets the processor.                                                *)
NtYieldExecution ==
    /\ Locked /\ db.summary # {}
    /\ LET t == db.current
           d == IF db.next = NoThread THEN KiFindReadyThread(db, 1) ELSE db
           p == IF d.priority[t] < LowRealtime THEN Decayed(d, t) ELSE d.priority[t]
       IN /\ d.next # NoThread
          /\ KiSwapThread([d EXCEPT !.quantum[t] = ThreadQuantum,
                                    !.state[t] = "Ready",
                                    !.priority[t] = p,
                                    !.ready[p] = Append(@, t),
                                    !.summary = @ \cup {p}])

(* A delay that has already expired: the thread falls to its base priority *)
(* and lets one of at least that priority run.                             *)
KeDelayExecutionThread ==
    /\ Locked
    /\ LET t == db.current
           d == IF db.priority[t] < LowRealtime THEN KiSetPriorityThread(db, t, db.base[t])
                                                ELSE db
           e == IF d.next = NoThread THEN KiFindReadyThread(d, d.priority[t]) ELSE d
       IN IF e.next = NoThread THEN KiUnlockDispatcherDatabase(e)
          ELSE KiSwapThread(KiReadyThread([e EXCEPT !.preempted[t] = FALSE,
                                                    !.quantum[t] = ThreadQuantum], t))

(* It asserts that no DPC is executing.                                    *)
KeSetPriorityThread(t) ==
    /\ level \in {"locked", "dispatch"}
    /\ \E p \in SetPriorities \cup {db.base[t]} :
         KiUnlockDispatcherDatabase(
             KiSetPriorityThread([db EXCEPT !.quantum[t] = ThreadQuantum], t, p))

(* The process is not of the realtime class.                               *)
KeSetBasePriorityThread(t) ==
    /\ Calls
    /\ \E i \in BaseIncrements :
         LET half == (HighPriority + 1) \div 2
             base == Base(i)
             moved == Min({db.priority[t] + base - db.base[t], LowRealtime - 1})
             p == IF i >= half \/ -i >= half THEN base ELSE moved
             based == [db EXCEPT !.base[t] = base]
         IN KiUnlockDispatcherDatabase(
                IF p = db.priority[t] THEN based
                ELSE KiSetPriorityThread([based EXCEPT !.quantum[t] = ThreadQuantum], t, p))

-----------------------------------------------------------------------------
StillReady(S) == {t \in S : db'.state[t] = "Ready"}

Dispatch ==
    \/ KeClockInterrupt \/ DeviceInterrupt \/ HalpDispatchInterrupt \/ KiDispatchInterrupt
    \/ IdleRetiresDpcs \/ IdleRetired \/ KiIdleLoop
    \/ KeRaiseIrql \/ KfLowerIrql \/ KiLockDispatcherDatabase \/ Unlock
    \/ KeWait \/ KiAdjustQuantumThread \/ KeDelayExecutionThread
    \/ \E t \in Thread : \/ Wake(t) \/ SignalAndWait(t)
                         \/ KeSetPriorityThread(t) \/ KeSetBasePriorityThread(t)

SchedNext ==
    \/ Dispatch /\ yielded' = StillReady(yielded)
    \/ NtYieldExecution /\ yielded' = StillReady(yielded \cup {db.current})

SchedSpec == SchedInit /\ [][SchedNext]_schedVars

-----------------------------------------------------------------------------
(* Properties.                                                             *)

(* The dispatcher database's values. *)
Database ==
    [state     : [Thread -> {"Waiting", "Ready", "Standby", "Running"}],
     priority  : [Thread -> Priorities],
     base      : [Thread -> Bases],
     quantum   : [Thread -> Int],
     preempted : [Thread -> BOOLEAN],
     ready     : [Priorities -> Seq(Thread)],
     summary   : SUBSET Priorities,
     idle      : BOOLEAN,
     next      : Thread \cup {NoThread},
     current   : Thread \cup {IdleThread}]

(* The type of the database and of the processor's state.                  *)
SchedTypeOK ==
    /\ db \in Database
    /\ level \in {"passive", "locked", "dispatch", "dpc", "idle", "idledpc"}
    /\ requested \in BOOLEAN /\ quantumEnd \in BOOLEAN
    /\ yielded \subseteq Thread

(* A thread is where its state says, and nowhere else: ready, once, on the *)
(* queue of its own priority; standing by or running, no other does.  A    *)
(* queue that is not empty has its bit in the ready summary, or its        *)
(* threads would never be found.                                           *)
EachInItsPlace ==
    /\ \A p \in Priorities : IsInjective(db.ready[p])
    /\ \A t \in Thread :
         /\ \A p \in Priorities :
              t \in Range(db.ready[p]) <=> db.state[t] = "Ready" /\ db.priority[t] = p
         /\ db.state[t] = "Standby" <=> db.next = t
         /\ db.state[t] = "Running" <=> db.current = t
    /\ db.summary = {p \in Priorities : db.ready[p] # <<>>}

(* No thread is mislaid: no ready thread outranks the one the processor    *)
(* has or is about to have, other than one that yielded it, and the        *)
(* processor idles, with its idle summary set, only when nobody is ready.  *)
HighestRuns ==
    /\ SchedTypeOK
    /\ EachInItsPlace
    /\ \A t \in Thread : db.state[t] = "Ready" => ~Outranks(db, t) \/ t \in yielded
    /\ db.idle <=> db.current = IdleThread /\ db.next = NoThread
    /\ db.idle => \A t \in Thread : db.state[t] = "Waiting"
    /\ db.current = IdleThread <=> level \in {"idle", "idledpc"}

=============================================================================
