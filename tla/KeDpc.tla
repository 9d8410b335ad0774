------------------------------- MODULE KeDpc -------------------------------
(***************************************************************************)
(* The queue of deferred procedure calls: ke/dpcobj.c, the DPC part of     *)
(* KiDispatchInterrupt (ke/i386/ctxswap.asm), KiIdleLoop and               *)
(* KiRetireDpcList (ke/i386/newsysbg.asm), the software interrupt of       *)
(* halx/i386/ixswint.asm, and the timer DPC the clock interrupt queues.    *)
(*                                                                         *)
(* KeInsertQueueDpc runs at HIGH_LEVEL and KeRemoveQueueDpc with           *)
(* interrupts disabled: each is one step, and comes from interrupt         *)
(* routines between any two steps of the code below.  Which thread runs is *)
(* in KeSched.                                                             *)
(***************************************************************************)
EXTENDS SequencesExt

CONSTANTS
    Dpc,
    TimerExpireDpc, \* KiTimerExpireDpc
    NoDpc

ASSUME KeDpcAssumption == TimerExpireDpc \in Dpc /\ NoDpc \notin Dpc

VARIABLES
    queue,          \* KPRCB.DpcListHead
    dpcInserted,    \* KDPC.Inserted
    active,         \* KPRCB.DpcRoutineActive
    dpcRequested,   \* KPRCB.DpcInterruptRequested
    irr,            \* the DISPATCH_LEVEL bit of HalpIRR
    level,          \* what executes: a thread ("passive", or "dispatch" at raised
                    \* IRQL), the start of KiDispatchInterrupt ("enter"), a DPC
                    \* routine it calls ("routine"), its end ("exit"), the "idle"
                    \* loop, or a DPC routine the idle loop calls ("idleroutine")
    running,        \* the DPC whose routine that is
    emptied         \* history: since DPCs were last retired, a removal has left the
                    \* list empty

dpcVars == <<queue, dpcInserted, active, dpcRequested, irr, level, running, emptied>>

DpcInit ==
    /\ queue = <<>> /\ dpcInserted = [d \in Dpc |-> FALSE]
    /\ active = FALSE /\ dpcRequested = FALSE /\ irr = FALSE
    /\ level = "idle" /\ running = NoDpc /\ emptied = FALSE

(* Mutation: the DPC is put in front. *)
InsertInFront(d) ==
    /\ queue' = <<d>> \o queue
    /\ dpcInserted' = [dpcInserted EXCEPT ![d] = TRUE]

InsertTail(d) ==
    /\ queue' = Append(queue, d)
    /\ dpcInserted' = [dpcInserted EXCEPT ![d] = TRUE]

(* A DPC that is queued is left alone.  The interrupt is requested unless  *)
(* a DPC routine is active or it has been requested.                       *)
KeInsertQueueDpc(d) ==
    /\ ~dpcInserted[d]
    /\ InsertTail(d)
    /\ LET request == ~active /\ ~dpcRequested
       IN dpcRequested' = (dpcRequested \/ request) /\ irr' = (irr \/ request)
    /\ UNCHANGED <<active, level, running, emptied>>

(* The clock queues its DPC by hand and requests the interrupt in any case.*)
KeClockInterrupt ==
    /\ ~dpcInserted[TimerExpireDpc]
    /\ InsertTail(TimerExpireDpc)
    /\ irr' = TRUE
    /\ UNCHANGED <<active, dpcRequested, level, running, emptied>>

(* Quantum end, also when a DPC executes; not of the idle thread.          *)
QuantumEnd ==
    /\ level \notin {"idle", "idleroutine"}
    /\ irr' = TRUE
    /\ UNCHANGED <<queue, dpcInserted, active, dpcRequested, level, running, emptied>>

(* Threads and DPC routines remove DPCs; nothing is done about the         *)
(* interrupt that was requested for them.                                  *)
KeRemoveQueueDpc(d) ==
    /\ level \in {"dispatch", "routine", "idleroutine"} \/ (level = "passive" /\ ~irr)
    /\ dpcInserted[d]
    /\ \E i \in DOMAIN queue : queue[i] = d /\ queue' = RemoveAt(queue, i)
    /\ dpcInserted' = [dpcInserted EXCEPT ![d] = FALSE]
    /\ emptied' = (emptied \/ queue' = <<>>)
    /\ UNCHANGED <<active, dpcRequested, irr, level, running>>

-----------------------------------------------------------------------------
HalpDispatchInterrupt ==
    /\ level = "passive" /\ irr
    /\ irr' = FALSE /\ level' = "enter"
    /\ UNCHANGED <<queue, dpcInserted, active, dpcRequested, running, emptied>>

(* The first DPC is dequeued and its routine called, interrupts enabled:   *)
(* from here on it may be queued again.                                    *)
CallRoutine(where) ==
    /\ queue # <<>>
    /\ queue' = Tail(queue)
    /\ dpcInserted' = [dpcInserted EXCEPT ![Head(queue)] = FALSE]
    /\ running' = Head(queue) /\ active' = TRUE /\ level' = where

KiDispatchInterrupt ==
    /\ level = "enter"
    /\ \/ CallRoutine("routine")
       \/ queue = <<>> /\ level' = "exit" /\ UNCHANGED <<queue, dpcInserted, running, active>>
    /\ UNCHANGED <<dpcRequested, irr, emptied>>

(* Mutation: the request stays noted. *)
RetiredButRequested ==
    /\ queue = <<>>
    /\ active' = FALSE /\ emptied' = FALSE /\ running' = NoDpc
    /\ UNCHANGED <<queue, dpcInserted, dpcRequested>>

Retired ==
    /\ queue = <<>>
    /\ active' = FALSE /\ dpcRequested' = FALSE /\ emptied' = FALSE /\ running' = NoDpc
    /\ UNCHANGED <<queue, dpcInserted>>

(* The routine returns, interrupts are disabled: the next DPC, or the end. *)
KiRetireDpcList ==
    /\ level \in {"routine", "idleroutine"}
    /\ \/ CallRoutine(level) /\ UNCHANGED <<dpcRequested, emptied>>
       \/ Retired /\ level' = IF level = "routine" THEN "exit" ELSE "idle"
    /\ UNCHANGED irr

(* Quantum end and a switch, if any; the interrupt returns.                *)
DispatchInterruptReturns ==
    /\ level = "exit"
    /\ level' = "passive"
    /\ UNCHANGED <<queue, dpcInserted, active, dpcRequested, irr, running, emptied>>

(* The idle loop goes by the list, not by the interrupt, which it          *)
(* dismisses.                                                              *)
IdleRetiresDpcs ==
    /\ level = "idle"
    /\ CallRoutine("idleroutine")
    /\ irr' = FALSE
    /\ UNCHANGED <<dpcRequested, emptied>>

(* A DPC has readied a thread.                                             *)
KiIdleLoop ==
    /\ level = "idle" /\ queue = <<>>
    /\ level' = "passive"
    /\ UNCHANGED <<queue, dpcInserted, active, dpcRequested, irr, running, emptied>>

KeRaiseIrql ==
    /\ level = "passive" /\ ~irr
    /\ level' = "dispatch"
    /\ UNCHANGED <<queue, dpcInserted, active, dpcRequested, irr, running, emptied>>

(* Also the switch to another thread, which lowers IRQL.                   *)
KfLowerIrql ==
    /\ level = "dispatch"
    /\ level' = "passive"
    /\ UNCHANGED <<queue, dpcInserted, active, dpcRequested, irr, running, emptied>>

(* A thread waits and no other is ready.                                   *)
SwitchToIdle ==
    /\ level = "dispatch"
    /\ level' = "idle"
    /\ UNCHANGED <<queue, dpcInserted, active, dpcRequested, irr, running, emptied>>

DpcNext ==
    \/ \E d \in Dpc \ {TimerExpireDpc} : KeInsertQueueDpc(d) \/ KeRemoveQueueDpc(d)
    \/ KeClockInterrupt \/ QuantumEnd
    \/ HalpDispatchInterrupt \/ KiDispatchInterrupt \/ KiRetireDpcList
    \/ DispatchInterruptReturns \/ IdleRetiresDpcs \/ KiIdleLoop
    \/ KeRaiseIrql \/ KfLowerIrql \/ SwitchToIdle

(* The processor goes on: interrupts are taken, DPC routines return, IRQL  *)
(* is lowered.  No fairness of the clock or of any device.                 *)
Fairness ==
    /\ WF_dpcVars(HalpDispatchInterrupt) /\ WF_dpcVars(KiDispatchInterrupt)
    /\ WF_dpcVars(KiRetireDpcList) /\ WF_dpcVars(DispatchInterruptReturns)
    /\ WF_dpcVars(IdleRetiresDpcs) /\ WF_dpcVars(KfLowerIrql)

DpcSpec == DpcInit /\ [][DpcNext]_dpcVars
FairSpec == DpcSpec /\ Fairness

-----------------------------------------------------------------------------
(* Properties.                                                             *)

(* The types; a DPC routine is active exactly while one runs.              *)
DpcTypeOK ==
    /\ queue \in Seq(Dpc)
    /\ dpcInserted \in [Dpc -> BOOLEAN]
    /\ active \in BOOLEAN /\ dpcRequested \in BOOLEAN /\ irr \in BOOLEAN /\ emptied \in BOOLEAN
    /\ level \in {"passive", "dispatch", "enter", "routine", "exit", "idle", "idleroutine"}
    /\ running \in Dpc \cup {NoDpc}
    /\ active <=> level \in {"routine", "idleroutine"}
    /\ active <=> running # NoDpc

(* The list holds each DPC marked as inserted, once, and no other, though  *)
(* a DPC may be queued again and removed while its routine runs.           *)
ListMatchesMarks ==
    /\ \A d \in Dpc : dpcInserted[d] <=> \E i \in DOMAIN queue : queue[i] = d
    /\ \A i, j \in DOMAIN queue : queue[i] = queue[j] => i = j

(* Somebody is about to look at the list.                                  *)
Attended == irr \/ level \in {"enter", "routine", "idle", "idleroutine"}

(* A DPC on the list is attended to, in whatever moment it was queued:     *)
(* while the list is retired, just when it was found empty, at raised      *)
(* IRQL, in the idle loop.  The exception is a list that KeRemoveQueueDpc  *)
(* has emptied and that has not been retired since.                        *)
ListAttended == queue # <<>> => Attended \/ emptied

(* A DPC that is queued runs or is removed, with that exception, even when *)
(* DPCs are queued all the time.                                           *)
EachServed == \A d \in Dpc : dpcInserted[d] ~> ~dpcInserted[d] \/ emptied
=============================================================================
