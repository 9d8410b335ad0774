------------------------------ MODULE ExTimer ------------------------------
(***************************************************************************)
(* Executive timers, ex/timer.c, as objects with handles (ObHandle): a     *)
(* timer that is set with an APC keeps a reference and stands in the       *)
(* active list of the thread that set it, until the APC comes, another     *)
(* call takes it over or the thread ends (ps/psdelete.c).                  *)
(*                                                                         *)
(* The timer and list locks raise to DISPATCH_LEVEL.  The processor runs   *)
(* the expiration and the timer's DPC before any thread goes on, so they   *)
(* are one step, and a section under the locks finds no DPC queued.        *)
(* Threads may be preempted everywhere else.                               *)
(***************************************************************************)
EXTENDS ObHandle, WaitLists

CONSTANT NoThread

ASSUME ExTimerAssumption == NoThread \notin Thread

VARIABLES
    timer,          \* ETIMER: associated, apcThread, period, armed, inserted
    active,         \* ActiveTimerList of each thread
    life,           \* "alive", "exiting" (in PspExitThread), "exited"
    late            \* history: threads whose APC of a timer is on its way to
                    \* its kernel routine while that timer was set or cancelled

timerVars == <<timer, active, life, late>>
vars == <<obVars, timerVars>>

(* inserted: the timer's APC is in the queue of its thread.  The thread    *)
(* and the period are forgotten with the association: nobody reads them.   *)
NoTimer == [associated |-> FALSE, apcThread |-> NoThread, period |-> FALSE,
            armed |-> FALSE, inserted |-> FALSE]

TimerInit ==
    /\ Init
    /\ timer = [o \in Object |-> NoTimer]
    /\ active = [t \in Thread |-> <<>>]
    /\ life = [t \in Thread |-> "alive"]
    /\ late = {}

-----------------------------------------------------------------------------
(* Objects.                                                                *)

(* The steps of ObHandle; the delete procedure, ExpDeleteTimer, cancels    *)
(* the timer and trusts that no APC is associated with it.                 *)
ObjectStep(t) ==
    /\ ObStep(t)
    /\ timer' = [o \in Object |-> IF object[o].live /\ ~object'[o].live
                     THEN [timer[o] EXCEPT !.armed = FALSE] ELSE timer[o]]
    /\ UNCHANGED <<active, life, late>>

(* NtCreateTimer initializes the timer before it inserts the object.       *)
ObjectCall(t) ==
    /\ life[t] = "alive" /\ ObCall(t)
    /\ timer' = [o \in Object |-> IF ~object[o].live /\ object'[o].live
                                  THEN NoTimer ELSE timer[o]]
    /\ UNCHANGED <<active, life, late>>

-----------------------------------------------------------------------------
(* NtSetTimerEx and NtCancelTimer.                                         *)

Start(t, step) ==
    /\ life[t] = "alive" /\ Idle(t)
    /\ \E h \in Handle : ~Free(h) /\ References(t, slot[h], <<step[slot[h]]>>)
    /\ UNCHANGED timerVars

Cancel(t) == Start(t, [o \in Object |-> Step("cancel", o)])

(* A period matters here only to a timer with an APC.                      *)
Set(t) ==
    \E apc, period \in BOOLEAN :
        /\ period => apc
        /\ Start(t, [o \in Object |->
                        [op |-> "set", on |-> o, apc |-> apc, period |-> period]])

Out(o, lists) == [t \in Thread |-> Unlink(lists[t], o)]

(* An APC of o that has left its queue and not yet reached its routine.    *)
OnItsWay(o) == {t \in Thread : At(t, "apc") /\ On(t) = o}

(* What both do first: the association ends and its timer, DPC and APC are *)
(* taken back; the reference it had is given back after the locks.         *)
Disassociated(o) == IF timer[o].associated THEN NoTimer ELSE [timer[o] EXCEPT !.armed = FALSE]

Before(o) == IF timer[o].associated THEN <<Step("deref", o)>> ELSE <<>>

NtCancelTimer(t) ==
    /\ At(t, "cancel")
    /\ LET o == On(t)
       IN  /\ timer' = [timer EXCEPT ![o] = Disassociated(o)]
           /\ active' = Out(o, active)
           /\ Does(t, Before(o) \o <<Step("deref", o)>> \o Rest(t))
           /\ late' = late \cup OnItsWay(o)
    /\ UNCHANGED <<object, slot, entry, crashed, life>>

(* Mutation: the reference of the association before is forgotten. *)
SetForgets(t) ==
    /\ At(t, "set")
    /\ LET o   == On(t)
           how == Head(todo[t])
       IN  /\ timer' = [timer EXCEPT ![o] = IF how.apc
                THEN [associated |-> TRUE, apcThread |-> t, period |-> how.period,
                      armed |-> TRUE, inserted |-> FALSE]
                ELSE [Disassociated(o) EXCEPT !.armed = TRUE]]
           /\ active' = IF how.apc
                        THEN [Out(o, active) EXCEPT ![t] = Append(@, o)] ELSE Out(o, active)
           /\ Does(t, (IF how.apc THEN <<>> ELSE <<Step("deref", o)>>) \o Rest(t))
           /\ late' = late \cup OnItsWay(o)
    /\ UNCHANGED <<object, slot, entry, crashed, life>>

(* With an APC the reference of the call becomes the association's.        *)
NtSetTimerEx(t) ==
    /\ At(t, "set")
    /\ LET o   == On(t)
           how == Head(todo[t])
       IN  /\ timer' = [timer EXCEPT ![o] = IF how.apc
                THEN [associated |-> TRUE, apcThread |-> t, period |-> how.period,
                      armed |-> TRUE, inserted |-> FALSE]
                ELSE [Disassociated(o) EXCEPT !.armed = TRUE]]
           /\ active' = IF how.apc
                        THEN [Out(o, active) EXCEPT ![t] = Append(@, o)] ELSE Out(o, active)
           /\ Does(t, Before(o) \o (IF how.apc THEN <<>> ELSE <<Step("deref", o)>>) \o Rest(t))
           /\ late' = late \cup OnItsWay(o)
    /\ UNCHANGED <<object, slot, entry, crashed, life>>

-----------------------------------------------------------------------------
(* Expiration and the APC.                                                 *)

(* The timer expires, and its DPC, ExpTimerDpcRoutine, queues the APC; a   *)
(* timer without an APC has no DPC.                                        *)
Expires(o) ==
    /\ ~crashed /\ timer[o].armed
    /\ timer' = [timer EXCEPT ![o].armed = timer[o].period,
                    ![o].inserted = @ \/ timer[o].associated]
    /\ UNCHANGED <<obVars, active, life, late>>

(* KiDeliverApc takes the APC out of the queue of a thread that waits      *)
(* alertably; its kernel routine has not begun.                            *)
Deliver(t) ==
    /\ life[t] = "alive" /\ Idle(t)
    /\ \E o \in Object :
        /\ timer[o].inserted /\ timer[o].apcThread = t
        /\ timer' = [timer EXCEPT ![o].inserted = FALSE]
        /\ Does(t, <<Step("apc", o)>>)
    /\ late' = late \ {t}
    /\ UNCHANGED <<object, slot, entry, crashed, active, life>>

(* Mutation: the routine does not look whose APC it is. *)
RunsForAnybody(t) == timer[On(t)].associated

(* Will ExpTimerApcRoutine let the caller's routine run?                   *)
Runs(t) == timer[On(t)].associated /\ timer[On(t)].apcThread = t

(* ExpTimerApcRoutine, on a timer that is still there.                     *)
ExpTimerApcRoutine(t) ==
    /\ At(t, "apc") /\ object[On(t)].live
    /\ IF Runs(t) /\ ~timer[On(t)].period
       THEN /\ timer' = [timer EXCEPT ![On(t)].associated = FALSE, ![On(t)].apcThread = NoThread]
            /\ active' = Out(On(t), active)
            /\ Does(t, <<Step("deref", On(t))>> \o Rest(t))
       ELSE Does(t, Rest(t)) /\ UNCHANGED <<timer, active>>
    /\ UNCHANGED <<object, slot, entry, crashed, life, late>>

(* The APC holds no reference: the timer may be gone.  The routine reads   *)
(* what the freed memory holds, and may fault.                             *)
ApcFindsFreed(t) ==
    /\ At(t, "apc") /\ ~object[On(t)].live
    /\ crashed' \in BOOLEAN
    /\ Does(t, Rest(t))
    /\ UNCHANGED <<object, slot, entry, timerVars>>

-----------------------------------------------------------------------------
(* The end of a thread.                                                    *)

PspExitThread(t) ==
    /\ life[t] = "alive" /\ Idle(t)
    /\ life' = [life EXCEPT ![t] = "exiting"]
    /\ Does(t, <<Step("rundown", NoObject)>>)
    /\ UNCHANGED <<object, slot, entry, crashed, timer, active, late>>

(* ExTimerRundown looks at the first timer of the list and references it   *)
(* before it drops the lock of the list.                                   *)
ExTimerRundown(t) ==
    /\ At(t, "rundown")
    /\ IF active[t] = <<>>
       THEN /\ Does(t, <<>>)
            /\ life' = [life EXCEPT ![t] = "exited"]
            /\ UNCHANGED object
       ELSE /\ object' = [object EXCEPT ![Head(active[t])].pointers = @ + 1]
            /\ Does(t, <<Step("recheck", Head(active[t]))>> \o todo[t])
            /\ UNCHANGED life
    /\ UNCHANGED <<slot, entry, crashed, timer, active, late>>

(* Mutation: what was found at the head is believed. *)
RundownBelieves(t) ==
    /\ At(t, "recheck")
    /\ LET o == On(t)
       IN  /\ timer' = [timer EXCEPT ![o] = Disassociated(o)]
           /\ active' = [active EXCEPT ![t] = Unlink(@, o)]
           /\ Does(t, <<Step("deref", o), Step("deref", o)>> \o Rest(t))
    /\ UNCHANGED <<object, slot, entry, crashed, life, late>>

(* With both locks it looks again whether the timer is still its own.      *)
RundownTimer(t) ==
    /\ At(t, "recheck")
    /\ LET o == On(t)
       IN  IF Runs(t)
           THEN /\ timer' = [timer EXCEPT ![o] = Disassociated(o)]
                /\ active' = Out(o, active)
                /\ Does(t, <<Step("deref", o), Step("deref", o)>> \o Rest(t))
           ELSE /\ Does(t, <<Step("deref", o)>> \o Rest(t))
                /\ UNCHANGED <<timer, active>>
    /\ UNCHANGED <<object, slot, entry, crashed, life, late>>

TimerNext ==
    \/ \E t \in Thread :
        \/ ObjectCall(t) \/ ObjectStep(t)
        \/ Cancel(t) \/ NtCancelTimer(t) \/ Set(t) \/ NtSetTimerEx(t)
        \/ Deliver(t) \/ ExpTimerApcRoutine(t) \/ ApcFindsFreed(t)
        \/ PspExitThread(t) \/ ExTimerRundown(t) \/ RundownTimer(t)
    \/ \E o \in Object : Expires(o)

TimerSpec == TimerInit /\ [][TimerNext]_vars

-----------------------------------------------------------------------------
(* Properties.                                                             *)

(* PointerCount is exactly the references that exist: one per handle, one  *)
(* of the directory, one of an association with an APC and those the calls *)
(* under way still own; so nothing is freed that a handle, the name, a     *)
(* list, the timer table or a call may still reach, and nothing stays when *)
(* the last of them is gone.                                               *)
ReferencesExact ==
    \A o \in Object :
        LET references == Cardinality(HandlesOf(o))
                + (IF entry = o THEN 1 ELSE 0)
                + (IF timer[o].associated THEN 1 ELSE 0)
                + Cardinality(Owned(o, Owning \cup {"set", "cancel", "recheck"}))
        IN  /\ object[o].pointers = references
            /\ object[o].handles = Cardinality(HandlesOf(o))
            /\ object[o].live <=> references > 0
            /\ timer[o].armed \/ timer[o].inserted => object[o].live

(* A timer stands in exactly one list, that of the thread its APC is for,  *)
(* as long as an APC is associated with it; a queued APC belongs to an     *)
(* association, so that a timer that was cancelled or set anew has none;   *)
(* and when a thread has ended no timer, no DPC and no APC is left that    *)
(* will look for it.                                                       *)
ListsFollowTimers ==
    \A o \in Object :
        /\ \A t \in Thread :
            Cardinality({i \in DOMAIN active[t] : active[t][i] = o})
                = (IF timer[o].associated /\ timer[o].apcThread = t THEN 1 ELSE 0)
        /\ timer[o].inserted => timer[o].associated
        /\ \A t \in Thread : life[t] = "exited" /\ timer[o].apcThread = t
                => ~timer[o].associated /\ ~timer[o].inserted

(* The caller's routine never runs for a timer that somebody has cancelled *)
(* or set again after the APC had left its queue.                          *)
NoStaleApc == \A t \in Thread : At(t, "apc") /\ Runs(t) => t \notin late

=============================================================================
