------------------------------ MODULE KeTimer ------------------------------
(***************************************************************************)
(* The timer table: ke/timersup.c, ke/timerobj.c, the expiration of timers *)
(* in ke/dpcsup.c, KeSetSystemTime of ke/miscc.c and the clock interrupt   *)
(* of ke/i386/clockint.asm.                                                *)
(*                                                                         *)
(* Everything here but the clock interrupt runs at DISPATCH_LEVEL with the *)
(* dispatcher database locked, one routine at a time, and the clock        *)
(* interrupt comes between any two of its reads and writes.  A step is     *)
(* what one read of a clock, or one change to the table, brings about.     *)
(*                                                                         *)
(* Left out: the waiters of a timer (KiWaitTest is in KeWait), the DPC     *)
(* that KeSetTimerEx queues for a timer that has expired already, and the  *)
(* wrap of KeTickCount after 2^32 ticks.                                   *)
(***************************************************************************)
EXTENDS WaitLists

CONSTANTS
    Timer,
    TableSize,      \* TIMER_TABLE_SIZE
    Increment,      \* CLOCK_TIME_INCREMENT
    DpcListSize,    \* MAXIMUM_DPC_LIST_SIZE
    MaxTick,        \* bound: clock interrupts
    Delay,          \* relative due times timers are set to
    Absolute,       \* absolute due times timers are set to
    Period,         \* periods they are given, 0 for none
    NewTime,        \* times KeSetSystemTime is given
    HasDpc,         \* whether timers are given a DPC
    NoTimer, NoTime

ASSUME KeTimerAssumption ==
    /\ TableSize \in Nat \ {0} /\ Increment \in Nat \ {0}
    /\ DpcListSize \in Nat \ {0} /\ MaxTick \in Nat
    /\ Delay \subseteq Nat \ {0} /\ Absolute \subseteq Nat
    /\ Period \subseteq Nat /\ NewTime \subseteq Nat /\ HasDpc \subseteq BOOLEAN
    /\ NoTimer \notin Timer /\ NoTime \notin Nat

VARIABLES
    tick,           \* KeTickCount
    bias,           \* KeSystemTime less KeInterruptTime
    table,          \* KiTimerTableListHead
    inserted,       \* KTIMER.Header.Inserted
    signal,         \* KTIMER.Header.SignalState
    absolute,       \* KTIMER.Header.Absolute
    due,            \* KTIMER.DueTime
    period,         \* KTIMER.Period
    dpc,            \* the timer has a DPC
    asked,          \* history: the absolute time a timer was last set to
    dpcQueued,      \* KiTimerExpireDpc.Inserted
    dpcArg,         \* KiTimerExpireDpc.SystemArgument1
    pc,             \* where the insertion of a timer is
    cur,            \* the timer it inserts
    interval,       \* how far its due time is off
    exp,            \* where the expiration of timers is
    curTime,        \* CurrentTime of KiTimerExpiration
    arg,            \* its SystemArgument1
    index,          \* its Index
    handLimit,      \* its HandLimit
    delta,          \* TimeDelta of KeSetSystemTime
    absList,        \* its AbsoluteListHead
    expired,        \* ExpiredListHead
    dpcList         \* DpcList of KiTimerListExpire

clockVars  == <<tick, bias, dpcQueued, dpcArg>>
timerVars  == <<inserted, signal, absolute, due, period, dpc, asked>>
insertVars == <<pc, cur, interval>>
scanVars   == <<curTime, arg, index, handLimit>>
listVars   == <<delta, absList, expired, dpcList>>
vars == <<clockVars, table, timerVars, insertVars, exp, scanVars, listVars>>

Hand == 0..(TableSize - 1)

(* KeInterruptTime and KeSystemTime.  The clock interrupt moves the tick   *)
(* count and both times on together.                                       *)
Now        == tick * Increment
SystemTime == Now + bias

Init ==
    /\ tick = 0 /\ bias = 0
    /\ table = [i \in Hand |-> <<>>]
    /\ inserted = [t \in Timer |-> FALSE]
    /\ signal = [t \in Timer |-> 0]
    /\ absolute = [t \in Timer |-> FALSE]
    /\ due = [t \in Timer |-> 0]
    /\ period = [t \in Timer |-> 0]
    /\ dpc = [t \in Timer |-> FALSE]
    /\ asked = [t \in Timer |-> NoTime]
    /\ dpcQueued = FALSE /\ dpcArg = 0
    /\ pc = "idle" /\ cur = NoTimer /\ interval = 0
    /\ exp = "idle"
    /\ curTime = 0 /\ arg = 0 /\ index = 0 /\ handLimit = 0
    /\ delta = 0 /\ absList = <<>> /\ expired = <<>> /\ dpcList = <<>>

-----------------------------------------------------------------------------
(* KeClockInterrupt: the hand is the tick count before it is incremented;  *)
(* the first timer of its list tells whether the list has expired timers.  *)
Tick ==
    LET hand == table[tick % TableSize]
    IN  /\ tick < MaxTick
        /\ tick' = tick + 1
        /\ IF hand # <<>> /\ due[hand[1]] <= Now' /\ ~dpcQueued
           THEN dpcQueued' = TRUE /\ dpcArg' = tick
           ELSE UNCHANGED <<dpcQueued, dpcArg>>
        /\ UNCHANGED <<bias, table, timerVars, insertVars, exp, scanVars, listVars>>

-----------------------------------------------------------------------------
(* Inserting a timer.                                                      *)

Bucket(time) == (time \div Increment) % TableSize

InTable == UNION {Range(table[i]) : i \in Hand}

(* KiRemoveTreeTimer, from whichever list links the timer. *)
RemoveTreeTimer(t) ==
    /\ table' = [i \in Hand |-> Unlink(table[i], t)]
    /\ expired' = Unlink(expired, t)

(* KiInsertTreeTimer up to its read of the interrupt time.  An interval of *)
(* a nonnegative sign is a system time, one of a negative sign a delay.    *)
StartInsert(t, isTime, time, sig) ==
    /\ cur' = t
    /\ \/ /\ isTime /\ SystemTime >= time
          /\ signal' = [signal EXCEPT ![t] = 1]
          /\ inserted' = [inserted EXCEPT ![t] = FALSE]
          /\ absolute' = [absolute EXCEPT ![t] = FALSE]
          /\ pc' = "failed"
          /\ UNCHANGED interval
       \/ /\ isTime => SystemTime < time
          /\ signal' = [signal EXCEPT ![t] = sig]
          /\ inserted' = [inserted EXCEPT ![t] = TRUE]
          /\ absolute' = [absolute EXCEPT ![t] = isTime]
          /\ pc' = "index"
          /\ interval' = IF isTime THEN time - SystemTime ELSE time

(* KiComputeTimerTableIndex, with the interrupt time just read. *)
ComputeIndex ==
    /\ pc = "index"
    /\ due' = [due EXCEPT ![cur] = Now + interval]
    /\ pc' = "link"
    /\ UNCHANGED <<clockVars, table, inserted, signal, absolute, period, dpc, asked,
                   cur, interval, exp, scanVars, listVars>>

(* The place of cur in a list: behind the last timer that is due no later. *)
GoesBehind(s, k) ==
    /\ k > 0 => due[s[k]] <= due[cur]
    /\ \A i \in (k + 1)..Len(s) : due[s[i]] > due[cur]

(* Mutants: the timer is linked in front of the one found, not behind it;  *)
(* one that becomes the first of its list is taken for not yet expired.    *)
LinkInFront ==
    LET b == Bucket(due[cur])
    IN  /\ pc = "link"
        /\ \E k \in 0..Len(table[b]) :
            /\ GoesBehind(table[b], k)
            /\ table' = [table EXCEPT ![b] = InsertAt(@, IF k = 0 THEN 1 ELSE k, cur)]
            /\ pc' = IF k = 0 THEN "verify" ELSE "done"
        /\ UNCHANGED <<clockVars, timerVars, cur, interval, exp, scanVars, listVars>>

LinkUnverified ==
    LET b == Bucket(due[cur])
    IN  /\ pc = "link"
        /\ \E k \in 0..Len(table[b]) :
            /\ GoesBehind(table[b], k)
            /\ table' = [table EXCEPT ![b] = InsertAt(@, k + 1, cur)]
        /\ pc' = "done"
        /\ UNCHANGED <<clockVars, timerVars, cur, interval, exp, scanVars, listVars>>

(* KiInsertTimerTable: only a timer that comes in front of all can be one  *)
(* whose list the clock interrupt has passed by.                           *)
Link ==
    LET b == Bucket(due[cur])
    IN  /\ pc = "link"
        /\ \E k \in 0..Len(table[b]) :
            /\ GoesBehind(table[b], k)
            /\ table' = [table EXCEPT ![b] = InsertAt(@, k + 1, cur)]
            /\ pc' = IF k = 0 THEN "verify" ELSE "done"
        /\ UNCHANGED <<clockVars, timerVars, cur, interval, exp, scanVars, listVars>>

Verify ==
    /\ pc = "verify"
    /\ \/ /\ due[cur] > Now
          /\ pc' = "done"
          /\ UNCHANGED <<table, expired, inserted, signal>>
       \/ /\ due[cur] <= Now
          /\ RemoveTreeTimer(cur)
          /\ inserted' = [inserted EXCEPT ![cur] = FALSE]
          /\ signal' = [signal EXCEPT ![cur] = 1]
          /\ pc' = "failed"
    /\ UNCHANGED <<clockVars, absolute, due, period, dpc, asked, cur, interval,
                   exp, scanVars, delta, absList, dpcList>>

Finish == pc' = "idle" /\ cur' = NoTimer /\ interval' = 0

(* Back in KeSetTimerEx or KiTimerListExpire: a periodic timer is inserted *)
(* again with its period until the insertion succeeds.                     *)
InsertAgain ==
    /\ pc = "failed" /\ exp # "absolute" /\ period[cur] # 0
    /\ StartInsert(cur, FALSE, period[cur], 1)
    /\ asked' = [asked EXCEPT ![cur] = NoTime]
    /\ UNCHANGED <<clockVars, table, due, period, dpc, exp, scanVars, listVars>>

(* Back in KeSetSystemTime, a timer that has expired goes on its list.     *)
Inserted ==
    /\ \/ /\ pc = "done" \/ (pc = "failed" /\ exp # "absolute" /\ period[cur] = 0)
          /\ UNCHANGED <<inserted, expired>>
       \/ /\ pc = "failed" /\ exp = "absolute"
          /\ inserted' = [inserted EXCEPT ![cur] = TRUE]
          /\ expired' = Append(expired, cur)
    /\ Finish
    /\ UNCHANGED <<clockVars, table, signal, absolute, due, period, dpc, asked,
                   exp, scanVars, delta, absList, dpcList>>

-----------------------------------------------------------------------------
(* The calls.  A DPC routine may make them too.                            *)
CanCall == pc = "idle" /\ exp \in {"idle", "routines", "full"}

KeSetTimerEx(t, isTime, time, p, hasDpc) ==
    /\ CanCall
    /\ RemoveTreeTimer(t)
    /\ period' = [period EXCEPT ![t] = p]
    /\ dpc' = [dpc EXCEPT ![t] = hasDpc]
    /\ asked' = [asked EXCEPT ![t] = IF isTime THEN time ELSE NoTime]
    /\ StartInsert(t, isTime, time, 0)
    /\ UNCHANGED <<clockVars, due, exp, scanVars, delta, absList, dpcList>>

KeCancelTimer(t) ==
    /\ CanCall /\ inserted[t]
    /\ RemoveTreeTimer(t)
    /\ inserted' = [inserted EXCEPT ![t] = FALSE]
    /\ UNCHANGED <<clockVars, signal, absolute, due, period, dpc, asked, insertVars,
                   exp, scanVars, delta, absList, dpcList>>

-----------------------------------------------------------------------------
(* KiTimerExpiration.                                                      *)

(* KiRetireDpcList takes the DPC off its queue. *)
Dequeue ==
    /\ dpcQueued /\ pc = "idle" /\ exp = "idle"
    /\ dpcQueued' = FALSE
    /\ arg' = dpcArg
    /\ exp' = "time"
    /\ UNCHANGED <<tick, bias, dpcArg, table, timerVars, insertVars,
                   curTime, index, handLimit, listVars>>

ReadTime ==
    /\ exp = "time"
    /\ curTime' = Now
    /\ exp' = "hand"
    /\ UNCHANGED <<clockVars, table, timerVars, insertVars,
                   arg, index, handLimit, listVars>>

(* From the hand at the interrupt to the hand now, or the whole table.     *)
(* Index is what the loop increments first.                                *)
ReadHand ==
    /\ exp = "hand"
    /\ \/ /\ tick - arg >= TableSize
          /\ index' = TableSize - 1 /\ handLimit' = TableSize - 1
       \/ /\ tick - arg < TableSize
          /\ index' = (arg + TableSize - 1) % TableSize
          /\ handLimit' = tick % TableSize
    /\ exp' = "scan"
    /\ UNCHANGED <<clockVars, table, timerVars, insertVars, curTime, arg, listVars>>

(* One list: its timers are taken up to the first that is not due.         *)
Scan ==
    LET i == (index + 1) % TableSize
    IN  /\ exp = "scan"
        /\ index' = i
        /\ \E n \in 0..Len(table[i]) :
            /\ \A k \in 1..n : due[table[i][k]] <= curTime
            /\ n < Len(table[i]) => due[table[i][n + 1]] > curTime
            /\ expired' = expired \o SubSeq(table[i], 1, n)
            /\ table' = [table EXCEPT ![i] = SubSeq(@, n + 1, Len(@))]
        /\ exp' = IF i = handLimit THEN "check" ELSE "scan"
        /\ UNCHANGED <<clockVars, timerVars, insertVars, curTime, arg, handLimit,
                       delta, absList, dpcList>>

(* KiCheckTimerTable, in a checked build; what the scan kept is done with. *)
CheckTable ==
    /\ exp = "check"
    /\ exp' = "list"
    /\ curTime' = 0 /\ arg' = 0 /\ index' = 0 /\ handLimit' = 0
    /\ UNCHANGED <<clockVars, table, timerVars, insertVars, listVars>>

-----------------------------------------------------------------------------
(* KiTimerListExpire.                                                      *)

ListOver == expired = <<>> \/ Len(dpcList) = DpcListSize

Expire ==
    /\ exp = "list" /\ pc = "idle" /\ ~ListOver
    /\ LET t == expired[1]
       IN  /\ dpcList' = IF dpc[t] THEN Append(dpcList, t) ELSE dpcList
           /\ \/ /\ period[t] = 0
                 /\ inserted' = [inserted EXCEPT ![t] = FALSE]
                 /\ signal' = [signal EXCEPT ![t] = 1]
                 /\ UNCHANGED <<absolute, asked, insertVars>>
              \/ /\ period[t] # 0
                 /\ StartInsert(t, FALSE, period[t], 1)
                 /\ asked' = [asked EXCEPT ![t] = NoTime]
    /\ expired' = Tail(expired)
    /\ UNCHANGED <<clockVars, table, due, period, dpc, exp, scanVars, delta, absList>>

RunDpcs ==
    /\ exp = "list" /\ pc = "idle" /\ ListOver
    /\ exp' = CASE dpcList = <<>> -> "idle"
                [] Len(dpcList) = DpcListSize -> "full"
                [] OTHER -> "routines"
    /\ UNCHANGED <<clockVars, table, timerVars, insertVars, scanVars, listVars>>

(* The routine of a DPC, with the dispatcher database unlocked.  After a   *)
(* full list the expired timers are looked at again.                       *)
DpcRoutine ==
    /\ exp \in {"routines", "full"} /\ pc = "idle"
    /\ dpcList # <<>>
    /\ dpcList' = Tail(dpcList)
    /\ exp' = CASE Len(dpcList) > 1 -> exp
                [] exp = "full" -> "list"
                [] OTHER -> "idle"
    /\ UNCHANGED <<clockVars, table, timerVars, insertVars, scanVars, delta,
                   absList, expired>>

-----------------------------------------------------------------------------
(* KeSetSystemTime.                                                        *)
KeSetSystemTime(time) ==
    /\ pc = "idle" /\ exp = "idle"
    /\ bias' = bias + time - SystemTime
    /\ delta' = time - SystemTime
    /\ exp' = "collect"
    /\ UNCHANGED <<tick, dpcQueued, dpcArg, table, timerVars, insertVars, scanVars,
                   absList, expired, dpcList>>

(* The absolute timers go to a list of their own, one after the other.     *)
CollectAbsolute ==
    /\ exp = "collect"
    /\ \/ \E i \in Hand : \E k \in DOMAIN table[i] :
            /\ absolute[table[i][k]]
            /\ \A j \in 0..i : \A m \in DOMAIN table[j] :
                    absolute[table[j][m]] => j = i /\ m >= k
            /\ table' = [table EXCEPT ![i] = Unlink(@, table[i][k])]
            /\ absList' = Append(absList, table[i][k])
            /\ UNCHANGED exp
       \/ /\ \A t \in InTable : ~absolute[t]
          /\ exp' = "absolute"
          /\ UNCHANGED <<table, absList>>
    /\ UNCHANGED <<clockVars, timerVars, insertVars, scanVars, delta, expired, dpcList>>

(* Mutation: the due time of a timer stays what it was. *)
ReinsertUnmoved ==
    /\ exp = "absolute" /\ pc = "idle" /\ absList # <<>>
    /\ LET t == absList[1]
           overdue == due[t] <= Now
       IN  /\ signal' = [signal EXCEPT ![t] = IF overdue THEN 1
                                              ELSE IF period[t] = 0 THEN 0 ELSE @]
           /\ inserted' = [inserted EXCEPT ![t] = ~overdue]
           /\ pc' = IF overdue THEN "failed" ELSE "link"
           /\ cur' = t
    /\ absList' = Tail(absList)
    /\ UNCHANGED <<clockVars, table, absolute, due, period, dpc, asked, interval, exp,
                   scanVars, delta, expired, dpcList>>

(* KiReinsertTreeTimer for the next absolute timer, whose due time moves   *)
(* against the system time.                                                *)
Reinsert ==
    /\ exp = "absolute" /\ pc = "idle" /\ absList # <<>>
    /\ LET t == absList[1]
           overdue == due[t] - delta <= Now
       IN  /\ due' = [due EXCEPT ![t] = @ - delta]
           /\ signal' = [signal EXCEPT ![t] = IF overdue THEN 1
                                              ELSE IF period[t] = 0 THEN 0 ELSE @]
           /\ inserted' = [inserted EXCEPT ![t] = ~overdue]
           /\ pc' = IF overdue THEN "failed" ELSE "link"
           /\ cur' = t
    /\ absList' = Tail(absList)
    /\ UNCHANGED <<clockVars, table, absolute, period, dpc, asked, interval, exp,
                   scanVars, delta, expired, dpcList>>

ReinsertOver ==
    /\ exp = "absolute" /\ pc = "idle" /\ absList = <<>>
    /\ exp' = "list" /\ delta' = 0
    /\ UNCHANGED <<clockVars, table, timerVars, insertVars, scanVars,
                   absList, expired, dpcList>>

-----------------------------------------------------------------------------
Insertion  == ComputeIndex \/ Link \/ Verify \/ InsertAgain \/ Inserted
Expiration == Dequeue \/ ReadTime \/ ReadHand \/ Scan \/ CheckTable
              \/ Expire \/ RunDpcs \/ DpcRoutine
SettingTime == CollectAbsolute \/ Reinsert \/ ReinsertOver

Next ==
    \/ Tick
    \/ \E t \in Timer, p \in Period, d \in HasDpc :
            \/ \E time \in Delay : KeSetTimerEx(t, FALSE, time, p, d)
            \/ \E time \in Absolute : KeSetTimerEx(t, TRUE, time, p, d)
    \/ \E t \in Timer : KeCancelTimer(t)
    \/ \E time \in NewTime : KeSetSystemTime(time)
    \/ Insertion \/ Expiration \/ SettingTime

Spec == Init /\ [][Next]_vars

-----------------------------------------------------------------------------
TypeOK ==
    /\ tick \in 0..MaxTick /\ bias \in Int
    /\ table \in [Hand -> Seq(Timer)]
    /\ inserted \in [Timer -> BOOLEAN]
    /\ signal \in [Timer -> {0, 1}]
    /\ absolute \in [Timer -> BOOLEAN]
    /\ due \in [Timer -> Int]
    /\ period \in [Timer -> Period \cup {0}]
    /\ dpc \in [Timer -> BOOLEAN]
    /\ asked \in [Timer -> Nat \cup {NoTime}]
    /\ dpcQueued \in BOOLEAN /\ dpcArg \in Nat
    /\ pc \in {"idle", "index", "link", "verify", "done", "failed"}
    /\ cur \in Timer \cup {NoTimer} /\ interval \in Nat
    /\ exp \in {"idle", "time", "hand", "scan", "check", "list", "routines", "full",
                "collect", "absolute"}
    /\ curTime \in Nat /\ arg \in Nat /\ index \in Hand /\ handLimit \in Hand
    /\ delta \in Int
    /\ absList \in Seq(Timer) /\ expired \in Seq(Timer) /\ dpcList \in Seq(Timer)

(* Every inserted timer is on one list, once, in the list its due time     *)
(* hashes to and in the order of due times, which is what lets the clock   *)
(* interrupt look at the first timer of one list only; a timer that has    *)
(* been canceled or has expired is on none.                                *)
TableOK ==
    /\ TypeOK
    /\ \A i \in Hand : IsInjective(table[i])
    /\ IsInjective(expired) /\ IsInjective(absList)
    /\ InTable \cap Range(expired) = {}
    /\ (InTable \cup Range(expired)) \cap Range(absList) = {}
    /\ InTable \cup Range(expired) \cup Range(absList)
         = {t \in Timer : inserted[t] /\ ~(t = cur /\ pc \in {"index", "link"})}
    /\ \A i \in Hand : \A j \in DOMAIN table[i] :
          /\ Bucket(due[table[i][j]]) = i
          /\ \A k \in 1..j : due[table[i][k]] <= due[table[i][j]]

(* No timer is passed over: when no expiration runs and none is queued, no *)
(* timer of the table was due before the last clock interrupt, whatever    *)
(* interrupts came while timers were being inserted; and after the lists   *)
(* of the passed hands have been scanned KiCheckTimerTable finds no timer  *)
(* that is due, for which it would break into the debugger.                *)
NoTimerMissed ==
    /\ pc = "idle" /\ exp = "idle" /\ ~dpcQueued => \A t \in InTable : due[t] >= Now
    /\ exp = "check" => \A t \in InTable : due[t] > curTime

(* A timer is never signaled early: not before its due time, nor, if it    *)
(* was set to a system time, before the system clock shows that time,      *)
(* however often the clock is set.                                         *)
NeverEarly ==
    [][\A t \in Timer :
            signal[t] = 0 /\ signal'[t] = 1 =>
                IF asked[t] = NoTime /\ asked'[t] = NoTime THEN Now >= due'[t]
                ELSE SystemTime >= (IF asked'[t] = NoTime THEN asked[t] ELSE asked'[t])
      ]_vars
=============================================================================
