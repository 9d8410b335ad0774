------------------------------ MODULE KeQueue ------------------------------
(***************************************************************************)
(* Kernel queues (ke/queueobj.c), the objects behind I/O completion ports, *)
(* with the parts of the dispatcher that count a queue's active threads:   *)
(* KiUnwaitThread, the waits for other objects of ke/wait.c, the delivery  *)
(* of kernel APCs in KiSwapThread and KeTerminateThread.                   *)
(*                                                                         *)
(* Every action is what runs with the dispatcher database locked; threads  *)
(* are preempted, and take kernel APCs, between two of them.  KeRemoveQueue *)
(* is called in kernel mode (io/complete.c), so that no user APC ends its  *)
(* wait.                                                                   *)
(***************************************************************************)
EXTENDS WaitLists

CONSTANTS
    Thread, Queue, Entry,
    Mortal,         \* threads that may terminate
    Uses,           \* [Thread -> SUBSET Queue]: the queues a thread removes from
    ApcTarget,      \* bound: threads kernel APCs are queued to
    Maximum,        \* MaximumCount of every queue
    NoQueue, NoStatus, Timeout, KernelApc

ASSUME KeQueueAssumption ==
    /\ IsFiniteSet(Thread)
    /\ Mortal \subseteq Thread /\ ApcTarget \subseteq Thread /\ Uses \in [Thread -> SUBSET Queue]
    /\ Maximum \in Nat \ {0}
    /\ NoQueue \notin Queue
    /\ Cardinality({NoStatus, Timeout, KernelApc}) = 3
    /\ {NoStatus, Timeout, KernelApc} \cap Entry = {}

VARIABLES
    queue,      \* the KQUEUEs; "live" is FALSE before KeInitializeQueue
    thread,     \* per thread: where it is, and the fields of its KTHREAD
    kernelApc   \* ApcState.KernelApcPending

vars == <<queue, thread, kernelApc>>

NewQueue == [live |-> TRUE, signal |-> 0, count |-> 0,
             entries |-> <<>>, waiters |-> <<>>, threads |-> <<>>]

(* "in" is where a thread is in KeRemoveQueue: outside, waiting, made      *)
(* ready, in KiSwapThread with the wait status it saved as "result", or    *)
(* about to lock the dispatcher database again.  Outside, "result" is what *)
(* KeRemoveQueue returned and the thread works on until it calls again.    *)
Init ==
    /\ queue = [q \in Queue |-> NewQueue]
    /\ thread = [t \in Thread |->
                   [in |-> "outside", blocked |-> FALSE, queue |-> NoQueue,
                    wrQueue |-> FALSE, status |-> NoStatus, result |-> NoStatus,
                    timed |-> FALSE, timer |-> FALSE]]
    /\ kernelApc = [t \in Thread |-> FALSE]

-----------------------------------------------------------------------------
(* A thread taken out of its wait, by KiUnwaitThread or KiInsertQueue.     *)
Readied(T, status) == [T EXCEPT !.in = "woken", !.status = status, !.timer = FALSE]

(* KiActivateWaiterQueue: the current thread of the queue no longer counts *)
(* and the last waiter gets the first entry, if there are both.            *)
Activates(Q) ==
    Q.count - 1 < Maximum /\ Q.entries # <<>> /\ Q.waiters # <<>>

ActivateWaiter(Q) ==
    IF Activates(Q)
    THEN [Q EXCEPT !.entries = Tail(@), !.waiters = Front(@), !.signal = @ - 1]
    ELSE [Q EXCEPT !.count = @ - 1]

ThreadsAfterActivate(Q) ==
    IF Activates(Q)
    THEN [thread EXCEPT ![Last(Q.waiters)] = Readied(@, Head(Q.entries))]
    ELSE thread

Runs(t) == ~thread[t].blocked /\ thread[t].in = "outside"

(* Where a thread takes kernel APCs. *)
TakesApcs(t) == ~thread[t].blocked /\ thread[t].in \in {"outside", "swapped", "relock"}

-----------------------------------------------------------------------------
(* Mutation: one thread more than the maximum is activated. *)
HandsPastMaximum(t, Q, q) ==
    /\ Q.waiters # <<>> /\ Q.count <= Maximum
    /\ ~(thread[t].queue = q /\ thread[t].wrQueue)

(* KiInsertQueue, called by thread t.  A thread still in its wait for the  *)
(* queue leaves the entry to its own next look at the queue.               *)
Hands(t, Q, q) ==
    /\ Q.waiters # <<>> /\ Q.count < Maximum
    /\ ~(thread[t].queue = q /\ thread[t].wrQueue)

Free(e) ==
    /\ \A q \in Queue : ~Contains(queue[q].entries, e)
    /\ \A t \in Thread : thread[t].status # e /\ thread[t].result # e

(* Mutation: the timer of a thread that is handed an entry is not canceled. *)
InsertKeepsTimer(t, q, e, atHead) ==
    LET Q == queue[q]
    IN  /\ Q.live /\ Free(e)
        /\ IF Hands(t, Q, q)
           THEN /\ queue' = [queue EXCEPT ![q].waiters = Front(@), ![q].count = @ + 1]
                /\ thread' = [thread EXCEPT ![Last(Q.waiters)] =
                                [@ EXCEPT !.in = "woken", !.status = e, !.wrQueue = FALSE]]
           ELSE /\ queue' = [queue EXCEPT ![q].signal = @ + 1,
                               ![q].entries = IF atHead THEN <<e>> \o @ ELSE Append(@, e)]
                /\ UNCHANGED thread

Insert(t, q, e, atHead) ==
    LET Q == queue[q]
    IN  /\ Q.live /\ Free(e)
        /\ IF Hands(t, Q, q)
           THEN /\ queue' = [queue EXCEPT ![q].waiters = Front(@), ![q].count = @ + 1]
                /\ thread' = [thread EXCEPT ![Last(Q.waiters)] =
                                [Readied(@, e) EXCEPT !.wrQueue = FALSE]]
           ELSE /\ queue' = [queue EXCEPT ![q].signal = @ + 1,
                               ![q].entries = IF atHead THEN <<e>> \o @ ELSE Append(@, e)]
                /\ UNCHANGED thread

KeInsertQueue(t, q, e, atHead) ==
    Runs(t) /\ Insert(t, q, e, atHead) /\ UNCHANGED kernelApc

-----------------------------------------------------------------------------
(* One pass of the loop of KeRemoveQueue by thread t whose KTHREAD is T,   *)
(* for queue q that is Q, the others being Queues and Threads.             *)
Pass(t, q, T, Q, Queues, Threads) ==
    LET canTake == Q.entries # <<>> /\ Q.count < Maximum
        Ends(T1, Q1) == /\ thread' = [Threads EXCEPT ![t] = T1]
                        /\ queue' = [Queues EXCEPT ![q] = Q1]
        Again == [Q EXCEPT !.count = @ + 1]
    IN  \/ /\ canTake
           /\ Ends([T EXCEPT !.in = "outside", !.timed = FALSE, !.result = Head(Q.entries)],
                   [Q EXCEPT !.signal = @ - 1, !.count = @ + 1, !.entries = Tail(@)])
        \/ /\ ~canTake /\ kernelApc[t]
           /\ Ends([T EXCEPT !.in = "relock"], Again)
        \/ /\ ~canTake /\ ~kernelApc[t] /\ T.timed
           /\ Ends([T EXCEPT !.in = "outside", !.timed = FALSE, !.result = Timeout], Again)
        \/ /\ ~canTake /\ ~kernelApc[t]
           /\ Ends([T EXCEPT !.in = "waiting", !.wrQueue = TRUE, !.timer = T.timed],
                   [Q EXCEPT !.waiters = Append(@, t)])

(* Mutation: a thread that changes queues does not activate a waiter of the  *)
(* old one.                                                                *)
RemoveAndForgetOldQueue(t, q, timed) ==
    LET old == thread[t].queue
        T == [thread[t] EXCEPT !.queue = q, !.timed = timed, !.result = NoStatus]
    IN  /\ Runs(t) /\ queue[q].live
        /\ \/ /\ old = q
              /\ Pass(t, q, T, [queue[q] EXCEPT !.count = @ - 1], queue, thread)
           \/ /\ old = NoQueue
              /\ Pass(t, q, T, [queue[q] EXCEPT !.threads = Append(@, t)], queue, thread)
           \/ /\ old \notin {q, NoQueue}
              /\ LET Old == [queue[old] EXCEPT !.threads = Unlink(@, t), !.count = @ - 1]
                 IN  Pass(t, q, T, [queue[q] EXCEPT !.threads = Append(@, t)],
                          [queue EXCEPT ![old] = Old], thread)
        /\ UNCHANGED kernelApc

(* KeRemoveQueue up to the end of its first pass. *)
KeRemoveQueue(t, q, timed) ==
    LET old == thread[t].queue
        T == [thread[t] EXCEPT !.queue = q, !.timed = timed, !.result = NoStatus]
    IN  /\ Runs(t) /\ queue[q].live
        /\ \/ /\ old = q
              /\ Pass(t, q, T, [queue[q] EXCEPT !.count = @ - 1], queue, thread)
           \/ /\ old = NoQueue
              /\ Pass(t, q, T, [queue[q] EXCEPT !.threads = Append(@, t)], queue, thread)
           \/ /\ old \notin {q, NoQueue}
              /\ LET Old == [queue[old] EXCEPT !.threads = Unlink(@, t)]
                 IN  Pass(t, q, T, [queue[q] EXCEPT !.threads = Append(@, t)],
                          [queue EXCEPT ![old] = ActivateWaiter(Old)],
                          ThreadsAfterActivate(Old))
        /\ UNCHANGED kernelApc

(* KiSwapThread switches to a ready thread and saves its wait status.      *)
SwapIn(t) ==
    /\ thread[t].in = "woken"
    /\ thread' = [thread EXCEPT ![t].in = "swapped", ![t].result = thread[t].status]
    /\ UNCHANGED <<queue, kernelApc>>

(* Back in KeRemoveQueue, which returns the entry or STATUS_TIMEOUT unless *)
(* a kernel APC has interrupted the wait.                                  *)
Leave(t, status) ==
    /\ thread[t].in = "swapped" /\ ~thread[t].blocked /\ ~kernelApc[t]
    /\ \/ /\ status = KernelApc
          /\ thread' = [thread EXCEPT ![t].in = "relock", ![t].result = NoStatus,
                                      ![t].wrQueue = FALSE, ![t].status = NoStatus]
       \/ /\ status # KernelApc
          /\ thread' = [thread EXCEPT ![t].in = "outside", ![t].result = status,
                                      ![t].wrQueue = FALSE, ![t].status = NoStatus,
                                      ![t].timed = FALSE]
    /\ UNCHANGED <<queue, kernelApc>>

(* Mutation: the wait status is read when the kernel APC has run. *)
ReturnLateStatus(t) == Leave(t, thread[t].status)

Return(t) == Leave(t, thread[t].result)

(* The next pass of the loop.                                              *)
Relock(t) ==
    LET T == thread[t]
    IN  /\ T.in = "relock" /\ ~T.blocked
        /\ Pass(t, T.queue, T, [queue[T.queue] EXCEPT !.count = @ - 1], queue, thread)
        /\ UNCHANGED kernelApc

-----------------------------------------------------------------------------
(* What else ends a wait: the thread's timer, a kernel APC.                *)
Unwait(t, status) ==
    LET q == thread[t].queue
    IN  /\ thread' = [thread EXCEPT ![t] = Readied(@, status)]
        /\ queue' = [queue EXCEPT ![q].waiters = Unlink(@, t), ![q].count = @ + 1]

TimerExpire(t) == thread[t].timer /\ Unwait(t, Timeout) /\ UNCHANGED kernelApc

InsertKernelApc(t) ==
    /\ t \in ApcTarget /\ ~kernelApc[t] /\ thread[t].in # "exited" /\ ~thread[t].blocked
    /\ kernelApc' = [kernelApc EXCEPT ![t] = TRUE]
    /\ IF thread[t].in = "waiting" THEN Unwait(t, KernelApc) ELSE UNCHANGED <<queue, thread>>

(* A wait for some other object leaves the queue to another thread, and    *)
(* overwrites the thread's wait reason and wait status.                    *)
Block(t) ==
    LET T == thread[t]
        Blocked(f) == [f EXCEPT ![t].blocked = TRUE, ![t].wrQueue = FALSE,
                                ![t].status = NoStatus]
    IN  \/ /\ T.queue = NoQueue
           /\ thread' = Blocked(thread)
           /\ UNCHANGED queue
        \/ /\ T.queue # NoQueue
           /\ queue' = [queue EXCEPT ![T.queue] = ActivateWaiter(@)]
           /\ thread' = Blocked(ThreadsAfterActivate(queue[T.queue]))

KeWaitForSingleObject(t) == Runs(t) /\ Block(t) /\ UNCHANGED kernelApc

Unblock(t) ==
    LET q == thread[t].queue
    IN  /\ thread[t].blocked
        /\ thread' = [thread EXCEPT ![t].blocked = FALSE]
        /\ queue' = IF q = NoQueue THEN queue ELSE [queue EXCEPT ![q].count = @ + 1]
        /\ UNCHANGED kernelApc

(* KiDeliverApc: the kernel APC completes a request to a queue, as does    *)
(* IopCompleteRequest, or waits, as does KiSuspendThread.                  *)
DeliverApc(t) ==
    /\ kernelApc[t] /\ TakesApcs(t)
    /\ kernelApc' = [kernelApc EXCEPT ![t] = FALSE]
    /\ \/ \E q \in Queue, e \in Entry : Insert(t, q, e, FALSE)
       \/ Block(t)
       \/ UNCHANGED <<queue, thread>>

-----------------------------------------------------------------------------
KeTerminateThread(t) ==
    LET T == thread[t]
        gone == [T EXCEPT !.in = "exited", !.queue = NoQueue, !.result = NoStatus]
    IN  /\ t \in Mortal /\ Runs(t) /\ ~kernelApc[t]
        /\ \/ /\ T.queue = NoQueue
              /\ thread' = [thread EXCEPT ![t] = gone]
              /\ UNCHANGED queue
           \/ /\ T.queue # NoQueue
              /\ LET Q == [queue[T.queue] EXCEPT !.threads = Unlink(@, t)]
                 IN  /\ queue' = [queue EXCEPT ![T.queue] = ActivateWaiter(Q)]
                     /\ thread' = [ThreadsAfterActivate(Q) EXCEPT ![t] = gone]
        /\ UNCHANGED kernelApc

(* No thread is in KeRemoveQueue for the queue: it would hold a reference. *)
Unreferenced(q) ==
    \A t \in Thread : thread[t].queue = q => thread[t].in = "outside"

(* KeRundownQueue hands its caller the entries that are left.              *)
KeRundownQueue(q) ==
    /\ queue[q].live /\ Unreferenced(q)
    /\ queue' = [queue EXCEPT ![q].live = FALSE, ![q].threads = <<>>, ![q].entries = <<>>]
    /\ thread' = [t \in Thread |-> IF Contains(queue[q].threads, t)
                                   THEN [thread[t] EXCEPT !.queue = NoQueue] ELSE thread[t]]
    /\ UNCHANGED kernelApc

(* A queue in the memory of one that was deleted. *)
KeInitializeQueue(q) ==
    /\ ~queue[q].live
    /\ queue' = [queue EXCEPT ![q] = NewQueue]
    /\ UNCHANGED <<thread, kernelApc>>

-----------------------------------------------------------------------------
Next ==
    \/ \E t \in Thread, q \in Queue, e \in Entry, atHead \in BOOLEAN :
          KeInsertQueue(t, q, e, atHead)
    \/ \E t \in Thread :
          \/ \E q \in Uses[t], timed \in BOOLEAN : KeRemoveQueue(t, q, timed)
          \/ SwapIn(t) \/ Return(t) \/ Relock(t)
          \/ TimerExpire(t) \/ InsertKernelApc(t) \/ DeliverApc(t)
          \/ KeWaitForSingleObject(t) \/ Unblock(t) \/ KeTerminateThread(t)
    \/ \E q \in Queue : KeRundownQueue(q) \/ KeInitializeQueue(q)

Spec == Init /\ [][Next]_vars

-----------------------------------------------------------------------------
Status == Entry \cup {NoStatus, Timeout, KernelApc}

KQUEUE == [live : BOOLEAN, signal : Nat, count : Nat,
           entries : Seq(Entry), waiters : Seq(Thread), threads : Seq(Thread)]

KTHREAD == [in : {"outside", "waiting", "woken", "swapped", "relock", "exited"},
            blocked : BOOLEAN, queue : Queue \cup {NoQueue},
            wrQueue : BOOLEAN, status : Status, result : Status,
            timed : BOOLEAN, timer : BOOLEAN]

TypeOK ==
    /\ queue \in [Queue -> KQUEUE]
    /\ thread \in [Thread -> KTHREAD]
    /\ kernelApc \in [Thread -> BOOLEAN]

Active(q) == {t \in Thread : thread[t].queue = q /\ thread[t].in # "waiting"
                             /\ ~thread[t].blocked}

(* The current count of a queue is the number of its threads that can run, *)
(* through timeouts, kernel APCs, waits elsewhere, changes of queue and    *)
(* terminations; its lists hold the threads that belong to it and the ones *)
(* that wait for it.                                                       *)
CountOK == TypeOK /\
    \A q \in {p \in Queue : queue[p].live} :
        /\ queue[q].count = Cardinality(Active(q))
        /\ queue[q].signal = Len(queue[q].entries)
        /\ IsInjective(queue[q].threads) /\ IsInjective(queue[q].waiters)
        /\ Range(queue[q].threads) = {t \in Thread : thread[t].queue = q}
        /\ Range(queue[q].waiters) = {t \in Thread : thread[t].queue = q
                                                     /\ thread[t].in = "waiting"}

(* Every entry is in one place: on a queue, or with one thread.            *)
Holders(e) ==
    {q \in Queue : Contains(queue[q].entries, e)}
    \cup {t \in Thread : e \in {thread[t].status, thread[t].result}}

(* No entry is lost or delivered twice: one that was inserted stays in the *)
(* queue or with the one thread it was handed to, whatever that thread's   *)
(* kernel APCs wait for meanwhile, until the thread is done with it or the *)
(* queue is run down.                                                      *)
NothingLost ==
    [][\A e \in Entry :
          /\ Cardinality(Holders(e)') <= 1
          /\ Holders(e) # {} /\ Holders(e)' = {} =>
                \/ \E t \in Thread : thread[t].in = "outside" /\ thread[t].result = e
                \/ \E q \in Holders(e) \cap Queue : ~queue'[q].live]_vars

(* Entries and threads do not wait for each other: a queue comes to have   *)
(* both while it may run one more thread only by a kernel APC that inserts *)
(* into the queue its own thread has just been waiting for.                *)
Stranded(q) == queue[q].entries # <<>> /\ queue[q].waiters # <<>> /\ queue[q].count < Maximum

EntriesNotStranded ==
    [][\A q \in Queue : ~Stranded(q) /\ Stranded(q)' =>
          \E t \in Thread : /\ thread[t].in = "swapped" /\ thread[t].wrQueue
                            /\ thread[t].queue = q /\ kernelApc[t] /\ ~kernelApc'[t]]_vars

(* No thread is handed an entry that makes more of the queue's threads     *)
(* able to run than its maximum.                                           *)
Has(t) == {thread[t].status, thread[t].result} \cap Entry # {}

ConcurrencyLimited ==
    [][\A t \in Thread, q \in Queue : ~Has(t) /\ Has(t)' /\ q = thread'[t].queue =>
          Cardinality(Active(q)') <= Maximum]_vars
=============================================================================
