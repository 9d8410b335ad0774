# TLA+ models of the Xbox kernel

This directory models the kernel under `src/private/ntos`: the dispatcher and
scheduler (`ke`), the locks of the executive and the run-time library (`ex`, `rtl`),
objects, handles and timers (`obx`, `ex`), the file system cache (`mmx`), and a
transfer of a file from the system call to the disk and back (`io`, `fatx`, `idex`).
Each module is one component, written from its code, or composes several; the
`.cfg` files are the instances TLC checks; `*Proofs.tla` hold theorems that
tlapm proves for every value of the constants. `PROJECT.json` maps each
definition to the lines it stands for, and lists the runs, hazards and theorems.

Paths below are relative to `src/private/ntos` unless they start with `src/`.

## The system

One Pentium III, one kernel, one title. There is exactly one processor, so the
kernel locks by raising IRQL: code at `DISPATCH_LEVEL` ("the dispatcher database
is locked", `MI_LOCK_MM`) is not preempted by threads or DPCs, and code with
interrupts disabled (`cli`) by nothing at all. Concurrency is therefore

* preemption of a thread between any two instructions at `PASSIVE_LEVEL` or
  `APC_LEVEL`,
* DPCs and the dispatch interrupt, between any two instructions below
  `DISPATCH_LEVEL`,
* device and clock interrupts, between any two instructions with interrupts on,
* APCs, which run in the thread they are queued to.

A model's step is what no other actor can cut in two: a section under the lock,
or, where interrupts matter, the part between two reads or writes of what the
interrupt changes. Each module's header says which.

### Inventory

"Hard" names what makes the component hard to test; "correct" what has to hold.

**Waits and dispatcher objects** — `ke/wait.c`, `waitsup.c`, `eventobj.c`,
`semphobj.c`, `mutntobj.c`. State: signal state and wait list of each object,
wait blocks, status and timer of each thread, owner and list of mutants.
Operations: wait for any or all, set, pulse, reset, release, alert, time out,
run down. Called by everything. Hard: `KiWaitTest` satisfies waits one after the
other while earlier ones change the objects later ones are tested against; a
signalling routine that keeps the lock for the wait that follows; rundown that
abandons mutants one at a time; APCs, alerts and timeouts that end a wait from
outside. Correct: no wakeup is lost, waits take all or nothing, each signal is
used once, order is kept, mutants have one owner.

**Timers** — `ke/timersup.c`, `timerobj.c`, the expiration in `dpcsup.c`,
`KeSetSystemTime` in `miscc.c`, `i386/clockint.asm`. State: the hashed table of
lists, each timer's due time, the expiration DPC. Hard: the clock interrupt reads
the table while routines at `DISPATCH_LEVEL` change it, the DPC runs late and
several lists behind, and setting the system time moves absolute timers. Correct:
no timer is passed over, none is early, the table stays sorted and hashed.

**Scheduler** — `ke/thredsup.c`, `yield.c`, `thredobj.c`, `waitsup.c`, quantum end
in `dpcsup.c`, `i386/ctxswap.asm`, `i386/newsysbg.asm`. State: ready queues and
their summary, current and next thread, priorities and quanta. Hard: priority
changes hit ready, standby and running threads at any moment; the dispatch
interrupt is requested at one place and taken at another. Correct: each thread is
in one place, the highest ready one runs, equals share the processor.

**Deferred procedure calls** — `ke/dpcobj.c`, `i386/ctxswap.asm`,
`i386/newsysbg.asm`, `halx/i386/ixswint.asm`. State: the DPC list, two flags of
the PRCB, the pending software interrupt. Hard: the flags remember a request that
may have been taken or never made. Correct: a queued DPC is attended to and runs.

**Kernel APCs and suspension** — `ke/apcsup.c`, `apcobj.c`, `thredobj.c`,
`ps/psdelete.c`, critical regions in `inc/ke.h`. Hard: the APC interrupt belongs
to the processor, the APC to a thread; critical regions are entered and left
without a lock; suspension is an APC that waits on a semaphore; exit closes the
queue. Correct: suspensions and resumptions balance, no deliverable APC is
stranded, normal APCs do not nest, a thread exits with an empty queue.

**Kernel queues** — `ke/queueobj.c`, under the I/O completion ports of
`io/complete.c`. State: entries, waiters, and a count of active threads that the
dispatcher keeps up to date when they wait elsewhere. Correct: the count is
exact, entries are neither lost nor doubled, concurrency stays limited, entries
and waiters do not wait for each other.

**Reader/writer lock** — `ex/rwlock.c`, `ex/i386/rwlocka.asm`, used by the file
systems. State: four counts, an event, a semaphore. Hard: the counts change with
interrupts off, the event or semaphore is touched after they are on again.
Correct: exclusion, no stranded waiter, everyone is served.

**File system cache** — `mmx/fscache.c`, used by `fatx`, `udfx`, `gdfx`. State: an
array of elements, an LRU list, usage counts, two events. Hard: the lock is
dropped for I/O and for waits, and the cache is resized meanwhile. Correct: usage
counts are exact, a page being read is nobody else's, waiters are told, a mapping
shows what the device holds.

**Critical sections** — `rtl/i386/critsect.asm`, entered by the kernel's file systems
and by titles. State: LockCount, recursion, owner, the section's event. Operations:
enter, try, leave, each a dozen instructions with no lock held. Hard: between being
handed the section and writing itself as the owner a thread is preempted; waits
are interrupted. Correct: one thread owns the section, as often as it counts;
everybody gets in.

**Objects and handles** — `obx/`. State: pointer and handle counts, flags and directory
of each object, the handle table. Operations: create, insert under a name, open by
name or pointer, duplicate, close, make temporary, dereference. Hard: each routine
drops the object manager lock several times and drops its references later. Correct:
the counts are the references that exist, a name that is not permanent goes with the last handle.

**Executive timers** — `ex/timer.c`, over objects, kernel timers, DPCs and user
APCs. State: the association of a timer with a thread, each thread's active list.
Operations: set, cancel, expire, deliver, delete, run down. Hard: an APC may have
left its queue when the timer is set anew; rundown drops the list's lock to take the timer's
first. Correct: each association has one reference and one place in a list; no stale
routine runs; nothing is left of a thread that has ended.

**I/O manager** — `io/`. State: IRPs, each thread's list of them. Operations: queue
to a thread, complete, the APC that completes there, cancel a thread's I/O, give up
on a request. Hard: completion in a DPC against the thread that gives up. Correct: each IRP ends once, in its
thread or nowhere.

**FATX** — `fatx/`. State: the volume mutex and the file mutex, the
volume's flag and counts for a dismount, transfers in parts. Hard: the thread acquires
the file mutex and a DPC releases it; a dismount waits for transfers that other
threads are just starting. Correct: the mutex is released once for each transfer, the device
is not let go before the last has ended, every transfer ends.

**IDE channel and device queues** — `idex/channel.c`, `idex/disk.c`,
`ke/devquobj.c`. State: the queue and its busy flag, the current request, the
interrupt and polling routines, the time-out, the retries. Hard: time-out against interrupt;
start routines that complete at once; interrupts of commands that were given up.
Correct: each command is finished once, a success is that of the
command asked for, no request stays for ever.

Not modelled (details per component in `PROJECT.json`):

| component | state and operations | what is hard, what is correct |
|---|---|---|
| threads' life, `ps/` | creation, notification, reaper | exit before the creator returns; stack freed after the last switch |
| pool, `ex/pool.c`, `rtl/lookasid.c` | boundary tags, free lists | coalescing; depth against a reference |
| memory manager, `mmx/` | PTE lists, address tree, commitment | algorithms on trees and bitmaps; no overlap, counts exact |
| FATX chains and directories | cluster chains and their cache, FCBs | order of disk writes |
| other file systems | read-only volumes, the raw partition | the same transfers as FATX, without writes |
| network, `net/` | TCP sockets, retransmission | order, delay, retransmission; delivery in order |
| executive events, semaphores, mutants | handle look-up around a call of `KeWait`'s objects | references, as in `ObHandle` |
| settings, `ex/settings.c` | the EEPROM under a critical section | one writer |
| start-up, exceptions, HAL registers, loader, debugger, USB, libraries, UI | | one thread, hardware detail, or not the kernel; left out |

### How the parts meet

Threads block through `KeWait`; `KiUnwaitThread` readies them into `KeSched`, which
switches through `KiSwapThread`. The clock drives `KeTimer`, whose expiration is a
DPC of `KeDpc` and ends waits. APCs end waits (`KeWait`) and run at the switch
(`KeSuspend`). Queues count their threads inside wait, unwait, and terminate.
`ExRwLock`, `RtlCritSect` and `FsCache` use events and semaphores. In the models a neighbour
appears as the choices it leaves open: `KeWait` lets any runnable thread run and a
timer expire at any time after its insertion, which covers what `KeSched` and
`KeTimer` allow; `KeSched` readies threads at any moment, which covers `KeWait`.

Three modules compose components whose steps interleave in one state space.
`FatxLocks` nests `RtlCritSect` in `ExRwLock` as FATX does. `ExTimer` extends `ObHandle`: the timers are its objects.
`DiskIo` extends `IdexChannel` with the threads, FATX and the I/O manager around it; the file mutex in it
promises what `RwLockSpec` does, and that a waiter is served is what
`EveryWaiterServed` of `fatxlocks` shows of the lock the code uses.

## Modules

| module | models | composed with |
|---|---|---|
| `WaitLists` | unlinking from a list of wait blocks, requests or APCs, for the modules below | |
| `WaitListProofs` | the facts about such lists | extends `WaitLists` |
| `RwLockSpec` | what a reader/writer lock promises: phases of threads, nothing else | |
| `ExRwLock` | the lock's three routines, split at each `sti`, with the wait lists of its event and semaphore | implements `RwLockSpec` |
| `RtlCritSect` | entering, trying and leaving a critical section, one instruction a step | |
| `FatxLocks` | the volume mutex around the section of the cluster cache | `ExRwLock`, `RtlCritSect` |
| `FatxLocksProofs` | theorems about the section, and about the lock, alone and around it | extends `FatxLocks`, `WaitListProofs`, `FiniteSetTheorems` |
| `KeWait` | waiting, signalling, mutants, rundown, alerts, user APCs, kernel APCs as far as they end waits | |
| `KeWaitProofs` | theorems about `KeWait` | extends `KeWait`, `WaitListProofs` |
| `KeTimer` | the timer table, the clock interrupt, expiration, setting the system time | `WaitLists` |
| `KeTimerProofs` | theorems about `KeTimer`, and about `KeDpc` | extends both, and `WaitListProofs` |
| `KeQueue` | kernel queues and what the dispatcher does to their count | `WaitLists` |
| `KeQueueProofs` | their theorems | extends `KeQueue`, `WaitListProofs`, `FiniteSetTheorems` |
| `KeSuspend` | one thread's kernel APCs, critical regions, suspension, exit | `WaitLists` |
| `KeSched` | ready queues, preemption, quantum, boosts, yields, priorities, idle loop | `WaitLists` |
| `KeThreadProofs` | theorems about `KeSuspend` and about `KeSched` | extends both, `WaitListProofs`, `FiniteSetTheorems`, `WellFoundedInduction` |
| `KeDpc` | the DPC list, its interrupt, the idle loop | |
| `FsCache` | look-up, allocation, collided reads, write-through, invalidation, resizing | `WaitLists` |
| `ObHandle` | objects, handles and a name | |
| `ExTimer` | timers with APCs, their lists, threads that end | extends `ObHandle`, `WaitLists` |
| `ExTimerProofs` | theorems about timers and objects | extends `ExTimer`, `WaitListProofs`, `FiniteSetTheorems` |
| `IdexChannel` | the channel, its device queue, the disk | |
| `DiskIo` | asynchronous transfers, dismount, threads that end | extends `IdexChannel`, `WaitLists` |
| `DiskIoProofs` | theorems about `DiskIo` and `IdexChannel`, and about `FsCache` | extends both, `WaitListProofs`, `FiniteSetTheorems` |
| `MC*` | constants, requests and symmetry sets of the runs | extend their module |

### State and actions against the code

`ExRwLock`: the four counts and `pc`, with `grant` for the count a releasing writer
holds in EAX. Entering and leaving decide between `cli` and `sti`: one step. The
call after it (`KeWaitForSingleObject`, `KeSetEvent`, `KeReleaseSemaphore`) is the
step from `waitWriter`, `waitReader`, `setEvent` or `releaseSem`. A waiting thread
may be taken to the tail of the wait list by a kernel APC.

`KeWait`: one record of variables per structure field, named in the declaration. A
routine that locks the dispatcher database is one action, except for the loop of
`KiWaitTest`, one wait block per `ScanStep`, with `lockOwner`, `scanObj`,
`scanRest` and `after` for who scans what and where it returns to. `WaitPass` is
one turn of the loops of `KeWaitForSingleObject` and
`KeWaitForMultipleObjects`, with their early ways out as its disjuncts in the
order of the code. A wait that a kernel APC ends goes through `Rewait`. Requests are
records (objects, any or all, mode, alertable, timeout, below APC_LEVEL or not).
Since scans hold the lock, splitting them shows intermediate states only the
scanning routine itself sees; the invariants say what holds at each of them.

`KeTimer`: a step is one read of the clock or one change to the table. `Tick` is the
interrupt: it advances `tick`, looks at the first timer of the current list and
queues the DPC. Insertion is `index`, `link`, `verify`; `KeSetSystemTime` collects the
absolute timers one a step; expiration walks the hands
from the one it was queued with to the one it reads, collects, and signals, at most
`DpcListSize` DPCs at a time. `asked` is a history variable: the system time the
caller named.

`KeQueue`: `thread[t].in` follows a thread through `KeRemoveQueue`: waiting, made
ready, switched in with its status saved, about to lock again. `ActivateWaiter` is
`KiActivateWaiterQueue`, called when a queue's thread waits elsewhere, changes
queues or terminates. A kernel APC inserts, waits or does nothing.

`KeSuspend`: `frames` is the thread's stack of activities; `interrupt` the requested
APC interrupt, lost at a switch; `leaving` the frames, by their depth, that are in the gap of `KeLeaveCriticalRegion` between
the count and the look at the list (the code and a routine that interrupts it there can both be); `phase` the calls of `PsTerminateSystemThread`.

`KeSched`: `db` is a record so that the routines compose as functions on it
(`KiReadyThread`, `KiSetPriorityThread`, `KiFindReadyThread` ...). `level` is what executes;
`requested` the pending dispatch interrupt. `yielded` is history: a yielding thread may
stay ready above the thread it yielded to.

`KeDpc`: `level` says what executes, `active` and `dpcRequested` are the PRCB's flags,
`irr` the pending interrupt. `emptied` is history: a removal has emptied the list
since it was last retired.

`FsCache`: a page's element, its PTE's write bit and whether its contents are the
device's (`fresh`). `pc` is where a thread stands in its call; a step ends where the
code drops the lock. The file systems' file lock is one lock per block, shared for
reads. `missed` is history: which waiters a kernel APC took out of their wait or the
cache grew behind the back of. `disturbed` is history too: a request has failed or the cache has
been resized. Where a loop of the code splits, filters or rebuilds a list, the model says which pages the new
list holds and which of two is ahead (`Arranged`), which leaves one list; that there is one is what TLC shows,
as a step that had none would be disabled, and deadlock and the actions' firing are checked.

`RtlCritSect`: `at` is the next instruction of a thread among those that touch the
section, `depth` how often it has entered and not left. A signal of the event is handed to
the first waiter (`SetEvent`), which then stands at `own`; `BreakWait` is a kernel APC that makes a
blocked thread wait anew, at the end of the list.

`FatxLocks`: a thread asks for the volume and gives it up outside the section
(`Volume`), and enters the section as an owner (`ClusterCache`). `LocksApc` interrupts either wait.

`ObHandle`: a call is `todo`, the sequence of steps a thread has still to make, cut
where the object manager lock is dropped; steps named in `Owning` own a reference.
`NtClose` decides with the lock held and drops the references of handle and
directory one after the other. `crashed`: a null directory was followed, nothing goes on.

`ExTimer`: `associated`, `apcThread` and `active` are the fields and lists of the code;
`inserted` is an APC in its thread's queue; `armed` is the kernel timer. `Expires` is the expiration and
the timer's DPC in one. `late` is history: threads whose APC is
between its queue and its kernel routine while the timer was set or cancelled.

`IdexChannel`: `doing` is where the routine at `DISPATCH_LEVEL` has got to; the
interrupt may come after each of its steps. `line` is the interrupt request and
what the device says with it; an interrupt still on its way when the next command
starts is `stale`, and the bus master's status register tells the two apart. `left` counts what is left of
a request that is longer than one command.

`DiskIo`: an IRP is `free`, `issued`, `locked` (its thread has the file
mutex), at the `disk`, or its completion is an `apc`. `thread` has the place in
`FatxFsdReadWrite`, `FatxDismountVolume` or `PspExitThread`. `mutex` has the owners of the file mutex;
`volume` the flag, the count, the event and the target device of the dismount. Threads step only while
nothing runs at `DISPATCH_LEVEL`.

Every module also holds definitions introduced by a comment "Mutation: ...". They are
not part of the model: each is a version of a definition with a plausible bug,
and the property named with it in `PROJECT.json` must fail when it replaces the
original. They show that the properties can fail.

## Runs

All run with two workers in minutes or less. One run serves one part of the system. Three actors are the smallest number
with two of them competing while a third acts; the sets of values hold one of each
kind that the code distinguishes.

| run | instance | shows |
|---|---|---|
| `fatxlocks` | 3 threads, recursion 2, 2 interrupted waits | `NoStrandedWaiter` (counts match the threads behind them, waiters have somebody to wait for); `ImplementsRwLock`: every behaviour is one of `RwLockSpec`; `SectionOwned`; `EveryWaiterServed`, `EveryEntererServed` |
| `kewait` | 3 threads, both events, a semaphore of limit 2, 2 mutants, 8 kinds of wait | `NoLostWakeup`, `WaitLinkage`, `MutantOwnership`, `AllOrNothing`, `ServedInOrder`, `AbandonmentTold` |
| `kewait_alerts` | 2 threads, 1 event, alerts and APCs of both modes | `AlertsSeen`, and that a timed wait ends (`TimedWaitEnds`) |
| `ketimer` | 2 timers, table of 2 lists, increment 2, 3 ticks | `TableOK`, `NoTimerMissed` (with the checked build's assertion), `NeverEarly` |
| `kequeue` | 3 threads, 2 queues, 1 entry, maximum 1 | `CountOK`, `NothingLost` (nor doubled), `EntriesNotStranded`, `ConcurrencyLimited` |
| `kesuspend` | 2 special, 2 normal APCs, 2 suspensions, 2 regions | `SuspendedStops` (and suspensions balance), `ApcsDelivered` (normal ones in order), `NoApcAtExit` |
| `kesched` | 3 threads, priorities 0..4, realtime from 3 | `HighestRuns` (each thread in its place) |
| `kedpc` | 2 DPCs and the timer's | `ListAttended`, `EachServed` |
| `fscache` | 4 threads, 3 pages, 3 blocks, sizes 0, 1, 3, I/O errors, kernel APCs | `ElementsAccounted` (buffers protected), `NoLostWakeup`, `Coherent` |
| `objects` | 2 threads, 2 timers, 2 handles, one name | `ReferencesExact`, `NamesEndWithHandles`, `ListsFollowTimers`, `NoStaleApc` |
| `ob_detach` | 2 threads, 2 objects, 2 handles | `DetachedOnce` fails, see below |
| `io` | a thread that reads, writes and ends, one that dismounts, 2 IRPs | `FinishedOnce`, `SuccessIsTrue`, `MutexFollowsTransfers`, `DismountWaits`, `IrpsForgetEnded`, `EveryIrpEnds`, `DismountReturns` |

Bounds and why they are enough:

* `fatxlocks`: `MaxApc` bounds interrupted waits; each has the same effect, and two
  allow one of each lock, or one thread twice. Three threads give two readers and a writer, or
  two writers and a reader, and two waiters for a section that a third holds or hands over.
  `MaxDepth = 2` has a recursion.
* `kewait`: two mutants make WaitAll compete with rundown; `MinSignal = -1` stands
  for MINLONG, so a mutant recurses twice and then hits the limit. User APCs and
  alerts are off (they have `kewait_alerts`); one wait, for a semaphore and a mutant
  together, is below APC_LEVEL, where a kernel APC may start it over to be satisfied then. `Limit = 2` lets one release serve two waiters. An object occurs
  once in a wait.
* `kewait_alerts`: one queued user APC; two threads, of which one alerts.
* `ketimer`: two lists and three ticks turn the table more than once; delays of 1 and 5
  are within and beyond a turn; setting the time to 4 moves the clock forward early
  on and back later, across the absolute due time 5. `DpcListSize = 1` fills the DPC list with one timer.
* `kequeue`: `Maximum = 1` is the tightest limit; one entry suffices since entries
  meet only in order; one thread alone moves between queues and terminates, and
  `ApcTarget` limits kernel APCs to it and one other, which leaves one waiter that is
  never interrupted.
* `kesched`: three threads are running, standby and ready; five priorities hold two of
  each class and idle's; quantum 2 lets a clock tick pass without a quantum end. `SetPriorities` and `BaseIncrements` are chosen so that
  their sum stays non-negative, see below.
* `kesuspend`: suspension limit 2 is reached; two nested regions.
* `kedpc`: symmetric DPCs; the proofs lift the bound.
* `fscache`: a page per pair of threads at first, one more when grown, one or none when shrunk.
  What each thread asks for is fixed (`TwoPairs`): two keep pages busy, two share a
  third block, so that collided reads, evictions and the path to a second copy
  of a block all happen.
* `objects`: two handles are full with one object opened twice; names are temporary
  with OBJ_OPENIF, or permanent. Threads, timers and handles are symmetric.
* `io`: two requests are one at the disk and one behind it, in the device queue or at the mutex. `MaxTransfers = 2`:
  two parts, or one part in two commands. `CommandTimeout` and `ResetTimeout` of 2
  ticks distinguish a tick from the last one; one retry is granted and refused.
* `ob_detach`: the smallest numbers that let two threads meet.

`CHECK_DEADLOCK FALSE` is set where threads terminate (`kewait`, `kesuspend`, `objects`, `io`):
the last one leaves nobody to act.

### Fairness

* `FatxLocks`: weak fairness of a thread inside a routine, or leaving the section: a runnable
  thread runs. Strong fairness of the last leave and of giving up the volume: an owner may enter and
  leave the section as often as it likes, but not for ever. Asking has no fairness, nor have APCs.
* `KeWait`: the routine that holds the lock runs to its end (weak); a thread whose
  wait has ended is scheduled, and an inserted timer expires (strong: kernel APCs
  may disable the step again and again, but the clock does not wait for the thread
  and the due time is not moved, `KiComputeWaitInterval`). No one is obliged to
  signal.
* `KeDpc`: interrupts are taken, routines return. No fairness of the clock or of a
  device.
* `DiskIo`: code at `DISPATCH_LEVEL` runs to its end, interrupts are taken, the timer ticks, APCs
  are delivered, threads run on in their calls (weak); a thread gets a file mutex that is free again and again
  (strong, by `EveryWaiterServed`). The device owes nothing: it may never answer. No one is obliged to
  ask, to dismount or to end.

The other specifications have no fairness and no liveness property.

## What the models show

The properties hold, with one run that shows a disagreement between code and comment, and several
places where a property had to be stated with an exception because of the code.

**An object detached twice** (`ob_detach`). `OB_FLAG_ATTACHED_OBJECT` is set when an object
goes into a directory (`obx/obcreate.c:403`) and never cleared. `NtMakeTemporaryObject`
has referenced a named object that is not permanent (any more) when another thread closes
its last handle: `NtClose` takes it out of the directory, and
`ObMakeTemporaryObject` (`obx/obhandle.c:356`) finds no handle, the flag set, and takes it out again, by
the directory's hash buckets, which is by then a null pointer. The comment in `ObpDetachNamedObject`
(`:107`) says that the fields are nulled "so that we don't attempt to do this again". The invariants of `objects` hold up to
that crash.

Exceptions and boundaries found while modelling, which no run states as a failure:

* *A DPC queued without an interrupt* (`ke/dpcobj.c:159`): `KeRemoveQueueDpc` may empty
  the DPC list while the dispatch interrupt is requested. `KiDispatchInterrupt` then
  finds nothing and skips `KiRetireDpcList` (`ke/i386/ctxswap.asm:397`), which alone
  clears `DpcInterruptRequested`. The next `KeInsertQueueDpc` sees the flag and does
  not request an interrupt, against its description (`:99`). The DPC waits
  for the next quantum end, timer expiration or idle loop. `ListAttended` and
  `EachServed` hold with this exception (`emptied`).
* *APC of a freed timer* (`ex/timer.c:124`): an APC that has left its queue holds
  no reference. If the timer is cancelled and closed before the APC's routine runs, the routine takes the lock
  of freed memory (`ApcFindsFreed`).
* *Descriptor not freed* (`fatx/readwrit.c:731`): when the first cluster cannot be looked up,
  the descriptor of the asynchronous transfer is not given back. Memory is not in the model.
* *Recursive leave with a region* (`rtl/i386/critsect.asm:241`):
  `RtlLeaveCriticalSectionAndRegion` leaves the critical region only with the last
  leave, while each enter enters one; its header (`:186`) does not say so. And
  `ex/settings.c:526` (DEVKIT) calls the entering routine where it means the leaving one.
  KernelApcDisable of these routines is not in the model.
* *Queue entry behind a returning thread* (`ke/queueobj.c:722`): a kernel APC that
  inserts into the queue its own thread has just been taken out of leaves the entry
  while others wait; `EntriesNotStranded` names this as the only way.
* *Missed pulse* (`mmx/fscache.c:1025`): `KePulseEvent` does not reach a collided
  reader that a kernel APC has taken out of its wait; it waits for a later pulse,
  which may not come. The same APC lets the wait of a shrinking cache (`:374`) miss a
  set. Growing (`:254`) tells no waiter of the new pages. These are `missed`.
* *Second copy of a block* (`mmx/fscache.c:905`): the look-up is not repeated after
  `FscAllocateElement` has waited, so a block can be cached twice. `Coherent` holds
  as long as the copy used last hides the other; a discard of it after an I/O error
  (`:1419`) uncovers the older one, and rebuilding the list (`:76`) reorders the copies, so
  `Coherent` speaks of the cache until it is `disturbed`.
* *Negative priority* (`ke/thredobj.c:1003`): `KeSetBasePriorityThread` checks the new
  priority against the upper end of the variable class only. A thread whose
  priority was set below its base and whose base is then lowered gets a priority
  below 0, outside the ready queues. The model computes it the same way;
  `SetPrioritiesAssumption` says that no priority set is that low. Those that the
  repository sets, LOW_REALTIME (`ps/psdelete.c:170`) and the base (`ke/waitsup.c:211`), are not.
* *Standing by without a request* (`ke/thredsup.c:253`): `KiReadyThread` calls
  `KiRequestDispatchInterrupt`, which is defined empty (`ke/ki.h:421`). Most callers
  switch themselves; but when a thread that is being switched away from is readied
  and outranks its successor (its priority was raised meanwhile), it stands by while
  the successor runs, until the next dispatcher call or quantum end. `HighestRuns`
  therefore speaks of the thread the processor has *or is about to have*.
* *Preempted threads* (`ke/thredsup.c:262`): the comment says that a preempted thread goes
  to the front of its queue if it "runs at a realtime priority level"; the code puts
  every preempted thread there. The flag also survives a wait: a thread told to give
  way that then waits is at the front when it wakes. No property orders equals.

## Proofs

`KeWaitProofs`, `KeTimerProofs`, `KeQueueProofs`, `KeThreadProofs`, `FatxLocksProofs`,
`ExTimerProofs` and `DiskIoProofs` prove, for every choice of the constants that meets the modules' assumptions, what the runs check on small ones. All follow one
scheme: an inductive invariant `IInv`, with `Init => IInv`,
`IInv /\ [Next]_vars => IInv'` and `IInv => Inv` as steps, joined by PTL. An action property follows
from `IInv /\ [Next]_vars => A`, with what each kind of step can do stated as a formula of its own.

**KeWait.** `NoLostWakeup` is not inductive: whether a sleeping thread can be
satisfied depends on other objects than the one being scanned. `IInv` adds

* `WakeupOK`: for a wait for any object, an available object is the scanned one and
  the scan has still to reach the thread; for a wait for all, the scan has still to reach
  it whenever all are available. Since signals change one object at a time, and only
  from non-signaled is a scan needed, each signalling step keeps it;
* `ScanOK`: what is left to scan is part of the scanned object's wait list, without
  repetition, and no waiter owns the scanned mutant, so that `Available` means the same
  for all of them;
* `LockOK`: when a scan can be under way, and what its caller is;
* `RequestOK`, `RecursionOK`, `SignalOK`: a waiting thread has a request, a wait for
  all takes no mutant past MINLONG, and events are 0 or 1;
* `MutantOwnership`, `WaitLinkage` and `TypeOK`, which are results as well.

There is a lemma for each kind of step: `UnwaitStep`, `BlockStep`, `TakeNowStep`,
`StartScan`, `SetSignalStep`, `ScanStepKeeps`, ...; the facts about wait lists they rest on, what unlinking, appending and taking the
first leave, are the lemmas of `WaitListProofs`. Theorems:
`TypeCorrect`, `WakeupsNotLost`, `MutantsOwnedByOne`, `WaitsLinked`.

The other properties need three more invariants, proved on top of `IInv`:

* `ApcOK`, for `AlertsSeen`: a user APC is pending only while one is queued, until the thread closes its queues.
  Without it a user-mode wait could begin with the flag set. Theorem `AlertsNotSlept`.
* `TakenOK`, for the two action properties on what a wait takes: objects are in a thread's name only while
  it returns from the wait they satisfied, so that no wait is served twice. Every step
  is then one of `Serving`: one thread `Takes` a set it may take (at once or as the scan reaches it), or KeSetEvent hands
  it the event without touching the count, or nobody is served. Theorems `WaitsTakeAll`
  (`AllOrNothing`) and `AbandonmentIsTold` (`AbandonmentTold`).
* `OrderOK` and `ScanOrder`, for `ServedInOrder`: all wait lists name the threads in one order, and the scan
  goes through its list in that order. That the scan has passed only over threads that could not be satisfied is
  then `NoLostWakeup`: a thread ahead that could be would still have to be reached. Theorem `WaitsServedInOrder`.

**KeQueue.** The invariant `Good` is what `CountOK` lacks to be inductive:

* `Placed`: where a thread is decides what its KTHREAD may say; a thread that waits has no status and no
  result, one back from KiSwapThread has no status but the one it saved, a timer runs only in a wait, and the wait
  reason is WrQueue only between the wait and the return from it;
* `Listed`: a live queue's count is the number of its threads that can run, its lists are those of `CountOK`, and a thread
  belongs to a live queue only; a queue that is not live has no entries;
* `OnePlace`: an entry is on one queue, once, or with one thread.

One call of KeRemoveQueue makes several moves with nothing between them: leave one queue, hand its next entry to its last waiter,
join another, look for an entry, wait. So `Good` is stated of any pair of values of `queue` and `thread`,
a lemma shows each kind of move to lead from one `Good` pair to another (`AsideStep`, `EntryStep`,
`WakeStep`, `StopStep`, `YieldStep`, `JoinStep`, `PassStep`; most are `MoveStep`, of one thread and its queue), and each routine is the
moves it is made of. `Kept`, on the same pairs, says which entries a move may make disappear, and is transitive over
moves that leave alone what threads are done with (`Quiet`); `NothingLost` is it and `OnePlace`. The two properties on steps
only compare a queue with what it was: `StrandsNone` and `Limits`, again a lemma for each routine. That the kernel
APC of a thread just made ready is the one exception in `EntriesNotStranded` follows from `Placed`: only there the wait reason
outlives the wait. Theorems: `QueuesCountRight`, `QueuesLoseNothing`, `QueuesStrandNothing`, `QueuesLimitConcurrency`.

**KeSuspend.** That no APC is stranded depends on what else the thread does, and the semaphore's count on the APC. `IInv` has

* `NestingOK`: the frames are the code, KiDeliverApc, one normal routine, KiDeliverApc in that, and the routine's frame is
  KernelApcInProgress; only the code and a normal routine leave a region;
* `ListOK`: special APCs stand before normal ones and none stands twice, so that what is first after an insertion or a removal
  could be delivered only if what was first could (`Inserted`, `Removed`, `FirstRemoved`);
* `InterruptOK`: an interrupt is requested only for the running thread, and with an APC queued KernelApcPending is set as
  well, which is what a preemption, that loses the interrupt, relies on;
* `NotStranded`, of `ApcsDelivered`, and `SemaphoreOK`, of `SuspendedStops`: the count, and that who waits for the semaphore finds
  it at zero;
* `PhaseOK`: who can still queue an APC, that the exit has normal ones disabled until it is resumed, and that a flushed
  thread has none.

Theorems: `SuspensionStops`, `ApcsAreDelivered`, `ExitFindsNoApc`.

**KeSched.** Every routine takes a database to a database, often through several that are in no state of the system: a
thread on no queue, a next thread that is not yet in the state for it, a processor with no running thread. So the
proof is about databases, and the invariant `SchedInv` only says what `db` is between steps, which is `Held`:

* `Placed(d, X)`: the queues, the ready summary, the standby thread and the idle summary agree with the threads' states, but
  for the threads in `X`, which are being moved. `KiReadyThread` takes a thread out of `X` (`ReadyThread`), `TakeOff` puts one into it;
* `NoneAbove(d, Y)`: no queue above the priority of the next thread, or else the running one, has a thread outside `Y`. A search from `low` up
  keeps it when `low` is at most that priority, since either it finds the highest thread or there is none from `low` up
  (`FindReadyThread`, `SearchedSteady`). What lowers the priority of the running or the next thread, be it a call
  (`SetPriority`), the end of a quantum (`QuantumEndHeld`) or a delay (`DelayLeaves`), always searches;
* `Runs` between operations, `Halted` from the moment the running thread waits or is queued until the switch (`SwapThread`);
* `Margin`: a priority moves with its base and stays one. It is what `SetPrioritiesAssumption` is for, and holds after the
  decay of a quantum because that stops at the base.

`Redispatch`, which readies the thread switched from when its successor is already current, keeps all of it (`RedispatchSteady`). `NtYieldExecution`
queues the running thread without comparing it to its successor; it joins `Y`, and `Forget` lets `Y` shrink to those still
ready. Theorem: `HighestThreadRuns`.

**KeTimer.** The table, a call and the clock interrupt meet in one invariant, `TimerInv`, of three parts.

* `Struct`, for `TableOK`: where the insertion of a timer and the expiration can be together (`Phases`): the insertion runs
  inside a call, `KiTimerListExpire` or `KeSetSystemTime`, never while the table is scanned; the timer it is about is
  marked until it fails; a list is empty when nobody can have put timers on it. That a timer linked behind the last one due no later, or
  a list cut in front of the first one not due, leaves the list ordered is `InsertOK`, `CutOK`, `UnlinkOK`.
* `Dues`, for `NeverEarly`: timers on the expired list were due, and a timer set to a system time is due no earlier than that
  time, less what `KeSetSystemTime` has still to move it (`Moving`). The clock may have been read any
  time before, so this is kept by each step of an insertion (`IndexReach`, `FailedDue`), and a failed insertion is signaled with it.
* `Misses`, for `NoTimerMissed`: what was due before `Floor`, the tick the expiration is queued for or else the last one, is
  not in the table, but for a timer still to be verified. The clock interrupt moves `Floor` by one tick, for which
  the timers due within that tick are all in the hand's list (`TickOf`, `TickBetween`), with the earliest first, so that the one it looks at tells of
  all. From the dequeuing of the DPC to the end of the scan it does not hold: `StillDue` says that a timer is due by the time that was read, or not before
  `Floor`, and `ToScan` that the former are in lists the scan has still to reach, for which the hand it ends at must be the one
  of the time it read or a later one, less than a turn ahead (`OneTurn`, `WholeTurn`). `Floor` is again the floor at the end, which is what
  `KiCheckTimerTable` checks.

The sizes of the table and of the increment are any positive numbers, and so the modulus is one of no fixed number: `Divides`, `QuotientUnique` and
`TurnsReduced` are all the proofs use of it. Theorems: `TableIsOrdered`, `NoTimerIsMissed`, `NoTimerIsEarly`.

**KeDpc.** `ListAttended` needs to know why a request may be noted while no interrupt is
pending: `RequestAccounted`, that it is noted with an empty list only while a routine
is active or after a removal. `DpcInv == DpcTypeOK /\ ListMatchesMarks /\
ListAttended /\ RequestAccounted`. Theorems: `TypeCorrect`, `MarksCorrect`, `AlwaysAttended`.

**RtlCritSect.** `SectionOwned` speaks of owners, but who is the next owner is decided before
the field says so. The invariant counts a *token*: a thread has it that owns the section, was
handed it and has still to write itself down, or gives it up until it has found nobody
waiting or has set the event; otherwise the set event has it, or nobody. `OneToken`: there is one at most.
`Ownership`: what the owner's fields say at each instruction of the thread that has it. `Locked`:
LockCount is at least what the holder of the token must still take off it, so that it is free
(-1) only when there is no token. `ListOK`: the waiters are the threads at
`blocked`, each once. Theorem: `SectionExcludes`, for any number of threads and any depth.

**FatxLocks.** The lock is correct because its counts are those of the threads behind them, at
every moment between the `cli` that takes a count and the signal that passes it on. `LockInv` adds to the types

* `CountsAgree`: each count is the number of threads at the places it stands for, less the ones an event,
  a semaphore or a releasing thread already has a signal for (`NumberOf` counts the threads at a set of places, and `Coming` what
  the releasing thread has still to give the semaphore);
* `OneKind`: the right to write is one, with its owner, the thread about to set the event, or the event; readers and that right exclude
  each other; nobody waits for a lock neither has; readers wait for readers only behind a writer;
* `OneRelease`: the readers of one release are in before the next, so that `Coming` is one
  thread's grant;
* `ListsOK`: the wait lists of the event and the semaphore hold the blocked threads, each once, and a signal that
  stays has found nobody there.

From it follow `NobodyIsStranded` (`NoStrandedWaiter`) and the refinement `LockKeepsPromise` (`ImplementsRwLock`), step by step under
the mapping `Phase`: acquiring is `EnterWrite`, `JoinRead` or `Ask`; releasing is `Leave`; a waiter that finds the event or the
semaphore signaled is `EnterWrite` or `EnterRead` of itself; setting the event or releasing the semaphore is `EnterWrite` or `EnterRead` of the
threads at the head of the list, or a stutter when there are none; an interrupted wait is a stutter. The steps of the section are the
lock's stutters and the other way round, which gives `SectionOwned` of the nested section (`CacheMutexExcludes`).

**ExTimer**, with the objects below it. A reference is owned by a handle, the name, an association or an item of some
call's `todo`; that the count is their number holds only if no step acts on an object its call has no reference
to, and that is a fact about the whole of `todo`, not about its head. `TimerInv` has, beside the types,

* `Calls`: in every sequence of steps an item that trusts in a reference of its call (`insert`, `open`, `temporary`) comes right
  before the `deref` that gives it back; an APC is only at the front and the rundown only at the end. So whatever is at
  the front finds its object there (`AtFacts`), and a step that puts items before the rest keeps the order (`FitsBefore`);
* `Counted`: the count is `Refs(o)`, with finitely many handles and owners. `Share(s, o)` is how many references of `o` the items of `s`
  own, a sum over concatenation (`ShareConcat`); what a step does to the owners is `Share` of the items it adds less what its own
  item owned (`Moved`), and each step pays for that with the count, a handle, the name or an association;
* `Named`: the object with the name is marked attached, and has a handle or is permanent: `ObMakeTemporaryObject` and
  `NtClose` both look at the mark;
* `Listed`: an active list names, once each, the timers associated with APCs for its thread; `Ended`: a thread that has ended has no
  call and no timer in its list;
* `Queued`: a queued APC has its association, and if the timer has no period it is not armed any more;
* `Coming`: an APC that has left its queue and would still run its caller's routine has not been overtaken by
  a call on its timer, and unless the timer has a period nothing else of it is armed or queued, so that ending the association in the
  routine takes back all there is.

There is a lemma for each action; those of `ObHandle` are shown to keep the counts beside any step of the timers that
leaves associations alone (`Keeps`), and `AssociationStep` is the other kind. Theorems: `ReferencesAreExact`, `NamesEnd`, `ListsAreTrue`,
`ApcsAreNotStale`.

**DiskIo**, with the channel below it. None of its safety properties is inductive: each
depends on who may still do something to a request. `IInv` adds, to the types,

* `ChannelOK`: of the interrupt awaited, the DPC queued and the polling after a reset there is
  one at most, only with a current request and never while a routine works on it;
  `AnswerOK`: an answer that is not stale finds the device idle;
* `QueueOK`: the queued requests and the current one are distinct and at the disk, which is
  why a completed request cannot come up again and why putting one back is safe;
* `CallsOK`: a thread in the middle of its call has a request of its own, in the state that
  place implies; with it, `MutexOK` says that releasing the mutex takes away an owner it had;
* `OwnersOK`, `FreeOK`: a request names a thread exactly when it is in that thread's list;
* `DismountOK`: DismountBlockCount is the number of transfers `Counted` (between count and
  uncount, or at the disk) less one for a dismount that waits; an event that is set, a
  dismount that is past its wait and a device let go all imply `Drained`, that the volume is
  marked and nothing is at the disk.

One lemma shows each action to keep it; `CountFalls` carries the step that wakes a dismount.
Theorems: `CommandsFinishOnce`, `AnswersAreNotStale`, `MutexReleasedOnce`,
`DeviceOutlivesTransfers`, `EndedThreadsForgotten`.

**FsCache.** `FscInv` is what the three properties need of the calls and of each other, in layers:

* `CallsInv`: where a thread is in its call decides its request and its page (`UserCallsOK`); two calls for one block both read
  (`CacheLocksOK`, the file systems' locks); the wait list names the threads at `waiting`, each once (`WaitersOK`).
  Every step is one of some thread `t` of which the others see only that some are told to look again: `Steps(t)`, with `Misses` for
  the history, keeps it (`CallStep`, `ResizerCallStep`).
* `UsageOK`, with `PageOK` of each page: its count is the number of its `Users`, and reading and writable say who they are. A step changes the users
  of one page by one. `ListOK` is about the list: it holds the array's unmarked pages, blank ones first. Moving pages to the
  head or the tail, marking and rebuilding keep that, by what `Arranged` says of the order and `BlankFirst`. With the types they are
  `ElementsAccounted` (`AccountedParts`).
* `FreeTold` and `PulsesCome` are the parts of `NoLostWakeup`. That free pages are at most as many as threads that have been told holds because a
  step that frees `n` pages tells `n` threads, or all who wait; a thread that has been told takes a page or leaves for want of a cache, or waits again only when
  none is free. Only an owner of a page ends its read, and it signals if anybody waits (`ReadsGoOn`).
* `CopiesOK`, for `Coherent`, until the cache is disturbed. A block can be in the cache twice (see the findings), and then a write
  through one copy leaves the other stale. What makes that harmless is that the search finds the last copy in the list:
  `FreeFresh` says that the last copy of a block is fresh when nobody uses it, `MappedFresh` that what is mapped is fresh (it is `Coherent`),
  `WritersLast` that a page used to change a block is its last copy, and `DirectAlone` that a block being written past the
  cache is not in it. All but `MappedFresh` are about the order of the list, and every move in it is to show that the last copies
  stay the last, or are gone.

Theorems: `ElementsAreAccounted`, `CacheWakeupsNotLost`, `CacheIsCoherent`.

Assumptions are those declared with the constants (`KeWaitAssumption`, `KeTimerAssumption`, `KeQueueAssumption`, `KeSuspendAssumption`, `KeSchedAssumption`, `SetPrioritiesAssumption`, `KeDpcAssumption`,
`RtlCritSectAssumption`, `FatxLocksAssumption`, `ObAssumption`, `ExTimerAssumption`, `IdexChannelAssumption`, `DiskIoAssumption`, `FsCacheAssumption`): disjoint kinds of
objects, distinct model values, requests that name an object once, finitely many IRPs and, for the lock, the
queues and the cache, threads, and pages; sizes of the cache that its pages allow; a table, an increment and a DPC list that are not empty, delays and periods that are not negative; priority classes that are not empty, and priorities
set that no change of a base takes below 0.

Only model-checked: liveness (`EveryWaiterServed`, `EveryEntererServed`, `TimedWaitEnds`,
`EachServed`, `EveryIrpEnds`, `DismountReturns`), since fairness and ENABLED are out of the prover's
reach. Every invariant and every action property of a passing run is also a theorem.
That a list as described by `Arranged` exists is an induction over its length, and so TLC's as well; the proofs need no more than what such
a list is like.

## Not modelled, and why

* In `KeWait`: a wait for any object that names it twice; priority boosts (`KeSched`);
  the interval of a timeout (`KeTimer`).
* In `KeTimer`: waiters of a timer (`KeWait`), the wrap of the 32-bit tick count.
* In `KeSched`: `KeBoostCurrentThread` and quantum disabling, which have no caller. That threads of one
  priority take turns is not checked: it needs fairness and an instance without symmetry.
* In `KeDpc`: which thread runs (`KeSched`).
* In `KeSuspend`: user APCs (`KeWait`).
* In `KeQueue`: the packets of `io/complete.c`.
* In `FsCache`: `FscWriteFFs`, pages' physical addresses and the split of a request
  over blocks.
* In `RtlCritSect`: KernelApcDisable of the AndRegion routines.
* In `ObHandle`: directories below the root and their own counts, symbolic links, parse and close procedures, growth of the
  handle table.
* In `ExTimer`: `NtQueryTimer` and due times (`KeTimer`).
* In `IdexChannel`: verify, pass-through and flush requests, must-complete packets, the CD-ROM.
* In `DiskIo`: synchronous and cached transfers (the latter are the callers of
  `FsCache`), the lock of a file object, user APCs and completion ports of a request.
* Components left out altogether are listed above and in `PROJECT.json`.

## Plan

Order of work; each is a module, its run, then its theorems.

1. `PsThread`: creation, notification, exit and the reaper.
2. `TcpSocket`: retransmission and delivery.
3. Algorithms against reference definitions: pool, system PTEs, FATX chains.
4. Scheduling of equals: that each runs, under a fair clock.
5. Other requests of the IDE channel; the lock of a file object.
