------------------------------- MODULE DiskIo -------------------------------
(***************************************************************************)
(* Asynchronous transfers of a file from the system call to the APC that   *)
(* completes them: fatx/readwrit.c above the IDE channel (IdexChannel),    *)
(* io/iosubs.c and io/internal.c around both.  The file mutex that a       *)
(* thread acquires is released by the completion, in a DPC; a dismount of  *)
(* the volume (fatx/fsctrl.c) waits for the transfers under way; a thread  *)
(* that ends waits for its own, and gives up after five minutes.           *)
(*                                                                         *)
(* Threads run, and may be preempted after each of their steps, only while *)
(* nothing runs at DISPATCH_LEVEL.  The file mutex is what RwLockSpec says *)
(* (see ExRwLock), without its waiting places.                             *)
(***************************************************************************)
EXTENDS IdexChannel, WaitLists

CONSTANTS
    Thread, NoThread,
    Dismounter,     \* bound: the threads that dismount the volume; the others
                    \* read, write and end
    MaxTransfers    \* bound: parts of a request (entries of its asynchronous
                    \* I/O descriptor) and the transfers one may need

ASSUME DiskIoAssumption ==
    IsFiniteSet(Irp) /\ NoThread \notin Thread /\ MaxTransfers \in Nat \ {0}

VARIABLES
    irp,        \* [state, owner, cancel, parts, writes]
    irpList,    \* ETHREAD.IrpList
    thread,     \* where each thread is, and the request it is there with
    mutex,      \* owners of the file mutex
    volume      \* [dismounted, block, event, target], see VolumeInit

threadVars == <<irpList, thread>>
vars == <<channelVars, irp, irpList, thread, mutex, volume>>

FreeIrp == [state |-> "free", owner |-> NoThread, cancel |-> FALSE,
            parts |-> 0, writes |-> FALSE]

VolumeInit == [dismounted |-> FALSE,   \* FAT_VOLUME_DISMOUNTED
               block |-> 0,            \* DismountBlockCount
               event |-> "null",       \* DismountUnblockEvent: "null", "reset", "set"
               target |-> TRUE]        \* TargetDeviceObject # NULL

Init ==
    /\ ChannelInit
    /\ irp = [i \in Irp |-> FreeIrp]
    /\ irpList = [t \in Thread |-> <<>>]
    /\ thread = [t \in Thread |-> [pc |-> "idle", irp |-> NoIrp]]
    /\ mutex = [readers |-> 0, writers |-> 0]
    /\ volume = VolumeInit

At(t, pc) == thread[t].pc = pc /\ Passive
Goto(t, pc) == thread' = [thread EXCEPT ![t].pc = pc]
Back(t) == thread' = [thread EXCEPT ![t] = [pc |-> "idle", irp |-> NoIrp]]
Mine(t) == thread[t].irp

-----------------------------------------------------------------------------
(* NtReadFile, NtWriteFile and FatxFsdReadWrite in the calling thread.     *)

NtReadWriteFile(t) ==
    /\ t \notin Dismounter /\ At(t, "idle") /\ \E i \in Irp : irp[i].state = "free"
    /\ \E writes \in BOOLEAN, parts \in 1..MaxTransfers :
       LET i == CHOOSE j \in Irp : irp[j].state = "free" IN
        /\ irp' = [irp EXCEPT ![i] = [state |-> "issued", owner |-> t, cancel |-> FALSE,
                                      parts |-> parts, writes |-> writes]]
        /\ irpList' = [irpList EXCEPT ![t] = <<i>> \o @]
        /\ thread' = [thread EXCEPT ![t] = [pc |-> "lock", irp |-> i]]
    /\ UNCHANGED <<channelVars, mutex, volume>>

Grantable(i) == mutex.writers = 0 /\ (irp[i].writes => mutex.readers = 0)

(* The file mutex with one owner more, or less, for request i.             *)
Owned(i, n) == IF irp[i].writes THEN [mutex EXCEPT !.writers = @ + n]
                                ELSE [mutex EXCEPT !.readers = @ + n]

AcquireFileMutex(t) ==
    /\ At(t, "lock") /\ Grantable(Mine(t))
    /\ mutex' = Owned(Mine(t), 1)
    /\ irp' = [irp EXCEPT ![Mine(t)].state = "locked"]
    /\ Goto(t, "count")
    /\ UNCHANGED <<channelVars, irpList, volume>>

IncrementDismountBlockCount(t) ==
    /\ At(t, "count")
    /\ volume' = [volume EXCEPT !.block = @ + 1]
    /\ Goto(t, "check")
    /\ UNCHANGED <<channelVars, irp, irpList, mutex>>

(* The transfers the next part may need, those of the later ones counted.  *)
Needs(i) == 1..(MaxTransfers - irp[i].parts + 1)

(* FatxStartNextAsynchronousIoEntry: the next part goes to the disk, which *)
(* makes n transfers of it.                                                *)
StartEntry(i, n) ==
    /\ irp' = [irp EXCEPT ![i].state = "disk", ![i].parts = @ - 1]
    /\ left' = [left EXCEPT ![i] = n - 1]
    /\ StartPacket(i)

(* The volume is dismounted, or memory or a cluster is not to be had: back *)
(* out.  Otherwise FatxNonCachedAsynchronousIo starts the first part.      *)
BacksOut(t) ==
    /\ At(t, "check")
    /\ Goto(t, "uncount")
    /\ UNCHANGED <<channelVars, irp, irpList, mutex, volume>>

NonCachedAsynchronousIo(t) ==
    /\ At(t, "check") /\ ~volume.dismounted
    /\ \E n \in Needs(Mine(t)) : StartEntry(Mine(t), n)
    /\ Back(t)
    /\ UNCHANGED <<device, line, shutdown, irpList, mutex, volume>>

(* Mutation: the count of the waiting dismount is forgotten. *)
UnblocksAtZero == volume.block - 1 = 0

(* Below zero a dismount waits.                                            *)
Unblocks == volume.block - 1 < 0

Signaled == [volume EXCEPT !.event = IF @ = "null" THEN @ ELSE "set"]

DecrementDismountBlockCount(t) ==
    /\ At(t, "uncount")
    /\ volume' = [volume EXCEPT !.block = @ - 1]
    /\ Goto(t, IF Unblocks THEN "signal" ELSE "unlock")
    /\ UNCHANGED <<channelVars, irp, irpList, mutex>>

SignalDismountUnblockEvent(t) ==
    /\ At(t, "signal")
    /\ volume' = Signaled
    /\ Goto(t, "unlock")
    /\ UNCHANGED <<channelVars, irp, irpList, mutex>>

(* FatxReleaseFileMutex and IoCompleteRequest.                             *)
ReleaseFileMutex(t) ==
    /\ At(t, "unlock")
    /\ mutex' = Owned(Mine(t), -1)
    /\ irp' = [irp EXCEPT ![Mine(t)].state = "apc"]
    /\ Back(t)
    /\ UNCHANGED <<channelVars, irpList, volume>>

-----------------------------------------------------------------------------
(* Completion.                                                             *)

(* IofCompleteRequest after the completion routines: the APC to the thread *)
(* or, when a thread that ended has given the request up, IopDropIrp.      *)
Completed(i) ==
    IF irp[i].cancel /\ irp[i].owner = NoThread THEN FreeIrp
    ELSE [irp[i] EXCEPT !.state = "apc"]

(* Mutation: each part releases the mutex. *)
CompletePartReleases ==
    /\ Doing("complete") /\ Status = "success" /\ irp[Current].parts > 0
    /\ \E n \in Needs(Current) :
        /\ irp' = [irp EXCEPT ![Current].parts = @ - 1]
        /\ left' = [left EXCEPT ![Current] = n - 1]
        /\ channel' = [channel EXCEPT !.queue = Append(@, Current), !.doing = "next"]
    /\ mutex' = Owned(Current, -1)
    /\ UNCHANGED <<device, line, shutdown, threadVars, volume>>

(* FatxNonCachedAsynchronousIoCompletion starts the next part, at the end  *)
(* of the device's queue: the device is busy with this request still.      *)
CompletePart ==
    /\ Doing("complete") /\ Status = "success" /\ irp[Current].parts > 0
    /\ \E n \in Needs(Current) :
        /\ irp' = [irp EXCEPT ![Current].parts = @ - 1]
        /\ left' = [left EXCEPT ![Current] = n - 1]
        /\ channel' = [channel EXCEPT !.queue = Append(@, Current), !.doing = "next"]
    /\ UNCHANGED <<device, line, shutdown, threadVars, mutex, volume>>

(* The last part, or an error, ends the transfer.                          *)
CompleteTransfer ==
    /\ Doing("complete") /\ (Status = "success" => irp[Current].parts = 0)
    /\ volume' = IF Unblocks THEN [Signaled EXCEPT !.block = @ - 1]
                 ELSE [volume EXCEPT !.block = @ - 1]
    /\ mutex' = Owned(Current, -1)
    /\ irp' = [irp EXCEPT ![Current] = Completed(Current)]
    /\ left' = [left EXCEPT ![Current] = 0]
    /\ Does("next")
    /\ UNCHANGED <<device, line, shutdown, threadVars>>

(* IopCompleteRequest, a special kernel APC: wherever the thread is.       *)
IopCompleteRequest(i) ==
    /\ Passive /\ irp[i].state = "apc" /\ irp[i].owner # NoThread
    /\ thread[irp[i].owner].pc # "ended"
    /\ irpList' = [irpList EXCEPT ![irp[i].owner] = Unlink(@, i)]
    /\ irp' = [irp EXCEPT ![i] = FreeIrp]
    /\ UNCHANGED <<channelVars, thread, mutex, volume>>

-----------------------------------------------------------------------------
(* FatxDismountVolume.                                                     *)

DismountVolume(t) ==
    /\ t \in Dismounter /\ At(t, "idle") /\ ~volume.dismounted
    /\ volume' = [volume EXCEPT !.dismounted = TRUE]
    /\ Goto(t, "dismount")
    /\ UNCHANGED <<channelVars, irp, irpList, mutex>>

(* Mutation: one transfer under way does not count. *)
BlockedByTwo == volume.block > 1

Blocked == volume.block > 0

(* At DISPATCH_LEVEL: wait for the transfers under way, if there are any.  *)
DismountBlocks(t) ==
    /\ At(t, "dismount")
    /\ volume' = [volume EXCEPT !.event = "reset", !.block = IF Blocked THEN @ - 1 ELSE @]
    /\ Goto(t, IF Blocked THEN "blocked" ELSE "alone")
    /\ UNCHANGED <<channelVars, irp, irpList, mutex>>

DismountUnblocks(t) ==
    /\ At(t, "blocked") /\ volume.event = "set"
    /\ Goto(t, "woken")
    /\ volume' = [volume EXCEPT !.event = "reset"]
    /\ UNCHANGED <<channelVars, irp, irpList, mutex>>

(* The device is let go.                                                   *)
DismountEnds(t) ==
    /\ thread[t].pc \in {"alone", "woken"} /\ Passive
    /\ volume' = [volume EXCEPT !.event = "null", !.target = FALSE,
                     !.block = IF At(t, "woken") THEN @ + 1 ELSE @]
    /\ Goto(t, "idle")
    /\ UNCHANGED <<channelVars, irp, irpList, mutex>>

-----------------------------------------------------------------------------
(* The end of a thread: PspExitThread and IoCancelThreadIo.                *)

IoCancelThreadIo(t) ==
    /\ t \notin Dismounter /\ At(t, "idle")
    /\ irp' = [i \in Irp |-> IF i \in Range(irpList[t])
                             THEN [irp[i] EXCEPT !.cancel = TRUE] ELSE irp[i]]
    /\ Goto(t, "cancel")
    /\ UNCHANGED <<channelVars, irpList, mutex, volume>>

(* Mutation: the request leaves the list only. *)
GiveUpOnList(t) ==
    /\ At(t, "cancel") /\ irpList[t] # <<>>
    /\ irp[Head(irpList[t])].state # "apc"
    /\ irpList' = [irpList EXCEPT ![t] = Tail(@)]
    /\ UNCHANGED <<channelVars, irp, thread, mutex, volume>>

(* IopDisassociateThreadIrp, after 3000 delays: the first of the list is   *)
(* left alone if it has completed.                                         *)
IopDisassociateThreadIrp(t) ==
    /\ At(t, "cancel") /\ irpList[t] # <<>>
    /\ irp[Head(irpList[t])].state # "apc"
    /\ irp' = [irp EXCEPT ![Head(irpList[t])].owner = NoThread]
    /\ irpList' = [irpList EXCEPT ![t] = Tail(@)]
    /\ UNCHANGED <<channelVars, thread, mutex, volume>>

ThreadEnds(t) ==
    /\ At(t, "cancel") /\ irpList[t] = <<>>
    /\ Goto(t, "ended")
    /\ UNCHANGED <<channelVars, irp, irpList, mutex, volume>>

-----------------------------------------------------------------------------
Issue(t) ==
    \/ IncrementDismountBlockCount(t) \/ BacksOut(t) \/ NonCachedAsynchronousIo(t)
    \/ DecrementDismountBlockCount(t) \/ SignalDismountUnblockEvent(t)
    \/ ReleaseFileMutex(t)
Dismount(t) == DismountBlocks(t) \/ DismountUnblocks(t) \/ DismountEnds(t)
Complete == CompletePart \/ CompleteTransfer

Channel ==
    /\ Dispatch \/ Tick \/ Interrupt \/ Answers \/ GetsReady \/ ShutdownBegins
    /\ UNCHANGED <<irp, irpList, thread, mutex, volume>>

Next ==
    \/ Channel \/ Complete
    \/ \E i \in Irp : IopCompleteRequest(i)
    \/ \E t \in Thread :
        \/ NtReadWriteFile(t) \/ AcquireFileMutex(t) \/ Issue(t)
        \/ DismountVolume(t) \/ Dismount(t)
        \/ IoCancelThreadIo(t) \/ IopDisassociateThreadIrp(t) \/ ThreadEnds(t)

Untouched == UNCHANGED <<irp, irpList, thread, mutex, volume>>

(* Interrupts and DPCs come, the timer ticks, threads run on.  Whoever     *)
(* waits for the file mutex gets it if it is free again and again: that is *)
(* EveryWaiterServed of ExRwLock.  The device owes nothing.                *)
Fairness ==
    /\ WF_vars((Dispatch /\ Untouched) \/ Complete)
    /\ WF_vars(Interrupt /\ Untouched) /\ WF_vars(Tick /\ Untouched)
    /\ \A t \in Thread : WF_vars(Issue(t) \/ Dismount(t)) /\ SF_vars(AcquireFileMutex(t))
    /\ \A i \in Irp : WF_vars(IopCompleteRequest(i))

Spec == Init /\ [][Next]_vars /\ Fairness

-----------------------------------------------------------------------------
(* Properties.                                                             *)

UnderWay == {i \in Irp : irp[i].state \in {"locked", "disk"}}

(* However a transfer ends, and with however many parts, the file mutex is *)
(* released exactly once for it: its owners are the transfers under way,   *)
(* and a transfer that writes is alone.                                    *)
MutexFollowsTransfers ==
    /\ mutex.readers = Cardinality({i \in UnderWay : ~irp[i].writes})
    /\ mutex.writers = Cardinality({i \in UnderWay : irp[i].writes})
    /\ mutex.writers > 0 => Cardinality(UnderWay) = 1

(* A dismounted volume lets its device go only when no transfer that got   *)
(* past the check is under way; a later one would follow a null pointer.   *)
DismountWaits ==
    ~volume.target =>
        /\ \A i \in Irp : irp[i].state # "disk"
        /\ volume.event = "null"

(* When a thread has ended no request names it any more: neither will an   *)
(* APC be queued to it nor is one in its queue.                            *)
IrpsForgetEnded ==
    \A t \in Thread : thread[t].pc = "ended" => \A i \in Irp : irp[i].owner # t

(* Every request ends, with the device working, failing or dead, across    *)
(* resets, retries and a shutdown.                                         *)
EveryIrpEnds == \A i \in Irp : irp[i].state = "disk" ~> irp[i].state # "disk"

(* A dismount that waits is told when the last transfer has ended.         *)
DismountReturns ==
    \A t \in Dismounter : thread[t].pc = "dismount" ~> thread[t].pc = "idle"
=============================================================================
