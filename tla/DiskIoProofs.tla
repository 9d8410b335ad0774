---------------------------- MODULE DiskIoProofs ----------------------------
(***************************************************************************)
(* The safety properties of the way to the disk: asynchronous transfers    *)
(* and the IDE channel below them, for any number of requests, threads,    *)
(* parts, retries and ticks, and the file system cache above them, for any *)
(* number of threads, pages, blocks and sizes.                             *)
(***************************************************************************)
EXTENDS DiskIo, FsCache, WaitListProofs, FiniteSetTheorems

-----------------------------------------------------------------------------
(* Types.                                                                  *)

Fields == {"queue", "busy", "current", "status", "interrupt", "polling", "timeout",
           "retries", "starting", "requested", "finish", "doing"}

ChannelType ==
    /\ DOMAIN channel = Fields
    /\ channel.queue \in Seq(Irp)
    /\ Current \in Irp \cup {NoIrp}
    /\ channel.busy \in BOOLEAN /\ channel.interrupt \in BOOLEAN
    /\ channel.polling \in BOOLEAN /\ channel.starting \in BOOLEAN
    /\ channel.requested \in BOOLEAN /\ channel.finish \in BOOLEAN
    /\ channel.doing \in {"nothing", "start", "finish", "return", "next", "complete", "expiring"}

DeviceType ==
    /\ device \in {"idle", "working", "resetting"}
    /\ line \in {"no", "success", "error", "stale"}

IrpType ==
    irp \in [Irp -> [state : {"free", "issued", "locked", "disk", "apc"},
                     owner : Thread \cup {NoThread}, cancel : BOOLEAN,
                     parts : Int, writes : BOOLEAN]]

ThreadType ==
    thread \in [Thread -> [pc : {"idle", "lock", "count", "check", "uncount", "signal",
                                 "unlock", "dismount", "blocked", "alone", "woken",
                                 "cancel", "ended"},
                           irp : Irp \cup {NoIrp}]]

MutexType == mutex \in [readers : Int, writers : Int]

VolumeType ==
    /\ DOMAIN volume = {"dismounted", "block", "event", "target"}
    /\ volume.dismounted \in BOOLEAN /\ volume.target \in BOOLEAN
    /\ volume.block \in Int
    /\ volume.event \in {"null", "reset", "set"}

-----------------------------------------------------------------------------
(* The channel.  What may end a command, its interrupt, its time-out or    *)
(* the polling after a reset, exists one at a time, never while a routine  *)
(* of the channel works on the request, and only with a request.           *)

Pending == channel.finish \/ channel.interrupt \/ channel.polling

ChannelOK ==
    /\ Pending => Current # NoIrp /\ channel.doing \in {"nothing", "expiring", "return"}
    /\ ~(channel.finish /\ channel.interrupt)
    /\ ~(channel.finish /\ channel.polling)
    /\ ~(channel.interrupt /\ channel.polling)
    /\ channel.doing \in {"start", "finish", "complete"} => Current # NoIrp
    /\ ~channel.busy => Doing("nothing") /\ Current = NoIrp
    /\ channel.requested => ~Pending /\ channel.doing \in {"return", "next"}
    /\ Doing("expiring") => ~channel.polling

(* An answer that is not stale is that of the command under way.           *)
AnswerOK ==
    /\ channel.finish /\ Status = "success" => device = "idle"
    /\ channel.interrupt /\ line \in {"success", "error"} => device = "idle"

-----------------------------------------------------------------------------
(* Requests and threads.                                                   *)

(* A request is in the list of its thread and in no other.                 *)
OwnersOK ==
    \A t \in Thread :
        /\ irpList[t] \in Seq(Irp) /\ IsInjective(irpList[t])
        /\ \A i \in Irp : irp[i].owner = t <=> i \in Range(irpList[t])
        /\ thread[t].pc = "ended" => irpList[t] = <<>>

FreeOK == \A i \in Irp : irp[i].state = "free" => irp[i].owner = NoThread

(* A thread in the middle of its call has a request of its own.            *)
Locked(t) == thread[t].pc \in {"count", "check", "uncount", "signal", "unlock"}
Asking(t) == thread[t].pc = "lock" \/ Locked(t)

CallsOK ==
    /\ \A t \in Thread :
        /\ thread[t].pc = "lock" => Mine(t) \in Irp /\ irp[Mine(t)].state = "issued"
        /\ Locked(t) => Mine(t) \in Irp /\ irp[Mine(t)].state = "locked"
    /\ \A t, u \in Thread : Asking(t) /\ Asking(u) /\ Mine(t) = Mine(u) => t = u

(* The requests in the device's queue and the current one are different,   *)
(* except while the current one is put back or replaced.                   *)
QueueOK ==
    /\ channel.queue \in Seq(Irp) /\ IsInjective(channel.queue)
    /\ \A i \in Range(channel.queue) : irp[i].state = "disk"
    /\ ~Doing("next") /\ Current # NoIrp
        => irp[Current].state = "disk" /\ Current \notin Range(channel.queue)

-----------------------------------------------------------------------------
(* The file mutex.                                                         *)

Owners(writes) == {i \in UnderWay : irp[i].writes = writes}

MutexOK ==
    /\ mutex.readers = Cardinality(Owners(FALSE))
    /\ mutex.writers = Cardinality(Owners(TRUE))
    /\ \A i \in Owners(TRUE) : UnderWay = {i}

-----------------------------------------------------------------------------
(* The dismount.  DismountBlockCount is the number of the transfers that   *)
(* have been counted, less one for a dismount that waits.                  *)

AtDisk == {i \in Irp : irp[i].state = "disk"}
Counted ==
    AtDisk \cup {i \in Irp : \E t \in Thread :
                    thread[t].pc \in {"check", "uncount"} /\ Mine(t) = i}
Dismounting(t) == thread[t].pc \in {"dismount", "blocked", "alone", "woken"}
Waiting == \E t \in Thread : thread[t].pc \in {"blocked", "woken"}
Drained == volume.dismounted /\ AtDisk = {}

DismountOK ==
    /\ volume.block = Cardinality(Counted) - (IF Waiting THEN 1 ELSE 0)
    /\ \A t \in Thread : Dismounting(t) => volume.dismounted /\ volume.target
    /\ \A t, u \in Thread : Dismounting(t) /\ Dismounting(u) => t = u
    /\ \A t \in Thread : thread[t].pc \in {"alone", "woken", "signal"} => Drained
    /\ ~volume.target => Drained /\ volume.event = "null"
    /\ volume.event = "set" => Drained

ChannelInv == ChannelType /\ DeviceType /\ ChannelOK /\ AnswerOK

Types ==
    /\ IrpType /\ ThreadType /\ MutexType /\ VolumeType
    /\ irpList \in [Thread -> Seq(Irp)]

TransferInv ==
    /\ Types /\ ChannelInv
    /\ OwnersOK /\ FreeOK /\ CallsOK /\ QueueOK
    /\ MutexOK

IInv == TransferInv /\ DismountOK

-----------------------------------------------------------------------------
(* The channel's own steps.                                                *)

LEMMA DispatchKeepsChannel ==
    ASSUME ChannelInv, Dispatch
    PROVE  ChannelInv'
<1> USE IdexChannelAssumption
    DEF ChannelInv, ChannelType, Fields, DeviceType, ChannelOK, AnswerOK, Pending, Doing, Current, Status
<1>1. CASE StartNextPacket
  <2>1. CASE ~channel.starting /\ channel.queue # <<>>
    <3>1. Head(channel.queue) \in Irp /\ Tail(channel.queue) \in Seq(Irp)
      BY <2>1
    <3>2. ASSUME NEW h, h = Head(channel.queue), NEW q, q = Tail(channel.queue)
          PROVE  channel' = [Starting(h) EXCEPT !.queue = q, !.requested = FALSE]
      BY <1>1, <2>1, <3>2 DEF StartNextPacket, Starting
    <3> QED BY <1>1, <2>1, <3>1, <3>2 DEF StartNextPacket, Starting
  <2>2. CASE channel.starting \/ channel.queue = <<>>
    BY <1>1, <2>2 DEF StartNextPacket
  <2> QED BY <2>1, <2>2
<1>2. CASE StartIoReturns
  BY <1>2 DEF StartIoReturns
<1>3. CASE StartReadWrite
  <2>1. CASE device # "idle"
    <3>1. /\ channel' = [channel EXCEPT !.status = "timeout", !.doing = "finish"]
          /\ UNCHANGED <<device, line>>
      BY <1>3, <2>1 DEF StartReadWrite, Ends
    <3> QED BY <1>3, <3>1 DEF StartReadWrite
  <2>2. CASE device = "idle"
    <3>1. /\ channel' = [channel EXCEPT !.interrupt = TRUE, !.timeout = CommandTimeout,
                              !.doing = "return"]
          /\ device' = "working"
          /\ line' = IF line = "no" THEN "no" ELSE "stale"
      BY <1>3, <2>2 DEF StartReadWrite
    <3> QED BY <1>3, <3>1 DEF StartReadWrite
  <2> QED BY <2>1, <2>2
<1>4. CASE FinishReadWrite
  <2>1. CASE Status = "timeout"
    <3>1. CASE shutdown
      <4>1. /\ channel' = [channel EXCEPT !.status = "aborted", !.doing = "complete"]
            /\ UNCHANGED <<device, line, shutdown>>
        BY <1>4, <2>1, <3>1 DEF FinishReadWrite, ResetDevice, Ends
      <4> QED BY <1>4, <4>1 DEF FinishReadWrite
    <3>2. CASE ~shutdown
      <4>1. /\ channel' = [channel EXCEPT !.polling = TRUE, !.timeout = ResetTimeout,
                               !.doing = "return"]
            /\ device' = "resetting" /\ line' = "no"
        BY <1>4, <2>1, <3>2 DEF FinishReadWrite, ResetDevice
      <4> QED BY <1>4, <4>1 DEF FinishReadWrite
    <3> QED BY <3>1, <3>2
  <2>2. CASE Status = "success" /\ left[Current] > 0 /\ ~shutdown
    <3> DEFINE q == Append(channel.queue, Current)
    <3>1. q \in Seq(Irp)
      BY <1>4 DEF FinishReadWrite
    <3>2. /\ channel' = [channel EXCEPT !.queue = q, !.doing = "next"]
          /\ UNCHANGED <<device, line, shutdown>>
      BY <1>4, <2>2 DEF FinishReadWrite
    <3> HIDE DEF q
    <3> QED BY <1>4, <3>1, <3>2 DEF FinishReadWrite
  <2>3. CASE Status = "success" /\ left[Current] > 0 /\ shutdown
    <3>1. /\ channel' = [channel EXCEPT !.status = "aborted", !.doing = "complete"]
          /\ UNCHANGED <<device, line, shutdown>>
      BY <1>4, <2>3 DEF FinishReadWrite, Ends
    <3> QED BY <1>4, <3>1 DEF FinishReadWrite
  <2>4. CASE Status # "timeout" /\ (Status = "success" => ~(left[Current] > 0))
    <3>1. channel' = [channel EXCEPT !.doing = "complete"] /\ UNCHANGED <<device, line, shutdown>>
      BY <1>4, <2>4 DEF FinishReadWrite, Does
    <3> QED BY <1>4, <3>1 DEF FinishReadWrite
  <2> QED BY <2>1, <2>2, <2>3, <2>4
<1>5. CASE DpcForIsr
  BY <1>5 DEF DpcForIsr
<1>6. CASE Expire
  <2>1. CASE channel.interrupt
    <3>1. /\ channel' = [channel EXCEPT !.interrupt = FALSE, !.status = "timeout", !.doing = "finish"]
          /\ UNCHANGED <<device, line, shutdown>>
      BY <1>6, <2>1 DEF Expire
    <3> QED BY <1>6, <2>1, <3>1 DEF Expire
  <2>2. CASE ~channel.interrupt
    <3>1. channel' = [channel EXCEPT !.doing = "nothing"] /\ UNCHANGED <<device, line, shutdown>>
      BY <1>6, <2>2 DEF Expire, Does
    <3> QED BY <1>6, <2>2, <3>1 DEF Expire
  <2> QED BY <2>1, <2>2
<1> QED BY <1>1, <1>2, <1>3, <1>4, <1>5, <1>6 DEF Dispatch

LEMMA OutsideKeepsChannel ==
    ASSUME ChannelInv, Tick \/ Interrupt \/ Answers \/ GetsReady \/ ShutdownBegins
    PROVE  ChannelInv'
<1> USE IdexChannelAssumption
    DEF ChannelInv, ChannelType, Fields, DeviceType, ChannelOK, AnswerOK, Pending, Doing, Current, Status
<1>1. CASE CommandTick
  BY <1>1 DEF CommandTick
<1>2. CASE PollResetComplete
  BY <1>2 DEF PollResetComplete
<1>3. CASE Interrupt
  <2>1. CASE Expected
    <3>1. /\ channel' = [channel EXCEPT !.interrupt = FALSE, !.timeout = 0, !.finish = TRUE,
                           !.status = IF line = "error" THEN "error" ELSE "success"]
          /\ line # "no" /\ line' = "no" /\ device' = device
      BY <1>3, <2>1 DEF Interrupt
    <3> QED BY <2>1, <3>1 DEF Expected
  <2>2. CASE ~Expected
    <3>1. channel' = channel /\ line' = "no" /\ device' = device
      BY <1>3, <2>2 DEF Interrupt
    <3> QED BY <3>1
  <2> QED BY <2>1, <2>2
<1>4. CASE Answers \/ GetsReady \/ ShutdownBegins
  BY <1>4 DEF Answers, GetsReady, ShutdownBegins
<1> QED BY <1>1, <1>2, <1>3, <1>4 DEF Tick

(* What they do to the queue: the first becomes the current request, or    *)
(* the current one goes to the end.                                        *)
LEMMA QueueStays ==
    ASSUME QueueOK, UNCHANGED irp, channel'.queue = channel.queue,
           channel'.current = channel.current, ~Doing("next")
    PROVE  QueueOK'
BY DEF QueueOK, Doing, Current

LEMMA OwnStepsKeepQueue ==
    ASSUME ChannelInv, QueueOK, UNCHANGED irp,
           Dispatch \/ Tick \/ Interrupt \/ Answers \/ GetsReady \/ ShutdownBegins
    PROVE  QueueOK'
<1> USE DEF ChannelInv, ChannelType, Fields, Doing, Current, Status
<1>1. CASE StartNextPacket
  <2>1. CASE ~channel.starting /\ channel.queue # <<>>
    <3> DEFINE h == Head(channel.queue)
               q == Tail(channel.queue)
    <3>1. /\ q \in Seq(Irp) /\ IsInjective(q) /\ h \in Irp
          /\ h \in Range(channel.queue) /\ Range(q) = Range(channel.queue) \ {h}
      BY <2>1, TailScans DEF QueueOK
    <3>2. channel' = [Starting(h) EXCEPT !.queue = q, !.requested = FALSE]
      BY <1>1, <2>1 DEF StartNextPacket, Starting
    <3> HIDE DEF h, q
    <3>3. channel'.queue = q /\ channel'.current = h
      BY <3>2 DEF Starting
    <3> QED BY <3>1, <3>3 DEF QueueOK
  <2>2. CASE channel.starting \/ channel.queue = <<>>
    <3>1. channel'.queue = channel.queue /\ channel'.current = NoIrp
      BY <1>1, <2>2 DEF StartNextPacket
    <3> QED BY <3>1 DEF QueueOK
  <2> QED BY <2>1, <2>2
<1>2. CASE FinishReadWrite
  <2>1. CASE channel' = [channel EXCEPT !.queue = Append(@, Current), !.doing = "next"]
    <3> DEFINE q == Append(channel.queue, Current)
    <3>1. Current \in Irp /\ Current \notin Range(channel.queue) /\ irp[Current].state = "disk"
      BY <1>2 DEF FinishReadWrite, ChannelOK, QueueOK
    <3>2. /\ q \in Seq(Irp) /\ IsInjective(q)
          /\ Range(q) = Range(channel.queue) \cup {Current}
      BY <3>1, AppendLinks DEF QueueOK
    <3> HIDE DEF q
    <3>3. channel'.queue = q /\ channel'.doing = "next"
      BY <2>1 DEF q
    <3> QED BY <3>1, <3>2, <3>3 DEF QueueOK
  <2>2. CASE channel' # [channel EXCEPT !.queue = Append(@, Current), !.doing = "next"]
    <3>1. channel'.queue = channel.queue /\ channel'.current = channel.current
      BY <1>2, <2>2 DEF FinishReadWrite, ResetDevice, Ends, Does
    <3> QED BY <1>2, <3>1, QueueStays DEF FinishReadWrite
  <2> QED BY <2>1, <2>2
<1>3. CASE StartIoReturns \/ StartReadWrite \/ DpcForIsr \/ Expire \/ Tick
  <2>1. /\ channel'.queue = channel.queue /\ channel'.current = channel.current
        /\ ~Doing("next")
    BY <1>3 DEF StartIoReturns, StartReadWrite, DpcForIsr, Expire, Tick, CommandTick,
                PollResetComplete, Ends, Does
  <2> QED BY <2>1, QueueStays
<1>4. CASE Interrupt \/ Answers \/ GetsReady \/ ShutdownBegins
  <2>1. /\ channel'.queue = channel.queue /\ channel'.current = channel.current
        /\ channel'.doing = channel.doing
    BY <1>4 DEF Interrupt, Answers, GetsReady, ShutdownBegins
  <2> QED BY <2>1 DEF QueueOK
<1> QED BY <1>1, <1>2, <1>3, <1>4 DEF Dispatch

-----------------------------------------------------------------------------
(* What a step does not disturb.                                           *)

LEMMA QueueFrame ==
    ASSUME QueueOK, ChannelInv, UNCHANGED channel,
           \A i \in Irp : irp[i].state = "disk" => irp'[i].state = "disk"
    PROVE  QueueOK'
BY DEF QueueOK, ChannelInv, ChannelType, Doing, Current, Range

LEMMA ChannelFrame ==
    ASSUME ChannelInv, UNCHANGED channelVars
    PROVE  ChannelInv'
BY DEF channelVars, ChannelInv, ChannelType, DeviceType, ChannelOK, AnswerOK, Pending, Doing,
       Current, Status

LEMMA OwnersFrame ==
    ASSUME OwnersOK, UNCHANGED irpList, \A i \in Irp : irp'[i].owner = irp[i].owner,
           \A t \in Thread : thread'[t].pc = "ended" => thread[t].pc = "ended"
    PROVE  OwnersOK'
BY DEF OwnersOK

LEMMA MutexFrame ==
    ASSUME MutexOK, UNCHANGED mutex,
           \A i \in Irp : irp'[i].state \in {"locked", "disk"} <=> irp[i].state \in {"locked", "disk"},
           \A i \in Irp : irp[i].state \in {"locked", "disk"} => irp'[i].writes = irp[i].writes
    PROVE  MutexOK'
<1>1. UnderWay' = UnderWay
  BY DEF UnderWay
<1>2. \A b : Owners(b)' = Owners(b)
  BY <1>1 DEF Owners, UnderWay
<1> QED BY <1>1, <1>2, Zenon DEF MutexOK

(* Whatever happens to the count, the event and the threads, the rest of   *)
(* the dismount stays as it was.                                           *)
LEMMA DismountKept ==
    ASSUME DismountOK, AtDisk' \subseteq AtDisk,
           volume'.dismounted = volume.dismounted, volume'.target = volume.target,
           \A u \in Thread : Dismounting(u)' => Dismounting(u),
           \A u \in Thread : thread'[u].pc \in {"alone", "woken", "signal"}
                => Drained' \/ thread[u].pc \in {"alone", "woken", "signal"},
           volume'.event # volume.event
                => volume.event # "null" /\ (volume'.event = "set" => Drained'),
           volume'.block = Cardinality(Counted') - (IF Waiting' THEN 1 ELSE 0)
    PROVE  DismountOK'
<1>1. Drained => Drained'
  BY DEF Drained
<1>2. \A u \in Thread : Dismounting(u)' => volume'.dismounted /\ volume'.target
  BY DEF DismountOK
<1>3. \A u, v \in Thread : Dismounting(u)' /\ Dismounting(v)' => u = v
  BY DEF DismountOK
<1>4. \A u \in Thread : thread'[u].pc \in {"alone", "woken", "signal"} => Drained'
  BY <1>1 DEF DismountOK
<1>5. ~volume'.target => Drained' /\ volume'.event = "null"
  BY <1>1 DEF DismountOK
<1>6. volume'.event = "set" => Drained'
  BY <1>1 DEF DismountOK
<1> QED BY <1>2, <1>3, <1>4, <1>5, <1>6 DEF DismountOK

(* Only steps of the dismount, and those that count, concern it.           *)
Concerned == {"dismount", "blocked", "alone", "woken", "signal"}

Undisturbed(t) ==
    thread'[t].pc = thread[t].pc \/ {thread[t].pc, thread'[t].pc} \cap Concerned = {}

LEMMA DismountFrame ==
    ASSUME DismountOK, UNCHANGED volume, AtDisk' \subseteq AtDisk, Counted' = Counted,
           \A t \in Thread : Undisturbed(t)
    PROVE  DismountOK'
<1>1. Waiting' <=> Waiting
  BY DEF Waiting, Concerned, Undisturbed
<1>2. \A t \in Thread : Dismounting(t)' => Dismounting(t)
  BY DEF Dismounting, Concerned, Undisturbed
<1>3. \A t \in Thread : thread'[t].pc \in {"alone", "woken", "signal"}
                        => thread[t].pc \in {"alone", "woken", "signal"}
  BY DEF Concerned, Undisturbed
<1>4. volume'.block = Cardinality(Counted') - (IF Waiting' THEN 1 ELSE 0)
  BY <1>1 DEF DismountOK
<1> QED BY <1>2, <1>3, <1>4, DismountKept

LEMMA PlaceChanged ==
    ASSUME Types, NEW t \in Thread, NEW to, Goto(t, to)
    PROVE  /\ thread' = [thread EXCEPT ![t].pc = to]
           /\ \A u \in Thread : /\ thread'[u].pc = IF u = t THEN to ELSE thread[u].pc
                                /\ Mine(u)' = Mine(u)
BY DEF Goto, Types, ThreadType, Mine

(* A thread goes to another place of its call, or of the dismount.         *)
LEMMA ThreadMoves ==
    ASSUME TransferInv, NEW t \in Thread,
           NEW to \in {"idle", "check", "uncount", "signal", "unlock", "dismount", "blocked",
                       "alone", "woken", "cancel", "ended"},
           Goto(t, to), UNCHANGED <<channelVars, irp, irpList, mutex>>, VolumeType',
           to \in {"check", "uncount", "signal", "unlock"} => Locked(t),
           to = "ended" => irpList[t] = <<>>
    PROVE  TransferInv'
<1>1. thread' = [thread EXCEPT ![t].pc = to] /\ thread \in [Thread -> [pc : {"idle", "lock", "count",
        "check", "uncount", "signal", "unlock", "dismount", "blocked", "alone", "woken",
        "cancel", "ended"}, irp : Irp \cup {NoIrp}]]
  BY DEF Goto, TransferInv, Types, ThreadType
<1>2. Types'
  BY <1>1 DEF TransferInv, Types, ThreadType, IrpType, MutexType
<1>3. ChannelInv' /\ QueueOK' /\ MutexOK'
  BY ChannelFrame, QueueFrame, MutexFrame DEF TransferInv, channelVars
<1>4. OwnersOK' /\ FreeOK'
  BY <1>1 DEF TransferInv, OwnersOK, FreeOK
<1>5. CallsOK'
  <2>1. \A u \in Thread : Mine(u)' = Mine(u)
    BY <1>1 DEF Mine
  <2>2. \A u \in Thread : Locked(u)' => Locked(u)
    BY <1>1 DEF Locked
  <2>3. \A u \in Thread : thread'[u].pc = "lock" => thread[u].pc = "lock"
    BY <1>1
  <2> QED BY <2>1, <2>2, <2>3 DEF TransferInv, CallsOK, Asking
<1> QED BY <1>2, <1>3, <1>4, <1>5 DEF TransferInv

LEMMA CountedMoves ==
    ASSUME TransferInv, NEW t \in Thread, UNCHANGED irp,
           thread[t].pc \in {"count", "check", "uncount"},
           NEW to, thread' = [thread EXCEPT ![t].pc = to]
    PROVE  /\ AtDisk' = AtDisk
           /\ Mine(t) \in Irp /\ Mine(t) \notin AtDisk
           /\ thread[t].pc = "count" => Mine(t) \notin Counted
           /\ thread[t].pc \in {"check", "uncount"} => Mine(t) \in Counted
           /\ to \in {"check", "uncount"} => Counted' = Counted \cup {Mine(t)}
           /\ to \notin {"check", "uncount"} => Counted' = Counted \ {Mine(t)}
<1>1. AtDisk' = AtDisk
  BY DEF AtDisk
<1>2. Mine(t) \in Irp /\ irp[Mine(t)].state = "locked"
  BY DEF TransferInv, CallsOK, Locked
<1>3. \A u \in Thread : u # t /\ thread[u].pc \in {"check", "uncount"} => Mine(u) # Mine(t)
  BY DEF TransferInv, CallsOK, Asking, Locked
<1>4. \A u \in Thread : /\ Mine(u)' = Mine(u)
                       /\ thread'[u].pc = IF u = t THEN to ELSE thread[u].pc
  BY DEF TransferInv, Types, ThreadType, Mine
<1>5. Mine(t) \notin AtDisk
  BY <1>2 DEF AtDisk
<1> QED BY <1>1, <1>2, <1>3, <1>4, <1>5 DEF Counted

LEMMA CountedFinite ==
    ASSUME NEW S \in SUBSET Irp, NEW i \in Irp
    PROVE  /\ Cardinality(S) \in Nat
           /\ (Cardinality(S) = 0 <=> S = {})
           /\ i \notin S => Cardinality(S \cup {i}) = Cardinality(S) + 1
           /\ i \in S => Cardinality(S \ {i}) = Cardinality(S) - 1
<1>1. IsFiniteSet(S)
  BY DiskIoAssumption, FS_Subset
<1> QED BY <1>1, FS_AddElement, FS_RemoveElement, FS_EmptySet, FS_CardinalityType

-----------------------------------------------------------------------------
(* The dismount, and the threads it counts.                                *)

LEMMA CountsUp ==
    ASSUME IInv, NEW t \in Thread, IncrementDismountBlockCount(t)
    PROVE  IInv'
<1>1. /\ thread[t].pc = "count" /\ Goto(t, "check") /\ Locked(t)
      /\ volume' = [volume EXCEPT !.block = @ + 1]
      /\ UNCHANGED <<channelVars, irp, irpList, mutex>>
  BY DEF IncrementDismountBlockCount, At, Locked
<1>2. VolumeType /\ VolumeType'
  BY <1>1 DEF IInv, TransferInv, Types, VolumeType
<1>3. TransferInv'
  BY <1>1, <1>2, ThreadMoves DEF IInv
<1>4. /\ thread' = [thread EXCEPT ![t].pc = "check"]
      /\ \A u \in Thread : thread'[u].pc = IF u = t THEN "check" ELSE thread[u].pc
  BY <1>1, PlaceChanged DEF IInv, TransferInv
<1>5. /\ AtDisk' = AtDisk /\ Mine(t) \in Irp /\ Mine(t) \notin Counted
      /\ Counted' = Counted \cup {Mine(t)}
  BY <1>1, <1>4, CountedMoves DEF IInv
<1>6. Cardinality(Counted) \in Nat /\ Cardinality(Counted') = Cardinality(Counted) + 1
  <2>1. Counted \in SUBSET Irp
    BY DEF Counted, AtDisk
  <2> QED BY <1>5, <2>1, CountedFinite
<1>7. DismountOK'
  <2>1. Waiting' <=> Waiting
    BY <1>1, <1>4 DEF Waiting
  <2>2. volume'.block = Cardinality(Counted') - (IF Waiting' THEN 1 ELSE 0)
    BY <1>1, <1>2, <1>6, <2>1 DEF IInv, DismountOK, VolumeType
  <2>3. \A u \in Thread : Dismounting(u)' => Dismounting(u)
    BY <1>4 DEF Dismounting
  <2>4. \A u \in Thread : thread'[u].pc \in {"alone", "woken", "signal"}
                            => thread[u].pc \in {"alone", "woken", "signal"}
    BY <1>4
  <2>5. /\ volume'.dismounted = volume.dismounted /\ volume'.target = volume.target
        /\ volume'.event = volume.event /\ AtDisk' \subseteq AtDisk
    BY <1>1, <1>2, <1>5 DEF VolumeType
  <2> QED BY <2>2, <2>3, <2>4, <2>5, DismountKept DEF IInv
<1> QED BY <1>3, <1>7 DEF IInv

LEMMA BacksOutStep ==
    ASSUME IInv, NEW t \in Thread, BacksOut(t)
    PROVE  IInv'
<1>1. /\ thread[t].pc = "check" /\ Goto(t, "uncount") /\ Locked(t)
      /\ UNCHANGED <<channelVars, irp, irpList, mutex, volume>>
  BY DEF BacksOut, At, Locked
<1>2. TransferInv'
  BY <1>1, ThreadMoves DEF IInv, TransferInv, Types, VolumeType
<1>3. /\ thread' = [thread EXCEPT ![t].pc = "uncount"]
      /\ \A u \in Thread : thread'[u].pc = IF u = t THEN "uncount" ELSE thread[u].pc
  BY <1>1, PlaceChanged DEF IInv, TransferInv
<1>4. /\ AtDisk' = AtDisk /\ Mine(t) \in Counted
      /\ Counted' = Counted \cup {Mine(t)}
  BY <1>1, <1>3, CountedMoves DEF IInv
<1>5. DismountOK'
  <2>1. Counted' = Counted /\ AtDisk' \subseteq AtDisk
    BY <1>4
  <2>3. \A u \in Thread : Undisturbed(u)
    BY <1>1, <1>3 DEF Undisturbed, Concerned
  <2> QED BY <1>1, <2>1, <2>3, DismountFrame DEF IInv
<1> QED BY <1>2, <1>5 DEF IInv

(* The count goes down by one.  When it falls below zero a dismount waits  *)
(* and this was the last of the counted.                                   *)
LEMMA CountFalls ==
    ASSUME IInv, NEW i \in Counted, Counted' = Counted \ {i}, AtDisk' \subseteq AtDisk,
           Waiting' <=> Waiting, volume'.block = volume.block - 1,
           volume'.dismounted = volume.dismounted
    PROVE  /\ volume'.block = Cardinality(Counted') - (IF Waiting' THEN 1 ELSE 0)
           /\ Unblocks => Drained'
<1>1. /\ Cardinality(Counted) \in Nat /\ Cardinality(Counted') = Cardinality(Counted) - 1
      /\ Cardinality(Counted') \in Nat
      /\ Cardinality(Counted') = 0 => Counted' = {}
  <2>1. Counted \in SUBSET Irp /\ Counted' \in SUBSET Irp /\ i \in Irp
    BY DEF Counted, AtDisk
  <2> QED BY <2>1, CountedFinite
<1>2. volume.block = Cardinality(Counted) - (IF Waiting THEN 1 ELSE 0) /\ volume.block \in Int
  BY DEF IInv, DismountOK, TransferInv, Types, VolumeType
<1>3. volume'.block = Cardinality(Counted') - (IF Waiting' THEN 1 ELSE 0)
  BY <1>1, <1>2
<1>4. ASSUME Unblocks PROVE Drained'
  <2>1. Waiting /\ Counted' = {}
    BY <1>1, <1>2, <1>4 DEF Unblocks
  <2>2. volume.dismounted
    BY <2>1 DEF Waiting, Dismounting, IInv, DismountOK
  <2>3. AtDisk' \subseteq Counted'
    BY DEF Counted
  <2> QED BY <2>1, <2>2, <2>3 DEF Drained
<1> QED BY <1>3, <1>4

LEMMA DecrementStep ==
    ASSUME IInv, NEW t \in Thread, DecrementDismountBlockCount(t)
    PROVE  IInv'
<1> DEFINE to == IF Unblocks THEN "signal" ELSE "unlock"
<1>1. /\ thread[t].pc = "uncount" /\ Goto(t, to) /\ Locked(t)
      /\ volume' = [volume EXCEPT !.block = @ - 1]
      /\ UNCHANGED <<channelVars, irp, irpList, mutex>>
  BY DEF DecrementDismountBlockCount, At, Locked
<1>2. to \in {"signal", "unlock"} /\ (to = "signal" => Unblocks)
  OBVIOUS
<1> HIDE DEF to
<1>3. VolumeType /\ VolumeType'
  BY <1>1 DEF IInv, TransferInv, Types, VolumeType
<1>4. TransferInv'
  BY <1>1, <1>2, <1>3, ThreadMoves DEF IInv
<1>5. /\ thread' = [thread EXCEPT ![t].pc = to]
      /\ \A u \in Thread : thread'[u].pc = IF u = t THEN to ELSE thread[u].pc
  BY <1>1, PlaceChanged DEF IInv, TransferInv
<1>6. AtDisk' = AtDisk /\ Mine(t) \in Counted /\ Counted' = Counted \ {Mine(t)}
  BY <1>1, <1>2, <1>5, CountedMoves DEF IInv
<1>7. /\ volume'.block = volume.block - 1 /\ volume'.dismounted = volume.dismounted
      /\ volume'.target = volume.target /\ volume'.event = volume.event
  BY <1>1, <1>3 DEF VolumeType
<1>8. Waiting' <=> Waiting
  BY <1>1, <1>2, <1>5 DEF Waiting
<1>9. /\ volume'.block = Cardinality(Counted') - (IF Waiting' THEN 1 ELSE 0)
      /\ Unblocks => Drained'
  BY <1>6, <1>7, <1>8, CountFalls
<1>10. DismountOK'
  <2>1. \A u \in Thread : Dismounting(u)' => Dismounting(u)
    BY <1>2, <1>5 DEF Dismounting
  <2>2. \A u \in Thread : thread'[u].pc \in {"alone", "woken", "signal"}
                    => Drained' \/ thread[u].pc \in {"alone", "woken", "signal"}
    BY <1>2, <1>5, <1>9
  <2> QED BY <1>6, <1>7, <1>9, <2>1, <2>2, DismountKept DEF IInv
<1> QED BY <1>4, <1>10 DEF IInv

LEMMA SignalStep ==
    ASSUME IInv, NEW t \in Thread, SignalDismountUnblockEvent(t)
    PROVE  IInv'
<1>1. /\ thread[t].pc = "signal" /\ Goto(t, "unlock") /\ Locked(t)
      /\ volume' = Signaled
      /\ UNCHANGED <<channelVars, irp, irpList, mutex>>
  BY DEF SignalDismountUnblockEvent, At, Locked
<1>2. VolumeType /\ VolumeType'
  BY <1>1 DEF IInv, TransferInv, Types, VolumeType, Signaled
<1>3. TransferInv'
  BY <1>1, <1>2, ThreadMoves DEF IInv
<1>4. /\ thread' = [thread EXCEPT ![t].pc = "unlock"]
      /\ \A u \in Thread : thread'[u].pc = IF u = t THEN "unlock" ELSE thread[u].pc
      /\ \A u \in Thread : Mine(u)' = Mine(u)
  BY <1>1, PlaceChanged DEF IInv, TransferInv
<1>5. Counted' = Counted /\ AtDisk' = AtDisk
  BY <1>1, <1>4 DEF Counted, AtDisk
<1>6. /\ volume'.block = volume.block /\ volume'.dismounted = volume.dismounted
      /\ volume'.target = volume.target
      /\ volume'.event # volume.event => volume.event # "null"
  BY <1>1, <1>2 DEF VolumeType, Signaled
<1>7. Drained /\ Drained'
  BY <1>1, <1>5, <1>6 DEF IInv, DismountOK, Drained
<1>8. Waiting' <=> Waiting
  BY <1>1, <1>4 DEF Waiting
<1>9. volume'.block = Cardinality(Counted') - (IF Waiting' THEN 1 ELSE 0)
  BY <1>5, <1>6, <1>8 DEF IInv, DismountOK
<1>10. \A u \in Thread : Dismounting(u)' => Dismounting(u)
  BY <1>4 DEF Dismounting
<1>11. DismountOK'
  BY <1>5, <1>6, <1>7, <1>9, <1>10, DismountKept DEF IInv
<1> QED BY <1>3, <1>11 DEF IInv

(* Nobody else dismounts: the volume was not dismounted yet.               *)
LEMMA DismountBegins ==
    ASSUME IInv, NEW t \in Thread, DismountVolume(t)
    PROVE  IInv'
<1>1. /\ thread[t].pc = "idle" /\ Goto(t, "dismount") /\ ~volume.dismounted
      /\ volume' = [volume EXCEPT !.dismounted = TRUE]
      /\ UNCHANGED <<channelVars, irp, irpList, mutex>>
  BY DEF DismountVolume, At
<1>2. VolumeType /\ VolumeType'
  BY <1>1 DEF IInv, TransferInv, Types, VolumeType
<1>3. TransferInv'
  BY <1>1, <1>2, ThreadMoves DEF IInv
<1>4. /\ \A u \in Thread : thread'[u].pc = IF u = t THEN "dismount" ELSE thread[u].pc
      /\ \A u \in Thread : Mine(u)' = Mine(u)
  BY <1>1, PlaceChanged DEF IInv, TransferInv
<1>5. Counted' = Counted /\ AtDisk' = AtDisk
  BY <1>1, <1>4 DEF Counted, AtDisk
<1>6. /\ volume'.block = volume.block /\ volume'.dismounted
      /\ volume'.target = volume.target /\ volume'.event = volume.event
  BY <1>1, <1>2 DEF VolumeType
<1>7. ~Drained
  BY <1>1 DEF Drained
<1>8. /\ \A u \in Thread : ~Dismounting(u)
      /\ \A u \in Thread : thread[u].pc \notin {"alone", "woken", "signal"}
      /\ volume.target /\ volume.event # "set"
      /\ volume.block = Cardinality(Counted) - (IF Waiting THEN 1 ELSE 0)
  BY <1>1, <1>7 DEF IInv, DismountOK
<1>9. ~Waiting /\ ~Waiting'
  BY <1>4, <1>8 DEF Waiting, Dismounting
<1>10. DismountOK'
  <2>1. volume'.block = Cardinality(Counted') - (IF Waiting' THEN 1 ELSE 0)
    BY <1>5, <1>6, <1>8, <1>9
  <2>2. \A u \in Thread : Dismounting(u)' => u = t
    BY <1>4, <1>8 DEF Dismounting
  <2>3. \A u \in Thread : thread'[u].pc \notin {"alone", "woken", "signal"}
    BY <1>4, <1>8
  <2> QED BY <1>6, <1>8, <2>1, <2>2, <2>3 DEF DismountOK
<1> QED BY <1>3, <1>10 DEF IInv

(* The dismount waits for the counted, or there are none.                  *)
LEMMA DismountBlocksStep ==
    ASSUME IInv, NEW t \in Thread, DismountBlocks(t)
    PROVE  IInv'
<1> DEFINE to == IF Blocked THEN "blocked" ELSE "alone"
<1>1. /\ thread[t].pc = "dismount" /\ Goto(t, to)
      /\ volume' = [volume EXCEPT !.event = "reset", !.block = IF Blocked THEN @ - 1 ELSE @]
      /\ UNCHANGED <<channelVars, irp, irpList, mutex>>
  BY DEF DismountBlocks, At
<1>2. to \in {"blocked", "alone"} /\ (to = "blocked" <=> Blocked)
  OBVIOUS
<1> HIDE DEF to
<1>3. VolumeType /\ VolumeType'
  BY <1>1 DEF IInv, TransferInv, Types, VolumeType
<1>4. TransferInv'
  BY <1>1, <1>2, <1>3, ThreadMoves DEF IInv
<1>5. /\ \A u \in Thread : thread'[u].pc = IF u = t THEN to ELSE thread[u].pc
      /\ \A u \in Thread : Mine(u)' = Mine(u)
  BY <1>1, PlaceChanged DEF IInv, TransferInv
<1>6. Counted' = Counted /\ AtDisk' = AtDisk
  BY <1>1, <1>2, <1>5 DEF Counted, AtDisk
<1>7. /\ volume'.block = IF Blocked THEN volume.block - 1 ELSE volume.block
      /\ volume'.dismounted = volume.dismounted
      /\ volume'.target = volume.target /\ volume'.event = "reset"
  BY <1>1, <1>3 DEF VolumeType
<1>8. /\ volume.dismounted /\ volume.target
      /\ \A u \in Thread : Dismounting(u) => u = t
      /\ volume.block = Cardinality(Counted) - (IF Waiting THEN 1 ELSE 0)
  BY <1>1 DEF IInv, DismountOK, Dismounting
<1>9. ~Waiting
  BY <1>1, <1>8 DEF Waiting, Dismounting
<1>10. Waiting' <=> Blocked
  BY <1>2, <1>5, <1>9 DEF Waiting
<1>11. Cardinality(Counted) \in Nat /\ (Cardinality(Counted) = 0 => Counted = {})
  <2>1. Counted \in SUBSET Irp
    BY DEF Counted, AtDisk
  <2>2. CASE Counted = {}
    BY <2>2, FS_EmptySet
  <2>3. CASE Counted # {}
    BY <2>1, <2>3, CountedFinite
  <2> QED BY <2>2, <2>3
<1>12. ~Blocked => Drained'
  BY <1>6, <1>7, <1>8, <1>9, <1>11 DEF Blocked, Drained, Counted
<1>13. DismountOK'
  <2>1. volume'.block = Cardinality(Counted') - (IF Waiting' THEN 1 ELSE 0)
    BY <1>6, <1>7, <1>8, <1>9, <1>10, <1>11
  <2>2. \A u \in Thread : Dismounting(u)' => u = t
    BY <1>5, <1>8 DEF Dismounting
  <2>3. \A u \in Thread : thread'[u].pc \in {"alone", "woken", "signal"} => Drained'
    <3>1. Drained => Drained'
      BY <1>6, <1>7 DEF Drained
    <3> QED BY <1>2, <1>5, <1>12, <3>1 DEF IInv, DismountOK
  <2>4. volume'.dismounted /\ volume'.target
    BY <1>7, <1>8
  <2> QED BY <1>7, <2>1, <2>2, <2>3, <2>4 DEF DismountOK
<1> QED BY <1>4, <1>13 DEF IInv

LEMMA DismountUnblocksStep ==
    ASSUME IInv, NEW t \in Thread, DismountUnblocks(t)
    PROVE  IInv'
<1>1. /\ thread[t].pc = "blocked" /\ Goto(t, "woken") /\ volume.event = "set"
      /\ volume' = [volume EXCEPT !.event = "reset"]
      /\ UNCHANGED <<channelVars, irp, irpList, mutex>>
  BY DEF DismountUnblocks, At
<1>2. VolumeType /\ VolumeType'
  BY <1>1 DEF IInv, TransferInv, Types, VolumeType
<1>3. TransferInv'
  BY <1>1, <1>2, ThreadMoves DEF IInv
<1>4. /\ \A u \in Thread : thread'[u].pc = IF u = t THEN "woken" ELSE thread[u].pc
      /\ \A u \in Thread : Mine(u)' = Mine(u)
  BY <1>1, PlaceChanged DEF IInv, TransferInv
<1>5. Counted' = Counted /\ AtDisk' = AtDisk
  BY <1>1, <1>4 DEF Counted, AtDisk
<1>6. /\ volume'.block = volume.block /\ volume'.dismounted = volume.dismounted
      /\ volume'.target = volume.target /\ volume'.event = "reset"
  BY <1>1, <1>2 DEF VolumeType
<1>7. Drained'
  BY <1>1, <1>5, <1>6 DEF IInv, DismountOK, Drained
<1>8. Waiting /\ Waiting'
  BY <1>1, <1>4 DEF Waiting
<1>9. volume'.block = Cardinality(Counted') - (IF Waiting' THEN 1 ELSE 0)
  BY <1>5, <1>6, <1>8 DEF IInv, DismountOK
<1>10. \A u \in Thread : Dismounting(u)' => Dismounting(u)
  BY <1>1, <1>4 DEF Dismounting
<1>11. DismountOK'
  BY <1>1, <1>5, <1>6, <1>7, <1>9, <1>10, DismountKept DEF IInv
<1> QED BY <1>3, <1>11 DEF IInv

LEMMA DismountEndsStep ==
    ASSUME IInv, NEW t \in Thread, DismountEnds(t)
    PROVE  IInv'
<1>1. /\ thread[t].pc \in {"alone", "woken"} /\ Goto(t, "idle")
      /\ volume' = [volume EXCEPT !.event = "null", !.target = FALSE,
                       !.block = IF thread[t].pc = "woken" THEN @ + 1 ELSE @]
      /\ UNCHANGED <<channelVars, irp, irpList, mutex>>
  BY DEF DismountEnds, At
<1>2. VolumeType /\ VolumeType'
  BY <1>1 DEF IInv, TransferInv, Types, VolumeType
<1>3. TransferInv'
  BY <1>1, <1>2, ThreadMoves DEF IInv
<1>4. /\ \A u \in Thread : thread'[u].pc = IF u = t THEN "idle" ELSE thread[u].pc
      /\ \A u \in Thread : Mine(u)' = Mine(u)
  BY <1>1, PlaceChanged DEF IInv, TransferInv
<1>5. Counted' = Counted /\ AtDisk' = AtDisk
  BY <1>1, <1>4 DEF Counted, AtDisk
<1>6. /\ volume'.block = IF thread[t].pc = "woken" THEN volume.block + 1 ELSE volume.block
      /\ volume'.dismounted = volume.dismounted /\ volume'.event = "null"
  BY <1>1, <1>2 DEF VolumeType
<1>7. /\ Drained /\ \A u \in Thread : Dismounting(u) => u = t
      /\ volume.block = Cardinality(Counted) - (IF Waiting THEN 1 ELSE 0)
  BY <1>1 DEF IInv, DismountOK, Dismounting
<1>8. Drained'
  BY <1>5, <1>6, <1>7 DEF Drained
<1>9. (Waiting <=> thread[t].pc = "woken") /\ ~Waiting'
  BY <1>1, <1>4, <1>7 DEF Waiting, Dismounting
<1>10. DismountOK'
  <2>1. volume'.block = Cardinality(Counted') - (IF Waiting' THEN 1 ELSE 0)
    <3>1. Cardinality(Counted) \in Nat
      <4>1. Counted \in SUBSET Irp
        BY DEF Counted, AtDisk
      <4> QED BY <4>1, DiskIoAssumption, FS_Subset, FS_CardinalityType
    <3> QED BY <1>5, <1>6, <1>7, <1>9, <3>1
  <2>2. \A u \in Thread : ~Dismounting(u)'
    BY <1>4, <1>7 DEF Dismounting
  <2> QED BY <1>6, <1>8, <2>1, <2>2 DEF DismountOK
<1> QED BY <1>3, <1>10 DEF IInv

LEMMA ThreadEndsStep ==
    ASSUME IInv, NEW t \in Thread, ThreadEnds(t)
    PROVE  IInv'
<1>1. /\ thread[t].pc = "cancel" /\ irpList[t] = <<>> /\ Goto(t, "ended")
      /\ UNCHANGED <<channelVars, irp, irpList, mutex, volume>>
  BY DEF ThreadEnds, At
<1>2. TransferInv'
  BY <1>1, ThreadMoves DEF IInv, TransferInv, Types, VolumeType
<1>3. /\ \A u \in Thread : thread'[u].pc = IF u = t THEN "ended" ELSE thread[u].pc
      /\ \A u \in Thread : Mine(u)' = Mine(u)
  BY <1>1, PlaceChanged DEF IInv, TransferInv
<1>4. Counted' = Counted /\ AtDisk' = AtDisk
  BY <1>1, <1>3 DEF Counted, AtDisk
<1>5. \A u \in Thread : Undisturbed(u)
  BY <1>1, <1>3 DEF Undisturbed, Concerned
<1> QED BY <1>1, <1>2, <1>4, <1>5, DismountFrame DEF IInv

-----------------------------------------------------------------------------
(* Requests: their owners, their states, and the file mutex.               *)

(* One more owner of the mutex, or one less, with its request.             *)
LEMMA MoreUnderWay ==
    ASSUME Types, Types', MutexOK, NEW i \in Irp, i \notin UnderWay, Grantable(i),
           mutex' = Owned(i, 1), UnderWay' = UnderWay \cup {i},
           \A j \in Irp : irp'[j].writes = irp[j].writes
    PROVE  MutexOK'
<1>1. \A b : Owners(b)' = IF b = irp[i].writes THEN Owners(b) \cup {i} ELSE Owners(b)
  BY DEF Owners, UnderWay
<1>2. irp[i].writes \in BOOLEAN /\ mutex.readers \in Int /\ mutex.writers \in Int
  BY DEF Types, IrpType, MutexType
<1>3. \A b \in BOOLEAN : Owners(b) \in SUBSET Irp /\ i \notin Owners(b)
  BY DEF Owners, UnderWay
<1>4. UnderWay = Owners(TRUE) \cup Owners(FALSE)
  BY DEF Owners, UnderWay, Types, IrpType
<1>5. CASE irp[i].writes
  <2>1. /\ mutex.readers = 0 /\ mutex.writers = 0
        /\ mutex'.readers = 0 /\ mutex'.writers = 1
    BY <1>2, <1>5 DEF Owned, Types, MutexType, Grantable
  <2>2. Owners(TRUE) = {} /\ Owners(FALSE) = {}
    BY <1>3, <2>1, CountedFinite DEF MutexOK
  <2>3. /\ Cardinality({i}) = 1 /\ Cardinality({}) = 0
        /\ Owners(TRUE)' = {i} /\ Owners(FALSE)' = {} /\ UnderWay' = {i}
    BY <1>1, <1>4, <1>5, <2>2, FS_Singleton, FS_EmptySet
  <2>4. mutex'.readers = Cardinality(Owners(FALSE)')
    BY <2>1, <2>3
  <2>5. mutex'.writers = Cardinality(Owners(TRUE)')
    BY <2>1, <2>3
  <2>6. \A j \in Owners(TRUE)' : UnderWay' = {j}
    BY <2>3
  <2> QED BY <2>4, <2>5, <2>6 DEF MutexOK
<1>6. CASE ~irp[i].writes
  <2>1. /\ mutex'.writers = mutex.writers /\ mutex'.readers = mutex.readers + 1
        /\ mutex.writers = 0
    BY <1>2, <1>6 DEF Owned, Types, MutexType, Grantable
  <2>2. Owners(TRUE) = {} /\ Owners(TRUE)' = Owners(TRUE)
        /\ Owners(FALSE)' = Owners(FALSE) \cup {i}
    BY <1>1, <1>2, <1>3, <1>6, <2>1, CountedFinite DEF MutexOK
  <2>3. Cardinality(Owners(FALSE)') = Cardinality(Owners(FALSE)) + 1
    <3>1. Owners(FALSE) \in SUBSET Irp /\ i \notin Owners(FALSE)
      BY <1>3
    <3>2. Cardinality(Owners(FALSE) \cup {i}) = Cardinality(Owners(FALSE)) + 1
      BY <3>1, CountedFinite
    <3> QED BY <2>2, <3>2
  <2>4. mutex'.readers = Cardinality(Owners(FALSE)')
    BY <2>1, <2>3 DEF MutexOK
  <2>5. mutex'.writers = Cardinality(Owners(TRUE)') /\ Owners(TRUE)' = {}
    BY <2>1, <2>2 DEF MutexOK
  <2> QED BY <2>4, <2>5 DEF MutexOK
<1> QED BY <1>5, <1>6

LEMMA FewerUnderWay ==
    ASSUME Types, MutexOK, NEW i \in UnderWay,
           mutex' = Owned(i, -1), UnderWay' = UnderWay \ {i},
           \A j \in Irp : j # i => irp'[j].writes = irp[j].writes
    PROVE  MutexOK'
<1>1. \A b : Owners(b)' = Owners(b) \ {i}
  BY DEF Owners, UnderWay
<1>2. /\ irp[i].writes \in BOOLEAN /\ mutex.readers \in Int /\ mutex.writers \in Int
      /\ i \in Irp /\ i \in Owners(irp[i].writes)
  BY DEF Types, IrpType, MutexType, Owners, UnderWay
<1>3. \A b \in BOOLEAN : Owners(b) \in SUBSET Irp
  BY DEF Owners, UnderWay
<1>4. \A b \in BOOLEAN : Cardinality(Owners(b) \ {i}) =
                         IF b = irp[i].writes THEN Cardinality(Owners(b)) - 1
                         ELSE Cardinality(Owners(b))
  <2> TAKE b \in BOOLEAN
  <2>1. CASE b = irp[i].writes
    BY <1>2, <1>3, <2>1, CountedFinite
  <2>2. CASE b # irp[i].writes
    <3>1. i \notin Owners(b)
      BY <2>2 DEF Owners
    <3>2. Owners(b) \ {i} = Owners(b)
      BY <3>1
    <3> QED BY <2>2, <3>2
  <2> QED BY <2>1, <2>2
<1>5. \A j \in Owners(TRUE)' : UnderWay' = {j}
  BY <1>1, <1>2 DEF MutexOK
<1>6. mutex'.readers = Cardinality(Owners(FALSE)') /\ mutex'.writers = Cardinality(Owners(TRUE)')
  <2>1. mutex.readers = Cardinality(Owners(FALSE)) /\ mutex.writers = Cardinality(Owners(TRUE))
    BY DEF MutexOK
  <2>2. /\ mutex'.readers = IF irp[i].writes THEN mutex.readers ELSE mutex.readers - 1
        /\ mutex'.writers = IF irp[i].writes THEN mutex.writers - 1 ELSE mutex.writers
    BY <1>2 DEF Owned, Types, MutexType
  <2>3. /\ mutex'.readers = Cardinality(Owners(FALSE) \ {i})
        /\ mutex'.writers = Cardinality(Owners(TRUE) \ {i})
    BY <1>2, <1>4, <2>1, <2>2
  <2> QED BY <1>1, <2>3
<1> QED BY <1>5, <1>6 DEF MutexOK

LEMMA AcquireStep ==
    ASSUME IInv, NEW t \in Thread, AcquireFileMutex(t)
    PROVE  IInv'
<1> DEFINE i == Mine(t)
<1>1. /\ thread[t].pc = "lock" /\ Goto(t, "count") /\ Grantable(i)
      /\ mutex' = Owned(i, 1)
      /\ irp' = [irp EXCEPT ![i].state = "locked"]
      /\ UNCHANGED <<channelVars, irpList, volume>>
  BY DEF AcquireFileMutex, At
<1>2. i \in Irp /\ irp[i].state = "issued"
  BY <1>1 DEF IInv, TransferInv, CallsOK
<1> HIDE DEF i
<1>3. /\ thread' = [thread EXCEPT ![t].pc = "count"]
      /\ \A u \in Thread : thread'[u].pc = IF u = t THEN "count" ELSE thread[u].pc
      /\ \A u \in Thread : Mine(u)' = Mine(u)
  BY <1>1, PlaceChanged DEF IInv, TransferInv
<1>4. \A j \in Irp : /\ irp'[j].owner = irp[j].owner /\ irp'[j].writes = irp[j].writes
                    /\ irp'[j].state = IF j = i THEN "locked" ELSE irp[j].state
  BY <1>1, <1>2 DEF IInv, TransferInv, Types, IrpType
<1>5. Types'
  <2>1. IrpType'
    BY <1>1, <1>2 DEF IInv, TransferInv, Types, IrpType
  <2>2. ThreadType'
    BY <1>3 DEF IInv, TransferInv, Types, ThreadType
  <2>3. MutexType'
    <3>1. irp[i].writes \in BOOLEAN /\ mutex \in [readers : Int, writers : Int]
      BY <1>2 DEF IInv, TransferInv, Types, IrpType, MutexType
    <3> QED BY <1>1, <3>1 DEF Owned, MutexType
  <2> QED BY <1>1, <2>1, <2>2, <2>3 DEF IInv, TransferInv, Types, VolumeType
<1>6. ChannelInv' /\ QueueOK'
  BY <1>1, <1>2, <1>4, ChannelFrame, QueueFrame DEF IInv, TransferInv, channelVars
<1>7. OwnersOK' /\ FreeOK'
  <2>1. OwnersOK'
    BY <1>1, <1>3, <1>4, OwnersFrame DEF IInv, TransferInv
  <2>2. FreeOK'
    BY <1>4 DEF IInv, TransferInv, FreeOK
  <2> QED BY <2>1, <2>2
<1>8. CallsOK'
  <2>1. \A u \in Thread : Asking(u)' => Asking(u)
    BY <1>1, <1>3 DEF Asking, Locked
  <2>2. \A u \in Thread : u # t /\ Asking(u) => Mine(u) # i
    BY <1>1 DEF IInv, TransferInv, CallsOK, Asking, i
  <2>3. \A u \in Thread : u # t /\ thread'[u].pc = "lock"
            => Mine(u)' \in Irp /\ irp'[Mine(u)'].state = "issued"
    BY <1>3, <1>4, <2>2 DEF IInv, TransferInv, CallsOK, Asking
  <2>4. \A u \in Thread : u # t /\ Locked(u)'
            => Mine(u)' \in Irp /\ irp'[Mine(u)'].state = "locked"
    BY <1>3, <1>4, <2>2 DEF IInv, TransferInv, CallsOK, Asking, Locked
  <2>5. Mine(t)' = i /\ irp'[i].state = "locked" /\ thread'[t].pc = "count"
    BY <1>2, <1>3, <1>4 DEF i
  <2>6. \A u, v \in Thread : Asking(u)' /\ Asking(v)' /\ Mine(u)' = Mine(v)' => u = v
    BY <1>3, <2>1 DEF IInv, TransferInv, CallsOK
  <2> QED BY <1>2, <2>3, <2>4, <2>5, <2>6 DEF CallsOK
<1>9. MutexOK'
  <2>1. UnderWay' = UnderWay \cup {i} /\ i \notin UnderWay
    BY <1>2, <1>4 DEF UnderWay
  <2> QED BY <1>1, <1>2, <1>4, <1>5, <2>1, MoreUnderWay DEF IInv, TransferInv
<1>10. DismountOK'
  <2>1. AtDisk' = AtDisk
    BY <1>2, <1>4 DEF AtDisk
  <2>2. Counted' = Counted
    BY <1>1, <1>3, <2>1 DEF Counted
  <2>3. \A u \in Thread : Undisturbed(u)
    BY <1>1, <1>3 DEF Undisturbed, Concerned
  <2> QED BY <1>1, <2>1, <2>2, <2>3, DismountFrame DEF IInv
<1> QED BY <1>5, <1>6, <1>7, <1>8, <1>9, <1>10 DEF IInv, TransferInv

LEMMA ReleaseStep ==
    ASSUME IInv, NEW t \in Thread, ReleaseFileMutex(t)
    PROVE  IInv'
<1> DEFINE i == Mine(t)
<1>1. /\ thread[t].pc = "unlock" /\ Locked(t) /\ Back(t)
      /\ mutex' = Owned(i, -1)
      /\ irp' = [irp EXCEPT ![i].state = "apc"]
      /\ UNCHANGED <<channelVars, irpList, volume>>
  BY DEF ReleaseFileMutex, At, Locked
<1>2. i \in Irp /\ irp[i].state = "locked"
  BY <1>1 DEF IInv, TransferInv, CallsOK
<1> HIDE DEF i
<1>3. /\ thread' \in [Thread -> [pc : {"idle", "lock", "count", "check", "uncount", "signal",
                                 "unlock", "dismount", "blocked", "alone", "woken",
                                 "cancel", "ended"}, irp : Irp \cup {NoIrp}]]
      /\ \A u \in Thread : thread'[u] = IF u = t THEN [pc |-> "idle", irp |-> NoIrp]
                                                ELSE thread[u]
  BY <1>1 DEF Back, IInv, TransferInv, Types, ThreadType
<1>4. \A j \in Irp : /\ irp'[j].owner = irp[j].owner /\ irp'[j].writes = irp[j].writes
                    /\ irp'[j].state = IF j = i THEN "apc" ELSE irp[j].state
  BY <1>1, <1>2 DEF IInv, TransferInv, Types, IrpType
<1>5. Types'
  <2>1. IrpType'
    BY <1>1, <1>2 DEF IInv, TransferInv, Types, IrpType
  <2>2. ThreadType'
    BY <1>3 DEF ThreadType
  <2>3. MutexType'
    <3>1. irp[i].writes \in BOOLEAN /\ mutex \in [readers : Int, writers : Int]
      BY <1>2 DEF IInv, TransferInv, Types, IrpType, MutexType
    <3> QED BY <1>1, <3>1 DEF Owned, MutexType
  <2> QED BY <1>1, <2>1, <2>2, <2>3 DEF IInv, TransferInv, Types, VolumeType
<1>6. ChannelInv' /\ QueueOK'
  BY <1>1, <1>2, <1>4, ChannelFrame, QueueFrame DEF IInv, TransferInv, channelVars
<1>7. OwnersOK' /\ FreeOK'
  <2>1. OwnersOK'
    BY <1>1, <1>3, <1>4, OwnersFrame DEF IInv, TransferInv
  <2>2. FreeOK'
    BY <1>4 DEF IInv, TransferInv, FreeOK
  <2> QED BY <2>1, <2>2
<1>8. CallsOK'
  <2>1. \A u \in Thread : Asking(u)' => Asking(u) /\ u # t /\ Mine(u)' = Mine(u) /\ Mine(u) # i
    BY <1>1, <1>3 DEF IInv, TransferInv, CallsOK, Asking, Locked, Mine, i
  <2>2. \A u \in Thread : thread'[u].pc = "lock"
            => Mine(u)' \in Irp /\ irp'[Mine(u)'].state = "issued"
    BY <1>3, <1>4, <2>1 DEF IInv, TransferInv, CallsOK, Asking
  <2>3. \A u \in Thread : Locked(u)'
            => Mine(u)' \in Irp /\ irp'[Mine(u)'].state = "locked"
    BY <1>3, <1>4, <2>1 DEF IInv, TransferInv, CallsOK, Asking, Locked
  <2>4. \A u, v \in Thread : Asking(u)' /\ Asking(v)' /\ Mine(u)' = Mine(v)' => u = v
    BY <2>1 DEF IInv, TransferInv, CallsOK
  <2> QED BY <2>2, <2>3, <2>4 DEF CallsOK
<1>9. MutexOK'
  <2>1. UnderWay' = UnderWay \ {i} /\ i \in UnderWay
    BY <1>2, <1>4 DEF UnderWay
  <2> QED BY <1>1, <1>2, <1>4, <2>1, FewerUnderWay DEF IInv, TransferInv
<1>10. DismountOK'
  <2>1. AtDisk' = AtDisk
    BY <1>2, <1>4 DEF AtDisk
  <2>2. \A u \in Thread : u # t => Mine(u)' = Mine(u) /\ thread'[u].pc = thread[u].pc
    BY <1>3 DEF Mine
  <2>3. Counted' = Counted
    BY <1>1, <1>3, <2>1, <2>2 DEF Counted
  <2>4. \A u \in Thread : Undisturbed(u)
    BY <1>1, <1>3 DEF Undisturbed, Concerned
  <2> QED BY <1>1, <2>1, <2>3, <2>4, DismountFrame DEF IInv
<1> QED BY <1>5, <1>6, <1>7, <1>8, <1>9, <1>10 DEF IInv, TransferInv

(* A list and the owner field of one request change together.              *)
LEMMA ListChanges ==
    ASSUME Types, OwnersOK, NEW t \in Thread, NEW i \in Irp, NEW s \in Seq(Irp), IsInjective(s),
           irpList' = [irpList EXCEPT ![t] = s],
           \A j \in Irp : j # i => irp'[j].owner = irp[j].owner,
           \/ irp'[i].owner = t /\ irp[i].owner = NoThread /\ Range(s) = Range(irpList[t]) \cup {i}
           \/ irp'[i].owner = NoThread /\ irp[i].owner = t /\ Range(s) = Range(irpList[t]) \ {i},
           thread[t].pc # "ended",
           \A u \in Thread : thread'[u].pc = "ended" <=> thread[u].pc = "ended"
    PROVE  irpList' \in [Thread -> Seq(Irp)] /\ OwnersOK'
<1>1. /\ irpList' \in [Thread -> Seq(Irp)] /\ irpList'[t] = s
      /\ \A u \in Thread : u # t => irpList'[u] = irpList[u]
  BY DEF Types
<1>2. \A j \in Irp : irp'[j].owner = t <=> j \in Range(s)
  BY DiskIoAssumption DEF OwnersOK
<1>3. \A u \in Thread : u # t => \A j \in Irp : irp'[j].owner = u <=> irp[j].owner = u
  BY DiskIoAssumption
<1> QED BY <1>1, <1>2, <1>3 DEF OwnersOK

(* A step that leaves the transfers under way, and the threads that are    *)
(* counted or dismount, as they are.                                       *)
LEMMA UnderWayKept ==
    ASSUME IInv, UNCHANGED <<channelVars, mutex, volume>>,
           \A j \in Irp : \/ irp'[j].state = irp[j].state /\ irp'[j].writes = irp[j].writes
                         \/ {irp[j].state, irp'[j].state} \cap {"locked", "disk"} = {},
           \A u \in Thread : \/ thread'[u] = thread[u]
                            \/ {thread[u].pc, thread'[u].pc} \cap
                                    (Concerned \cup {"check", "uncount"}) = {}
    PROVE  ChannelInv' /\ QueueOK' /\ MutexOK' /\ DismountOK'
<1>1. ChannelInv' /\ QueueOK' /\ MutexOK'
  BY ChannelFrame, QueueFrame, MutexFrame DEF IInv, TransferInv, channelVars
<1>2. AtDisk' = AtDisk
  BY DEF AtDisk
<1>3. \A u \in Thread : /\ thread'[u].pc \in {"check", "uncount"}
                              <=> thread[u].pc \in {"check", "uncount"}
                       /\ thread[u].pc \in {"check", "uncount"} => Mine(u)' = Mine(u)
  BY DEF Mine
<1>4. Counted' = Counted
  BY <1>2, <1>3 DEF Counted
<1>5. \A u \in Thread : Undisturbed(u)
  BY DEF Undisturbed
<1>6. DismountOK'
  BY <1>2, <1>4, <1>5, DismountFrame DEF IInv
<1> QED BY <1>1, <1>6

LEMMA CallBegins ==
    ASSUME IInv, NEW t \in Thread, NtReadWriteFile(t)
    PROVE  IInv'
<1>1. PICK i \in Irp, writes \in BOOLEAN, parts \in 1..MaxTransfers :
        /\ irp[i].state = "free"
        /\ irp' = [irp EXCEPT ![i] = [state |-> "issued", owner |-> t, cancel |-> FALSE,
                                      parts |-> parts, writes |-> writes]]
        /\ irpList' = [irpList EXCEPT ![t] = <<i>> \o @]
        /\ thread' = [thread EXCEPT ![t] = [pc |-> "lock", irp |-> i]]
  <2> DEFINE i == CHOOSE j \in Irp : irp[j].state = "free"
  <2>1. i \in Irp /\ irp[i].state = "free"
    BY DEF NtReadWriteFile
  <2> QED BY <2>1 DEF NtReadWriteFile
<1>2. thread[t].pc = "idle" /\ UNCHANGED <<channelVars, mutex, volume>>
  BY DEF NtReadWriteFile, At
<1>3. /\ irp' \in [Irp -> [state : {"free", "issued", "locked", "disk", "apc"},
                        owner : Thread \cup {NoThread}, cancel : BOOLEAN,
                        parts : Int, writes : BOOLEAN]]
      /\ irp'[i].state = "issued" /\ irp'[i].owner = t
      /\ \A j \in Irp : j # i => irp'[j] = irp[j]
  BY <1>1, DiskIoAssumption DEF IInv, TransferInv, Types, IrpType
<1>4. /\ ThreadType'
      /\ thread'[t].pc = "lock" /\ Mine(t)' = i
      /\ \A u \in Thread : u # t => thread'[u] = thread[u]
  BY <1>1 DEF IInv, TransferInv, Types, ThreadType, Mine
<1>5. irpList' \in [Thread -> Seq(Irp)] /\ OwnersOK'
  <2> DEFINE s == <<i>> \o irpList[t]
  <2>1. irp[i].owner = NoThread
    BY <1>1 DEF IInv, TransferInv, FreeOK
  <2>2. irpList[t] \in Seq(Irp) /\ IsInjective(irpList[t]) /\ i \notin Range(irpList[t])
    BY <2>1, DiskIoAssumption DEF IInv, TransferInv, OwnersOK
  <2>3. s \in Seq(Irp) /\ IsInjective(s) /\ Range(s) = Range(irpList[t]) \cup {i}
    BY <2>2, PrependLinks
  <2>4. irpList' = [irpList EXCEPT ![t] = s]
    BY <1>1
  <2> HIDE DEF s
  <2>5. \A u \in Thread : thread'[u].pc = "ended" <=> thread[u].pc = "ended"
    BY <1>2, <1>4
  <2>6. \A j \in Irp : j # i => irp'[j].owner = irp[j].owner
    BY <1>3
  <2>7. irp'[i].owner = t /\ irp[i].owner = NoThread /\ thread[t].pc # "ended"
    BY <1>2, <1>3, <2>1
  <2> QED BY <2>3, <2>4, <2>5, <2>6, <2>7, ListChanges DEF IInv, TransferInv
<1>6. Types'
  BY <1>2, <1>3, <1>4, <1>5 DEF IInv, TransferInv, Types, IrpType, MutexType, VolumeType
<1>7. FreeOK'
  BY <1>3 DEF IInv, TransferInv, FreeOK
<1>8. CallsOK'
  <2>1. \A u \in Thread : Asking(u) => Mine(u) \in Irp /\ Mine(u) # i /\ u # t
    BY <1>1, <1>2 DEF IInv, TransferInv, CallsOK, Asking, Locked
  <2>2. \A u \in Thread : u # t => thread'[u].pc = thread[u].pc /\ Mine(u)' = Mine(u)
    BY <1>4 DEF Mine
  <2>3. \A u \in Thread : thread'[u].pc = "lock"
            => Mine(u)' \in Irp /\ irp'[Mine(u)'].state = "issued"
    BY <1>3, <1>4, <2>1, <2>2 DEF IInv, TransferInv, CallsOK, Asking
  <2>4. \A u \in Thread : Locked(u)' => Mine(u)' \in Irp /\ irp'[Mine(u)'].state = "locked"
    BY <1>3, <1>4, <2>1, <2>2 DEF IInv, TransferInv, CallsOK, Asking, Locked
  <2>5. \A u, v \in Thread : Asking(u)' /\ Asking(v)' /\ Mine(u)' = Mine(v)' => u = v
    BY <1>4, <2>1, <2>2 DEF IInv, TransferInv, CallsOK, Asking, Locked
  <2> QED BY <2>3, <2>4, <2>5 DEF CallsOK
<1>9. ChannelInv' /\ QueueOK' /\ MutexOK' /\ DismountOK'
  <2>1. \A u \in Thread : \/ thread'[u] = thread[u]
                         \/ {thread[u].pc, thread'[u].pc} \cap
                                    (Concerned \cup {"check", "uncount"}) = {}
    BY <1>2, <1>4 DEF Concerned
  <2> QED BY <1>1, <1>2, <1>3, <2>1, UnderWayKept
<1> QED BY <1>5, <1>6, <1>7, <1>8, <1>9 DEF IInv, TransferInv

(* Whose state stays keep what relates requests to their calls.            *)
LEMMA CallsFrame ==
    ASSUME CallsOK, UNCHANGED thread,
           \A j \in Irp : irp[j].state \in {"issued", "locked"} => irp'[j].state = irp[j].state
    PROVE  CallsOK'
<1>1. \A u \in Thread : /\ Mine(u)' = Mine(u) /\ (Locked(u)' <=> Locked(u))
                       /\ (Asking(u)' <=> Asking(u))
  BY DEF Mine, Locked, Asking
<1> QED BY <1>1 DEF CallsOK

LEMMA ApcRuns ==
    ASSUME IInv, NEW i \in Irp, IopCompleteRequest(i)
    PROVE  IInv'
<1> DEFINE t == irp[i].owner
           s == Unlink(irpList[t], i)
<1>1. /\ irp[i].state = "apc" /\ t \in Thread /\ thread[t].pc # "ended"
      /\ irpList' = [irpList EXCEPT ![t] = s]
      /\ irp' = [irp EXCEPT ![i] = FreeIrp]
      /\ UNCHANGED <<channelVars, thread, mutex, volume>>
  BY DEF IopCompleteRequest, IInv, TransferInv, Types, IrpType
<1>2. s \in Seq(Irp) /\ IsInjective(s) /\ Range(s) = Range(irpList[t]) \ {i}
  BY <1>1, UnlinkProperties DEF IInv, TransferInv, OwnersOK
<1> HIDE DEF s
<1>3. /\ irp' \in [Irp -> [state : {"free", "issued", "locked", "disk", "apc"},
                        owner : Thread \cup {NoThread}, cancel : BOOLEAN,
                        parts : Int, writes : BOOLEAN]]
      /\ irp'[i].state = "free" /\ irp'[i].owner = NoThread
      /\ \A j \in Irp : j # i => irp'[j] = irp[j]
  BY <1>1, DiskIoAssumption DEF IInv, TransferInv, Types, IrpType, FreeIrp
<1>4. t \in Thread
  BY <1>1
<1>5. irpList' \in [Thread -> Seq(Irp)] /\ OwnersOK'
  <2>1. irp[i].owner = t
    OBVIOUS
  <2> HIDE DEF t
  <2>2. \A j \in Irp : j # i => irp'[j].owner = irp[j].owner
    BY <1>3
  <2>3. Types /\ OwnersOK
    BY DEF IInv, TransferInv
  <2>4. \A u \in Thread : thread'[u].pc = "ended" <=> thread[u].pc = "ended"
    BY <1>1
  <2>5. irpList' = [irpList EXCEPT ![t] = s] /\ thread[t].pc # "ended"
    BY <1>1
  <2>6. irp'[i].owner = NoThread /\ irp[i].owner = t /\ Range(s) = Range(irpList[t]) \ {i}
    BY <1>2, <1>3, <2>1
  <2>7. s \in Seq(Irp) /\ IsInjective(s)
    BY <1>2
  <2> QED BY <1>4, <2>2, <2>3, <2>4, <2>5, <2>6, <2>7, ListChanges
<1>6. Types'
  BY <1>1, <1>3, <1>5 DEF IInv, TransferInv, Types, IrpType, ThreadType, MutexType, VolumeType
<1>7. FreeOK' /\ CallsOK'
  <2>1. FreeOK'
    BY <1>3 DEF IInv, TransferInv, FreeOK
  <2>2. CallsOK'
    BY <1>1, <1>3, CallsFrame DEF IInv, TransferInv
  <2> QED BY <2>1, <2>2
<1>8. ChannelInv' /\ QueueOK' /\ MutexOK' /\ DismountOK'
  BY <1>1, <1>3, UnderWayKept
<1> QED BY <1>5, <1>6, <1>7, <1>8 DEF IInv, TransferInv

LEMMA CancelStep ==
    ASSUME IInv, NEW t \in Thread, IoCancelThreadIo(t)
    PROVE  IInv'
<1>1. /\ thread[t].pc = "idle" /\ Goto(t, "cancel")
      /\ irp' = [i \in Irp |-> IF i \in Range(irpList[t])
                               THEN [irp[i] EXCEPT !.cancel = TRUE] ELSE irp[i]]
      /\ UNCHANGED <<channelVars, irpList, mutex, volume>>
  BY DEF IoCancelThreadIo, At
<1>2. /\ IrpType'
      /\ \A j \in Irp : /\ irp'[j].state = irp[j].state /\ irp'[j].writes = irp[j].writes
                        /\ irp'[j].owner = irp[j].owner
  BY <1>1 DEF IInv, TransferInv, Types, IrpType
<1>3. /\ ThreadType'
      /\ thread'[t].pc = "cancel" /\ \A u \in Thread : u # t => thread'[u] = thread[u]
      /\ \A u \in Thread : Mine(u)' = Mine(u)
  BY <1>1 DEF Goto, IInv, TransferInv, Types, ThreadType, Mine
<1>4. Types'
  BY <1>1, <1>2, <1>3 DEF IInv, TransferInv, Types, MutexType, VolumeType
<1>5. OwnersOK' /\ FreeOK'
  <2>1. OwnersOK'
    BY <1>1, <1>2, <1>3, OwnersFrame DEF IInv, TransferInv
  <2>2. FreeOK'
    BY <1>2 DEF IInv, TransferInv, FreeOK
  <2> QED BY <2>1, <2>2
<1>6. CallsOK'
  <2>1. \A u \in Thread : Locked(u)' => Locked(u)
    BY <1>3 DEF Locked
  <2>2. \A u \in Thread : thread'[u].pc = "lock" => thread[u].pc = "lock"
    BY <1>3
  <2> QED BY <1>2, <1>3, <2>1, <2>2 DEF IInv, TransferInv, CallsOK, Asking
<1>7. ChannelInv' /\ QueueOK' /\ MutexOK' /\ DismountOK'
  <2>1. \A u \in Thread : \/ thread'[u] = thread[u]
                         \/ {thread[u].pc, thread'[u].pc} \cap
                                    (Concerned \cup {"check", "uncount"}) = {}
    BY <1>1, <1>3 DEF Concerned
  <2> QED BY <1>1, <1>2, <2>1, UnderWayKept
<1> QED BY <1>4, <1>5, <1>6, <1>7 DEF IInv, TransferInv

LEMMA DisassociateStep ==
    ASSUME IInv, NEW t \in Thread, IopDisassociateThreadIrp(t)
    PROVE  IInv'
<1> DEFINE i == Head(irpList[t])
           s == Tail(irpList[t])
<1>1. /\ thread[t].pc = "cancel" /\ irpList[t] # <<>>
      /\ irp' = [irp EXCEPT ![i].owner = NoThread]
      /\ irpList' = [irpList EXCEPT ![t] = s]
      /\ UNCHANGED <<channelVars, thread, mutex, volume>>
  BY DEF IopDisassociateThreadIrp, At
<1>2. /\ i \in Irp /\ i \in Range(irpList[t])
      /\ s \in Seq(Irp) /\ IsInjective(s) /\ Range(s) = Range(irpList[t]) \ {i}
  BY <1>1, TailScans DEF IInv, TransferInv, OwnersOK
<1> HIDE DEF i, s
<1>3. irp[i].owner = t
  BY <1>2 DEF IInv, TransferInv, OwnersOK
<1>4. /\ IrpType' /\ irp'[i].owner = NoThread
      /\ \A j \in Irp : /\ irp'[j].state = irp[j].state /\ irp'[j].writes = irp[j].writes
                        /\ j # i => irp'[j].owner = irp[j].owner
  <2>1. IrpType
    BY DEF IInv, TransferInv, Types
  <2>2. IrpType'
    BY <1>1, <1>2, <2>1 DEF IrpType
  <2>3. irp'[i].owner = NoThread /\ irp'[i].state = irp[i].state /\ irp'[i].writes = irp[i].writes
    BY <1>1, <1>2, <2>1 DEF IrpType
  <2>4. \A j \in Irp : j # i => irp'[j] = irp[j]
    BY <1>1, <1>2, <2>1 DEF IrpType
  <2> QED BY <2>2, <2>3, <2>4
<1>5. irpList' \in [Thread -> Seq(Irp)] /\ OwnersOK'
  <2>1. Types /\ OwnersOK
    BY DEF IInv, TransferInv
  <2>2. \A u \in Thread : thread'[u].pc = "ended" <=> thread[u].pc = "ended"
    BY <1>1
  <2>3. thread[t].pc # "ended" /\ \A j \in Irp : j # i => irp'[j].owner = irp[j].owner
    BY <1>1, <1>4
  <2> QED BY <1>1, <1>2, <1>3, <1>4, <2>1, <2>2, <2>3, ListChanges
<1>6. Types'
  BY <1>1, <1>4, <1>5 DEF IInv, TransferInv, Types, ThreadType, MutexType, VolumeType
<1>7. FreeOK' /\ CallsOK'
  <2>1. FreeOK'
    BY <1>4 DEF IInv, TransferInv, FreeOK
  <2>2. CallsOK'
    BY <1>1, <1>4, CallsFrame DEF IInv, TransferInv
  <2> QED BY <2>1, <2>2
<1>8. ChannelInv' /\ QueueOK' /\ MutexOK' /\ DismountOK'
  BY <1>1, <1>4, UnderWayKept
<1> QED BY <1>5, <1>6, <1>7, <1>8 DEF IInv, TransferInv

-----------------------------------------------------------------------------
(* Transfers.                                                              *)

(* The first part goes to the device.                                      *)
LEMMA TransferBegins ==
    ASSUME IInv, NEW t \in Thread, NonCachedAsynchronousIo(t)
    PROVE  IInv'
<1> DEFINE i == Mine(t)
           q == Append(channel.queue, i)
<1>1. /\ thread[t].pc = "check" /\ Locked(t) /\ Back(t) /\ ~volume.dismounted /\ Passive
      /\ irp' = [irp EXCEPT ![i].state = "disk", ![i].parts = @ - 1]
      /\ UNCHANGED <<device, line, shutdown, irpList, mutex, volume>>
      /\ channel' = IF channel.busy THEN [channel EXCEPT !.queue = q]
                    ELSE [Starting(i) EXCEPT !.busy = TRUE]
  BY DEF NonCachedAsynchronousIo, StartEntry, StartPacket, At, Locked
<1>2. i \in Irp /\ irp[i].state = "locked"
  BY <1>1 DEF IInv, TransferInv, CallsOK
<1>3. /\ i \notin Range(channel.queue) /\ Current # i /\ ~Doing("next")
      /\ channel.queue \in Seq(Irp)
  <2>1. i # NoIrp
    BY <1>2, IdexChannelAssumption
  <2> QED BY <1>1, <1>2, <2>1 DEF IInv, TransferInv, QueueOK, Passive, Doing
<1>4. q \in Seq(Irp) /\ IsInjective(q) /\ Range(q) = Range(channel.queue) \cup {i}
  BY <1>2, <1>3, AppendLinks DEF IInv, TransferInv, QueueOK
<1> HIDE DEF i, q
<1>5. ChannelInv'
  <2>1. ChannelInv /\ i # NoIrp
    BY <1>2, IdexChannelAssumption DEF IInv, TransferInv
  <2>2. CASE channel.busy
    <3>1. channel' = [channel EXCEPT !.queue = q]
      BY <1>1, <2>2
    <3> QED
      BY <1>1, <1>4, <2>1, <2>2, <3>1
      DEF ChannelInv, ChannelType, Fields, DeviceType, ChannelOK, AnswerOK, Pending, Doing,
          Current, Status
  <2>3. CASE ~channel.busy
    <3>1. channel' = [Starting(i) EXCEPT !.busy = TRUE]
      BY <1>1, <2>3
    <3> QED
      BY <1>1, <1>2, <2>1, <2>3, <3>1
      DEF Starting, ChannelInv, ChannelType, Fields, DeviceType, ChannelOK, AnswerOK, Pending,
          Doing, Current, Status
  <2> QED BY <2>2, <2>3
<1>6. /\ thread' \in [Thread -> [pc : {"idle", "lock", "count", "check", "uncount", "signal",
                                 "unlock", "dismount", "blocked", "alone", "woken",
                                 "cancel", "ended"}, irp : Irp \cup {NoIrp}]]
      /\ \A u \in Thread : thread'[u] = IF u = t THEN [pc |-> "idle", irp |-> NoIrp]
                                                ELSE thread[u]
  BY <1>1 DEF Back, IInv, TransferInv, Types, ThreadType
<1>7. /\ IrpType'
      /\ \A j \in Irp : /\ irp'[j].owner = irp[j].owner /\ irp'[j].writes = irp[j].writes
                        /\ irp'[j].state = IF j = i THEN "disk" ELSE irp[j].state
  BY <1>1, <1>2 DEF IInv, TransferInv, Types, IrpType
<1>8. Types'
  BY <1>1, <1>6, <1>7 DEF IInv, TransferInv, Types, ThreadType, MutexType, VolumeType
<1>9. QueueOK'
  <2>1. CASE channel.busy
    <3>1. /\ channel'.queue = q /\ channel'.current = channel.current
          /\ channel'.doing = channel.doing
      BY <1>1, <2>1 DEF IInv, TransferInv, ChannelInv, ChannelType, Fields
    <3>2. \A j \in Range(q) : irp'[j].state = "disk"
      <4>1. Range(channel.queue) \subseteq Irp
        BY DEF IInv, TransferInv, QueueOK, Range
      <4> QED BY <1>2, <1>4, <1>7, <4>1 DEF IInv, TransferInv, QueueOK
    <3>3. Current # NoIrp => irp'[Current].state = "disk" /\ Current \notin Range(q)
      BY <1>3, <1>4, <1>7
      DEF IInv, TransferInv, QueueOK, ChannelInv, ChannelType, Current
    <3> QED BY <1>4, <3>1, <3>2, <3>3 DEF QueueOK, Current
  <2>2. CASE ~channel.busy
    <3>1. channel'.queue = channel.queue /\ channel'.current = i
      BY <1>1, <2>2 DEF Starting, IInv, TransferInv, ChannelInv, ChannelType, Fields
    <3>2. \A j \in Range(channel.queue) : irp'[j].state = "disk"
      BY <1>3, <1>7 DEF IInv, TransferInv, QueueOK, Range
    <3> QED BY <1>2, <1>3, <1>7, <3>1, <3>2 DEF IInv, TransferInv, QueueOK, Current
  <2> QED BY <2>1, <2>2
<1>10. OwnersOK' /\ FreeOK'
  <2>1. OwnersOK'
    <3>1. \A u \in Thread : thread'[u].pc = "ended" => thread[u].pc = "ended"
      BY <1>6
    <3> QED BY <1>1, <1>7, <3>1, OwnersFrame DEF IInv, TransferInv
  <2>2. FreeOK'
    BY <1>7 DEF IInv, TransferInv, FreeOK
  <2> QED BY <2>1, <2>2
<1>11. CallsOK'
  <2>1. \A u \in Thread : Asking(u)' => Asking(u) /\ u # t /\ Mine(u)' = Mine(u) /\ Mine(u) # i
    BY <1>1, <1>6 DEF IInv, TransferInv, CallsOK, Asking, Locked, Mine, i
  <2>2. \A u \in Thread : thread'[u].pc = "lock"
            => Mine(u)' \in Irp /\ irp'[Mine(u)'].state = "issued"
    BY <1>6, <1>7, <2>1 DEF IInv, TransferInv, CallsOK, Asking
  <2>3. \A u \in Thread : Locked(u)'
            => Mine(u)' \in Irp /\ irp'[Mine(u)'].state = "locked"
    BY <1>6, <1>7, <2>1 DEF IInv, TransferInv, CallsOK, Asking, Locked
  <2>4. \A u, v \in Thread : Asking(u)' /\ Asking(v)' /\ Mine(u)' = Mine(v)' => u = v
    BY <2>1 DEF IInv, TransferInv, CallsOK
  <2> QED BY <2>2, <2>3, <2>4 DEF CallsOK
<1>12. MutexOK'
  BY <1>1, <1>2, <1>7, MutexFrame DEF IInv, TransferInv
<1>13. DismountOK'
  <2>1. AtDisk' = AtDisk \cup {i} /\ i \in Counted
    <3>1. AtDisk' = AtDisk \cup {i}
      BY <1>2, <1>7 DEF AtDisk
    <3>2. i \in Counted
      BY <1>1, <1>2 DEF Counted, i
    <3> QED BY <3>1, <3>2
  <2>2. \A u \in Thread : u # t => Mine(u)' = Mine(u) /\ thread'[u].pc = thread[u].pc
    BY <1>6 DEF Mine
  <2>3. Counted' = Counted
    BY <1>1, <1>6, <2>1, <2>2 DEF Counted, i
  <2>4. ~Drained
    BY <1>1 DEF Drained
  <2>5. /\ \A u \in Thread : ~Dismounting(u)
        /\ \A u \in Thread : thread[u].pc \notin {"alone", "woken", "signal"}
        /\ volume.target /\ volume.event # "set"
        /\ volume.block = Cardinality(Counted) - (IF Waiting THEN 1 ELSE 0)
    BY <1>1, <2>4 DEF IInv, DismountOK
  <2>6. /\ \A u \in Thread : ~Dismounting(u)'
        /\ \A u \in Thread : thread'[u].pc \notin {"alone", "woken", "signal"}
    BY <1>6, <2>5 DEF Dismounting
  <2>7. ~Waiting /\ ~Waiting'
    BY <2>5, <2>6 DEF Waiting, Dismounting
  <2>8. volume'.block = Cardinality(Counted') - (IF Waiting' THEN 1 ELSE 0)
    BY <1>1, <2>3, <2>5, <2>7
  <2> QED BY <1>1, <2>5, <2>6, <2>8 DEF DismountOK
<1> QED BY <1>5, <1>8, <1>9, <1>10, <1>11, <1>12, <1>13 DEF IInv, TransferInv

(* The next part goes to the end of the device's queue.                    *)
LEMMA PartEnds ==
    ASSUME IInv, CompletePart
    PROVE  IInv'
<1> DEFINE i == Current
           q == Append(channel.queue, i)
<1>1. /\ Doing("complete")
      /\ irp' = [irp EXCEPT ![i].parts = @ - 1]
      /\ channel' = [channel EXCEPT !.queue = q, !.doing = "next"]
      /\ UNCHANGED <<device, line, shutdown, irpList, thread, mutex, volume>>
  BY DEF CompletePart, threadVars
<1>2. i \in Irp /\ irp[i].state = "disk" /\ i \notin Range(channel.queue)
  BY <1>1 DEF IInv, TransferInv, QueueOK, ChannelInv, ChannelType, ChannelOK, Doing
<1>3. q \in Seq(Irp) /\ IsInjective(q) /\ Range(q) = Range(channel.queue) \cup {i}
  BY <1>2, AppendLinks DEF IInv, TransferInv, QueueOK
<1> HIDE DEF i, q
<1>4. ChannelInv'
  <2>1. ChannelInv
    BY DEF IInv, TransferInv
  <2> QED
    BY <1>1, <1>3, <2>1
    DEF ChannelInv, ChannelType, Fields, DeviceType, ChannelOK, AnswerOK, Pending, Doing,
        Current, Status
<1>5. /\ IrpType'
      /\ \A j \in Irp : /\ irp'[j].owner = irp[j].owner /\ irp'[j].writes = irp[j].writes
                        /\ irp'[j].state = irp[j].state
  <2>1. IrpType
    BY DEF IInv, TransferInv, Types
  <2>2. IrpType'
    <3>1. irp[i].parts - 1 \in Int
      BY <1>2, <2>1 DEF IrpType
    <3> QED BY <1>1, <1>2, <2>1, <3>1 DEF IrpType
  <2>3. /\ irp'[i].owner = irp[i].owner /\ irp'[i].writes = irp[i].writes
        /\ irp'[i].state = irp[i].state
    BY <1>1, <1>2, <2>1 DEF IrpType
  <2>4. \A j \in Irp : j # i => irp'[j] = irp[j]
    BY <1>1, <1>2, <2>1 DEF IrpType
  <2> QED BY <2>2, <2>3, <2>4
<1>6. Types'
  BY <1>1, <1>5 DEF IInv, TransferInv, Types, ThreadType, MutexType, VolumeType
<1>7. QueueOK'
  <2>1. channel'.queue = q /\ channel'.doing = "next"
    BY <1>1 DEF IInv, TransferInv, ChannelInv, ChannelType, Fields
  <2>2. \A j \in Range(q) : irp'[j].state = "disk"
    <3>1. Range(channel.queue) \subseteq Irp
      BY DEF IInv, TransferInv, QueueOK, Range
    <3> QED BY <1>2, <1>3, <1>5, <3>1 DEF IInv, TransferInv, QueueOK
  <2> QED BY <1>3, <2>1, <2>2 DEF QueueOK, Doing
<1>8. OwnersOK' /\ FreeOK' /\ CallsOK' /\ MutexOK'
  <2>1. OwnersOK'
    BY <1>1, <1>5, OwnersFrame DEF IInv, TransferInv
  <2>2. FreeOK'
    BY <1>5 DEF IInv, TransferInv, FreeOK
  <2>3. CallsOK'
    BY <1>1, <1>5, CallsFrame DEF IInv, TransferInv
  <2>4. MutexOK'
    BY <1>1, <1>5, MutexFrame DEF IInv, TransferInv
  <2> QED BY <2>1, <2>2, <2>3, <2>4
<1>9. DismountOK'
  <2>1. AtDisk' = AtDisk
    BY <1>5 DEF AtDisk
  <2>2. Counted' = Counted
    BY <1>1, <2>1 DEF Counted, Mine
  <2>3. \A u \in Thread : Undisturbed(u)
    BY <1>1 DEF Undisturbed
  <2> QED BY <1>1, <2>1, <2>2, <2>3, DismountFrame DEF IInv
<1> QED BY <1>4, <1>6, <1>7, <1>8, <1>9 DEF IInv, TransferInv

(* The last part, or an error: the mutex, the count and the request.       *)
LEMMA TransferEnds ==
    ASSUME IInv, CompleteTransfer
    PROVE  IInv'
<1> DEFINE i == Current
<1>1. /\ Doing("complete")
      /\ volume' = IF Unblocks THEN [Signaled EXCEPT !.block = @ - 1]
                   ELSE [volume EXCEPT !.block = @ - 1]
      /\ mutex' = Owned(i, -1)
      /\ irp' = [irp EXCEPT ![i] = Completed(i)]
      /\ channel' = [channel EXCEPT !.doing = "next"]
      /\ UNCHANGED <<device, line, shutdown, irpList, thread>>
  BY DEF CompleteTransfer, threadVars, Does
<1>2. i \in Irp /\ irp[i].state = "disk" /\ i \notin Range(channel.queue)
  BY <1>1 DEF IInv, TransferInv, QueueOK, ChannelInv, ChannelType, ChannelOK, Doing
<1> HIDE DEF i
<1>3. ChannelInv'
  <2>1. ChannelInv
    BY DEF IInv, TransferInv
  <2> QED
    BY <1>1, <2>1
    DEF ChannelInv, ChannelType, Fields, DeviceType, ChannelOK, AnswerOK, Pending, Doing,
        Current, Status
<1>4. /\ IrpType'
      /\ irp'[i].owner = irp[i].owner /\ irp'[i].state \in {"free", "apc"}
      /\ irp'[i].state = "free" => irp'[i].owner = NoThread
      /\ \A j \in Irp : j # i => irp'[j] = irp[j]
  BY <1>1, <1>2 DEF IInv, TransferInv, Types, IrpType, Completed, FreeIrp
<1>5. MutexType'
  <2>1. irp[i].writes \in BOOLEAN /\ mutex \in [readers : Int, writers : Int]
    BY <1>2 DEF IInv, TransferInv, Types, IrpType, MutexType
  <2> QED BY <1>1, <2>1 DEF Owned, MutexType
<1>6. /\ VolumeType'
      /\ volume'.block = volume.block - 1 /\ volume'.dismounted = volume.dismounted
      /\ volume'.target = volume.target
      /\ volume'.event # volume.event
            => Unblocks /\ volume.event # "null" /\ volume'.event = "set"
  BY <1>1 DEF IInv, TransferInv, Types, VolumeType, Signaled
<1>7. Types'
  BY <1>1, <1>4, <1>5, <1>6 DEF IInv, TransferInv, Types, ThreadType
<1>8. QueueOK'
  <2>1. channel'.queue = channel.queue /\ channel'.doing = "next"
    BY <1>1 DEF IInv, TransferInv, ChannelInv, ChannelType, Fields
  <2>2. \A j \in Range(channel.queue) : irp'[j].state = "disk"
    BY <1>2, <1>4 DEF IInv, TransferInv, QueueOK, Range
  <2> QED BY <2>1, <2>2 DEF IInv, TransferInv, QueueOK, Doing
<1>9. OwnersOK' /\ FreeOK' /\ CallsOK'
  <2>1. \A j \in Irp : irp'[j].owner = irp[j].owner
    BY <1>4
  <2>2. OwnersOK'
    BY <1>1, <2>1, OwnersFrame DEF IInv, TransferInv
  <2>3. FreeOK'
    BY <1>4 DEF IInv, TransferInv, FreeOK
  <2>4. CallsOK'
    BY <1>1, <1>2, <1>4, CallsFrame DEF IInv, TransferInv
  <2> QED BY <2>2, <2>3, <2>4
<1>10. MutexOK'
  <2>1. UnderWay' = UnderWay \ {i} /\ i \in UnderWay
    BY <1>2, <1>4 DEF UnderWay
  <2> QED BY <1>1, <1>4, <2>1, FewerUnderWay DEF IInv, TransferInv
<1>11. DismountOK'
  <2>1. AtDisk' = AtDisk \ {i} /\ i \in AtDisk
    BY <1>2, <1>4 DEF AtDisk
  <2>2. \A u \in Thread : thread[u].pc \in {"check", "uncount"} => Mine(u) # i
    BY <1>2 DEF IInv, TransferInv, CallsOK, Locked
  <2>3. i \in Counted /\ Counted' = Counted \ {i}
    BY <1>1, <2>1, <2>2 DEF Counted, Mine
  <2>4. Waiting' <=> Waiting
    BY <1>1 DEF Waiting
  <2>5. /\ volume'.block = Cardinality(Counted') - (IF Waiting' THEN 1 ELSE 0)
        /\ Unblocks => Drained'
    BY <1>6, <2>1, <2>3, <2>4, CountFalls
  <2>6. \A u \in Thread : Dismounting(u)' => Dismounting(u)
    BY <1>1 DEF Dismounting
  <2> QED BY <1>1, <1>6, <2>1, <2>5, <2>6, DismountKept DEF IInv
<1> QED BY <1>3, <1>7, <1>8, <1>9, <1>10, <1>11 DEF IInv, TransferInv

-----------------------------------------------------------------------------
(* The invariant.                                                          *)

LEMMA ChannelStep ==
    ASSUME IInv, Channel
    PROVE  IInv'
<1>1. UNCHANGED <<irp, irpList, thread, mutex, volume>>
  BY DEF Channel
<1>2. ChannelInv'
  BY DispatchKeepsChannel, OutsideKeepsChannel DEF Channel, IInv, TransferInv
<1>3. QueueOK'
  BY <1>1, OwnStepsKeepQueue DEF Channel, IInv, TransferInv
<1>4. Types' /\ OwnersOK' /\ FreeOK' /\ CallsOK' /\ MutexOK' /\ DismountOK'
  <2>1. Types'
    BY <1>1 DEF IInv, TransferInv, Types, IrpType, ThreadType, MutexType, VolumeType
  <2>2. OwnersOK' /\ FreeOK'
    BY <1>1 DEF IInv, TransferInv, OwnersOK, FreeOK
  <2>3. CallsOK'
    BY <1>1, CallsFrame DEF IInv, TransferInv
  <2>4. MutexOK'
    BY <1>1, MutexFrame DEF IInv, TransferInv
  <2>5. DismountOK'
    <3>1. AtDisk' = AtDisk /\ Counted' = Counted
      BY <1>1 DEF AtDisk, Counted, Mine
    <3>2. \A u \in Thread : Undisturbed(u)
      BY <1>1 DEF Undisturbed
    <3> QED BY <1>1, <3>1, <3>2, DismountFrame DEF IInv
  <2> QED BY <2>1, <2>2, <2>3, <2>4, <2>5
<1> QED BY <1>2, <1>3, <1>4 DEF IInv, TransferInv

LEMMA Stutters ==
    ASSUME IInv, UNCHANGED vars
    PROVE  IInv'
<1>1. UNCHANGED <<channelVars, irp, irpList, thread, mutex, volume>>
  BY DEF vars
<1>2. Types'
  BY <1>1 DEF IInv, TransferInv, Types, IrpType, ThreadType, MutexType, VolumeType
<1>3. OwnersOK' /\ FreeOK'
  BY <1>1 DEF IInv, TransferInv, OwnersOK, FreeOK
<1>4. CallsOK'
  BY <1>1, CallsFrame DEF IInv, TransferInv
<1>5. ChannelInv' /\ QueueOK' /\ MutexOK' /\ DismountOK'
  BY <1>1, UnderWayKept
<1> QED BY <1>2, <1>3, <1>4, <1>5 DEF IInv, TransferInv

LEMMA Starts ==
    ASSUME Init
    PROVE  IInv
<1>1. Types /\ ChannelInv
  <2>1. ChannelInv
    BY DEF Init, ChannelInit, ChannelInv, ChannelType, Fields, DeviceType, ChannelOK, AnswerOK,
           Pending, Doing, Current, Status
  <2>2. IrpType /\ ThreadType
    BY DEF Init, IrpType, ThreadType, FreeIrp
  <2>3. MutexType /\ VolumeType /\ irpList \in [Thread -> Seq(Irp)]
    BY DEF Init, MutexType, VolumeType, VolumeInit
  <2> QED BY <2>1, <2>2, <2>3 DEF Types
<1>2. OwnersOK /\ FreeOK
  BY DiskIoAssumption DEF Init, FreeIrp, OwnersOK, FreeOK, IsInjective, Range
<1>3. CallsOK
  BY DEF Init, CallsOK, Asking, Locked
<1>4. QueueOK
  BY DEF Init, ChannelInit, QueueOK, Current, IsInjective, Range
<1>5. MutexOK
  <2>1. UnderWay = {} /\ Owners(TRUE) = {} /\ Owners(FALSE) = {}
    BY DEF Init, FreeIrp, UnderWay, Owners
  <2> QED BY <2>1, FS_EmptySet DEF Init, MutexOK
<1>6. DismountOK
  <2>1. Counted = {} /\ ~Waiting
    BY DEF Init, FreeIrp, Counted, AtDisk, Waiting
  <2> QED BY <2>1, FS_EmptySet DEF Init, VolumeInit, DismountOK, Dismounting
<1> QED BY <1>1, <1>2, <1>3, <1>4, <1>5, <1>6 DEF IInv, TransferInv

LEMMA Invariance == Spec => []IInv
<1>1. Init => IInv
  BY Starts
<1>2. IInv /\ [Next]_vars => IInv'
  <2> SUFFICES ASSUME IInv, [Next]_vars PROVE IInv'
    OBVIOUS
  <2>1. CASE Channel
    BY <2>1, ChannelStep
  <2>2. CASE Complete
    BY <2>2, PartEnds, TransferEnds DEF Complete
  <2>3. CASE \E i \in Irp : IopCompleteRequest(i)
    BY <2>3, ApcRuns
  <2>4. ASSUME NEW t \in Thread,
               \/ NtReadWriteFile(t) \/ AcquireFileMutex(t) \/ Issue(t)
               \/ DismountVolume(t) \/ Dismount(t)
               \/ IoCancelThreadIo(t) \/ IopDisassociateThreadIrp(t) \/ ThreadEnds(t)
        PROVE  IInv'
    <3>1. CASE Issue(t)
      BY <3>1, CountsUp, BacksOutStep, TransferBegins, DecrementStep, SignalStep, ReleaseStep
      DEF Issue
    <3>2. CASE DismountVolume(t) \/ Dismount(t)
      BY <3>2, DismountBegins, DismountBlocksStep, DismountUnblocksStep, DismountEndsStep
      DEF Dismount
    <3>3. CASE NtReadWriteFile(t) \/ AcquireFileMutex(t)
      BY <3>3, CallBegins, AcquireStep
    <3>4. CASE IoCancelThreadIo(t) \/ IopDisassociateThreadIrp(t) \/ ThreadEnds(t)
      BY <3>4, CancelStep, DisassociateStep, ThreadEndsStep
    <3> QED BY <2>4, <3>1, <3>2, <3>3, <3>4
  <2>5. CASE UNCHANGED vars
    BY <2>5, Stutters
  <2> QED BY <2>1, <2>2, <2>3, <2>4, <2>5 DEF Next
<1> QED BY <1>1, <1>2, PTL DEF Spec

-----------------------------------------------------------------------------
(* Theorems.                                                               *)

(* A command of the channel is finished by its interrupt or by its         *)
(* time-out, never by both (FinishedOnce; channel.c, disk.c).              *)
THEOREM CommandsFinishOnce == Spec => []FinishedOnce
<1>1. IInv => FinishedOnce
  BY DEF IInv, TransferInv, ChannelInv, ChannelOK, Pending, FinishedOnce
<1> QED BY <1>1, Invariance, PTL

(* An interrupt from before a command that was given up never completes    *)
(* the next one (SuccessIsTrue; ExpectingBusMasterInterrupt of channel.c). *)
THEOREM AnswersAreNotStale == Spec => []SuccessIsTrue
<1>1. IInv => SuccessIsTrue
  BY DEF IInv, TransferInv, ChannelInv, AnswerOK, SuccessIsTrue
<1> QED BY <1>1, Invariance, PTL

(* However a transfer ends, by an error, with the last of its parts or     *)
(* because it never starts, the file mutex is released once for it         *)
(* (MutexFollowsTransfers; readwrit.c of FATX).                            *)
THEOREM MutexReleasedOnce == Spec => []MutexFollowsTransfers
<1>1. IInv => MutexFollowsTransfers
  <2> SUFFICES ASSUME IInv PROVE MutexFollowsTransfers
    OBVIOUS
  <2>1. /\ Owners(TRUE) = {i \in UnderWay : irp[i].writes}
        /\ Owners(FALSE) = {i \in UnderWay : ~irp[i].writes}
    BY DEF Owners, UnderWay, IInv, TransferInv, Types, IrpType
  <2>2. ASSUME mutex.writers > 0 PROVE Cardinality(UnderWay) = 1
    <3>1. Owners(TRUE) # {}
      <4>1. mutex.writers = Cardinality(Owners(TRUE))
        BY DEF IInv, TransferInv, MutexOK
      <4>2. mutex.writers \in Int
        BY DEF IInv, TransferInv, Types, MutexType
      <4>3. ASSUME Owners(TRUE) = {} PROVE Cardinality(Owners(TRUE)) = 0
        BY <4>3, FS_EmptySet, Zenon
      <4>4. mutex.writers # 0
        BY <2>2, <4>2
      <4> QED BY <4>1, <4>3, <4>4, Zenon
    <3>2. PICK i \in Owners(TRUE) : UnderWay = {i}
      BY <3>1 DEF IInv, TransferInv, MutexOK
    <3> QED BY <3>2, FS_Singleton
  <2> QED BY <2>1, <2>2 DEF IInv, TransferInv, MutexOK, MutexFollowsTransfers
<1> QED BY <1>1, Invariance, PTL

(* A dismount lets the device go only when the last transfer that got past *)
(* the check has ended (DismountWaits; fsctrl.c and readwrit.c of FATX).   *)
THEOREM DeviceOutlivesTransfers == Spec => []DismountWaits
<1>1. IInv => DismountWaits
  BY DEF IInv, DismountOK, Drained, AtDisk, DismountWaits
<1> QED BY <1>1, Invariance, PTL

(* No request names a thread that has ended, whether the request completed *)
(* in time or was given up (IrpsForgetEnded; iosubs.c, internal.c).        *)
THEOREM EndedThreadsForgotten == Spec => []IrpsForgetEnded
<1>1. IInv => IrpsForgetEnded
  BY DEF IInv, TransferInv, OwnersOK, IrpsForgetEnded, Range
<1> QED BY <1>1, Invariance, PTL

-----------------------------------------------------------------------------
(* The file system cache: its lists.                                       *)

(* On a list that names nobody twice one page is before another, or the    *)
(* other before it, never both.                                            *)
LEMMA BeforeIsStrict ==
    ASSUME NEW T, NEW s \in Seq(T), IsInjective(s), NEW p, NEW q, Before(s, p, q)
    PROVE  ~Before(s, q, p) /\ p # q /\ p \in Range(s) /\ q \in Range(s)
<1>1. DOMAIN s = 1..Len(s) /\ Len(s) \in Nat
  OBVIOUS
<1>2. \A i, j \in DOMAIN s : s[i] = s[j] => i = j
  BY DEF IsInjective
<1>3. PICK i, j \in DOMAIN s : i < j /\ s[i] = p /\ s[j] = q
  BY DEF Before
<1>4. p # q
  BY <1>1, <1>2, <1>3
<1>5. ~Before(s, q, p)
  <2> SUFFICES ASSUME NEW k \in DOMAIN s, NEW l \in DOMAIN s, k < l, s[k] = q, s[l] = p
               PROVE  FALSE
    BY DEF Before
  <2>1. k = j /\ l = i
    BY <1>2, <1>3
  <2> QED BY <1>1, <1>3, <2>1
<1> QED BY <1>3, <1>4, <1>5 DEF Range

LEMMA BeforeIsTotal ==
    ASSUME NEW T, NEW s \in Seq(T), NEW p \in Range(s), NEW q \in Range(s), p # q
    PROVE  Before(s, p, q) \/ Before(s, q, p)
<1>1. DOMAIN s = 1..Len(s) /\ Len(s) \in Nat
  OBVIOUS
<1>2. PICK i \in DOMAIN s, j \in DOMAIN s : s[i] = p /\ s[j] = q
  BY DEF Range
<1>3. i < j \/ j < i
  BY <1>1, <1>2
<1> QED BY <1>2, <1>3 DEF Before

(* A list z, made of s, that names the pages S once each and has p before  *)
(* q only if R has.                                                        *)
Lists(z, S) == z \in Seq(Page) /\ IsInjective(z) /\ Range(z) = S

Ordered(z, R) == \A p, q \in Page : Before(z, p, q) => <<p, q>> \in R

LEMMA ArrangedLists ==
    ASSUME NEW S \in SUBSET Page, IsFiniteSet(S), NEW R, NEW z \in Arranged(S, R)
    PROVE  Lists(z, S) /\ Ordered(z, R)
<1> DEFINE n == Cardinality(S)
<1>1. n \in Nat
  BY FS_CardinalityType
<1>2. z \in Bijection(1..n, S) /\ \A i, j \in DOMAIN z : i < j => <<z[i], z[j]>> \in R
  BY DEF Arranged
<1>3. z \in [1..n -> S] /\ IsInjective(z) /\ \A p \in S : \E i \in 1..n : z[i] = p
  BY <1>2 DEF Bijection, Injection, Surjection
<1> HIDE DEF n
<1>4. z \in Seq(Page)
  BY <1>1, <1>3
<1>5. Range(z) = S
  BY <1>3 DEF Range
<1>6. Ordered(z, R)
  BY <1>2 DEF Ordered, Before
<1> QED BY <1>3, <1>4, <1>5, <1>6 DEF Lists

(* What RemoveEntryList and InsertTailList do: p is last, the others stay  *)
(* in their order.                                                         *)
TailOf(z, s, p) ==
    /\ \A q \in Range(s) : q # p => Before(z, q, p)
    /\ \A q, r \in Range(s) : q # p /\ r # p => (Before(z, q, r) <=> Before(s, q, r))

LEMMA MovedToTail ==
    ASSUME NEW s \in Seq(Page), IsInjective(s), NEW p \in Range(s),
           NEW z, z = Append(Unlink(s, p), p)
    PROVE  Lists(z, Range(s)) /\ TailOf(z, s, p)
<1> DEFINE u == Unlink(s, p)
<1>1. u \in Seq(Page) /\ IsInjective(u) /\ Range(u) = Range(s) \ {p}
  BY UnlinkProperties
<1>2. p \in Page
  BY DEF Range
<1>3. p \notin Range(u)
  BY <1>1
<1>4. z \in Seq(Page) /\ IsInjective(z) /\ Range(z) = Range(u) \cup {p}
  <2> HIDE DEF u
  <2> QED BY <1>1, <1>2, <1>3, AppendLinks DEF u
<1>5. Lists(z, Range(s))
  BY <1>1, <1>4 DEF Lists
<1>6. ASSUME NEW q, NEW r, Before(z, q, r)
      PROVE  Before(s, q, r) \/ r = p
  <2>1. PICK i, j \in DOMAIN z : i < j /\ z[i] = q /\ z[j] = r
    BY <1>6 DEF Before
  <2>2. \/ \E k, l \in DOMAIN u : k < l /\ u[k] = z[i] /\ u[l] = z[j]
        \/ z[j] = p
    <3> HIDE DEF u
    <3> QED BY <1>1, <2>1, AppendKeepsOrder DEF u
  <2>3. CASE z[j] = p
    BY <2>1, <2>3
  <2>4. CASE \E k, l \in DOMAIN u : k < l /\ u[k] = z[i] /\ u[l] = z[j]
    <3>1. PICK k, l \in DOMAIN u : k < l /\ u[k] = q /\ u[l] = r
      BY <2>1, <2>4
    <3>2. \E m, n \in DOMAIN s : m < n /\ s[m] = u[k] /\ s[n] = u[l]
      BY <3>1, UnlinkKeepsOrder
    <3> QED BY <3>1, <3>2 DEF Before
  <2> QED BY <2>2, <2>3, <2>4
<1> HIDE DEF u
<1>7. ASSUME NEW q \in Range(s), q # p
      PROVE  Before(z, q, p)
  <2>1. q \in Range(z) /\ p \in Range(z)
    BY <1>1, <1>4, <1>7
  <2>2. Before(z, q, p) \/ Before(z, p, q)
    BY <1>4, <1>7, <2>1, BeforeIsTotal
  <2>3. ~Before(z, p, q)
    <3> SUFFICES ASSUME Before(z, p, q) PROVE FALSE
      OBVIOUS
    <3>1. PICK i, j \in DOMAIN z : i < j /\ z[i] = p /\ z[j] = q
      BY DEF Before
    <3>2. Len(u) \in Nat /\ Len(z) = Len(u) + 1 /\ z[Len(u) + 1] = p /\ DOMAIN z = 1..Len(z)
      BY <1>1, <1>2 DEF u
    <3>3. i = Len(u) + 1
      BY <1>4, <3>1, <3>2 DEF IsInjective
    <3> QED BY <3>1, <3>2, <3>3
  <2> QED BY <2>2, <2>3
<1>8. ASSUME NEW q \in Range(s), NEW r \in Range(s), q # p, r # p
      PROVE  Before(z, q, r) <=> Before(s, q, r)
  <2>1. Before(z, q, r) => Before(s, q, r)
    BY <1>6, <1>8
  <2>2. ASSUME Before(s, q, r)
        PROVE  Before(z, q, r)
    <3>1. q # r /\ ~Before(s, r, q)
      BY <2>2, BeforeIsStrict
    <3>2. Before(z, q, r) \/ Before(z, r, q)
      BY <1>5, <3>1, BeforeIsTotal DEF Lists
    <3>3. Before(z, r, q) => Before(s, r, q)
      BY <1>6, <1>8
    <3> QED BY <3>1, <3>2, <3>3
  <2> QED BY <2>1, <2>2
<1> QED BY <1>5, <1>7, <1>8 DEF TailOf

(* And InsertHeadList: p is first. *)
HeadOf(z, s, p) == \A q, r \in Page : Before(z, q, r) => r # p /\ (q = p \/ Before(s, q, r))

LEMMA MovedToFront ==
    ASSUME NEW s \in Seq(Page), IsInjective(s), NEW p \in Range(s),
           NEW z, z = <<p>> \o Unlink(s, p)
    PROVE  Lists(z, Range(s)) /\ HeadOf(z, s, p)
<1> DEFINE u == Unlink(s, p)
<1>1. u \in Seq(Page) /\ IsInjective(u) /\ Range(u) = Range(s) \ {p}
  BY UnlinkProperties
<1>2. p \in Page
  BY DEF Range
<1>3. p \notin Range(u)
  BY <1>1
<1>4. z \in Seq(Page) /\ IsInjective(z) /\ Range(z) = Range(u) \cup {p}
  <2> HIDE DEF u
  <2> QED BY <1>1, <1>2, <1>3, PrependLinks DEF u
<1>5. Lists(z, Range(s))
  BY <1>1, <1>4 DEF Lists
<1>6. ASSUME NEW q \in Page, NEW r \in Page, Before(z, q, r)
      PROVE  r # p /\ (q = p \/ Before(s, q, r))
  <2>1. PICK i, j \in DOMAIN z : i < j /\ z[i] = q /\ z[j] = r
    BY <1>6 DEF Before
  <2>2. /\ DOMAIN z = 1..(Len(u) + 1) /\ Len(u) \in Nat /\ DOMAIN u = 1..Len(u)
        /\ z[1] = p /\ \A k \in 1..(Len(u) + 1) : k # 1 => z[k] = u[k - 1]
    <3> HIDE DEF u
    <3> QED BY <1>1, <1>2, ConcatProperties DEF u
  <2>3. r # p
    <3> SUFFICES ASSUME r = p PROVE FALSE
      OBVIOUS
    <3>1. 1 \in DOMAIN z
      BY <2>2
    <3>2. j = 1
      BY <1>4, <2>1, <2>2, <3>1 DEF IsInjective
    <3> QED BY <2>1, <2>2, <3>2
  <2>4. CASE i = 1
    BY <2>1, <2>2, <2>3, <2>4
  <2>5. CASE i # 1
    <3>1. i - 1 \in DOMAIN u /\ j - 1 \in DOMAIN u /\ i - 1 < j - 1
      BY <2>1, <2>2, <2>5
    <3>2. u[i - 1] = q /\ u[j - 1] = r
      BY <2>1, <2>2, <2>5
    <3>3. \E m, n \in DOMAIN s : m < n /\ s[m] = u[i - 1] /\ s[n] = u[j - 1]
      BY <3>1, UnlinkKeepsOrder
    <3> QED BY <2>3, <3>2, <3>3 DEF Before
  <2> QED BY <2>4, <2>5
<1> QED BY <1>5, <1>6 DEF HeadOf

(* Some page of a list comes before all others of a kind. *)
LEMMA FirstOfThem ==
    ASSUME NEW s \in Seq(Page), NEW S \in SUBSET Range(s), S # {}
    PROVE  \E p \in S : \A q \in S : ~Before(s, q, p) \/ Before(s, p, q)
<1> DEFINE I == {i \in DOMAIN s : s[i] \in S}
<1>1. DOMAIN s = 1..Len(s) /\ Len(s) \in Nat
  OBVIOUS
<1>2. I \subseteq Nat /\ I # {}
  BY <1>1 DEF Range
<1>3. \E x \in I : \A y \in I : ~(<<y, x>> \in OpToRel(<, Nat))
  <2> HIDE DEF I
  <2> QED BY <1>2, WFMin, NatLessThanWellFounded, Zenon
<1>4. PICK x \in I : \A y \in I : ~(y < x)
  <2> HIDE DEF I
  <2>1. ASSUME NEW x \in I, \A y \in I : ~(<<y, x>> \in OpToRel(<, Nat))
        PROVE  \A y \in I : ~(y < x)
    BY <1>2, <2>1, Zenon DEF OpToRel
  <2> QED BY <1>3, <2>1, Zenon
<1>5. ASSUME NEW q \in S, Before(s, q, s[x])
      PROVE  Before(s, s[x], q)
  <2>1. PICK i, j \in DOMAIN s : i < j /\ s[i] = q /\ s[j] = s[x]
    BY <1>5 DEF Before
  <2>2. i \in I
    BY <2>1
  <2>3. x <= i /\ x < j
    BY <1>1, <1>4, <2>1, <2>2
  <2>4. CASE x < i
    BY <2>1, <2>4 DEF Before
  <2>5. CASE x = i
    BY <2>1, <2>5 DEF Before
  <2> QED BY <1>1, <2>1, <2>3, <2>4, <2>5
<1> QED BY <1>5

(* A finite set of threads or pages that loses or gains one of them. *)
LEMMA OneMore ==
    ASSUME NEW S, IsFiniteSet(S), NEW x, x \notin S, NEW Z, Z = S \cup {x}
    PROVE  IsFiniteSet(Z) /\ Cardinality(Z) = Cardinality(S) + 1 /\ Cardinality(S) \in Nat
BY FS_AddElement, FS_CardinalityType

LEMMA OneLess ==
    ASSUME NEW S, IsFiniteSet(S), NEW x \in S, NEW Z, Z = S \ {x}
    PROVE  /\ IsFiniteSet(Z) /\ Cardinality(Z) = Cardinality(S) - 1
           /\ Cardinality(S) \in Nat /\ Cardinality(Z) \in Nat
BY FS_RemoveElement, FS_CardinalityType

LEMMA OnlyOne ==
    ASSUME NEW S, IsFiniteSet(S), Cardinality(S) = 1, NEW x \in S, NEW y \in S
    PROVE  x = y
BY FS_Singleton

LEMMA NoMore ==
    ASSUME NEW S, IsFiniteSet(S), NEW Z, Z \subseteq S
    PROVE  /\ IsFiniteSet(Z) /\ Cardinality(Z) <= Cardinality(S)
           /\ Cardinality(S) \in Nat /\ Cardinality(Z) \in Nat
BY FS_Subset, FS_CardinalityType

LEMMA GivenOrTaken ==
    ASSUME NEW S, IsFiniteSet(S), NEW x
    PROVE  /\ IsFiniteSet(S \ {x}) /\ Cardinality(S \ {x}) \in Nat
           /\ Cardinality(S \ {x}) >= Cardinality(S) - 1
           /\ IsFiniteSet(S \cup {x}) /\ Cardinality(S \cup {x}) \in Nat
           /\ Cardinality(S \cup {x}) <= Cardinality(S) + 1 /\ Cardinality(S) \in Nat
<1>1. IsFiniteSet(S \ {x}) /\ IsFiniteSet(S \cup {x})
  BY FS_RemoveElement, FS_AddElement
<1>2. /\ Cardinality(S \ {x}) \in Nat /\ Cardinality(S \cup {x}) \in Nat /\ Cardinality(S) \in Nat
  BY <1>1, FS_CardinalityType
<1>3. Cardinality(S \ {x}) = IF x \in S THEN Cardinality(S) - 1 ELSE Cardinality(S)
  BY FS_RemoveElement
<1>4. Cardinality(S \cup {x}) = IF x \in S THEN Cardinality(S) ELSE Cardinality(S) + 1
  BY FS_AddElement
<1>5. CASE x \in S
  BY <1>1, <1>2, <1>3, <1>4, <1>5
<1>6. CASE x \notin S
  BY <1>1, <1>2, <1>3, <1>4, <1>6
<1> QED BY <1>5, <1>6

LEMMA NobodyCounted ==
    ASSUME NEW S, IsFiniteSet(S)
    PROVE  Cardinality(S) \in Nat /\ (Cardinality(S) = 0 <=> S = {})
BY FS_EmptySet, FS_CardinalityType

(* The list of an enlarged array. *)
LEMMA ArrayGrows ==
    ASSUME NEW s \in Seq(Page), IsInjective(s), NEW n \in Nat,
           NEW e \in [1..n -> Page \ Range(s)], IsInjective(e),
           NEW z, z = s \o e
    PROVE  Lists(z, Range(s) \cup Range(e)) /\ Range(e) \cap Range(s) = {}
<1>1. e \in Seq(Page) /\ Len(e) = n /\ DOMAIN e = 1..n
  <2>1. e \in [1..n -> Page]
    OBVIOUS
  <2> QED BY <2>1
<1>2. /\ Len(s) \in Nat /\ DOMAIN s = 1..Len(s) /\ DOMAIN z = 1..(Len(s) + n) /\ z \in Seq(Page)
      /\ \A i \in 1..Len(s) : z[i] = s[i]
      /\ \A i \in 1..(Len(s) + n) : i > Len(s) => i - Len(s) \in 1..n /\ z[i] = e[i - Len(s)]
      /\ \A i \in 1..n : i + Len(s) \in 1..(Len(s) + n) /\ z[i + Len(s)] = e[i]
  <2>1. e \in Seq(Page) /\ DOMAIN e = 1..n /\ Len(s) \in Nat /\ DOMAIN s = 1..Len(s)
    BY <1>1
  <2>2. /\ DOMAIN z = 1..(Len(s) + n) /\ z \in Seq(Page)
        /\ \A i \in 1..Len(s) : z[i] = s[i]
        /\ \A i \in 1..(Len(s) + n) : i > Len(s) => z[i] = e[i - Len(s)]
    BY <1>1, <2>1, ConcatProperties
  <2>3. ASSUME NEW i \in 1..n
        PROVE  /\ i + Len(s) \in 1..(Len(s) + n) /\ i + Len(s) > Len(s)
               /\ (i + Len(s)) - Len(s) = i
    BY <2>1
  <2>4. \A i \in 1..(Len(s) + n) : i > Len(s) => i - Len(s) \in 1..n
    BY <2>1
  <2>5. \A i \in 1..n : z[i + Len(s)] = e[i]
    BY <2>2, <2>3
  <2> QED BY <2>1, <2>2, <2>3, <2>4, <2>5
<1>3. Range(e) \cap Range(s) = {}
  BY <1>1 DEF Range
<1>4. Range(z) = Range(s) \cup Range(e)
  <2>1. ASSUME NEW p \in Range(z)
        PROVE  p \in Range(s) \cup Range(e)
    <3>1. PICK i \in DOMAIN z : z[i] = p
      BY DEF Range
    <3>2. CASE i <= Len(s)
      BY <1>2, <3>1, <3>2 DEF Range
    <3>3. CASE i > Len(s)
      BY <1>1, <1>2, <3>1, <3>3 DEF Range
    <3> QED BY <1>2, <3>1, <3>2, <3>3
  <2>2. Range(s) \subseteq Range(z)
    BY <1>2 DEF Range
  <2>3. ASSUME NEW p \in Range(e)
        PROVE  p \in Range(z)
    <3>1. PICK i \in DOMAIN e : e[i] = p
      BY DEF Range
    <3>2. i + Len(s) \in DOMAIN z /\ z[i + Len(s)] = p
      BY <1>1, <1>2, <3>1
    <3> QED BY <3>2 DEF Range
  <2> QED BY <2>1, <2>2, <2>3
<1>5. ASSUME NEW i \in DOMAIN z, NEW j \in DOMAIN z, z[i] = z[j]
      PROVE  i = j
  <2>1. CASE i <= Len(s) /\ j <= Len(s)
    BY <1>2, <1>5, <2>1 DEF IsInjective
  <2>2. CASE i > Len(s) /\ j > Len(s)
    <3>1. i - Len(s) = j - Len(s)
      BY <1>1, <1>2, <1>5, <2>2 DEF IsInjective
    <3> QED BY <1>2, <3>1
  <2>3. CASE i <= Len(s) /\ j > Len(s)
    <3>1. z[i] \in Range(s) /\ z[j] \in Range(e)
      BY <1>1, <1>2, <2>3 DEF Range
    <3> QED BY <1>3, <1>5, <3>1
  <2>4. CASE i > Len(s) /\ j <= Len(s)
    <3>1. z[j] \in Range(s) /\ z[i] \in Range(e)
      BY <1>1, <1>2, <2>4 DEF Range
    <3> QED BY <1>3, <1>5, <3>1
  <2> QED BY <1>2, <2>1, <2>2, <2>3, <2>4
<1> QED BY <1>2, <1>3, <1>4, <1>5 DEF Lists, IsInjective

-----------------------------------------------------------------------------
(* The file system cache: the calls and who waits.                         *)

Threads == User \cup {Resizer}

CallTypes ==
    /\ waiting \in Seq(Threads) /\ IsInjective(waiting)
    /\ pc \in [Threads -> Where]
    /\ request \in [User -> Request \cup {NoRequest}]
    /\ page \in [User -> Page \cup {NoPage}]
    /\ missed \subseteq Threads

UserCallsOK ==
    /\ \A t \in User : pc[t] = "idle" <=> request[t] = NoRequest
    /\ \A t \in User : pc[t] # "idle" =>
        (pc[t] \in {"invalidate", "directio"} <=> request[t].mode = "direct")
    /\ \A t \in User : pc[t] \in {"reading", "mapped"} => page[t] \in Page
    /\ \A t \in User : pc[t] = "reading" => request[t].mode # "fill"
    /\ pc[Resizer] \in {"idle", "waiting", "woken", "interrupted"}

(* What the locks of the file systems promise the cache. *)
CacheLocksOK ==
    \A t, u \in User :
        /\ t # u /\ request[t] # NoRequest /\ request[u] # NoRequest
        /\ request[t].block = request[u].block
        => request[t].mode = "read" /\ request[u].mode = "read"

WaitersOK ==
    /\ Range(waiting) = {a \in Threads : pc[a] = "waiting"}
    /\ \A a \in Threads : pc[a] = "interrupted" => a \in missed

CallsInv == CallTypes /\ UserCallsOK /\ CacheLocksOK /\ WaitersOK

(* A step of t: of the others, some are told to look again. *)
Steps(t) ==
    /\ waiting' \in Seq(Threads) /\ IsInjective(waiting')
    /\ pc' \in [Threads -> Where]
    /\ request' \in [User -> Request \cup {NoRequest}]
    /\ page' \in [User -> Page \cup {NoPage}]
    /\ Range(waiting') = {a \in Threads : pc'[a] = "waiting"}
    /\ \A u \in User : u # t => page'[u] = page[u] /\ request'[u] = request[u]
    /\ \A a \in Threads : a # t =>
        \/ pc'[a] = pc[a]
        \/ pc[a] = "waiting" /\ pc'[a] = "woken"
        \/ pc[a] = "collided" /\ pc'[a] = "map"

Wakes(n, pcs) ==
    /\ waiting' \in Seq(Threads) /\ IsInjective(waiting')
    /\ Range(waiting') \subseteq Range(waiting)
    /\ DOMAIN pc' = Threads
    /\ \A a \in Threads :
        pc'[a] = IF a \in Range(waiting) /\ a \notin Range(waiting') THEN "woken" ELSE pcs[a]
    /\ n > 0 /\ waiting' # <<>> =>
        \E a \in Threads : a \in Range(waiting) /\ a \notin Range(waiting')
    /\ n = Len(waiting) => waiting' = <<>>

IsRest(z, s, k) ==
    /\ Len(z) = Len(s) - k /\ DOMAIN z = 1..(Len(s) - k)
    /\ \A i \in 1..(Len(s) - k) : i + k \in 1..Len(s) /\ z[i] = s[i + k]

LEMMA RestOfList ==
    ASSUME NEW T, NEW s \in Seq(T), NEW k \in 0..Len(s), NEW z, z = SubSeq(s, k + 1, Len(s))
    PROVE  z \in Seq(T) /\ IsRest(z, s, k)
<1>1. Len(s) \in Nat /\ DOMAIN s = 1..Len(s)
  OBVIOUS
<1>2. z = [i \in 1..(Len(s) - k) |-> s[i + k]]
  BY <1>1
<1>3. \A i \in 1..(Len(s) - k) : i + k \in 1..Len(s) /\ z[i] = s[i + k] /\ s[i + k] \in T
  BY <1>1, <1>2
<1>4. Len(s) - k \in Nat
  BY <1>1
<1> QED BY <1>2, <1>3, <1>4 DEF IsRest

LEMMA WakeForWakes ==
    ASSUME CallTypes, NEW n \in Nat, NEW pcs, WakeFor(n, pcs)
    PROVE  Wakes(n, pcs)
<1> DEFINE told == IF n <= Len(waiting) THEN n ELSE Len(waiting)
<1>1. /\ waiting \in Seq(Threads) /\ IsInjective(waiting) /\ DOMAIN pc = Threads
      /\ Len(waiting) \in Nat /\ DOMAIN waiting = 1..Len(waiting)
  BY DEF CallTypes
<1>2. told \in 0..Len(waiting) /\ (n > 0 /\ Len(waiting) > 0 => told > 0)
  BY <1>1
<1>3. /\ waiting' = SubSeq(waiting, told + 1, Len(waiting))
      /\ pc' = [a \in DOMAIN pc |->
                    IF \E i \in 1..told : waiting[i] = a THEN "woken" ELSE pcs[a]]
  BY DEF WakeFor
<1> HIDE DEF told
<1>4. /\ waiting' \in Seq(Threads) /\ Len(waiting') = Len(waiting) - told
      /\ DOMAIN waiting' = 1..(Len(waiting) - told)
      /\ \A i \in 1..(Len(waiting) - told) : i + told \in 1..Len(waiting) /\ waiting'[i] = waiting[i + told]
  <2>1. waiting' \in Seq(Threads) /\ IsRest(waiting', waiting, told)
    BY <1>1, <1>2, <1>3, RestOfList
  <2> QED BY <2>1 DEF IsRest
<1>5. IsInjective(waiting')
  <2> SUFFICES ASSUME NEW i \in DOMAIN waiting', NEW j \in DOMAIN waiting', waiting'[i] = waiting'[j]
               PROVE  i = j
    BY DEF IsInjective
  <2>1. i + told = j + told
    BY <1>1, <1>4 DEF IsInjective
  <2> QED BY <1>2, <1>4, <2>1
<1>6. ASSUME NEW a
      PROVE  a \in Range(waiting') <=> \E i \in 1..Len(waiting) : i > told /\ waiting[i] = a
  <2>1. ASSUME a \in Range(waiting')
        PROVE  \E i \in 1..Len(waiting) : i > told /\ waiting[i] = a
    <3>1. PICK j \in DOMAIN waiting' : waiting'[j] = a
      BY <2>1 DEF Range
    <3> QED BY <1>2, <1>4, <3>1
  <2>2. ASSUME NEW i \in 1..Len(waiting), i > told, waiting[i] = a
        PROVE  a \in Range(waiting')
    <3>1. i - told \in DOMAIN waiting' /\ waiting'[i - told] = a
      BY <1>1, <1>2, <1>4, <2>2
    <3> QED BY <3>1 DEF Range
  <2> QED BY <2>1, <2>2
<1>7. ASSUME NEW a
      PROVE  (a \in Range(waiting) /\ a \notin Range(waiting')) <=> \E i \in 1..told : waiting[i] = a
  <2>1. ASSUME a \in Range(waiting), a \notin Range(waiting')
        PROVE  \E i \in 1..told : waiting[i] = a
    <3>1. PICK i \in DOMAIN waiting : waiting[i] = a
      BY <2>1 DEF Range
    <3> QED BY <1>1, <1>2, <1>6, <2>1, <3>1
  <2>2. ASSUME NEW i \in 1..told, waiting[i] = a
        PROVE  a \in Range(waiting) /\ a \notin Range(waiting')
    <3>1. i \in DOMAIN waiting
      BY <1>1, <1>2
    <3>2. a \in Range(waiting)
      BY <2>2, <3>1 DEF Range
    <3>3. \A j \in 1..Len(waiting) : waiting[j] = a => j = i
      BY <1>1, <2>2, <3>1 DEF IsInjective
    <3> QED BY <1>2, <1>6, <3>2, <3>3
  <2> QED BY <2>1, <2>2
<1>8. Range(waiting') \subseteq Range(waiting)
  BY <1>1, <1>6 DEF Range
<1>9. DOMAIN pc' = Threads /\ \A a \in Threads :
          pc'[a] = IF a \in Range(waiting) /\ a \notin Range(waiting') THEN "woken" ELSE pcs[a]
  BY <1>1, <1>3, <1>7
<1>10. ASSUME n > 0, waiting' # <<>>
       PROVE  \E a \in Threads : a \in Range(waiting) /\ a \notin Range(waiting')
  <2>1. Len(waiting) > 0
    BY <1>1, <1>2, <1>4, <1>10
  <2>2. 1 \in 1..told /\ waiting[1] \in Threads
    BY <1>1, <1>2, <1>10, <2>1
  <2> QED BY <1>7, <2>2
<1>11. n = Len(waiting) => waiting' = <<>>
  BY <1>1, <1>3 DEF told
<1> QED BY <1>4, <1>5, <1>8, <1>9, <1>10, <1>11 DEF Wakes

CacheTypes ==
    /\ array \in Seq(Page) /\ IsInjective(array)
    /\ lru \in Seq(Page) /\ IsInjective(lru)
    /\ element \in [Page -> Element]
    /\ toRelease \in 0..Cardinality(Page) /\ disturbed \in BOOLEAN

LEMMA TypesOfCache == FscTypeOK <=> CallTypes /\ CacheTypes
BY DEF FscTypeOK, CallTypes, CacheTypes, Threads

(* What a caller of WakeFor does to the threads itself. *)
Pulses(t, pcs) ==
    /\ pcs \in [Threads -> Where] /\ (pc[t] = "waiting" <=> pcs[t] = "waiting")
    /\ \A a \in Threads : a # t =>
        pcs[a] = pc[a] \/ (pc[a] = "collided" /\ pcs[a] = "map")

OthersSame(t) ==
    /\ request' \in [User -> Request \cup {NoRequest}]
    /\ page' \in [User -> Page \cup {NoPage}]
    /\ \A u \in User : u # t => page'[u] = page[u] /\ request'[u] = request[u]

LEMMA StepsThatWake ==
    ASSUME CallsInv, NEW t \in Threads, NEW n \in Nat, NEW pcs, WakeFor(n, pcs),
           Pulses(t, pcs), OthersSame(t)
    PROVE  Steps(t) /\ Wakes(n, pcs) /\ (pc[t] # "waiting" => pc'[t] = pcs[t])
<1>1. Wakes(n, pcs)
  BY WakeForWakes DEF CallsInv
<1>2. Range(waiting) = {a \in Threads : pc[a] = "waiting"}
  BY DEF CallsInv, WaitersOK
<1>3. pc' \in [Threads -> Where]
  <2>1. pc' = [a \in DOMAIN pc |-> pc'[a]] /\ DOMAIN pc = Threads
    BY DEF WakeFor, CallsInv, CallTypes
  <2>2. \A a \in Threads : pc'[a] \in Where
    BY <1>1 DEF Wakes, Pulses, Where
  <2> QED BY <2>1, <2>2
<1>4. Range(waiting') = {a \in Threads : pc'[a] = "waiting"}
  <2>1. Range(waiting') \subseteq Range(waiting)
    BY <1>1 DEF Wakes
  <2>2. \A a \in Threads : pcs[a] = "waiting" <=> pc[a] = "waiting"
    BY DEF Pulses
  <2>3. \A a \in Threads :
          pc'[a] = IF a \in Range(waiting) /\ a \notin Range(waiting') THEN "woken" ELSE pcs[a]
    BY <1>1 DEF Wakes
  <2> QED BY <1>2, <2>1, <2>2, <2>3
<1>5. \A a \in Threads : a # t =>
        \/ pc'[a] = pc[a]
        \/ pc[a] = "waiting" /\ pc'[a] = "woken"
        \/ pc[a] = "collided" /\ pc'[a] = "map"
  BY <1>1, <1>2 DEF Wakes, Pulses
<1>6. pc[t] # "waiting" => pc'[t] = pcs[t]
  BY <1>1, <1>2 DEF Wakes
<1> QED BY <1>1, <1>3, <1>4, <1>5, <1>6 DEF Steps, OthersSame, Wakes

LEMMA BeginSteps ==
    ASSUME CallsInv, FsCacheAssumption, NEW t \in User, NEW r \in Request, Begin(t, r)
    PROVE  Steps(t)
BY DEF CallsInv, CallTypes, WaitersOK, Begin, Goes, Steps, Threads, FsCacheAssumption, Where

LEMMA MapFoundSteps ==
    ASSUME CallsInv, CacheTypes, FsCacheAssumption, NEW t \in User, MapFound(t)
    PROVE  Steps(t)
<1>1. PICK p \in Range(lru) : page' = [page EXCEPT ![t] = p] /\ pc' = Goes(t, "mapped")
  BY DEF MapFound, FscLookupElement
<1>2. p \in Page
  BY DEF CacheTypes, Range
<1> QED BY <1>1, <1>2 DEF CallsInv, CallTypes, WaitersOK, MapFound, Goes, Steps, Threads, FsCacheAssumption, Where

LEMMA MapCollidesSteps ==
    ASSUME CallsInv, FsCacheAssumption, NEW t \in User, MapCollides(t)
    PROVE  Steps(t)
BY DEF CallsInv, CallTypes, WaitersOK, MapCollides, Goes, Steps, Threads, FsCacheAssumption, Where

LEMMA NoCacheSteps ==
    ASSUME CallsInv, FsCacheAssumption, NEW t \in User, NoCache(t)
    PROVE  Steps(t)
BY DEF CallsInv, CallTypes, WaitersOK, NoCache, Allocates, Returns, Goes, Steps, Threads, FsCacheAssumption, Where

LEMMA TakeElementSteps ==
    ASSUME CallsInv, CacheTypes, FsCacheAssumption, NEW t \in User, TakeElement(t)
    PROVE  Steps(t)
<1>1. PICK p \in Range(lru) : /\ page' = [page EXCEPT ![t] = p]
                              /\ pc' \in {Goes(t, "mapped"), Goes(t, "reading")}
  BY DEF TakeElement, LeastRecentlyFree
<1>2. p \in Page
  BY DEF CacheTypes, Range
<1> QED BY <1>1, <1>2 DEF CallsInv, CallTypes, WaitersOK, TakeElement, Allocates, Goes, Steps, Threads, FsCacheAssumption, Where

LEMMA WaitForElementSteps ==
    ASSUME CallsInv, FsCacheAssumption, NEW t \in User, WaitForElement(t)
    PROVE  Steps(t)
<1>1. waiting \in Seq(Threads) /\ IsInjective(waiting) /\ t \in Threads /\ t \notin Range(waiting)
  BY DEF CallsInv, CallTypes, WaitersOK, WaitForElement, Allocates, Threads
<1>2. /\ Append(waiting, t) \in Seq(Threads) /\ IsInjective(Append(waiting, t))
      /\ Range(Append(waiting, t)) = Range(waiting) \cup {t}
  BY <1>1, AppendLinks
<1> QED BY <1>1, <1>2 DEF CallsInv, CallTypes, WaitersOK, WaitForElement, Goes, Steps, Threads, FsCacheAssumption, Where

LEMMA ReadSucceedsSteps ==
    ASSUME CallsInv, FsCacheAssumption, NEW t \in User, ReadSucceeds(t)
    PROVE  Steps(t)
<1>1. /\ pc[t] = "reading" /\ waiting' = waiting /\ page' = page /\ request' = request
      /\ pc' = [Pulsed(page[t]) EXCEPT ![t] = "mapped"]
  BY DEF ReadSucceeds
<1>2. Pulsed(page[t]) \in [Threads -> Where]
  BY DEF Pulsed, CallsInv, CallTypes, Where
<1>3. \A a \in Threads :
        \/ Pulsed(page[t])[a] = pc[a]
        \/ pc[a] = "collided" /\ Pulsed(page[t])[a] = "map"
  BY DEF Pulsed, CallsInv, CallTypes
<1> HIDE DEF Pulsed
<1> QED BY <1>1, <1>2, <1>3 DEF CallsInv, CallTypes, WaitersOK, Steps, Threads, FsCacheAssumption, Where

LEMMA DirectWriteSteps ==
    ASSUME CallsInv, FsCacheAssumption, NEW t \in User, DirectWrite(t)
    PROVE  Steps(t)
BY DEF CallsInv, CallTypes, WaitersOK, DirectWrite, Returns, Goes, Steps, Threads, FsCacheAssumption, Where

LEMMA KernelApcSteps ==
    ASSUME CallsInv, FsCacheAssumption, NEW a \in Threads, KernelApc(a)
    PROVE  Steps(a)
<1>1. waiting \in Seq(Threads) /\ IsInjective(waiting)
  BY DEF CallsInv, CallTypes
<1>2. /\ Unlink(waiting, a) \in Seq(Threads) /\ IsInjective(Unlink(waiting, a))
      /\ Range(Unlink(waiting, a)) = Range(waiting) \ {a}
  BY <1>1, UnlinkProperties
<1> QED BY <1>2 DEF CallsInv, CallTypes, WaitersOK, KernelApc, Goes, Steps, Threads, FsCacheAssumption, Where

LEMMA WaitAgainSteps ==
    ASSUME CallsInv, FsCacheAssumption, NEW a \in Threads, WaitAgain(a)
    PROVE  Steps(a)
<1>1. waiting \in Seq(Threads) /\ IsInjective(waiting) /\ a \notin Range(waiting)
  BY DEF CallsInv, CallTypes, WaitersOK, WaitAgain
<1>2. /\ Append(waiting, a) \in Seq(Threads) /\ IsInjective(Append(waiting, a))
      /\ Range(Append(waiting, a)) = Range(waiting) \cup {a}
  BY <1>1, AppendLinks
<1>3. CASE a = Resizer
  BY <1>1, <1>2, <1>3 DEF CallsInv, CallTypes, WaitersOK, WaitAgain, Goes, Steps, Threads, FsCacheAssumption, Where
<1>4. CASE a # Resizer
  BY <1>1, <1>4 DEF CallsInv, CallTypes, WaitersOK, WaitAgain, Goes, Steps, Threads, FsCacheAssumption, Where
<1> QED BY <1>3, <1>4

LEMMA DiscardSteps ==
    ASSUME CallsInv, FsCacheAssumption, NEW t \in User, NEW pcs, FscDiscardBuffer(t, pcs),
           pc[t] \in {"reading", "mapped"}, pcs = pc \/ pcs = Pulsed(page[t])
    PROVE  Steps(t) /\ Wakes(1, [pcs EXCEPT ![t] = "idle"]) /\ pc'[t] = "idle"
<1> DEFINE q == [pcs EXCEPT ![t] = "idle"]
<1>1. WakeFor(1, q) /\ OthersSame(t)
  BY DEF FscDiscardBuffer, Returns, OthersSame, CallsInv, CallTypes
<1>2. pcs \in [Threads -> Where] /\ t \in Threads
  BY DEF Pulsed, CallsInv, CallTypes, Where, Threads
<1>3. \A a \in Threads :
        \/ pcs[a] = pc[a]
        \/ pc[a] = "collided" /\ pcs[a] = "map"
  BY DEF Pulsed, CallsInv, CallTypes
<1>4. Pulses(t, q) /\ q[t] = "idle"
  BY <1>2, <1>3 DEF Pulses, Where
<1> HIDE DEF q
<1>5. Steps(t) /\ Wakes(1, q) /\ (pc[t] # "waiting" => pc'[t] = q[t])
  BY <1>1, <1>2, <1>4, StepsThatWake
<1> QED BY <1>4, <1>5 DEF q

LEMMA UnmapSteps ==
    ASSUME CallsInv, FsCacheAssumption, NEW t \in User, NEW e, FscUnmapBuffer(t, e),
           pc[t] = "mapped"
    PROVE  /\ Steps(t) /\ pc'[t] = "idle"
           /\ Wakes(IF e[page[t]].usage = 1 THEN 1 ELSE 0, Goes(t, "idle"))
<1> DEFINE q == Goes(t, "idle")
           n == IF e[page[t]].usage = 1 THEN 1 ELSE 0
<1>1. WakeFor(n, q) /\ OthersSame(t) /\ n \in Nat
  BY DEF FscUnmapBuffer, Returns, OthersSame, CallsInv, CallTypes
<1>2. Pulses(t, q) /\ q[t] = "idle" /\ t \in Threads
  BY DEF Pulses, Where, Goes, CallsInv, CallTypes, Threads
<1> HIDE DEF q, n
<1>3. Steps(t) /\ Wakes(n, q) /\ (pc[t] # "waiting" => pc'[t] = q[t])
  BY <1>1, <1>2, StepsThatWake
<1> QED BY <1>2, <1>3 DEF q, n

LEMMA PagesFinite ==
    ASSUME CacheTypes, FsCacheAssumption, NEW S, S \subseteq Range(lru) \cup Range(array)
    PROVE  S \subseteq Page /\ IsFiniteSet(S) /\ Cardinality(S) \in Nat
<1>1. S \subseteq Page /\ IsFiniteSet(Page)
  BY DEF CacheTypes, FsCacheAssumption, Range
<1> QED BY <1>1, NoMore

LEMMA InvalidateFirstSteps ==
    ASSUME CallsInv, CacheTypes, FsCacheAssumption, NEW t \in User, InvalidateFirst(t)
    PROVE  /\ Steps(t) /\ pc'[t] = "directio"
           /\ Wakes(Cardinality(Invalidated({request[t].block})), Goes(t, "directio"))
<1> DEFINE q == Goes(t, "directio")
           n == Cardinality(Invalidated({request[t].block}))
<1>1. WakeFor(n, q) /\ OthersSame(t)
  BY DEF InvalidateFirst, FscInvalidateBlocks, OthersSame, CallsInv, CallTypes
<1>2. n \in Nat
  BY PagesFinite DEF Invalidated
<1>3. Pulses(t, q) /\ q[t] = "directio" /\ t \in Threads /\ pc[t] # "waiting"
  BY DEF Pulses, Where, Goes, CallsInv, CallTypes, Threads, InvalidateFirst
<1> HIDE DEF q, n
<1>4. Steps(t) /\ Wakes(n, q) /\ (pc[t] # "waiting" => pc'[t] = q[t])
  BY <1>1, <1>2, <1>3, StepsThatWake
<1> QED BY <1>3, <1>4 DEF q, n

LEMMA InvalidateIdleSteps ==
    ASSUME CallsInv, CacheTypes, FsCacheAssumption, FscInvalidateIdleBlocks
    PROVE  /\ Steps(Resizer) /\ Wakes(Cardinality(Invalidated(Block)), pc)
           /\ pc'[Resizer] \in {pc[Resizer], "woken"}
<1> DEFINE n == Cardinality(Invalidated(Block))
<1>1. WakeFor(n, pc) /\ OthersSame(Resizer)
  BY DEF FscInvalidateIdleBlocks, FscInvalidateBlocks, OthersSame, CallsInv, CallTypes
<1>2. n \in Nat
  BY PagesFinite DEF Invalidated
<1>3. Pulses(Resizer, pc) /\ Resizer \in Threads
  BY DEF Pulses, CallsInv, CallTypes, Threads
<1> HIDE DEF n
<1>4. Steps(Resizer) /\ Wakes(n, pc)
  BY <1>1, <1>2, <1>3, StepsThatWake
<1>5. pc'[Resizer] \in {pc[Resizer], "woken"}
  BY <1>3, <1>4 DEF Wakes
<1> QED BY <1>4, <1>5 DEF n

LEMMA ReleaseAllSteps ==
    ASSUME CallsInv, FsCacheAssumption, NEW n, ReleaseAll(n), UNCHANGED <<request, page>>,
           pc[Resizer] \in {"idle", "woken"}
    PROVE  Steps(Resizer) /\ Wakes(Len(waiting), Goes(Resizer, "idle")) /\ pc'[Resizer] = "idle"
<1> DEFINE q == Goes(Resizer, "idle")
           k == Len(waiting)
<1>1. WakeFor(k, q) /\ OthersSame(Resizer) /\ k \in Nat
  BY DEF ReleaseAll, OthersSame, CallsInv, CallTypes
<1>2. Pulses(Resizer, q) /\ q[Resizer] = "idle" /\ Resizer \in Threads
  BY DEF Pulses, Where, Goes, CallsInv, CallTypes, Threads
<1> HIDE DEF q, k
<1>3. Steps(Resizer) /\ Wakes(k, q) /\ (pc[Resizer] # "waiting" => pc'[Resizer] = q[Resizer])
  BY <1>1, <1>2, StepsThatWake
<1> QED BY <1>2, <1>3 DEF q, k

LEMMA ReleaseSomeSteps ==
    ASSUME CallsInv, FsCacheAssumption, NEW n, ReleaseSome(n), UNCHANGED <<request, page>>,
           pc[Resizer] \in {"idle", "woken"}
    PROVE  Steps(Resizer) /\ pc'[Resizer] = "waiting" /\ pc' = Goes(Resizer, "waiting")
<1>1. /\ waiting \in Seq(Threads) /\ IsInjective(waiting) /\ Resizer \in Threads
      /\ Resizer \notin Range(waiting)
  BY DEF CallsInv, CallTypes, WaitersOK, Threads
<1>2. /\ Append(waiting, Resizer) \in Seq(Threads) /\ IsInjective(Append(waiting, Resizer))
      /\ Range(Append(waiting, Resizer)) = Range(waiting) \cup {Resizer}
  BY <1>1, AppendLinks
<1> QED BY <1>1, <1>2 DEF CallsInv, CallTypes, WaitersOK, ReleaseSome, Goes, Steps, FsCacheAssumption, Where, Threads

LEMMA GrowSteps ==
    ASSUME CallsInv, NEW n, FscGrowCacheSize(n)
    PROVE  Steps(Resizer)
BY DEF CallsInv, CallTypes, WaitersOK, FscGrowCacheSize, Steps

-----------------------------------------------------------------------------
(* Their invariant. *)

(* Who may have missed a signal: the history only forgets who goes on. *)
Misses(N) == missed \subseteq N /\ N \subseteq Threads /\ missed' = StillWaiting(N)

(* t keeps its call and its lock, gives them up, or begins. *)
OwnCall(t) ==
    /\ pc'[t] = "idle" <=> request'[t] = NoRequest
    /\ pc'[t] # "idle" => (pc'[t] \in {"invalidate", "directio"} <=> request'[t].mode = "direct")
    /\ pc'[t] \in {"reading", "mapped"} => page'[t] \in Page
    /\ pc'[t] = "reading" => request'[t].mode # "fill"
    /\ \/ request'[t] = request[t]
       \/ request'[t] = NoRequest
       \/ \A u \in User : (u # t /\ request[u] # NoRequest /\ request[u].block = request'[t].block)
                            => request'[t].mode = "read" /\ request[u].mode = "read"

LEMMA CallStep ==
    ASSUME CallsInv, FsCacheAssumption, NEW t \in User, Steps(t), OwnCall(t), NEW N, Misses(N),
           pc'[t] = "interrupted" => pc[t] = "interrupted" \/ t \in N
    PROVE  CallsInv'
<1>1. CallTypes'
  BY DEF Steps, CallsInv, CallTypes, Misses, StillWaiting
<1>2. UserCallsOK'
  <2>1. ASSUME NEW u \in User
        PROVE  /\ pc'[u] = "idle" <=> request'[u] = NoRequest
               /\ pc'[u] # "idle" =>
                    (pc'[u] \in {"invalidate", "directio"} <=> request'[u].mode = "direct")
               /\ pc'[u] \in {"reading", "mapped"} => page'[u] \in Page
               /\ pc'[u] = "reading" => request'[u].mode # "fill"
    <3>1. CASE u = t
      BY <3>1 DEF OwnCall
    <3>2. CASE u # t
      <4>1. page'[u] = page[u] /\ request'[u] = request[u] /\ u \in Threads
        BY <3>2 DEF Steps, Threads
      <4>2. \/ pc'[u] = pc[u]
            \/ pc[u] = "waiting" /\ pc'[u] = "woken"
            \/ pc[u] = "collided" /\ pc'[u] = "map"
        BY <3>2, <4>1 DEF Steps
      <4> QED BY <4>1, <4>2 DEF CallsInv, UserCallsOK
    <3> QED BY <3>1, <3>2
  <2>2. pc'[Resizer] \in {"idle", "waiting", "woken", "interrupted"}
    BY DEF CallsInv, UserCallsOK, Steps, Threads, FsCacheAssumption
  <2> QED BY <2>1, <2>2 DEF UserCallsOK
<1>3. CacheLocksOK'
  <2> SUFFICES ASSUME NEW u \in User, NEW v \in User, u # v, request'[u] # NoRequest,
                      request'[v] # NoRequest, request'[u].block = request'[v].block
               PROVE  request'[u].mode = "read" /\ request'[v].mode = "read"
    BY DEF CacheLocksOK
  <2>1. \A w \in User : w # t => request'[w] = request[w]
    BY DEF Steps
  <2>2. CASE u # t /\ v # t
    BY <2>1, <2>2 DEF CallsInv, CacheLocksOK
  <2>3. CASE u = t
    BY <2>1, <2>3 DEF CallsInv, CacheLocksOK, OwnCall
  <2>4. CASE v = t
    BY <2>1, <2>4 DEF CallsInv, CacheLocksOK, OwnCall
  <2> QED BY <2>2, <2>3, <2>4
<1>4. WaitersOK'
  <2>1. Range(waiting') = {a \in Threads : pc'[a] = "waiting"}
    BY DEF Steps
  <2>2. ASSUME NEW a \in Threads, pc'[a] = "interrupted"
        PROVE  a \in missed'
    BY <2>2 DEF Steps, Misses, StillWaiting, CallsInv, WaitersOK
  <2> QED BY <2>1, <2>2 DEF WaitersOK
<1> QED BY <1>1, <1>2, <1>3, <1>4 DEF CallsInv

LEMMA ResizerCallStep ==
    ASSUME CallsInv, FsCacheAssumption, Steps(Resizer), NEW N, Misses(N), UNCHANGED <<request, page>>,
           pc'[Resizer] \in {"idle", "waiting", "woken", "interrupted"},
           pc'[Resizer] = "interrupted" => pc[Resizer] = "interrupted" \/ Resizer \in N
    PROVE  CallsInv'
<1>1. CallTypes'
  BY DEF Steps, CallsInv, CallTypes, Misses, StillWaiting
<1>2. UserCallsOK'
  <2>1. ASSUME NEW u \in User
        PROVE  /\ pc'[u] = "idle" <=> request'[u] = NoRequest
               /\ pc'[u] # "idle" =>
                    (pc'[u] \in {"invalidate", "directio"} <=> request'[u].mode = "direct")
               /\ pc'[u] \in {"reading", "mapped"} => page'[u] \in Page
               /\ pc'[u] = "reading" => request'[u].mode # "fill"
    <3>1. u \in Threads /\ u # Resizer
      BY DEF Threads, FsCacheAssumption
    <3>2. \/ pc'[u] = pc[u]
          \/ pc[u] = "waiting" /\ pc'[u] = "woken"
          \/ pc[u] = "collided" /\ pc'[u] = "map"
      BY <3>1 DEF Steps
    <3> QED BY <3>2 DEF CallsInv, UserCallsOK
  <2> QED BY <2>1 DEF UserCallsOK
<1>3. CacheLocksOK'
  BY DEF CallsInv, CacheLocksOK
<1>4. WaitersOK'
  <2>1. Range(waiting') = {a \in Threads : pc'[a] = "waiting"}
    BY DEF Steps
  <2>2. ASSUME NEW a \in Threads, pc'[a] = "interrupted"
        PROVE  a \in missed'
    BY <2>2 DEF Steps, Misses, StillWaiting, CallsInv, WaitersOK
  <2> QED BY <2>1, <2>2 DEF WaitersOK
<1> QED BY <1>1, <1>2, <1>3, <1>4 DEF CallsInv

-----------------------------------------------------------------------------
(* The file system cache: what a page's element says of its users.         *)

Users(p) == {t \in User : Uses(t, p)}

PageOK(p) ==
    /\ element[p].reading = (\E t \in User : page[t] = p /\ pc[t] = "reading")
    /\ element[p].reading => element[p].usage = 1
    /\ element[p].writable =>
        /\ element[p].usage = 1
        /\ \E t \in User : Uses(t, p) /\ pc[t] = "mapped" /\ request[t].mode # "read"
    /\ element[p].usage = Cardinality(Users(p))
    /\ \A t \in User : Uses(t, p) => p \in Range(lru) /\ element[p].block = request[t].block

UsageOK == \A p \in Page : PageOK(p)

ListOK ==
    /\ Range(lru) = {p \in Range(array) : ~element[p].deletePending}
    /\ \A p, q \in Range(lru) : (Before(lru, p, q) /\ element[q].block = NoBlock)
                                    => element[p].block = NoBlock
    /\ \A p \in Page : element[p].deletePending => pc[Resizer] # "idle"

LEMMA AccountedParts == ElementsAccounted <=> FscTypeOK /\ UsageOK /\ ListOK
<1>1. BuffersProtected /\ (\A p \in Page : element[p].usage = Cardinality(Users(p)))
         /\ (\A t \in User, p \in Page : Uses(t, p) =>
                p \in Range(lru) /\ element[p].block = request[t].block)
      <=> UsageOK
  BY DEF BuffersProtected, UsageOK, PageOK
<1>2. (\A p \in Page : element[p].usage = Cardinality(Users(p)))
      <=> (\A p \in Page : element[p].usage = Cardinality({t \in User : Uses(t, p)}))
  BY DEF Users
<1> QED BY <1>1, <1>2 DEF ElementsAccounted, ListOK

LEMMA UsersFinite ==
    ASSUME FsCacheAssumption, NEW p
    PROVE  /\ IsFiniteSet(Users(p)) /\ Cardinality(Users(p)) \in Nat
           /\ Cardinality(Users(p)) <= Cardinality(User)
           /\ Cardinality(Users(p)) = 0 <=> Users(p) = {}
<1>1. IsFiniteSet(User) /\ Users(p) \subseteq User
  BY DEF Users, FsCacheAssumption
<1> QED BY <1>1, NoMore, NobodyCounted

(* The same of the users after the step. *)
LEMMA UsersFiniteNext ==
    ASSUME FsCacheAssumption, NEW p
    PROVE  /\ IsFiniteSet(Users(p)') /\ Cardinality(Users(p)') \in Nat
           /\ Cardinality(Users(p)') <= Cardinality(User)
<1>1. IsFiniteSet(User) /\ Users(p)' \subseteq User
  BY DEF Users, FsCacheAssumption
<1> QED BY <1>1, NoMore

LEMMA OthersUse ==
    ASSUME CallsInv, NEW t, Steps(t), NEW u \in User, u # t, NEW p
    PROVE  /\ Uses(u, p)' <=> Uses(u, p)
           /\ pc'[u] = "reading" <=> pc[u] = "reading"
           /\ pc'[u] = "mapped" <=> pc[u] = "mapped"
           /\ page'[u] = page[u] /\ request'[u] = request[u]
BY DEF Steps, Uses, Threads

(* A page whose element t does not touch. *)
UsedAsBefore(t, p) ==
    /\ element'[p].usage = element[p].usage /\ element'[p].reading = element[p].reading
    /\ element'[p].writable = element[p].writable /\ element'[p].block = element[p].block
    /\ p \in Range(lru) => p \in Range(lru')
    /\ t \in User => ~Uses(t, p) /\ ~Uses(t, p)'

LEMMA PageKept ==
    ASSUME CallsInv, FsCacheAssumption, NEW t, Steps(t), NEW p \in Page, PageOK(p),
           UsedAsBefore(t, p)
    PROVE  PageOK(p)' /\ Users(p)' = Users(p)
<1>1. ASSUME NEW u \in User
      PROVE  /\ Uses(u, p)' <=> Uses(u, p)
             /\ Uses(u, p) => /\ pc'[u] = "mapped" <=> pc[u] = "mapped"
                              /\ request'[u] = request[u]
             /\ (page'[u] = p /\ pc'[u] = "reading") <=> (page[u] = p /\ pc[u] = "reading")
  <2>1. CASE u = t
    BY <2>1 DEF UsedAsBefore, Uses
  <2>2. CASE u # t
    BY <2>2, OthersUse
  <2> QED BY <2>1, <2>2
<1>2. Users(p)' = Users(p)
  BY <1>1 DEF Users
<1>3. element'[p].reading = (\E u \in User : page'[u] = p /\ pc'[u] = "reading")
  BY <1>1 DEF PageOK, UsedAsBefore
<1>4. element'[p].writable =>
        /\ element'[p].usage = 1
        /\ \E u \in User : Uses(u, p)' /\ pc'[u] = "mapped" /\ request'[u].mode # "read"
  BY <1>1 DEF PageOK, UsedAsBefore
<1>5. \A u \in User : Uses(u, p)' => p \in Range(lru') /\ element'[p].block = request'[u].block
  BY <1>1 DEF PageOK, UsedAsBefore
<1> QED BY <1>2, <1>3, <1>4, <1>5 DEF PageOK, UsedAsBefore

(* A page nobody uses, whatever becomes of its element. *)
LEMMA PageLeft ==
    ASSUME CallsInv, FsCacheAssumption, NEW t, Steps(t), NEW p \in Page, PageOK(p),
           element[p].usage = 0, element'[p].usage = 0,
           element'[p].reading = FALSE, element'[p].writable = FALSE,
           t \in User => ~Uses(t, p)'
    PROVE  PageOK(p)'
<1>1. Users(p) = {}
  BY UsersFinite DEF PageOK
<1>2. \A u \in User : ~Uses(u, p)'
  BY <1>1, OthersUse DEF Users
<1>3. Users(p)' = {}
  BY <1>2 DEF Users
<1>4. Cardinality(Users(p)') = 0
  BY <1>3, FS_EmptySet
<1> QED BY <1>2, <1>4 DEF PageOK, Uses

LEMMA Used ==
    ASSUME CallsInv, FsCacheAssumption, UsageOK, NEW t \in User, NEW p \in Page, Uses(t, p)
    PROVE  /\ ~Free(p) /\ p \in Range(lru) /\ element[p].block = request[t].block
           /\ request[t] # NoRequest
           /\ element[p].usage = 1 => \A u \in User : Uses(u, p) => u = t
           /\ request[t].mode # "read" => \A u \in User : Uses(u, p) => u = t
<1>1. PageOK(p) /\ t \in Users(p)
  BY DEF UsageOK, Users
<1>2. ~Free(p)
  BY <1>1, UsersFinite DEF PageOK, Free
<1>3. \A u \in User : Uses(u, p) => request[u] # NoRequest
  BY DEF Uses, CallsInv, UserCallsOK
<1>4. ASSUME element[p].usage = 1, NEW u \in User, Uses(u, p)
      PROVE  u = t
  <2>1. u \in Users(p)
    BY <1>4 DEF Users
  <2> QED BY <1>1, <1>4, <2>1, UsersFinite, OnlyOne DEF PageOK
<1>5. ASSUME request[t].mode # "read", NEW u \in User, Uses(u, p)
      PROVE  u = t
  BY <1>1, <1>3, <1>5 DEF PageOK, CallsInv, CacheLocksOK
<1> QED BY <1>1, <1>2, <1>3, <1>4, <1>5 DEF PageOK

-----------------------------------------------------------------------------
(* The file system cache: the steps keep its elements accounted for.       *)

AccountInv == CallsInv /\ CacheTypes /\ UsageOK /\ ListOK

Accounted == CacheTypes /\ UsageOK /\ ListOK

LEMMA UsageInRange ==
    ASSUME FsCacheAssumption, NEW p, PageOK(p)'
    PROVE  element'[p].usage \in 0..Cardinality(User)
<1>1. Cardinality(User) \in Nat
  BY NobodyCounted DEF FsCacheAssumption
<1> QED BY <1>1, UsersFiniteNext DEF PageOK

(* Steps that leave the cache as it is. *)
LEMMA CacheUnchanged ==
    ASSUME AccountInv, FsCacheAssumption, NEW t, Steps(t),
           UNCHANGED <<array, lru, element>>, toRelease' \in 0..Cardinality(Page),
           disturbed' \in BOOLEAN,
           t \in User => \A p \in Page : ~Uses(t, p) /\ ~Uses(t, p)',
           t = Resizer => pc'[t] # "idle" \/ pc[t] = "idle"
    PROVE  Accounted'
<1>1. CacheTypes'
  BY DEF AccountInv, CacheTypes
<1>2. UsageOK'
  <2> SUFFICES ASSUME NEW p \in Page PROVE PageOK(p)'
    BY DEF UsageOK
  <2>1. UsedAsBefore(t, p)
    BY DEF UsedAsBefore
  <2> QED BY <2>1, PageKept DEF AccountInv, UsageOK
<1>3. pc[Resizer] # "idle" => pc'[Resizer] # "idle"
  BY DEF Steps, Threads
<1>4. ListOK'
  BY <1>3 DEF AccountInv, ListOK, Before
<1> QED BY <1>1, <1>2, <1>4 DEF Accounted

(* A list of the same pages in which those without a block stay in front. *)
LEMMA ListStays ==
    ASSUME AccountInv, NEW p \in Range(lru), lru' \in Seq(Page), Lists(lru', Range(lru)),
           TailOf(lru', lru, p), array' = array, element'[p].block # NoBlock,
           element' \in [Page -> Element],
           \A q \in Page : /\ q # p => element'[q].block = element[q].block
                           /\ element'[q].deletePending = element[q].deletePending,
           pc'[Resizer] # "idle" \/ pc[Resizer] = "idle"
    PROVE  ListOK'
<1>1. Range(lru') = {q \in Range(array') : ~element'[q].deletePending}
  <2>1. Range(array) \subseteq Page
    BY DEF AccountInv, CacheTypes, Range
  <2> QED BY <2>1 DEF AccountInv, ListOK, Lists
<1>2. ASSUME NEW q \in Range(lru'), NEW r \in Range(lru'), Before(lru', q, r),
             element'[r].block = NoBlock
      PROVE  element'[q].block = NoBlock
  <2>1. q \in Range(lru) /\ r \in Range(lru) /\ Range(lru) \subseteq Page
    <3>1. Range(lru) \subseteq Page
      BY DEF AccountInv, CacheTypes, Range
    <3> QED BY <3>1 DEF Lists
  <2>2. r # p
    BY <1>2
  <2>3. q # p
    <3> SUFFICES ASSUME q = p PROVE FALSE
      OBVIOUS
    <3>1. Before(lru', r, p)
      BY <2>1, <2>2 DEF TailOf
    <3> QED BY <1>2, <3>1, BeforeIsStrict DEF Lists
  <2>4. Before(lru, q, r)
    BY <1>2, <2>1, <2>2, <2>3 DEF TailOf
  <2> QED BY <1>2, <2>1, <2>2, <2>3, <2>4 DEF AccountInv, ListOK
<1>3. \A q \in Page : element'[q].deletePending => pc'[Resizer] # "idle"
  BY DEF AccountInv, ListOK
<1> QED BY <1>1, <1>2, <1>3 DEF ListOK

LEMMA MapFoundAccounted ==
    ASSUME AccountInv, FsCacheAssumption, NEW t \in User, MapFound(t), UNCHANGED disturbed
    PROVE  Accounted'
<1> DEFINE b == request[t].block
<1>1. Steps(t)
  BY MapFoundSteps DEF AccountInv
<1>2. PICK p \in FscLookupElement(b) :
        /\ ~element[p].reading
        /\ lru' = ToTail(p)
        /\ element' = [element EXCEPT ![p].usage = @ + 1,
                            ![p].writable = @ \/ request[t].mode # "read"]
        /\ page' = [page EXCEPT ![t] = p]
        /\ pc' = Goes(t, "mapped")
  BY DEF MapFound
<1>3. p \in Range(lru) /\ p \in Page /\ element[p].block = b
  BY <1>2 DEF FscLookupElement, AccountInv, CacheTypes, Range
<1>4. /\ pc[t] = "map" /\ pc'[t] = "mapped" /\ page'[t] = p /\ request' = request
      /\ array' = array /\ toRelease' = toRelease /\ t \in Threads /\ request[t] # NoRequest
  BY <1>2 DEF MapFound, Goes, AccountInv, CallsInv, CallTypes, UserCallsOK, Threads
<1>5. element \in [Page -> Element]
  BY DEF AccountInv, CacheTypes
<1>6. /\ element'[p].usage = element[p].usage + 1
      /\ element'[p].writable = (element[p].writable \/ request[t].mode # "read")
      /\ element'[p].reading = element[p].reading /\ element'[p].block = element[p].block
      /\ element'[p].deletePending = element[p].deletePending
      /\ element'[p].readWaiters = element[p].readWaiters
      /\ element'[p].fresh = element[p].fresh
      /\ \A q \in Page : q # p => element'[q] = element[q]
  BY <1>2, <1>3, <1>5 DEF Element
<1>7. Lists(lru', Range(lru)) /\ TailOf(lru', lru, p)
  BY <1>2, <1>3, MovedToTail DEF ToTail, AccountInv, CacheTypes
<1>8. ASSUME NEW q \in Page, q # p
      PROVE  PageOK(q)'
  <2>1. UsedAsBefore(t, q)
    BY <1>4, <1>6, <1>7, <1>8 DEF UsedAsBefore, Uses, Lists
  <2> QED BY <1>1, <2>1, PageKept DEF AccountInv, UsageOK
<1>9. PageOK(p) /\ t \notin Users(p)
  BY <1>3, <1>4 DEF AccountInv, UsageOK, Users, Uses
<1>10. \A u \in User : Uses(u, p) => request[u].mode = "read" /\ request[t].mode = "read"
  <2> SUFFICES ASSUME NEW u \in User, Uses(u, p)
               PROVE  request[u].mode = "read" /\ request[t].mode = "read"
    OBVIOUS
  <2>1. u # t
    BY <1>4 DEF Uses
  <2>2. request[u] # NoRequest /\ request[u].block = b
    BY <1>3, <1>9 DEF Uses, AccountInv, CallsInv, UserCallsOK, PageOK
  <2> QED BY <1>4, <2>1, <2>2 DEF AccountInv, CallsInv, CacheLocksOK
<1>11. PageOK(p)'
  <2>1. \A u \in User : u # t => (Uses(u, p)' <=> Uses(u, p)) /\ (pc'[u] = "reading" <=> pc[u] = "reading") /\ page'[u] = page[u]
    BY <1>1, OthersUse DEF AccountInv
  <2>2. Uses(t, p)' /\ ~Uses(t, p)
    BY <1>4 DEF Uses
  <2>3. Users(p)' = Users(p) \cup {t}
    BY <2>1, <2>2 DEF Users
  <2>4. element'[p].usage = Cardinality(Users(p)')
    <3>1. Cardinality(Users(p)') = Cardinality(Users(p)) + 1
      BY <1>9, <2>3, UsersFinite, OneMore
    <3> QED BY <1>6, <1>9, <3>1 DEF PageOK
  <2>5. element'[p].reading = (\E u \in User : page'[u] = p /\ pc'[u] = "reading")
    <3>1. \A u \in User : ~(page[u] = p /\ pc[u] = "reading")
      BY <1>2, <1>9 DEF PageOK
    <3>2. \A u \in User : ~(page'[u] = p /\ pc'[u] = "reading")
      BY <1>4, <2>1, <3>1
    <3> QED BY <1>6, <1>9, <3>1, <3>2 DEF PageOK
  <2>6. ~element'[p].reading
    BY <1>2, <1>6
  <2>7. ASSUME element'[p].writable
        PROVE  /\ element'[p].usage = 1
               /\ \E u \in User : Uses(u, p)' /\ pc'[u] = "mapped" /\ request'[u].mode # "read"
    <3>1. ~element[p].writable
      BY <1>9, <1>10 DEF PageOK
    <3>2. request[t].mode # "read"
      BY <1>6, <2>7, <3>1
    <3>3. Users(p) = {}
      BY <1>10, <3>2 DEF Users
    <3>4. element[p].usage = 0
      BY <1>9, <3>3, FS_EmptySet DEF PageOK
    <3> QED BY <1>4, <1>6, <2>2, <3>2, <3>4
  <2>8. \A u \in User : Uses(u, p)' => p \in Range(lru') /\ element'[p].block = request'[u].block
    BY <1>3, <1>4, <1>6, <1>7, <1>9, <2>1 DEF PageOK, Lists
  <2> QED BY <2>4, <2>5, <2>6, <2>7, <2>8 DEF PageOK
<1>12. UsageOK'
  BY <1>8, <1>11 DEF UsageOK
<1>13. element' \in [Page -> Element]
  <2>1. element'[p].usage \in 0..Cardinality(User)
    BY <1>11, UsageInRange
  <2>2. element'[p] \in Element
    BY <1>2, <1>3, <1>5, <1>6, <2>1 DEF Element
  <2> QED BY <1>2, <1>3, <1>5, <1>6, <2>2
<1>14. CacheTypes'
  BY <1>4, <1>7, <1>13 DEF CacheTypes, AccountInv, Lists
<1>15. ListOK'
  <2>1. b # NoBlock
    BY <1>4 DEF AccountInv, CallsInv, CallTypes, FsCacheAssumption
  <2>2. pc'[Resizer] # "idle" \/ pc[Resizer] = "idle"
    BY <1>1, <1>4 DEF Steps, Threads, FsCacheAssumption
  <2> HIDE DEF b
  <2> QED BY <1>3, <1>4, <1>6, <1>7, <1>13, <2>1, <2>2, ListStays DEF Lists
<1> QED BY <1>12, <1>14, <1>15 DEF Accounted

LEMMA MapCollidesAccounted ==
    ASSUME AccountInv, FsCacheAssumption, NEW t \in User, MapCollides(t), UNCHANGED disturbed
    PROVE  Accounted'
<1> DEFINE b == request[t].block
<1>1. Steps(t)
  BY MapCollidesSteps DEF AccountInv
<1>2. PICK p \in FscLookupElement(b) :
        /\ lru' = ToTail(p)
        /\ element' = [element EXCEPT ![p].readWaiters = TRUE]
        /\ pc' = Goes(t, "collided")
  BY DEF MapCollides
<1>3. p \in Range(lru) /\ p \in Page /\ element[p].block = b
  BY <1>2 DEF FscLookupElement, AccountInv, CacheTypes, Range
<1>4. /\ pc[t] = "map" /\ pc'[t] = "collided" /\ page' = page /\ request' = request
      /\ array' = array /\ toRelease' = toRelease /\ t \in Threads /\ request[t] # NoRequest
  BY <1>2 DEF MapCollides, Goes, AccountInv, CallsInv, CallTypes, UserCallsOK, Threads
<1>5. element \in [Page -> Element]
  BY DEF AccountInv, CacheTypes
<1>6. /\ element' \in [Page -> Element]
      /\ \A q \in Page : /\ element'[q].usage = element[q].usage
                         /\ element'[q].writable = element[q].writable
                         /\ element'[q].reading = element[q].reading
                         /\ element'[q].block = element[q].block
                         /\ element'[q].deletePending = element[q].deletePending
                         /\ element'[q].fresh = element[q].fresh
  BY <1>2, <1>3, <1>5 DEF Element
<1>7. Lists(lru', Range(lru)) /\ TailOf(lru', lru, p)
  BY <1>2, <1>3, MovedToTail DEF ToTail, AccountInv, CacheTypes
<1>8. ASSUME NEW q \in Page
      PROVE  PageOK(q)'
  <2>1. UsedAsBefore(t, q)
    BY <1>4, <1>6, <1>7 DEF UsedAsBefore, Uses, Lists
  <2> QED BY <1>1, <2>1, PageKept DEF AccountInv, UsageOK
<1>9. CacheTypes'
  BY <1>4, <1>6, <1>7 DEF CacheTypes, AccountInv, Lists
<1>10. ListOK'
  <2>1. b # NoBlock
    BY <1>4 DEF AccountInv, CallsInv, CallTypes, FsCacheAssumption
  <2>2. pc'[Resizer] # "idle" \/ pc[Resizer] = "idle"
    BY <1>1, <1>4 DEF Steps, Threads, FsCacheAssumption
  <2> HIDE DEF b
  <2> QED BY <1>3, <1>4, <1>6, <1>7, <2>1, <2>2, ListStays DEF Lists
<1> QED BY <1>8, <1>9, <1>10 DEF Accounted, UsageOK

LEMMA TakeElementAccounted ==
    ASSUME AccountInv, FsCacheAssumption, NEW t \in User, TakeElement(t), UNCHANGED disturbed
    PROVE  Accounted'
<1> DEFINE b == request[t].block
           new == [Empty EXCEPT !.block = b, !.usage = 1, !.reading = request[t].mode # "fill",
                                !.writable = request[t].mode = "fill"]
<1>1. Steps(t)
  BY TakeElementSteps DEF AccountInv
<1>2. PICK p \in LeastRecentlyFree :
        /\ lru' = ToTail(p)
        /\ element' = [element EXCEPT ![p] = new]
        /\ page' = [page EXCEPT ![t] = p]
        /\ pc' = Goes(t, IF request[t].mode = "fill" THEN "mapped" ELSE "reading")
  BY DEF TakeElement
<1>3. p \in Range(lru) /\ p \in Page /\ Free(p)
  BY <1>2 DEF LeastRecentlyFree, AccountInv, CacheTypes, Range
<1>4. /\ pc[t] \in {"map", "woken"}
      /\ pc'[t] = IF request[t].mode = "fill" THEN "mapped" ELSE "reading"
      /\ page'[t] = p /\ request' = request
      /\ array' = array /\ toRelease' = toRelease /\ t \in Threads /\ request[t] # NoRequest
  BY <1>2 DEF TakeElement, Allocates, Goes, AccountInv, CallsInv, CallTypes, UserCallsOK, Threads
<1>5. element \in [Page -> Element]
  BY DEF AccountInv, CacheTypes
<1>6. /\ element'[p].usage = 1 /\ element'[p].block = b
      /\ element'[p].writable = (request[t].mode = "fill")
      /\ element'[p].reading = (request[t].mode # "fill")
      /\ element'[p].deletePending = FALSE /\ element'[p].readWaiters = FALSE
      /\ element'[p].fresh = FALSE
      /\ \A q \in Page : q # p => element'[q] = element[q]
  BY <1>2, <1>3, <1>5 DEF Empty
<1>7. Lists(lru', Range(lru)) /\ TailOf(lru', lru, p)
  BY <1>2, <1>3, MovedToTail DEF ToTail, AccountInv, CacheTypes
<1>8. ASSUME NEW q \in Page, q # p
      PROVE  PageOK(q)'
  <2>1. UsedAsBefore(t, q)
    BY <1>4, <1>6, <1>7, <1>8 DEF UsedAsBefore, Uses, Lists
  <2> QED BY <1>1, <2>1, PageKept DEF AccountInv, UsageOK
<1>9. Users(p) = {}
  BY <1>3, UsersFinite DEF AccountInv, UsageOK, PageOK, Free
<1>10. PageOK(p)'
  <2>1. \A u \in User : u # t => ~Uses(u, p)'
    BY <1>1, <1>9, OthersUse DEF AccountInv, Users
  <2>2. Uses(t, p)'
    BY <1>4 DEF Uses
  <2>3. Users(p)' = {t}
    BY <2>1, <2>2 DEF Users
  <2>4. Cardinality(Users(p)') = 1
    BY <2>3, FS_Singleton
  <2>5. element'[p].reading = (\E u \in User : page'[u] = p /\ pc'[u] = "reading")
    <3>1. \A u \in User : (page'[u] = p /\ pc'[u] = "reading") => u = t
      BY <2>1 DEF Uses
    <3>2. (page'[t] = p /\ pc'[t] = "reading") <=> request[t].mode # "fill"
      BY <1>4
    <3> QED BY <1>6, <3>1, <3>2
  <2>6. element'[p].writable => pc'[t] = "mapped" /\ request'[t].mode # "read"
    BY <1>4, <1>6
  <2>7. p \in Range(lru') /\ element'[p].block = request'[t].block
    BY <1>3, <1>4, <1>6, <1>7 DEF Lists
  <2> QED BY <1>6, <2>1, <2>2, <2>4, <2>5, <2>6, <2>7 DEF PageOK
<1>11. element' \in [Page -> Element]
  <2>1. element'[p].usage \in 0..Cardinality(User)
    BY <1>10, UsageInRange
  <2>2. b \in Block
    BY <1>4 DEF AccountInv, CallsInv, CallTypes, FsCacheAssumption
  <2>3. 1 \in 0..Cardinality(User)
    BY <1>6, <2>1
  <2>4. new \in Element
    BY <2>2, <2>3 DEF Empty, Element
  <2> HIDE DEF new
  <2> QED BY <1>2, <1>3, <1>5, <2>4
<1>12. CacheTypes'
  BY <1>4, <1>7, <1>11 DEF CacheTypes, AccountInv, Lists
<1>13. ListOK'
  <2>1. b # NoBlock
    BY <1>4 DEF AccountInv, CallsInv, CallTypes, FsCacheAssumption
  <2>2. pc'[Resizer] # "idle" \/ pc[Resizer] = "idle"
    BY <1>1, <1>4 DEF Steps, Threads, FsCacheAssumption
  <2>3. ~element[p].deletePending
    BY <1>3 DEF AccountInv, ListOK
  <2>4. element[p].deletePending \in BOOLEAN
    BY <1>3, <1>5 DEF Element
  <2>5. \A q \in Page : /\ q # p => element'[q].block = element[q].block
                        /\ element'[q].deletePending = element[q].deletePending
    BY <1>6, <2>3, <2>4
  <2> HIDE DEF b
  <2> QED BY <1>3, <1>4, <1>6, <1>7, <1>11, <2>1, <2>2, <2>5, ListStays DEF Lists
<1> QED BY <1>8, <1>10, <1>12, <1>13 DEF Accounted, UsageOK

LEMMA ReadSucceedsAccounted ==
    ASSUME AccountInv, FsCacheAssumption, NEW t \in User, ReadSucceeds(t), UNCHANGED disturbed
    PROVE  Accounted'
<1>1. Steps(t)
  BY ReadSucceedsSteps DEF AccountInv
<1>2. /\ pc[t] = "reading" /\ pc'[t] = "mapped" /\ page' = page /\ request' = request
      /\ array' = array /\ toRelease' = toRelease /\ lru' = lru /\ t \in Threads
  BY DEF ReadSucceeds, Pulsed, AccountInv, CallsInv, CallTypes, Threads
<1>3. PICK p \in Page : p = page[t] /\ Uses(t, p)
  BY <1>2 DEF AccountInv, CallsInv, UserCallsOK, Uses
<1>4. element \in [Page -> Element] /\ PageOK(p)
  BY <1>3 DEF AccountInv, CacheTypes, UsageOK
<1>5. /\ element'[p].usage = element[p].usage /\ element'[p].block = element[p].block
      /\ element'[p].writable = (request[t].mode # "read")
      /\ element'[p].reading = FALSE
      /\ element'[p].deletePending = element[p].deletePending
      /\ element' \in [Page -> Element]
      /\ \A q \in Page : q # p => element'[q] = element[q]
  <2> DEFINE r == [element[p] EXCEPT !.reading = FALSE, !.readWaiters = FALSE,
                                     !.writable = request[t].mode # "read", !.fresh = TRUE]
  <2>1. element' = [element EXCEPT ![p] = r]
    BY <1>3, <1>4 DEF ReadSucceeds
  <2>2. element[p] \in Element
    BY <1>4
  <2>3. /\ r \in Element /\ r.usage = element[p].usage /\ r.block = element[p].block
        /\ r.writable = (request[t].mode # "read") /\ r.reading = FALSE
        /\ r.deletePending = element[p].deletePending
    BY <2>2 DEF Element
  <2> HIDE DEF r
  <2> QED BY <1>4, <2>1, <2>3
<1>6. element[p].usage = 1
  BY <1>2, <1>3, <1>4 DEF PageOK
<1>7. \A u \in User : Uses(u, p) => u = t
  BY <1>3, <1>6, Used DEF AccountInv
<1>8. ASSUME NEW q \in Page, q # p
      PROVE  PageOK(q)'
  <2>1. UsedAsBefore(t, q)
    BY <1>2, <1>3, <1>5, <1>8 DEF UsedAsBefore, Uses
  <2> QED BY <1>1, <2>1, PageKept DEF AccountInv, UsageOK
<1>9. PageOK(p)'
  <2>1. \A u \in User : u # t => (Uses(u, p)' <=> Uses(u, p))
    BY <1>1, OthersUse DEF AccountInv
  <2>2. Uses(t, p)'
    BY <1>2, <1>3 DEF Uses
  <2>3. Users(p)' = Users(p)
    BY <1>3, <2>1, <2>2 DEF Users
  <2>4. \A u \in User : ~(page'[u] = p /\ pc'[u] = "reading")
    BY <1>2, <1>7, <2>1 DEF Uses
  <2>5. \A u \in User : Uses(u, p)' => p \in Range(lru') /\ element'[p].block = request'[u].block
    BY <1>2, <1>3, <1>4, <1>5, <1>7, <2>1 DEF PageOK
  <2> QED BY <1>2, <1>4, <1>5, <1>6, <2>2, <2>3, <2>4, <2>5 DEF PageOK
<1>10. CacheTypes'
  BY <1>2, <1>5 DEF CacheTypes, AccountInv
<1>11. pc[Resizer] # "idle" => pc'[Resizer] # "idle"
  BY <1>1, <1>2 DEF Steps, Threads, FsCacheAssumption
<1>12. ListOK'
  <2>1. Range(lru) \subseteq Page /\ Range(array) \subseteq Page
    BY DEF AccountInv, CacheTypes, Range
  <2>2. \A q \in Page : /\ element'[q].block = element[q].block
                        /\ element'[q].deletePending = element[q].deletePending
    BY <1>5
  <2> QED BY <1>2, <1>11, <2>1, <2>2 DEF AccountInv, ListOK
<1> QED BY <1>8, <1>9, <1>10, <1>12 DEF Accounted, UsageOK

(* FscDiscardBuffer throws away a page its caller alone uses. *)
LEMMA DiscardAccounted ==
    ASSUME AccountInv, FsCacheAssumption, NEW t \in User, NEW pcs, FscDiscardBuffer(t, pcs),
           pc[t] \in {"reading", "mapped"}, pc[t] = "mapped" => request[t].mode # "read",
           pcs = pc \/ pcs = Pulsed(page[t]), disturbed' \in BOOLEAN
    PROVE  Accounted'
<1>1. Steps(t) /\ pc'[t] = "idle"
  BY DiscardSteps DEF AccountInv
<1>2. PICK p \in Page : p = page[t] /\ Uses(t, p)
  BY DEF AccountInv, CallsInv, UserCallsOK, Uses
<1>3. element \in [Page -> Element] /\ PageOK(p)
  BY <1>2 DEF AccountInv, CacheTypes, UsageOK
<1>4. /\ element' = [element EXCEPT ![p] = Empty] /\ lru' = ToHead(p)
      /\ array' = array /\ toRelease' = toRelease
  BY <1>2 DEF FscDiscardBuffer
<1>5. /\ \A q \in Page : q # p => element'[q] = element[q]
      /\ element'[p].usage = 0 /\ element'[p].reading = FALSE /\ element'[p].writable = FALSE
      /\ element'[p].block = NoBlock /\ element'[p].deletePending = FALSE
  BY <1>3, <1>4 DEF Empty
<1>6. p \in Range(lru)
  BY <1>2, <1>3 DEF PageOK
<1>7. Lists(lru', Range(lru)) /\ HeadOf(lru', lru, p)
  BY <1>4, <1>6, MovedToFront DEF ToHead, AccountInv, CacheTypes
<1>8. \A u \in User : Uses(u, p) => u = t
  <2>1. pc[t] = "reading" => element[p].usage = 1
    BY <1>2, <1>3 DEF PageOK
  <2> QED BY <1>2, <2>1, Used DEF AccountInv
<1>9. ASSUME NEW q \in Page, q # p
      PROVE  PageOK(q)'
  <2>1. UsedAsBefore(t, q)
    BY <1>1, <1>2, <1>5, <1>7, <1>9 DEF UsedAsBefore, Uses, Lists
  <2> QED BY <1>1, <2>1, PageKept DEF AccountInv, UsageOK
<1>10. PageOK(p)'
  <2>1. \A u \in User : ~Uses(u, p)'
    BY <1>1, <1>8, OthersUse DEF AccountInv, Uses
  <2>2. Users(p)' = {}
    BY <2>1 DEF Users
  <2>3. Cardinality(Users(p)') = 0
    BY <2>2, FS_EmptySet
  <2> QED BY <1>5, <2>1, <2>3 DEF PageOK, Uses
<1>11. element' \in [Page -> Element]
  <2>1. Cardinality(User) \in Nat
    BY NobodyCounted DEF FsCacheAssumption
  <2>2. Empty \in Element
    BY <2>1 DEF Empty, Element
  <2> QED BY <1>3, <1>4, <2>2
<1>12. CacheTypes'
  BY <1>4, <1>7, <1>11 DEF CacheTypes, AccountInv, Lists
<1>13. ListOK'
  <2>1. Range(lru) \subseteq Page /\ Range(array) \subseteq Page
    BY DEF AccountInv, CacheTypes, Range
  <2>2. ~element[p].deletePending
    BY <1>6 DEF AccountInv, ListOK
  <2>3. Range(lru') = {q \in Range(array') : ~element'[q].deletePending}
    <3>1. \A q \in Page : element'[q].deletePending <=> element[q].deletePending
      BY <1>5, <2>2
    <3> QED BY <1>4, <1>7, <2>1, <3>1 DEF AccountInv, ListOK, Lists
  <2>4. ASSUME NEW q \in Range(lru'), NEW r \in Range(lru'), Before(lru', q, r),
               element'[r].block = NoBlock
        PROVE  element'[q].block = NoBlock
    <3>1. q \in Range(lru) /\ r \in Range(lru)
      BY <1>7 DEF Lists
    <3>2. r # p /\ (q = p \/ Before(lru, q, r))
      BY <1>7, <2>1, <2>4, <3>1 DEF HeadOf
    <3> QED BY <1>5, <2>1, <2>4, <3>1, <3>2 DEF AccountInv, ListOK
  <2>5. pc[Resizer] # "idle" => pc'[Resizer] # "idle"
    BY <1>1 DEF Steps, Threads, FsCacheAssumption
  <2>6. \A q \in Page : element'[q].deletePending => pc'[Resizer] # "idle"
    BY <1>5, <2>5 DEF AccountInv, ListOK
  <2> QED BY <2>3, <2>4, <2>6 DEF ListOK
<1> QED BY <1>9, <1>10, <1>12, <1>13 DEF Accounted, UsageOK

(* What Written leaves alone. *)
SameButFresh(e) ==
    /\ e \in [Page -> Element]
    /\ \A q \in Page :
        /\ e[q].usage = element[q].usage /\ e[q].block = element[q].block
        /\ e[q].reading = element[q].reading /\ e[q].readWaiters = element[q].readWaiters
        /\ e[q].writable = element[q].writable /\ e[q].deletePending = element[q].deletePending

LEMMA WrittenElements ==
    ASSUME CacheTypes, NEW b, NEW p
    PROVE  /\ SameButFresh(Written(b, p))
           /\ \A q \in Page : Written(b, p)[q].fresh =
                                IF element[q].block = b THEN q = p ELSE element[q].fresh
<1>1. element \in [Page -> Element]
  BY DEF CacheTypes
<1>2. \A q \in Page : Written(b, p)[q] = IF element[q].block = b THEN [element[q] EXCEPT !.fresh = q = p]
                                         ELSE element[q]
  BY DEF Written
<1>3. ASSUME NEW q \in Page
      PROVE  /\ Written(b, p)[q].usage = element[q].usage
             /\ Written(b, p)[q].block = element[q].block
             /\ Written(b, p)[q].reading = element[q].reading
             /\ Written(b, p)[q].readWaiters = element[q].readWaiters
             /\ Written(b, p)[q].writable = element[q].writable
             /\ Written(b, p)[q].deletePending = element[q].deletePending
             /\ Written(b, p)[q] \in Element
             /\ Written(b, p)[q].fresh = IF element[q].block = b THEN q = p ELSE element[q].fresh
  <2> DEFINE e == [element[q] EXCEPT !.fresh = (q = p)]
  <2>1. /\ e \in Element /\ e.usage = element[q].usage /\ e.block = element[q].block
        /\ e.reading = element[q].reading /\ e.readWaiters = element[q].readWaiters
        /\ e.writable = element[q].writable /\ e.deletePending = element[q].deletePending
        /\ e.fresh = (q = p)
    BY <1>1 DEF Element
  <2>2. Written(b, p)[q] = IF element[q].block = b THEN e ELSE element[q]
    BY <1>2
  <2> HIDE DEF e, Written
  <2> QED BY <1>1, <2>1, <2>2
<1>4. Written(b, p) \in [Page -> Element]
  <2>1. \A q \in Page : Written(b, p)[q] \in Element
    BY <1>3
  <2>2. Written(b, p) = [q \in Page |-> Written(b, p)[q]]
    BY DEF Written
  <2> HIDE DEF Written
  <2> QED BY <2>1, <2>2
<1> HIDE DEF Written
<1> QED BY <1>3, <1>4 DEF SameButFresh

LEMMA UnmapAccounted ==
    ASSUME AccountInv, FsCacheAssumption, NEW t \in User, NEW e, FscUnmapBuffer(t, e),
           SameButFresh(e), pc[t] = "mapped", disturbed' \in BOOLEAN
    PROVE  Accounted'
<1>1. Steps(t) /\ pc'[t] = "idle"
  BY UnmapSteps DEF AccountInv
<1>2. PICK p \in Page : p = page[t] /\ Uses(t, p)
  BY DEF AccountInv, CallsInv, UserCallsOK, Uses
<1>3. e \in [Page -> Element] /\ PageOK(p) /\ t \in Users(p)
  BY <1>2 DEF AccountInv, UsageOK, Users, SameButFresh
<1>4. /\ element' = [e EXCEPT ![p].usage = @ - 1, ![p].writable = FALSE]
      /\ lru' = lru /\ array' = array /\ toRelease' = toRelease
  BY <1>2 DEF FscUnmapBuffer
<1>5. /\ \A q \in Page : q # p => element'[q] = e[q]
      /\ element'[p].usage = element[p].usage - 1 /\ element'[p].reading = element[p].reading
      /\ element'[p].writable = FALSE /\ element'[p].block = element[p].block
      /\ element'[p].deletePending = element[p].deletePending
      /\ element'[p] = [e[p] EXCEPT !.usage = @ - 1, !.writable = FALSE]
  BY <1>3, <1>4 DEF SameButFresh, Element
<1>6. ~element[p].reading
  <2> SUFFICES ASSUME element[p].reading PROVE FALSE
    OBVIOUS
  <2>1. PICK u \in User : page[u] = p /\ pc[u] = "reading"
    BY <1>3 DEF PageOK
  <2>2. u = t
    BY <1>2, <1>3, <2>1, Used DEF AccountInv, PageOK, Uses
  <2> QED BY <2>1, <2>2
<1>7. ASSUME NEW q \in Page, q # p
      PROVE  PageOK(q)'
  <2>1. UsedAsBefore(t, q)
    BY <1>1, <1>2, <1>4, <1>5, <1>7 DEF UsedAsBefore, Uses, SameButFresh
  <2> QED BY <1>1, <2>1, PageKept DEF AccountInv, UsageOK
<1>8. PageOK(p)'
  <2>1. \A u \in User : u # t => /\ Uses(u, p)' <=> Uses(u, p)
                                 /\ pc'[u] = "reading" <=> pc[u] = "reading"
                                 /\ page'[u] = page[u] /\ request'[u] = request[u]
    BY <1>1, OthersUse DEF AccountInv
  <2>2. ~Uses(t, p)'
    BY <1>1 DEF Uses
  <2>3. Users(p)' = Users(p) \ {t}
    BY <2>1, <2>2 DEF Users
  <2>4. element'[p].usage = Cardinality(Users(p)')
    <3>1. Cardinality(Users(p)') = Cardinality(Users(p)) - 1
      BY <1>3, <2>3, UsersFinite, OneLess
    <3> QED BY <1>3, <1>5, <3>1 DEF PageOK
  <2>5. \A u \in User : ~(page[u] = p /\ pc[u] = "reading")
    BY <1>3, <1>6 DEF PageOK
  <2>6. \A u \in User : ~(page'[u] = p /\ pc'[u] = "reading")
    BY <1>1, <2>1, <2>5
  <2>7. element'[p].reading = FALSE
    BY <1>3, <1>5, <2>5 DEF PageOK
  <2>8. \A u \in User : Uses(u, p)' => p \in Range(lru') /\ element'[p].block = request'[u].block
    BY <1>3, <1>4, <1>5, <2>1, <2>2 DEF PageOK
  <2> QED BY <1>5, <2>4, <2>6, <2>7, <2>8 DEF PageOK
<1>9. element' \in [Page -> Element]
  <2>1. element'[p].usage \in 0..Cardinality(User)
    BY <1>8, UsageInRange
  <2>2. element'[p] \in Element
    <3>1. e[p] \in Element
      BY <1>3
    <3>2. \A n \in 0..Cardinality(User) : [e[p] EXCEPT !.usage = n, !.writable = FALSE] \in Element
      BY <3>1 DEF Element
    <3>3. PICK n : n = e[p].usage - 1
      OBVIOUS
    <3>4. element'[p] = [e[p] EXCEPT !.usage = n, !.writable = FALSE]
      BY <1>5, <3>3
    <3>5. element'[p].usage = n
      BY <3>1, <3>4 DEF Element
    <3> QED BY <2>1, <3>2, <3>4, <3>5
  <2>3. e \in [Page -> Element]
    BY <1>3
  <2>4. ASSUME NEW q \in Page
        PROVE  element'[q] \in Element
    <3>1. q # p => element'[q] = e[q]
      BY <1>5
    <3>2. e[q] \in Element
      BY <2>3
    <3> QED BY <2>2, <3>1, <3>2
  <2>5. element' = [q \in Page |-> element'[q]]
    BY <1>4, <2>3
  <2> QED BY <2>4, <2>5
<1>10. CacheTypes'
  BY <1>4, <1>9 DEF CacheTypes, AccountInv
<1>11. ListOK'
  <2>1. Range(lru) \subseteq Page /\ Range(array) \subseteq Page
    BY DEF AccountInv, CacheTypes, Range
  <2>2. \A q \in Page : /\ element'[q].block = element[q].block
                        /\ element'[q].deletePending = element[q].deletePending
    BY <1>5 DEF SameButFresh
  <2>3. pc[Resizer] # "idle" => pc'[Resizer] # "idle"
    BY <1>1 DEF Steps, Threads, FsCacheAssumption
  <2>4. Range(lru') = {q \in Range(array') : ~element'[q].deletePending}
    BY <1>4, <2>1, <2>2 DEF AccountInv, ListOK
  <2>5. \A q, r \in Range(lru') : (Before(lru', q, r) /\ element'[r].block = NoBlock)
                                    => element'[q].block = NoBlock
    BY <1>4, <2>1, <2>2 DEF AccountInv, ListOK
  <2>6. \A q \in Page : element'[q].deletePending => pc'[Resizer] # "idle"
    BY <2>2, <2>3 DEF AccountInv, ListOK
  <2> QED BY <2>4, <2>5, <2>6 DEF ListOK
<1> QED BY <1>7, <1>8, <1>10, <1>11 DEF Accounted, UsageOK

LEMMA DirectWriteAccounted ==
    ASSUME AccountInv, FsCacheAssumption, NEW t \in User, DirectWrite(t), UNCHANGED disturbed
    PROVE  Accounted'
<1>1. Steps(t)
  BY DirectWriteSteps DEF AccountInv
<1>2. /\ pc[t] = "directio" /\ pc'[t] = "idle" /\ element' = Written(request[t].block, NoPage)
      /\ lru' = lru /\ array' = array /\ toRelease' = toRelease
  BY DEF DirectWrite, Goes, AccountInv, CallsInv, CallTypes, Threads
<1>3. SameButFresh(element')
  BY <1>2, WrittenElements DEF AccountInv
<1>4. ASSUME NEW q \in Page
      PROVE  PageOK(q)'
  <2>1. UsedAsBefore(t, q)
    BY <1>2, <1>3 DEF UsedAsBefore, Uses, SameButFresh
  <2> QED BY <1>1, <2>1, PageKept DEF AccountInv, UsageOK
<1>5. CacheTypes'
  BY <1>2, <1>3 DEF CacheTypes, AccountInv, SameButFresh
<1>6. ListOK'
  <2>1. Range(lru) \subseteq Page /\ Range(array) \subseteq Page
    BY DEF AccountInv, CacheTypes, Range
  <2>2. pc[Resizer] # "idle" => pc'[Resizer] # "idle"
    BY <1>1, <1>2 DEF Steps, Threads, FsCacheAssumption
  <2> QED BY <1>2, <1>3, <2>1, <2>2 DEF AccountInv, ListOK, SameButFresh
<1> QED BY <1>4, <1>5, <1>6 DEF Accounted, UsageOK

LEMMA InvalidateAccounted ==
    ASSUME AccountInv, FsCacheAssumption, NEW t, Steps(t), NEW B, NEW pcs,
           FscInvalidateBlocks(B, pcs), page' = page, disturbed' \in BOOLEAN,
           t \in User => \A p \in Page : ~Uses(t, p) /\ ~Uses(t, p)',
           pc[Resizer] # "idle" => pc'[Resizer] # "idle"
    PROVE  Accounted'
<1> DEFINE I == Invalidated(B)
<1>1. /\ I \subseteq Range(lru) /\ Range(lru) \subseteq Page /\ Range(array) \subseteq Page
      /\ IsFiniteSet(Range(lru))
  <2>1. Range(lru) \subseteq Page /\ Range(array) \subseteq Page
    BY DEF AccountInv, CacheTypes, Range
  <2>2. IsFiniteSet(Range(lru))
    BY PagesFinite DEF AccountInv
  <2> QED BY <2>1, <2>2 DEF Invalidated
<1>2. /\ lru' \in Arranged(Range(lru), MovedToHead(I))
      /\ element' = [p \in Page |-> IF p \in I THEN Empty ELSE element[p]]
      /\ array' = array /\ toRelease' = toRelease
  BY DEF FscInvalidateBlocks
<1>3. \A p \in I : Free(p)
  BY DEF Invalidated
<1>4. Lists(lru', Range(lru)) /\ Ordered(lru', MovedToHead(I))
  BY <1>1, <1>2, ArrangedLists
<1> HIDE DEF I
<1>5. ASSUME NEW p \in Page
      PROVE  PageOK(p)'
  <2>1. CASE p \in I
    <3>1. element[p].usage = 0
      BY <1>3, <2>1 DEF Free
    <3>2. element'[p].usage = 0 /\ element'[p].reading = FALSE /\ element'[p].writable = FALSE
      BY <1>2, <2>1 DEF Empty
    <3> QED BY <3>1, <3>2, PageLeft DEF AccountInv, UsageOK
  <2>2. CASE p \notin I
    <3>1. UsedAsBefore(t, p)
      BY <1>2, <1>4, <2>2 DEF UsedAsBefore, Lists
    <3> QED BY <3>1, PageKept DEF AccountInv, UsageOK
  <2> QED BY <2>1, <2>2
<1>6. element' \in [Page -> Element]
  <2>1. Cardinality(User) \in Nat
    BY NobodyCounted DEF FsCacheAssumption
  <2>2. Empty \in Element
    BY <2>1 DEF Empty, Element
  <2> QED BY <1>2, <2>2 DEF AccountInv, CacheTypes
<1>7. CacheTypes'
  BY <1>2, <1>4, <1>6 DEF CacheTypes, AccountInv, Lists
<1>8. \A p \in Page : element'[p].deletePending <=> element[p].deletePending
  BY <1>1, <1>2 DEF AccountInv, ListOK, Empty
<1>9. ASSUME NEW q \in Range(lru'), NEW r \in Range(lru'), Before(lru', q, r),
             element'[r].block = NoBlock
      PROVE  element'[q].block = NoBlock
  <2>1. q \in Range(lru) /\ r \in Range(lru)
    BY <1>4 DEF Lists
  <2>2. q \in Page /\ r \in Page
    BY <1>1, <2>1
  <2>3. <<q, r>> \in MovedToHead(I)
    BY <1>4, <1>9, <2>2 DEF Ordered
  <2>4. IF q \in I THEN r \in I => Before(lru, q, r) ELSE r \notin I /\ Before(lru, q, r)
    BY <2>3 DEF MovedToHead
  <2>5. CASE q \in I
    BY <1>2, <2>2, <2>5 DEF Empty
  <2>6. CASE q \notin I
    BY <1>2, <1>9, <2>1, <2>2, <2>4, <2>6 DEF AccountInv, ListOK
  <2> QED BY <2>5, <2>6
<1>10. Range(lru') = {p \in Range(array') : ~element'[p].deletePending}
  BY <1>1, <1>2, <1>4, <1>8 DEF AccountInv, ListOK, Lists
<1>11. ListOK'
  BY <1>8, <1>9, <1>10 DEF AccountInv, ListOK
<1> QED BY <1>5, <1>7, <1>11 DEF Accounted, UsageOK

(* FscBuildElementLruList puts the pages without a block in front. *)
BlankFirst(z) ==
    \A p, q \in Page : (Before(z, p, q) /\ element[q].block = NoBlock) => element[p].block = NoBlock

LEMMA BuiltLru ==
    ASSUME FsCacheAssumption, NEW s \in Seq(Page), NEW z \in BuildLru(s)
    PROVE  Lists(z, Range(s)) /\ BlankFirst(z)
<1> DEFINE blank == {p \in Range(s) : element[p].block = NoBlock}
           R == {r \in Range(s) \X Range(s) :
                    IF r[1] \in blank THEN r[2] \in blank => Before(s, r[2], r[1])
                                      ELSE r[2] \notin blank /\ Before(s, r[1], r[2])}
<1>1. Range(s) \in SUBSET Page /\ IsFiniteSet(Page)
  BY DEF Range, FsCacheAssumption
<1>2. IsFiniteSet(Range(s))
  BY <1>1, NoMore
<1>3. z \in Arranged(Range(s), R)
  BY DEF BuildLru
<1>4. ASSUME NEW p, NEW q, <<p, q>> \in R, element[q].block = NoBlock
      PROVE  element[p].block = NoBlock
  BY <1>4
<1> HIDE DEF R
<1>5. Lists(z, Range(s)) /\ Ordered(z, R)
  BY <1>1, <1>2, <1>3, ArrangedLists
<1> QED BY <1>4, <1>5 DEF Ordered, BlankFirst

LEMMA GrowAccounted ==
    ASSUME AccountInv, FsCacheAssumption, NEW n \in Size, FscGrowCacheSize(n), disturbed' \in BOOLEAN
    PROVE  Accounted'
<1>1. Steps(Resizer)
  BY GrowSteps DEF AccountInv
<1>2. PICK s \in [1..n - Len(array) -> Page \ Range(array)] :
        IsInjective(s) /\ array' = array \o s /\ lru' \in BuildLru(array')
  BY DEF FscGrowCacheSize
<1>3. /\ pc[Resizer] = "idle" /\ n > Len(array) /\ element' = element /\ toRelease' = toRelease
      /\ pc' = pc /\ page' = page /\ request' = request
  BY DEF FscGrowCacheSize
<1>4. array \in Seq(Page) /\ IsInjective(array) /\ Len(array) \in Nat
  BY DEF AccountInv, CacheTypes
<1>5. n - Len(array) \in Nat
  <2>1. Cardinality(Page) \in Nat
    BY NobodyCounted DEF FsCacheAssumption
  <2>2. n \in 0..Cardinality(Page)
    BY DEF FsCacheAssumption
  <2> QED BY <1>3, <1>4, <2>1, <2>2
<1>6. Lists(array', Range(array) \cup Range(s))
  BY <1>2, <1>4, <1>5, ArrayGrows
<1>7. Lists(lru', Range(array')) /\ BlankFirst(lru')
  <2>1. array' \in Seq(Page)
    BY <1>6 DEF Lists
  <2> QED BY <1>2, <2>1, BuiltLru
<1>8. \A p \in Page : ~element[p].deletePending
  BY <1>3 DEF AccountInv, ListOK
<1>9. Range(lru) \subseteq Range(lru') /\ Range(array') \subseteq Page /\ Range(lru') = Range(array')
  <2>1. Range(lru) \subseteq Range(array)
    BY DEF AccountInv, ListOK
  <2>2. Range(array') \subseteq Page
    BY <1>6 DEF Lists, Range
  <2> QED BY <1>6, <1>7, <2>1, <2>2 DEF Lists
<1>10. ASSUME NEW p \in Page
       PROVE  PageOK(p)'
  <2>1. UsedAsBefore(Resizer, p)
    BY <1>3, <1>9 DEF UsedAsBefore, FsCacheAssumption
  <2> QED BY <1>1, <2>1, PageKept DEF AccountInv, UsageOK
<1>11. CacheTypes'
  BY <1>3, <1>6, <1>7 DEF CacheTypes, AccountInv, Lists
<1>12. ListOK'
  <2>1. Range(lru') = {p \in Range(array') : ~element'[p].deletePending}
    BY <1>3, <1>8, <1>9
  <2>2. \A p, q \in Range(lru') : (Before(lru', p, q) /\ element'[q].block = NoBlock)
                                    => element'[p].block = NoBlock
    BY <1>3, <1>7, <1>9 DEF BlankFirst
  <2> QED BY <1>3, <1>8, <2>1, <2>2 DEF ListOK
<1> QED BY <1>10, <1>11, <1>12 DEF Accounted, UsageOK

(* What FscShrinkCacheSize releases is free and not yet marked. *)
LEMMA ReleasedPages ==
    ASSUME AccountInv, FsCacheAssumption, NEW n
    PROVE  /\ Released(array, n) \subseteq Range(array) /\ Range(array) \subseteq Page
           /\ \A p \in Released(array, n) : Free(p) /\ ~element[p].deletePending
           /\ IsFiniteSet(Releasable(array)) /\ Cardinality(Releasable(array)) \in Nat
<1>1. array \in Seq(Page) /\ DOMAIN array = 1..Len(array) /\ Len(array) \in Nat
  BY DEF AccountInv, CacheTypes
<1>2. Releasable(array) \subseteq 1..Len(array)
  BY DEF Releasable
<1>3. IsFiniteSet(1..Len(array))
  BY <1>1, FS_Interval
<1>4. Released(array, n) \subseteq Range(array) /\ Range(array) \subseteq Page
  <2>1. \A i \in Releasable(array) : i \in DOMAIN array
    BY <1>1, <1>2
  <2>2. Released(array, n) \subseteq Range(array)
    BY <2>1 DEF Released, Range
  <2>3. Range(array) \subseteq Page
    BY <1>1 DEF Range
  <2> QED BY <2>2, <2>3
<1>5. \A p \in Released(array, n) : Free(p) /\ ~element[p].deletePending
  BY DEF Released, Releasable
<1>6. IsFiniteSet(Releasable(array)) /\ Cardinality(Releasable(array)) \in Nat
  BY <1>2, <1>3, NoMore
<1> QED BY <1>4, <1>5, <1>6

LEMMA ReleaseSomeAccounted ==
    ASSUME AccountInv, FsCacheAssumption, NEW n \in 0..Cardinality(Page), ReleaseSome(n),
           UNCHANGED <<request, page>>, pc[Resizer] \in {"idle", "woken"}, disturbed' \in BOOLEAN
    PROVE  Accounted'
<1> DEFINE M == Released(array, n)
<1>1. Steps(Resizer) /\ pc'[Resizer] = "waiting"
  BY ReleaseSomeSteps DEF AccountInv
<1>2. /\ M \subseteq Range(array) /\ Range(array) \subseteq Page
      /\ \A p \in M : Free(p) /\ ~element[p].deletePending
      /\ Cardinality(Releasable(array)) \in Nat
  BY ReleasedPages
<1>3. /\ element' = [p \in Page |-> IF p \in M THEN [Empty EXCEPT !.deletePending = TRUE] ELSE element[p]]
      /\ lru' \in Arranged(Range(lru) \ M, InOrder(lru))
      /\ Cardinality(Releasable(array)) < n
      /\ toRelease' = n - Cardinality(Releasable(array)) /\ array' = array
  BY DEF ReleaseSome, Mark
<1>4. Range(lru) \subseteq Page /\ Range(lru) \ M \in SUBSET Page /\ IsFiniteSet(Range(lru) \ M)
  <2>1. Range(lru) \subseteq Page
    BY DEF AccountInv, CacheTypes, Range
  <2> QED BY <2>1, PagesFinite DEF AccountInv
<1>5. Lists(lru', Range(lru) \ M) /\ Ordered(lru', InOrder(lru))
  BY <1>3, <1>4, ArrangedLists
<1> HIDE DEF M
<1>6. \A p \in Page : p \in M => /\ element'[p].usage = 0 /\ element'[p].reading = FALSE
                                 /\ element'[p].writable = FALSE /\ element'[p].deletePending
  BY <1>3 DEF Empty
<1>7. \A p \in Page : p \notin M => element'[p] = element[p]
  BY <1>3
<1>8. ASSUME NEW p \in Page
      PROVE  PageOK(p)'
  <2>1. CASE p \in M
    <3>1. element[p].usage = 0
      BY <1>2, <2>1 DEF Free
    <3> QED BY <1>1, <1>6, <2>1, <3>1, PageLeft DEF AccountInv, UsageOK, FsCacheAssumption
  <2>2. CASE p \notin M
    <3>1. UsedAsBefore(Resizer, p)
      BY <1>5, <1>7, <2>2 DEF UsedAsBefore, Lists, FsCacheAssumption
    <3> QED BY <1>1, <3>1, PageKept DEF AccountInv, UsageOK
  <2> QED BY <2>1, <2>2
<1>9. element' \in [Page -> Element]
  <2>1. Cardinality(User) \in Nat
    BY NobodyCounted DEF FsCacheAssumption
  <2>2. Empty \in Element
    BY <2>1 DEF Empty, Element
  <2>3. [Empty EXCEPT !.deletePending = TRUE] \in Element
    BY <2>2 DEF Element
  <2> QED BY <1>3, <2>3 DEF AccountInv, CacheTypes
<1>10. toRelease' \in 0..Cardinality(Page)
  <2>1. Cardinality(Page) \in Nat
    BY NobodyCounted DEF FsCacheAssumption
  <2> QED BY <1>2, <1>3, <2>1
<1>11. CacheTypes'
  BY <1>3, <1>5, <1>9, <1>10 DEF CacheTypes, AccountInv, Lists
<1>12. ListOK'
  <2>1. Range(lru') = {p \in Range(array') : ~element'[p].deletePending}
    BY <1>2, <1>3, <1>5, <1>6, <1>7 DEF AccountInv, ListOK, Lists
  <2>2. ASSUME NEW q \in Range(lru'), NEW r \in Range(lru'), Before(lru', q, r),
               element'[r].block = NoBlock
        PROVE  element'[q].block = NoBlock
    <3>1. q \in Range(lru) /\ r \in Range(lru) /\ q \notin M /\ r \notin M
      BY <1>5 DEF Lists
    <3>2. <<q, r>> \in InOrder(lru)
      BY <1>4, <1>5, <2>2, <3>1 DEF Ordered
    <3>3. Before(lru, q, r)
      BY <3>2 DEF InOrder
    <3> QED BY <1>4, <1>7, <2>2, <3>1, <3>3 DEF AccountInv, ListOK
  <2> QED BY <1>1, <2>1, <2>2 DEF ListOK
<1> QED BY <1>8, <1>11, <1>12 DEF Accounted, UsageOK

LEMMA ReleaseAllAccounted ==
    ASSUME AccountInv, FsCacheAssumption, NEW n, ReleaseAll(n),
           UNCHANGED <<request, page>>, pc[Resizer] \in {"idle", "woken"}, disturbed' \in BOOLEAN
    PROVE  Accounted'
<1>1. Steps(Resizer) /\ pc'[Resizer] = "idle"
  BY ReleaseAllSteps DEF AccountInv
<1>2. PICK F \in SUBSET Page :
        /\ F = {p \in Page : element[p].deletePending} \cup Released(array, n)
        /\ array' \in Arranged(Range(array) \ F, InOrder(array))
        /\ element' = [p \in Page |-> IF p \in F THEN Empty ELSE element[p]]
        /\ lru' \in BuildLru(array')
        /\ toRelease' = 0
  <2>1. {p \in Page : element[p].deletePending} \cup Released(array, n) \in SUBSET Page
    BY ReleasedPages
  <2> QED BY <2>1 DEF ReleaseAll
<1>3. Range(array) \subseteq Page /\ Range(array) \ F \in SUBSET Page /\ IsFiniteSet(Range(array) \ F)
  <2>1. Range(array) \subseteq Page
    BY DEF AccountInv, CacheTypes, Range
  <2> QED BY <2>1, PagesFinite DEF AccountInv
<1>4. Lists(array', Range(array) \ F)
  BY <1>2, <1>3, ArrangedLists
<1>5. Lists(lru', Range(array')) /\ BlankFirst(lru')
  <2>1. array' \in Seq(Page)
    BY <1>4 DEF Lists
  <2> QED BY <1>2, <2>1, BuiltLru
<1>6. Range(array') = Range(array) \ F /\ Range(lru') = Range(array) \ F
  BY <1>4, <1>5 DEF Lists
<1>7. \A p \in Page : p \in F => /\ element'[p].usage = 0 /\ element'[p].reading = FALSE
                                 /\ element'[p].writable = FALSE /\ ~element'[p].deletePending
  BY <1>2 DEF Empty
<1>8. \A p \in Page : p \notin F => element'[p] = element[p] /\ ~element[p].deletePending
  BY <1>2
<1>9. \A p \in Page : p \in F => element[p].usage = 0
  <2> SUFFICES ASSUME NEW p \in Page, p \in F PROVE element[p].usage = 0
    OBVIOUS
  <2>1. CASE p \in Released(array, n)
    BY <2>1, ReleasedPages DEF Free
  <2>2. CASE element[p].deletePending
    <3>1. p \notin Range(lru) /\ PageOK(p)
      BY <2>2 DEF AccountInv, ListOK, UsageOK
    <3>2. Users(p) = {}
      BY <3>1 DEF PageOK, Users
    <3> QED BY <3>1, <3>2, UsersFinite DEF PageOK
  <2> QED BY <1>2, <2>1, <2>2
<1>10. ASSUME NEW p \in Page
       PROVE  PageOK(p)'
  <2>1. CASE p \in F
    BY <1>1, <1>7, <1>9, <2>1, PageLeft DEF AccountInv, UsageOK, FsCacheAssumption
  <2>2. CASE p \notin F
    <3>1. p \in Range(lru) => p \in Range(lru')
      BY <1>6, <2>2 DEF AccountInv, ListOK
    <3>2. UsedAsBefore(Resizer, p)
      BY <1>8, <2>2, <3>1 DEF UsedAsBefore, FsCacheAssumption
    <3> QED BY <1>1, <3>2, PageKept DEF AccountInv, UsageOK
  <2> QED BY <2>1, <2>2
<1>11. element' \in [Page -> Element]
  <2>1. Cardinality(User) \in Nat
    BY NobodyCounted DEF FsCacheAssumption
  <2>2. Empty \in Element
    BY <2>1 DEF Empty, Element
  <2> QED BY <1>2, <2>2 DEF AccountInv, CacheTypes
<1>12. toRelease' \in 0..Cardinality(Page)
  <2>1. Cardinality(Page) \in Nat
    BY NobodyCounted DEF FsCacheAssumption
  <2> QED BY <1>2, <2>1
<1>13. CacheTypes'
  BY <1>4, <1>5, <1>11, <1>12 DEF CacheTypes, Lists
<1>14. ListOK'
  <2>1. \A p \in Page : ~element'[p].deletePending
    BY <1>7, <1>8
  <2>2. Range(lru') = {p \in Range(array') : ~element'[p].deletePending}
    BY <1>3, <1>6, <2>1
  <2>3. \A p, q \in Range(lru') : (Before(lru', p, q) /\ element'[q].block = NoBlock)
                                    => element'[p].block = NoBlock
    BY <1>3, <1>5, <1>6, <1>8 DEF BlankFirst
  <2> QED BY <2>1, <2>2, <2>3 DEF ListOK
<1> QED BY <1>10, <1>13, <1>14 DEF Accounted, UsageOK

-----------------------------------------------------------------------------
(* The file system cache: nobody waits for what has come.                  *)

FreePages == {p \in Range(lru) : Free(p)}
Told == {a \in Threads : pc[a] = "woken"}

FreeTold == Range(waiting) \ missed # {} => Cardinality(FreePages) <= Cardinality(Told)

PulsesCome == \A t \in User \ missed : PulseComing(t)

LEMMA WakeupParts ==
    ASSUME CallsInv
    PROVE  NoLostWakeup <=> FreeTold /\ PulsesCome
<1>1. DOMAIN pc = Threads
  BY DEF CallsInv, CallTypes
<1>2. {a \in DOMAIN pc : pc[a] = "woken"} = Told
  BY <1>1 DEF Told
<1>3. {p \in Range(lru) : Free(p)} = FreePages
  BY DEF FreePages
<1> HIDE DEF Told, FreePages
<1> QED BY <1>2, <1>3 DEF NoLostWakeup, FreeTold, PulsesCome

LEMMA WakeupPartsNext ==
    ASSUME CallsInv', FreeTold', PulsesCome'
    PROVE  NoLostWakeup'
<1>1. DOMAIN pc' = Threads
  BY DEF CallsInv, CallTypes
<1>2. {a \in DOMAIN pc : pc[a] = "woken"}' = Told'
  BY <1>1 DEF Told
<1>3. {p \in Range(lru) : Free(p)}' = FreePages'
  BY DEF FreePages
<1> HIDE DEF Told, FreePages
<1> QED BY <1>2, <1>3 DEF NoLostWakeup, FreeTold, PulsesCome

LEMMA CountedNow ==
    ASSUME AccountInv, FsCacheAssumption
    PROVE  IsFiniteSet(FreePages) /\ IsFiniteSet(Told)
<1>1. IsFiniteSet(FreePages)
  BY PagesFinite DEF FreePages, AccountInv
<1>2. IsFiniteSet(Threads)
  BY FS_AddElement DEF Threads, FsCacheAssumption
<1>3. Told \subseteq Threads
  BY DEF Told
<1> QED BY <1>1, <1>2, <1>3, NoMore

LEMMA CountedNext ==
    ASSUME CacheTypes', FsCacheAssumption
    PROVE  IsFiniteSet(FreePages') /\ IsFiniteSet(Told')
<1>1. FreePages' \subseteq Page /\ IsFiniteSet(Page)
  BY DEF FreePages, CacheTypes, Range, FsCacheAssumption
<1>2. IsFiniteSet(Threads)
  BY FS_AddElement DEF Threads, FsCacheAssumption
<1>3. Told' \subseteq Threads
  BY DEF Told
<1> QED BY <1>1, <1>2, <1>3, NoMore

(* Who waits after a step of t and has missed nothing waited before. *)
LEMMA WaitedBefore ==
    ASSUME CallsInv, NEW t, Steps(t), NEW N, Misses(N), NEW a \in Range(waiting'), a \notin missed', a # t
    PROVE  a \in Range(waiting) /\ a \notin missed
<1>1. a \in Threads /\ pc'[a] = "waiting"
  BY DEF Steps
<1>2. pc[a] = "waiting"
  BY <1>1 DEF Steps
<1>3. a \in Range(waiting)
  BY <1>1, <1>2 DEF CallsInv, WaitersOK
<1>4. a \notin missed
  BY <1>1 DEF Misses, StillWaiting
<1> QED BY <1>3, <1>4

(* No more free pages, and nobody told has gone. *)
LEMMA FreeToldStays ==
    ASSUME AccountInv, FsCacheAssumption, FreeTold, NEW t, Steps(t), NEW N, Misses(N), CacheTypes',
           t \in Range(waiting') => t \in missed' \/ (t \in Range(waiting) /\ t \notin missed),
           FreePages' \subseteq FreePages, Told \subseteq Told'
    PROVE  FreeTold'
<1> SUFFICES ASSUME NEW a \in Range(waiting'), a \notin missed'
             PROVE  Cardinality(FreePages') <= Cardinality(Told')
  BY DEF FreeTold
<1>1. Range(waiting) \ missed # {}
  BY WaitedBefore DEF AccountInv
<1>2. Cardinality(FreePages) <= Cardinality(Told)
  BY <1>1 DEF FreeTold
<1>3. /\ Cardinality(FreePages') <= Cardinality(FreePages)
      /\ Cardinality(FreePages') \in Nat /\ Cardinality(FreePages) \in Nat
  BY CountedNow, NoMore
<1>4. /\ Cardinality(Told) <= Cardinality(Told')
      /\ Cardinality(Told') \in Nat /\ Cardinality(Told) \in Nat
  BY CountedNext, NoMore
<1> QED BY <1>2, <1>3, <1>4

(* One free page less, and at most t of those told has gone. *)
LEMMA FreeTaken ==
    ASSUME AccountInv, FsCacheAssumption, FreeTold, NEW t, Steps(t), NEW N, Misses(N), CacheTypes',
           t \notin Range(waiting'), NEW p \in FreePages, FreePages' \subseteq FreePages \ {p},
           Told \ {t} \subseteq Told'
    PROVE  FreeTold'
<1> SUFFICES ASSUME NEW a \in Range(waiting'), a \notin missed'
             PROVE  Cardinality(FreePages') <= Cardinality(Told')
  BY DEF FreeTold
<1>1. Range(waiting) \ missed # {}
  BY WaitedBefore DEF AccountInv
<1>2. Cardinality(FreePages) <= Cardinality(Told)
  BY <1>1 DEF FreeTold
<1>3. IsFiniteSet(FreePages) /\ IsFiniteSet(Told) /\ IsFiniteSet(Told')
  BY CountedNow, CountedNext
<1>4. /\ IsFiniteSet(FreePages \ {p}) /\ Cardinality(FreePages \ {p}) = Cardinality(FreePages) - 1
      /\ Cardinality(FreePages) \in Nat
  BY <1>3, OneLess
<1>5. Cardinality(FreePages') <= Cardinality(FreePages \ {p}) /\ Cardinality(FreePages') \in Nat
  BY <1>4, NoMore
<1>6. Cardinality(Told \ {t}) >= Cardinality(Told) - 1 /\ Cardinality(Told) \in Nat /\ Cardinality(Told \ {t}) \in Nat
  BY <1>3, GivenOrTaken
<1>7. Cardinality(Told \ {t}) <= Cardinality(Told') /\ Cardinality(Told') \in Nat
  BY <1>3, NoMore
<1> QED BY <1>2, <1>4, <1>5, <1>6, <1>7

(* One free page more, and one more has been told. *)
LEMMA FreeReturned ==
    ASSUME AccountInv, FsCacheAssumption, FreeTold, NEW t, Steps(t), NEW N, Misses(N), CacheTypes',
           t \notin Range(waiting'), NEW p, FreePages' \subseteq FreePages \cup {p},
           NEW a, a \notin Told, Told \cup {a} \subseteq Told'
    PROVE  FreeTold'
<1> SUFFICES ASSUME NEW w \in Range(waiting'), w \notin missed'
             PROVE  Cardinality(FreePages') <= Cardinality(Told')
  BY DEF FreeTold
<1>1. Range(waiting) \ missed # {}
  BY WaitedBefore DEF AccountInv
<1>2. Cardinality(FreePages) <= Cardinality(Told)
  BY <1>1 DEF FreeTold
<1>3. IsFiniteSet(FreePages) /\ IsFiniteSet(Told) /\ IsFiniteSet(Told')
  BY CountedNow, CountedNext
<1>4. /\ IsFiniteSet(FreePages \cup {p}) /\ Cardinality(FreePages) \in Nat
      /\ Cardinality(FreePages \cup {p}) <= Cardinality(FreePages) + 1
      /\ Cardinality(FreePages \cup {p}) \in Nat
  BY <1>3, GivenOrTaken
<1>5. Cardinality(FreePages') <= Cardinality(FreePages \cup {p}) /\ Cardinality(FreePages') \in Nat
  BY <1>4, NoMore
<1>6. Cardinality(Told \cup {a}) = Cardinality(Told) + 1 /\ Cardinality(Told) \in Nat
  BY <1>3, OneMore
<1>7. Cardinality(Told \cup {a}) <= Cardinality(Told') /\ Cardinality(Told') \in Nat
  BY <1>3, NoMore
<1> QED BY <1>2, <1>4, <1>5, <1>6, <1>7

(* No page is free, or all who wait may have missed something. *)
LEMMA NothingToTell ==
    ASSUME FsCacheAssumption, CacheTypes', FreePages' = {} \/ Range(waiting') \subseteq missed'
    PROVE  FreeTold'
<1>1. CASE Range(waiting') \subseteq missed'
  BY <1>1 DEF FreeTold
<1>2. CASE FreePages' = {}
  <2>1. Cardinality(FreePages') = 0
    BY <1>2, FS_EmptySet
  <2>2. Cardinality(Told') \in Nat
    BY CountedNext, NobodyCounted
  <2> QED BY <2>1, <2>2 DEF FreeTold
<1> QED BY <1>1, <1>2

(* Reads that will be signaled go on, or all who waited for one go on. *)
ReadsGoOn ==
    \A p \in Range(lru) : element[p].reading /\ element[p].readWaiters =>
        /\ p \in Range(lru') /\ element'[p].block = element[p].block
        /\ element'[p].reading /\ element'[p].readWaiters

LEMMA PulseStep ==
    ASSUME CallsInv, PulsesCome, NEW t, Steps(t), NEW N, Misses(N),
           ReadsGoOn \/ \A u \in User : pc'[u] # "collided",
           t \in User /\ pc'[t] = "collided" => t \in missed' \/ PulseComing(t)'
    PROVE  PulsesCome'
<1> SUFFICES ASSUME NEW u \in User, u \notin missed', pc'[u] = "collided"
             PROVE  PulseComing(u)'
  BY DEF PulsesCome, PulseComing
<1>1. CASE u = t
  BY <1>1
<1>2. CASE u # t
  <2>1. pc[u] = "collided" /\ request'[u] = request[u]
    BY <1>2 DEF Steps, Threads
  <2>2. u \notin missed
    BY DEF Misses, StillWaiting
  <2>3. PulseComing(u)
    BY <2>2 DEF PulsesCome
  <2>4. PICK p \in Range(lru) : /\ element[p].block = request[u].block
                                /\ element[p].reading /\ element[p].readWaiters
    BY <2>1, <2>3 DEF PulseComing
  <2>5. ReadsGoOn
    OBVIOUS
  <2> QED BY <2>1, <2>4, <2>5 DEF ReadsGoOn, PulseComing
<1> QED BY <1>1, <1>2

LEMMA ToldStay ==
    ASSUME NEW t, Steps(t)
    PROVE  Told \ {t} \subseteq Told' /\ (pc[t] # "woken" => Told \subseteq Told')
BY DEF Steps, Told

WakeInv == AccountInv /\ FreeTold /\ PulsesCome

WakesNext == FreeTold' /\ PulsesCome'

(* Begin, a kernel APC and waiting again after one. *)
LEMMA QuietWakeups ==
    ASSUME WakeInv, FsCacheAssumption, NEW t \in Threads, Steps(t), NEW N, Misses(N), CacheTypes',
           UNCHANGED <<element, lru>>, pc[t] # "woken",
           pc'[t] \in {"waiting", "collided"} => t \in missed'
    PROVE  WakesNext
<1>1. t \in Range(waiting') => t \in missed'
  BY DEF Steps
<1>2. FreePages' \subseteq FreePages
  BY DEF FreePages, Free
<1>3. FreeTold'
  BY <1>1, <1>2, ToldStay, FreeToldStays DEF WakeInv
<1>4. ReadsGoOn
  BY DEF ReadsGoOn
<1>5. PulsesCome'
  BY <1>4, PulseStep DEF WakeInv, AccountInv
<1> QED BY <1>3, <1>5 DEF WakesNext

LEMMA MapFoundWakeups ==
    ASSUME WakeInv, FsCacheAssumption, NEW t \in User, MapFound(t), NEW N, Misses(N), Accounted'
    PROVE  WakesNext
<1>1. Steps(t)
  BY MapFoundSteps DEF WakeInv, AccountInv
<1>2. PICK p \in Range(lru) :
        /\ ~element[p].reading /\ lru' = ToTail(p)
        /\ element' = [element EXCEPT ![p].usage = @ + 1,
                            ![p].writable = @ \/ request[t].mode # "read"]
        /\ pc' = Goes(t, "mapped")
  BY DEF MapFound, FscLookupElement
<1>3. p \in Page /\ element \in [Page -> Element] /\ Range(lru) \subseteq Page /\ PageOK(p)
  BY DEF WakeInv, AccountInv, CacheTypes, Range, UsageOK
<1>4. pc[t] = "map" /\ pc'[t] = "mapped"
  BY <1>2 DEF MapFound, Goes, WakeInv, AccountInv, CallsInv, CallTypes, Threads
<1>5. Lists(lru', Range(lru))
  BY <1>2, MovedToTail DEF ToTail, WakeInv, AccountInv, CacheTypes
<1>6. element'[p].usage = element[p].usage + 1 /\ \A q \in Page : q # p => element'[q] = element[q]
  BY <1>2, <1>3 DEF Element
<1>7. element[p].usage \in Nat
  BY <1>3, UsersFinite DEF PageOK
<1>8. FreePages' \subseteq FreePages
  BY <1>3, <1>5, <1>6, <1>7 DEF FreePages, Free, Lists
<1>9. FreeTold'
  <2>1. t \notin Range(waiting')
    BY <1>1, <1>4 DEF Steps
  <2> QED BY <1>1, <1>4, <1>8, <2>1, ToldStay, FreeToldStays DEF WakeInv, Accounted
<1>10. ReadsGoOn
  BY <1>2, <1>3, <1>5, <1>6 DEF ReadsGoOn, Lists
<1>11. PulsesCome'
  BY <1>1, <1>4, <1>10, PulseStep DEF WakeInv, AccountInv
<1> QED BY <1>9, <1>11 DEF WakesNext

LEMMA MapCollidesWakeups ==
    ASSUME WakeInv, FsCacheAssumption, NEW t \in User, MapCollides(t), NEW N, Misses(N), Accounted'
    PROVE  WakesNext
<1>1. Steps(t)
  BY MapCollidesSteps DEF WakeInv, AccountInv
<1>2. PICK p \in Range(lru) :
        /\ element[p].reading /\ lru' = ToTail(p) /\ element[p].block = request[t].block
        /\ element' = [element EXCEPT ![p].readWaiters = TRUE]
        /\ pc' = Goes(t, "collided")
  BY DEF MapCollides, FscLookupElement
<1>3. p \in Page /\ element \in [Page -> Element] /\ Range(lru) \subseteq Page
  BY DEF WakeInv, AccountInv, CacheTypes, Range
<1>4. pc[t] = "map" /\ pc'[t] = "collided" /\ request' = request
  BY <1>2 DEF MapCollides, Goes, WakeInv, AccountInv, CallsInv, CallTypes, Threads
<1>5. Lists(lru', Range(lru))
  BY <1>2, MovedToTail DEF ToTail, WakeInv, AccountInv, CacheTypes
<1>6. /\ \A q \in Page : /\ element'[q].usage = element[q].usage
                         /\ element'[q].block = element[q].block
                         /\ element'[q].reading = element[q].reading
                         /\ element[q].readWaiters => element'[q].readWaiters
      /\ element'[p].readWaiters
  BY <1>2, <1>3 DEF Element
<1>7. FreePages' \subseteq FreePages
  BY <1>3, <1>5, <1>6 DEF FreePages, Free, Lists
<1>8. FreeTold'
  <2>1. t \notin Range(waiting')
    BY <1>1, <1>4 DEF Steps
  <2> QED BY <1>1, <1>4, <1>7, <2>1, ToldStay, FreeToldStays DEF WakeInv, Accounted
<1>9. ReadsGoOn
  BY <1>3, <1>5, <1>6 DEF ReadsGoOn, Lists
<1>10. PulseComing(t)'
  BY <1>2, <1>3, <1>4, <1>5, <1>6 DEF PulseComing, Lists
<1>11. PulsesCome'
  BY <1>1, <1>9, <1>10, PulseStep DEF WakeInv, AccountInv
<1> QED BY <1>8, <1>11 DEF WakesNext

LEMMA NoCacheWakeups ==
    ASSUME WakeInv, FsCacheAssumption, NEW t \in User, NoCache(t), NEW N, Misses(N), Accounted'
    PROVE  WakesNext
<1>1. Steps(t)
  BY NoCacheSteps DEF WakeInv, AccountInv
<1>2. /\ array = <<>> /\ pc'[t] = "idle" /\ array' = array /\ lru' = lru /\ element' = element
  BY DEF NoCache, Goes, WakeInv, AccountInv, CallsInv, CallTypes, Threads
<1>3. Range(array') = {}
  BY <1>2 DEF Range
<1>4. FreePages' = {}
  BY <1>3 DEF FreePages, Accounted, ListOK
<1>5. FreeTold'
  BY <1>4, NothingToTell DEF Accounted
<1>6. ReadsGoOn
  BY <1>2 DEF ReadsGoOn
<1>7. PulsesCome'
  BY <1>1, <1>2, <1>6, PulseStep DEF WakeInv, AccountInv
<1> QED BY <1>5, <1>7 DEF WakesNext

LEMMA TakeElementWakeups ==
    ASSUME WakeInv, FsCacheAssumption, NEW t \in User, TakeElement(t), NEW N, Misses(N), Accounted'
    PROVE  WakesNext
<1>1. Steps(t)
  BY TakeElementSteps DEF WakeInv, AccountInv
<1>2. PICK p \in Range(lru) :
        /\ Free(p) /\ lru' = ToTail(p)
        /\ element' = [element EXCEPT ![p] =
                [Empty EXCEPT !.block = request[t].block, !.usage = 1,
                              !.reading = request[t].mode # "fill",
                              !.writable = request[t].mode = "fill"]]
        /\ pc' = Goes(t, IF request[t].mode = "fill" THEN "mapped" ELSE "reading")
  BY DEF TakeElement, LeastRecentlyFree
<1>3. pc'[t] \in {"mapped", "reading"}
  BY <1>2 DEF Goes, WakeInv, AccountInv, CallsInv, CallTypes, Threads
<1>4. p \in Page /\ element \in [Page -> Element] /\ Range(lru) \subseteq Page /\ PageOK(p)
  BY DEF WakeInv, AccountInv, CacheTypes, Range, UsageOK
<1>5. Lists(lru', Range(lru))
  BY <1>2, MovedToTail DEF ToTail, WakeInv, AccountInv, CacheTypes
<1>6. element'[p].usage = 1 /\ \A q \in Page : q # p => element'[q] = element[q]
  BY <1>2, <1>4 DEF Empty
<1>7. p \in FreePages /\ FreePages' \subseteq FreePages \ {p}
  BY <1>2, <1>4, <1>5, <1>6 DEF FreePages, Free, Lists
<1>8. FreeTold'
  <2>1. t \notin Range(waiting')
    BY <1>1, <1>3 DEF Steps
  <2> QED BY <1>1, <1>7, <2>1, ToldStay, FreeTaken DEF WakeInv, Accounted
<1>9. ~element[p].reading
  BY <1>2, <1>4 DEF PageOK, Free
<1>10. ReadsGoOn
  BY <1>4, <1>5, <1>6, <1>9 DEF ReadsGoOn, Lists
<1>11. PulsesCome'
  BY <1>1, <1>10, <1>3, PulseStep DEF WakeInv, AccountInv
<1> QED BY <1>8, <1>11 DEF WakesNext

LEMMA WaitForElementWakeups ==
    ASSUME WakeInv, FsCacheAssumption, NEW t \in User, WaitForElement(t), NEW N, Misses(N), Accounted'
    PROVE  WakesNext
<1>1. Steps(t)
  BY WaitForElementSteps DEF WakeInv, AccountInv
<1>2. /\ LeastRecentlyFree = {} /\ pc'[t] = "waiting" /\ lru' = lru /\ element' = element
  BY DEF WaitForElement, Goes, WakeInv, AccountInv, CallsInv, CallTypes, Threads
<1>3. FreePages = {}
  <2> SUFFICES ASSUME FreePages # {} PROVE FALSE
    OBVIOUS
  <2>1. lru \in Seq(Page) /\ IsInjective(lru) /\ FreePages \subseteq Range(lru)
    BY DEF WakeInv, AccountInv, CacheTypes, FreePages
  <2>2. PICK p \in FreePages : \A q \in FreePages : ~Before(lru, q, p) \/ Before(lru, p, q)
    BY <2>1, FirstOfThem
  <2>3. \A q \in FreePages : ~Before(lru, q, p)
    BY <2>1, <2>2, BeforeIsStrict
  <2>4. p \in LeastRecentlyFree
    BY <2>3 DEF LeastRecentlyFree, FreePages
  <2> QED BY <1>2, <2>4
<1>4. FreePages' = {}
  BY <1>2, <1>3 DEF FreePages, Free
<1>5. FreeTold'
  BY <1>4, NothingToTell DEF Accounted
<1>6. ReadsGoOn
  BY <1>2 DEF ReadsGoOn
<1>7. PulsesCome'
  BY <1>1, <1>2, <1>6, PulseStep DEF WakeInv, AccountInv
<1> QED BY <1>5, <1>7 DEF WakesNext

LEMMA OneWoken ==
    ASSUME CallsInv, NEW t, Steps(t), pc[t] # "woken", NEW pcs, Wakes(1, pcs), waiting' # <<>>
    PROVE  \E a \in Threads : a \notin Told /\ Told \cup {a} \subseteq Told'
<1>1. PICK a \in Threads : a \in Range(waiting) /\ a \notin Range(waiting')
  BY DEF Wakes
<1>2. pc[a] = "waiting" /\ pc'[a] = "woken"
  BY <1>1 DEF CallsInv, WaitersOK, Wakes
<1>3. a \notin Told /\ a \in Told'
  BY <1>1, <1>2 DEF Told
<1> QED BY <1>3, ToldStay

LEMMA ReadSucceedsWakeups ==
    ASSUME WakeInv, FsCacheAssumption, NEW t \in User, ReadSucceeds(t), NEW N, Misses(N), Accounted'
    PROVE  WakesNext
<1>1. Steps(t)
  BY ReadSucceedsSteps DEF WakeInv, AccountInv
<1>2. /\ pc[t] = "reading" /\ pc'[t] = "mapped" /\ lru' = lru /\ t \in Threads
      /\ \A u \in User : element[page[t]].readWaiters /\ pc[u] = "collided" /\ u # t => pc'[u] = "map"
  BY DEF ReadSucceeds, Pulsed, WakeInv, AccountInv, CallsInv, CallTypes, Threads
<1>3. PICK p \in Page : p = page[t]
  BY <1>2 DEF WakeInv, AccountInv, CallsInv, UserCallsOK
<1>4. element \in [Page -> Element] /\ Range(lru) \subseteq Page
  BY DEF WakeInv, AccountInv, CacheTypes, Range
<1>5. element'[p].usage = element[p].usage /\ \A q \in Page : q # p => element'[q] = element[q]
  BY <1>3, <1>4 DEF ReadSucceeds, Element
<1>6. FreePages' \subseteq FreePages
  BY <1>2, <1>4, <1>5 DEF FreePages, Free
<1>7. FreeTold'
  <2>1. t \notin Range(waiting')
    BY <1>1, <1>2 DEF Steps
  <2> QED BY <1>1, <1>2, <1>6, <2>1, ToldStay, FreeToldStays DEF WakeInv, Accounted
<1>8. CASE element[p].readWaiters
  <2>1. \A u \in User : pc'[u] # "collided"
    BY <1>1, <1>2, <1>3, <1>8 DEF Steps, Threads
  <2>2. PulsesCome'
    BY <1>1, <1>2, <2>1, PulseStep DEF WakeInv, AccountInv
  <2> QED BY <1>7, <2>2 DEF WakesNext
<1>9. CASE ~element[p].readWaiters
  <2>1. ReadsGoOn
    BY <1>2, <1>4, <1>5, <1>9 DEF ReadsGoOn
  <2>2. PulsesCome'
    BY <1>1, <1>2, <2>1, PulseStep DEF WakeInv, AccountInv
  <2> QED BY <1>7, <2>2 DEF WakesNext
<1> QED BY <1>8, <1>9

LEMMA DiscardWakeups ==
    ASSUME WakeInv, FsCacheAssumption, NEW t \in User, NEW pcs, FscDiscardBuffer(t, pcs),
           \/ pc[t] = "reading" /\ pcs = Pulsed(page[t])
           \/ pc[t] = "mapped" /\ pcs = pc /\ request[t].mode # "read",
           NEW N, Misses(N), Accounted'
    PROVE  WakesNext
<1> DEFINE w == [pcs EXCEPT ![t] = "idle"]
<1>1. Steps(t) /\ Wakes(1, w) /\ pc'[t] = "idle"
  BY DiscardSteps DEF WakeInv, AccountInv
<1>2. PICK p \in Page : p = page[t] /\ Uses(t, p)
  BY DEF WakeInv, AccountInv, CallsInv, UserCallsOK, Uses
<1>3. element \in [Page -> Element] /\ PageOK(p) /\ Range(lru) \subseteq Page
  BY <1>2 DEF WakeInv, AccountInv, CacheTypes, UsageOK, Range
<1>4. element' = [element EXCEPT ![p] = Empty] /\ lru' = ToHead(p)
  BY <1>2 DEF FscDiscardBuffer
<1>5. \A q \in Page : q # p => element'[q] = element[q]
  BY <1>3, <1>4
<1>6. Lists(lru', Range(lru))
  <2>1. p \in Range(lru)
    BY <1>2, <1>3 DEF PageOK
  <2> QED BY <1>4, <2>1, MovedToFront DEF ToHead, WakeInv, AccountInv, CacheTypes
<1>7. FreePages' \subseteq FreePages \cup {p}
  BY <1>3, <1>5, <1>6 DEF FreePages, Free, Lists
<1>8. FreeTold'
  <2>1. CASE waiting' = <<>>
    <3>1. Range(waiting') = {}
      BY <2>1 DEF Range
    <3> QED BY <3>1, NothingToTell DEF Accounted
  <2>2. CASE waiting' # <<>>
    <3>1. pc[t] # "woken" /\ t \notin Range(waiting')
      BY <1>1 DEF Steps
    <3>2. PICK a \in Threads : a \notin Told /\ Told \cup {a} \subseteq Told'
      BY <1>1, <2>2, <3>1, OneWoken DEF WakeInv, AccountInv
    <3> QED BY <1>1, <1>7, <3>1, <3>2, FreeReturned DEF WakeInv, Accounted
  <2> QED BY <2>1, <2>2
<1>9. CASE pc[t] = "reading" /\ element[p].readWaiters
  <2>1. ASSUME NEW u \in User
        PROVE  pc'[u] # "collided"
    <3>1. w[u] # "collided" /\ u \in Threads
      BY <1>2, <1>9 DEF Pulsed, WakeInv, AccountInv, CallsInv, CallTypes, Threads
    <3> QED BY <1>1, <3>1 DEF Wakes
  <2>2. PulsesCome'
    BY <1>1, <2>1, PulseStep DEF WakeInv, AccountInv
  <2> QED BY <1>8, <2>2 DEF WakesNext
<1>10. CASE ~(pc[t] = "reading" /\ element[p].readWaiters)
  <2>1. ~(element[p].reading /\ element[p].readWaiters)
    <3> SUFFICES ASSUME element[p].reading, element[p].readWaiters PROVE FALSE
      OBVIOUS
    <3>1. PICK u \in User : page[u] = p /\ pc[u] = "reading"
      BY <1>3 DEF PageOK
    <3>2. element[p].usage = 1
      BY <1>3 DEF PageOK
    <3>3. u = t
      BY <1>2, <3>1, <3>2, Used DEF WakeInv, AccountInv, Uses
    <3> QED BY <1>10, <3>1, <3>3
  <2>2. ReadsGoOn
    BY <1>3, <1>5, <1>6, <2>1 DEF ReadsGoOn, Lists
  <2>3. PulsesCome'
    BY <1>1, <2>2, PulseStep DEF WakeInv, AccountInv
  <2> QED BY <1>8, <2>3 DEF WakesNext
<1> QED BY <1>9, <1>10

LEMMA UnmapWakeups ==
    ASSUME WakeInv, FsCacheAssumption, NEW t \in User, NEW e, FscUnmapBuffer(t, e),
           SameButFresh(e), pc[t] = "mapped", NEW N, Misses(N), Accounted'
    PROVE  WakesNext
<1>1. /\ Steps(t) /\ pc'[t] = "idle"
      /\ Wakes(IF e[page[t]].usage = 1 THEN 1 ELSE 0, Goes(t, "idle"))
  BY UnmapSteps DEF WakeInv, AccountInv
<1>2. PICK p \in Page : p = page[t] /\ Uses(t, p)
  BY DEF WakeInv, AccountInv, CallsInv, UserCallsOK, Uses
<1>3. e \in [Page -> Element] /\ PageOK(p) /\ Range(lru) \subseteq Page
  BY <1>2 DEF WakeInv, AccountInv, CacheTypes, UsageOK, Range, SameButFresh
<1>4. /\ element' = [e EXCEPT ![p].usage = @ - 1, ![p].writable = FALSE]
      /\ lru' = lru
  BY <1>2 DEF FscUnmapBuffer
<1>5. /\ \A q \in Page : q # p => element'[q] = e[q]
      /\ element'[p].usage = element[p].usage - 1 /\ e[p].usage = element[p].usage
  BY <1>3, <1>4 DEF SameButFresh, Element
<1>6. \A q \in Page : q # p => element'[q].usage = element[q].usage
  BY <1>5 DEF SameButFresh
<1>7. pc[t] # "woken" /\ t \notin Range(waiting')
  BY <1>1 DEF Steps
<1>8. FreeTold'
  <2>1. CASE element[p].usage = 1
    <3>1. FreePages' \subseteq FreePages \cup {p}
      BY <1>3, <1>4, <1>6 DEF FreePages, Free
    <3>2. Wakes(1, Goes(t, "idle"))
      <4>1. (IF e[page[t]].usage = 1 THEN 1 ELSE 0) = 1
        BY <1>2, <1>5, <2>1
      <4> QED BY <1>1, <4>1
    <3>3. CASE waiting' = <<>>
      <4>1. Range(waiting') = {}
        BY <3>3 DEF Range
      <4> QED BY <4>1, NothingToTell DEF Accounted
    <3>4. CASE waiting' # <<>>
      <4>1. PICK a \in Threads : a \notin Told /\ Told \cup {a} \subseteq Told'
        BY <1>1, <1>7, <3>2, <3>4, OneWoken DEF WakeInv, AccountInv
      <4> QED BY <1>1, <1>7, <3>1, <4>1, FreeReturned DEF WakeInv, Accounted
    <3> QED BY <3>3, <3>4
  <2>2. CASE element[p].usage # 1
    <3>1. FreePages' \subseteq FreePages
      <4>1. element'[p].usage # 0
        <5>1. element[p].usage \in Nat
          BY <1>3, UsersFinite DEF PageOK
        <5> QED BY <1>5, <2>2, <5>1
      <4> QED BY <1>3, <1>4, <1>6, <4>1 DEF FreePages, Free
    <3> QED BY <1>1, <1>7, <3>1, ToldStay, FreeToldStays DEF WakeInv, Accounted
  <2> QED BY <2>1, <2>2
<1>9. ~element[p].reading
  <2> SUFFICES ASSUME element[p].reading PROVE FALSE
    OBVIOUS
  <2>1. PICK u \in User : page[u] = p /\ pc[u] = "reading"
    BY <1>3 DEF PageOK
  <2>2. element[p].usage = 1
    BY <1>3 DEF PageOK
  <2>3. u = t
    BY <1>2, <2>1, <2>2, Used DEF WakeInv, AccountInv, Uses
  <2> QED BY <2>1, <2>3
<1>10. ReadsGoOn
  <2>1. \A q \in Page : q # p => /\ element'[q].block = element[q].block
                                 /\ element'[q].reading = element[q].reading
                                 /\ element'[q].readWaiters = element[q].readWaiters
    BY <1>5 DEF SameButFresh
  <2> QED BY <1>3, <1>4, <1>9, <2>1 DEF ReadsGoOn
<1>11. PulsesCome'
  BY <1>1, <1>10, PulseStep DEF WakeInv, AccountInv
<1> QED BY <1>8, <1>11 DEF WakesNext

LEMMA DirectWriteWakeups ==
    ASSUME WakeInv, FsCacheAssumption, NEW t \in User, DirectWrite(t), NEW N, Misses(N), Accounted'
    PROVE  WakesNext
<1>1. Steps(t)
  BY DirectWriteSteps DEF WakeInv, AccountInv
<1>2. /\ pc[t] = "directio" /\ pc'[t] = "idle" /\ element' = Written(request[t].block, NoPage)
      /\ lru' = lru
  BY DEF DirectWrite, Goes, WakeInv, AccountInv, CallsInv, CallTypes, Threads
<1>3. SameButFresh(element') /\ Range(lru) \subseteq Page
  <2>1. Range(lru) \subseteq Page
    BY DEF WakeInv, AccountInv, CacheTypes, Range
  <2> QED BY <1>2, <2>1, WrittenElements DEF WakeInv, AccountInv
<1>4. FreePages' \subseteq FreePages
  BY <1>2, <1>3 DEF FreePages, Free, SameButFresh
<1>5. FreeTold'
  <2>1. t \notin Range(waiting')
    BY <1>1, <1>2 DEF Steps
  <2> QED BY <1>1, <1>2, <1>4, <2>1, ToldStay, FreeToldStays DEF WakeInv, Accounted
<1>6. ReadsGoOn
  BY <1>2, <1>3 DEF ReadsGoOn, SameButFresh
<1>7. PulsesCome'
  BY <1>1, <1>2, <1>6, PulseStep DEF WakeInv, AccountInv
<1> QED BY <1>5, <1>7 DEF WakesNext

(* Nobody reads into a free page. *)
LEMMA FreeNotRead ==
    ASSUME UsageOK, NEW p \in Page, Free(p)
    PROVE  ~element[p].reading
<1>1. element[p].reading => element[p].usage = 1
  BY DEF UsageOK, PageOK
<1>2. element[p].usage = 0
  BY DEF Free
<1> QED BY <1>1, <1>2

LEMMA InvalidateWakeups ==
    ASSUME WakeInv, FsCacheAssumption, NEW t, Steps(t), NEW B, NEW pcs,
           FscInvalidateBlocks(B, pcs), Told \subseteq Told',
           t \in Range(waiting') => t \in missed' \/ (t \in Range(waiting) /\ t \notin missed),
           t \in User => pc'[t] # "collided", NEW N, Misses(N), Accounted'
    PROVE  WakesNext
<1> DEFINE I == Invalidated(B)
<1>1. /\ Range(lru) \subseteq Page /\ IsFiniteSet(Range(lru))
      /\ \A p \in I : Free(p) /\ p \in Range(lru)
  <2>1. Range(lru) \subseteq Page
    BY DEF WakeInv, AccountInv, CacheTypes, Range
  <2>2. IsFiniteSet(Range(lru))
    BY PagesFinite DEF WakeInv, AccountInv
  <2> QED BY <2>1, <2>2 DEF Invalidated
<1>2. /\ lru' \in Arranged(Range(lru), MovedToHead(I))
      /\ element' = [p \in Page |-> IF p \in I THEN Empty ELSE element[p]]
  BY DEF FscInvalidateBlocks
<1>3. Lists(lru', Range(lru))
  BY <1>1, <1>2, ArrangedLists
<1> HIDE DEF I
<1>4. \A p \in Page : p \notin I => element'[p] = element[p]
  BY <1>2
<1>5. FreePages' \subseteq FreePages
  BY <1>1, <1>3, <1>4 DEF FreePages, Free, Lists
<1>6. FreeTold'
  BY <1>5, FreeToldStays DEF WakeInv, Accounted
<1>7. \A p \in I : ~element[p].reading
  BY <1>1, FreeNotRead DEF WakeInv, AccountInv
<1>8. ReadsGoOn
  BY <1>1, <1>3, <1>4, <1>7 DEF ReadsGoOn, Lists
<1>9. PulsesCome'
  BY <1>8, PulseStep DEF WakeInv, AccountInv
<1> QED BY <1>6, <1>9 DEF WakesNext

(* FscGrowCacheSize tells nobody, so everybody who waits may have missed it. *)
LEMMA GrowWakeups ==
    ASSUME WakeInv, FsCacheAssumption, NEW n \in Size, FscGrowCacheSize(n),
           missed' = StillWaiting(missed \cup Range(waiting)), Accounted'
    PROVE  WakesNext
<1>1. Steps(Resizer) /\ Resizer \notin User
  BY GrowSteps DEF WakeInv, AccountInv, FsCacheAssumption
<1>3. element' = element /\ pc' = pc /\ waiting' = waiting /\ pc[Resizer] = "idle"
  BY DEF FscGrowCacheSize
<1>4. Misses(missed \cup Range(waiting))
  BY DEF Misses, WakeInv, AccountInv, CallsInv, CallTypes, WaitersOK
<1>5. Range(waiting') \subseteq missed'
  BY <1>1, <1>3 DEF StillWaiting, Steps
<1>6. FreeTold'
  BY <1>5, NothingToTell DEF Accounted
<1>7. Range(lru) \subseteq Range(lru')
  <2>1. PICK s : s \in [1..n - Len(array) -> Page \ Range(array)] /\ IsInjective(s) /\ array' = array \o s
    BY DEF FscGrowCacheSize
  <2>2. array \in Seq(Page) /\ IsInjective(array) /\ n - Len(array) \in Nat
    <3>1. Cardinality(Page) \in Nat
      BY NobodyCounted DEF FsCacheAssumption
    <3>2. n \in 0..Cardinality(Page) /\ n > Len(array)
      BY DEF FsCacheAssumption, FscGrowCacheSize
    <3>3. array \in Seq(Page) /\ IsInjective(array) /\ Len(array) \in Nat
      BY DEF WakeInv, AccountInv, CacheTypes
    <3> QED BY <3>1, <3>2, <3>3
  <2>3. Lists(array', Range(array) \cup Range(s))
    BY <2>1, <2>2, ArrayGrows
  <2>4. Range(array) \subseteq Range(array')
    BY <2>3 DEF Lists
  <2> QED BY <1>3, <2>4 DEF WakeInv, AccountInv, ListOK, Accounted
<1>8. ReadsGoOn
  BY <1>3, <1>7 DEF ReadsGoOn
<1>9. PulsesCome'
  BY <1>1, <1>4, <1>8, PulseStep DEF WakeInv, AccountInv
<1> QED BY <1>6, <1>9 DEF WakesNext

(* Who must wait to shrink the cache has marked all that was free. *)
LEMMA ReleaseSomeWakeups ==
    ASSUME WakeInv, FsCacheAssumption, NEW n \in 0..Cardinality(Page), ReleaseSome(n),
           UNCHANGED <<request, page>>, pc[Resizer] \in {"idle", "woken"},
           NEW N, Misses(N), Accounted'
    PROVE  WakesNext
<1> DEFINE M == Released(array, n)
<1>1. Steps(Resizer) /\ pc'[Resizer] = "waiting" /\ Resizer \notin User
  BY ReleaseSomeSteps DEF WakeInv, AccountInv, FsCacheAssumption
<1>2. /\ M \subseteq Range(array) /\ Range(array) \subseteq Page /\ Range(lru) \subseteq Range(array)
      /\ \A p \in M : Free(p) /\ ~element[p].deletePending
      /\ IsFiniteSet(Releasable(array)) /\ Cardinality(Releasable(array)) \in Nat
  BY ReleasedPages DEF WakeInv, AccountInv, ListOK
<1>3. /\ element' = [p \in Page |-> IF p \in M THEN [Empty EXCEPT !.deletePending = TRUE] ELSE element[p]]
      /\ lru' \in Arranged(Range(lru) \ M, InOrder(lru))
      /\ Cardinality(Releasable(array)) < n
  BY DEF ReleaseSome, Mark
<1>4. Range(lru) \ M \in SUBSET Page /\ IsFiniteSet(Range(lru) \ M)
  BY <1>2, PagesFinite DEF WakeInv, AccountInv
<1>5. Lists(lru', Range(lru) \ M)
  BY <1>3, <1>4, ArrangedLists
<1>6. ASSUME NEW p \in Range(lru), Free(p)
      PROVE  p \in M
  <2>1. p \in Range(array) /\ ~element[p].deletePending
    BY DEF WakeInv, AccountInv, ListOK
  <2>2. PICK i \in 1..Len(array) : array[i] = p
    <3>1. DOMAIN array = 1..Len(array)
      BY DEF WakeInv, AccountInv, CacheTypes
    <3> QED BY <2>1, <3>1 DEF Range
  <2>3. i \in Releasable(array)
    BY <1>6, <2>1, <2>2 DEF Releasable
  <2>4. {j \in Releasable(array) : j > i} \subseteq Releasable(array)
    OBVIOUS
  <2>5. Cardinality({j \in Releasable(array) : j > i}) < n
    <3>1. /\ Cardinality({j \in Releasable(array) : j > i}) <= Cardinality(Releasable(array))
          /\ Cardinality({j \in Releasable(array) : j > i}) \in Nat
      BY <1>2, <2>4, NoMore
    <3>2. Cardinality(Page) \in Nat
      BY NobodyCounted DEF FsCacheAssumption
    <3> QED BY <1>2, <1>3, <3>1, <3>2
  <2> QED BY <2>2, <2>3, <2>5 DEF Released
<1> HIDE DEF M
<1>7. \A p \in Page : p \notin M => element'[p] = element[p]
  BY <1>3
<1>8. FreePages' = {}
  BY <1>2, <1>5, <1>6, <1>7 DEF FreePages, Free, Lists
<1>9. FreeTold'
  BY <1>8, NothingToTell DEF Accounted
<1>10. \A p \in M : ~element[p].reading
  BY <1>2, FreeNotRead DEF WakeInv, AccountInv
<1>11. ReadsGoOn
  BY <1>2, <1>5, <1>7, <1>10 DEF ReadsGoOn, Lists
<1>12. PulsesCome'
  BY <1>1, <1>11, PulseStep DEF WakeInv, AccountInv
<1> QED BY <1>9, <1>12 DEF WakesNext

(* Who has shrunk it tells all who wait. *)
LEMMA ReleaseAllWakeups ==
    ASSUME WakeInv, FsCacheAssumption, NEW n, ReleaseAll(n),
           UNCHANGED <<request, page>>, pc[Resizer] \in {"idle", "woken"},
           NEW N, Misses(N), Accounted'
    PROVE  WakesNext
<1>1. /\ Steps(Resizer) /\ Wakes(Len(waiting), Goes(Resizer, "idle")) /\ Resizer \notin User
  BY ReleaseAllSteps DEF WakeInv, AccountInv, FsCacheAssumption
<1>2. Range(waiting') = {}
  BY <1>1 DEF Wakes, Range
<1>3. FreeTold'
  BY <1>2, NothingToTell DEF Accounted
<1>4. PICK F \in SUBSET Page :
        /\ F = {p \in Page : element[p].deletePending} \cup Released(array, n)
        /\ array' \in Arranged(Range(array) \ F, InOrder(array))
        /\ element' = [p \in Page |-> IF p \in F THEN Empty ELSE element[p]]
  <2>1. {p \in Page : element[p].deletePending} \cup Released(array, n) \in SUBSET Page
    BY ReleasedPages DEF WakeInv
  <2> QED BY <2>1 DEF ReleaseAll
<1>5. Range(lru) \subseteq Range(array) /\ Range(array) \subseteq Page /\ \A p \in Range(lru) : ~element[p].deletePending
  BY ReleasedPages DEF WakeInv, AccountInv, ListOK
<1>6. Lists(array', Range(array) \ F)
  <2>1. Range(array) \ F \in SUBSET Page /\ IsFiniteSet(Range(array) \ F)
    BY <1>5, PagesFinite DEF WakeInv, AccountInv
  <2> QED BY <1>4, <2>1, ArrangedLists
<1>7. ASSUME NEW p \in Range(lru), element[p].reading
      PROVE  p \in Range(lru') /\ element'[p] = element[p]
  <2>1. ~Free(p) /\ p \in Page
    BY <1>5, <1>7, FreeNotRead DEF WakeInv, AccountInv
  <2>2. p \notin F
    BY <1>4, <1>5, <2>1, ReleasedPages DEF WakeInv
  <2>3. p \in Range(array') /\ element'[p] = element[p]
    BY <1>4, <1>5, <1>6, <2>1, <2>2 DEF Lists
  <2> QED BY <1>5, <2>3 DEF Accounted, ListOK
<1>8. ReadsGoOn
  BY <1>7 DEF ReadsGoOn
<1>9. PulsesCome'
  BY <1>1, <1>8, PulseStep DEF WakeInv, AccountInv
<1> QED BY <1>3, <1>9 DEF WakesNext

-----------------------------------------------------------------------------
(* The file system cache: the threads' calls, step by step.                *)

LEMMA RequestTypes ==
    ASSUME CallsInv, FsCacheAssumption, NEW t \in User, request[t] # NoRequest
    PROVE  request[t].block \in Block /\ request[t].mode \in Mode
<1>1. request[t] \in [thread : User, block : Block, mode : Mode]
  BY DEF CallsInv, CallTypes, FsCacheAssumption
<1> QED BY <1>1

LEMMA LeaveCalls ==
    ASSUME CallsInv, FsCacheAssumption, NEW t \in User, Steps(t), Returns(t), pc'[t] = "idle",
           NEW N, Misses(N)
    PROVE  CallsInv'
<1>1. request'[t] = NoRequest
  BY DEF Returns, CallsInv, CallTypes
<1> QED BY <1>1, CallStep DEF OwnCall

LEMMA ContinueCalls ==
    ASSUME CallsInv, FsCacheAssumption, NEW t \in User, Steps(t), request' = request,
           pc[t] # "idle", pc'[t] # "idle",
           pc'[t] \in {"invalidate", "directio"} <=> pc[t] \in {"invalidate", "directio"},
           pc'[t] \in {"reading", "mapped"} => page'[t] \in Page,
           pc'[t] = "reading" => request[t].mode # "fill",
           NEW N, Misses(N), pc'[t] = "interrupted" => t \in N
    PROVE  CallsInv'
<1>1. OwnCall(t)
  BY DEF OwnCall, CallsInv, UserCallsOK
<1> QED BY <1>1, CallStep

LEMMA BeginCalls ==
    ASSUME CallsInv, FsCacheAssumption, NEW t \in User, NEW r \in Request, Begin(t, r),
           NEW N, Misses(N)
    PROVE  CallsInv'
<1>1. Steps(t)
  BY BeginSteps
<1>2. /\ request'[t] = r /\ r # NoRequest /\ pc'[t] = IF r.mode = "direct" THEN "invalidate" ELSE "map"
  BY DEF Begin, Goes, CallsInv, CallTypes, Threads, FsCacheAssumption
<1>3. \A u \in User : (u # t /\ request[u] # NoRequest /\ request[u].block = request'[t].block)
                            => request'[t].mode = "read" /\ request[u].mode = "read"
  BY <1>2 DEF Begin
<1>4. OwnCall(t)
  BY <1>2, <1>3 DEF OwnCall
<1> QED BY <1>1, <1>2, <1>4, CallStep

LEMMA MapFoundCalls ==
    ASSUME CallsInv, CacheTypes, FsCacheAssumption, NEW t \in User, MapFound(t), NEW N, Misses(N)
    PROVE  CallsInv'
<1>1. PICK p \in Range(lru) : page' = [page EXCEPT ![t] = p] /\ pc' = Goes(t, "mapped")
  BY DEF MapFound, FscLookupElement
<1>2. p \in Page
  BY DEF CacheTypes, Range
<1>3. pc[t] = "map" /\ pc'[t] = "mapped" /\ page'[t] \in Page /\ request' = request
  BY <1>1, <1>2 DEF MapFound, Goes, CallsInv, CallTypes, Threads
<1> QED BY <1>3, MapFoundSteps, ContinueCalls

LEMMA MapCollidesCalls ==
    ASSUME CallsInv, FsCacheAssumption, NEW t \in User, MapCollides(t), NEW N, Misses(N)
    PROVE  CallsInv'
<1>1. pc[t] = "map" /\ pc'[t] = "collided" /\ request' = request
  BY DEF MapCollides, Goes, CallsInv, CallTypes, Threads
<1> QED BY <1>1, MapCollidesSteps, ContinueCalls

LEMMA TakeElementCalls ==
    ASSUME CallsInv, CacheTypes, FsCacheAssumption, NEW t \in User, TakeElement(t), NEW N, Misses(N)
    PROVE  CallsInv'
<1>1. PICK p \in Range(lru) : /\ page' = [page EXCEPT ![t] = p]
                              /\ pc' = Goes(t, IF request[t].mode = "fill" THEN "mapped" ELSE "reading")
  BY DEF TakeElement, LeastRecentlyFree
<1>2. p \in Page
  BY DEF CacheTypes, Range
<1>3. /\ pc[t] \in {"map", "woken"} /\ page'[t] \in Page /\ request' = request
      /\ pc'[t] = IF request[t].mode = "fill" THEN "mapped" ELSE "reading"
  BY <1>1, <1>2 DEF TakeElement, Allocates, Goes, CallsInv, CallTypes, Threads
<1> QED BY <1>3, TakeElementSteps, ContinueCalls

LEMMA WaitForElementCalls ==
    ASSUME CallsInv, FsCacheAssumption, NEW t \in User, WaitForElement(t), NEW N, Misses(N)
    PROVE  CallsInv'
<1>1. pc[t] \in {"map", "woken"} /\ pc'[t] = "waiting" /\ request' = request
  BY DEF WaitForElement, Allocates, Goes, CallsInv, CallTypes, Threads
<1> QED BY <1>1, WaitForElementSteps, ContinueCalls

LEMMA NoCacheCalls ==
    ASSUME CallsInv, FsCacheAssumption, NEW t \in User, NoCache(t), NEW N, Misses(N)
    PROVE  CallsInv'
<1>1. pc'[t] = "idle" /\ Returns(t)
  BY DEF NoCache, Goes, CallsInv, CallTypes, Threads
<1> QED BY <1>1, NoCacheSteps, LeaveCalls

LEMMA ReadSucceedsCalls ==
    ASSUME CallsInv, FsCacheAssumption, NEW t \in User, ReadSucceeds(t), NEW N, Misses(N)
    PROVE  CallsInv'
<1>1. pc[t] = "reading" /\ pc'[t] = "mapped" /\ request' = request /\ page' = page
  BY DEF ReadSucceeds, Pulsed, CallsInv, CallTypes, Threads
<1>2. page'[t] \in Page
  BY <1>1 DEF CallsInv, UserCallsOK
<1> QED BY <1>1, <1>2, ReadSucceedsSteps, ContinueCalls

LEMMA InvalidateFirstCalls ==
    ASSUME CallsInv, CacheTypes, FsCacheAssumption, NEW t \in User, InvalidateFirst(t),
           NEW N, Misses(N)
    PROVE  CallsInv'
<1>1. pc[t] = "invalidate" /\ request' = request
  BY DEF InvalidateFirst
<1> QED BY <1>1, InvalidateFirstSteps, ContinueCalls

LEMMA DirectWriteCalls ==
    ASSUME CallsInv, FsCacheAssumption, NEW t \in User, DirectWrite(t), NEW N, Misses(N)
    PROVE  CallsInv'
<1>1. pc'[t] = "idle" /\ Returns(t)
  BY DEF DirectWrite, Goes, CallsInv, CallTypes, Threads
<1> QED BY <1>1, DirectWriteSteps, LeaveCalls

LEMMA ApcCalls ==
    ASSUME CallsInv, FsCacheAssumption, NEW a \in Threads, KernelApc(a) \/ WaitAgain(a),
           NEW N, Misses(N), KernelApc(a) => a \in N
    PROVE  CallsInv'
<1>1. Steps(a) /\ UNCHANGED <<request, page>>
  BY KernelApcSteps, WaitAgainSteps DEF KernelApc, WaitAgain
<1>2. /\ pc[a] \in {"collided", "waiting", "interrupted"}
      /\ KernelApc(a) => pc'[a] = "interrupted"
      /\ WaitAgain(a) => pc'[a] = IF a = Resizer THEN "waiting" ELSE "collided"
  BY DEF KernelApc, WaitAgain, Goes, CallsInv, CallTypes
<1>3. CASE a \in User
  <2>1. a # Resizer /\ pc'[a] \in {"interrupted", "collided"}
    BY <1>2, <1>3 DEF FsCacheAssumption
  <2>2. pc'[a] = "interrupted" => a \in N
    BY <1>2, <2>1
  <2> QED BY <1>1, <1>2, <1>3, <2>1, <2>2, ContinueCalls
<1>4. CASE a = Resizer
  BY <1>1, <1>2, <1>4, ResizerCallStep
<1> QED BY <1>3, <1>4 DEF Threads

-----------------------------------------------------------------------------
(* The file system cache: the pages hold what the device holds.  A block   *)
(* may have stale copies in the list; the search finds the last, and only  *)
(* the last one matters.                                                   *)

LastCopy(p) == \A q \in Range(lru) : Before(lru, p, q) => element[q].block # element[p].block

FreeFresh ==
    \A p \in Range(lru) : (element[p].block # NoBlock /\ Free(p) /\ LastCopy(p)) => element[p].fresh

MappedFresh ==
    \A t \in User : (pc[t] = "mapped" /\ request[t].mode \in {"read", "write"})
        => element[page[t]].fresh

WritersLast ==
    \A t \in User, p \in Page : (Uses(t, p) /\ request[t].mode # "read") => LastCopy(p)

DirectAlone ==
    \A t \in User : pc[t] = "directio" => \A p \in Range(lru) : element[p].block # request[t].block

CopiesOK == FreeFresh /\ MappedFresh /\ WritersLast /\ DirectAlone

CopyInv == AccountInv /\ CopiesOK

CopiesNext == FreeFresh' /\ MappedFresh' /\ WritersLast' /\ DirectAlone'

(* What a user u's page and request are. *)
LEMMA UserFacts ==
    ASSUME AccountInv, FsCacheAssumption, NEW u \in User, NEW p \in Page, Uses(u, p)
    PROVE  /\ element[p].block = request[u].block /\ request[u].block \in Block
           /\ request[u] # NoRequest /\ request[u].mode \in {"read", "write", "fill"}
           /\ p \in Range(lru) /\ ~Free(p)
<1>1. request[u] # NoRequest /\ ~Free(p) /\ p \in Range(lru) /\ element[p].block = request[u].block
  BY Used DEF AccountInv
<1>2. request[u].block \in Block /\ request[u].mode \in Mode
  BY <1>1, RequestTypes DEF AccountInv
<1>3. request[u].mode # "direct"
  BY DEF Uses, AccountInv, CallsInv, UserCallsOK
<1> QED BY <1>1, <1>2, <1>3 DEF Mode

(* Two calls for one block only read it. *)
LEMMA ReadersOnly ==
    ASSUME CallsInv, NEW t \in User, NEW u \in User, t # u, request[t] # NoRequest,
           request[u] # NoRequest, request[t].block = request[u].block
    PROVE  request[t].mode = "read" /\ request[u].mode = "read"
BY DEF CallsInv, CacheLocksOK

(* Steps that leave the cache as it is. *)
LEMMA QuietCopies ==
    ASSUME CopyInv, FsCacheAssumption, NEW t, Steps(t), UNCHANGED <<lru, element>>,
           t \in User => pc'[t] \notin {"reading", "mapped", "directio"}
    PROVE  CopiesNext
<1>1. FreeFresh'
  BY DEF CopyInv, CopiesOK, FreeFresh, Free, LastCopy, Before
<1>2. ASSUME NEW u \in User
      PROVE  /\ pc'[u] \in {"reading", "mapped", "directio"} =>
                    pc[u] = pc'[u] /\ request'[u] = request[u] /\ page'[u] = page[u]
  BY DEF Steps, Threads
<1>3. MappedFresh'
  BY <1>2 DEF CopyInv, CopiesOK, MappedFresh
<1>4. WritersLast'
  BY <1>2 DEF CopyInv, CopiesOK, WritersLast, Uses, LastCopy, Before
<1>5. DirectAlone'
  BY <1>2 DEF CopyInv, CopiesOK, DirectAlone
<1> QED BY <1>1, <1>3, <1>4, <1>5 DEF CopiesNext

(* The page p of t's block goes to the tail. *)
LEMMA TailCopies ==
    ASSUME CopyInv, FsCacheAssumption, NEW t \in User, Steps(t), NEW p \in Range(lru),
           Lists(lru', Range(lru)), TailOf(lru', lru, p), request' = request,
           request[t] # NoRequest, pc[t] \notin {"reading", "mapped"}, pc'[t] # "directio",
           element'[p].block = request[t].block, element'[p].usage # 0,
           \A q \in Page : q # p => element'[q] = element[q],
           \A q \in Range(lru) : q # p /\ Free(q) /\ Before(lru, q, p)
                => element[p].block = element'[p].block,
           pc'[t] \in {"reading", "mapped"} => page'[t] = p,
           pc'[t] = "mapped" /\ request[t].mode # "fill" => element'[p].fresh,
           ~Free(p) => element'[p].fresh = element[p].fresh
    PROVE  CopiesNext
<1>1. /\ lru \in Seq(Page) /\ IsInjective(lru) /\ Range(lru) \subseteq Page /\ p \in Page
      /\ lru' \in Seq(Page) /\ IsInjective(lru') /\ Range(lru') = Range(lru)
  <2>1. lru \in Seq(Page) /\ IsInjective(lru)
    BY DEF CopyInv, AccountInv, CacheTypes
  <2>2. Range(lru) \subseteq Page
    BY <2>1 DEF Range
  <2> QED BY <2>1, <2>2 DEF Lists
<1>2. \A q \in Range(lru') : ~Before(lru', p, q)
  <2> SUFFICES ASSUME NEW q \in Range(lru'), Before(lru', p, q) PROVE FALSE
    OBVIOUS
  <2>1. ~Before(lru', q, p) /\ q # p
    BY <1>1, BeforeIsStrict
  <2> QED BY <1>1, <2>1 DEF TailOf
<1>3. LastCopy(p)'
  BY <1>2 DEF LastCopy
<1>4. FreeFresh'
  <2> SUFFICES ASSUME NEW q \in Range(lru'), element'[q].block # NoBlock, Free(q)', LastCopy(q)'
               PROVE  element'[q].fresh
    BY DEF FreeFresh
  <2>1. q # p /\ q \in Range(lru) /\ q \in Page
    BY <1>1 DEF Free
  <2>2. element'[q] = element[q] /\ Free(q)
    BY <2>1 DEF Free
  <2>3. ASSUME NEW r \in Range(lru), Before(lru, q, r)
        PROVE  element[r].block # element[q].block
    <3>1. CASE r = p
      <4>1. Before(lru', q, p) /\ element[p].block = element'[p].block
        BY <2>1, <2>2, <2>3, <3>1 DEF TailOf
      <4> QED BY <1>1, <2>2, <3>1, <4>1 DEF LastCopy
    <3>2. CASE r # p
      <4>1. Before(lru', q, r) /\ element'[r] = element[r]
        BY <1>1, <2>1, <2>3, <3>2 DEF TailOf
      <4> QED BY <1>1, <2>2, <4>1 DEF LastCopy
    <3> QED BY <3>1, <3>2
  <2>4. LastCopy(q)
    BY <2>3 DEF LastCopy
  <2> QED BY <2>1, <2>2, <2>4 DEF CopyInv, CopiesOK, FreeFresh
<1>5. ASSUME NEW u \in User, u # t, NEW q \in Page, Uses(u, q)'
      PROVE  /\ Uses(u, q) /\ pc'[u] = pc[u] /\ page'[u] = page[u] /\ q = page[u]
             /\ element[q].block = request[u].block /\ ~Free(q) /\ request[u] # NoRequest
             /\ element'[q].fresh = element[q].fresh /\ q \in Range(lru)
             /\ element'[q].block = element[q].block \/ q = p
  <2>1. Uses(u, q) /\ page'[u] = page[u] /\ pc'[u] = pc[u]
    <3>1. u \in Threads
      BY DEF Threads
    <3> QED BY <1>5, <3>1, OthersUse DEF CopyInv, AccountInv, Uses, Steps
  <2>2. /\ element[q].block = request[u].block /\ ~Free(q) /\ request[u] # NoRequest
        /\ q \in Range(lru)
    BY <2>1, UserFacts DEF CopyInv
  <2>3. q # p => element'[q] = element[q]
    OBVIOUS
  <2>4. element'[q].fresh = element[q].fresh
    BY <2>2, <2>3
  <2> QED BY <2>1, <2>2, <2>3, <2>4 DEF Uses
<1>6. MappedFresh'
  <2> SUFFICES ASSUME NEW u \in User, pc'[u] = "mapped", request'[u].mode \in {"read", "write"}
               PROVE  element'[page'[u]].fresh
    BY DEF MappedFresh
  <2>1. CASE u = t
    BY <2>1
  <2>2. CASE u # t
    <3>1. pc[u] = "mapped" /\ page'[u] = page[u]
      BY <2>2 DEF Steps, Threads
    <3>2. page[u] \in Page
      BY <3>1 DEF CopyInv, AccountInv, CallsInv, UserCallsOK
    <3>3. element'[page[u]].fresh = element[page[u]].fresh
      BY <1>5, <2>2, <3>1, <3>2 DEF Uses
    <3>4. element[page[u]].fresh
      BY <3>1 DEF CopyInv, CopiesOK, MappedFresh
    <3> QED BY <3>1, <3>3, <3>4
  <2> QED BY <2>1, <2>2
<1>7. WritersLast'
  <2> SUFFICES ASSUME NEW u \in User, NEW q \in Page, Uses(u, q)', request'[u].mode # "read"
               PROVE  LastCopy(q)'
    BY DEF WritersLast
  <2>1. CASE q = p
    BY <1>3, <2>1
  <2>2. CASE q # p
    <3>1. u # t
      BY <2>2 DEF Uses
    <3>2. /\ Uses(u, q) /\ q \in Range(lru) /\ element[q].block = request[u].block
          /\ request[u] # NoRequest /\ element'[q] = element[q]
      BY <1>5, <2>2, <3>1
    <3>3. LastCopy(q)
      BY <3>2 DEF CopyInv, CopiesOK, WritersLast
    <3>4. ASSUME NEW r \in Range(lru'), Before(lru', q, r)
          PROVE  element'[r].block # element'[q].block
      <4>1. CASE r = p
        <5> SUFFICES ASSUME request[t].block = request[u].block PROVE FALSE
          BY <3>2, <4>1
        <5> QED BY <3>1, <3>2, ReadersOnly DEF CopyInv, AccountInv
      <4>2. CASE r # p
        <5>1. Before(lru, q, r) /\ element'[r] = element[r] /\ r \in Range(lru)
          BY <1>1, <2>2, <3>2, <3>4, <4>2 DEF TailOf
        <5> QED BY <3>2, <3>3, <5>1 DEF LastCopy
      <4> QED BY <4>1, <4>2
    <3> QED BY <3>4 DEF LastCopy
  <2> QED BY <2>1, <2>2
<1>8. DirectAlone'
  <2> SUFFICES ASSUME NEW u \in User, pc'[u] = "directio", NEW q \in Range(lru')
               PROVE  element'[q].block # request'[u].block
    BY DEF DirectAlone
  <2>1. u # t /\ pc[u] = "directio" /\ q \in Range(lru) /\ q \in Page
    BY <1>1 DEF Steps, Threads
  <2>2. request[u] # NoRequest /\ request[u].mode = "direct"
    BY <2>1 DEF CopyInv, AccountInv, CallsInv, UserCallsOK
  <2>3. CASE q = p
    <3> SUFFICES ASSUME request[t].block = request[u].block PROVE FALSE
      BY <2>3
    <3> QED BY <2>1, <2>2, ReadersOnly DEF CopyInv, AccountInv
  <2>4. CASE q # p
    BY <2>1, <2>4 DEF CopyInv, CopiesOK, DirectAlone
  <2> QED BY <2>3, <2>4
<1> QED BY <1>4, <1>6, <1>7, <1>8 DEF CopiesNext

LEMMA MapFoundCopies ==
    ASSUME CopyInv, FsCacheAssumption, NEW t \in User, MapFound(t)
    PROVE  CopiesNext
<1>1. Steps(t)
  BY MapFoundSteps DEF CopyInv, AccountInv
<1>2. PICK p \in FscLookupElement(request[t].block) :
        /\ ~element[p].reading
        /\ lru' = ToTail(p)
        /\ element' = [element EXCEPT ![p].usage = @ + 1,
                            ![p].writable = @ \/ request[t].mode # "read"]
        /\ page' = [page EXCEPT ![t] = p]
        /\ pc' = Goes(t, "mapped")
  BY DEF MapFound
<1>3. /\ p \in Range(lru) /\ element[p].block = request[t].block
      /\ \A q \in Range(lru) : Before(lru, p, q) => element[q].block \notin {request[t].block, NoBlock}
  BY <1>2 DEF FscLookupElement
<1>4. p \in Page /\ element \in [Page -> Element] /\ PageOK(p)
  BY <1>3 DEF CopyInv, AccountInv, CacheTypes, Range, UsageOK
<1>5. pc[t] = "map" /\ pc'[t] = "mapped" /\ page'[t] = p /\ request' = request /\ request[t] # NoRequest
  BY <1>2 DEF MapFound, Goes, CopyInv, AccountInv, CallsInv, CallTypes, UserCallsOK, Threads
<1>6. Lists(lru', Range(lru)) /\ TailOf(lru', lru, p)
  BY <1>2, <1>3, MovedToTail DEF ToTail, CopyInv, AccountInv, CacheTypes
<1>7. /\ element'[p].usage = element[p].usage + 1 /\ element'[p].block = element[p].block
      /\ element'[p].fresh = element[p].fresh
      /\ \A q \in Page : q # p => element'[q] = element[q]
  BY <1>2, <1>4 DEF Element
<1>8. element'[p].usage # 0
  <2>1. element[p].usage \in Nat
    BY <1>4, UsersFinite DEF PageOK
  <2> QED BY <1>7, <2>1
<1>9. ASSUME request[t].mode # "fill"
      PROVE  element[p].fresh
  <2>1. CASE Free(p)
    <3>1. LastCopy(p)
      BY <1>3 DEF LastCopy
    <3>2. element[p].block # NoBlock
      BY <1>3, <1>5, RequestTypes DEF CopyInv, AccountInv, FsCacheAssumption
    <3> QED BY <1>3, <2>1, <3>1, <3>2 DEF CopyInv, CopiesOK, FreeFresh
  <2>2. CASE ~Free(p)
    <3>1. Users(p) # {}
      BY <1>4, <2>2, UsersFinite DEF PageOK, Free
    <3>2. PICK u \in User : Uses(u, p)
      BY <3>1 DEF Users
    <3>3. u # t /\ pc[u] = "mapped" /\ page[u] = p
      BY <1>2, <1>4, <1>5, <3>2 DEF PageOK, Uses
    <3>4. /\ request[u] # NoRequest /\ request[u].block = request[t].block
          /\ request[u].mode \in {"read", "write", "fill"}
      BY <1>3, <1>4, <3>2, UserFacts DEF CopyInv
    <3>5. request[u].mode = "read"
      BY <1>5, <3>3, <3>4, ReadersOnly DEF CopyInv, AccountInv
    <3> QED BY <3>3, <3>5 DEF CopyInv, CopiesOK, MappedFresh
  <2> QED BY <2>1, <2>2
<1> QED BY <1>1, <1>3, <1>5, <1>6, <1>7, <1>8, <1>9, TailCopies

LEMMA MapCollidesCopies ==
    ASSUME CopyInv, FsCacheAssumption, NEW t \in User, MapCollides(t)
    PROVE  CopiesNext
<1>1. Steps(t)
  BY MapCollidesSteps DEF CopyInv, AccountInv
<1>2. PICK p \in Range(lru) :
        /\ element[p].reading /\ lru' = ToTail(p) /\ element[p].block = request[t].block
        /\ element' = [element EXCEPT ![p].readWaiters = TRUE]
        /\ pc' = Goes(t, "collided")
  BY DEF MapCollides, FscLookupElement
<1>3. p \in Page /\ element \in [Page -> Element] /\ PageOK(p)
  BY DEF CopyInv, AccountInv, CacheTypes, Range, UsageOK
<1>4. pc[t] = "map" /\ pc'[t] = "collided" /\ request' = request /\ request[t] # NoRequest
  BY <1>2 DEF MapCollides, Goes, CopyInv, AccountInv, CallsInv, CallTypes, UserCallsOK, Threads
<1>5. Lists(lru', Range(lru)) /\ TailOf(lru', lru, p)
  BY <1>2, MovedToTail DEF ToTail, CopyInv, AccountInv, CacheTypes
<1>6. /\ element'[p].usage = element[p].usage /\ element'[p].block = element[p].block
      /\ element'[p].fresh = element[p].fresh
      /\ \A q \in Page : q # p => element'[q] = element[q]
  BY <1>2, <1>3 DEF Element
<1>7. element[p].usage = 1
  BY <1>2, <1>3 DEF PageOK
<1> QED BY <1>1, <1>2, <1>4, <1>5, <1>6, <1>7, TailCopies

(* The copies before the one taken, which become the last of their block, *)
(* are in use.                                                             *)
LEMMA TakeElementCopies ==
    ASSUME CopyInv, FsCacheAssumption, NEW t \in User, TakeElement(t)
    PROVE  CopiesNext
<1>1. Steps(t)
  BY TakeElementSteps DEF CopyInv, AccountInv
<1>2. PICK p \in LeastRecentlyFree :
        /\ lru' = ToTail(p)
        /\ element' = [element EXCEPT ![p] =
                [Empty EXCEPT !.block = request[t].block, !.usage = 1,
                              !.reading = request[t].mode # "fill",
                              !.writable = request[t].mode = "fill"]]
        /\ page' = [page EXCEPT ![t] = p]
        /\ pc' = Goes(t, IF request[t].mode = "fill" THEN "mapped" ELSE "reading")
  BY DEF TakeElement
<1>3. p \in Range(lru) /\ Free(p) /\ \A q \in Range(lru) : Before(lru, q, p) => ~Free(q)
  BY <1>2 DEF LeastRecentlyFree
<1>4. p \in Page /\ element \in [Page -> Element]
  BY <1>3 DEF CopyInv, AccountInv, CacheTypes, Range
<1>5. /\ pc[t] \in {"map", "woken"} /\ page'[t] = p /\ request' = request /\ request[t] # NoRequest
      /\ pc'[t] = IF request[t].mode = "fill" THEN "mapped" ELSE "reading"
  BY <1>2 DEF TakeElement, Allocates, Goes, CopyInv, AccountInv, CallsInv, CallTypes, UserCallsOK, Threads
<1>6. Lists(lru', Range(lru)) /\ TailOf(lru', lru, p)
  BY <1>2, <1>3, MovedToTail DEF ToTail, CopyInv, AccountInv, CacheTypes
<1>7. /\ element'[p].usage = 1 /\ element'[p].block = request[t].block
      /\ \A q \in Page : q # p => element'[q] = element[q]
  BY <1>2, <1>4 DEF Empty
<1> QED BY <1>1, <1>3, <1>5, <1>6, <1>7, TailCopies

(* The list and the blocks stay as they are, the other threads' pages are *)
(* not written, and nobody begins to use a page.                           *)
LEMMA SameListCopies ==
    ASSUME CopyInv, FsCacheAssumption, NEW t \in User, Steps(t), lru' = lru,
           \A q \in Page : element'[q].block = element[q].block,
           \A q \in Range(lru) : element[q].block # NoBlock /\ Free(q)' /\ LastCopy(q) => element'[q].fresh,
           \A u \in User, q \in Page : u # t /\ Uses(u, q) /\ element[q].fresh => element'[q].fresh,
           \A q \in Page : Uses(t, q)' => Uses(t, q), request'[t] \in {request[t], NoRequest},
           pc'[t] = "mapped" => element'[page'[t]].fresh /\ request'[t] = request[t],
           pc'[t] \notin {"reading", "directio"}
    PROVE  CopiesNext
<1>1. lru \in Seq(Page) /\ Range(lru) \subseteq Page
  BY DEF CopyInv, AccountInv, CacheTypes, Range
<1>2. ASSUME NEW q \in Page
      PROVE  LastCopy(q)' <=> LastCopy(q)
  BY <1>1 DEF LastCopy, Before
<1>3. FreeFresh'
  BY <1>1, <1>2 DEF FreeFresh
<1>4. \A u \in User : u # t => /\ pc'[u] \in {"reading", "mapped", "directio"} => pc[u] = pc'[u]
                               /\ request'[u] = request[u] /\ page'[u] = page[u]
  BY DEF Steps, Threads
<1>5. MappedFresh'
  <2> SUFFICES ASSUME NEW u \in User, u # t, pc'[u] = "mapped", request'[u].mode \in {"read", "write"}
               PROVE  element'[page'[u]].fresh
    BY DEF MappedFresh
  <2>1. pc[u] = "mapped" /\ request[u].mode \in {"read", "write"} /\ page'[u] = page[u]
    BY <1>4
  <2>2. page[u] \in Page
    BY <2>1 DEF CopyInv, AccountInv, CallsInv, UserCallsOK
  <2>3. element[page[u]].fresh
    BY <2>1 DEF CopyInv, CopiesOK, MappedFresh
  <2> QED BY <2>1, <2>2, <2>3 DEF Uses
<1>6. WritersLast'
  <2> SUFFICES ASSUME NEW u \in User, NEW q \in Page, Uses(u, q)', request'[u].mode # "read"
               PROVE  LastCopy(q)
    BY <1>2 DEF WritersLast
  <2>1. CASE u = t
    BY <2>1 DEF CopyInv, CopiesOK, WritersLast, Uses
  <2>2. CASE u # t
    BY <1>4, <2>2 DEF CopyInv, CopiesOK, WritersLast, Uses
  <2> QED BY <2>1, <2>2
<1>7. DirectAlone'
  BY <1>1, <1>4 DEF CopyInv, CopiesOK, DirectAlone
<1> QED BY <1>3, <1>5, <1>6, <1>7 DEF CopiesNext

LEMMA ReadSucceedsCopies ==
    ASSUME CopyInv, FsCacheAssumption, NEW t \in User, ReadSucceeds(t)
    PROVE  CopiesNext
<1>1. Steps(t)
  BY ReadSucceedsSteps DEF CopyInv, AccountInv
<1>2. /\ pc[t] = "reading" /\ pc'[t] = "mapped" /\ lru' = lru /\ page' = page /\ request' = request
  BY DEF ReadSucceeds, Pulsed, CopyInv, AccountInv, CallsInv, CallTypes, Threads
<1>3. PICK p \in Page : p = page[t]
  BY <1>2 DEF CopyInv, AccountInv, CallsInv, UserCallsOK
<1>4. element \in [Page -> Element] /\ Range(lru) \subseteq Page
  BY DEF CopyInv, AccountInv, CacheTypes, Range
<1>5. /\ element'[p].usage = element[p].usage /\ element'[p].block = element[p].block
      /\ element'[p].fresh
      /\ \A q \in Page : q # p => element'[q] = element[q]
  BY <1>3, <1>4 DEF ReadSucceeds, Element
<1>6. \A q \in Page : /\ element'[q].block = element[q].block /\ element'[q].usage = element[q].usage
                      /\ element[q].fresh => element'[q].fresh
  BY <1>5
<1>7. \A q \in Range(lru) : element[q].block # NoBlock /\ Free(q)' /\ LastCopy(q) => element'[q].fresh
  BY <1>4, <1>6 DEF CopyInv, CopiesOK, FreeFresh, Free
<1>8. \A q \in Page : Uses(t, q)' => Uses(t, q)
  BY <1>2 DEF Uses
<1> QED BY <1>1, <1>2, <1>3, <1>5, <1>6, <1>7, <1>8, SameListCopies

LEMMA UnmapCopies ==
    ASSUME CopyInv, FsCacheAssumption, NEW t \in User, Unmap(t)
    PROVE  CopiesNext
<1>1. Steps(t) /\ pc[t] = "mapped" /\ pc'[t] = "idle" /\ request[t].mode # "fill" /\ lru' = lru
  BY UnmapSteps DEF CopyInv, AccountInv, Unmap, FscUnmapBuffer
<1>2. PICK p \in Page : p = page[t] /\ Uses(t, p)
  BY <1>1 DEF CopyInv, AccountInv, CallsInv, UserCallsOK, Uses
<1>3. element \in [Page -> Element] /\ Range(lru) \subseteq Page /\ request'[t] = NoRequest
  BY DEF CopyInv, AccountInv, CacheTypes, Range, Unmap, FscUnmapBuffer, Returns, CallsInv, CallTypes
<1>4. element' = [element EXCEPT ![p].usage = @ - 1, ![p].writable = FALSE]
  BY <1>2 DEF Unmap, FscUnmapBuffer
<1>5. /\ element'[p].block = element[p].block /\ element'[p].fresh = element[p].fresh
      /\ \A q \in Page : q # p => element'[q] = element[q]
  BY <1>3, <1>4 DEF Element
<1>6. element[p].fresh
  <2>1. request[t].mode \in {"read", "write", "fill"}
    BY <1>2, UserFacts DEF CopyInv
  <2> QED BY <1>1, <1>2, <2>1 DEF CopyInv, CopiesOK, MappedFresh
<1>7. \A q \in Page : /\ element'[q].block = element[q].block
                      /\ element'[q].fresh = element[q].fresh
                      /\ q # p => element'[q].usage = element[q].usage
  BY <1>5
<1>8. \A q \in Range(lru) : element[q].block # NoBlock /\ Free(q)' /\ LastCopy(q) => element'[q].fresh
  <2> SUFFICES ASSUME NEW q \in Range(lru), element[q].block # NoBlock, Free(q)', LastCopy(q), q # p
               PROVE  element[q].fresh
    BY <1>3, <1>6, <1>7
  <2>1. Free(q)
    BY <1>3, <1>7 DEF Free
  <2> QED BY <2>1 DEF CopyInv, CopiesOK, FreeFresh
<1>9. \A q \in Page : ~Uses(t, q)'
  BY <1>1 DEF Uses
<1> QED BY <1>1, <1>3, <1>7, <1>8, <1>9, SameListCopies

(* The page written is the last copy of its block: the device now holds   *)
(* what it holds, and the others are stale.                                *)
LEMMA WriteSucceedsCopies ==
    ASSUME CopyInv, FsCacheAssumption, NEW t \in User, WriteSucceeds(t)
    PROVE  CopiesNext
<1> DEFINE b == request[t].block
           e == Written(b, page[t])
<1>1. /\ pc[t] = "mapped" /\ request[t].mode \in {"write", "fill"} /\ lru' = lru
      /\ FscUnmapBuffer(t, e)
  BY DEF WriteSucceeds, FscUnmapBuffer
<1>2. Steps(t) /\ pc'[t] = "idle"
  BY <1>1, UnmapSteps DEF CopyInv, AccountInv
<1>3. PICK p \in Page : p = page[t] /\ Uses(t, p)
  BY <1>1 DEF CopyInv, AccountInv, CallsInv, UserCallsOK, Uses
<1>4. SameButFresh(e) /\ \A q \in Page : e[q].fresh = IF element[q].block = b THEN q = p ELSE element[q].fresh
  BY <1>3, WrittenElements DEF CopyInv, AccountInv
<1>5. /\ element' = [e EXCEPT ![p].usage = @ - 1, ![p].writable = FALSE] /\ request'[t] = NoRequest
      /\ Range(lru) \subseteq Page
  BY <1>1, <1>3 DEF FscUnmapBuffer, Returns, CopyInv, AccountInv, CallsInv, CallTypes, CacheTypes, Range
<1>6. element[p].block = b /\ request[t] # NoRequest /\ p \in Range(lru)
  BY <1>3, UserFacts DEF CopyInv
<1>7. LastCopy(p)
  BY <1>1, <1>3 DEF CopyInv, CopiesOK, WritersLast
<1> HIDE DEF e, b
<1>8. \A q \in Page : /\ element'[q].block = element[q].block
                      /\ element'[q].fresh = IF element[q].block = b THEN q = p ELSE element[q].fresh
                      /\ q # p => element'[q].usage = element[q].usage
  <2>1. e \in [Page -> Element]
    BY <1>4 DEF SameButFresh
  <2>2. element'[p].block = e[p].block /\ element'[p].fresh = e[p].fresh /\ \A q \in Page : q # p => element'[q] = e[q]
    BY <1>5, <2>1 DEF Element
  <2> QED BY <1>4, <2>2 DEF SameButFresh
<1>9. ASSUME NEW q \in Range(lru), element[q].block # NoBlock, Free(q)', LastCopy(q)
      PROVE  element'[q].fresh
  <2>1. CASE q = p
    <3>1. element'[p].fresh = (p = p)
      BY <1>6, <1>8
    <3>2. element'[p].fresh = TRUE
      BY <3>1, Zenon
    <3> QED BY <2>1, <3>2, Zenon
  <2>2. CASE q # p
    <3>1. Free(q) /\ q \in Page
      BY <1>5, <1>8, <1>9, <2>2 DEF Free
    <3>2. element[q].block # b
      <4> SUFFICES ASSUME element[q].block = b PROVE FALSE
        OBVIOUS
      <4>1. Before(lru, p, q) \/ Before(lru, q, p)
        BY <1>6, <2>2, BeforeIsTotal DEF CopyInv, AccountInv, CacheTypes
      <4> QED BY <1>6, <1>7, <1>9, <4>1 DEF LastCopy
    <3>3. element[q].fresh
      BY <1>9, <3>1 DEF CopyInv, CopiesOK, FreeFresh
    <3> QED BY <1>8, <3>1, <3>2, <3>3
  <2> QED BY <2>1, <2>2
<1>10. ASSUME NEW u \in User, NEW q \in Page, u # t, Uses(u, q), element[q].fresh
       PROVE  element'[q].fresh
  <2>1. element[q].block = request[u].block /\ request[u] # NoRequest
    BY <1>10, UserFacts DEF CopyInv
  <2>2. element[q].block # b
    <3> SUFFICES ASSUME request[t].block = request[u].block PROVE FALSE
      BY <2>1 DEF b
    <3> QED BY <1>1, <1>6, <1>10, <2>1, ReadersOnly DEF CopyInv, AccountInv
  <2> QED BY <1>8, <1>10, <2>2
<1>11. \A q \in Page : ~Uses(t, q)'
  BY <1>2 DEF Uses
<1> QED BY <1>1, <1>2, <1>5, <1>8, <1>9, <1>10, <1>11, SameListCopies

(* A write past the cache finds no page of its block in the list. *)
LEMMA DirectWriteCopies ==
    ASSUME CopyInv, FsCacheAssumption, NEW t \in User, DirectWrite(t)
    PROVE  CopiesNext
<1> DEFINE b == request[t].block
           e == Written(b, NoPage)
<1>1. Steps(t)
  BY DirectWriteSteps DEF CopyInv, AccountInv
<1>2. /\ pc[t] = "directio" /\ pc'[t] = "idle" /\ element' = e /\ lru' = lru
      /\ request'[t] = NoRequest
  BY DEF DirectWrite, Returns, Goes, CopyInv, AccountInv, CallsInv, CallTypes, Threads
<1>3. SameButFresh(e) /\ \A q \in Page : e[q].fresh = IF element[q].block = b THEN q = NoPage ELSE element[q].fresh
  BY WrittenElements DEF CopyInv, AccountInv
<1>4. \A q \in Range(lru) : element[q].block # b
  BY <1>2 DEF CopyInv, CopiesOK, DirectAlone
<1>5. Range(lru) \subseteq Page
  BY DEF CopyInv, AccountInv, CacheTypes, Range
<1> HIDE DEF e, b
<1>6. \A q \in Page : element'[q].block = element[q].block /\ element'[q].usage = element[q].usage
  BY <1>2, <1>3 DEF SameButFresh
<1>7. \A q \in Range(lru) : element'[q].fresh = element[q].fresh
  BY <1>2, <1>3, <1>4, <1>5
<1>8. \A q \in Range(lru) : element[q].block # NoBlock /\ Free(q)' /\ LastCopy(q) => element'[q].fresh
  BY <1>5, <1>6, <1>7 DEF CopyInv, CopiesOK, FreeFresh, Free
<1>9. \A u \in User, q \in Page : u # t /\ Uses(u, q) /\ element[q].fresh => element'[q].fresh
  BY <1>7, UserFacts DEF CopyInv
<1>10. \A q \in Page : ~Uses(t, q)'
  BY <1>2 DEF Uses
<1> QED BY <1>1, <1>2, <1>6, <1>8, <1>9, <1>10, SameListCopies

(* The copies that stay keep their order, so none of them becomes the last *)
(* of its block; while a thread writes past the cache its lock keeps the   *)
(* block from being mapped, so none of its copies stays.                   *)
LEMMA InvalidateCopies ==
    ASSUME CopyInv, FsCacheAssumption, NEW t, Steps(t), NEW B, B \subseteq Block, NEW pcs,
           FscInvalidateBlocks(B, pcs), UNCHANGED <<request, page>>,
           t \in User => /\ pc[t] = "invalidate" /\ pc'[t] = "directio" /\ B = {request[t].block}
    PROVE  CopiesNext
<1> DEFINE I == Invalidated(B)
<1>1. lru \in Seq(Page) /\ IsInjective(lru) /\ Range(lru) \subseteq Page /\ IsFiniteSet(Range(lru))
  <2>1. lru \in Seq(Page) /\ IsInjective(lru)
    BY DEF CopyInv, AccountInv, CacheTypes
  <2>2. Range(lru) \subseteq Page
    BY <2>1 DEF Range
  <2>3. IsFiniteSet(Range(lru))
    BY PagesFinite DEF CopyInv, AccountInv
  <2> QED BY <2>1, <2>2, <2>3
<1>2. /\ lru' \in Arranged(Range(lru), MovedToHead(I))
      /\ element' = [p \in Page |-> IF p \in I THEN Empty ELSE element[p]]
  BY DEF FscInvalidateBlocks
<1>3. \A p : p \in I <=> p \in Range(lru) /\ element[p].block \in B /\ Free(p)
  BY DEF Invalidated
<1>4. Lists(lru', Range(lru)) /\ Ordered(lru', MovedToHead(I))
  BY <1>1, <1>2, ArrangedLists
<1> HIDE DEF I
<1>5. \A p \in Page : /\ p \in I => element'[p].block = NoBlock
                      /\ p \notin I => element'[p] = element[p]
  BY <1>2 DEF Empty
<1>6. ASSUME NEW q \in Range(lru), NEW r \in Range(lru), q \notin I, r \notin I
      PROVE  Before(lru', q, r) <=> Before(lru, q, r)
  <2>1. q \in Page /\ r \in Page
    BY <1>1
  <2>2. ASSUME NEW x \in Page, NEW y \in Page, x \notin I, Before(lru', x, y)
        PROVE  Before(lru, x, y)
    <3>1. <<x, y>> \in MovedToHead(I)
      BY <1>4, <2>2 DEF Ordered
    <3> QED BY <2>2, <3>1 DEF MovedToHead
  <2>3. ASSUME Before(lru, q, r)
        PROVE  Before(lru', q, r)
    <3>1. q # r /\ ~Before(lru, r, q)
      BY <1>1, <2>3, BeforeIsStrict
    <3>2. Before(lru', q, r) \/ Before(lru', r, q)
      BY <1>4, <3>1, BeforeIsTotal DEF Lists
    <3> QED BY <1>6, <2>1, <2>2, <3>1, <3>2
  <2> QED BY <1>6, <2>1, <2>2, <2>3
<1>7. Range(lru') = Range(lru)
  BY <1>4 DEF Lists
<1>8. FreeFresh'
  <2> SUFFICES ASSUME NEW q \in Range(lru), element'[q].block # NoBlock, Free(q)', LastCopy(q)'
               PROVE  element'[q].fresh
    BY <1>7 DEF FreeFresh
  <2>1. q \in Page /\ q \notin I /\ element'[q] = element[q] /\ Free(q)
    BY <1>1, <1>5 DEF Free
  <2>2. element[q].block \notin B
    BY <1>3, <2>1
  <2>3. ASSUME NEW r \in Range(lru), Before(lru, q, r)
        PROVE  element[r].block # element[q].block
    <3> SUFFICES ASSUME element[r].block = element[q].block PROVE FALSE
      OBVIOUS
    <3>1. r \notin I /\ r \in Page
      BY <1>1, <1>3, <2>2
    <3>2. Before(lru', q, r) /\ element'[r] = element[r]
      BY <1>5, <1>6, <2>1, <2>3, <3>1
    <3> QED BY <1>7, <2>1, <3>2 DEF LastCopy
  <2>4. LastCopy(q)
    BY <2>3 DEF LastCopy
  <2> QED BY <2>1, <2>4 DEF CopyInv, CopiesOK, FreeFresh
<1>9. ASSUME NEW u \in User, NEW q \in Page, Uses(u, q)'
      PROVE  /\ Uses(u, q) /\ pc'[u] = pc[u] /\ element'[q] = element[q] /\ q \notin I
             /\ q \in Range(lru) /\ element[q].block = request[u].block /\ request[u].block \in Block
  <2>1. u # t
    BY <1>9 DEF Uses
  <2>2. Uses(u, q) /\ pc'[u] = pc[u]
    <3>1. u \in Threads
      BY DEF Threads
    <3> QED BY <1>9, <2>1, <3>1 DEF Steps, Uses
  <2>3. /\ ~Free(q) /\ q \in Range(lru) /\ element[q].block = request[u].block
        /\ request[u].block \in Block
    BY <2>2, UserFacts DEF CopyInv
  <2> QED BY <1>3, <1>5, <2>2, <2>3
<1>10. MappedFresh'
  <2> SUFFICES ASSUME NEW u \in User, pc'[u] = "mapped", request'[u].mode \in {"read", "write"}
               PROVE  element'[page'[u]].fresh
    BY DEF MappedFresh
  <2>1. pc[u] = "mapped"
    BY DEF Steps, Threads
  <2>2. page[u] \in Page
    BY <2>1 DEF CopyInv, AccountInv, CallsInv, UserCallsOK
  <2>3. element'[page[u]] = element[page[u]]
    BY <1>9, <2>2 DEF Uses
  <2>4. element[page[u]].fresh
    BY <2>1 DEF CopyInv, CopiesOK, MappedFresh
  <2> QED BY <2>3, <2>4
<1>11. WritersLast'
  <2> SUFFICES ASSUME NEW u \in User, NEW q \in Page, Uses(u, q)', request'[u].mode # "read",
                      NEW r \in Range(lru), Before(lru', q, r)
               PROVE  element'[r].block # element'[q].block
    BY <1>7 DEF WritersLast, LastCopy
  <2>1. /\ Uses(u, q) /\ element'[q] = element[q] /\ q \notin I /\ q \in Range(lru)
        /\ element[q].block \in Block
    BY <1>9
  <2>2. CASE r \in I
    BY <1>1, <1>5, <2>1, <2>2 DEF FsCacheAssumption
  <2>3. CASE r \notin I
    <3>1. Before(lru, q, r) /\ element'[r] = element[r]
      BY <1>1, <1>5, <1>6, <2>1, <2>3
    <3>2. LastCopy(q)
      BY <2>1 DEF CopyInv, CopiesOK, WritersLast
    <3> QED BY <2>1, <3>1, <3>2 DEF LastCopy
  <2> QED BY <2>2, <2>3
<1>12. DirectAlone'
  <2> SUFFICES ASSUME NEW u \in User, pc'[u] = "directio", NEW q \in Range(lru)
               PROVE  element'[q].block # request[u].block
    BY <1>7 DEF DirectAlone
  <2>1. q \in Page /\ u \in Threads
    BY <1>1 DEF Threads
  <2>2. pc[u] \in {"invalidate", "directio"} /\ (u # t => pc[u] = "directio")
    BY <2>1 DEF Steps
  <2>3. request[u] # NoRequest /\ request[u].mode = "direct"
    BY <2>2 DEF CopyInv, AccountInv, CallsInv, UserCallsOK
  <2>4. request[u].block \in Block
    BY <2>3, RequestTypes DEF CopyInv, AccountInv
  <2>5. CASE q \in I
    BY <1>5, <2>1, <2>4, <2>5 DEF FsCacheAssumption
  <2>6. CASE q \notin I /\ u # t
    BY <1>5, <2>1, <2>2, <2>6 DEF CopyInv, CopiesOK, DirectAlone
  <2>7. CASE q \notin I /\ u = t
    <3> SUFFICES ASSUME element[q].block = request[t].block PROVE FALSE
      BY <1>5, <2>1, <2>7
    <3>1. ~Free(q) /\ PageOK(q)
      BY <1>3, <2>1, <2>7 DEF CopyInv, AccountInv, UsageOK
    <3>2. Users(q) # {}
      BY <3>1, UsersFinite DEF PageOK, Free
    <3>3. PICK v \in User : Uses(v, q)
      BY <3>2 DEF Users
    <3>4. request[v] # NoRequest /\ request[v].block = request[t].block
      BY <2>1, <3>3, UserFacts DEF CopyInv
    <3>5. v # t
      BY <2>7, <3>3 DEF Uses
    <3> QED BY <2>3, <2>7, <3>4, <3>5, ReadersOnly DEF CopyInv, AccountInv
  <2> QED BY <2>5, <2>6, <2>7
<1> QED BY <1>8, <1>10, <1>11, <1>12 DEF CopiesNext

-----------------------------------------------------------------------------
(* The file system cache: the inductive invariant.                         *)

FscInv == WakeInv /\ (disturbed \/ CopiesOK)

LEMMA FscInitially ==
    ASSUME FsCacheAssumption, FscInit
    PROVE  FscInv
<1>1. /\ array \in [1..InitialSize -> Page] /\ IsInjective(array) /\ lru = Reverse(array)
      /\ element = [p \in Page |-> Empty] /\ waiting = <<>>
      /\ pc = [a \in Threads |-> "idle"] /\ request = [t \in User |-> NoRequest]
      /\ page = [t \in User |-> NoPage] /\ toRelease = 0 /\ missed = {} /\ disturbed = FALSE
  BY DEF FscInit, Threads
<1>2. InitialSize \in Nat /\ Cardinality(Page) \in Nat /\ Cardinality(User) \in Nat
  <2>1. Cardinality(Page) \in Nat /\ Cardinality(User) \in Nat
    BY NobodyCounted DEF FsCacheAssumption
  <2> QED BY <2>1 DEF FsCacheAssumption
<1>3. /\ array \in Seq(Page) /\ Len(array) = InitialSize /\ DOMAIN array = 1..InitialSize
  BY <1>1, <1>2
<1>4. /\ DOMAIN lru = 1..InitialSize /\ lru \in Seq(Page)
      /\ \A i \in 1..InitialSize : /\ InitialSize - i + 1 \in 1..InitialSize
                                   /\ lru[i] = array[(InitialSize - i) + 1]
                                   /\ lru[(InitialSize - i) + 1] = array[i]
  <2>1. lru = [i \in 1..InitialSize |-> array[(InitialSize - i) + 1]]
    BY <1>1, <1>3 DEF Reverse
  <2>2. \A i \in 1..InitialSize : /\ (InitialSize - i) + 1 \in 1..InitialSize
                                  /\ (InitialSize - ((InitialSize - i) + 1)) + 1 = i
    BY <1>2
  <2>3. \A i \in 1..InitialSize : array[(InitialSize - i) + 1] \in Page
    BY <1>1, <2>2
  <2> QED BY <1>2, <2>1, <2>2, <2>3
<1>5. IsInjective(lru)
  <2> SUFFICES ASSUME NEW i \in 1..InitialSize, NEW j \in 1..InitialSize, lru[i] = lru[j]
               PROVE  i = j
    BY <1>4 DEF IsInjective
  <2>1. (InitialSize - i) + 1 = (InitialSize - j) + 1
    BY <1>1, <1>3, <1>4 DEF IsInjective
  <2> QED BY <1>2, <2>1
<1>6. Range(lru) = Range(array)
  <2>1. ASSUME NEW p \in Range(lru)
        PROVE  p \in Range(array)
    <3>1. PICK i \in 1..InitialSize : lru[i] = p
      BY <1>4 DEF Range
    <3> QED BY <1>3, <1>4, <3>1 DEF Range
  <2>2. ASSUME NEW p \in Range(array)
        PROVE  p \in Range(lru)
    <3>1. PICK i \in 1..InitialSize : array[i] = p
      BY <1>3 DEF Range
    <3>2. (InitialSize - i) + 1 \in DOMAIN lru /\ lru[(InitialSize - i) + 1] = p
      BY <1>4, <3>1
    <3> QED BY <3>2 DEF Range
  <2> QED BY <2>1, <2>2
<1>7. Empty \in Element
  BY <1>2 DEF Empty, Element
<1>8. CacheTypes
  <2>1. element \in [Page -> Element]
    BY <1>1, <1>7
  <2>2. toRelease \in 0..Cardinality(Page)
    <3>1. toRelease = 0
      BY <1>1
    <3> QED BY <1>2, <3>1
  <2>3. disturbed \in BOOLEAN
    <3>1. disturbed = FALSE
      BY <1>1
    <3> QED BY <3>1, Zenon
  <2> QED BY <1>1, <1>3, <1>4, <1>5, <2>1, <2>2, <2>3 DEF CacheTypes
<1>9. waiting \in Seq(Threads) /\ IsInjective(waiting) /\ Range(waiting) = {}
  BY <1>1 DEF IsInjective, Range
<1>10. CallTypes
  BY <1>1, <1>9 DEF CallTypes, Where
<1>11. CallsInv
  <2>1. UserCallsOK
    BY <1>1 DEF UserCallsOK, Threads
  <2>2. CacheLocksOK
    BY <1>1 DEF CacheLocksOK
  <2>3. WaitersOK
    BY <1>1, <1>9 DEF WaitersOK
  <2> QED BY <1>10, <2>1, <2>2, <2>3 DEF CallsInv
<1>12. \A t \in User : pc[t] = "idle"
  BY <1>1 DEF Threads
<1>13. ASSUME NEW p \in Page
       PROVE  PageOK(p)
  <2>1. element[p].usage = 0 /\ element[p].reading = FALSE /\ element[p].writable = FALSE
    BY <1>1 DEF Empty
  <2>2. Users(p) = {}
    BY <1>12 DEF Users, Uses
  <2>3. Cardinality(Users(p)) = 0
    BY <2>2, FS_EmptySet
  <2> QED BY <1>12, <2>1, <2>3 DEF PageOK, Uses
<1>14. ListOK
  <2>1. \A p \in Page : element[p].deletePending = FALSE /\ element[p].block = NoBlock
    BY <1>1 DEF Empty
  <2>2. Range(array) \subseteq Page
    BY <1>3 DEF Range
  <2> QED BY <1>6, <2>1, <2>2 DEF ListOK
<1>15. FreeTold /\ PulsesCome
  BY <1>9, <1>12 DEF FreeTold, PulsesCome, PulseComing
<1>16. CopiesOK
  <2>1. FreeFresh
    <3>1. \A p \in Range(lru) : element[p].block = NoBlock
      <4>1. Range(lru) \subseteq Page
        BY <1>4 DEF Range
      <4> QED BY <1>1, <4>1 DEF Empty
    <3> QED BY <3>1 DEF FreeFresh
  <2> QED BY <1>12, <2>1 DEF CopiesOK, MappedFresh, WritersLast, DirectAlone, Uses
<1> QED BY <1>8, <1>11, <1>13, <1>14, <1>15, <1>16 DEF FscInv, WakeInv, AccountInv, UsageOK

LEMMA FscInvNext ==
    ASSUME CallsInv', Accounted', WakesNext, disturbed' \/ CopiesNext
    PROVE  FscInv'
<1>1. CopiesNext => CopiesOK'
  BY DEF CopiesNext, CopiesOK
<1> QED BY <1>1 DEF Accounted, WakesNext, FscInv, WakeInv, AccountInv

(* What a step does to the history of missed signals. *)
LEMMA WhoMisses ==
    ASSUME AccountInv, NEW N \in SUBSET Threads, missed \subseteq N, missed' = StillWaiting(N)
    PROVE  Misses(N)
BY DEF Misses

(* The steps of one thread's call. *)
LEMMA CallInductive ==
    ASSUME FsCacheAssumption, FscInv, NEW t \in User, Misses(missed), UNCHANGED disturbed,
           \/ MapFound(t) \/ MapCollides(t) \/ NoCache(t) \/ TakeElement(t)
           \/ WaitForElement(t) \/ ReadSucceeds(t) \/ Unmap(t)
           \/ WriteSucceeds(t) \/ InvalidateFirst(t) \/ DirectWrite(t)
    PROVE  FscInv'
<1>1. /\ WakeInv /\ AccountInv /\ CallsInv /\ CacheTypes /\ disturbed' \in BOOLEAN
      /\ ~disturbed => CopyInv
  BY DEF FscInv, WakeInv, AccountInv, CacheTypes, CopyInv
<1>2. ASSUME CallsInv', Accounted', WakesNext, CopyInv => CopiesNext
      PROVE  FscInv'
  BY <1>1, <1>2, FscInvNext DEF FscInv
<1>3. CASE MapFound(t)
  <2>1. CallsInv'
    BY <1>1, <1>3, MapFoundCalls
  <2>2. Accounted'
    BY <1>1, <1>3, MapFoundAccounted
  <2>3. WakesNext
    BY <1>1, <1>3, <2>2, MapFoundWakeups
  <2> QED BY <1>2, <1>3, <2>1, <2>2, <2>3, MapFoundCopies
<1>4. CASE MapCollides(t)
  <2>1. CallsInv'
    BY <1>1, <1>4, MapCollidesCalls
  <2>2. Accounted'
    BY <1>1, <1>4, MapCollidesAccounted
  <2>3. WakesNext
    BY <1>1, <1>4, <2>2, MapCollidesWakeups
  <2> QED BY <1>2, <1>4, <2>1, <2>2, <2>3, MapCollidesCopies
<1>5. CASE NoCache(t)
  <2>1. CallsInv'
    BY <1>1, <1>5, NoCacheCalls
  <2>2. /\ Steps(t) /\ UNCHANGED <<array, lru, element, toRelease>>
        /\ pc[t] \in {"map", "woken"} /\ pc'[t] = "idle"
    BY <1>1, <1>5, NoCacheSteps DEF NoCache, Allocates, Goes, CallsInv, CallTypes, Threads
  <2>3. \A p \in Page : ~Uses(t, p) /\ ~Uses(t, p)'
    BY <2>2 DEF Uses
  <2>4. Accounted'
    BY <1>1, <2>2, <2>3, CacheUnchanged DEF CacheTypes, FsCacheAssumption
  <2>5. WakesNext
    BY <1>1, <1>5, <2>4, NoCacheWakeups
  <2> QED BY <1>2, <2>1, <2>2, <2>4, <2>5, QuietCopies
<1>6. CASE TakeElement(t)
  <2>1. CallsInv'
    BY <1>1, <1>6, TakeElementCalls
  <2>2. Accounted'
    BY <1>1, <1>6, TakeElementAccounted
  <2>3. WakesNext
    BY <1>1, <1>6, <2>2, TakeElementWakeups
  <2> QED BY <1>2, <1>6, <2>1, <2>2, <2>3, TakeElementCopies
<1>7. CASE WaitForElement(t)
  <2>1. CallsInv'
    BY <1>1, <1>7, WaitForElementCalls
  <2>2. /\ Steps(t) /\ UNCHANGED <<array, lru, element, toRelease>>
        /\ pc[t] \in {"map", "woken"} /\ pc'[t] = "waiting"
    BY <1>1, <1>7, WaitForElementSteps DEF WaitForElement, Allocates, Goes, CallsInv, CallTypes, Threads
  <2>3. \A p \in Page : ~Uses(t, p) /\ ~Uses(t, p)'
    BY <2>2 DEF Uses
  <2>4. Accounted'
    BY <1>1, <2>2, <2>3, CacheUnchanged DEF CacheTypes, FsCacheAssumption
  <2>5. WakesNext
    BY <1>1, <1>7, <2>4, WaitForElementWakeups
  <2> QED BY <1>2, <2>1, <2>2, <2>4, <2>5, QuietCopies
<1>8. CASE ReadSucceeds(t)
  <2>1. CallsInv'
    BY <1>1, <1>8, ReadSucceedsCalls
  <2>2. Accounted'
    BY <1>1, <1>8, ReadSucceedsAccounted
  <2>3. WakesNext
    BY <1>1, <1>8, <2>2, ReadSucceedsWakeups
  <2> QED BY <1>2, <1>8, <2>1, <2>2, <2>3, ReadSucceedsCopies
<1>9. CASE Unmap(t)
  <2>1. FscUnmapBuffer(t, element) /\ pc[t] = "mapped" /\ Returns(t)
    BY <1>9 DEF Unmap, FscUnmapBuffer
  <2>2. SameButFresh(element)
    BY <1>1 DEF SameButFresh, CacheTypes
  <2>3. Steps(t) /\ pc'[t] = "idle"
    BY <1>1, <2>1, UnmapSteps
  <2>4. CallsInv'
    BY <1>1, <2>1, <2>3, LeaveCalls
  <2>5. Accounted'
    BY <1>1, <2>1, <2>2, UnmapAccounted
  <2>6. WakesNext
    BY <1>1, <2>1, <2>2, <2>5, UnmapWakeups
  <2> QED BY <1>2, <1>9, <2>4, <2>5, <2>6, UnmapCopies
<1>10. CASE WriteSucceeds(t)
  <2> DEFINE e == Written(request[t].block, page[t])
  <2>1. FscUnmapBuffer(t, e) /\ pc[t] = "mapped" /\ Returns(t)
    BY <1>10 DEF WriteSucceeds, FscUnmapBuffer
  <2>2. SameButFresh(e)
    BY <1>1, WrittenElements
  <2> HIDE DEF e
  <2>3. Steps(t) /\ pc'[t] = "idle"
    BY <1>1, <2>1, UnmapSteps
  <2>4. CallsInv'
    BY <1>1, <2>1, <2>3, LeaveCalls
  <2>5. Accounted'
    BY <1>1, <2>1, <2>2, UnmapAccounted
  <2>6. WakesNext
    BY <1>1, <2>1, <2>2, <2>5, UnmapWakeups
  <2> QED BY <1>2, <1>10, <2>4, <2>5, <2>6, WriteSucceedsCopies
<1>11. CASE InvalidateFirst(t)
  <2>1. CallsInv'
    BY <1>1, <1>11, InvalidateFirstCalls
  <2>2. /\ FscInvalidateBlocks({request[t].block}, Goes(t, "directio")) /\ pc[t] = "invalidate"
        /\ UNCHANGED <<request, page>> /\ Steps(t) /\ pc'[t] = "directio"
    BY <1>1, <1>11, InvalidateFirstSteps DEF InvalidateFirst
  <2>3. /\ \A p \in Page : ~Uses(t, p) /\ ~Uses(t, p)'
        /\ pc[Resizer] # "idle" => pc'[Resizer] # "idle"
        /\ t \notin Range(waiting') /\ Told \subseteq Told'
    BY <2>2, ToldStay DEF Uses, Steps, Threads, FsCacheAssumption
  <2>4. Accounted'
    BY <1>1, <2>2, <2>3, InvalidateAccounted
  <2>5. WakesNext
    BY <1>1, <2>2, <2>3, <2>4, InvalidateWakeups
  <2>6. {request[t].block} \subseteq Block
    BY <1>1, <2>2, RequestTypes DEF CallsInv, UserCallsOK
  <2>7. CopyInv => CopiesNext
    BY <2>2, <2>6, InvalidateCopies
  <2> QED BY <1>2, <2>1, <2>4, <2>5, <2>7
<1>12. CASE DirectWrite(t)
  <2>1. CallsInv'
    BY <1>1, <1>12, DirectWriteCalls
  <2>2. Accounted'
    BY <1>1, <1>12, DirectWriteAccounted
  <2>3. WakesNext
    BY <1>1, <1>12, <2>2, DirectWriteWakeups
  <2> QED BY <1>2, <1>12, <2>1, <2>2, <2>3, DirectWriteCopies
<1> QED BY <1>3, <1>4, <1>5, <1>6, <1>7, <1>8, <1>9, <1>10, <1>11, <1>12

LEMMA BeginInductive ==
    ASSUME FsCacheAssumption, FscInv, NEW t \in User, NEW r \in Request, Begin(t, r),
           Misses(missed), UNCHANGED disturbed
    PROVE  FscInv'
<1>1. WakeInv /\ AccountInv /\ CallsInv /\ (~disturbed => CopyInv) /\ disturbed \in BOOLEAN
  BY DEF FscInv, WakeInv, AccountInv, CopyInv, CacheTypes
<1>2. Steps(t) /\ CallsInv'
  BY <1>1, BeginSteps, BeginCalls
<1>3. /\ UNCHANGED <<array, lru, element, toRelease>> /\ pc[t] = "idle"
      /\ pc'[t] \in {"invalidate", "map"}
  BY <1>1 DEF Begin, Goes, CallsInv, CallTypes, Threads
<1>4. /\ \A p \in Page : ~Uses(t, p) /\ ~Uses(t, p)'
      /\ t \in Threads /\ t # Resizer /\ toRelease' \in 0..Cardinality(Page)
  BY <1>1, <1>3 DEF Uses, Threads, FsCacheAssumption, AccountInv, CacheTypes
<1>5. Accounted'
  BY <1>1, <1>2, <1>3, <1>4, CacheUnchanged
<1>6. WakesNext
  BY <1>1, <1>2, <1>3, <1>4, <1>5, QuietWakeups DEF Accounted
<1>7. CopyInv => CopiesNext
  BY <1>2, <1>3, QuietCopies
<1> QED BY <1>1, <1>2, <1>5, <1>6, <1>7, FscInvNext

(* A kernel APC, and the wait that follows it. *)
LEMMA ApcInductive ==
    ASSUME FsCacheAssumption, FscInv, NEW a \in Threads, KernelApc(a) \/ WaitAgain(a),
           NEW N, Misses(N), KernelApc(a) => a \in N, UNCHANGED disturbed
    PROVE  FscInv'
<1>1. /\ WakeInv /\ AccountInv /\ CallsInv /\ (~disturbed => CopyInv) /\ disturbed \in BOOLEAN
      /\ toRelease \in 0..Cardinality(Page)
  BY DEF FscInv, WakeInv, AccountInv, CopyInv, CacheTypes
<1>2. Steps(a) /\ CallsInv'
  BY <1>1, KernelApcSteps, WaitAgainSteps, ApcCalls
<1>3. /\ UNCHANGED <<array, lru, element, toRelease>>
      /\ pc[a] \in {"collided", "waiting", "interrupted"}
      /\ pc'[a] \in {"interrupted", "waiting", "collided"}
      /\ pc[a] = "interrupted" \/ pc'[a] = "interrupted"
  BY <1>1 DEF KernelApc, WaitAgain, Goes, CallsInv, CallTypes
<1>4. a \in User => \A p \in Page : ~Uses(a, p) /\ ~Uses(a, p)'
  BY <1>3 DEF Uses
<1>5. Accounted'
  BY <1>1, <1>2, <1>3, <1>4, CacheUnchanged
<1>6. pc'[a] \in {"waiting", "collided"} => a \in missed'
  <2> SUFFICES ASSUME pc'[a] \in {"waiting", "collided"} PROVE a \in missed'
    OBVIOUS
  <2>1. pc[a] = "interrupted"
    BY <1>3
  <2>2. a \in missed
    BY <1>1, <2>1 DEF CallsInv, WaitersOK
  <2> QED BY <2>2 DEF Misses, StillWaiting
<1>7. WakesNext
  BY <1>1, <1>2, <1>3, <1>5, <1>6, QuietWakeups DEF Accounted
<1>8. CopyInv => CopiesNext
  BY <1>2, <1>3, QuietCopies
<1> QED BY <1>1, <1>2, <1>5, <1>7, <1>8, FscInvNext

LEMMA InvalidateIdleInductive ==
    ASSUME FsCacheAssumption, FscInv, FscInvalidateIdleBlocks, Misses(missed), UNCHANGED disturbed
    PROVE  FscInv'
<1>1. /\ WakeInv /\ AccountInv /\ CallsInv /\ CacheTypes /\ (~disturbed => CopyInv)
      /\ disturbed' \in BOOLEAN
  BY DEF FscInv, WakeInv, AccountInv, CopyInv, CacheTypes
<1>2. Steps(Resizer) /\ pc'[Resizer] \in {pc[Resizer], "woken"}
  BY <1>1, InvalidateIdleSteps
<1>3. FscInvalidateBlocks(Block, pc) /\ UNCHANGED <<request, page>> /\ Resizer \in Threads /\ Resizer \notin User
  BY DEF FscInvalidateIdleBlocks, Threads, FsCacheAssumption
<1>4. /\ pc[Resizer] \in {"idle", "waiting", "woken", "interrupted"}
      /\ pc[Resizer] = "interrupted" => Resizer \in missed
  BY <1>1, <1>3 DEF CallsInv, UserCallsOK, WaitersOK
<1>5. CallsInv'
  BY <1>1, <1>2, <1>3, <1>4, ResizerCallStep
<1>6. Accounted'
  BY <1>1, <1>2, <1>3, InvalidateAccounted
<1>7. Told \subseteq Told'
  BY <1>2, <1>3, ToldStay DEF Told
<1>8. Resizer \in Range(waiting') =>
        Resizer \in missed' \/ (Resizer \in Range(waiting) /\ Resizer \notin missed)
  <2> SUFFICES ASSUME Resizer \in Range(waiting')
               PROVE  Resizer \in missed' \/ (Resizer \in Range(waiting) /\ Resizer \notin missed)
    OBVIOUS
  <2>1. pc'[Resizer] = "waiting" /\ pc[Resizer] = "waiting"
    BY <1>2 DEF Steps
  <2>2. Resizer \in Range(waiting)
    BY <1>1, <1>3, <2>1 DEF CallsInv, WaitersOK
  <2>3. Resizer \in missed => Resizer \in missed'
    BY <2>1 DEF Misses, StillWaiting
  <2> QED BY <2>2, <2>3
<1>9. WakesNext
  BY <1>1, <1>2, <1>3, <1>6, <1>7, <1>8, InvalidateWakeups
<1>10. CopyInv => CopiesNext
  BY <1>2, <1>3, InvalidateCopies
<1> QED BY <1>1, <1>5, <1>6, <1>9, <1>10, FscInvNext

LEMMA GrowInductive ==
    ASSUME FsCacheAssumption, FscInv, NEW n \in Size, FscGrowCacheSize(n),
           missed' = StillWaiting(missed \cup Range(waiting)), disturbed' = TRUE
    PROVE  FscInv'
<1>1. WakeInv /\ AccountInv /\ CallsInv
  BY DEF FscInv, WakeInv, AccountInv
<1>2. disturbed' \in BOOLEAN
  BY Zenon
<1>3. Misses(missed \cup Range(waiting))
  BY <1>1 DEF Misses, CallsInv, CallTypes, WaitersOK
<1>4. Steps(Resizer) /\ UNCHANGED <<request, page, pc>> /\ pc[Resizer] = "idle"
  BY <1>1, GrowSteps DEF FscGrowCacheSize
<1>5. CallsInv'
  BY <1>1, <1>3, <1>4, ResizerCallStep
<1>6. Accounted'
  BY <1>1, <1>2, GrowAccounted
<1>7. WakesNext
  BY <1>1, <1>6, GrowWakeups
<1> QED BY <1>5, <1>6, <1>7, FscInvNext

(* Shrinking the cache, at once or after a wait. *)
LEMMA ReleaseInductive ==
    ASSUME FsCacheAssumption, FscInv, NEW n \in 0..Cardinality(Page), ReleaseSome(n) \/ ReleaseAll(n),
           pc[Resizer] \in {"idle", "woken"}, UNCHANGED <<request, page>>,
           Misses(missed), disturbed' = TRUE
    PROVE  FscInv'
<1>1. WakeInv /\ AccountInv /\ CallsInv
  BY DEF FscInv, WakeInv, AccountInv
<1>2. disturbed' \in BOOLEAN
  BY Zenon
<1>3. CASE ReleaseSome(n)
  <2>1. Steps(Resizer) /\ pc'[Resizer] = "waiting"
    BY <1>1, <1>3, ReleaseSomeSteps
  <2>2. CallsInv'
    BY <1>1, <2>1, ResizerCallStep
  <2>3. Accounted'
    BY <1>1, <1>2, <1>3, ReleaseSomeAccounted
  <2>4. WakesNext
    BY <1>1, <1>3, <2>3, ReleaseSomeWakeups
  <2> QED BY <2>2, <2>3, <2>4, FscInvNext
<1>4. CASE ReleaseAll(n)
  <2>1. Steps(Resizer) /\ pc'[Resizer] = "idle"
    BY <1>1, <1>4, ReleaseAllSteps
  <2>2. CallsInv'
    BY <1>1, <2>1, ResizerCallStep
  <2>3. Accounted'
    BY <1>1, <1>2, <1>4, ReleaseAllAccounted
  <2>4. WakesNext
    BY <1>1, <1>4, <2>3, ReleaseAllWakeups
  <2> QED BY <2>2, <2>3, <2>4, FscInvNext
<1> QED BY <1>3, <1>4

LEMMA ArrayFits ==
    ASSUME FsCacheAssumption, CacheTypes, NEW n \in Nat, n < Len(array)
    PROVE  Len(array) - n \in 0..Cardinality(Page)
<1>1. array \in [1..Len(array) -> Page] /\ Len(array) \in Nat
  BY DEF CacheTypes
<1>2. array \in Injection(1..Len(array), Page)
  BY <1>1 DEF CacheTypes, Injection
<1>3. IsFiniteSet(Page) /\ Cardinality(Page) \in Nat
  BY NobodyCounted DEF FsCacheAssumption
<1>4. Cardinality(1..Len(array)) <= Cardinality(Page)
  BY <1>2, <1>3, FS_Injection
<1>5. Cardinality(1..Len(array)) = Len(array)
  <2>1. 1 \in Int /\ Len(array) \in Int
    BY <1>1
  <2>2. Cardinality(1..Len(array)) = IF 1 > Len(array) THEN 0 ELSE Len(array) - 1 + 1
    BY <2>1, FS_Interval
  <2> QED BY <1>1, <2>2
<1> QED BY <1>1, <1>3, <1>4, <1>5

LEMMA FailureInductive ==
    ASSUME FsCacheAssumption, FscInv, NEW t \in User, ReadFails(t) \/ WriteFails(t),
           Misses(missed), disturbed' = TRUE
    PROVE  FscInv'
<1>1. WakeInv /\ AccountInv /\ CallsInv
  BY DEF FscInv, WakeInv, AccountInv
<1>2. disturbed' \in BOOLEAN
  BY Zenon
<1>3. PICK pcs : /\ FscDiscardBuffer(t, pcs)
                 /\ \/ pc[t] = "reading" /\ pcs = Pulsed(page[t])
                    \/ pc[t] = "mapped" /\ pcs = pc /\ request[t].mode # "read"
  BY DEF ReadFails, WriteFails
<1>4. Steps(t) /\ pc'[t] = "idle" /\ Returns(t)
  BY <1>1, <1>3, DiscardSteps DEF FscDiscardBuffer
<1>5. CallsInv'
  BY <1>1, <1>4, LeaveCalls
<1>6. Accounted'
  BY <1>1, <1>2, <1>3, DiscardAccounted
<1>7. WakesNext
  BY <1>1, <1>3, <1>6, DiscardWakeups
<1> QED BY <1>5, <1>6, <1>7, FscInvNext

LEMMA FscInductive ==
    ASSUME FsCacheAssumption, FscInv, [FscNext]_fscVars
    PROVE  FscInv'
<1>1. AccountInv /\ CallsInv /\ CacheTypes /\ missed \subseteq Threads /\ Range(waiting) \subseteq Threads
  BY DEF FscInv, WakeInv, AccountInv, CallsInv, CallTypes, WaitersOK
<1>2. CASE Calls /\ missed' = StillWaiting(missed) /\ UNCHANGED disturbed
  <2>1. Misses(missed)
    BY <1>1, <1>2 DEF Misses
  <2>2. ASSUME NEW r \in Request, Begin(r.thread, r)
        PROVE  FscInv'
    <3>1. r.thread \in User
      BY DEF FsCacheAssumption
    <3> QED BY <1>2, <2>1, <2>2, <3>1, BeginInductive
  <2>3. ASSUME NEW t \in User,
               \/ MapFound(t) \/ MapCollides(t) \/ NoCache(t) \/ TakeElement(t)
               \/ WaitForElement(t) \/ ReadSucceeds(t) \/ Unmap(t)
               \/ WriteSucceeds(t) \/ InvalidateFirst(t) \/ DirectWrite(t)
        PROVE  FscInv'
    BY <1>2, <2>1, <2>3, CallInductive
  <2>4. ASSUME FscInvalidateIdleBlocks
        PROVE  FscInv'
    BY <1>2, <2>1, <2>4, InvalidateIdleInductive
  <2>5. ASSUME NEW a \in Threads, WaitAgain(a)
        PROVE  FscInv'
    <3>1. ~KernelApc(a)
      BY <2>5 DEF WaitAgain, KernelApc
    <3> QED BY <1>2, <2>1, <2>5, <3>1, ApcInductive
  <2> QED BY <1>2, <2>2, <2>3, <2>4, <2>5 DEF Calls, Threads
<1>3. CASE Disturbs /\ missed' = StillWaiting(missed) /\ disturbed' = TRUE
  <2>1. Misses(missed)
    BY <1>1, <1>3 DEF Misses
  <2>2. ASSUME NEW t \in User, ReadFails(t) \/ WriteFails(t)
        PROVE  FscInv'
    BY <1>3, <2>1, <2>2, FailureInductive
  <2>3. ASSUME NEW n \in Size, FscShrinkCacheSize(n)
        PROVE  FscInv'
    <3>1. n \in Nat
      <4>1. Cardinality(Page) \in Nat
        BY NobodyCounted DEF FsCacheAssumption
      <4> QED BY <4>1 DEF FsCacheAssumption
    <3>2. Len(array) - n \in 0..Cardinality(Page)
      BY <1>1, <2>3, <3>1, ArrayFits DEF FscShrinkCacheSize
    <3> QED BY <1>3, <2>1, <2>3, <3>2, ReleaseInductive DEF FscShrinkCacheSize
  <2>4. ASSUME ReleaseMoreElements
        PROVE  FscInv'
    <3>1. toRelease \in 0..Cardinality(Page)
      BY <1>1 DEF CacheTypes
    <3> QED BY <1>3, <2>1, <2>4, <3>1, ReleaseInductive DEF ReleaseMoreElements
  <2> QED BY <1>3, <2>2, <2>3, <2>4 DEF Disturbs
<1>4. CASE \E n \in Size :
             FscGrowCacheSize(n) /\ missed' = StillWaiting(missed \cup Range(waiting))
                                 /\ disturbed' = TRUE
  BY <1>4, GrowInductive
<1>5. CASE \E a \in User \cup {Resizer} :
             KernelApc(a) /\ missed' = StillWaiting(missed \cup {a}) /\ UNCHANGED disturbed
  <2>1. PICK a \in Threads :
             KernelApc(a) /\ missed' = StillWaiting(missed \cup {a}) /\ UNCHANGED disturbed
    BY <1>5 DEF Threads
  <2>2. Misses(missed \cup {a})
    BY <1>1, <2>1 DEF Misses
  <2> QED BY <2>1, <2>2, ApcInductive
<1>6. CASE UNCHANGED fscVars
  <2>1. UNCHANGED <<array, lru, element, waiting, pc, request, page, toRelease, missed, disturbed>>
    BY <1>6 DEF fscVars
  <2>2. CallsInv'
    BY <1>1, <2>1 DEF CallsInv, CallTypes, UserCallsOK, CacheLocksOK, WaitersOK
  <2>3. CacheTypes'
    BY <1>1, <2>1 DEF CacheTypes
  <2>4. UsageOK'
    <3>1. ASSUME NEW p \in Page
          PROVE  PageOK(p)'
      <4>1. Users(p)' = Users(p) /\ PageOK(p)
        BY <1>1, <2>1 DEF AccountInv, UsageOK, Users, Uses
      <4> QED BY <2>1, <4>1 DEF PageOK, Uses
    <3> QED BY <3>1 DEF UsageOK
  <2>5. ListOK'
    BY <1>1, <2>1 DEF AccountInv, ListOK, Before
  <2>6. FreeTold' /\ PulsesCome'
    BY <2>1 DEF FscInv, WakeInv, FreeTold, FreePages, Told, Free, PulsesCome, PulseComing
  <2>7. CopiesOK => CopiesOK'
    BY <2>1 DEF CopiesOK, FreeFresh, MappedFresh, WritersLast, DirectAlone, LastCopy, Free, Before, Uses
  <2> QED BY <2>1, <2>2, <2>3, <2>4, <2>5, <2>6, <2>7 DEF FscInv, WakeInv, AccountInv
<1> QED BY <1>2, <1>3, <1>4, <1>5, <1>6 DEF FscNext

THEOREM FscInvariance == FscSpec => []FscInv
<1> USE FsCacheAssumption
<1>1. FscInit => FscInv
  BY FscInitially
<1>2. FscInv /\ [FscNext]_fscVars => FscInv'
  BY FscInductive
<1> QED BY <1>1, <1>2, PTL DEF FscSpec

(* UsageCount counts the users of a page, who have it protected as they    *)
(* need, the LRU list holds the pages of the array that are not marked,    *)
(* and those without a block are at its front (ElementsAccounted;          *)
(* fscache.c), also while the cache grows and shrinks.                     *)
THEOREM ElementsAreAccounted == FscSpec => []ElementsAccounted
<1>1. FscInv => ElementsAccounted
  BY AccountedParts, TypesOfCache DEF FscInv, WakeInv, AccountInv, CallsInv
<1> QED BY <1>1, FscInvariance, PTL

(* Nobody waits for an element or another's read that has already come,    *)
(* unless the cache has grown or a kernel APC has interrupted the wait     *)
(* (NoLostWakeup; FscWaitingForElementEvent and FscCollidedMapBufferEvent  *)
(* of fscache.c).                                                          *)
THEOREM CacheWakeupsNotLost == FscSpec => []NoLostWakeup
<1>1. FscInv => NoLostWakeup
  BY WakeupParts DEF FscInv, WakeInv, AccountInv
<1> QED BY <1>1, FscInvariance, PTL

(* Who has mapped a block finds in the page what the device holds, through *)
(* whatever copies, writes and invalidations (Coherent; fscache.c under    *)
(* the locks of FATX).                                                     *)
THEOREM CacheIsCoherent == FscSpec => []Coherent
<1>1. FscInv => Coherent
  BY DEF FscInv, CopiesOK, MappedFresh, Coherent
<1> QED BY <1>1, FscInvariance, PTL
=============================================================================
