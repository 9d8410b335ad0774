---------------------------- MODULE IdexChannel ----------------------------
(***************************************************************************)
(* The IDE channel and the disk on it: idex/channel.c, idex/disk.c and the *)
(* device queue of ke/devquobj.c.  All of it runs at DISPATCH_LEVEL, so    *)
(* nothing but the interrupt comes between its steps; `doing' is where the *)
(* routine that is running has got to.  What becomes of a request that is  *)
(* complete is left to the module that extends this one: it takes the step *)
(* at "complete".                                                          *)
(*                                                                         *)
(* The device may answer well, with an error, late or never.  The timer    *)
(* ticks on; its period is left out, and so is Timeout while it measures   *)
(* nothing.                                                                *)
(***************************************************************************)
EXTENDS Integers, Sequences, FiniteSets

CONSTANTS
    Irp, NoIrp,
    CommandTimeout,     \* IDE_ATA_DEFAULT_TIMEOUT, 10 ticks
    ResetTimeout,       \* 250 fast ticks
    MaxRetries          \* IDE_NORMAL_RETRY_COUNT, 4

ASSUME IdexChannelAssumption ==
    /\ NoIrp \notin Irp
    /\ CommandTimeout \in Nat \ {0} /\ ResetTimeout \in Nat \ {0} /\ MaxRetries \in Nat

VARIABLES
    channel,        \* IdexChannelObject and what of it is running
    left,           \* transfers each still needs after the one under way:
                    \* Length beyond IDE_ATA_MAXIMUM_TRANSFER_BYTES
    device,         \* "idle", "working", "resetting"
    line,           \* the interrupt request and what the device answers:
                    \* "no", "success", "error" or, from before the command
                    \* that is under way, "stale"
    shutdown        \* HalIsResetOrShutdownPending

channelVars == <<channel, left, device, line, shutdown>>

ChannelInit ==
    /\ channel = [queue |-> <<>>, busy |-> FALSE,    \* DeviceQueue
                  current |-> NoIrp,                 \* CurrentIrp
                  status |-> "none",                 \* its IoStatus.Status
                  interrupt |-> FALSE,               \* InterruptRoutine # NULL
                  polling |-> FALSE,                 \* PollResetCompleteRoutine # NULL
                  timeout |-> 0, retries |-> 0,
                  starting |-> FALSE,                \* StartPacketBusy
                  requested |-> FALSE,               \* StartPacketRequested
                  finish |-> FALSE,                  \* FinishDpc is queued
                  doing |-> "nothing"]
    /\ left = [i \in Irp |-> 0]
    /\ device = "idle"
    /\ line = "no"
    /\ shutdown = FALSE

Current == channel.current
Status == channel.status
Doing(what) == channel.doing = what
Does(what) == channel' = [channel EXCEPT !.doing = what]
Ends(how, then) == channel' = [channel EXCEPT !.status = how, !.doing = then]

(* Neither a DPC nor what it calls is running or about to.                 *)
Passive == Doing("nothing") /\ ~channel.finish

-----------------------------------------------------------------------------
(* Starting requests.                                                      *)

(* The channel with request i current and its start routine called by      *)
(* StartPacket or StartNextPacket.                                         *)
Starting(i) == [channel EXCEPT !.current = i, !.status = "none",
                    !.retries = 0, !.starting = TRUE, !.doing = "start"]

(* KeInsertDeviceQueue, IdexChannelStartPacket.                            *)
StartPacket(i) ==
    IF channel.busy
    THEN channel' = [channel EXCEPT !.queue = Append(@, i)]
    ELSE channel' = [Starting(i) EXCEPT !.busy = TRUE]

(* IdexChannelStartNextPacket; inside a start routine it only leaves word. *)
StartNextPacket ==
    /\ Doing("next")
    /\ channel' =
        IF channel.starting
        THEN [channel EXCEPT !.current = NoIrp, !.status = "none", !.requested = TRUE, !.doing = "return"]
        ELSE IF channel.queue = <<>>
        THEN [channel EXCEPT !.current = NoIrp, !.status = "none", !.retries = 0,
                 !.requested = FALSE, !.busy = FALSE, !.doing = "nothing"]
        ELSE [Starting(Head(channel.queue)) EXCEPT !.queue = Tail(@), !.requested = FALSE]
    /\ UNCHANGED <<left, device, line, shutdown>>

(* Mutation: nobody reads the word that was left. *)
StartIoForgets ==
    /\ Doing("return")
    /\ channel' = [channel EXCEPT !.starting = FALSE, !.doing = "nothing"]
    /\ UNCHANGED <<left, device, line, shutdown>>

(* The start routine, or the DPC, returns.                                 *)
StartIoReturns ==
    /\ Doing("return")
    /\ channel' = [channel EXCEPT !.starting = FALSE,
                      !.doing = IF channel.requested THEN "next" ELSE "nothing"]
    /\ UNCHANGED <<left, device, line, shutdown>>

(* IdexDiskStartReadWrite, at DIRQL.  A device that is busy for too long   *)
(* is as good as a command that timed out.  An interrupt that is already   *)
(* on its way belongs to an earlier command: ExpectingBusMasterInterrupt.  *)
StartReadWrite ==
    /\ Doing("start")
    /\ IF device # "idle"
       THEN Ends("timeout", "finish") /\ UNCHANGED <<device, line>>
       ELSE /\ channel' = [channel EXCEPT !.interrupt = TRUE, !.timeout = CommandTimeout,
                              !.doing = "return"]
            /\ device' = "working"
            /\ line' = IF line = "no" THEN "no" ELSE "stale"
    /\ UNCHANGED <<left, shutdown>>

-----------------------------------------------------------------------------
(* Ends of commands.                                                       *)

(* IdexDiskResetDevice, or IdexChannelAbortCurrentPacket.                  *)
ResetDevice ==
    IF shutdown
    THEN Ends("aborted", "complete") /\ UNCHANGED <<device, line>>
    ELSE /\ channel' = [channel EXCEPT !.polling = TRUE, !.timeout = ResetTimeout,
                           !.doing = "return"]
         /\ device' = "resetting" /\ line' = "no"

(* IdexDiskFinishReadWrite and IdexDiskFinishGeneric.  What is left of the *)
(* request goes to the end of the queue.                                   *)
FinishReadWrite ==
    /\ Doing("finish")
    /\ \/ Status = "timeout" /\ ResetDevice /\ UNCHANGED left
       \/ /\ Status = "success" /\ left[Current] > 0 /\ shutdown
          /\ Ends("aborted", "complete") /\ UNCHANGED <<left, device, line>>
       \/ /\ Status = "success" /\ left[Current] > 0 /\ ~shutdown
          /\ left' = [left EXCEPT ![Current] = @ - 1]
          /\ channel' = [channel EXCEPT !.queue = Append(@, Current), !.doing = "next"]
          /\ UNCHANGED <<device, line>>
       \/ /\ Status # "timeout" /\ (Status = "success" => left[Current] = 0)
          /\ Does("complete") /\ UNCHANGED <<left, device, line>>
    /\ UNCHANGED shutdown

(* Mutation: whatever interrupts is taken for the answer. *)
Unexpected == channel.interrupt

(* Is the interrupt the answer to the command under way?                   *)
Expected == channel.interrupt /\ line # "stale"

(* IdexChannelInterrupt and IdexDiskTransferInterrupt.                     *)
Interrupt ==
    /\ line # "no"
    /\ line' = "no"
    /\ IF Expected
       THEN channel' = [channel EXCEPT !.interrupt = FALSE, !.timeout = 0, !.finish = TRUE,
                           !.status = IF line = "error" THEN "error" ELSE "success"]
       ELSE UNCHANGED channel
    /\ UNCHANGED <<left, device, shutdown>>

(* IdexChannelDpcForIsr.                                                   *)
DpcForIsr ==
    /\ Doing("nothing") /\ channel.finish
    /\ channel' = [channel EXCEPT !.finish = FALSE, !.doing = "finish"]
    /\ UNCHANGED <<left, device, line, shutdown>>

-----------------------------------------------------------------------------
(* The timer, once a second.                                               *)

(* IdexChannelTimer while a command is under way.                          *)
CommandTick ==
    /\ Doing("nothing") /\ channel.interrupt
    /\ channel' = [channel EXCEPT !.timeout = @ - 1,
                      !.doing = IF channel.timeout = 1 THEN "expiring" ELSE "nothing"]
    /\ UNCHANGED <<left, device, line, shutdown>>

(* Mutation: the timer believes what it saw before it raised to DIRQL. *)
ExpireUnseen ==
    /\ Doing("expiring")
    /\ channel' = [channel EXCEPT !.interrupt = FALSE, !.status = "timeout", !.doing = "finish"]
    /\ UNCHANGED <<left, device, line, shutdown>>

(* At DIRQL it looks again: the interrupt may have come.                   *)
Expire ==
    /\ Doing("expiring")
    /\ IF channel.interrupt
       THEN channel' = [channel EXCEPT !.interrupt = FALSE, !.status = "timeout",
                           !.doing = "finish"]
       ELSE Does("nothing")
    /\ UNCHANGED <<left, device, line, shutdown>>

(* IdexChannelPollResetComplete and IdexChannelRestartCurrentPacket.       *)
PollResetComplete ==
    /\ Doing("nothing") /\ ~channel.interrupt /\ channel.polling
    /\ LET ready == device = "idle"
           over  == ready \/ channel.timeout = 1
           again == ready /\ channel.retries < MaxRetries
       IN  /\ channel' = [channel EXCEPT !.polling = ~over,
                             !.timeout = IF ready THEN 0 ELSE @ - 1,
                             !.status = IF over /\ ~again THEN "resetfailed" ELSE @,
                             !.retries = IF again THEN @ + 1 ELSE @,
                             !.doing = IF again THEN "start"
                                       ELSE IF over THEN "complete" ELSE "nothing"]
    /\ UNCHANGED <<left, device, line, shutdown>>

-----------------------------------------------------------------------------
(* The device, external.                                                   *)
Answers ==
    /\ device = "working"
    /\ device' = "idle"
    /\ line' \in {"success", "error"}
    /\ UNCHANGED <<channel, left, shutdown>>

GetsReady ==
    /\ device = "resetting" /\ device' = "idle"
    /\ UNCHANGED <<channel, left, line, shutdown>>

ShutdownBegins ==
    /\ ~shutdown /\ shutdown' = TRUE
    /\ UNCHANGED <<channel, left, device, line>>

(* What the processor does before it comes back to threads.                *)
Dispatch ==
    \/ StartNextPacket \/ StartIoReturns \/ StartReadWrite \/ FinishReadWrite
    \/ DpcForIsr \/ Expire
Tick == CommandTick \/ PollResetComplete

-----------------------------------------------------------------------------
(* Properties.                                                             *)

(* A command is finished once, by its interrupt or by its time-out: while  *)
(* the DPC is on its way nothing else is going to finish the request, and  *)
(* there is one to finish.                                                 *)
FinishedOnce ==
    channel.finish => Current # NoIrp /\ ~channel.interrupt /\ ~channel.polling
                        /\ channel.doing \in {"nothing", "expiring", "return"}

(* A transfer is reported as done only if the device has done the one that *)
(* was asked for last: not for an interrupt of a command given up before.  *)
SuccessIsTrue == channel.finish /\ Status = "success" => device = "idle"
=============================================================================
