------------------------------- MODULE Picoboot -------------------------------
(***************************************************************************)
(* The PICOBOOT interface (bootrom/usb_boot_device.c): a command on the    *)
(* OUT endpoint, its data on OUT or IN, an empty packet the other way to   *)
(* acknowledge it, with the work done by tasks of the worker of AsyncTask. *)
(*                                                                         *)
(* The endpoints are modelled by the transfer they run and by whether they *)
(* are halted (usb_device_tiny/usb_device.c), data by chunks of a flash    *)
(* page (usb_stream_helper.c).  The host may reset the interface, drop and *)
(* set the configuration, and use the virtual disk, at any moment of a     *)
(* task under way.                                                         *)
(***************************************************************************)
EXTENDS AsyncTask, Sequences

CONSTANTS
    Command,       \* the commands the host may send
    NoCommand,     \* the stream's command before the first one
    HostMay,       \* the kinds of reset the host uses
    MaxCommands,   \* bound on the number of commands
    MaxResets      \* bound on the resets of the host

HostReset == {"picoboot_reset", "set_config", "lose_config"}

\* Why _picoboot_cmd_packet_internal may turn a packet down.
Defect == {"NONE", "BAD_MAGIC", "UNKNOWN_CMD", "INVALID_CMD_LENGTH",
           "INVALID_TRANSFER_LENGTH"}

\* struct picoboot_cmd.  addr has the address of every chunk of a READ or WRITE
\* and the one address of any other command, data the payload of a WRITE.
PicobootCmd ==
    [flag   : TaskFlag \cup {"REBOOT"},
     addr   : Seq(Address),
     data   : Seq(Data),
     erase  : SUBSET Sector,
     erase_check     : {"OK", "BAD_ALIGNMENT", "INVALID_ADDRESS"},
     exclusive_param : ExclusiveParam,
     defect : Defect]

HasData(c) == c.flag \in {"READ", "WRITE"}

\* The task for chunk i of a command.  token is the picoboot_user_token, which
\* the host gives: a new one to every command.
CommandTask(c, i, check, token) ==
    [type |-> {c.flag}, transfer_addr |-> c.addr[i], erase |-> c.erase,
     erase_check |-> c.erase_check, exclusive_param |-> c.exclusive_param,
     check_last_mutation_source |-> check, token |-> token]

\* A READ or WRITE of no bytes, which the code makes a task without data of,
\* is not among the commands.
ASSUME PicobootAssumption ==
    /\ Command \subseteq PicobootCmd
    /\ NoCommand \notin Command
    /\ HostMay \subseteq HostReset
    /\ MaxCommands \in Nat /\ MaxResets \in Nat
    /\ \A c \in Command :
          /\ Len(c.addr) >= 1
          /\ ~HasData(c) => Len(c.addr) = 1
          /\ c.flag = "WRITE" => Len(c.data) = Len(c.addr)
          /\ c.flag # "REBOOT" =>
                \A i \in DOMAIN c.addr, check \in BOOLEAN, token \in 1..MaxCommands :
                   CommandTask(c, i, check, token) \in TasksOf["picoboot"]

\* The chunks of a WRITE lie behind each other (_atc_chunk_task_done moves
\* transfer_addr on by the length of each), so no page is written by two of them.
ASSUME ChunksAssumption ==
    \A c \in Command : c.flag = "WRITE" =>
       \A i, j \in DOMAIN c.addr : c.addr[i] = c.addr[j] /\ c.addr[i] \in Page => i = j

\* The virtual disk only queues writes of blocks, and each starts from reset_task,
\* which clears check_last_mutation_source (_update_current_uf2_info).
ASSUME DiskWritesAssumption ==
    \A t \in TasksOf["disk"] : "WRITE" \in t.type /\ ~t.check_last_mutation_source

Direction == {"out", "in"}

VARIABLES
    ep,            \* picoboot_out and picoboot_in: current_transfer, halt_state
    stream,        \* _picoboot_stream_transfer, with the command that set it up
    cmd_status,    \* _picoboot_current_cmd_status
    configured,    \* _device.current_config_num # 0
    sent,          \* how many commands the host has sent
    crossed,       \* history: has it sent one while IN was not idle?
    resets         \* how many resets it has made

usbVars      == <<ep, stream, cmd_status, configured, sent, crossed, resets>>
picobootVars == <<asyncVars, usbVars>>

Endpoint == [transfer : {"none", "default", "stream", "ack"}, halted : BOOLEAN]

Stream == [command : Command \cup {NoCommand}, token : Nat, chunk : Nat \ {0},
           check : BOOLEAN, outstanding : BOOLEAN]

StatusCode == Result \cup Defect

PicobootTypeOK ==
    /\ ep \in [Direction -> Endpoint]
    /\ stream \in Stream
    /\ stream.command # NoCommand => /\ stream.chunk \in DOMAIN stream.command.addr
                                     /\ stream.token >= 1
    /\ cmd_status \in [bInProgress : BOOLEAN, dStatusCode : StatusCode]
    /\ configured \in BOOLEAN
    /\ sent \in 0..MaxCommands /\ crossed \in BOOLEAN
    /\ stream.token <= sent
    /\ resets \in 0..MaxResets

Idle(transfer) == [transfer |-> transfer, halted |-> FALSE]

PicobootInit ==
    /\ AsyncInit
    /\ ep = [d \in Direction |-> Idle("none")]
    /\ stream = [command |-> NoCommand, token |-> 0, chunk |-> 1,
                 check |-> FALSE, outstanding |-> FALSE]
    /\ cmd_status = [bInProgress |-> FALSE, dStatusCode |-> "OK"]
    /\ configured = FALSE
    /\ sent = 0 /\ crossed = FALSE
    /\ resets = 0

-----------------------------------------------------------------------------
(***************************************************************************)
(* Endpoints (usb_device.c).                                               *)
(***************************************************************************)

Halted(e, d)   == [e EXCEPT ![d].halted = TRUE]
Ended(e, d)    == [e EXCEPT ![d].transfer = "none"]
Started(e, d, transfer) == [e EXCEPT ![d].transfer = transfer]

\* _usb_reset_endpoint on both: only OUT has a default transfer, the wait for a
\* command.
ResetEndpoints == ep' = [d \in Direction |-> Idle(IF d = "out" THEN "default" ELSE "none")]

\* _picoboot_ack: the command is over, and the other direction says so.
Ack(e, c) == Started(e, IF c.flag = "READ" THEN "out" ELSE "in", "ack")

InProgress(code) == [bInProgress |-> TRUE, dStatusCode |-> code]
Over(code)       == [bInProgress |-> FALSE, dStatusCode |-> code]

streamEp(c) == IF c.flag = "READ" THEN "in" ELSE "out"

-----------------------------------------------------------------------------
(***************************************************************************)
(* The host's commands, through the interrupt handler.                     *)
(***************************************************************************)

\* Mutant of QueueChunk: check_last_mutation_source stays as it is.
QueueChunkUnchecked(s, i) ==
    /\ queue_task("picoboot", CommandTask(s.command, i, s.check, s.token))
    /\ stream' = [s EXCEPT !.chunk = i, !.outstanding = TRUE]

\* _picoboot_on_stream_chunk.
QueueChunk(s, i) ==
    /\ queue_task("picoboot", CommandTask(s.command, i, s.check, s.token))
    /\ stream' = [s EXCEPT !.chunk = i, !.check = TRUE, !.outstanding = TRUE]

\* A packet that is no command halts both endpoints, and the wait for commands
\* ends with that.
RefuseCommand == ep' = Ended(Halted(Halted(ep, "in"), "out"), "out")

\* The stream of a new command: its task has been reset.
NewStream(c) == [command |-> c, token |-> sent', chunk |-> 1, check |-> FALSE,
                 outstanding |-> FALSE]

\* A command is taken whenever OUT waits for one.  IN may still have an
\* acknowledgement that nobody has taken, or a halt that was not cleared.
CommandArrives ==
    /\ configured
    /\ ep["out"] = Idle("default")
    /\ sent < MaxCommands
    /\ sent' = sent + 1
    /\ crossed' = (crossed \/ ep["in"] # Idle("none"))

\* Not a command at all: nothing but the endpoints changes.
HostSendsJunk ==
    /\ CommandArrives
    /\ \E c \in Command : c.defect = "BAD_MAGIC"
    /\ RefuseCommand
    /\ UNCHANGED <<asyncVars, stream, cmd_status, configured, resets>>

\* A REBOOT is obeyed whatever its transfer length.
Obeyed(c) == c.flag = "REBOOT" /\ c.defect \in {"NONE", "INVALID_TRANSFER_LENGTH"}

HostSendsBadCommand ==
    /\ CommandArrives
    /\ \E c \in Command :
          /\ c.defect \notin {"NONE", "BAD_MAGIC"}
          /\ ~Obeyed(c)
          /\ stream' = NewStream(c)
          /\ cmd_status' = Over(c.defect)
    /\ RefuseCommand
    /\ UNCHANGED <<asyncVars, configured, resets>>

\* safe_reboot, and an acknowledgement at once.
HostSendsReboot ==
    /\ CommandArrives
    /\ \E c \in Command :
          /\ Obeyed(c)
          /\ stream' = NewStream(c)
          /\ ep' = Ack(Ended(ep, "out"), c)
    /\ cmd_status' = Over("OK")
    /\ rebooting' = TRUE
    /\ UNCHANGED <<slot, event, workerVars, flashVars, disable, aborted, ejected,
                   buffer, configured, resets>>

\* A command without data is queued, to be acknowledged when it is done.
HostSendsCommand ==
    /\ CommandArrives
    /\ \E c \in Command :
          /\ c.defect = "NONE" /\ c.flag # "REBOOT" /\ ~HasData(c)
          /\ stream' = NewStream(c)
          /\ queue_task("picoboot", CommandTask(c, 1, FALSE, sent'))
    /\ ep' = Ended(ep, "out")
    /\ cmd_status' = InProgress("OK")
    /\ UNCHANGED <<workerVars, flashVars, sharedVars, configured, resets>>

\* A WRITE chains its stream to the transfer of the command.
HostSendsWrite ==
    /\ CommandArrives
    /\ \E c \in Command :
          /\ c.defect = "NONE" /\ c.flag = "WRITE"
          /\ stream' = NewStream(c)
    /\ ep' = Started(ep, "out", "stream")
    /\ cmd_status' = InProgress("OK")
    /\ UNCHANGED <<asyncVars, configured, resets>>

\* A READ starts its stream on IN, which asks for the first chunk unless it is
\* halted.
HostSendsRead ==
    /\ CommandArrives
    /\ \E c \in Command :
          /\ c.defect = "NONE" /\ c.flag = "READ"
          /\ IF ep["in"].halted
             THEN stream' = NewStream(c) /\ UNCHANGED <<slot, event>>
             ELSE QueueChunk(NewStream(c), 1)
    /\ ep' = Started(Ended(ep, "out"), "in", "stream")
    /\ cmd_status' = InProgress("OK")
    /\ UNCHANGED <<workerVars, flashVars, sharedVars, configured, resets>>

-----------------------------------------------------------------------------
(***************************************************************************)
(* Data and acknowledgements.                                              *)
(***************************************************************************)

\* Mutant of Deferred: a packet that comes while a task has the buffer is not
\* held back.
NeverDeferred == FALSE

\* Packets are held back while the task of a chunk is outstanding
\* (packet_queued in _usb_handle_transfer).
Deferred == stream.outstanding

\* Packets of a WRITE before the last one of a chunk.
HostSendsPart ==
    /\ ep["out"] = Idle("stream")
    /\ ~Deferred
    /\ buffer' = [buffer EXCEPT !["picoboot"] = "torn"]
    /\ UNCHANGED <<slot, event, workerVars, flashVars, disable, aborted,
                   rebooting, ejected, usbVars>>

\* The packet that completes a chunk of a WRITE.
HostSendsChunk ==
    /\ ep["out"] = Idle("stream")
    /\ ~Deferred
    /\ QueueChunk(stream, stream.chunk)
    /\ buffer' = [buffer EXCEPT !["picoboot"] = stream.command.data[stream.chunk]]
    /\ UNCHANGED <<workerVars, flashVars, disable, aborted, rebooting, ejected,
                   ep, cmd_status, configured, sent, crossed, resets>>

IsLast == stream.chunk = Len(stream.command.addr)

\* The host has taken enough packets of a READ for the next chunk to be asked
\* for, or all of them: the stream ends with an acknowledgement.
HostReadsChunk ==
    /\ ep["in"] = Idle("stream")
    /\ ~Deferred
    /\ \/ /\ ~IsLast
          /\ QueueChunk(stream, stream.chunk + 1)
          /\ UNCHANGED <<ep, cmd_status>>
       \/ /\ IsLast
          /\ ep' = Ack(Ended(ep, "in"), stream.command)
          /\ cmd_status' = Over(cmd_status.dStatusCode)
          /\ UNCHANGED <<slot, event, stream>>
    /\ UNCHANGED <<workerVars, flashVars, sharedVars, configured, sent, crossed, resets>>

\* The acknowledgement has passed, either way: _tf_picoboot_wait_command.
HostTakesAck ==
    /\ \E d \in Direction :
          /\ ep[d] = Idle("ack")
          /\ LET e == Ended(ep, d)
             IN  ep' = IF e["out"].halted THEN e ELSE Started(e, "out", "default")
    /\ UNCHANGED <<asyncVars, stream, cmd_status, configured, sent, crossed, resets>>

\* CLEAR_FEATURE(ENDPOINT_HALT) on a halted endpoint: a hard reset of it.
HostClearsHalt ==
    /\ configured
    /\ \E d \in Direction :
          /\ ep[d].halted
          /\ ep' = [ep EXCEPT ![d] = Idle(IF d = "out" THEN "default" ELSE "none")]
    /\ UNCHANGED <<asyncVars, stream, cmd_status, configured, sent, crossed, resets>>

\* The virtual disk puts a task of its own into its queue.
HostUsesDisk ==
    /\ configured
    /\ HandlerQueuesTask("disk")
    /\ buffer'["disk"] \in Data
    /\ UNCHANGED usbVars

-----------------------------------------------------------------------------
(***************************************************************************)
(* Resets.                                                                 *)
(***************************************************************************)

CountReset(kind) ==
    /\ kind \in HostMay
    /\ resets < MaxResets
    /\ resets' = resets + 1

\* _picoboot_reset: the stream, and the token in it, stay as they are.
PicobootReset ==
    /\ ResetEndpoints
    /\ cmd_status' = Over("OK")
    /\ reset_queues

\* PICOBOOT_IF_RESET.
HostResetsPicoboot ==
    /\ CountReset("picoboot_reset")
    /\ configured
    /\ PicobootReset
    /\ aborted' = (aborted \/ cmd_status.bInProgress)
    /\ UNCHANGED <<event, workerVars, flashVars, rebooting, ejected, buffer,
                   stream, configured, sent, crossed>>

\* SET_CONFIGURATION: _usb_handle_set_config, _usb_boot_on_configure.
HostConfigures ==
    /\ \/ CountReset("set_config")
       \/ ~configured /\ UNCHANGED resets
    /\ configured' = TRUE
    /\ PicobootReset
    /\ aborted' = TRUE
    /\ ejected' = FALSE
    /\ crossed' = FALSE
    /\ UNCHANGED <<event, workerVars, flashVars, rebooting, buffer, stream, sent>>

\* A bus reset, or SET_CONFIGURATION with zero: PICOBOOT itself is not reset.
HostUnconfigures ==
    /\ CountReset("lose_config")
    /\ configured
    /\ configured' = FALSE
    /\ ep' = [d \in Direction |-> Idle("none")]
    /\ aborted' = TRUE
    /\ UNCHANGED <<slot, event, workerVars, flashVars, disable, rebooting,
                   ejected, buffer, stream, cmd_status, sent, crossed>>

Host ==
    \/ HostSendsJunk \/ HostSendsBadCommand \/ HostSendsReboot
    \/ HostSendsCommand \/ HostSendsWrite \/ HostSendsRead
    \/ HostSendsPart \/ HostSendsChunk \/ HostReadsChunk \/ HostTakesAck
    \/ HostClearsHalt
    \/ HostUsesDisk
    \/ HostResetsPicoboot \/ HostConfigures \/ HostUnconfigures

-----------------------------------------------------------------------------
(***************************************************************************)
(* Completions.                                                            *)
(***************************************************************************)

\* Mutant of IsCurrent: tokens are not compared.
IsAnyToken == TRUE

IsCurrent == running.token = stream.token

\* Mutant of AckCommand: the acknowledgement waits for a success.
AckCommandIfOK ==
    /\ source = "picoboot"
    /\ TaskDone
    /\ ~ReadsOrWrites
    /\ IF IsCurrent /\ result = "OK"
       THEN ep' = Ack(ep, stream.command) /\ cmd_status' = Over(cmd_status.dStatusCode)
       ELSE UNCHANGED <<ep, cmd_status>>
    /\ UNCHANGED <<slot, event, flashVars, sharedVars, stream, configured, sent,
                   crossed, resets>>

\* _atc_ack: what came of the task does not matter.
AckCommand ==
    /\ source = "picoboot"
    /\ TaskDone
    /\ ~ReadsOrWrites
    /\ IF IsCurrent
       THEN ep' = Ack(ep, stream.command) /\ cmd_status' = Over(cmd_status.dStatusCode)
       ELSE UNCHANGED <<ep, cmd_status>>
    /\ UNCHANGED <<slot, event, flashVars, sharedVars, stream, configured, sent,
                   crossed, resets>>

\* Mutant of ChunkFails: the command stays in progress.
ChunkFailsInProgress ==
    /\ ep' = LET d == streamEp(stream.command) IN Ended(Halted(ep, d), d)
    /\ cmd_status' = [cmd_status EXCEPT !.dStatusCode = result]
    /\ stream' = [stream EXCEPT !.outstanding = FALSE]

\* A chunk has failed: its endpoint is halted, and the transfer it runs ends
\* without an acknowledgement.
ChunkFails ==
    /\ ep' = LET d == streamEp(stream.command) IN Ended(Halted(ep, d), d)
    /\ cmd_status' = Over(result)
    /\ stream' = [stream EXCEPT !.outstanding = FALSE]

\* usb_packet_done for an endpoint that no longer runs the stream leaves its
\* transfer as it is.
ChunkOutlivesStream ==
    /\ cmd_status' = [cmd_status EXCEPT !.dStatusCode = result]
    /\ UNCHANGED <<ep, stream>>

\* Mutant of ChunkSucceeds: it counts on after the last chunk.
ChunkSucceedsPastEnd ==
    /\ stream' = [stream EXCEPT !.outstanding = FALSE,
                     !.chunk = IF Does("WRITE") THEN @ + 1 ELSE @]
    /\ IF Does("WRITE") /\ IsLast
       THEN /\ ep' = Ack(Ended(ep, "out"), stream.command)
            /\ cmd_status' = Over(result)
       ELSE /\ cmd_status' = [cmd_status EXCEPT !.dStatusCode = result]
            /\ UNCHANGED ep

\* The next chunk of a WRITE can come, or the next packets of a READ can go.
ChunkSucceeds ==
    /\ stream' = [stream EXCEPT !.outstanding = FALSE,
                     !.chunk = IF Does("WRITE") /\ ~IsLast THEN @ + 1 ELSE @]
    /\ IF Does("WRITE") /\ IsLast
       THEN /\ ep' = Ack(Ended(ep, "out"), stream.command)
            /\ cmd_status' = Over(result)
       ELSE /\ cmd_status' = [cmd_status EXCEPT !.dStatusCode = result]
            /\ UNCHANGED ep

Streaming == ep[streamEp(stream.command)].transfer = "stream"

\* _atc_chunk_task_done.
FinishChunk ==
    /\ source = "picoboot"
    /\ TaskDone
    /\ ReadsOrWrites
    /\ IF ~IsCurrent THEN UNCHANGED <<ep, cmd_status, stream>>
       ELSE IF result # "OK" THEN ChunkFails
       ELSE IF Streaming THEN ChunkSucceeds ELSE ChunkOutlivesStream
    /\ UNCHANGED <<slot, event, flashVars, sharedVars, configured, sent, crossed, resets>>

\* The callbacks of the virtual disk do not touch PICOBOOT, but may reboot.
DiskComplete ==
    /\ source = "disk"
    /\ TaskDone
    /\ rebooting' \in {rebooting, TRUE}
    /\ UNCHANGED <<slot, event, flashVars, disable, aborted, ejected, buffer,
                   usbVars>>

PicobootWork == (Work /\ UNCHANGED usbVars) \/ AckCommand \/ FinishChunk \/ DiskComplete

PicobootNext == Host \/ PicobootWork

PicobootSafety == PicobootInit /\ [][PicobootNext]_picobootVars

\* The worker's fairness, as in AsyncTask.
PicobootSpec == PicobootSafety /\ WF_picobootVars(PicobootWork /\ GoesOn)

-----------------------------------------------------------------------------
(***************************************************************************)
(* Properties.                                                             *)
(***************************************************************************)

\* The PICOBOOT tasks that are queued or under way.
Outstanding ==
    ({slot["picoboot"]} \cup (IF source = "picoboot" THEN {running} ELSE {})) \ {NoTask}

\* Those of the command the stream was last set up for.
Current == {t \in Outstanding : t.token = stream.token}

\* A task that is still queued is never overwritten (the warning of queue_task):
\* the protocol has one task of PICOBOOT outstanding at a time, for a host that
\* sends no command across an answer.
QueuedTaskKept ==
    [][slot["picoboot"] # NoTask /\ ~crossed
          => slot'["picoboot"] \in {slot["picoboot"], NoTask}]_slot

Streams == {d \in Direction : ep[d].transfer = "stream"}

\* The tasks and the transfer in progress are those of the stream's command,
\* whatever the host does.
TasksMatchStream ==
    /\ \A t \in Outstanding : t.token <= sent
    /\ \A t \in Current : stream.command # NoCommand /\ t.type = {stream.command.flag}
    /\ \A d \in Streams :
          /\ stream.command # NoCommand
          /\ HasData(stream.command) /\ d = streamEp(stream.command)

OneTaskOfStream ==
    Streams # {}
        => /\ Current # {} => stream.outstanding
           /\ ~ep["out"].halted
           /\ \A d \in Direction : ep[d].transfer \in {"stream", "none"}

OneTaskOfQueue ==
    full("picoboot")
        => /\ slot["picoboot"].token = stream.token
           /\ ~(source = "picoboot" /\ running # NoTask /\ running.token = stream.token)
           /\ ep["out"].transfer \in {"stream", "none"} /\ ~ep["out"].halted
           /\ ep["in"].transfer # "ack"

\* PICOBOOT has one task at a time, and while it is queued or under way for its
\* command the host can neither send another command nor complete another chunk
\* (usb_start_default_transfer_if_not_already_running_or_halted, packet_queued).
\* A host that sends a command while IN has a stale acknowledgement or a halt can:
\* when the old acknowledgement has passed, OUT waits for commands again.
OneTask == TasksMatchStream /\ (~crossed => OneTaskOfStream /\ OneTaskOfQueue)

\* While the task of a chunk of a WRITE is queued or under way nothing touches
\* the chunk buffer, although the host may be sending the next chunk
\* (packet_queued, usb_packet_done).  Only a READ that a reset has overtaken still
\* does: it goes on, with the buffer of the new WRITE.
ChunkKeepsBuffer ==
    [][buffer'["picoboot"] # buffer["picoboot"] /\ (\E t \in Current : "WRITE" \in t.type)
          => source = "picoboot" /\ Does("READ") /\ ~IsCurrent]_buffer

\* A callback that acknowledges its command finds the endpoint idle
\* (usb_start_transfer asserts that there is no current transfer).
AckFindsIdle ==
    pc = "complete" /\ source = "picoboot" /\ IsCurrent /\ ~Does("READ")
        => ep["in"].transfer = "none"

\* It does, if the host has sent no command across an acknowledgement that was
\* left of a task a reset has overtaken (_atc_ack, _picoboot_reset).
AckOnIdleEndpoint == ~crossed => AckFindsIdle

\* bInProgress is not left set, and not cleared too early: while it is set there
\* is a task whose callback will clear it, or a stream the host can go on with
\* (_picoboot_ack, _atc_chunk_task_done); and while a command may hang in the
\* flash it is set, because PICOBOOT_IF_RESET looks at it before it aborts the
\* flash (_picoboot_reset).  The host is one that sends no command across an
\* answer: the old answer's end is not told from that of the new one.
StatusTellsProgress ==
    ~crossed =>
       /\ configured /\ cmd_status.bInProgress
             => Current # {} \/ (stream.command # NoCommand /\ Streaming)
       /\ source = "picoboot" /\ WaitsForFlash => cmd_status.bInProgress \/ aborted

\* An acknowledged WRITE is in the flash, whatever the virtual disk wrote in
\* between: every page has its data, or what these make of a page that was not
\* erased (check_last_mutation_source in _picoboot_on_stream_chunk).  It is
\* promised as long as no reset lets an overtaken READ into the buffer.
AckMeansWritten ==
    [][resets = 0 /\ ep["in"].transfer # "ack" /\ ep'["in"].transfer = "ack"
          /\ stream'.command.flag = "WRITE" /\ ~aborted
       => LET c == stream'.command IN
          \A i \in DOMAIN c.addr :
             c.addr[i] \in Page => flash[c.addr[i]] \in {c.data[i], "torn"}
      ]_<<ep, stream, flash>>

\* The device has the word: it owes an acknowledgement, or the next packets.
DeviceTurn ==
    /\ stream.command # NoCommand
    /\ IF HasData(stream.command) THEN Streaming /\ stream.outstanding
                                  ELSE cmd_status.bInProgress

\* The host gets its turn again, if the flash answers and the virtual disk does
\* not keep its queue filled for ever (_atc_ack, _atc_chunk_task_done).
CommandAnswered ==
    (FlashAnswers /\ <>[] ~full("disk")) => (DeviceTurn ~> ~DeviceTurn)

\* A chunk that is done with finds its endpoint running a transfer (the
\* assertion of usb_packet_done).
PacketDoneHasTransfer ==
    pc = "complete" /\ source = "picoboot" /\ IsCurrent /\ ReadsOrWrites
        => ep[streamEp(stream.command)].transfer # "none"

=============================================================================
