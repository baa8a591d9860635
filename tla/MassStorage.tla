----------------------------- MODULE MassStorage -----------------------------
(***************************************************************************)
(* The mass storage interface (usb_device_tiny/usb_msc.c): one command at a *)
(* time over two bulk endpoints, with its data phase, its stalls and its    *)
(* status, the requests of the control endpoint that reset it, the tasks of *)
(* the virtual disk, and the host.                                          *)
(*                                                                         *)
(* Lengths are counted in halves of a packet; a sector is two packets.      *)
(* A packet that is taken and its interrupt are one step: UsbEndpoint has   *)
(* the buffers.  The virtual disk is what vd_write_block does to its caller: *)
(* it is done at once, or it queues a task that ends well or not.           *)
(***************************************************************************)
EXTENDS UsbControl, FiniteSetsExt

CONSTANTS
    Command,       \* the CBWs the host sends
    MaxCommands    \* bound on the commands of the host

PacketLength == 2
SectorPackets == 2
SectorLength == SectorPackets * PacketLength
ReplyLength == 1

(***************************************************************************)
(* A command is kept by what its handler does.  in is the direction of the  *)
(* CBW's flags, dtl its dCBWDataTransferLength.  invalid is a CBW that is    *)
(* none; unknown an operation that is not known.                            *)
(***************************************************************************)
Operation == {"none", "ready", "eject", "reply", "sense", "read", "write",
              "unknown", "invalid"}

CommandBlock == [op : Operation, in : BOOLEAN, dtl : Nat, blocks : Nat]

ASSUME MscAssumption ==
    /\ Command \subseteq CommandBlock
    /\ MaxCommands \in Nat

VARIABLES
    msc,    \* _msc_state, _msc_async_token, and the two endpoints
    disk,   \* the token of the task queued and of the one under way, 0 if none, and
            \* history: a sector that was dropped, a completion that came too late
    host    \* what the host is at, and what it knows of its command

mscVars == <<msc, disk, host>>
mscAllVars == <<controlVars, mscVars>>

Status == {"PASSED", "FAILED", "PHASE_ERROR"}
Sense  == {"OK", "ILLEGAL_REQUEST", "NOT_READY", "DATA_PROTECT"}
NoCsw  == [tag |-> 0, status |-> "PASSED", residue |-> 0]

Phase == {"off", "idle", "data", "status", "clear_in", "clear_out",
          "recover", "recover_in", "recover_out"}

Csw == [tag : Nat, status : Status, residue : Int]

MscState ==
    [csw : Csw, stall_before_csw : Endpoints \cup {"none"}, csw_on_unstall : BOOLEAN,
     sense : Sense, ejected : BOOLEAN, token : Nat,
     in : {"none", "reply", "stream", "csw"}, out : {"none", "cmd", "stream"},
     halt : [Endpoints -> {"none", "halted", "on_condition"}],
     packet : Csw \cup [length : Nat, sense : Sense],
     offset : Nat, length : Nat, held : BOOLEAN, deferred : BOOLEAN]

\* The types; a transfer stays within its length, and the residue of a command, an
\* unsigned number in the code, wraps only if a completion has come too late.
MscTypeOK ==
    /\ ControlTypeOK
    /\ msc \in MscState
    /\ msc.in = "stream" \/ msc.out = "stream" => msc.offset <= msc.length
    /\ msc.csw.tag # 0 /\ ~disk.late => msc.csw.residue >= 0
    /\ disk \in [queued : 0..msc.token, running : 0..msc.token,
                 dropped : BOOLEAN, late : BOOLEAN]
    /\ host \in [phase : Phase, tag : 0..MaxCommands, moved : Nat, cleared : BOOLEAN,
                 expects : Sense, command : CommandBlock]

\* _msc_reset: the memset, vd_reset, and both endpoints.  The token stays.
\* The default transfer of the OUT endpoint starts if the device is configured.
Cleared(token, configured) ==
    [csw |-> NoCsw, stall_before_csw |-> "none", csw_on_unstall |-> FALSE,
     sense |-> "OK", ejected |-> FALSE, token |-> token,
     in |-> "none", out |-> IF configured THEN "cmd" ELSE "none",
     halt |-> [e \in Endpoints |-> "none"],
     packet |-> NoCsw, offset |-> 0, length |-> 0,
     held |-> FALSE, deferred |-> FALSE]

MscInit ==
    /\ ControlInit
    /\ msc = Cleared(0, FALSE)
    /\ disk = [queued |-> 0, running |-> 0, dropped |-> FALSE, late |-> FALSE]
    /\ host = [phase |-> "off", tag |-> 0, moved |-> 0, cleared |-> FALSE,
               expects |-> "OK",
               command |-> [op |-> "none", in |-> FALSE, dtl |-> 0, blocks |-> 0]]

-----------------------------------------------------------------------------
(***************************************************************************)
(* Status and stalls.  The operators take the state of the interface to its *)
(* next.                                                                   *)
(***************************************************************************)

\* usb_halt_endpoint.
Halt(m, e) ==
    [m EXCEPT !.halt[e] = IF @ = "none" THEN "halted" ELSE @]

\* _msc_send_csw: the CSW is copied to the packet as it is now.
SendCsw(m) ==
    [m EXCEPT !.csw_on_unstall = FALSE, !.in = "csw", !.packet = m.csw]

\* Mutant of DataPhaseComplete: the status does not wait for the host to clear
\* the halt.
DataPhaseCompleteAtOnce(m) ==
    LET s == m.stall_before_csw
        n == [m EXCEPT !.stall_before_csw = "none"]
    IN  SendCsw(IF s = "none" THEN n ELSE Halt(n, s))

\* _msc_data_phase_complete.
DataPhaseComplete(m) ==
    LET s == m.stall_before_csw
        n == [m EXCEPT !.stall_before_csw = "none"]
    IN  CASE s = "IN"  -> Halt([n EXCEPT !.csw_on_unstall = TRUE], "IN")
          [] s = "OUT" -> SendCsw(Halt(n, "OUT"))
          [] OTHER     -> SendCsw(n)

Direction(c) == IF c.in THEN "IN" ELSE "OUT"

\* _msc_init_for_dn.
NoData(m, c) ==
    DataPhaseComplete([m EXCEPT !.stall_before_csw =
                           IF c.dtl # 0 THEN Direction(c) ELSE "none"])

\* What _msc_init_for_di_or_do makes of the data phase the host asks for and the
\* one the command has.
DataLength(c, expected, dir) ==
    IF Direction(c) = dir THEN Min({expected, c.dtl}) ELSE 0

WithData(m, c, expected, dir) ==
    [m EXCEPT
       !.stall_before_csw = IF Direction(c) # dir \/ expected # c.dtl
                            THEN Direction(c) ELSE "none",
       !.csw.status = IF Direction(c) # dir \/ expected > c.dtl
                      THEN "PHASE_ERROR" ELSE @]

Fail(m, c, sense) ==
    NoData([m EXCEPT !.csw.status = "FAILED", !.sense = sense], c)

\* _scsi_standard_response.
Reply(m, c, sense) ==
    LET n == DataLength(c, Min({ReplyLength, c.dtl}), "IN")
        w == WithData(m, c, Min({ReplyLength, c.dtl}), "IN")
    IN  IF n = 0 THEN DataPhaseComplete(w)
        ELSE [w EXCEPT !.csw.residue = @ - n, !.in = "reply",
                       !.packet = [length |-> n, sense |-> sense]]

-----------------------------------------------------------------------------
(***************************************************************************)
(* The data phase of READ and WRITE: the stream helper with the functions  *)
(* of _msc_sector_funcs.                                                   *)
(***************************************************************************)

\* usb_stream_packet_handler_complete with _msc_on_sector_stream_packet_complete.
PacketComplete(m) ==
    [m EXCEPT !.offset = @ + 1, !.csw.residue = @ - PacketLength, !.held = FALSE]

\* An IN packet is filled; a chunk is read at its first packet, at once.
FillPacket(m) ==
    PacketComplete([m EXCEPT !.token = IF m.offset % SectorPackets = 0
                                       THEN @ + 1 ELSE @])

\* The last packet of a sector, or of a transfer that ends within one.
EndsChunk(m) ==
    m.offset + 1 = m.length \/ (m.offset + 1) % SectorPackets = 0

\* Mutant of DonePacket: the transfer goes on past its last packet.
DonePacketOneMore(m) ==
    LET n == PacketComplete(m)
    IN  IF n.halt["OUT"] # "none" THEN [n EXCEPT !.out = "none", !.deferred = FALSE]
        ELSE IF n.offset > n.length THEN DataPhaseComplete([n EXCEPT !.out = "none"])
        ELSE n

\* An OUT packet is done with.  A halt ends the transfer.
DonePacket(m) ==
    LET n == PacketComplete(m)
    IN  IF n.halt["OUT"] # "none" THEN [n EXCEPT !.out = "none", !.deferred = FALSE]
        ELSE IF n.offset = n.length THEN DataPhaseComplete([n EXCEPT !.out = "none"])
        ELSE n

\* A packet received: at the end of a chunk the virtual disk gets the sector,
\* and may keep the packet until its task has ended.
TakePacket(m, async) ==
    IF EndsChunk(m)
    THEN LET n == [m EXCEPT !.token = @ + 1]
         IN  IF async THEN [n EXCEPT !.held = TRUE] ELSE DonePacket(n)
    ELSE DonePacket(m)

\* The other buffer has been filled meanwhile.
TakeDeferred(m, async) ==
    IF m.deferred THEN TakePacket([m EXCEPT !.deferred = FALSE], async) ELSE m

\* Mutant of Streams: the transfer begins with the token of the last sector.
StreamsOldToken(m, n, dir) ==
    LET s == [m EXCEPT !.offset = 0, !.length = n]
    IN  IF dir = "IN" THEN FillPacket([s EXCEPT !.in = "stream"])
                      ELSE [s EXCEPT !.out = "stream"]

\* A transfer of n packets begins, with a token that no task has.
Streams(m, n, dir) ==
    LET s == [m EXCEPT !.token = @ + 1, !.offset = 0, !.length = n]
    IN  IF dir = "IN" THEN FillPacket([s EXCEPT !.in = "stream"])
                      ELSE [s EXCEPT !.out = "stream"]

\* _scsi_read_or_write_blocks: whole packets only.
ReadOrWrite(m, c, dir) ==
    LET n == DataLength(c, c.blocks * SectorLength, dir) \div PacketLength
        w == WithData(m, c, c.blocks * SectorLength, dir)
    IN  IF n = 0 THEN DataPhaseComplete(w) ELSE Streams(w, n, dir)

-----------------------------------------------------------------------------
(***************************************************************************)
(* Commands.                                                               *)
(***************************************************************************)

\* Mutant of Opened: REQUEST SENSE clears the sense before it reports it.
OpenedForgetful(m, c, tag) ==
    [m EXCEPT !.csw = [tag |-> tag, status |-> "PASSED", residue |-> c.dtl],
              !.out = "none", !.sense = "OK"]

\* The start of _msc_cmd_packet_internal.  The transfer that received the CBW
\* ends with it.
Opened(m, c, tag) ==
    [m EXCEPT !.csw = [tag |-> tag, status |-> "PASSED", residue |-> c.dtl],
              !.out = "none",
              !.sense = IF c.op = "sense" THEN @ ELSE "OK"]

Handled(m, c, tag) ==
    LET o == Opened(m, c, tag)
    IN  CASE c.op = "invalid" ->
               [m EXCEPT !.out = "none", !.halt = [e \in Endpoints |-> "on_condition"]]
          [] c.op = "none"    -> NoData(o, c)
          [] c.op = "ready"   -> IF o.ejected THEN Fail(o, c, "NOT_READY") ELSE NoData(o, c)
          [] c.op = "eject"   -> NoData([o EXCEPT !.ejected = TRUE], c)
          [] c.op = "reply"   -> Reply(o, c, "OK")
          [] c.op = "sense"   -> Reply([o EXCEPT !.sense = "OK"], c, o.sense)
          [] c.op = "read"    -> ReadOrWrite(o, c, "IN")
          [] c.op = "write"   -> ReadOrWrite(o, c, "OUT")
          [] c.op = "unknown" -> Fail(o, c, "ILLEGAL_REQUEST")

Outstanding == msc.token # 0 /\ msc.token \in {disk.queued, disk.running}

-----------------------------------------------------------------------------
(***************************************************************************)
(* The host on the bulk endpoints.  It takes what the device offers and     *)
(* waits for its own requests first.                                       *)
(***************************************************************************)

Driving == asking.request # NoRequest
           /\ asking.request.name \in {"MSC_RESET", "CLEAR_HALT", "SET_CONFIGURATION"}

At(phase) == host.phase = phase /\ ~Driving

HostSendsCommand(c) ==
    /\ At("idle")
    /\ host.tag < MaxCommands
    /\ msc.out = "cmd" /\ msc.halt["OUT"] = "none"
    /\ msc' = Handled(msc, c, host.tag + 1)
    /\ host' = [phase |-> IF c.dtl # 0 THEN "data" ELSE "status",
                tag |-> host.tag + 1, moved |-> 0, cleared |-> FALSE, command |-> c,
                expects |-> IF c.op = "sense" THEN host.expects ELSE "OK"]
    /\ UNCHANGED <<controlVars, disk>>

\* The host follows the BOT rules: a stalled CBW calls for a reset.
HostSeesCommandStall ==
    /\ At("idle")
    /\ msc.halt["OUT"] # "none"
    /\ host' = [host EXCEPT !.phase = "recover"]
    /\ UNCHANGED <<controlVars, msc, disk>>

\* A packet shorter than the others, or the last the host asked for, ends the
\* data phase.
Moved(n) ==
    LET moved == host.moved + n
    IN  host' = [host EXCEPT !.moved = moved,
                             !.phase = IF n < PacketLength \/ moved = host.command.dtl
                                       THEN "status" ELSE @]

HostTakesReply ==
    /\ At("data") /\ host.command.in
    /\ msc.in = "reply" /\ msc.halt["IN"] = "none"
    /\ msc' = DataPhaseComplete([msc EXCEPT !.in = "none"])
    /\ Moved(msc.packet.length)
    /\ UNCHANGED <<controlVars, disk>>

HostTakesPacket ==
    /\ At("data") /\ host.command.in
    /\ msc.in = "stream" /\ msc.halt["IN"] = "none"
    /\ msc' = IF msc.offset = msc.length
              THEN DataPhaseComplete([msc EXCEPT !.in = "none"])
              ELSE FillPacket(msc)
    /\ Moved(PacketLength)
    /\ UNCHANGED <<controlVars, disk>>

\* The task that the virtual disk has queued for a chunk of m.  queue_task
\* overwrites a task still queued.
QueuesTask(m) ==
    disk' = IF m.held /\ m.token # msc.token THEN [disk EXCEPT !.queued = m.token] ELSE disk

HostSendsPacket(async) ==
    /\ At("data") /\ ~host.command.in
    /\ msc.out = "stream" /\ msc.halt["OUT"] = "none" /\ ~msc.held
    /\ msc' = TakePacket(msc, async)
    /\ QueuesTask(msc')
    /\ Moved(PacketLength)
    /\ UNCHANGED controlVars

\* Into the second buffer, while the first is held.
HostSendsAhead ==
    /\ At("data") /\ ~host.command.in
    /\ msc.out = "stream" /\ msc.halt["OUT"] = "none"
    /\ msc.held /\ ~msc.deferred /\ msc.offset + 1 < msc.length
    /\ msc' = [msc EXCEPT !.deferred = TRUE]
    /\ Moved(PacketLength)
    /\ UNCHANGED <<controlVars, disk>>

HostSeesOutStall ==
    /\ At("data") /\ ~host.command.in
    /\ msc.halt["OUT"] # "none"
    /\ host' = [host EXCEPT !.phase = "clear_out"]
    /\ UNCHANGED <<controlVars, msc, disk>>

\* A second stall on the way to the status calls for a reset.
HostSeesInStall ==
    /\ At("status") \/ (At("data") /\ host.command.in)
    /\ msc.halt["IN"] # "none"
    /\ host' = [host EXCEPT !.phase = IF @ = "status" /\ host.cleared
                                      THEN "recover" ELSE "clear_in",
                            !.cleared = TRUE]
    /\ UNCHANGED <<controlVars, msc, disk>>

Reason(c) ==
    CASE c.op = "unknown" -> "ILLEGAL_REQUEST"
      [] c.op = "ready"   -> "NOT_READY"
      [] OTHER            -> "DATA_PROTECT"

\* _tf_wait_command.
CommandWanted(m) ==
    [m EXCEPT !.in = "none", !.out = IF m.halt["OUT"] = "none" THEN "cmd" ELSE @]

HostTakesCsw ==
    /\ At("status")
    /\ msc.in = "csw" /\ msc.halt["IN"] = "none"
    /\ msc' = CommandWanted(msc)
    /\ host' = [host EXCEPT
                  !.phase = IF msc.packet.status = "PHASE_ERROR" THEN "recover" ELSE "idle",
                  !.expects = IF msc.packet.status = "FAILED"
                              THEN Reason(host.command) ELSE "OK"]
    /\ UNCHANGED <<controlVars, disk>>

\* The host loses patience.
HostTimesOut ==
    /\ host.phase \in {"data", "status", "clear_in", "clear_out"}
    /\ host' = [host EXCEPT !.phase = "recover"]
    /\ UNCHANGED <<controlVars, msc, disk>>

-----------------------------------------------------------------------------
(***************************************************************************)
(* Requests of the host, and what they do here.                            *)
(***************************************************************************)

\* Mutant of ClearHalt: the IN endpoint is cleared without a word to the
\* interface.
ClearHaltSilently(m, e) ==
    IF m.halt[e] = "on_condition" THEN m
    ELSE IF e = "IN" THEN [m EXCEPT !.in = "none", !.halt["IN"] = "none"]
    ELSE [m EXCEPT !.out = "cmd", !.halt["OUT"] = "none",
                   !.held = FALSE, !.deferred = FALSE]

\* CLEAR_FEATURE(ENDPOINT_HALT): a hard reset of the endpoint, unless it is
\* halted on condition.  The IN endpoint tells the interface
\* (_msc_in_on_stall_change), the OUT endpoint waits for a command again.
ClearHalt(m, e) ==
    IF m.halt[e] = "on_condition" THEN m
    ELSE IF e = "IN"
    THEN LET n == [m EXCEPT !.in = "none", !.halt["IN"] = "none"]
         IN  IF m.halt["IN"] = "halted" /\ m.csw_on_unstall THEN SendCsw(n) ELSE n
    ELSE [m EXCEPT !.out = "cmd", !.halt["OUT"] = "none",
                   !.held = FALSE, !.deferred = FALSE]

\* The reset of all endpoints when the configuration is lost: _msc_state stays,
\* and a status that waits for the end of a halt is sent to nobody.
Unconfigured(m) ==
    LET n == [m EXCEPT !.in = "none", !.out = "none", !.held = FALSE,
                       !.deferred = FALSE, !.halt = [e \in Endpoints |-> "none"]]
    IN  IF m.halt["IN"] # "none" /\ m.csw_on_unstall THEN SendCsw(n) ELSE n

MscReset ==
    /\ msc' = Cleared(msc.token, TRUE)
    /\ disk' = [disk EXCEPT !.dropped = FALSE, !.late = FALSE]
    /\ host' = [host EXCEPT !.phase = "recover_in", !.expects = "OK"]

\* The recovery of the BOT rules: reset, then clear both endpoints.
HostResetsMsc ==
    /\ At("recover")
    /\ HostSetup([name |-> "MSC_RESET", arg |-> 0])
    /\ MscReset

HostClears(phase, e, next) ==
    /\ At(phase)
    /\ HostSetup([name |-> "CLEAR_HALT", arg |-> e])
    /\ msc' = ClearHalt(msc, e)
    /\ host' = [host EXCEPT !.phase = next]
    /\ UNCHANGED disk

HostClearsHalt ==
    \/ HostClears("clear_in", "IN", "status")
    \/ HostClears("clear_out", "OUT", "status")
    \/ HostClears("recover_in", "IN", "recover_out")
    \/ HostClears("recover_out", "OUT", "idle")

\* SET_CONFIGURATION: _usb_boot_on_configure resets PICOBOOT and its queues too.
HostConfigures ==
    /\ HostSetup([name |-> "SET_CONFIGURATION", arg |-> 1])
    /\ msc' = Cleared(msc.token, TRUE)
    /\ disk' = [disk EXCEPT !.queued = 0, !.dropped = FALSE, !.late = FALSE]
    /\ host' = [host EXCEPT !.phase = "idle", !.expects = "OK"]

LosesConfiguration ==
    /\ msc' = Unconfigured(msc)
    /\ host' = [host EXCEPT !.phase = "off"]
    /\ UNCHANGED disk

HostUnconfigures ==
    /\ HostSetup([name |-> "SET_CONFIGURATION", arg |-> 0])
    /\ LosesConfiguration

HostResetsBus == BusReset /\ LosesConfiguration

\* Requests that leave the interface alone.
HostAsks ==
    /\ \E r \in Request :
          /\ r.name \in {"GET_DESCRIPTOR", "GET_MAX_LUN", "SET_ADDRESS", "UNKNOWN"}
          /\ HostSetup(r)
    /\ UNCHANGED mscVars

HostWaits == HostGoesOn /\ UNCHANGED mscVars

-----------------------------------------------------------------------------
(***************************************************************************)
(* The virtual disk's tasks, and what PICOBOOT does to the interface.      *)
(***************************************************************************)

DiskStarts ==
    /\ disk.queued # 0 /\ disk.running = 0
    /\ disk' = [disk EXCEPT !.queued = 0, !.running = disk.queued]
    /\ UNCHANGED <<controlVars, msc, host>>

\* Mutant of ErrorEnds: the data phase ends without a stall.
ErrorEndsQuietly(m) ==
    DataPhaseComplete([m EXCEPT !.csw.status = "FAILED", !.sense = "DATA_PROTECT"])

ErrorEnds(m) ==
    DataPhaseComplete([m EXCEPT !.csw.status = "FAILED", !.sense = "DATA_PROTECT",
                                !.stall_before_csw = "OUT"])

\* The packet of a sector that was given up is done with once more.  The stream
\* counts it, and the residue, which is unsigned, may wrap (below zero here).  There
\* is no packet outstanding: usb_packet_done leaves the default transfer as it is,
\* or finds no transfer, and a halt ends the one there is.
DoneForNobody(m) ==
    LET n == PacketComplete(m)
    IN  IF n.halt["OUT"] # "none" THEN [n EXCEPT !.out = "none"] ELSE n

\* vd_async_complete.  The stream has its packet, unless the sector was given up and
\* its token is still the current one.
Completed(m, ok, async) ==
    LET e == IF ok THEN m ELSE ErrorEnds(m)
    IN  IF disk.running # m.token THEN m
        ELSE IF m.held THEN TakeDeferred(DonePacket(e), async)
        ELSE DoneForNobody(e)

\* A completion that finds no packet comes too late for more than its own command,
\* unless it is a good one and no command has come since the reset: what it changes
\* is then set again by the next command.
TooLate(ok) ==
    /\ disk.running = msc.token /\ ~msc.held
    /\ ~(ok /\ msc.out = "cmd" /\ msc.csw.tag = 0)

DiskEnds(ok, async) ==
    /\ disk.running # 0
    /\ msc' = Completed(msc, ok, async)
    /\ disk' = [disk EXCEPT !.running = 0,
                            !.queued = IF msc'.held /\ msc'.token # msc.token
                                       THEN msc'.token ELSE @,
                            !.late = @ \/ TooLate(ok)]
    /\ UNCHANGED <<controlVars, host>>

\* PICOBOOT_IF_RESET empties the queue of the virtual disk too.
PicobootResets ==
    /\ Configured
    /\ disk' = [disk EXCEPT !.queued = 0, !.dropped = @ \/ (msc.held /\ disk.queued = msc.token)]
    /\ UNCHANGED <<controlVars, msc, host>>

\* Exclusive access with eject (msc_eject).
PicobootEjects ==
    /\ Configured
    /\ msc' = [msc EXCEPT !.ejected = TRUE]
    /\ UNCHANGED <<controlVars, disk, host>>

-----------------------------------------------------------------------------
Bulk ==
    \/ HostSeesCommandStall \/ HostTakesReply \/ HostTakesPacket
    \/ (\E async \in BOOLEAN : HostSendsPacket(async))
    \/ HostSendsAhead \/ HostSeesOutStall \/ HostSeesInStall \/ HostTakesCsw

Disk == DiskStarts \/ (\E ok, async \in BOOLEAN : DiskEnds(ok, async))

MscNext ==
    \/ \E c \in Command : HostSendsCommand(c)
    \/ Bulk \/ HostTimesOut
    \/ HostResetsMsc \/ HostClearsHalt
    \/ HostConfigures \/ HostUnconfigures \/ HostResetsBus
    \/ HostAsks \/ HostWaits
    \/ Disk \/ PicobootResets \/ PicobootEjects

MscSafety == MscInit /\ [][MscNext]_mscAllVars

\* A host that waits for an answer goes on with what the device offers it, and
\* the flash answers.  It need not send commands, and never has to reset; it may
\* give up a request, but not every one before its last stage.
MscSpec ==
    /\ MscSafety
    /\ WF_mscAllVars(Bulk)
    /\ WF_mscAllVars(HostResetsMsc \/ HostClearsHalt)
    /\ WF_mscAllVars(HostWaits) /\ SF_mscAllVars(HostEnds /\ UNCHANGED mscVars)
    /\ WF_mscAllVars(Disk)

-----------------------------------------------------------------------------
(***************************************************************************)
(* Properties.                                                             *)
(***************************************************************************)

\* The two ends agree on what goes over an endpoint: a status is never taken for
\* data, nor data for a command; a host that still sends data to a device that
\* wants no more of it sees a stall, and one that wants the status no data; and
\* once cleared, an endpoint does not stall again (_msc_data_phase_complete,
\* _msc_init_for_di_or_do, _tf_wait_command, _msc_in_on_stall_change).  A completion
\* that comes too late breaks this, until the interface is reset.
PhasesAgree ==
    ~disk.late =>
       /\ host.phase = "data" =>
             /\ msc.in = "csw" => ~host.command.in /\ msc.halt["OUT"] # "none"
             /\ msc.out = "cmd" => msc.halt["OUT"] # "none"
       /\ host.phase = "status" =>
             /\ msc.in \notin {"reply", "stream"}
             /\ host.cleared /\ msc.halt["IN"] # "none" => host.command.op = "invalid"

\* The status a host reads is that of its own command; it tells how much was
\* moved; and a command that moved data to the device has passed only when no sector
\* of it waits for the flash (csw.tag and csw.residue, vd_async_complete).
StatusIsTrue ==
    msc.in = "csw" /\ host.phase \in {"data", "status"} /\ ~disk.late =>
        /\ msc.packet.tag = host.tag
        /\ (msc.packet.status # "FAILED" \/ host.command.op # "write") =>
              msc.packet.residue = host.command.dtl - host.moved
        /\ msc.packet.status = "PASSED" /\ ~host.command.in /\ host.moved # 0 =>
              ~Outstanding

\* REQUEST SENSE tells the reason of the failure the host was told of, and no
\* other (_msc_set_csw_failed, _scsi_handle_request_sense).
SenseTellsFailure ==
    msc.in = "reply" /\ host.phase = "data" /\ host.command.op = "sense" /\ ~disk.late =>
        msc.packet.sense = host.expects

\* No completion ends a packet of a sector that is not its own: while a transfer
\* runs, the only task that has the current token is that of the sector whose packet
\* is held, whatever was given up before (the two ++_msc_async_token).
CompletionEndsOwnSector ==
    Outstanding /\ "stream" \in {msc.in, msc.out} => msc.held

\* A request on the control endpoint ends (ControlEnds), and a command gets its
\* status, unless the host gives it up, a reset of PICOBOOT has dropped the sector
\* it waited for, or a completion came too late for the command before
\* (on_stall_change, vd_async_complete, _tf_wait_command).
CommandAnswered ==
    /\ ControlEnds
    /\ host.phase \in {"data", "status", "clear_in", "clear_out"}
           ~> (host.phase \in {"idle", "recover", "off"} \/ disk.dropped \/ disk.late)

=============================================================================
