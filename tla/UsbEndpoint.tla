----------------------------- MODULE UsbEndpoint -----------------------------
(***************************************************************************)
(* A bulk endpoint of the USB device library (usb_device_tiny/             *)
(* usb_device.c, usb_stream_helper.c): transfers of packets over two       *)
(* hardware buffers, halts and resets, against a host that loses           *)
(* acknowledgements.                                                       *)
(*                                                                         *)
(* The driver runs in the USB interrupt, or with interrupts disabled, and  *)
(* looks at nothing the controller changes meanwhile but the AVAIL bits in *)
(* _usb_reset_buffers.  An interrupt or a call of the client is therefore  *)
(* one step, made of the functions below, which take the driver's state to *)
(* its next; the controller and the host run between the steps.            *)
(***************************************************************************)
EXTENDS Naturals, Sequences

CONSTANTS
    ChunkPackets,  \* packets in a chunk of a stream (chunk_size / 64)
    MaxSize,       \* bound on the packets of a transfer
    MaxPackets,    \* bound on the packets of a run
    MaxResets,     \* bound on the resets, and on the halts
    MaxLosses,     \* bound on the acknowledgements lost
    QuietReset     \* does the host reset an endpoint only when it is at rest?

\* Every stream of the bootrom has chunks of several packets: a flash page of 4,
\* a sector of 8.
ASSUME EndpointAssumption ==
    /\ ChunkPackets \in Nat /\ ChunkPackets >= 2
    /\ MaxSize \in Nat \ {0} /\ MaxPackets \in Nat
    /\ MaxResets \in Nat /\ MaxLosses \in Nat
    /\ QuietReset \in BOOLEAN

VARIABLES
    ep,       \* struct usb_endpoint with its transfers, and its buffer control
    pending,  \* the buffers the controller is done with, to be handled in turn
    host,     \* the host's end: toggle, next packet to send, packets received
    resets,   \* the number of halts and resets so far
    losses    \* the number of acknowledgements lost so far

endpointVars == <<ep, pending, host, resets, losses>>

Buffer   == {0, 1}
NoBuffer == 2
Halt     == {"none", "halted", "on_condition"}

NoTransfer ==
    [kind |-> "none", size |-> 0, holds |-> {}, toSubmit |-> 0, toHandle |-> 0,
     done |-> 0, outstanding |-> 0, queued |-> FALSE]

\* usb_reset_transfer and usb_grow_transfer.  holds has the packets, counted
\* from 0, that on_packet leaves to a later usb_packet_done.
NewTransfer(kind, size, holds) ==
    [NoTransfer EXCEPT !.kind = kind, !.size = size, !.holds = holds,
                       !.toSubmit = size, !.toHandle = size]

\* on_chunk is called with the packet that ends a chunk on OUT, and for the
\* packet that starts one on IN, and may answer that the chunk is not done yet.
ChunkBoundary(in, size) ==
    {p \in 0..(size - 1) : IF in THEN p % ChunkPackets = 0
                           ELSE (p + 1) % ChunkPackets = 0 \/ p + 1 = size}

Streams(in, most) ==
    UNION {{NewTransfer("stream", size, holds) :
              holds \in SUBSET ChunkBoundary(in, size)} : size \in 1..most}

\* _usb_stream_packet_handler and the handlers of commands and acknowledgements.
Default == NewTransfer("default", 1, {})

FreeBuffers == [b \in Buffer |-> [avail |-> FALSE, full |-> FALSE, pid |-> 0, packet |-> 0]]

EndpointInit ==
    /\ ep \in [in : BOOLEAN, configured : {FALSE}, halt : {"none"}, pid : {0},
               owned : {2}, give : {0}, take : {0}, first : {TRUE}, cur : {NoBuffer},
               transfer : {NoTransfer}, chain : {NoTransfer},
               buf : {FreeBuffers}, sel : {0},
               put : {0}, received : {<<>>}, asked : {0}]
    /\ pending = <<>>
    /\ host = [pid |-> 0, next |-> 1, received |-> <<>>, retry |-> FALSE]
    /\ resets = 0 /\ losses = 0

-----------------------------------------------------------------------------
(* Functions of the driver. *)

\* _usb_give_buffer: SEL makes the controller start from the first buffer.
GiveBuffer(e, packet) ==
    [e EXCEPT !.buf[e.give] = [avail |-> TRUE, full |-> e.in, pid |-> e.pid,
                               packet |-> packet],
              !.sel = IF e.first THEN 0 ELSE @,
              !.first = FALSE, !.pid = 1 - @, !.cur = NoBuffer,
              !.owned = @ - 1, !.give = 1 - @, !.transfer.toSubmit = @ - 1]

CanGive(e) ==
    e.transfer # NoTransfer /\ e.transfer.toSubmit > 0 /\ e.owned > 0 /\ e.halt = "none"

\* _usb_call_on_packet with usb_current_packet_buffer: the handler of an OUT
\* packet copies its data.  outstanding_packet is a flag in the code; it is
\* counted here so that a second call shows.
CallOnPacket(e) ==
    LET b == IF e.cur # NoBuffer THEN e.cur ELSE IF e.in THEN e.give ELSE e.take
    IN [e EXCEPT !.transfer.outstanding = @ + 1, !.cur = b,
                 !.received = IF e.in THEN @ ELSE Append(@, e.buf[b].packet)]

Held(e) == e.transfer.done \in e.transfer.holds

\* The start of usb_stream_packet_handler_complete and usb_packet_done.
PacketOver(e) == [e EXCEPT !.transfer.done = @ + 1, !.transfer.outstanding = @ - 1]

\* usb_packet_done hands over the packet that the handler filled.
Release(e) ==
    IF e.in
    THEN [GiveBuffer(e, IF e.cur = e.give THEN e.put + 1 ELSE 0) EXCEPT !.put = @ + 1]
    ELSE [e EXCEPT !.cur = NoBuffer]

\* A turn of the loop of _usb_give_as_many_buffers_as_possible.
Turn(e) ==
    IF ~CanGive(e) THEN e
    ELSE IF ~e.in THEN GiveBuffer(e, 0)
    ELSE LET f == CallOnPacket(e) IN IF Held(f) THEN f ELSE Release(PacketOver(f))

\* On IN usb_packet_done runs the loop within the loop, which may leave a packet
\* outstanding that the outer loop does not know of.
GiveAsMany(e) ==
    LET f == Turn(e)
    IN IF f.owned = e.owned THEN f ELSE IF e.in THEN Turn(Turn(f)) ELSE Turn(f)

StartTransfer(e, t) == GiveAsMany([e EXCEPT !.transfer = t, !.chain = NoTransfer])

\* _usb_check_for_transfer_completion
Completes(e) ==
    e.halt # "none" \/ (e.transfer.toHandle = 0 /\ e.transfer.outstanding = 0)

Complete(e) ==
    LET f == [e EXCEPT !.transfer = NoTransfer]
    IN IF e.halt = "none" /\ e.chain # NoTransfer THEN StartTransfer(f, e.chain) ELSE f

CheckCompletion(e) == IF Completes(e) THEN Complete(e) ELSE e

\* usb_packet_done when no other packet waits.
PacketDone(e) ==
    LET f == PacketOver(e)
    IN IF Completes(f) THEN Complete(f) ELSE GiveAsMany(Release(f))

\* _usb_stall_endpoint
Stall(e, level) ==
    [e EXCEPT !.halt = IF @ = "on_condition" THEN @ ELSE level]

\* The command handler of an OUT endpoint answers a command by a chained stream,
\* by a halt, or in another way.
Answer == [chain : {NoTransfer} \cup Streams(FALSE, MaxSize), halt : Halt]

React(e, answer) ==
    IF e.transfer.kind # "default" THEN e
    ELSE LET f == [e EXCEPT !.chain = answer.chain, !.asked = @ + answer.chain.size]
         IN IF answer.halt = "none" THEN f ELSE Stall(f, answer.halt)

OnPacket(e, answer) ==
    LET f == CallOnPacket(e)
    IN IF Held(f) THEN f ELSE PacketDone(React(f, answer))

\* _usb_handle_transfer.  A buffer without a transfer halts the endpoint.
HandleTransfer(e, which, answer) ==
    LET f == [e EXCEPT !.owned = @ + 1]
        g == [f EXCEPT !.take = which]
        h == IF g.in /\ g.transfer.toSubmit = 0 THEN g ELSE OnPacket(g, answer)
    IN IF f.transfer = NoTransfer THEN Stall(f, "halted")
       ELSE IF f.transfer.outstanding > 0 THEN [f EXCEPT !.transfer.queued = TRUE]
       ELSE IF h.transfer = NoTransfer THEN h
       ELSE CheckCompletion([h EXCEPT !.transfer.toHandle = @ - 1])

NoAnswer == [chain |-> NoTransfer, halt |-> "none"]

\* Mutants of HeldPacketDone: the deferred buffer is counted twice, or its turn
\* never comes.
HeldPacketDoneCountsTwice(e) ==
    LET f == PacketOver(e)
        g == Release(f)
    IN IF Completes(f) THEN Complete(f)
       ELSE IF g.transfer.queued
       THEN HandleTransfer([g EXCEPT !.transfer.queued = FALSE], 1 - g.take, NoAnswer)
       ELSE GiveAsMany(g)

HeldPacketDoneForgets(e) == PacketDone(e)

\* usb_packet_done, called when the work on a held packet is over.
HeldPacketDone(e) ==
    LET f == PacketOver(e)
        g == Release(f)
    IN IF Completes(f) THEN Complete(f)
       ELSE IF g.transfer.queued
       THEN HandleTransfer([g EXCEPT !.transfer.queued = FALSE, !.owned = @ - 1],
                           1 - g.take, NoAnswer)
       ELSE GiveAsMany(g)

\* Mutant of ResetBuffers: the toggle stays as it is.
ResetBuffersKeepsToggle(e) ==
    [e EXCEPT !.buf = FreeBuffers, !.owned = 2, !.give = 0, !.take = 0, !.first = TRUE]

\* _usb_reset_buffers: the toggle goes back if one buffer is aborted.
ResetBuffers(e) ==
    [e EXCEPT !.pid = IF e.owned = 1 /\ \E b \in Buffer : e.buf[b].avail
                      THEN 1 - @ ELSE @,
              !.buf = FreeBuffers, !.owned = 2, !.give = 0, !.take = 0, !.first = TRUE]

\* _usb_reset_endpoint.  Only OUT endpoints have a default transfer.
ResetEndpoint(e, hard) ==
    LET f == ResetBuffers([e EXCEPT !.transfer = NoTransfer])
        g == [f EXCEPT !.pid = IF hard THEN 0 ELSE @, !.cur = NoBuffer, !.halt = "none"]
    IN IF g.configured /\ ~g.in
       THEN StartTransfer(g, Default)
       ELSE g

\* The packet of the default transfer counts.
Restarted(e, hard) == [ResetEndpoint(e, hard) EXCEPT !.asked = @ + 1]

-----------------------------------------------------------------------------
(* The controller and the host. *)

Ready(b) == ep.configured /\ ep.halt = "none" /\ ep.buf[b].avail

\* The controller is done with buffer b; full says what the CPU finds in it.
BufferDone(b, full, packet) ==
    /\ ep' = [ep EXCEPT !.buf[b].avail = FALSE, !.buf[b].full = full,
                        !.buf[b].packet = packet, !.sel = 1 - @]
    /\ pending' = Append(pending, b)

HostGoesOn == [host EXCEPT !.pid = 1 - @, !.next = @ + 1, !.retry = FALSE]

\* An OUT packet with the toggle the buffer waits for.  The host that misses the
\* acknowledgement sends it again.
HostSends(ack) ==
    /\ ~ep.in /\ Ready(ep.sel) /\ host.next <= MaxPackets
    /\ ep.buf[ep.sel].pid = host.pid
    /\ BufferDone(ep.sel, TRUE, host.next)
    /\ host' = IF ack THEN HostGoesOn ELSE [host EXCEPT !.retry = TRUE]

\* The controller acknowledges a packet with the other toggle and drops it.
HostRepeats ==
    /\ ~ep.in /\ Ready(ep.sel) /\ host.next <= MaxPackets
    /\ ep.buf[ep.sel].pid # host.pid
    /\ host' = HostGoesOn
    /\ UNCHANGED <<ep, pending>>

\* An IN packet; the host drops one with the toggle of the packet before.  The
\* controller that misses the acknowledgement sends it again.
HostReceives(ack) ==
    LET b   == ep.buf[ep.sel]
        new == b.pid = host.pid
    IN /\ ep.in /\ Ready(ep.sel)
       /\ ack \/ new
       /\ host' = [host EXCEPT !.pid = IF new THEN 1 - @ ELSE @,
                               !.received = IF new THEN Append(@, b.packet) ELSE @,
                               !.retry = ~ack]
       /\ IF ack THEN BufferDone(ep.sel, FALSE, b.packet) ELSE UNCHANGED <<ep, pending>>

CountLoss(ack) ==
    /\ ack \/ losses < MaxLosses
    /\ losses' = IF ack THEN losses ELSE losses + 1

Transaction ==
    /\ \/ \E ack \in BOOLEAN : CountLoss(ack) /\ (HostSends(ack) \/ HostReceives(ack))
       \/ HostRepeats /\ UNCHANGED losses
    /\ UNCHANGED resets

\* A packet whose acknowledgement was lost is not sent again after a reset.
HostReset ==
    [host EXCEPT !.pid = 0, !.retry = FALSE,
                 !.next = IF @ <= MaxPackets /\ host.retry /\ ~ep.in THEN @ + 1 ELSE @]

CountReset ==
    /\ resets < MaxResets /\ ep.asked < MaxPackets
    /\ resets' = resets + 1
    /\ UNCHANGED losses

\* CLEAR_FEATURE(ENDPOINT_HALT), also of an endpoint that is not halted.
HostClearsHalt ==
    /\ ep.configured /\ ep.asked < MaxPackets
    /\ QuietReset => pending = <<>>
    /\ IF ep.halt = "none" THEN CountReset ELSE UNCHANGED <<resets, losses>>
    /\ IF ep.halt = "on_condition"
       THEN ep' = [ep EXCEPT !.pid = 0] /\ host' = [host EXCEPT !.pid = 0]
       ELSE ep' = Restarted(ep, TRUE) /\ host' = HostReset
    /\ UNCHANGED pending

\* PICOBOOT_IF_RESET, or a reset of the mass storage interface, which the host
\* follows by CLEAR_FEATURE for an endpoint that was halted on a condition.
HostResetsInterface ==
    /\ ep.configured /\ CountReset
    /\ QuietReset => pending = <<>> /\ ~host.retry
    /\ IF ep.halt = "on_condition"
       THEN ep' = Restarted(ep, TRUE) /\ host' = HostReset
       ELSE ep' = Restarted(ep, FALSE) /\ host' = [host EXCEPT !.retry = FALSE]
    /\ UNCHANGED pending

\* _usb_handle_set_config, with the reset of the interfaces in on_configure.
HostConfigures ==
    /\ ep.asked < MaxPackets /\ resets <= MaxResets /\ ~ep.configured
    /\ ep' = Restarted(ResetEndpoint([ep EXCEPT !.configured = TRUE], TRUE), FALSE)
    /\ host' = HostReset
    /\ UNCHANGED <<pending, resets, losses>>

\* _usb_handle_bus_reset, which also drops the buffers to be handled.
BusReset ==
    /\ ep.configured /\ CountReset
    /\ ep' = Restarted([ep EXCEPT !.configured = FALSE], TRUE)
    /\ pending' = <<>>
    /\ host' = HostReset

-----------------------------------------------------------------------------
(* The driver and its client. *)

\* _usb_handle_buffer handles one buffer of an endpoint in an interrupt.
HandleBuffer ==
    /\ pending # <<>>
    /\ \E answer \in Answer :
          /\ answer # NoAnswer => ep.transfer.kind = "default"
          /\ ep.asked + answer.chain.size <= MaxPackets
          /\ answer.halt = "none" \/ (answer.chain = NoTransfer /\ resets < MaxResets)
          /\ resets' = IF answer.halt = "none" THEN resets ELSE resets + 1
          /\ ep' = HandleTransfer(ep, Head(pending), answer)
    /\ pending' = Tail(pending)
    /\ UNCHANGED <<host, losses>>

\* usb_start_transfer, usb_start_empty_transfer and
\* usb_start_default_transfer_if_not_already_running_or_halted.
ClientStarts ==
    /\ ep.configured /\ ep.transfer = NoTransfer /\ ep.halt = "none"
    /\ \E t \in IF ep.in THEN Streams(TRUE, MaxSize)
                ELSE {Default, NewTransfer("stream", 1, {})} :
          /\ ep.asked + t.size <= MaxPackets
          /\ ep' = StartTransfer([ep EXCEPT !.asked = @ + t.size], t)
    /\ UNCHANGED <<pending, host, resets, losses>>

\* usb_stream_chunk_done: the work on a held packet is over; a failure halts the
\* endpoint first.
ClientDone(fails) ==
    /\ ep.transfer.outstanding > 0
    /\ fails => resets < MaxResets
    /\ resets' = IF fails THEN resets + 1 ELSE resets
    /\ ep' = HeldPacketDone(IF fails THEN Stall(ep, "halted") ELSE ep)
    /\ UNCHANGED <<pending, host, losses>>

\* SET_FEATURE(ENDPOINT_HALT), or a command turned down on the other endpoint.
EndpointHalts ==
    /\ ep.configured /\ ep.halt = "none" /\ resets < MaxResets
    /\ resets' = resets + 1
    /\ ep' = Stall(ep, "halted")
    /\ UNCHANGED <<pending, host, losses>>

\* _msc_cmd_halt, from the command handler: no transfer runs on IN.
CommandHalts ==
    /\ ep.configured /\ ep.in /\ ep.transfer = NoTransfer /\ resets < MaxResets
    /\ ep.halt # "on_condition"
    /\ resets' = resets + 1
    /\ ep' = Stall(ep, "on_condition")
    /\ UNCHANGED <<pending, host, losses>>

EndpointNext ==
    \/ Transaction
    \/ HandleBuffer
    \/ ClientStarts
    \/ \E fails \in BOOLEAN : ClientDone(fails)
    \/ EndpointHalts \/ CommandHalts
    \/ HostClearsHalt \/ HostResetsInterface
    \/ HostConfigures \/ BusReset

EndpointSafety == EndpointInit /\ [][EndpointNext]_endpointVars

\* The host goes on with its transactions, the interrupt is taken and the client
\* finishes what it holds.
EndpointSpec ==
    /\ EndpointSafety
    /\ WF_endpointVars(Transaction)
    /\ WF_endpointVars(HandleBuffer)
    /\ WF_endpointVars(ClientDone(FALSE))

-----------------------------------------------------------------------------
(* Properties. *)

Transfer ==
    [kind : {"none", "default", "stream"}, size : Nat, holds : SUBSET Nat,
     toSubmit : Nat, toHandle : Nat, done : Nat, outstanding : Nat, queued : BOOLEAN]

\* The types of the driver, the controller and the host; the driver owns at most
\* two buffers, and those it counts are not with the controller.
EndpointTypeOK ==
    /\ ep \in [in : BOOLEAN, configured : BOOLEAN, halt : Halt, pid : {0, 1},
               owned : 0..2, give : Buffer, take : Buffer, first : BOOLEAN,
               cur : Buffer \cup {NoBuffer}, transfer : Transfer, chain : Transfer,
               buf : [Buffer -> [avail : BOOLEAN, full : BOOLEAN, pid : {0, 1},
                                 packet : Nat]],
               sel : Buffer, put : Nat, received : Seq(Nat), asked : 0..MaxPackets]
    /\ pending \in Seq(Buffer)
    /\ host \in [pid : {0, 1}, next : 1..(MaxPackets + 1), received : Seq(Nat),
                 retry : BOOLEAN]
    /\ resets \in 0..MaxResets /\ losses \in 0..MaxLosses

\* The packets under way: on OUT in the buffers that wait for the interrupt or
\* for a held packet, on IN in the buffers the host has not had yet.
Waiting ==
    (IF ep.transfer.queued THEN <<1 - ep.take>> ELSE <<>>) \o pending

\* The buffers given to the controller, the one it turns to next first.
Given ==
    LET given(b) == IF ep.buf[b].avail THEN <<b>> ELSE <<>>
    IN given(ep.sel) \o given(1 - ep.sel)

\* The host may have the first of them already, and the controller not know.
Sending == IF host.retry THEN Tail(Given) ELSE Given

Flight ==
    LET order == IF ep.in THEN Sending ELSE Waiting
    IN [i \in 1..Len(order) |-> ep.buf[order[i]].packet]

Pipe == INSTANCE UsbPipe WITH
    next     <- IF ep.in THEN ep.put + 1
                ELSE IF host.retry THEN host.next + 1 ELSE host.next,
    flight   <- Flight,
    received <- IF ep.in THEN host.received ELSE ep.received,
    halted   <- ep.halt # "none"

\* The endpoint keeps the promise of UsbPipe: packets in order, once each, in
\* spite of lost acknowledgements, held packets and two buffers in turn.
InOrderOnce == Pipe!PipeSpec

\* Assertion of _usb_call_on_packet: no packet is handed to the client while it
\* holds another, though the loop that gives buffers runs within itself.
OneOutstanding == ep.transfer.outstanding <= 1

\* Every buffer belongs to one side: to the driver, by owned_buffer_count, to
\* the controller, or to neither while its completion waits.
EveryBufferOwned ==
    ep.owned + Len(Given) + Len(pending) = 2

\* Assertions of _usb_handle_transfer: a buffer that completes while a packet is
\* held is the other one, and there is one place to remember it.
QueueHoldsOther ==
    ep.transfer.outstanding > 0 =>
        /\ \A i \in 1..Len(pending) : pending[i] # ep.take
        /\ Len(Waiting) <= 1

\* A buffer that completes belongs to a transfer that waits for it, unless a halt
\* has ended the transfer: _usb_handle_transfer halts the endpoint otherwise.
NoUnexpectedPacket ==
    ep.halt = "none" =>
        /\ Len(Waiting) <= ep.transfer.toHandle
        /\ ep.transfer.toSubmit <= ep.transfer.toHandle

\* The types and all four: each buffer has one owner, and each completion a packet
\* and a transfer it is for, however the two buffers, the held packet and the
\* nested calls of usb_packet_done fall together.
EndpointInv ==
    /\ EndpointTypeOK
    /\ OneOutstanding /\ EveryBufferOwned /\ QueueHoldsOther /\ NoUnexpectedPacket

\* Assertion of usb_current_packet_buffer: a packet taken for received is in a
\* buffer the controller has filled.
HandledIsFull == ~ep.in => \A i \in 1..Len(pending) : ep.buf[pending[i]].full

\* A transfer comes to its end, at the latest when the client holds nothing and
\* the host has done its transactions.
TransferEnds == []<>(ep.transfer = NoTransfer \/ ep.halt # "none")

=============================================================================
