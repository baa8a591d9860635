-------------------------- MODULE UsbEndpoint_proofs --------------------------
(***************************************************************************)
(* Proofs about a bulk endpoint, for any chunk, any transfers and any      *)
(* number of packets, resets and losses, with a host that resets an        *)
(* endpoint only when it is at rest (QuietReset).                          *)
(*                                                                         *)
(* The driver's state e is spoken of with the buffers p that wait for the  *)
(* interrupt and the host h, so that each function of the driver has a     *)
(* lemma of its own and an action is the lemma of the function it calls.   *)
(***************************************************************************)
EXTENDS UsbEndpoint, SequenceTheorems, TLAPS

BufferControl == [Buffer -> [avail : BOOLEAN, full : BOOLEAN, pid : {0, 1}, packet : Nat]]

Driver ==
    [in : BOOLEAN, configured : BOOLEAN, halt : Halt, pid : {0, 1},
     owned : 0..2, give : Buffer, take : Buffer, first : BOOLEAN,
     cur : Buffer \cup {NoBuffer}, transfer : Transfer, chain : Transfer,
     buf : BufferControl, sel : Buffer, put : Nat, received : Seq(Nat), asked : Nat]

HostState == [pid : {0, 1}, next : Nat, received : Seq(Nat), retry : BOOLEAN]

\* The buffers come back in the order they were given: the driver gives the
\* first of those it owns, so the other, or the oldest, is the next to come back.
Places(e, p) ==
    /\ e.owned = 2 => p = <<>> /\ ~e.buf[0].avail /\ ~e.buf[1].avail
    /\ e.owned = 1 =>
          /\ ~e.buf[e.give].avail
          /\ p = IF e.buf[1 - e.give].avail THEN <<>> ELSE <<1 - e.give>>
    /\ e.owned = 0 =>
          /\ e.buf[e.give].avail => e.buf[1 - e.give].avail
          /\ p = IF e.buf[e.give].avail THEN <<>>
                 ELSE IF e.buf[1 - e.give].avail THEN <<e.give>>
                 ELSE <<e.give, 1 - e.give>>
    /\ e.first => e.owned = 2 /\ e.give = 0
    /\ ~e.first =>
          e.sel = IF e.buf[e.give].avail <=> e.buf[1 - e.give].avail THEN e.give
                  ELSE 1 - e.give

\* The toggle of the next packet, a reset on a condition aside: the buffers with
\* the controller have the host's toggle and the other in turn.
NextToggle(h) == IF h.retry THEN 1 - h.pid ELSE h.pid

Toggles(e, h) ==
    /\ e.halt # "on_condition" =>
          /\ e.pid = IF e.buf[0].avail <=> e.buf[1].avail
                     THEN NextToggle(h) ELSE 1 - NextToggle(h)
          /\ \A b \in Buffer : e.buf[b].avail =>
                e.buf[b].pid = IF b = e.sel THEN NextToggle(h) ELSE 1 - NextToggle(h)
    /\ e.in /\ h.retry => e.buf[e.sel].avail

\* A transfer to be started.  On IN only the first packet of a chunk is held.
Fresh(in, t) ==
    /\ t \in Transfer
    /\ t.kind # "none" /\ t.size > 0 /\ t.toSubmit = t.size /\ t.toHandle = t.size
    /\ t.done = 0 /\ t.outstanding = 0 /\ ~t.queued
    /\ in => t.kind = "stream" /\ 1 \notin t.holds

Kinds(e) ==
    /\ e.transfer.kind = "none" => e.transfer = NoTransfer
    /\ e.chain = NoTransfer \/ (~e.in /\ Fresh(FALSE, e.chain))
    /\ e.in => e.transfer.kind # "default" /\ 1 \notin e.transfer.holds
    /\ ~e.configured => e.owned = 2 /\ e.transfer = NoTransfer

\* One packet at most is with the client, in a buffer of the driver's: on OUT the
\* one just taken, on IN the one to be given.  An IN transfer gives every buffer
\* it can, so that only its first packet is held with both buffers free.
Work(e) ==
    /\ e.transfer.outstanding <= 1
    /\ e.transfer.queued =>
          /\ e.transfer.outstanding = 1 /\ e.owned = 2
          /\ e.take = e.give /\ ~e.first
    /\ e.transfer.outstanding = 1 => e.owned >= 1 /\ (e.owned = 1 => e.take = e.give)
    /\ e.in =>
          /\ e.cur \in {NoBuffer, e.give}
          /\ e.transfer.outstanding = 1 =>
                /\ e.transfer.toSubmit > 0 /\ e.cur = e.give
                /\ e.owned = 2 /\ ~e.transfer.queued => e.transfer.done = 0
          /\ e.transfer.outstanding = 0 /\ e.transfer.toSubmit > 0 => e.owned = 0
    /\ ~e.in /\ e.transfer.kind # "none" =>
          e.cur = IF e.transfer.outstanding = 0 THEN NoBuffer ELSE e.take

\* What is still to be handled is what is to be given, and what was given and has
\* not come back, or waits behind a held packet.
Accounts(e) ==
    e.halt = "none" =>
        e.transfer.toHandle =
            e.transfer.toSubmit + (2 - e.owned) + (IF e.transfer.queued THEN 1 ELSE 0)

Sound(e, p, h) ==
    e \in Driver /\ Places(e, p) /\ Toggles(e, h) /\ Kinds(e) /\ Work(e) /\ Accounts(e)

\* The packets in the buffers given to the controller, in turn.
Sent(e) ==
    LET sent(b) == IF e.buf[b].avail THEN <<e.buf[b].packet>> ELSE <<>>
    IN sent(e.sel) \o sent(1 - e.sel)

\* What no function of the driver but the handlers' reactions changes.
Alike(e, g) ==
    /\ g.in = e.in /\ g.configured = e.configured /\ g.halt = e.halt
    /\ g.take = e.take /\ g.chain = e.chain /\ g.received = e.received
    /\ g.asked = e.asked

-----------------------------------------------------------------------------
(***************************************************************************)
(* Giving buffers to the controller.                                       *)
(***************************************************************************)

\* _usb_give_buffer, field by field: packet n goes with the buffer to give.
GaveOne(e, n, g) ==
    /\ g \in Driver /\ Alike(e, g)
    /\ g.owned = e.owned - 1 /\ g.give = 1 - e.give /\ ~g.first
    /\ g.cur = NoBuffer /\ g.pid = 1 - e.pid /\ g.put = e.put
    /\ g.sel = IF e.first THEN 0 ELSE e.sel
    /\ g.transfer = [e.transfer EXCEPT !.toSubmit = @ - 1]
    /\ g.buf[1 - e.give] = e.buf[1 - e.give]
    /\ g.buf[e.give].avail /\ g.buf[e.give].packet = n
    /\ g.buf[e.give].pid = e.pid

LEMMA GiveBufferFields ==
    ASSUME NEW e \in Driver, NEW n \in Nat, e.owned > 0, e.transfer.toSubmit > 0
    PROVE  GaveOne(e, n, GiveBuffer(e, n))
<1> DEFINE c == [avail |-> TRUE, full |-> e.in, pid |-> e.pid, packet |-> n]
           buf == [e.buf EXCEPT ![e.give] = c]
           t == [e.transfer EXCEPT !.toSubmit = @ - 1]
<1>1. /\ buf \in BufferControl /\ buf[1 - e.give] = e.buf[1 - e.give]
      /\ buf[e.give] = c
  BY DEF Driver, BufferControl, Buffer
<1>2. t \in Transfer
  <2>1. e.transfer \in Transfer
    BY DEF Driver
  <2>. QED
    BY <2>1 DEF Transfer
<1>3. GiveBuffer(e, n) =
        [e EXCEPT !.buf = buf, !.sel = IF e.first THEN 0 ELSE @,
                  !.first = FALSE, !.pid = 1 - @, !.cur = NoBuffer,
                  !.owned = @ - 1, !.give = 1 - @, !.transfer = t]
  BY DEF GiveBuffer, Driver
<1> HIDE DEF buf, t
<1>4. GiveBuffer(e, n) \in Driver
  <2> DEFINE pid == 1 - e.pid
             owned == e.owned - 1
             give == 1 - e.give
             sel == IF e.first THEN 0 ELSE e.sel
  <2>1. /\ pid \in {0, 1} /\ owned \in 0..2 /\ give \in Buffer /\ sel \in Buffer
        /\ NoBuffer \in Buffer \cup {NoBuffer}
    BY DEF Driver, Buffer
  <2>2. GiveBuffer(e, n) =
          [e EXCEPT !.buf = buf, !.sel = sel, !.first = FALSE, !.pid = pid,
                    !.cur = NoBuffer, !.owned = owned, !.give = give, !.transfer = t]
    BY <1>3
  <2> HIDE DEF pid, owned, give, sel
  <2> DEFINE x == [e EXCEPT !.buf = buf, !.sel = sel, !.first = FALSE, !.pid = pid]
             y == [x EXCEPT !.cur = NoBuffer, !.owned = owned, !.give = give,
                            !.transfer = t]
  <2>3. x \in Driver
    BY <1>1, <2>1 DEF Driver
  <2>4. GiveBuffer(e, n) = y
    BY <2>2 DEF Driver
  <2> HIDE DEF x
  <2>5. y \in Driver
    BY <1>2, <2>1, <2>3 DEF Driver
  <2>. QED
    BY <2>4, <2>5
<1> DEFINE g == GiveBuffer(e, n)
<1>5. /\ Alike(e, g)
      /\ g.owned = e.owned - 1 /\ g.give = 1 - e.give /\ ~g.first
      /\ g.cur = NoBuffer /\ g.pid = 1 - e.pid /\ g.put = e.put
      /\ g.sel = (IF e.first THEN 0 ELSE e.sel)
      /\ g.transfer = t /\ g.buf = buf
  BY <1>3 DEF Driver, Alike
<1> HIDE DEF g
<1>6. /\ g.transfer = [e.transfer EXCEPT !.toSubmit = @ - 1]
      /\ g.buf[1 - e.give] = e.buf[1 - e.give] /\ g.buf[e.give] = c
  BY <1>1, <1>5 DEF t
<1>7. c.avail /\ c.packet = n /\ c.pid = e.pid
  OBVIOUS
<1>8. g \in Driver
  BY <1>4 DEF g
<1> HIDE DEF c
<1>9. GaveOne(e, n, g)
  BY <1>5, <1>6, <1>7, <1>8 DEF GaveOne
<1>. QED
  BY <1>9 DEF g

\* The buffer given comes after the one that the controller has already, and
\* takes the next toggle.
LEMMA GiveBufferKeeps ==
    ASSUME NEW e \in Driver, NEW n \in Nat, e.owned > 0, e.transfer.toSubmit > 0,
           NEW p, NEW h \in HostState, Places(e, p), Toggles(e, h)
    PROVE  LET g == GiveBuffer(e, n)
           IN /\ Places(g, p) /\ Toggles(g, h)
              /\ Sent(g) = Append(Sent(e), n)
<1> DEFINE g == GiveBuffer(e, n)
<1>1. /\ g \in Driver /\ Alike(e, g)
      /\ g.owned = e.owned - 1 /\ g.give = 1 - e.give /\ ~g.first
      /\ g.pid = 1 - e.pid
      /\ g.sel = IF e.first THEN 0 ELSE e.sel
      /\ g.buf[1 - e.give] = e.buf[1 - e.give]
      /\ g.buf[e.give].avail /\ g.buf[e.give].packet = n
      /\ g.buf[e.give].pid = e.pid
  <2>1. GaveOne(e, n, g)
    BY GiveBufferFields
  <2> HIDE DEF g
  <2>. QED
    BY <2>1 DEF GaveOne
<1> HIDE DEF g
<1>2. /\ e.give \in {0, 1} /\ e.sel \in {0, 1} /\ e.owned \in {1, 2} /\ e.pid \in {0, 1}
      /\ e.first \in BOOLEAN /\ \A b \in {0, 1} : e.buf[b].avail \in BOOLEAN
      /\ \A b \in {0, 1} : e.buf[b].pid \in {0, 1}
      /\ h.pid \in {0, 1} /\ h.retry \in BOOLEAN
  BY DEF Driver, Buffer, BufferControl, HostState
<1>3. /\ ~e.buf[e.give].avail
      /\ e.buf[1 - e.give].avail => e.sel = 1 - e.give /\ e.owned = 1
      /\ ~e.buf[1 - e.give].avail => g.sel = e.give
      /\ e.owned = 1 => ~e.first
      /\ e.buf[1 - e.give].avail => g.sel = e.sel
  BY <1>1, <1>2 DEF Places
<1>4. Places(g, p)
  <2>1. CASE e.owned = 2
    BY <1>1, <1>2, <1>3, <2>1 DEF Places
  <2>2. CASE e.owned = 1
    BY <1>1, <1>2, <1>3, <2>2 DEF Places
  <2>. QED
    BY <1>2, <2>1, <2>2
<1>5. Toggles(g, h)
  <2>1. g.in = e.in /\ g.halt = e.halt
    BY <1>1 DEF Alike
  <2>2. CASE e.give = 0
    BY <1>1, <1>2, <1>3, <2>1, <2>2 DEF Toggles, Buffer, NextToggle
  <2>3. CASE e.give = 1
    BY <1>1, <1>2, <1>3, <2>1, <2>3 DEF Toggles, Buffer, NextToggle
  <2>. QED
    BY <1>2, <2>2, <2>3
<1>6. Sent(g) = Append(Sent(e), n)
  <2>1. CASE e.buf[1 - e.give].avail
    <3>1. e.sel = 1 - e.give /\ 1 - e.sel = e.give
      BY <1>2, <1>3, <2>1
    <3>2. Sent(g) = <<e.buf[1 - e.give].packet>> \o <<n>>
      <4>1. g.sel = 1 - e.give /\ 1 - g.sel = e.give /\ g.buf[1 - e.give].avail
        BY <1>1, <1>3, <2>1, <3>1
      <4>. QED
        BY <1>1, <4>1 DEF Sent
    <3>3. Sent(e) = <<e.buf[1 - e.give].packet>> \o <<>>
      BY <1>3, <2>1, <3>1 DEF Sent
    <3>. QED
      BY <3>2, <3>3
  <2>2. CASE ~e.buf[1 - e.give].avail
    <3>1. Sent(g) = <<n>> \o <<>>
      BY <1>1, <1>2, <1>3, <2>2 DEF Sent
    <3>2. Sent(e) = <<>> \o <<>>
      BY <1>1, <1>2, <1>3, <2>2 DEF Sent
    <3>. QED
      BY <3>1, <3>2
  <2>. QED
    BY <2>1, <2>2
<1>. QED
  BY <1>4, <1>5, <1>6 DEF g

\* The buffers and the toggle are left alone.
SameBuffers(e, g) ==
    /\ g.owned = e.owned /\ g.give = e.give /\ g.first = e.first /\ g.pid = e.pid
    /\ g.sel = e.sel /\ g.buf = e.buf /\ g.in = e.in
    /\ e.halt = "on_condition" => g.halt = "on_condition"

LEMMA SameBuffersKeep ==
    ASSUME NEW e, NEW g, SameBuffers(e, g), NEW p, NEW h
    PROVE  /\ Places(e, p) => Places(g, p)
           /\ Toggles(e, h) => Toggles(g, h)
           /\ Sent(g) = Sent(e)
BY DEF SameBuffers, Places, Toggles, Sent

LEMMA KindsKeep ==
    ASSUME NEW e, NEW g, Kinds(e), g.in = e.in, g.chain = e.chain,
           g.transfer = e.transfer, g.configured = e.configured,
           e.configured \/ g.owned = e.owned
    PROVE  Kinds(g)
<1>1. g.transfer.kind = "none" => g.transfer = NoTransfer
  BY DEF Kinds
<1>2. g.chain = NoTransfer \/ (~g.in /\ Fresh(FALSE, g.chain))
  BY DEF Kinds
<1>3. g.in => g.transfer.kind # "default" /\ 1 \notin g.transfer.holds
  BY DEF Kinds
<1>4. ~g.configured => g.owned = 2 /\ g.transfer = NoTransfer
  BY DEF Kinds
<1>. QED
  BY <1>1, <1>2, <1>3, <1>4 DEF Kinds

\* The transfer goes on: its packets are given, taken and finished.
GoesOn(t, u) ==
    /\ u.kind = t.kind /\ u.size = t.size /\ u.holds = t.holds
    /\ u.toHandle = t.toHandle /\ u.queued = t.queued

\* From e to g buffers are given, and nothing else.
Gave(e, g) ==
    /\ g \in Driver /\ Alike(e, g) /\ GoesOn(e.transfer, g.transfer)
    /\ g.owned <= e.owned
    /\ e.transfer.toSubmit - g.transfer.toSubmit = e.owned - g.owned
    /\ \A b \in Buffer : ~g.buf[b].avail => g.buf[b] = e.buf[b]

LEMMA GaveTransitive ==
    ASSUME NEW e \in Driver, NEW f \in Driver, NEW g \in Driver, Gave(e, f), Gave(f, g)
    PROVE  Gave(e, g)
<1>1. /\ e.owned \in 0..2 /\ f.owned \in 0..2 /\ g.owned \in 0..2
      /\ e.transfer \in Transfer /\ f.transfer \in Transfer /\ g.transfer \in Transfer
  BY DEF Driver
<1>2. /\ e.transfer.toSubmit \in Nat /\ f.transfer.toSubmit \in Nat
      /\ g.transfer.toSubmit \in Nat
  BY <1>1 DEF Transfer
<1>3. Alike(e, g) /\ GoesOn(e.transfer, g.transfer)
  BY DEF Gave, Alike, GoesOn
<1>4. \A b \in Buffer : ~g.buf[b].avail => g.buf[b] = e.buf[b]
  BY DEF Gave
<1>. QED
  BY <1>1, <1>2, <1>3, <1>4 DEF Gave

\* A state like e but for its transfer, its current buffer and its client.
LEMMA TransferFields ==
    ASSUME NEW e \in Driver
    PROVE  /\ e.transfer \in Transfer /\ e.chain \in Transfer
           /\ e.transfer.outstanding \in Nat /\ e.transfer.done \in Nat
           /\ e.transfer.toSubmit \in Nat /\ e.transfer.toHandle \in Nat
           /\ e.transfer.queued \in BOOLEAN
           /\ e.owned \in {0, 1, 2} /\ e.in \in BOOLEAN /\ e.configured \in BOOLEAN
           /\ e.give \in {0, 1} /\ e.take \in {0, 1} /\ e.sel \in {0, 1}
           /\ e.first \in BOOLEAN /\ e.pid \in {0, 1} /\ e.put \in Nat /\ e.asked \in Nat
           /\ \A b \in {0, 1} : /\ e.buf[b].avail \in BOOLEAN /\ e.buf[b].packet \in Nat
                                /\ e.buf[b].pid \in {0, 1}
<1>1. e.transfer \in Transfer /\ e.chain \in Transfer /\ e.buf \in BufferControl
  BY DEF Driver
<1>2. /\ e.owned \in {0, 1, 2} /\ e.in \in BOOLEAN /\ e.configured \in BOOLEAN
      /\ e.give \in {0, 1} /\ e.take \in {0, 1} /\ e.sel \in {0, 1}
      /\ e.first \in BOOLEAN /\ e.pid \in {0, 1} /\ e.put \in Nat /\ e.asked \in Nat
  BY DEF Driver, Buffer
<1>3. /\ e.transfer.outstanding \in Nat /\ e.transfer.done \in Nat
      /\ e.transfer.toSubmit \in Nat /\ e.transfer.toHandle \in Nat
      /\ e.transfer.queued \in BOOLEAN
  BY <1>1 DEF Transfer
<1>4. \A b \in {0, 1} : /\ e.buf[b].avail \in BOOLEAN /\ e.buf[b].packet \in Nat
                         /\ e.buf[b].pid \in {0, 1}
  BY <1>1 DEF Buffer, BufferControl
<1>. QED
  BY <1>1, <1>2, <1>3, <1>4

\* _usb_call_on_packet: a packet more is with the client.
LEMMA CallOnPacketFields ==
    ASSUME NEW e \in Driver,
           NEW b, b = IF e.cur # NoBuffer THEN e.cur ELSE IF e.in THEN e.give ELSE e.take
    PROVE  LET g == CallOnPacket(e)
           IN /\ g \in Driver /\ SameBuffers(e, g)
              /\ GoesOn(e.transfer, g.transfer)
              /\ g.transfer.toSubmit = e.transfer.toSubmit
              /\ g.transfer.done = e.transfer.done
              /\ g.transfer.outstanding = e.transfer.outstanding + 1
              /\ g.cur = b /\ g.configured = e.configured /\ g.take = e.take
              /\ g.halt = e.halt
              /\ g.chain = e.chain /\ g.put = e.put /\ g.asked = e.asked
              /\ g.received = IF e.in THEN e.received
                              ELSE Append(e.received, e.buf[b].packet)
<1>1. /\ e.transfer \in Transfer /\ e.buf \in BufferControl
      /\ b \in Buffer /\ e.received \in Seq(Nat)
  BY DEF Driver, Buffer, NoBuffer
<1> DEFINE t == [e.transfer EXCEPT !.outstanding = @ + 1]
           r == IF e.in THEN e.received ELSE Append(e.received, e.buf[b].packet)
<1>2. /\ t \in Transfer /\ GoesOn(e.transfer, t)
      /\ t.toSubmit = e.transfer.toSubmit /\ t.done = e.transfer.done
      /\ t.outstanding = e.transfer.outstanding + 1
  <2> DEFINE k == e.transfer.outstanding + 1
  <2>1. k \in Nat
    BY <1>1 DEF Transfer
  <2>2. t = [e.transfer EXCEPT !.outstanding = k]
    OBVIOUS
  <2> HIDE DEF k, t
  <2>3. t \in Transfer
    BY <1>1, <2>1, <2>2 DEF Transfer
  <2>4. /\ GoesOn(e.transfer, t) /\ t.toSubmit = e.transfer.toSubmit
        /\ t.done = e.transfer.done /\ t.outstanding = k
    BY <1>1, <2>2 DEF Transfer, GoesOn
  <2>. QED
    BY <2>3, <2>4 DEF k
<1>3. e.buf[b].packet \in Nat
  BY <1>1 DEF BufferControl
<1>4. r \in Seq(Nat)
  BY <1>1, <1>3
<1>5. CallOnPacket(e) = [e EXCEPT !.transfer = t, !.cur = b, !.received = r]
  BY DEF CallOnPacket, Driver
<1> HIDE DEF t, r
<1>6. CallOnPacket(e) \in Driver
  BY <1>1, <1>2, <1>4, <1>5 DEF Driver
<1>7. /\ CallOnPacket(e).transfer = t /\ CallOnPacket(e).cur = b
      /\ CallOnPacket(e).received = r /\ SameBuffers(e, CallOnPacket(e))
      /\ CallOnPacket(e).configured = e.configured /\ CallOnPacket(e).take = e.take
      /\ CallOnPacket(e).chain = e.chain /\ CallOnPacket(e).put = e.put
      /\ CallOnPacket(e).asked = e.asked /\ CallOnPacket(e).halt = e.halt
  BY <1>5 DEF Driver, SameBuffers
<1>. QED
  BY <1>2, <1>6, <1>7 DEF r

\* usb_packet_done, its start.
LEMMA PacketOverFields ==
    ASSUME NEW e \in Driver, e.transfer.outstanding > 0
    PROVE  LET g == PacketOver(e)
           IN /\ g \in Driver /\ SameBuffers(e, g) /\ Alike(e, g)
              /\ GoesOn(e.transfer, g.transfer)
              /\ g.transfer.toSubmit = e.transfer.toSubmit
              /\ g.transfer.done = e.transfer.done + 1
              /\ g.transfer.outstanding = e.transfer.outstanding - 1
              /\ g.cur = e.cur /\ g.put = e.put
<1> DEFINE t == [e.transfer EXCEPT !.done = @ + 1, !.outstanding = @ - 1]
<1>1. /\ e.transfer \in Transfer
      /\ e.transfer.outstanding - 1 \in Nat /\ e.transfer.done + 1 \in Nat
  BY TransferFields
<1>2. /\ t \in Transfer /\ GoesOn(e.transfer, t)
      /\ t.toSubmit = e.transfer.toSubmit /\ t.done = e.transfer.done + 1
      /\ t.outstanding = e.transfer.outstanding - 1
  BY <1>1 DEF Transfer, GoesOn
<1>3. PacketOver(e) = [e EXCEPT !.transfer = t]
  BY DEF PacketOver, Driver
<1> HIDE DEF t
<1>4. PacketOver(e) \in Driver /\ SameBuffers(e, PacketOver(e)) /\ Alike(e, PacketOver(e))
  BY <1>2, <1>3 DEF Driver, SameBuffers, Alike
<1>5. /\ PacketOver(e).transfer = t /\ PacketOver(e).cur = e.cur
      /\ PacketOver(e).put = e.put
  BY <1>3 DEF Driver
<1>. QED
  BY <1>2, <1>4, <1>5

\* From e to g the next packet of an IN transfer is given.
Filled(e, g) ==
    /\ g \in Driver /\ Alike(e, g) /\ GoesOn(e.transfer, g.transfer)
    /\ g.transfer.toSubmit = e.transfer.toSubmit - 1
    /\ g.transfer.done = e.transfer.done + 1 /\ g.transfer.outstanding = 0
    /\ g.owned = e.owned - 1 /\ g.give = 1 - e.give /\ g.cur = NoBuffer
    /\ g.put = e.put + 1 /\ Sent(g) = Append(Sent(e), e.put + 1)

\* usb_packet_done for an IN packet.
LEMMA ReleaseIn ==
    ASSUME NEW e \in Driver, e.in, e.transfer.outstanding = 1, e.cur = e.give,
           e.owned > 0, e.transfer.toSubmit > 0,
           NEW p, NEW h \in HostState, Places(e, p), Toggles(e, h)
    PROVE  LET g == Release(PacketOver(e))
           IN Filled(e, g) /\ Places(g, p) /\ Toggles(g, h)
<1> DEFINE f == PacketOver(e)
           b == GiveBuffer(f, e.put + 1)
<1>1. /\ f \in Driver /\ SameBuffers(e, f) /\ Alike(e, f)
      /\ GoesOn(e.transfer, f.transfer)
      /\ f.transfer.toSubmit = e.transfer.toSubmit
      /\ f.transfer.done = e.transfer.done + 1
      /\ f.transfer.outstanding = e.transfer.outstanding - 1
      /\ f.cur = e.cur /\ f.put = e.put
  BY PacketOverFields
<1> HIDE DEF f
<1>2. /\ f.owned > 0 /\ f.in /\ f.cur = f.give /\ f.owned = e.owned
      /\ f.transfer \in Transfer /\ f.transfer.outstanding = 0
      /\ Places(f, p) /\ Toggles(f, h) /\ Sent(f) = Sent(e)
      /\ e.put + 1 \in Nat
  <2>1. f.owned > 0 /\ f.in /\ f.cur = f.give /\ f.owned = e.owned
    BY <1>1 DEF SameBuffers
  <2>2. Places(f, p) /\ Toggles(f, h) /\ Sent(f) = Sent(e)
    BY <1>1, SameBuffersKeep
  <2>3. f.transfer \in Transfer /\ e.put + 1 \in Nat
    BY <1>1, TransferFields
  <2>. QED
    BY <1>1, <2>1, <2>2, <2>3
<1>3. /\ b \in Driver /\ Alike(f, b)
      /\ b.owned = f.owned - 1 /\ b.give = 1 - f.give
      /\ b.cur = NoBuffer /\ b.put = f.put
      /\ b.transfer = [f.transfer EXCEPT !.toSubmit = @ - 1]
  <2>1. GaveOne(f, e.put + 1, b)
    BY <1>1, <1>2, GiveBufferFields
  <2> HIDE DEF b
  <2>. QED
    BY <2>1 DEF GaveOne
<1>4. Places(b, p) /\ Toggles(b, h) /\ Sent(b) = Append(Sent(f), e.put + 1)
  BY <1>1, <1>2, GiveBufferKeeps
<1> HIDE DEF b
<1> DEFINE g == [b EXCEPT !.put = @ + 1]
<1>5. Release(f) = g
  BY <1>1, <1>2 DEF Release, b
<1>6. g \in Driver /\ SameBuffers(b, g) /\ Alike(b, g) /\ g.put = b.put + 1
      /\ g.cur = b.cur /\ g.transfer = b.transfer
  <2>1. b.put + 1 \in Nat
    BY <1>3, TransferFields
  <2>. QED
    BY <1>3, <2>1 DEF Driver, SameBuffers, Alike
<1> HIDE DEF g
<1>7. Places(g, p) /\ Toggles(g, h) /\ Sent(g) = Sent(b)
  BY <1>4, <1>6, SameBuffersKeep
<1>8. /\ GoesOn(f.transfer, g.transfer) /\ g.transfer.done = f.transfer.done
      /\ g.transfer.toSubmit = f.transfer.toSubmit - 1
      /\ g.transfer.outstanding = f.transfer.outstanding
  BY <1>2, <1>3, <1>6 DEF GoesOn, Transfer
<1>9. /\ Alike(e, g) /\ GoesOn(e.transfer, g.transfer) /\ g.owned = e.owned - 1
      /\ g.give = 1 - e.give
  BY <1>1, <1>2, <1>3, <1>6, <1>8 DEF Alike, GoesOn, SameBuffers
<1>10. Filled(e, g)
  BY <1>1, <1>2, <1>3, <1>4, <1>6, <1>7, <1>8, <1>9 DEF Filled
<1>. QED
  BY <1>5, <1>7, <1>10 DEF f

\* A packet of an IN transfer that waits for the client, who holds no other.
TookUp(e, g) ==
    /\ g \in Driver /\ Alike(e, g) /\ GoesOn(e.transfer, g.transfer)
    /\ g.transfer.toSubmit = e.transfer.toSubmit
    /\ g.transfer.done = e.transfer.done /\ g.transfer.outstanding = 1
    /\ g.owned = e.owned /\ g.give = e.give /\ g.cur = g.give
    /\ g.put = e.put /\ Sent(g) = Sent(e)

LEMMA TurnIn ==
    ASSUME NEW e \in Driver, e.in, e.transfer.outstanding = 0,
           e.cur \in {NoBuffer, e.give},
           NEW p, NEW h \in HostState, Places(e, p), Toggles(e, h)
    PROVE  LET g == Turn(e)
           IN /\ g \in Driver /\ Places(g, p) /\ Toggles(g, h)
              /\ ~CanGive(e) => g = e
              /\ CanGive(e) =>
                    IF e.transfer.done \in e.transfer.holds
                    THEN TookUp(e, g) ELSE Filled(e, g)
<1>1. CASE ~CanGive(e)
  BY <1>1 DEF Turn
<1>2. CASE CanGive(e)
  <2> DEFINE f == CallOnPacket(e)
  <2>1. /\ f \in Driver /\ SameBuffers(e, f) /\ GoesOn(e.transfer, f.transfer)
        /\ f.transfer.toSubmit = e.transfer.toSubmit
        /\ f.transfer.done = e.transfer.done
        /\ f.transfer.outstanding = 1
        /\ f.cur = e.give /\ f.configured = e.configured /\ f.take = e.take
        /\ f.halt = e.halt
        /\ f.chain = e.chain /\ f.put = e.put /\ f.asked = e.asked
        /\ f.received = e.received
    BY CallOnPacketFields, 0 + 1 = 1
  <2>2. Turn(e) = IF Held(f) THEN f ELSE Release(PacketOver(f))
    BY <1>2 DEF Turn
  <2> HIDE DEF f
  <2>3. Alike(e, f) /\ f.owned = e.owned /\ f.give = e.give /\ f.in
    BY <2>1 DEF Alike, SameBuffers
  <2>4. Places(f, p) /\ Toggles(f, h) /\ Sent(f) = Sent(e)
    BY <2>1, SameBuffersKeep
  <2>5. Held(f) <=> e.transfer.done \in e.transfer.holds
    BY <2>1 DEF Held, GoesOn
  <2>6. CASE Held(f)
    <3>1. TookUp(e, f)
      BY <2>1, <2>3, <2>4 DEF TookUp
    <3>. QED
      BY <1>2, <2>1, <2>2, <2>4, <2>5, <2>6, <3>1
  <2>7. CASE ~Held(f)
    <3> DEFINE g == Release(PacketOver(f))
    <3>1. f.owned > 0 /\ f.transfer.toSubmit > 0
      BY <1>2, <2>1, <2>3 DEF CanGive
    <3>2. Filled(f, g) /\ Places(g, p) /\ Toggles(g, h)
      BY <2>1, <2>3, <2>4, <3>1, ReleaseIn
    <3> HIDE DEF g
    <3>3. Filled(e, g)
      BY <2>1, <2>3, <2>4, <3>2 DEF Filled, Alike, GoesOn
    <3>. QED
      BY <1>2, <2>2, <2>5, <2>7, <3>2, <3>3 DEF Filled, g
  <2>. QED
    BY <2>6, <2>7
<1>. QED
  BY <1>1, <1>2

LEMMA TurnOut ==
    ASSUME NEW e \in Driver, ~e.in,
           NEW p, NEW h \in HostState, Places(e, p), Toggles(e, h)
    PROVE  LET g == Turn(e)
           IN /\ Gave(e, g) /\ Places(g, p) /\ Toggles(g, h)
              /\ ~CanGive(e) => g = e
              /\ CanGive(e) => g.cur = NoBuffer /\ g.owned < e.owned
              /\ g.transfer.outstanding = e.transfer.outstanding
              /\ g.transfer.done = e.transfer.done
<1>1. e.transfer \in Transfer /\ e.transfer.toSubmit \in Nat /\ e.owned \in {0, 1, 2}
  BY TransferFields
<1>2. CASE ~CanGive(e)
  <2>1. Gave(e, e)
    BY <1>1 DEF Gave, Alike, GoesOn
  <2>. QED
    BY <1>2, <2>1 DEF Turn
<1>3. CASE CanGive(e)
  <2> DEFINE g == GiveBuffer(e, 0)
  <2>1. e.owned > 0 /\ e.transfer.toSubmit > 0
    BY <1>3 DEF CanGive
  <2>2. /\ g \in Driver /\ Alike(e, g) /\ g.owned = e.owned - 1 /\ g.cur = NoBuffer
        /\ g.transfer = [e.transfer EXCEPT !.toSubmit = @ - 1]
        /\ g.buf[1 - e.give] = e.buf[1 - e.give] /\ g.buf[e.give].avail
    <3>1. GaveOne(e, 0, g)
      BY <2>1, GiveBufferFields
    <3> HIDE DEF g
    <3>. QED
      BY <3>1 DEF GaveOne
  <2>3. Places(g, p) /\ Toggles(g, h)
    BY <2>1, GiveBufferKeeps
  <2>4. Turn(e) = g
    BY <1>3 DEF Turn
  <2> HIDE DEF g
  <2>5. \A b \in Buffer : ~g.buf[b].avail => g.buf[b] = e.buf[b]
    BY <2>2, TransferFields DEF Buffer
  <2>6. /\ GoesOn(e.transfer, g.transfer)
        /\ g.transfer.toSubmit = e.transfer.toSubmit - 1
        /\ g.transfer.outstanding = e.transfer.outstanding
        /\ g.transfer.done = e.transfer.done
    BY <1>1, <2>2 DEF Transfer, GoesOn
  <2>7. Gave(e, g) /\ g.owned < e.owned
    BY <1>1, <2>2, <2>5, <2>6 DEF Gave
  <2>. QED
    BY <1>3, <2>2, <2>3, <2>4, <2>6, <2>7
<1>. QED
  BY <1>2, <1>3

\* _usb_give_as_many_buffers_as_possible of an OUT endpoint.
LEMMA GiveAsManyOut ==
    ASSUME NEW e \in Driver, ~e.in,
           NEW p, NEW h \in HostState, Places(e, p), Toggles(e, h)
    PROVE  LET g == GiveAsMany(e)
           IN /\ Gave(e, g) /\ Places(g, p) /\ Toggles(g, h)
              /\ CanGive(e) \/ e.cur = NoBuffer => g.cur = NoBuffer
              /\ g.transfer.outstanding = e.transfer.outstanding
<1> DEFINE f == Turn(e)
           g == Turn(f)
<1>1. /\ Gave(e, f) /\ Places(f, p) /\ Toggles(f, h)
      /\ ~CanGive(e) => f = e
      /\ CanGive(e) => f.cur = NoBuffer
      /\ f.transfer.outstanding = e.transfer.outstanding
  BY TurnOut
<1>2. f \in Driver /\ ~f.in
  BY <1>1 DEF Gave, Alike
<1>3. GiveAsMany(e) = IF f.owned = e.owned THEN f ELSE g
  BY DEF GiveAsMany
<1> HIDE DEF f
<1>4. /\ Gave(f, g) /\ Places(g, p) /\ Toggles(g, h)
      /\ ~CanGive(f) => g = f
      /\ CanGive(f) => g.cur = NoBuffer
      /\ g.transfer.outstanding = f.transfer.outstanding
  BY <1>1, <1>2, TurnOut
<1> HIDE DEF g
<1>5. g \in Driver
  BY <1>4 DEF Gave
<1>6. Gave(e, g)
  BY <1>1, <1>2, <1>4, <1>5, GaveTransitive
<1>. QED
  BY <1>1, <1>3, <1>4, <1>6

\* What the controller has of a client's packets numbered up to put.
Sends(e, g) ==
    \/ g.put = e.put /\ Sent(g) = Sent(e)
    \/ g.put = e.put + 1 /\ Sent(g) = Append(Sent(e), e.put + 1)
    \/ g.put = e.put + 2 /\ Sent(g) = Append(Append(Sent(e), e.put + 1), e.put + 2)

SendsOne(e, g) ==
    \/ g.put = e.put /\ Sent(g) = Sent(e)
    \/ g.put = e.put + 1 /\ Sent(g) = Append(Sent(e), e.put + 1)

\* _usb_give_as_many_buffers_as_possible of an IN endpoint: it holds the first
\* packet of a transfer, or gives what it can.
LEMMA GiveAsManyIn ==
    ASSUME NEW e \in Driver, e.in, e.halt = "none", e.transfer.outstanding = 0,
           e.cur \in {NoBuffer, e.give}, 1 \notin e.transfer.holds,
           e.owned = 2 => e.transfer.done = 0, e.owned = 1 => e.transfer.done = 1,
           NEW p, NEW h \in HostState, Places(e, p), Toggles(e, h)
    PROVE  LET g == GiveAsMany(e)
           IN /\ g \in Driver /\ Places(g, p) /\ Toggles(g, h)
              /\ Alike(e, g) /\ GoesOn(e.transfer, g.transfer)
              /\ g.owned <= e.owned
              /\ e.transfer.toSubmit - g.transfer.toSubmit = e.owned - g.owned
              /\ g.cur \in {NoBuffer, g.give}
              /\ \/ /\ g.transfer.outstanding = 0
                    /\ g.transfer.toSubmit > 0 => g.owned = 0
                 \/ /\ g.transfer.outstanding = 1 /\ g.transfer.toSubmit > 0
                    /\ g.owned = 2 /\ g.transfer.done = 0 /\ g.cur = g.give
              /\ Sends(e, g) /\ g.put = e.put + (e.owned - g.owned)
<1>1. /\ e.transfer.toSubmit \in Nat /\ e.owned \in {0, 1, 2} /\ e.put \in Nat
      /\ e.transfer.toSubmit > 0 => e.transfer # NoTransfer
  BY TransferFields DEF NoTransfer
<1> DEFINE f == Turn(e)
           g == Turn(f)
<1>2. GiveAsMany(e) = IF f.owned = e.owned THEN f ELSE Turn(g)
  BY DEF GiveAsMany
<1>3. /\ f \in Driver /\ Places(f, p) /\ Toggles(f, h)
      /\ ~CanGive(e) => f = e
      /\ CanGive(e) => IF e.transfer.done \in e.transfer.holds
                       THEN TookUp(e, f) ELSE Filled(e, f)
  BY TurnIn
<1> HIDE DEF f
<1>4. CASE ~CanGive(e)
  <2>1. e.transfer.toSubmit > 0 => e.owned = 0
    BY <1>1, <1>4 DEF CanGive
  <2>2. GiveAsMany(e) = e
    BY <1>2, <1>3, <1>4
  <2>3. Alike(e, e) /\ GoesOn(e.transfer, e.transfer) /\ Sends(e, e)
    BY DEF Alike, GoesOn, Sends
  <2>. QED
    BY <1>1, <2>1, <2>2, <2>3
<1>5. CASE CanGive(e) /\ e.transfer.done \in e.transfer.holds
  <2>1. e.owned = 2 /\ e.transfer.toSubmit > 0
    BY <1>1, <1>5 DEF CanGive
  <2>2. TookUp(e, f)
    BY <1>3, <1>5
  <2>. QED
    BY <1>1, <1>2, <1>3, <2>1, <2>2 DEF TookUp, Sends
<1>6. CASE CanGive(e) /\ e.transfer.done \notin e.transfer.holds
  <2>1. Filled(e, f)
    BY <1>3, <1>6
  <2>2. e.owned > 0 /\ e.transfer.toSubmit > 0
    BY <1>6 DEF CanGive
  <2>3. /\ f.in /\ f.halt = "none" /\ f.transfer.outstanding = 0 /\ f.cur = NoBuffer
        /\ f.owned = e.owned - 1
        /\ f.owned = 1 => f.transfer.done \notin f.transfer.holds
        /\ f.transfer.toSubmit = e.transfer.toSubmit - 1
        /\ f.transfer.toSubmit > 0 => f.transfer # NoTransfer
    BY <1>1, <2>1, 0 + 1 = 1 DEF Filled, Alike, GoesOn, NoTransfer
  <2>4. /\ g \in Driver /\ Places(g, p) /\ Toggles(g, h)
        /\ ~CanGive(f) => g = f
        /\ CanGive(f) => IF f.transfer.done \in f.transfer.holds
                         THEN TookUp(f, g) ELSE Filled(f, g)
    BY <1>3, <2>3, TurnIn
  <2> HIDE DEF g
  <2>5. CASE ~CanGive(f)
    <3>1. g = f /\ Turn(g) = f
      BY <2>4, <2>5 DEF Turn
    <3>2. f.transfer.toSubmit > 0 => f.owned = 0
      BY <1>1, <2>2, <2>3, <2>5 DEF CanGive
    <3>. QED
      BY <1>1, <1>2, <1>3, <2>1, <2>2, <2>3, <3>1, <3>2 DEF Filled, Sends
  <2>6. CASE CanGive(f)
    <3>1. f.owned = 1
      BY <1>1, <2>2, <2>3, <2>6 DEF CanGive
    <3>2. Filled(f, g)
      BY <2>3, <2>4, <2>6, <3>1
    <3>3. g.owned = 0 /\ Turn(g) = g
      BY <3>1, <3>2 DEF Filled, Turn, CanGive
    <3>4. Alike(e, g) /\ GoesOn(e.transfer, g.transfer)
      BY <2>1, <3>2 DEF Filled, Alike, GoesOn
    <3>5. /\ g.put = e.put + 2
          /\ Sent(g) = Append(Append(Sent(e), e.put + 1), e.put + 2)
      BY <1>1, <2>1, <3>2 DEF Filled
    <3>6. GiveAsMany(e) = g
      BY <1>2, <2>3, <3>1, <3>3
    <3>7. /\ e.owned = 2 /\ g.cur = NoBuffer /\ g.transfer.outstanding = 0
          /\ g.transfer.toSubmit = e.transfer.toSubmit - 2
      BY <1>1, <2>3, <3>1, <3>2 DEF Filled
    <3>. QED
      BY <1>1, <2>4, <3>3, <3>4, <3>5, <3>6, <3>7 DEF Sends
  <2>. QED
    BY <2>5, <2>6
<1>. QED
  BY <1>4, <1>5, <1>6

-----------------------------------------------------------------------------
(***************************************************************************)
(* Transfers start and end.                                                *)
(***************************************************************************)

LEMMA NoTransferType == NoTransfer \in Transfer
BY DEF NoTransfer, Transfer

\* usb_reset_transfer and usb_grow_transfer
LEMMA NewTransferFields ==
    ASSUME NEW kind \in {"default", "stream"}, NEW size \in Nat \ {0},
           NEW holds \in SUBSET Nat
    PROVE  LET t == NewTransfer(kind, size, holds)
           IN /\ t \in Transfer /\ t.kind = kind /\ t.size = size /\ t.holds = holds
              /\ t.toSubmit = size /\ t.toHandle = size /\ t.done = 0
              /\ t.outstanding = 0 /\ ~t.queued
BY DEF NewTransfer, NoTransfer, Transfer

\* The packets on OUT that wait for the interrupt stay as they are.
Untouched(e, g) == \A b \in Buffer : ~g.buf[b].avail => g.buf[b] = e.buf[b]

\* From e to g the driver gives buffers, and hands nothing over.
GaveOnly(e, g) ==
    /\ g.in = e.in /\ g.configured = e.configured /\ g.received = e.received
    /\ g.asked = e.asked /\ g.halt = e.halt
    /\ IF e.in THEN Sends(e, g) ELSE Untouched(e, g)

\* usb_start_transfer, on an endpoint that has both its buffers.
LEMMA StartTransferSound ==
    ASSUME NEW e \in Driver, e.owned = 2, e.configured, e.halt = "none",
           e.in => e.cur \in {NoBuffer, e.give},
           NEW t, Fresh(e.in, t),
           NEW p, NEW h \in HostState, Places(e, p), Toggles(e, h)
    PROVE  LET g == StartTransfer(e, t)
           IN Sound(g, p, h) /\ GaveOnly(e, g) /\ ~g.transfer.queued
<1> DEFINE f == [e EXCEPT !.transfer = t, !.chain = NoTransfer]
           g == GiveAsMany(f)
<1>1. /\ f \in Driver /\ SameBuffers(e, f) /\ f.transfer = t /\ f.chain = NoTransfer
      /\ f.cur = e.cur /\ f.configured = e.configured /\ f.put = e.put
      /\ f.received = e.received /\ f.asked = e.asked /\ f.halt = e.halt
  BY NoTransferType DEF Fresh, Driver, SameBuffers
<1> HIDE DEF f
<1>2. f.owned = 2 /\ f.in = e.in /\ f.give = e.give /\ f.buf = e.buf
  BY <1>1 DEF SameBuffers
<1>3. Places(f, p) /\ Toggles(f, h) /\ Sent(f) = Sent(e)
  BY <1>1, SameBuffersKeep
<1>4. /\ t \in Transfer /\ t.kind # "none" /\ t.toSubmit > 0 /\ t.toHandle = t.toSubmit
      /\ t.done = 0 /\ t.outstanding = 0 /\ ~t.queued /\ t.toSubmit \in Nat
      /\ t # NoTransfer
  BY DEF Fresh, Transfer, NoTransfer
<1>5. StartTransfer(e, t) = g
  BY DEF StartTransfer, f
<1>6. CASE ~e.in
  <2>1. CanGive(f)
    BY <1>1, <1>2, <1>4 DEF CanGive
  <2>2. /\ Gave(f, g) /\ Places(g, p) /\ Toggles(g, h) /\ g.cur = NoBuffer
        /\ g.transfer.outstanding = f.transfer.outstanding
    BY <1>1, <1>2, <1>3, <1>6, <2>1, GiveAsManyOut
  <2> HIDE DEF g
  <2>3. /\ g \in Driver /\ g.in = e.in /\ g.configured = e.configured
        /\ g.chain = NoTransfer /\ g.halt = "none"
        /\ g.transfer.kind = t.kind /\ g.transfer.toHandle = t.toHandle
        /\ g.transfer.queued = t.queued /\ g.transfer.outstanding = 0
        /\ t.toSubmit - g.transfer.toSubmit = 2 - g.owned
    BY <1>1, <1>2, <1>4, <2>2 DEF Gave, Alike, GoesOn
  <2>4. g.transfer.toSubmit \in Nat /\ g.owned \in {0, 1, 2}
    BY <2>3, TransferFields
  <2>5. Kinds(g) /\ Work(g) /\ Accounts(g)
    BY <1>4, <1>6, <2>2, <2>3, <2>4 DEF Kinds, Work, Accounts
  <2>6. GaveOnly(e, g)
    BY <1>1, <1>2, <1>6, <2>2 DEF GaveOnly, Untouched, Gave, Alike
  <2>. QED
    BY <1>4, <1>5, <2>2, <2>3, <2>5, <2>6 DEF Sound
<1>7. CASE e.in
  <2>1. 1 \notin t.holds /\ t.kind = "stream"
    BY <1>7 DEF Fresh
  <2>2. /\ f.in /\ f.halt = "none" /\ f.transfer.outstanding = 0
        /\ f.cur \in {NoBuffer, f.give} /\ 1 \notin f.transfer.holds
        /\ f.owned = 2 => f.transfer.done = 0
        /\ f.owned = 1 => f.transfer.done = 1
    BY <1>1, <1>2, <1>4, <1>7, <2>1
  <2>3. /\ g \in Driver /\ Places(g, p) /\ Toggles(g, h)
        /\ Alike(f, g) /\ GoesOn(f.transfer, g.transfer)
        /\ f.transfer.toSubmit - g.transfer.toSubmit = f.owned - g.owned
        /\ g.cur \in {NoBuffer, g.give}
        /\ \/ /\ g.transfer.outstanding = 0
              /\ g.transfer.toSubmit > 0 => g.owned = 0
           \/ /\ g.transfer.outstanding = 1 /\ g.transfer.toSubmit > 0
              /\ g.owned = 2 /\ g.transfer.done = 0 /\ g.cur = g.give
        /\ Sends(f, g)
    BY <1>1, <1>3, <2>2, GiveAsManyIn
  <2> HIDE DEF g
  <2>4. /\ g.in /\ g.configured /\ g.chain = NoTransfer /\ g.halt = "none"
        /\ g.transfer.kind = t.kind /\ g.transfer.toHandle = t.toHandle
        /\ g.transfer.queued = t.queued /\ g.transfer.holds = t.holds
        /\ t.toSubmit - g.transfer.toSubmit = 2 - g.owned
    BY <1>1, <1>2, <1>7, <2>3 DEF Alike, GoesOn
  <2>5. g.transfer.toSubmit \in Nat /\ g.owned \in {0, 1, 2}
    BY <2>3, TransferFields
  <2>6. Kinds(g) /\ Work(g) /\ Accounts(g)
    BY <1>4, <2>1, <2>3, <2>4, <2>5 DEF Kinds, Work, Accounts
  <2>7. GaveOnly(e, g)
    BY <1>1, <1>3, <1>7, <2>3, <1>2 DEF GaveOnly, Sends, Alike
  <2>. QED
    BY <1>4, <1>5, <2>3, <2>4, <2>6, <2>7 DEF Sound
<1>. QED
  BY <1>6, <1>7

\* On IN nothing follows a transfer by itself.
Followed(e, g) ==
    /\ GaveOnly(e, g)
    /\ e.in => g.put = e.put /\ Sent(g) = Sent(e)

\* The answer of a command handler.
Chains(in, t) == t = NoTransfer \/ (~in /\ Fresh(FALSE, t))

\* The end of _usb_check_for_transfer_completion.
LEMMA CompleteSound ==
    ASSUME NEW e \in Driver, e.configured, e.halt = "none" => e.owned = 2,
           Chains(e.in, e.chain), e.in => e.cur \in {NoBuffer, e.give},
           NEW p, NEW h \in HostState, Places(e, p), Toggles(e, h)
    PROVE  LET g == Complete(e)
           IN Sound(g, p, h) /\ Followed(e, g) /\ ~g.transfer.queued
<1> DEFINE f == [e EXCEPT !.transfer = NoTransfer]
<1>1. /\ f \in Driver /\ SameBuffers(e, f) /\ f.transfer = NoTransfer
      /\ f.chain = e.chain /\ f.cur = e.cur /\ f.configured = e.configured
      /\ f.received = e.received /\ f.asked = e.asked /\ f.halt = e.halt
      /\ f.put = e.put
  BY NoTransferType DEF Driver, SameBuffers
<1>2. Complete(e) =
        IF e.halt = "none" /\ e.chain # NoTransfer THEN StartTransfer(f, e.chain) ELSE f
  BY DEF Complete
<1> HIDE DEF f
<1>3. f.owned = e.owned /\ f.in = e.in /\ f.give = e.give /\ f.buf = e.buf
  BY <1>1 DEF SameBuffers
<1>4. Places(f, p) /\ Toggles(f, h) /\ Sent(f) = Sent(e)
  BY <1>1, SameBuffersKeep
<1>5. Followed(e, f)
  BY <1>1, <1>3, <1>4 DEF Followed, GaveOnly, Sends, Untouched
<1>6. CASE e.halt = "none" /\ e.chain # NoTransfer
  <2> DEFINE g == StartTransfer(f, e.chain)
  <2>1. ~f.in /\ Fresh(f.in, e.chain)
    BY <1>3, <1>6 DEF Chains, Fresh
  <2>2. Sound(g, p, h) /\ GaveOnly(f, g) /\ ~g.transfer.queued
    BY <1>1, <1>3, <1>4, <1>6, <2>1, StartTransferSound
  <2> HIDE DEF g
  <2>3. Followed(e, g)
    BY <1>1, <1>3, <2>1, <2>2 DEF Followed, GaveOnly, Untouched
  <2>. QED
    BY <1>2, <1>6, <2>2, <2>3 DEF g
<1>7. CASE ~(e.halt = "none" /\ e.chain # NoTransfer)
  <2>1. f.transfer.queued = FALSE /\ f.transfer.outstanding = 0 /\ f.transfer.kind = "none"
        /\ f.transfer.toSubmit = 0 /\ f.transfer.toHandle = 0 /\ f.transfer.holds = {}
    BY <1>1 DEF NoTransfer
  <2>2. Kinds(f)
    BY <1>1, <1>3, <2>1 DEF Kinds, Chains
  <2>3. Work(f) /\ Accounts(f)
    BY <1>1, <1>3, <2>1 DEF Work, Accounts
  <2>. QED
    BY <1>1, <1>2, <1>4, <1>5, <1>7, <2>1, <2>2, <2>3 DEF Sound
<1>. QED
  BY <1>6, <1>7

-----------------------------------------------------------------------------
(***************************************************************************)
(* A buffer comes back.                                                    *)
(***************************************************************************)

\* _usb_stall_endpoint: what the halt leaves alone.
LEMMA StallFields ==
    ASSUME NEW e \in Driver, NEW level \in Halt \ {"none"}
    PROVE  LET g == Stall(e, level)
           IN /\ g \in Driver /\ SameBuffers(e, g) /\ g.halt # "none"
              /\ g.transfer = e.transfer /\ g.chain = e.chain /\ g.cur = e.cur
              /\ g.take = e.take /\ g.configured = e.configured /\ g.put = e.put
              /\ g.received = e.received /\ g.asked = e.asked
<1> DEFINE l == IF e.halt = "on_condition" THEN e.halt ELSE level
<1>1. l \in Halt /\ l # "none" /\ (e.halt = "on_condition" => l = "on_condition")
  BY DEF Halt
<1>2. Stall(e, level) = [e EXCEPT !.halt = l]
  BY DEF Stall, Driver
<1> HIDE DEF l
<1>. QED
  BY <1>1, <1>2 DEF Driver, SameBuffers

LEMMA StallSound ==
    ASSUME NEW e, NEW p, NEW h, Sound(e, p, h), NEW level \in Halt \ {"none"}
    PROVE  LET g == Stall(e, level)
           IN /\ Sound(g, p, h) /\ g.halt # "none" /\ g.in = e.in /\ g.put = e.put
              /\ g.transfer = e.transfer /\ g.take = e.take
              /\ g.configured = e.configured /\ g.buf = e.buf /\ g.sel = e.sel
              /\ g.received = e.received /\ g.asked = e.asked
<1> DEFINE g == Stall(e, level)
<1>1. /\ g \in Driver /\ SameBuffers(e, g) /\ g.halt # "none"
      /\ g.transfer = e.transfer /\ g.chain = e.chain /\ g.cur = e.cur
      /\ g.take = e.take /\ g.configured = e.configured /\ g.put = e.put
      /\ g.received = e.received /\ g.asked = e.asked
  BY StallFields DEF Sound
<1> HIDE DEF g
<1>2. Places(g, p) /\ Toggles(g, h)
  BY <1>1, SameBuffersKeep DEF Sound
<1>3. Kinds(g)
  BY <1>1 DEF Sound, Kinds, SameBuffers
<1>4. Work(g) /\ Accounts(g)
  BY <1>1 DEF Sound, Work, Accounts, SameBuffers
<1>. QED
  BY <1>1, <1>2, <1>3, <1>4 DEF Sound, g, SameBuffers

\* The driver has a buffer again, the one that the controller was given first.
LEMMA TakeBack ==
    ASSUME NEW e \in Driver, NEW p, p # <<>>,
           NEW h \in HostState, Places(e, p), Toggles(e, h)
    PROVE  LET f == [e EXCEPT !.owned = @ + 1]
           IN /\ f \in Driver /\ Alike(e, f) /\ f.transfer = e.transfer
              /\ f.give = e.give /\ f.buf = e.buf /\ f.cur = e.cur /\ f.put = e.put
              /\ f.owned = e.owned + 1 /\ e.owned \in {0, 1}
              /\ Head(p) = (IF e.owned = 1 THEN 1 - e.give ELSE e.give)
              /\ Head(p) \in Buffer /\ Sent(f) = Sent(e)
              /\ Places(f, Tail(p)) /\ Toggles(f, h)
<1>1. e.owned \in {0, 1} /\ ~e.first
  BY TransferFields DEF Places
<1> DEFINE f == [e EXCEPT !.owned = @ + 1]
<1>2. /\ f \in Driver /\ Alike(e, f) /\ f.transfer = e.transfer
      /\ f.give = e.give /\ f.buf = e.buf /\ f.cur = e.cur /\ f.put = e.put
      /\ f.owned = e.owned + 1 /\ f.sel = e.sel /\ f.pid = e.pid /\ f.first = e.first
  <2>1. e.owned + 1 \in 0..2
    BY <1>1
  <2>. QED
    BY <2>1 DEF Driver, Alike
<1> HIDE DEF f
<1>3. /\ Head(p) = (IF e.owned = 1 THEN 1 - e.give ELSE e.give)
      /\ Places(f, Tail(p))
  <2>1. e.give \in {0, 1} /\ 1 - (1 - e.give) = e.give
    BY TransferFields
  <2>2. CASE e.owned = 1
    <3>1. p = <<1 - e.give>> /\ ~e.buf[e.give].avail /\ ~e.buf[1 - e.give].avail
      BY <2>2 DEF Places
    <3>2. Head(p) = 1 - e.give /\ Tail(p) = <<>>
      BY <3>1
    <3>. QED
      BY <1>1, <1>2, <2>1, <2>2, <3>1, <3>2 DEF Places
  <2>3. CASE e.owned = 0
    <3>1. /\ ~e.buf[e.give].avail
          /\ p = IF e.buf[1 - e.give].avail THEN <<e.give>> ELSE <<e.give, 1 - e.give>>
      BY <2>3 DEF Places
    <3>2. /\ Head(p) = e.give
          /\ Tail(p) = IF e.buf[1 - e.give].avail THEN <<>> ELSE <<1 - e.give>>
      BY <3>1
    <3>. QED
      BY <1>1, <1>2, <2>3, <3>1, <3>2 DEF Places
  <2>. QED
    BY <1>1, <2>2, <2>3
<1>4. Toggles(f, h) /\ Sent(f) = Sent(e)
  BY <1>2 DEF Toggles, Sent, Alike
<1>5. Head(p) \in Buffer
  BY <1>1, <1>3, TransferFields DEF Buffer
<1>. QED
  BY <1>1, <1>2, <1>3, <1>4, <1>5 DEF f

\* The count of what is to be handled, in a transfer that is not halted.
LEMMA HandledOne ==
    ASSUME NEW e \in Driver, e.configured, e.halt = "none", e.transfer.kind # "none",
           NEW p, NEW h \in HostState, Places(e, p), Toggles(e, h),
           Kinds(e), Work(e), ~e.transfer.queued,
           e.transfer.toHandle = e.transfer.toSubmit + (2 - e.owned) + 1
    PROVE  LET g == CheckCompletion([e EXCEPT !.transfer.toHandle = @ - 1])
           IN Sound(g, p, h) /\ Followed(e, g) /\ ~g.transfer.queued
<1>1. /\ e.transfer \in Transfer /\ e.transfer.toSubmit \in Nat /\ e.owned \in {0, 1, 2}
      /\ e.transfer.outstanding \in Nat
  BY TransferFields
<1> DEFINE u == [e.transfer EXCEPT !.toHandle = @ - 1]
           f == [e EXCEPT !.transfer = u]
<1>2. e.transfer.toHandle - 1 \in Nat
  BY <1>1
<1>3. /\ u \in Transfer /\ u.kind = e.transfer.kind /\ u.holds = e.transfer.holds
      /\ u.toHandle = e.transfer.toHandle - 1 /\ u.toSubmit = e.transfer.toSubmit
      /\ u.done = e.transfer.done /\ u.outstanding = e.transfer.outstanding
      /\ u.queued = e.transfer.queued
  BY <1>1, <1>2 DEF Transfer
<1>4. [e EXCEPT !.transfer.toHandle = @ - 1] = f
  BY DEF Driver
<1> HIDE DEF u
<1>5. /\ f \in Driver /\ SameBuffers(e, f) /\ f.transfer = u
      /\ f.chain = e.chain /\ f.cur = e.cur /\ f.configured = e.configured
      /\ f.received = e.received /\ f.asked = e.asked /\ f.halt = e.halt
      /\ f.put = e.put /\ f.take = e.take
  BY <1>3 DEF Driver, SameBuffers
<1> HIDE DEF f
<1>6. f.owned = e.owned /\ f.in = e.in /\ f.give = e.give /\ f.buf = e.buf
  BY <1>5 DEF SameBuffers
<1>7. Places(f, p) /\ Toggles(f, h) /\ Sent(f) = Sent(e)
  BY <1>5, SameBuffersKeep
<1>8. CASE Completes(f)
  <2> DEFINE g == Complete(f)
  <2>1. u.toHandle = 0 /\ f.owned = 2
    BY <1>1, <1>3, <1>5, <1>6, <1>8 DEF Completes
  <2>2. Chains(f.in, f.chain) /\ (f.in => f.cur \in {NoBuffer, f.give})
    BY <1>5, <1>6 DEF Kinds, Work, Chains
  <2>3. Sound(g, p, h) /\ Followed(f, g) /\ ~g.transfer.queued
    BY <1>5, <1>7, <2>1, <2>2, CompleteSound
  <2> HIDE DEF g
  <2>4. Followed(e, g)
    BY <1>5, <1>6, <1>7, <2>3 DEF Followed, GaveOnly, Sends, Untouched
  <2>5. CheckCompletion(f) = g
    BY <1>8 DEF CheckCompletion, g
  <2>. QED
    BY <1>4, <2>3, <2>4, <2>5
<1>9. CASE ~Completes(f)
  <2>1. CheckCompletion(f) = f
    BY <1>9 DEF CheckCompletion
  <2>2. Kinds(f)
    BY <1>3, <1>5, <1>6 DEF Kinds
  <2>3. Work(f)
    BY <1>3, <1>5, <1>6 DEF Work
  <2>4. Accounts(f)
    BY <1>1, <1>3, <1>5, <1>6 DEF Accounts
  <2>5. Followed(e, f)
    BY <1>5, <1>6, <1>7 DEF Followed, GaveOnly, Sends, Untouched
  <2>. QED
    BY <1>3, <1>4, <1>5, <1>7, <2>1, <2>2, <2>3, <2>4, <2>5 DEF Sound
<1>. QED
  BY <1>8, <1>9

\* Under a halt the transfer ends, whatever is left to be handled.
LEMMA HaltedEnds ==
    ASSUME NEW e \in Driver, e.halt # "none", NEW n
    PROVE  /\ CheckCompletion(e) = Complete(e)
           /\ CheckCompletion([e EXCEPT !.transfer.toHandle = n]) = Complete(e)
           /\ Complete(e).transfer = NoTransfer
<1> DEFINE f == [e EXCEPT !.transfer.toHandle = n]
<1>1. f.halt = e.halt /\ [f EXCEPT !.transfer = NoTransfer] = [e EXCEPT !.transfer = NoTransfer]
  BY DEF Driver
<1>2. Complete(f) = [f EXCEPT !.transfer = NoTransfer]
  BY <1>1 DEF Complete
<1>3. Complete(e) = [e EXCEPT !.transfer = NoTransfer]
  BY DEF Complete
<1>4. CheckCompletion(f) = Complete(f) /\ CheckCompletion(e) = Complete(e)
  BY <1>1 DEF CheckCompletion, Completes
<1>5. Complete(e).transfer = NoTransfer
  BY <1>3 DEF Driver
<1> HIDE DEF f
<1>6. CheckCompletion(f) = Complete(e)
  BY <1>1, <1>2, <1>3, <1>4
<1>. QED
  BY <1>4, <1>5, <1>6 DEF f

\* The reaction of a handler: an OUT endpoint gets a stream to follow, or halts.
LEMMA ReactFields ==
    ASSUME NEW e \in Driver, Kinds(e), NEW answer, Chains(FALSE, answer.chain),
           answer.halt \in Halt
    PROVE  LET g == React(e, answer)
           IN /\ g \in Driver /\ SameBuffers(e, g) /\ g.transfer = e.transfer
              /\ g.cur = e.cur /\ g.take = e.take /\ g.configured = e.configured
              /\ g.put = e.put /\ g.received = e.received
              /\ g.halt = e.halt \/ g.halt # "none"
              /\ g.asked \in {e.asked, e.asked + answer.chain.size}
              /\ Chains(g.in, g.chain)
<1>1. CASE e.transfer.kind # "default"
  BY <1>1 DEF React, SameBuffers, Kinds, Chains
<1>2. CASE e.transfer.kind = "default"
  <2> DEFINE f == [e EXCEPT !.chain = answer.chain, !.asked = @ + answer.chain.size]
  <2>1. answer.chain \in Transfer /\ answer.chain.size \in Nat /\ ~e.in
    BY <1>2, NoTransferType DEF Chains, Fresh, Transfer, Kinds
  <2>2. e.asked + answer.chain.size \in Nat
    BY <2>1, TransferFields
  <2>3. /\ f \in Driver /\ SameBuffers(e, f) /\ f.transfer = e.transfer
        /\ f.cur = e.cur /\ f.take = e.take /\ f.configured = e.configured
        /\ f.put = e.put /\ f.received = e.received /\ f.halt = e.halt
        /\ f.asked = e.asked + answer.chain.size /\ f.chain = answer.chain
    BY <2>1, <2>2 DEF Driver, SameBuffers
  <2>4. Chains(f.in, f.chain)
    BY <2>1, <2>3 DEF Chains, SameBuffers
  <2>5. React(e, answer) = IF answer.halt = "none" THEN f ELSE Stall(f, answer.halt)
    BY <1>2 DEF React
  <2> HIDE DEF f
  <2>6. CASE answer.halt = "none"
    BY <2>3, <2>4, <2>5, <2>6
  <2>7. CASE answer.halt # "none"
    <3> DEFINE g == Stall(f, answer.halt)
    <3>1. /\ g \in Driver /\ SameBuffers(f, g) /\ g.halt # "none"
          /\ g.transfer = f.transfer /\ g.chain = f.chain /\ g.cur = f.cur
          /\ g.take = f.take /\ g.configured = f.configured /\ g.put = f.put
          /\ g.received = f.received /\ g.asked = f.asked
      BY <2>3, <2>7, StallFields
    <3> HIDE DEF g
    <3>2. SameBuffers(e, g) /\ g.in = f.in
      BY <2>3, <3>1 DEF SameBuffers
    <3>. QED
      BY <2>3, <2>4, <2>5, <2>7, <3>1, <3>2 DEF g
  <2>. QED
    BY <2>6, <2>7
<1>. QED
  BY <1>1, <1>2

\* A buffer of the transfer under way is back, and waits for its handler.
Taking(e, p, h) ==
    /\ e \in Driver /\ Places(e, p) /\ Toggles(e, h) /\ Kinds(e)
    /\ e.configured /\ e.transfer.kind # "none"
    /\ e.transfer.outstanding = 0 /\ ~e.transfer.queued
    /\ IF e.in
       THEN /\ e.cur \in {NoBuffer, e.give} /\ e.transfer.toSubmit > 0
            /\ e.owned = 1 /\ e.take = e.give
       ELSE e.cur = NoBuffer /\ e.owned >= 1 /\ (e.owned = 1 => e.take = e.give)
    /\ e.halt = "none" =>
          e.transfer.toHandle = e.transfer.toSubmit + (2 - e.owned) + 1

\* From e to g the packet is taken; on IN another is given instead.
Took(e, g) ==
    /\ g.in = e.in /\ g.configured = e.configured
    /\ e.halt # "none" => g.halt # "none"
    /\ ~g.transfer.queued
    /\ IF e.in THEN SendsOne(e, g)
       ELSE Untouched(e, g) /\ g.received = Append(e.received, e.buf[e.take].packet)

\* The handler has the packet.
Handed(e, f) ==
    /\ f \in Driver /\ SameBuffers(e, f) /\ GoesOn(e.transfer, f.transfer)
    /\ f.transfer.toSubmit = e.transfer.toSubmit
    /\ f.transfer.done = e.transfer.done /\ f.transfer.outstanding = 1
    /\ f.cur = e.take /\ f.configured = e.configured /\ f.take = e.take
    /\ f.put = e.put
    /\ f.received = IF e.in THEN e.received
                    ELSE Append(e.received, e.buf[e.take].packet)
    /\ Chains(f.in, f.chain)
    /\ f.halt = e.halt \/ f.halt # "none"

\* Whatever the driver gives next, the packet is taken.
LEMMA HandedTook ==
    ASSUME NEW e \in Driver, NEW f, Handed(e, f), NEW g, ~g.transfer.queued,
           g.in = f.in /\ g.configured = f.configured /\ g.received = f.received,
           g.halt = f.halt,
           IF f.in THEN SendsOne(f, g) ELSE Untouched(f, g)
    PROVE  Took(e, g)
<1>1. f.in = e.in /\ Sent(f) = Sent(e) /\ f.buf = e.buf
  BY SameBuffersKeep DEF Handed, SameBuffers
<1>. QED
  BY <1>1 DEF Handed, Took, SendsOne, Untouched

\* Handled under a halt: the transfer is over.
LEMMA HandedHalted ==
    ASSUME NEW e, NEW p, NEW h \in HostState, Taking(e, p, h),
           NEW f, Handed(e, f), f.halt # "none", NEW x \in Driver, SameBuffers(f, x),
           x.configured = f.configured, x.cur = f.cur, x.chain = f.chain,
           x.put = f.put, x.received = f.received, x.halt = f.halt,
           x.asked = f.asked
    PROVE  /\ Sound(Complete(x), p, h) /\ Took(e, Complete(x))
           /\ Complete(x).asked = f.asked
<1> DEFINE g == Complete(x)
<1>1. e \in Driver /\ f \in Driver /\ Places(x, p) /\ Toggles(x, h) /\ Sent(x) = Sent(f)
  BY SameBuffersKeep DEF Taking, Handed
<1>2. /\ x.configured /\ x.halt # "none" /\ Chains(x.in, x.chain)
      /\ x.in => x.cur \in {NoBuffer, x.give}
      /\ x.in = f.in /\ x.buf = f.buf
  BY DEF Taking, Handed, SameBuffers
<1>3. Sound(g, p, h) /\ Followed(x, g) /\ ~g.transfer.queued
  BY <1>1, <1>2, CompleteSound
<1> HIDE DEF g
<1>4. IF f.in THEN SendsOne(f, g) ELSE Untouched(f, g)
  BY <1>1, <1>2, <1>3 DEF Followed, GaveOnly, SendsOne, Untouched
<1>5. Took(e, g)
  BY <1>1, <1>2, <1>3, <1>4, HandedTook DEF Followed, GaveOnly
<1>. QED
  BY <1>3, <1>5 DEF g, Followed, GaveOnly

\* Handled, and held by the client.
LEMMA HandedHeld ==
    ASSUME NEW e, NEW p, NEW h \in HostState, Taking(e, p, h),
           NEW f, Handed(e, f), f.halt = "none"
    PROVE  LET g == CheckCompletion([f EXCEPT !.transfer.toHandle = @ - 1])
           IN Sound(g, p, h) /\ Took(e, g) /\ g.asked = f.asked
<1> DEFINE g == CheckCompletion([f EXCEPT !.transfer.toHandle = @ - 1])
<1>1. e \in Driver /\ f \in Driver /\ Places(f, p) /\ Toggles(f, h)
  BY SameBuffersKeep DEF Taking, Handed
<1>2. /\ f.in = e.in /\ f.owned = e.owned /\ f.give = e.give /\ f.buf = e.buf
      /\ e.halt = "none" /\ f.transfer.kind = e.transfer.kind
      /\ f.transfer.holds = e.transfer.holds /\ f.transfer.queued = e.transfer.queued
      /\ f.transfer.toHandle = e.transfer.toHandle
  BY DEF Handed, SameBuffers, GoesOn
<1>3. Kinds(f)
  BY <1>2 DEF Taking, Handed, Kinds, Chains
<1>4. Work(f)
  BY <1>2 DEF Taking, Handed, Work
<1>5. Sound(g, p, h) /\ Followed(f, g) /\ ~g.transfer.queued
  BY <1>1, <1>2, <1>3, <1>4, HandledOne DEF Taking, Handed
<1> HIDE DEF g
<1>6. Took(e, g)
  BY <1>1, <1>5, HandedTook DEF Followed, GaveOnly, SendsOne
<1>. QED
  BY <1>5, <1>6 DEF g, Followed, GaveOnly

\* Handled, and done with: the driver gives what it can.
LEMMA HandedDone ==
    ASSUME NEW e, NEW p, NEW h \in HostState, Taking(e, p, h),
           NEW f, Handed(e, f), f.halt = "none"
    PROVE  LET o == PacketDone(f)
               g == CheckCompletion([o EXCEPT !.transfer.toHandle = @ - 1])
           IN /\ o.transfer # NoTransfer
              /\ Sound(g, p, h) /\ Took(e, g) /\ g.asked = f.asked
<1> DEFINE x == PacketOver(f)
           l == Release(x)
           o == PacketDone(f)
           g == CheckCompletion([o EXCEPT !.transfer.toHandle = @ - 1])
<1>1. e \in Driver /\ f \in Driver /\ Places(f, p) /\ Toggles(f, h)
  BY SameBuffersKeep DEF Taking, Handed
<1>2. /\ f.in = e.in /\ f.owned = e.owned /\ f.give = e.give /\ f.buf = e.buf
      /\ e.halt = "none" /\ f.transfer.kind = e.transfer.kind
      /\ f.transfer.holds = e.transfer.holds /\ f.transfer.queued = e.transfer.queued
      /\ f.transfer.toHandle = e.transfer.toHandle
      /\ f.transfer.toSubmit = e.transfer.toSubmit
  BY DEF Handed, SameBuffers, GoesOn
<1>3. Kinds(f)
  BY <1>2 DEF Taking, Handed, Kinds, Chains
<1>4. /\ f.transfer.kind # "none" /\ f.configured /\ ~f.transfer.queued
      /\ f.transfer.toSubmit \in Nat /\ f.owned \in {0, 1, 2}
      /\ f.transfer.toHandle = f.transfer.toSubmit + (2 - f.owned) + 1
      /\ f.transfer.outstanding = 1
  BY <1>1, <1>2, TransferFields DEF Taking, Handed
<1>5. /\ x \in Driver /\ SameBuffers(f, x) /\ Alike(f, x) /\ GoesOn(f.transfer, x.transfer)
      /\ x.transfer.toSubmit = f.transfer.toSubmit
      /\ x.transfer.outstanding = 0 /\ x.cur = f.cur /\ x.put = f.put
  BY <1>1, <1>4, PacketOverFields, 1 - 1 = 0
<1>6. ~Completes(x)
  BY <1>2, <1>4, <1>5 DEF Completes, Alike, GoesOn
<1>7. o = GiveAsMany(l)
  BY <1>6 DEF PacketDone
<1> HIDE DEF o
<1>8. /\ o \in Driver /\ Places(o, p) /\ Toggles(o, h) /\ Alike(f, o)
      /\ GoesOn(f.transfer, o.transfer) /\ Work(o)
      /\ f.transfer.toSubmit - o.transfer.toSubmit = f.owned - o.owned
      /\ IF f.in THEN SendsOne(f, o) ELSE Untouched(f, o)
  <2>1. CASE e.in
    <3>1. /\ f.cur = f.give /\ f.owned = 1 /\ f.transfer.toSubmit > 0 /\ f.in
      BY <1>2, <2>1 DEF Taking, Handed
    <3>2. Filled(f, l) /\ Places(l, p) /\ Toggles(l, h)
      BY <1>1, <1>4, <3>1, ReleaseIn
    <3> HIDE DEF l
    <3>3. l.owned = 0
      BY <3>1, <3>2 DEF Filled
    <3>4. o = l
      <4>1. ~CanGive(l)
        BY <3>3 DEF CanGive
      <4>2. Turn(l) = l
        BY <4>1 DEF Turn
      <4>. QED
        BY <1>7, <4>2 DEF GiveAsMany
    <3>5. Work(l)
      BY <1>2, <2>1, <1>4, <3>2, <3>3 DEF Filled, Alike, GoesOn, Work
    <3>. QED
      BY <1>2, <1>4, <3>1, <3>2, <3>4, <3>5 DEF Filled, SendsOne
  <2>2. CASE ~e.in
    <3>1. l = [x EXCEPT !.cur = NoBuffer] /\ ~x.in
      BY <1>2, <1>5, <2>2 DEF Release, Alike
    <3> HIDE DEF x
    <3>2. /\ l \in Driver /\ SameBuffers(x, l) /\ Alike(x, l) /\ l.transfer = x.transfer
          /\ l.cur = NoBuffer
      BY <1>5, <3>1 DEF Driver, SameBuffers, Alike
    <3> HIDE DEF l
    <3>3. ~l.in /\ Places(l, p) /\ Toggles(l, h) /\ l.buf = f.buf /\ l.owned = f.owned
      <4>1. Places(l, p) /\ Toggles(l, h)
        BY <1>1, <1>5, <3>2, SameBuffersKeep
      <4>2. ~l.in /\ l.buf = x.buf /\ l.owned = x.owned
        BY <3>1, <3>2 DEF SameBuffers
      <4>. QED
        BY <1>5, <4>1, <4>2 DEF SameBuffers
    <3>4. /\ Gave(l, o) /\ Places(o, p) /\ Toggles(o, h) /\ o.cur = NoBuffer
          /\ o.transfer.outstanding = l.transfer.outstanding
      BY <1>7, <3>2, <3>3, GiveAsManyOut
    <3>5. Alike(f, o) /\ GoesOn(f.transfer, o.transfer)
      BY <1>5, <3>2, <3>4 DEF Gave, Alike, GoesOn
    <3>6. Work(o)
      BY <1>2, <1>4, <1>5, <2>2, <3>2, <3>4, <3>5 DEF Work, Alike, GoesOn
    <3>. QED
      BY <1>2, <1>5, <2>2, <3>2, <3>3, <3>4, <3>5, <3>6 DEF Gave, Untouched
  <2>. QED
    BY <2>1, <2>2
<1> HIDE DEF x, l
<1>9. o.transfer.kind # "none" /\ o.transfer # NoTransfer
  BY <1>4, <1>8 DEF GoesOn, NoTransfer
<1>10. Kinds(o)
  BY <1>3, <1>4, <1>8, <1>9 DEF Kinds, Alike, GoesOn
<1>11. o.transfer.toHandle = o.transfer.toSubmit + (2 - o.owned) + 1
  <2>1. /\ o.transfer.toSubmit \in Nat /\ o.owned \in {0, 1, 2}
        /\ o.transfer.toHandle = f.transfer.toHandle
    BY <1>8, TransferFields DEF GoesOn
  <2>. QED
    BY <1>4, <1>8, <2>1
<1>12. o.halt = "none" /\ o.configured /\ ~o.transfer.queued
  BY <1>4, <1>8 DEF Alike, GoesOn
<1>13. Sound(g, p, h) /\ Followed(o, g) /\ ~g.transfer.queued
  BY <1>8, <1>9, <1>10, <1>11, <1>12, HandledOne
<1> HIDE DEF g
<1>14. Took(e, g)
  <2>1. Took(e, o)
    BY <1>1, <1>8, <1>12, HandedTook DEF Alike
  <2>2. CASE ~e.in
    BY <1>2, <1>12, <1>13, <2>1, <2>2 DEF Took, Followed, GaveOnly, Untouched
  <2>3. CASE e.in
    BY <1>12, <1>13, <2>1, <2>3 DEF Took, Followed, GaveOnly, SendsOne
  <2>. QED
    BY <2>2, <2>3
<1>. QED
  BY <1>8, <1>9, <1>13, <1>14 DEF g, o, Followed, GaveOnly, Alike

\* An answer of a handler: a stream to follow, or a halt.
Answers(answer) == Chains(FALSE, answer.chain) /\ answer.halt \in Halt

\* _usb_handle_transfer with the packet handler.
LEMMA OnPacketSound ==
    ASSUME NEW e, NEW p, NEW h \in HostState, Taking(e, p, h),
           NEW answer, Answers(answer)
    PROVE  LET o == OnPacket(e, answer)
               g == IF o.transfer = NoTransfer THEN o
                    ELSE CheckCompletion([o EXCEPT !.transfer.toHandle = @ - 1])
           IN /\ Sound(g, p, h) /\ Took(e, g)
              /\ g.asked \in {e.asked, e.asked + answer.chain.size}
<1> DEFINE f == CallOnPacket(e)
           r == React(f, answer)
           o == OnPacket(e, answer)
           g == IF o.transfer = NoTransfer THEN o
                ELSE CheckCompletion([o EXCEPT !.transfer.toHandle = @ - 1])
<1>1. e \in Driver /\ Kinds(e) /\ e.transfer.kind # "none"
      /\ e.transfer.outstanding = 0
  BY DEF Taking
<1>2. e.take = IF e.cur # NoBuffer THEN e.cur ELSE IF e.in THEN e.give ELSE e.take
  BY DEF Taking
<1>3. /\ f \in Driver /\ SameBuffers(e, f) /\ GoesOn(e.transfer, f.transfer)
      /\ f.transfer.toSubmit = e.transfer.toSubmit
      /\ f.transfer.done = e.transfer.done /\ f.transfer.outstanding = 1
      /\ f.cur = e.take /\ f.configured = e.configured /\ f.take = e.take
      /\ f.halt = e.halt /\ f.chain = e.chain /\ f.put = e.put /\ f.asked = e.asked
      /\ f.received = IF e.in THEN e.received
                      ELSE Append(e.received, e.buf[e.take].packet)
  BY <1>1, <1>2, CallOnPacketFields, 0 + 1 = 1
<1> HIDE DEF f
<1>4. Chains(f.in, f.chain) /\ f.in = e.in /\ f.transfer.kind # "none"
  BY <1>1, <1>3 DEF Kinds, Chains, SameBuffers, GoesOn
<1>5. Handed(e, f)
  BY <1>3, <1>4 DEF Handed
<1>6. o = IF Held(f) THEN f ELSE PacketDone(r)
  BY DEF OnPacket, f
<1> HIDE DEF o
<1>7. CASE Held(f) /\ f.halt = "none"
  <2>1. g = CheckCompletion([f EXCEPT !.transfer.toHandle = @ - 1])
    BY <1>4, <1>6, <1>7 DEF NoTransfer
  <2> HIDE DEF g
  <2>2. Sound(g, p, h) /\ Took(e, g) /\ g.asked = f.asked
    BY <1>5, <1>7, <2>1, HandedHeld
  <2>. QED
    BY <1>3, <2>2 DEF g, o, f
<1>8. CASE Held(f) /\ f.halt # "none"
  <2>1. g = Complete(f)
    BY <1>3, <1>4, <1>6, <1>8, HaltedEnds DEF NoTransfer
  <2> HIDE DEF g
  <2>2. SameBuffers(f, f)
    BY DEF SameBuffers
  <2>3. Sound(g, p, h) /\ Took(e, g) /\ g.asked = f.asked
    BY <1>3, <1>5, <1>8, <2>1, <2>2, HandedHalted
  <2>. QED
    BY <1>3, <2>3 DEF g, o, f
<1>9. CASE ~Held(f)
  <2>1. Kinds(f)
    BY <1>1, <1>3, <1>4 DEF Kinds, Chains, SameBuffers, GoesOn, Taking
  <2>2. /\ r \in Driver /\ SameBuffers(f, r) /\ r.transfer = f.transfer
        /\ r.cur = f.cur /\ r.take = f.take /\ r.configured = f.configured
        /\ r.put = f.put /\ r.received = f.received
        /\ r.halt = f.halt \/ r.halt # "none"
        /\ r.asked \in {f.asked, f.asked + answer.chain.size}
        /\ Chains(r.in, r.chain)
    BY <1>3, <2>1, ReactFields DEF Answers
  <2> HIDE DEF r
  <2>3. Handed(e, r)
    BY <1>3, <2>2 DEF Handed, SameBuffers
  <2>4. CASE r.halt = "none"
    <3>1. /\ o.transfer # NoTransfer
          /\ Sound(CheckCompletion([o EXCEPT !.transfer.toHandle = @ - 1]), p, h)
          /\ Took(e, CheckCompletion([o EXCEPT !.transfer.toHandle = @ - 1]))
          /\ CheckCompletion([o EXCEPT !.transfer.toHandle = @ - 1]).asked = r.asked
      BY <1>6, <1>9, <2>3, <2>4, HandedDone
    <3>. QED
      BY <1>3, <2>2, <3>1 DEF o, f
  <2>5. CASE r.halt # "none"
    <3> DEFINE x == PacketOver(r)
    <3>1. /\ x \in Driver /\ SameBuffers(r, x) /\ Alike(r, x)
          /\ x.cur = r.cur /\ x.put = r.put
      BY <1>3, <2>2, PacketOverFields
    <3>2. o = Complete(x)
      BY <1>6, <1>9, <2>5, <3>1 DEF PacketDone, Completes, Alike
    <3> HIDE DEF x
    <3>3. x.halt # "none"
      BY <2>5, <3>1 DEF Alike
    <3>4. o.transfer = NoTransfer
      BY <3>1, <3>2, <3>3, HaltedEnds
    <3>5. Sound(o, p, h) /\ Took(e, o) /\ o.asked = r.asked
      BY <2>3, <2>5, <3>1, <3>2, HandedHalted DEF Alike
    <3>. QED
      BY <1>3, <2>2, <3>4, <3>5 DEF o, f
  <2>. QED
    BY <2>4, <2>5
<1>. QED
  BY <1>7, <1>8, <1>9

\* From e to g buffer b is handled: its packet is taken, waits behind another, or
\* is dropped under a halt.
Handles(e, b, g) ==
    /\ g.in = e.in /\ g.configured = e.configured
    /\ e.halt # "none" => g.halt # "none"
    /\ ~e.transfer.queued
    /\ e.transfer.outstanding = 0 => ~g.transfer.queued
    /\ IF e.in THEN SendsOne(e, g)
       ELSE /\ Untouched(e, g)
            /\ \/ g.halt # "none" /\ ~g.transfer.queued /\ g.received = e.received
               \/ g.transfer.queued /\ 1 - g.take = b /\ g.received = e.received
               \/ ~g.transfer.queued /\ g.received = Append(e.received, e.buf[b].packet)

\* From e to s the buffer b is taken back, with the packet in it.
Taken(e, s, b) ==
    /\ s.in = e.in /\ s.configured = e.configured /\ s.halt = e.halt
    /\ s.received = e.received /\ s.put = e.put /\ s.buf = e.buf
    /\ s.take = b /\ Sent(s) = Sent(e)

LEMMA TakenIsHandled ==
    ASSUME NEW e, NEW s, NEW b, NEW g, Taken(e, s, b),
           ~e.transfer.queued, ~g.transfer.queued,
           Took(s, g) \/ (e.in /\ Followed(s, g))
    PROVE  Handles(e, b, g)
<1>1. /\ g.in = e.in /\ g.configured = e.configured
      /\ e.halt # "none" => g.halt # "none"
  BY DEF Taken, Took, Followed, GaveOnly
<1>2. CASE Took(s, g) /\ ~e.in
  <2>1. Untouched(s, g) /\ g.received = Append(e.received, e.buf[b].packet)
    BY <1>2 DEF Taken, Took
  <2>2. Untouched(e, g)
    BY <2>1 DEF Taken, Untouched
  <2>. QED
    BY <1>1, <1>2, <2>1, <2>2 DEF Handles
<1>3. CASE Took(s, g) /\ e.in
  <2>1. SendsOne(s, g)
    BY <1>3 DEF Taken, Took
  <2>2. SendsOne(e, g)
    BY <2>1 DEF Taken, SendsOne
  <2>. QED
    BY <1>1, <1>3, <2>2 DEF Handles
<1>4. CASE e.in /\ Followed(s, g)
  <2>1. g.put = e.put /\ Sent(g) = Sent(e)
    BY <1>4 DEF Taken, Followed
  <2>2. SendsOne(e, g)
    BY <2>1 DEF SendsOne
  <2>. QED
    BY <1>1, <1>4, <2>2 DEF Handles
<1>. QED
  BY <1>2, <1>3, <1>4

\* _usb_handle_transfer
LEMMA HandleTransferSound ==
    ASSUME NEW e, NEW p, p # <<>>, NEW h \in HostState, Sound(e, p, h),
           NEW answer, Answers(answer)
    PROVE  LET g == HandleTransfer(e, Head(p), answer)
           IN /\ Sound(g, Tail(p), h) /\ Handles(e, Head(p), g)
              /\ g.asked \in {e.asked, e.asked + answer.chain.size}
<1> DEFINE f == [e EXCEPT !.owned = @ + 1]
           b == Head(p)
           q == Tail(p)
           s == [f EXCEPT !.take = b]
           o == IF s.in /\ s.transfer.toSubmit = 0 THEN s ELSE OnPacket(s, answer)
           g == HandleTransfer(e, b, answer)
<1>1. /\ e \in Driver /\ Places(e, p) /\ Toggles(e, h) /\ Kinds(e) /\ Work(e)
      /\ Accounts(e)
  BY DEF Sound
<1>2. /\ f \in Driver /\ Alike(e, f) /\ f.transfer = e.transfer
      /\ f.give = e.give /\ f.buf = e.buf /\ f.cur = e.cur /\ f.put = e.put
      /\ f.owned = e.owned + 1 /\ e.owned \in {0, 1}
      /\ b = (IF e.owned = 1 THEN 1 - e.give ELSE e.give)
      /\ b \in Buffer /\ Sent(f) = Sent(e)
      /\ Places(f, q) /\ Toggles(f, h)
  BY <1>1, TakeBack
<1>3. g = IF f.transfer = NoTransfer THEN Stall(f, "halted")
          ELSE IF f.transfer.outstanding > 0 THEN [f EXCEPT !.transfer.queued = TRUE]
          ELSE IF o.transfer = NoTransfer THEN o
          ELSE CheckCompletion([o EXCEPT !.transfer.toHandle = @ - 1])
  BY DEF HandleTransfer
<1> HIDE DEF f, b, q
<1>4. /\ f.in = e.in /\ f.configured /\ f.configured = e.configured /\ f.halt = e.halt
      /\ f.take = e.take /\ f.chain = e.chain /\ f.received = e.received
      /\ f.asked = e.asked
      /\ ~e.transfer.queued /\ Kinds(f)
  <2>1. /\ f.in = e.in /\ f.configured = e.configured /\ f.halt = e.halt
        /\ f.take = e.take /\ f.chain = e.chain /\ f.received = e.received
        /\ f.asked = e.asked
    BY <1>2 DEF Alike
  <2>2. e.configured /\ ~e.transfer.queued
    BY <1>1, <1>2 DEF Kinds, Work
  <2>3. Kinds(f)
    BY <1>1, <1>2, <2>1, <2>2, KindsKeep
  <2>. QED
    BY <1>2, <2>1, <2>2, <2>3
<1>5. CASE e.transfer = NoTransfer
  <2>1. /\ e.transfer.kind = "none" /\ e.transfer.queued = FALSE
        /\ e.transfer.outstanding = 0 /\ e.transfer.toSubmit = 0
        /\ e.transfer.toHandle = 0
    BY <1>5 DEF NoTransfer
  <2>2. e.halt # "none"
    BY <1>1, <1>2, <2>1 DEF Accounts
  <2>3. Work(f) /\ Accounts(f)
    BY <1>1, <1>2, <1>4, <2>1, <2>2 DEF Work, Accounts
  <2>4. Sound(f, q, h)
    BY <1>2, <1>4, <2>3 DEF Sound
  <2>5. g = Stall(f, "halted")
    BY <1>2, <1>3, <1>5
  <2>6. /\ Sound(g, q, h) /\ g.halt # "none" /\ g.in = f.in /\ g.put = f.put
        /\ g.transfer = f.transfer /\ g.configured = f.configured
        /\ g.buf = f.buf /\ g.sel = f.sel
        /\ g.received = f.received /\ g.asked = f.asked
    BY <2>4, <2>5, StallSound DEF Halt
  <2>7. Sent(g) = Sent(f)
    BY <2>6 DEF Sent
  <2>. QED
    BY <1>2, <1>4, <2>1, <2>6, <2>7 DEF Handles, SendsOne, Untouched, b, q
<1>6. CASE e.transfer # NoTransfer /\ e.transfer.outstanding > 0
  <2>1. /\ e.transfer.outstanding = 1 /\ e.owned = 1 /\ e.take = e.give
        /\ b = 1 - e.give /\ f.owned = 2 /\ ~e.first
    BY <1>1, <1>2, <1>6, TransferFields DEF Work, Places
  <2> DEFINE u == [f.transfer EXCEPT !.queued = TRUE]
  <2>2. f.transfer \in Transfer
    BY <1>2 DEF Driver
  <2>3. /\ u \in Transfer /\ u.kind = e.transfer.kind /\ u.holds = e.transfer.holds
        /\ u.toHandle = e.transfer.toHandle /\ u.toSubmit = e.transfer.toSubmit
        /\ u.done = e.transfer.done /\ u.outstanding = e.transfer.outstanding
        /\ u.queued = TRUE
    BY <1>2, <2>2 DEF Transfer
  <2>4. g = [f EXCEPT !.transfer = u]
    BY <1>2, <1>3, <1>6 DEF Driver
  <2> HIDE DEF u, g
  <2>5. /\ g \in Driver /\ SameBuffers(f, g) /\ g.transfer = u
        /\ g.chain = f.chain /\ g.cur = f.cur /\ g.configured = f.configured
        /\ g.received = f.received /\ g.asked = f.asked /\ g.halt = f.halt
        /\ g.put = f.put /\ g.take = f.take
    BY <1>2, <2>3, <2>4 DEF Driver, SameBuffers
  <2>6. Places(g, q) /\ Toggles(g, h) /\ Sent(g) = Sent(f)
    BY <1>2, <2>5, SameBuffersKeep
  <2>7. g.owned = 2 /\ g.in = e.in /\ g.give = e.give /\ g.buf = e.buf /\ ~g.first
    <3>1. ~f.first
      BY <2>1 DEF f
    <3>. QED
      BY <1>2, <1>4, <2>1, <2>5, <3>1 DEF SameBuffers
  <2>8. Kinds(g)
    BY <1>1, <1>4, <1>6, <2>3, <2>5, <2>7 DEF Kinds, Chains
  <2>9. Work(g)
    BY <1>1, <1>2, <1>4, <2>1, <2>3, <2>5, <2>7 DEF Work
  <2>10. Accounts(g)
    BY <1>1, <1>4, <2>1, <2>3, <2>5, <2>7, TransferFields DEF Accounts
  <2>11. Handles(e, b, g)
    BY <1>2, <1>4, <2>1, <2>3, <2>5, <2>6, <2>7, TransferFields
       DEF Handles, SendsOne, Untouched
  <2>. QED
    BY <1>4, <2>5, <2>6, <2>8, <2>9, <2>10, <2>11 DEF Sound, b, q, g
<1>7. CASE e.transfer # NoTransfer /\ ~(e.transfer.outstanding > 0)
  <2>1. /\ s \in Driver /\ SameBuffers(f, s) /\ s.transfer = f.transfer
        /\ s.chain = f.chain /\ s.cur = f.cur /\ s.configured = f.configured
        /\ s.received = f.received /\ s.asked = f.asked /\ s.halt = f.halt
        /\ s.put = f.put /\ s.take = b
    BY <1>2 DEF Driver, SameBuffers
  <2>2. g = IF o.transfer = NoTransfer THEN o
            ELSE CheckCompletion([o EXCEPT !.transfer.toHandle = @ - 1])
    BY <1>2, <1>3, <1>7
  <2> HIDE DEF s, g
  <2>3. Places(s, q) /\ Toggles(s, h) /\ Sent(s) = Sent(f)
    BY <1>2, <2>1, SameBuffersKeep
  <2>4. s.owned = e.owned + 1 /\ s.in = e.in /\ s.give = e.give /\ s.buf = e.buf
    BY <1>2, <1>4, <2>1 DEF SameBuffers
  <2>5. Taken(e, s, b) /\ ~e.transfer.queued
    BY <1>2, <1>4, <2>1, <2>3, <2>4 DEF Taken
  <2>6. s.configured /\ ~s.transfer.queued /\ s.asked = e.asked
    BY <1>2, <1>4, <2>1
  <2>7. e.transfer.kind # "none" /\ e.transfer.outstanding = 0
    BY <1>1, <1>7, TransferFields DEF Kinds
  <2>8. s.transfer.kind # "none" /\ s.transfer = e.transfer
    BY <1>2, <2>1, <2>7
  <2>9. Kinds(s)
    BY <1>2, <1>4, <2>1, <2>4, <2>7 DEF Kinds
  <2>10. s.halt = "none" =>
           s.transfer.toHandle = s.transfer.toSubmit + (2 - s.owned) + 1
    <3>1. e.transfer.toSubmit \in Nat /\ e.transfer.toHandle \in Nat
      BY <1>1, TransferFields
    <3>. QED
      BY <1>1, <1>2, <1>4, <2>1, <2>4, <3>1 DEF Accounts
  <2>11. CASE s.in /\ s.transfer.toSubmit = 0
    <3>1. e.in
      BY <2>4, <2>11
    <3>2. Work(s)
      BY <1>1, <1>2, <1>4, <2>1, <2>4, <2>7, <2>11 DEF Work
    <3>3. g = CheckCompletion([s EXCEPT !.transfer.toHandle = @ - 1])
      BY <1>2, <1>7, <2>1, <2>2, <2>11
    <3>4. CASE s.halt = "none"
      <4>1. Sound(g, q, h) /\ Followed(s, g) /\ ~g.transfer.queued
        BY <2>1, <2>3, <2>9, <2>10, <2>6, <2>8, <3>2, <3>3, <3>4, HandledOne
      <4>2. Handles(e, b, g)
        BY <2>5, <3>1, <4>1, TakenIsHandled
      <4>3. g.asked = e.asked
        BY <2>6, <4>1 DEF Followed, GaveOnly
      <4>. QED
        BY <4>1, <4>2, <4>3 DEF g, b, q
    <3>5. CASE s.halt # "none"
      <4>1. g = Complete(s)
        BY <2>1, <3>3, <3>5, HaltedEnds
      <4>2. Chains(s.in, s.chain) /\ (s.in => s.cur \in {NoBuffer, s.give})
        BY <2>9, <3>2 DEF Kinds, Work, Chains
      <4>3. Sound(g, q, h) /\ Followed(s, g) /\ ~g.transfer.queued
        BY <1>4, <2>1, <2>3, <3>5, <4>1, <4>2, CompleteSound
      <4>4. Handles(e, b, g)
        BY <2>5, <3>1, <4>3, TakenIsHandled
      <4>5. g.asked = e.asked
        BY <2>6, <4>3 DEF Followed, GaveOnly
      <4>. QED
        BY <4>3, <4>4, <4>5 DEF g, b, q
    <3>. QED
      BY <3>4, <3>5
  <2>12. CASE ~(s.in /\ s.transfer.toSubmit = 0)
    <3>1. s.transfer.toSubmit \in Nat /\ s.owned \in {1, 2}
      BY <1>2, <2>1, <2>4, TransferFields
    <3>2. IF s.in
          THEN /\ s.cur \in {NoBuffer, s.give} /\ s.transfer.toSubmit > 0
               /\ s.owned = 1 /\ s.take = s.give
          ELSE s.cur = NoBuffer /\ s.owned >= 1 /\ (s.owned = 1 => s.take = s.give)
      BY <1>1, <1>2, <1>4, <2>1, <2>4, <2>7, <2>12, <3>1 DEF Work
    <3>3. Taking(s, q, h)
      BY <1>2, <1>4, <2>1, <2>3, <2>7, <2>9, <2>10, <3>2 DEF Taking
    <3>4. o = OnPacket(s, answer)
      BY <2>12
    <3>5. g = IF OnPacket(s, answer).transfer = NoTransfer THEN OnPacket(s, answer)
              ELSE CheckCompletion([OnPacket(s, answer) EXCEPT !.transfer.toHandle = @ - 1])
      BY <2>2, <3>4
    <3>6. /\ Sound(g, q, h) /\ Took(s, g)
          /\ g.asked \in {s.asked, s.asked + answer.chain.size}
      BY <3>3, <3>5, OnPacketSound
    <3>7. Handles(e, b, g)
      <4>1. ~g.transfer.queued
        BY <3>6 DEF Took
      <4>. QED
        BY <2>5, <3>6, <4>1, TakenIsHandled
    <3>. QED
      BY <2>6, <3>6, <3>7 DEF g, b, q
  <2>. QED
    BY <2>11, <2>12
<1>. QED
  BY <1>5, <1>6, <1>7

\* From e to g the held packet is done with: on OUT the one behind it is taken,
\* or dropped under a halt.
HeldIsOver(e, g) ==
    /\ g.in = e.in /\ g.configured = e.configured
    /\ e.halt # "none" => g.halt # "none"
    /\ ~g.transfer.queued
    /\ IF e.in THEN Sends(e, g)
       ELSE /\ Untouched(e, g)
            /\ \/ ~e.transfer.queued /\ g.received = e.received
               \/ g.halt # "none" /\ g.received = e.received
               \/ /\ e.transfer.queued
                  /\ g.received = Append(e.received, e.buf[1 - e.take].packet)

LEMMA NoAnswerAnswers == Answers(NoAnswer) /\ NoAnswer.chain.size = 0
BY DEF Answers, NoAnswer, Chains, NoTransfer, Halt

\* The buffer that waits behind a held packet is the driver's own until the
\* packet is done with; then it comes back like any other.
LEMMA QueuedComesBack ==
    ASSUME NEW e, NEW p, NEW h \in HostState, Sound(e, p, h),
           e.transfer.queued, e.halt = "none",
           NEW l, l = Release(PacketOver(e))
    PROVE  LET s == [l EXCEPT !.transfer.queued = FALSE, !.owned = @ - 1]
           IN /\ Sound(s, <<1 - l.take>>, h) /\ Alike(e, s) /\ l.take = e.take
              /\ p = <<>> /\ s.transfer.outstanding = 0 /\ l.transfer.queued
              /\ IF e.in
                 THEN s.put = e.put + 1 /\ Sent(s) = Append(Sent(e), e.put + 1)
                 ELSE s.buf = e.buf
<1> DEFINE x == PacketOver(e)
           s == [l EXCEPT !.transfer.queued = FALSE, !.owned = @ - 1]
<1>1. /\ e \in Driver /\ Places(e, p) /\ Toggles(e, h) /\ Kinds(e) /\ Work(e)
      /\ Accounts(e)
  BY DEF Sound
<1>2. /\ e.transfer.outstanding = 1 /\ e.owned = 2 /\ e.take = e.give /\ ~e.first
      /\ p = <<>> /\ e.transfer # NoTransfer /\ e.transfer.kind # "none"
      /\ e.configured
  BY <1>1 DEF Work, Places, Kinds, NoTransfer
<1>3. /\ x \in Driver /\ SameBuffers(e, x) /\ Alike(e, x) /\ GoesOn(e.transfer, x.transfer)
      /\ x.transfer.toSubmit = e.transfer.toSubmit
      /\ x.transfer.outstanding = 0 /\ x.cur = e.cur /\ x.put = e.put
  BY <1>1, <1>2, PacketOverFields, 1 - 1 = 0
<1> DEFINE n == IF e.in THEN 1 ELSE 0
<1>4. /\ l \in Driver /\ Alike(e, l) /\ GoesOn(e.transfer, l.transfer)
      /\ l.transfer.toSubmit = e.transfer.toSubmit - n
      /\ l.transfer.outstanding = 0 /\ l.owned = 2 - n /\ l.cur = NoBuffer
      /\ l.give = (IF e.in THEN 1 - e.give ELSE e.give) /\ ~l.first
      /\ Places(l, p) /\ Toggles(l, h)
      /\ IF e.in
         THEN l.put = e.put + 1 /\ Sent(l) = Append(Sent(e), e.put + 1)
         ELSE l.buf = e.buf
  <2>1. CASE e.in
    <3>1. e.cur = e.give /\ e.transfer.toSubmit > 0
      BY <1>1, <1>2, <2>1 DEF Work
    <3>2. Filled(e, l) /\ Places(l, p) /\ Toggles(l, h)
      BY <1>1, <1>2, <2>1, <3>1, ReleaseIn
    <3>. QED
      BY <1>2, <2>1, <3>2 DEF Filled, Places
  <2>2. CASE ~e.in
    <3>1. l = [x EXCEPT !.cur = NoBuffer]
      BY <1>3, <2>2 DEF Release, Alike
    <3> HIDE DEF x
    <3>2. /\ l \in Driver /\ SameBuffers(x, l) /\ Alike(x, l) /\ l.transfer = x.transfer
          /\ l.cur = NoBuffer
      BY <1>3, <3>1 DEF Driver, SameBuffers, Alike
    <3>3. Places(x, p) /\ Toggles(x, h)
      BY <1>1, <1>3, SameBuffersKeep
    <3>4. Places(l, p) /\ Toggles(l, h)
      BY <3>2, <3>3, SameBuffersKeep
    <3>5. Alike(e, l)
      BY <1>3, <3>2 DEF Alike
    <3>. QED
      BY <1>2, <1>3, <2>2, <3>2, <3>4, <3>5, TransferFields DEF SameBuffers
  <2>. QED
    BY <2>1, <2>2
<1> HIDE DEF x
<1> DEFINE u == [l.transfer EXCEPT !.queued = FALSE]
<1>5. l.transfer \in Transfer
  BY <1>4 DEF Driver
<1>6. /\ u \in Transfer /\ u.kind = e.transfer.kind /\ u.holds = e.transfer.holds
      /\ u.toHandle = e.transfer.toHandle /\ u.toSubmit = e.transfer.toSubmit - n
      /\ u.outstanding = 0 /\ u.queued = FALSE
  BY <1>4, <1>5 DEF Transfer, GoesOn
<1>7. s = [l EXCEPT !.transfer = u, !.owned = @ - 1]
  BY <1>4 DEF Driver
<1> HIDE DEF u, s
<1>8. /\ s \in Driver /\ s.transfer = u /\ s.owned = 1 - n /\ Alike(l, s)
      /\ s.give = l.give /\ s.buf = l.buf /\ s.sel = l.sel /\ s.pid = l.pid
      /\ s.first = l.first /\ s.cur = NoBuffer /\ s.put = l.put
  <2>1. l.owned - 1 \in 0..2 /\ l.owned - 1 = 1 - n
    BY <1>4
  <2>. QED
    BY <1>4, <1>6, <1>7, <2>1 DEF Driver, Alike
<1>9. Alike(e, s)
  BY <1>4, <1>8 DEF Alike
<1>10. Toggles(s, h) /\ Sent(s) = Sent(l)
  <2>1. s.in = l.in /\ s.halt = l.halt
    BY <1>8 DEF Alike
  <2>2. Sent(s) = Sent(l)
    BY <1>8 DEF Sent
  <2>3. Toggles(s, h)
    BY <1>4, <1>8, <2>1 DEF Toggles
  <2>. QED
    BY <2>2, <2>3
<1>11. Places(s, <<1 - l.take>>)
  <2>1. l.take = e.give /\ e.give \in {0, 1}
    BY <1>1, <1>2, <1>4, TransferFields DEF Alike
  <2>2. CASE e.in
    <3>1. s.owned = 0 /\ s.give = 1 - e.give /\ 1 - s.give = e.give
      BY <1>4, <1>8, <2>1, <2>2
    <3>2. l.owned = 1 /\ 1 - l.give = e.give
      BY <1>4, <2>1, <2>2
    <3>3. ~l.buf[l.give].avail /\ l.buf[1 - l.give].avail /\ l.sel = 1 - l.give
      BY <1>2, <1>4, <3>2 DEF Places
    <3>. QED
      BY <1>4, <1>8, <2>1, <2>2, <3>1, <3>3 DEF Places
  <2>3. CASE ~e.in
    BY <1>4, <1>8, <2>1, <2>3 DEF Places
  <2>. QED
    BY <2>2, <2>3
<1>12. Kinds(s)
  BY <1>1, <1>2, <1>6, <1>8, <1>9 DEF Kinds, Alike
<1>13. Work(s)
  BY <1>6, <1>8, <1>9 DEF Work, Alike
<1>14. Accounts(s)
  BY <1>1, <1>2, <1>6, <1>8, <1>9, TransferFields DEF Accounts, Alike
<1>15. Sound(s, <<1 - l.take>>, h)
  BY <1>8, <1>10, <1>11, <1>12, <1>13, <1>14 DEF Sound
<1>16. l.take = e.take /\ l.transfer.queued
  BY <1>4 DEF Alike, GoesOn
<1>. QED
  BY <1>2, <1>4, <1>6, <1>8, <1>9, <1>10, <1>15, <1>16 DEF s

\* usb_packet_done of a held packet
LEMMA HeldPacketDoneSound ==
    ASSUME NEW e, NEW p, NEW h \in HostState, Sound(e, p, h),
           e.transfer.outstanding > 0
    PROVE  LET g == HeldPacketDone(e)
           IN Sound(g, p, h) /\ HeldIsOver(e, g) /\ g.asked = e.asked
<1> DEFINE x == PacketOver(e)
           l == Release(x)
           s == [l EXCEPT !.transfer.queued = FALSE, !.owned = @ - 1]
           g == HeldPacketDone(e)
<1>1. /\ e \in Driver /\ Places(e, p) /\ Toggles(e, h) /\ Kinds(e) /\ Work(e)
      /\ Accounts(e)
  BY DEF Sound
<1>2. /\ e.transfer.outstanding = 1 /\ e.transfer.kind # "none" /\ e.configured
      /\ e.transfer.toSubmit \in Nat /\ e.owned \in {1, 2} /\ e.put \in Nat
  BY <1>1, TransferFields DEF Work, Kinds, NoTransfer
<1>3. /\ x \in Driver /\ SameBuffers(e, x) /\ Alike(e, x) /\ GoesOn(e.transfer, x.transfer)
      /\ x.transfer.toSubmit = e.transfer.toSubmit
      /\ x.transfer.outstanding = 0 /\ x.cur = e.cur /\ x.put = e.put
  BY <1>1, <1>2, PacketOverFields, 1 - 1 = 0
<1>4. /\ Places(x, p) /\ Toggles(x, h) /\ Sent(x) = Sent(e)
      /\ x.owned = e.owned /\ x.buf = e.buf /\ x.in = e.in /\ x.give = e.give
  BY <1>1, <1>3, SameBuffersKeep DEF SameBuffers
<1>5. g = IF Completes(x) THEN Complete(x)
          ELSE IF l.transfer.queued THEN HandleTransfer(s, 1 - l.take, NoAnswer)
          ELSE GiveAsMany(l)
  BY DEF HeldPacketDone
<1> HIDE DEF g, x
<1>6. CASE Completes(x)
  <2>1. e.halt = "none" => e.owned = 2 /\ ~e.transfer.queued
    BY <1>1, <1>2, <1>3, <1>6 DEF Completes, Accounts, Alike, GoesOn
  <2>2. /\ x.configured /\ (x.halt = "none" => x.owned = 2)
        /\ Chains(x.in, x.chain) /\ (x.in => x.cur \in {NoBuffer, x.give})
    BY <1>1, <1>2, <1>3, <1>4, <2>1 DEF Kinds, Work, Chains, Alike
  <2>3. Sound(g, p, h) /\ Followed(x, g) /\ ~g.transfer.queued
    BY <1>3, <1>4, <1>5, <1>6, <2>2, CompleteSound
  <2>4. HeldIsOver(e, g) /\ g.asked = e.asked
    BY <1>3, <1>4, <2>1, <2>3 DEF HeldIsOver, Followed, GaveOnly, Alike, Sends, Untouched
  <2>. QED
    BY <2>3, <2>4 DEF g
<1>7. CASE ~Completes(x) /\ e.transfer.queued
  <2>1. e.halt = "none"
    BY <1>3, <1>7 DEF Completes, Alike
  <2>2. /\ Sound(s, <<1 - l.take>>, h) /\ Alike(e, s) /\ l.take = e.take
        /\ p = <<>> /\ s.transfer.outstanding = 0 /\ l.transfer.queued
        /\ IF e.in THEN s.put = e.put + 1 /\ Sent(s) = Append(Sent(e), e.put + 1)
           ELSE s.buf = e.buf
    BY <1>7, <2>1, QueuedComesBack DEF x
  <2> HIDE DEF s
  <2>3. g = HandleTransfer(s, 1 - l.take, NoAnswer)
    BY <1>5, <1>7, <2>2
  <2> DEFINE q == <<1 - l.take>>
  <2>4. q # <<>> /\ Head(q) = 1 - l.take /\ Tail(q) = <<>>
    OBVIOUS
  <2> HIDE DEF q
  <2>5. /\ Sound(g, Tail(q), h) /\ Handles(s, Head(q), g)
        /\ g.asked \in {s.asked, s.asked + NoAnswer.chain.size}
    <3>1. Sound(s, q, h)
      BY <2>2 DEF q
    <3>. QED
      BY <2>3, <2>4, <3>1, HandleTransferSound, NoAnswerAnswers
  <2>6. s.asked \in Nat
    BY <2>2, TransferFields DEF Sound
  <2>7. Sound(g, p, h) /\ Handles(s, 1 - e.take, g) /\ g.asked = e.asked
    <3>1. g.asked = s.asked
      BY <2>5, <2>6, NoAnswerAnswers
    <3>. QED
      BY <2>2, <2>4, <2>5, <3>1 DEF Alike
  <2>8. HeldIsOver(e, g)
    <3>1. s.in = e.in /\ s.configured = e.configured /\ s.halt = e.halt
          /\ s.received = e.received
      BY <2>2 DEF Alike
    <3>2. CASE e.in
      BY <1>2, <2>1, <2>2, <2>7, <3>1, <3>2 DEF HeldIsOver, Handles, Sends, SendsOne
    <3>3. CASE ~e.in
      BY <1>7, <2>1, <2>2, <2>7, <3>1, <3>3 DEF HeldIsOver, Handles, Untouched
    <3>. QED
      BY <3>2, <3>3
  <2>. QED
    BY <2>7, <2>8 DEF g
<1>8. CASE ~Completes(x) /\ ~e.transfer.queued
  <2>1. e.halt = "none"
    BY <1>3, <1>8 DEF Completes, Alike
  <2>2. CASE e.in
    <3>1. e.cur = e.give /\ e.transfer.toSubmit > 0 /\ (e.owned = 2 => e.transfer.done = 0)
      BY <1>1, <1>2, <1>8, <2>2 DEF Work
    <3>2. Filled(e, l) /\ Places(l, p) /\ Toggles(l, h)
      BY <1>1, <1>2, <2>2, <3>1, ReleaseIn DEF x
    <3> HIDE DEF l
    <3>3. g = GiveAsMany(l)
      BY <1>5, <1>8, <3>2 DEF Filled, GoesOn
    <3>4. /\ l \in Driver /\ l.in /\ l.halt = "none" /\ l.transfer.outstanding = 0
          /\ l.cur = NoBuffer /\ 1 \notin l.transfer.holds
          /\ l.owned # 2 /\ (l.owned = 1 => l.transfer.done = 1)
          /\ l.transfer.toSubmit = e.transfer.toSubmit - 1
          /\ l.owned = e.owned - 1 /\ l.put = e.put + 1
      BY <1>1, <1>2, <2>1, <2>2, <3>1, <3>2, 0 + 1 = 1
         DEF Filled, Alike, GoesOn, Kinds
    <3>5. /\ g \in Driver /\ Places(g, p) /\ Toggles(g, h)
          /\ Alike(l, g) /\ GoesOn(l.transfer, g.transfer)
          /\ g.owned <= l.owned
          /\ l.transfer.toSubmit - g.transfer.toSubmit = l.owned - g.owned
          /\ g.cur \in {NoBuffer, g.give}
          /\ \/ /\ g.transfer.outstanding = 0
                /\ g.transfer.toSubmit > 0 => g.owned = 0
             \/ /\ g.transfer.outstanding = 1 /\ g.transfer.toSubmit > 0
                /\ g.owned = 2 /\ g.transfer.done = 0 /\ g.cur = g.give
          /\ Sends(l, g) /\ g.put = l.put + (l.owned - g.owned)
      BY <3>2, <3>3, <3>4, GiveAsManyIn
    <3>6. g.owned \in {0, 1} /\ g.transfer.toSubmit \in Nat /\ g.transfer.outstanding = 0
      BY <1>2, <3>4, <3>5, TransferFields
    <3>7. Alike(e, g) /\ GoesOn(e.transfer, g.transfer)
      BY <3>2, <3>5 DEF Filled, Alike, GoesOn
    <3>8. Kinds(g)
      BY <1>1, <1>2, <3>7 DEF Kinds, Alike, GoesOn
    <3>9. Work(g)
      BY <1>8, <2>2, <3>5, <3>6, <3>7 DEF Work, Alike, GoesOn
    <3>10. Accounts(g)
      <4>1. /\ g.transfer.toHandle = e.transfer.toHandle
            /\ g.transfer.queued = e.transfer.queued
            /\ e.transfer.toSubmit - g.transfer.toSubmit = e.owned - g.owned
        BY <1>2, <3>4, <3>5, <3>6, <3>7 DEF GoesOn
      <4>. QED
        BY <1>1, <1>2, <1>8, <2>1, <3>6, <4>1 DEF Accounts
    <3>11. Sends(e, g)
      <4>1. /\ l.put = e.put + 1 /\ Sent(l) = Append(Sent(e), e.put + 1)
            /\ l.owned \in {0, 1} /\ e.put \in Nat
        BY <1>2, <3>2, <3>4, TransferFields DEF Filled
      <4>2. \/ g.put = l.put /\ Sent(g) = Sent(l)
            \/ g.put = l.put + 1 /\ Sent(g) = Append(Sent(l), l.put + 1)
        BY <3>5, <3>6, <4>1 DEF Sends
      <4>3. l.put + 1 = e.put + 2
        BY <4>1
      <4>. QED
        BY <4>1, <4>2, <4>3 DEF Sends
    <3>12. HeldIsOver(e, g) /\ g.asked = e.asked
      BY <1>8, <2>2, <3>7, <3>11 DEF HeldIsOver, Alike, GoesOn
    <3>. QED
      BY <3>5, <3>8, <3>9, <3>10, <3>12 DEF Sound, g
  <2>3. CASE ~e.in
    <3>1. l = [x EXCEPT !.cur = NoBuffer]
      BY <1>4, <2>3 DEF Release
    <3>2. /\ l \in Driver /\ SameBuffers(x, l) /\ Alike(x, l) /\ l.transfer = x.transfer
          /\ l.cur = NoBuffer
      BY <1>3, <3>1 DEF Driver, SameBuffers, Alike
    <3> HIDE DEF l
    <3>3. Places(l, p) /\ Toggles(l, h) /\ ~l.in /\ l.buf = e.buf /\ l.owned = e.owned
      BY <1>4, <2>3, <3>2, SameBuffersKeep DEF SameBuffers
    <3>4. g = GiveAsMany(l)
      BY <1>3, <1>5, <1>8, <3>2 DEF GoesOn
    <3>5. /\ Gave(l, g) /\ Places(g, p) /\ Toggles(g, h) /\ g.cur = NoBuffer
          /\ g.transfer.outstanding = l.transfer.outstanding
      BY <3>2, <3>3, <3>4, GiveAsManyOut
    <3>6. /\ Alike(e, g) /\ GoesOn(e.transfer, g.transfer) /\ g \in Driver
          /\ e.transfer.toSubmit - g.transfer.toSubmit = e.owned - g.owned
          /\ g.transfer.outstanding = 0
      BY <1>3, <3>2, <3>3, <3>5 DEF Gave, Alike, GoesOn
    <3>7. g.owned \in {0, 1, 2} /\ g.transfer.toSubmit \in Nat
      BY <3>6, TransferFields
    <3>8. Kinds(g)
      BY <1>1, <1>2, <3>6 DEF Kinds, Alike, GoesOn
    <3>9. Work(g)
      BY <1>8, <2>3, <3>5, <3>6, <3>7 DEF Work, Alike, GoesOn
    <3>10. Accounts(g)
      BY <1>1, <1>2, <1>8, <2>1, <3>6, <3>7 DEF Accounts, Alike, GoesOn
    <3>11. HeldIsOver(e, g) /\ g.asked = e.asked
      BY <1>8, <2>3, <3>3, <3>5, <3>6
         DEF HeldIsOver, Alike, GoesOn, Gave, Untouched
    <3>. QED
      BY <3>5, <3>6, <3>8, <3>9, <3>10, <3>11 DEF Sound, g
  <2>. QED
    BY <2>2, <2>3
<1>. QED
  BY <1>6, <1>7, <1>8

-----------------------------------------------------------------------------
(***************************************************************************)
(* Resets, and the controller.                                             *)
(***************************************************************************)

\* From e to g the endpoint is reset: no packet is under way.
IsReset(e, g) ==
    /\ g.in = e.in /\ g.configured = e.configured /\ g.received = e.received
    /\ g.asked = e.asked /\ g.halt = "none" /\ ~g.transfer.queued
    /\ e.in => g.put = e.put /\ Sent(g) = <<>>

\* _usb_reset_endpoint: the toggle starts again with the host's, or goes on from
\* the packets that have come.
LEMMA ResetEndpointSound ==
    ASSUME NEW e \in Driver, Chains(e.in, e.chain), NEW hard \in BOOLEAN,
           NEW h \in HostState, ~h.retry,
           IF hard THEN h.pid = 0
           ELSE e.halt # "on_condition" /\ Toggles(e, h) /\ Places(e, <<>>)
    PROVE  LET g == ResetEndpoint(e, hard) IN Sound(g, <<>>, h) /\ IsReset(e, g)
<1> DEFINE back == e.owned = 1 /\ \E b \in Buffer : e.buf[b].avail
           i == IF hard THEN 0 ELSE IF back THEN 1 - e.pid ELSE e.pid
           f == [e EXCEPT !.transfer = NoTransfer, !.pid = i, !.buf = FreeBuffers,
                          !.owned = 2, !.give = 0, !.take = 0, !.first = TRUE,
                          !.cur = NoBuffer, !.halt = "none"]
<1>1. FreeBuffers \in BufferControl
  BY DEF FreeBuffers, BufferControl
<1>2. i \in {0, 1}
  BY TransferFields
<1>3. i = h.pid
  <2>1. CASE hard
    BY <2>1
  <2>2. CASE ~hard
    <3>1. e.pid = IF e.buf[0].avail <=> e.buf[1].avail
                  THEN NextToggle(h) ELSE 1 - NextToggle(h)
      BY <2>2 DEF Toggles
    <3>2. e.owned = 2 => ~e.buf[0].avail /\ ~e.buf[1].avail
      BY <2>2 DEF Places
    <3>3. e.owned = 1 => ~e.buf[e.give].avail /\ e.buf[1 - e.give].avail
      BY <2>2, <<1 - e.give>> # <<>> DEF Places
    <3>4. e.owned = 0 => e.buf[e.give].avail /\ e.buf[1 - e.give].avail
      BY <2>2, <<e.give>> # <<>>, <<e.give, 1 - e.give>> # <<>> DEF Places
    <3>5. NextToggle(h) = h.pid /\ h.pid \in {0, 1}
      BY DEF NextToggle, HostState
    <3>6. CASE e.owned = 1
      BY <2>2, <3>1, <3>3, <3>5, <3>6, TransferFields DEF Buffer
    <3>7. CASE e.owned # 1
      BY <2>2, <3>1, <3>2, <3>4, <3>5, <3>7, TransferFields
    <3>. QED
      BY <3>6, <3>7
  <2>. QED
    BY <2>1, <2>2
<1> HIDE DEF i
<1> HIDE DEF back
<1>4. f \in Driver
  <2>1. /\ 0 \in Buffer /\ 2 \in 0..2 /\ "none" \in Halt
        /\ NoBuffer \in Buffer \cup {NoBuffer}
    BY DEF Buffer, Halt
  <2>. QED
    BY <1>1, <1>2, <2>1, NoTransferType DEF Driver
<1>5. /\ f.transfer = NoTransfer /\ f.pid = i /\ f.buf = FreeBuffers
      /\ f.owned = 2 /\ f.give = 0 /\ f.first = TRUE /\ f.cur = NoBuffer
      /\ f.halt = "none" /\ f.in = e.in /\ f.configured = e.configured
      /\ f.received = e.received /\ f.put = e.put /\ f.asked = e.asked
      /\ f.chain = e.chain
  BY DEF Driver
<1>6. ResetEndpoint(e, hard) =
        IF f.configured /\ ~f.in THEN StartTransfer(f, Default) ELSE f
  <2> DEFINE a == [e EXCEPT !.transfer = NoTransfer]
             b == ResetBuffers(a)
             c == [b EXCEPT !.pid = IF hard THEN 0 ELSE @, !.cur = NoBuffer,
                            !.halt = "none"]
  <2>1. c = f
    <3>1. a.owned = e.owned /\ a.buf = e.buf /\ a.pid = e.pid
      BY DEF Driver
    <3>2. b = [a EXCEPT !.pid = IF back THEN 1 - @ ELSE @, !.buf = FreeBuffers,
                        !.owned = 2, !.give = 0, !.take = 0, !.first = TRUE]
      BY <3>1 DEF ResetBuffers, back
    <3>. QED
      BY <3>1, <3>2 DEF Driver, i
  <2>2. ResetEndpoint(e, hard) = IF c.configured /\ ~c.in THEN StartTransfer(c, Default) ELSE c
    BY DEF ResetEndpoint
  <2> HIDE DEF c, f
  <2>. QED
    BY <2>1, <2>2
<1> HIDE DEF f
<1>7. ~f.buf[0].avail /\ ~f.buf[1].avail
  BY <1>5 DEF FreeBuffers, Buffer
<1>8. Places(f, <<>>)
  BY <1>5, <1>7 DEF Places
<1>9. Toggles(f, h)
  BY <1>3, <1>5, <1>7 DEF Toggles, NextToggle, Buffer
<1>10. CASE f.configured /\ ~f.in
  <2> DEFINE g == StartTransfer(f, Default)
  <2>1. Fresh(f.in, Default)
    BY <1>10, NewTransferFields DEF Fresh, Default
  <2>2. Sound(g, <<>>, h) /\ GaveOnly(f, g) /\ ~g.transfer.queued
    BY <1>5, <1>8, <1>9, <1>10, <1>4, <2>1, StartTransferSound
  <2> HIDE DEF g
  <2>3. IsReset(e, g)
    BY <1>5, <1>10, <2>2 DEF GaveOnly, IsReset
  <2>. QED
    BY <1>6, <1>10, <2>2, <2>3 DEF g
<1>11. CASE ~(f.configured /\ ~f.in)
  <2>1. /\ f.transfer.kind = "none" /\ f.transfer.queued = FALSE
        /\ f.transfer.outstanding = 0 /\ f.transfer.toSubmit = 0
        /\ f.transfer.toHandle = 0 /\ f.transfer.holds = {}
    BY <1>5 DEF NoTransfer
  <2>2. Kinds(f)
    BY <1>5, <2>1 DEF Kinds, Chains
  <2>3. Work(f) /\ Accounts(f)
    BY <1>5, <2>1 DEF Work, Accounts
  <2>4. Sent(f) = <<>> \o <<>>
    BY <1>7, <1>4, TransferFields DEF Sent
  <2>5. IsReset(e, f)
    BY <1>5, <2>1, <2>4 DEF IsReset
  <2>. QED
    BY <1>6, <1>8, <1>9, <1>11, <1>4, <2>2, <2>3, <2>5 DEF Sound
<1>. QED
  BY <1>10, <1>11

LEMMA AppendTwo ==
    ASSUME NEW x \in Nat, NEW y \in Nat
    PROVE  Append(<<x>>, y) = <<x, y>>
<1> DEFINE s == Append(<<x>>, y)
           t == <<x, y>>
<1>1. s \in Seq(Nat) /\ Len(s) = 2 /\ s[1] = x /\ s[2] = y
  <2>1. <<x>> \in Seq(Nat) /\ Len(<<x>>) = 1
    OBVIOUS
  <2>. QED
    BY <2>1
<1>2. t \in Seq(Nat) /\ Len(t) = 2 /\ t[1] = x /\ t[2] = y
  OBVIOUS
<1> HIDE DEF s, t
<1>3. \A i \in 1..Len(s) : s[i] = t[i]
  BY <1>1, <1>2
<1>4. s = t
  BY <1>1, <1>2, <1>3, SeqEqual
<1>. QED
  BY <1>4 DEF s, t

\* The controller is done with the buffer it was given first.
DoneWith(e, full, packet) ==
    [e EXCEPT !.buf[e.sel].avail = FALSE, !.buf[e.sel].full = full,
              !.buf[e.sel].packet = packet, !.sel = 1 - @]

LEMMA BufferDoneSound ==
    ASSUME NEW e, NEW p, NEW h \in HostState, Sound(e, p, h),
           e.buf[e.sel].avail, NEW full \in BOOLEAN, NEW packet \in Nat,
           NEW k \in HostState, NextToggle(k) = 1 - NextToggle(h), e.in => ~k.retry
    PROVE  LET g == DoneWith(e, full, packet)
           IN /\ Sound(g, Append(p, e.sel), k) /\ Alike(e, g)
              /\ g.put = e.put /\ g.transfer = e.transfer /\ g.sel = 1 - e.sel
              /\ ~g.buf[e.sel].avail /\ g.buf[e.sel].packet = packet
              /\ g.buf[1 - e.sel] = e.buf[1 - e.sel]
<1>1. /\ e \in Driver /\ Places(e, p) /\ Toggles(e, h) /\ Kinds(e) /\ Work(e)
      /\ Accounts(e)
  BY DEF Sound
<1> DEFINE b == e.sel
           c == [e.buf[b] EXCEPT !.avail = FALSE, !.full = full, !.packet = packet]
           buf == [e.buf EXCEPT ![b] = c]
           g == [e EXCEPT !.buf = buf, !.sel = 1 - @]
<1>2. b \in {0, 1} /\ 1 - b \in {0, 1} /\ 1 - b # b /\ e.buf \in BufferControl
  BY <1>1 DEF Driver, Buffer
<1>3. /\ c \in [avail : BOOLEAN, full : BOOLEAN, pid : {0, 1}, packet : Nat]
      /\ c.avail = FALSE /\ c.packet = packet /\ c.pid = e.buf[b].pid
  BY <1>2 DEF BufferControl, Buffer
<1> HIDE DEF c
<1>4. buf \in BufferControl /\ buf[b] = c /\ buf[1 - b] = e.buf[1 - b]
  BY <1>2, <1>3 DEF BufferControl, Buffer
<1>5. DoneWith(e, full, packet) = g
  <2> DEFINE x == [e EXCEPT !.buf[b].avail = FALSE, !.buf[b].full = full,
                            !.buf[b].packet = packet]
  <2>1. DoneWith(e, full, packet) = [x EXCEPT !.sel = 1 - @]
    BY <1>1 DEF Driver, DoneWith
  <2>2. x = [e EXCEPT !.buf = buf]
    BY <1>1, <1>2 DEF Driver, BufferControl, Buffer, c
  <2> HIDE DEF x, buf
  <2>. QED
    BY <1>1, <2>1, <2>2 DEF Driver
<1> HIDE DEF buf
<1>6. /\ g \in Driver /\ Alike(e, g) /\ g.transfer = e.transfer /\ g.owned = e.owned
      /\ g.give = e.give /\ g.first = e.first /\ g.cur = e.cur /\ g.pid = e.pid
      /\ g.buf = buf /\ g.put = e.put /\ g.sel = 1 - b
  BY <1>1, <1>2, <1>4 DEF Driver, Alike, Buffer
<1> HIDE DEF g
<1>7. /\ e.give \in {0, 1} /\ e.owned \in {0, 1, 2} /\ e.pid \in {0, 1}
       /\ e.buf[b].avail /\ ~g.buf[b].avail /\ g.buf[1 - b] = e.buf[1 - b]
       /\ \A a \in {0, 1} : e.buf[a].avail \in BOOLEAN /\ e.buf[a].pid \in {0, 1}
  BY <1>1, <1>3, <1>4, <1>6, TransferFields
<1>8. e.owned # 2 /\ ~e.first /\ 1 - (1 - b) = b
  BY <1>1, <1>2, <1>7 DEF Places
<1>9. Places(g, Append(p, b))
  <2>1. CASE e.owned = 1
    <3>1. /\ ~e.buf[e.give].avail /\ b = 1 - e.give /\ 1 - b = e.give
          /\ p = <<>>
      BY <1>1, <1>2, <1>7, <2>1 DEF Places
    <3>2. Append(p, b) = <<b>>
      BY <3>1
    <3>. QED
      BY <1>6, <1>7, <1>8, <2>1, <3>1, <3>2 DEF Places
  <2>2. CASE e.owned = 0 /\ e.buf[e.give].avail
    <3>1. e.buf[1 - e.give].avail /\ b = e.give /\ p = <<>>
      BY <1>1, <1>2, <1>7, <1>8, <2>2 DEF Places
    <3>2. Append(p, b) = <<b>>
      BY <3>1
    <3>. QED
      BY <1>2, <1>6, <1>7, <1>8, <2>2, <3>1, <3>2 DEF Places
  <2>3. CASE e.owned = 0 /\ ~e.buf[e.give].avail
    <3>1. /\ e.buf[1 - e.give].avail /\ b = 1 - e.give /\ 1 - b = e.give
          /\ p = <<e.give>>
      BY <1>1, <1>2, <1>7, <1>8, <2>3 DEF Places
    <3>2. Append(p, b) = <<e.give, b>>
      BY <1>2, <1>7, <3>1, AppendTwo
    <3>. QED
      BY <1>2, <1>6, <1>7, <1>8, <2>3, <3>1, <3>2 DEF Places
  <2>. QED
    BY <1>7, <1>8, <2>1, <2>2, <2>3
<1>10. Toggles(g, k)
  <2>1. g.in = e.in /\ g.halt = e.halt
    BY <1>6 DEF Alike
  <2>2. NextToggle(h) \in {0, 1}
    BY DEF NextToggle, HostState
  <2>3. CASE b = 0
    BY <1>1, <1>6, <1>7, <2>1, <2>2, <2>3 DEF Toggles, Buffer
  <2>4. CASE b = 1
    BY <1>1, <1>6, <1>7, <2>1, <2>2, <2>4 DEF Toggles, Buffer
  <2>. QED
    BY <1>2, <2>3, <2>4
<1>11. Kinds(g)
  BY <1>1, <1>6, KindsKeep DEF Alike
<1>12. Work(g) /\ Accounts(g)
  BY <1>1, <1>6 DEF Work, Accounts, Alike
<1>. QED
  BY <1>3, <1>4, <1>5, <1>6, <1>9, <1>10, <1>11, <1>12 DEF Sound, b

-----------------------------------------------------------------------------
(***************************************************************************)
(* The inductive invariant, action by action.                              *)
(***************************************************************************)

HostTypeOK ==
    /\ host \in HostState
    /\ host.next \in 1..(MaxPackets + 1)
    /\ ~ep.in /\ host.retry => host.next <= MaxPackets

EndpointIInv ==
    /\ Sound(ep, pending, host)
    /\ HostTypeOK
    /\ ep.asked <= MaxPackets
    /\ resets \in 0..MaxResets /\ losses \in 0..MaxLosses

LEMMA StreamsFresh ==
    ASSUME NEW in \in BOOLEAN, NEW t \in Streams(in, MaxSize)
    PROVE  Fresh(in, t)
<1>1. PICK size \in 1..MaxSize :
          \E holds \in SUBSET ChunkBoundary(in, size) :
             t = NewTransfer("stream", size, holds)
  BY DEF Streams
<1>2. PICK holds \in SUBSET ChunkBoundary(in, size) :
          t = NewTransfer("stream", size, holds)
  BY <1>1
<1>3. size \in Nat \ {0} /\ holds \in SUBSET Nat
  BY EndpointAssumption DEF ChunkBoundary
<1>4. in => 1 \notin holds
  <2>1. 1 % ChunkPackets = 1
    BY EndpointAssumption
  <2>. QED
    BY <2>1 DEF ChunkBoundary
<1>. QED
  BY <1>2, <1>3, <1>4, NewTransferFields DEF Fresh

LEMMA AnswersOK ==
    ASSUME NEW answer \in Answer
    PROVE  Answers(answer) /\ answer.chain.size \in Nat
<1>1. answer.chain \in {NoTransfer} \cup Streams(FALSE, MaxSize) /\ answer.halt \in Halt
  BY DEF Answer
<1>2. Chains(FALSE, answer.chain)
  BY <1>1, StreamsFresh DEF Chains
<1>3. answer.chain \in Transfer
  BY <1>2, NoTransferType DEF Chains, Fresh
<1>. QED
  BY <1>1, <1>2, <1>3 DEF Answers, Transfer

LEMMA AskedFields ==
    ASSUME NEW e, NEW p, NEW h, Sound(e, p, h), NEW n \in Nat
    PROVE  LET g == [e EXCEPT !.asked = n]
           IN /\ Sound(g, p, h) /\ g.asked = n
              /\ g.in = e.in /\ g.configured = e.configured /\ g.received = e.received
              /\ g.put = e.put /\ g.halt = e.halt /\ g.transfer = e.transfer
              /\ g.take = e.take /\ g.buf = e.buf /\ g.sel = e.sel
              /\ g.owned = e.owned /\ g.cur = e.cur /\ g.give = e.give
<1> DEFINE g == [e EXCEPT !.asked = n]
<1>1. /\ g \in Driver /\ SameBuffers(e, g) /\ g.asked = n
      /\ g.transfer = e.transfer /\ g.chain = e.chain /\ g.cur = e.cur
      /\ g.take = e.take /\ g.configured = e.configured /\ g.put = e.put
      /\ g.received = e.received /\ g.halt = e.halt
  BY DEF Sound, Driver, SameBuffers
<1> HIDE DEF g
<1>2. Places(g, p) /\ Toggles(g, h)
  BY <1>1, SameBuffersKeep DEF Sound
<1>3. Kinds(g)
  BY <1>1, KindsKeep DEF Sound, SameBuffers
<1>4. Work(g) /\ Accounts(g)
  BY <1>1 DEF Sound, Work, Accounts, SameBuffers
<1>. QED
  BY <1>1, <1>2, <1>3, <1>4 DEF Sound, g, SameBuffers

\* A reset counts the packet of the default transfer.
LEMMA RestartedSound ==
    ASSUME NEW e \in Driver, Chains(e.in, e.chain), NEW hard \in BOOLEAN,
           NEW h \in HostState, ~h.retry,
           IF hard THEN h.pid = 0
           ELSE e.halt # "on_condition" /\ Toggles(e, h) /\ Places(e, <<>>)
    PROVE  LET g == Restarted(e, hard)
           IN /\ Sound(g, <<>>, h) /\ g.asked = e.asked + 1
              /\ IsReset([e EXCEPT !.asked = @ + 1], g)
<1> DEFINE f == ResetEndpoint(e, hard)
           g == [f EXCEPT !.asked = @ + 1]
<1>1. Sound(f, <<>>, h) /\ IsReset(e, f)
  BY ResetEndpointSound
<1>2. Restarted(e, hard) = g
  BY DEF Restarted
<1> HIDE DEF f
<1>3. f.asked = e.asked /\ f.asked + 1 \in Nat
  BY <1>1, TransferFields DEF IsReset
<1>4. /\ Sound(g, <<>>, h) /\ g.asked = f.asked + 1
      /\ g.in = f.in /\ g.configured = f.configured /\ g.received = f.received
      /\ g.put = f.put /\ g.halt = f.halt /\ g.transfer = f.transfer
      /\ g.take = f.take /\ g.buf = f.buf /\ g.sel = f.sel
  BY <1>1, <1>3, AskedFields
<1> HIDE DEF g
<1>5. Sent(g) = Sent(f)
  BY <1>4 DEF Sent
<1>6. IsReset([e EXCEPT !.asked = @ + 1], g)
  BY <1>1, <1>3, <1>4, <1>5 DEF IsReset, Driver
<1>. QED
  BY <1>2, <1>3, <1>4, <1>6

\* An endpoint at rest.
LEMMA AtRest ==
    ASSUME NEW in \in BOOLEAN, NEW t \in Transfer, NEW b \in BufferControl
    PROVE  [in |-> in, configured |-> FALSE, halt |-> "none", pid |-> 0,
            owned |-> 2, give |-> 0, take |-> 0, first |-> TRUE, cur |-> NoBuffer,
            transfer |-> t, chain |-> t, buf |-> b, sel |-> 0, put |-> 0,
            received |-> <<>>, asked |-> 0] \in Driver
<1>1. <<>> \in Seq(Nat)
  OBVIOUS
<1>. QED
  BY <1>1 DEF Driver, Buffer, Halt

LEMMA InitEndpoint == EndpointInit => EndpointIInv
<1> SUFFICES ASSUME EndpointInit PROVE EndpointIInv
  OBVIOUS
<1>1. /\ ep.in \in BOOLEAN /\ ep.configured = FALSE /\ ep.halt = "none" /\ ep.pid = 0
      /\ ep.owned = 2 /\ ep.give = 0 /\ ep.take = 0 /\ ep.first = TRUE
      /\ ep.cur = NoBuffer /\ ep.transfer = NoTransfer /\ ep.chain = NoTransfer
      /\ ep.buf = FreeBuffers /\ ep.sel = 0 /\ ep.put = 0 /\ ep.received = <<>>
      /\ ep.asked = 0 /\ pending = <<>>
      /\ host = [pid |-> 0, next |-> 1, received |-> <<>>, retry |-> FALSE]
      /\ resets = 0 /\ losses = 0
  BY DEF EndpointInit
<1>2. ep \in Driver
  <2>1. FreeBuffers \in BufferControl
    BY DEF FreeBuffers, BufferControl
  <2>2. ep = [in |-> ep.in, configured |-> FALSE, halt |-> "none", pid |-> 0,
              owned |-> 2, give |-> 0, take |-> 0, first |-> TRUE, cur |-> NoBuffer,
              transfer |-> NoTransfer, chain |-> NoTransfer, buf |-> FreeBuffers,
              sel |-> 0, put |-> 0, received |-> <<>>, asked |-> 0]
    BY DEF EndpointInit
  <2>. QED
    BY <1>1, <2>1, <2>2, NoTransferType, AtRest
<1>3. host \in HostState /\ ~host.retry /\ host.pid = 0 /\ host.next = 1
  BY <1>1 DEF HostState
<1>4. ~ep.buf[0].avail /\ ~ep.buf[1].avail
  BY <1>1 DEF FreeBuffers, Buffer
<1>5. Places(ep, pending)
  BY <1>1, <1>4 DEF Places
<1>6. Toggles(ep, host)
  BY <1>1, <1>3, <1>4 DEF Toggles, NextToggle, Buffer
<1>7. /\ ep.transfer.kind = "none" /\ ep.transfer.queued = FALSE
      /\ ep.transfer.outstanding = 0 /\ ep.transfer.toSubmit = 0
      /\ ep.transfer.toHandle = 0 /\ ep.transfer.holds = {}
  BY <1>1 DEF NoTransfer
<1>8. Kinds(ep)
  BY <1>1, <1>7 DEF Kinds
<1>9. Work(ep) /\ Accounts(ep)
  BY <1>1, <1>7 DEF Work, Accounts
<1>10. HostTypeOK
  BY <1>3, EndpointAssumption DEF HostTypeOK
<1>. QED
  BY <1>1, <1>2, <1>5, <1>6, <1>8, <1>9, <1>10, EndpointAssumption
     DEF EndpointIInv, Sound

-----------------------------------------------------------------------------
(***************************************************************************)
(* The actions.                                                            *)
(***************************************************************************)

LEMMA InvariantFields ==
    ASSUME EndpointIInv
    PROVE  /\ ep \in Driver /\ host \in HostState
           /\ host.pid \in {0, 1} /\ host.retry \in BOOLEAN /\ host.next \in Nat
           /\ host.received \in Seq(Nat)
           /\ host.next \in 1..(MaxPackets + 1) /\ ep.asked \in Nat
           /\ MaxPackets \in Nat /\ MaxResets \in Nat /\ MaxLosses \in Nat
           /\ resets \in Nat /\ losses \in Nat
<1>1. ep \in Driver /\ host \in HostState
  BY DEF EndpointIInv, Sound, HostTypeOK
<1>. QED
  BY <1>1, TransferFields, EndpointAssumption DEF EndpointIInv, HostTypeOK, HostState

\* The buffer the controller turns to has the toggle of the packet to come.
LEMMA ReadyToggle ==
    ASSUME EndpointIInv, Ready(ep.sel)
    PROVE  /\ ep.buf[ep.sel].avail /\ ep.buf[ep.sel].pid = NextToggle(host)
           /\ ep.sel \in Buffer
<1>1. ep.sel \in Buffer
  BY InvariantFields DEF Driver
<1>. QED
  BY <1>1 DEF EndpointIInv, Sound, Toggles, Ready

LEMMA HostGoesOnFields ==
    ASSUME EndpointIInv
    PROVE  /\ HostGoesOn \in HostState /\ HostGoesOn.pid = 1 - host.pid
           /\ HostGoesOn.next = host.next + 1 /\ ~HostGoesOn.retry
           /\ HostGoesOn.received = host.received
<1>1. /\ host \in HostState /\ 1 - host.pid \in {0, 1} /\ host.next + 1 \in Nat
  BY InvariantFields
<1>. QED
  BY <1>1 DEF HostGoesOn, HostState

LEMMA HostSendsStep ==
    ASSUME EndpointIInv, NEW ack \in BOOLEAN, HostSends(ack), CountLoss(ack),
           UNCHANGED resets
    PROVE  /\ EndpointIInv' /\ ~host.retry /\ ep.buf[ep.sel].avail
           /\ Alike(ep, ep') /\ ep'.transfer = ep.transfer
           /\ ep'.buf[ep.sel].packet = host.next
           /\ ep'.buf[1 - ep.sel] = ep.buf[1 - ep.sel]
<1> DEFINE full == TRUE
           g == DoneWith(ep, full, host.next)
<1>1. /\ ~ep.in /\ Ready(ep.sel) /\ host.next <= MaxPackets
      /\ ep.buf[ep.sel].pid = host.pid
      /\ ep' = g /\ pending' = Append(pending, ep.sel)
      /\ host' = IF ack THEN HostGoesOn ELSE [host EXCEPT !.retry = TRUE]
  BY DEF HostSends, BufferDone, DoneWith
<1>2. host.pid = NextToggle(host) /\ ep.buf[ep.sel].avail
  BY <1>1, ReadyToggle
<1>3. ~host.retry
  BY <1>2, InvariantFields DEF NextToggle
<1>4. /\ host' \in HostState /\ NextToggle(host') = 1 - NextToggle(host)
      /\ host'.next \in 1..(MaxPackets + 1)
      /\ host'.retry => host'.next <= MaxPackets
  <2>1. host.pid \in {0, 1} /\ host.next + 1 \in Nat /\ host.received \in Seq(Nat)
    BY InvariantFields
  <2>2. CASE ack
    <3>1. host' = HostGoesOn
      BY <1>1, <2>2
    <3>2. /\ host' \in HostState /\ host'.pid = 1 - host.pid
          /\ host'.next = host.next + 1 /\ ~host'.retry
      BY <3>1, HostGoesOnFields
    <3>. QED
      BY <1>1, <1>3, <3>2, InvariantFields DEF NextToggle
  <2>3. CASE ~ack
    <3>1. host' = [host EXCEPT !.retry = TRUE] /\ host \in HostState
      BY <1>1, <2>3, InvariantFields
    <3>2. /\ host' \in HostState /\ host'.pid = host.pid
          /\ host'.next = host.next /\ host'.retry
      BY <3>1 DEF HostState
    <3>. QED
      BY <1>1, <1>3, <3>2, InvariantFields DEF NextToggle
  <2>. QED
    BY <2>2, <2>3
<1>5. /\ Sound(g, Append(pending, ep.sel), host') /\ Alike(ep, g)
      /\ g.transfer = ep.transfer /\ g.buf[ep.sel].packet = host.next
      /\ g.buf[1 - ep.sel] = ep.buf[1 - ep.sel]
  <2>1. Sound(ep, pending, host)
    BY DEF EndpointIInv
  <2>2. /\ host \in HostState /\ host.next \in Nat /\ full \in BOOLEAN
        /\ ep.in => ~host'.retry
    BY <1>1, InvariantFields
  <2> HIDE DEF full
  <2>. QED
    BY <1>2, <1>4, <2>1, <2>2, BufferDoneSound
<1> HIDE DEF g
<1>6. ep'.asked = ep.asked /\ ep'.in = ep.in
  BY <1>1, <1>5 DEF Alike
<1>7. resets' \in 0..MaxResets /\ losses' \in 0..MaxLosses
  BY InvariantFields DEF CountLoss, EndpointIInv
<1>. QED
  BY <1>1, <1>2, <1>3, <1>4, <1>5, <1>6, <1>7 DEF EndpointIInv, HostTypeOK

LEMMA HostRepeatsStep ==
    ASSUME EndpointIInv, HostRepeats, UNCHANGED <<resets, losses>>
    PROVE  EndpointIInv' /\ host.retry
<1>1. /\ ~ep.in /\ Ready(ep.sel) /\ host.next <= MaxPackets
      /\ ep.buf[ep.sel].pid # host.pid /\ ep' = ep /\ pending' = pending
      /\ host' = HostGoesOn
  BY DEF HostRepeats
<1>2. host.retry
  BY <1>1, ReadyToggle DEF NextToggle
<1>3. /\ host' \in HostState /\ NextToggle(host') = NextToggle(host)
      /\ host'.next \in 1..(MaxPackets + 1) /\ ~host'.retry
  <2>1. /\ host' \in HostState /\ host'.pid = 1 - host.pid
        /\ host'.next = host.next + 1 /\ ~host'.retry
    BY <1>1, HostGoesOnFields
  <2>. QED
    BY <1>1, <1>2, <2>1, InvariantFields DEF NextToggle
<1>4. Toggles(ep, host')
  BY <1>3 DEF EndpointIInv, Sound, Toggles
<1>. QED
  BY <1>1, <1>2, <1>3, <1>4 DEF EndpointIInv, Sound, HostTypeOK

LEMMA HostReceivesStep ==
    ASSUME EndpointIInv, NEW ack \in BOOLEAN, HostReceives(ack), CountLoss(ack),
           UNCHANGED resets
    PROVE  /\ EndpointIInv' /\ ep.buf[ep.sel].avail
           /\ ep.buf[ep.sel].pid = host.pid <=> ~host.retry
           /\ ack => /\ Alike(ep, ep') /\ ep'.put = ep.put /\ ep'.sel = 1 - ep.sel
                     /\ ~ep'.buf[ep.sel].avail
                     /\ ep'.buf[1 - ep.sel] = ep.buf[1 - ep.sel]
           /\ ~ack => ep' = ep
<1> DEFINE b == ep.buf[ep.sel]
           full == FALSE
           g == DoneWith(ep, full, b.packet)
           k == [host EXCEPT !.pid = IF b.pid = host.pid THEN 1 - @ ELSE @,
                             !.received = IF b.pid = host.pid
                                          THEN Append(@, b.packet) ELSE @,
                             !.retry = ~ack]
<1>1. /\ ep.in /\ Ready(ep.sel) /\ (~ack => b.pid = host.pid)
      /\ host' = k
      /\ ack => ep' = g /\ pending' = Append(pending, ep.sel)
      /\ ~ack => ep' = ep /\ pending' = pending
  BY DEF HostReceives, BufferDone, DoneWith
<1> HIDE DEF g, k
<1>2. b.pid = NextToggle(host) /\ b.avail
  <2>1. Ready(ep.sel)
    BY <1>1
  <2>. QED
    BY <2>1, ReadyToggle
<1>3. b.pid = host.pid <=> ~host.retry
  BY <1>2, InvariantFields DEF NextToggle
<1>4. b.packet \in Nat
  BY InvariantFields, TransferFields
<1>5. /\ k \in HostState /\ k.next = host.next /\ (k.retry <=> ~ack)
      /\ k.pid = IF b.pid = host.pid THEN 1 - host.pid ELSE host.pid
  <2>1. /\ Append(host.received, b.packet) \in Seq(Nat) /\ host.received \in Seq(Nat)
        /\ 1 - host.pid \in {0, 1} /\ host.pid \in {0, 1} /\ host \in HostState
    BY <1>4, InvariantFields
  <2> HIDE DEF b
  <2>. QED
    BY <2>1 DEF HostState, k
<1>6. NextToggle(k) = IF ack THEN 1 - NextToggle(host) ELSE NextToggle(host)
  <2> HIDE DEF b
  <2>. QED
    BY <1>1, <1>3, <1>5, InvariantFields DEF NextToggle
<1>7. /\ Sound(ep', pending', k) /\ ep'.asked = ep.asked /\ ep'.in = ep.in
      /\ ack => /\ Alike(ep, ep') /\ ep'.put = ep.put /\ ep'.sel = 1 - ep.sel
                /\ ~ep'.buf[ep.sel].avail
                /\ ep'.buf[1 - ep.sel] = ep.buf[1 - ep.sel]
  <2>1. Sound(ep, pending, host)
    BY DEF EndpointIInv
  <2>2. CASE ack
    <3>1. /\ host \in HostState /\ full \in BOOLEAN
          /\ NextToggle(k) = 1 - NextToggle(host) /\ ~k.retry
      BY <1>5, <1>6, <2>2, InvariantFields
    <3> HIDE DEF full
    <3>2. /\ Sound(g, Append(pending, ep.sel), k) /\ Alike(ep, g)
          /\ g.put = ep.put /\ g.sel = 1 - ep.sel /\ ~g.buf[ep.sel].avail
          /\ g.buf[1 - ep.sel] = ep.buf[1 - ep.sel]
      BY <1>2, <1>4, <1>5, <2>1, <3>1, BufferDoneSound DEF g
    <3>. QED
      BY <1>1, <2>2, <3>2 DEF Alike
  <2>3. CASE ~ack
    <3>1. Toggles(ep, k)
      BY <1>2, <1>6, <2>1, <2>3 DEF Sound, Toggles
    <3>. QED
      BY <1>1, <2>1, <2>3, <3>1 DEF Sound
  <2>. QED
    BY <2>2, <2>3
<1>8. resets' \in 0..MaxResets /\ losses' \in 0..MaxLosses
  BY InvariantFields DEF CountLoss, EndpointIInv
<1>9. HostTypeOK'
  <2>1. host' = k /\ ep'.in
    BY <1>1, <1>7
  <2>. QED
    BY <1>5, <2>1, InvariantFields DEF HostTypeOK
<1>10. ep'.asked <= MaxPackets
  BY <1>7 DEF EndpointIInv
<1>. QED
  BY <1>1, <1>2, <1>3, <1>7, <1>8, <1>9, <1>10 DEF EndpointIInv

LEMMA HandleBufferStep ==
    ASSUME EndpointIInv, HandleBuffer
    PROVE  EndpointIInv' /\ Handles(ep, Head(pending), ep')
<1>1. PICK answer \in Answer :
          /\ ep.asked + answer.chain.size <= MaxPackets
          /\ answer.halt = "none" \/ resets < MaxResets
          /\ resets' = IF answer.halt = "none" THEN resets ELSE resets + 1
          /\ ep' = HandleTransfer(ep, Head(pending), answer)
  BY DEF HandleBuffer
<1>2. pending # <<>> /\ pending' = Tail(pending) /\ host' = host /\ losses' = losses
  BY DEF HandleBuffer
<1>3. Answers(answer) /\ answer.chain.size \in Nat
  BY AnswersOK
<1>4. Sound(ep, pending, host)
  BY DEF EndpointIInv
<1>5. /\ Sound(ep', pending', host') /\ Handles(ep, Head(pending), ep')
      /\ ep'.asked \in {ep.asked, ep.asked + answer.chain.size}
  BY <1>1, <1>2, <1>3, <1>4, InvariantFields, HandleTransferSound
<1>6. ep'.asked <= MaxPackets /\ ep'.in = ep.in
  BY <1>1, <1>3, <1>5, InvariantFields DEF EndpointIInv, Handles
<1>7. resets' \in 0..MaxResets /\ losses' \in 0..MaxLosses
  BY <1>1, <1>2, InvariantFields DEF EndpointIInv
<1>. QED
  BY <1>2, <1>5, <1>6, <1>7 DEF EndpointIInv, HostTypeOK

LEMMA ClientStartsStep ==
    ASSUME EndpointIInv, ClientStarts
    PROVE  EndpointIInv' /\ GaveOnly([ep EXCEPT !.asked = ep'.asked], ep')
           /\ ~ep'.transfer.queued /\ ~ep.transfer.queued
<1>1. PICK t \in IF ep.in THEN Streams(TRUE, MaxSize)
                 ELSE {Default, NewTransfer("stream", 1, {})} :
          /\ ep.asked + t.size <= MaxPackets
          /\ ep' = StartTransfer([ep EXCEPT !.asked = @ + t.size], t)
  BY DEF ClientStarts
<1>2. /\ ep.configured /\ ep.transfer = NoTransfer /\ ep.halt = "none"
      /\ pending' = pending /\ host' = host /\ resets' = resets /\ losses' = losses
  BY DEF ClientStarts
<1>3. Fresh(ep.in, t) /\ t.size \in Nat
  <2>1. CASE ep.in
    BY <1>1, <2>1, StreamsFresh DEF Fresh, Transfer
  <2>2. CASE ~ep.in
    BY <1>1, <2>2, NewTransferFields DEF Fresh, Default
  <2>. QED
    BY <2>1, <2>2, InvariantFields DEF Driver
<1>4. Sound(ep, pending, host)
  BY DEF EndpointIInv
<1>5. ep.owned = 2 /\ ~ep.transfer.queued
  <2>1. /\ ep.transfer.toHandle = 0 /\ ep.transfer.toSubmit = 0
        /\ ep.transfer.queued = FALSE
    BY <1>2 DEF NoTransfer
  <2>2. 0 = 0 + (2 - ep.owned) + 0
    BY <1>2, <1>4, <2>1 DEF Sound, Accounts
  <2>3. ep.owned \in {0, 1, 2}
    BY InvariantFields, TransferFields
  <2>. QED
    BY <2>1, <2>2, <2>3
<1> DEFINE n == ep.asked + t.size
           e == [ep EXCEPT !.asked = n]
<1>6. n \in Nat
  BY <1>3, InvariantFields
<1>7. /\ Sound(e, pending, host) /\ e.asked = n
      /\ e.in = ep.in /\ e.configured = ep.configured
      /\ e.halt = ep.halt /\ e.owned = ep.owned /\ e.cur = ep.cur /\ e.give = ep.give
  <2> HIDE DEF n
  <2>. QED
    BY <1>4, <1>6, AskedFields
<1>8. ep' = StartTransfer(e, t)
  BY <1>1, InvariantFields DEF Driver
<1> HIDE DEF e, n
<1>9. e.in => e.cur \in {NoBuffer, e.give}
  BY <1>7 DEF Sound, Work
<1>10. Sound(ep', pending, host) /\ GaveOnly(e, ep') /\ ~ep'.transfer.queued
  BY <1>2, <1>3, <1>5, <1>7, <1>8, <1>9, InvariantFields, StartTransferSound DEF Sound
<1>11. ep'.asked = n /\ ep'.in = ep.in
  BY <1>7, <1>10 DEF GaveOnly
<1>. QED
  BY <1>1, <1>2, <1>5, <1>10, <1>11 DEF EndpointIInv, HostTypeOK, e, n

\* A stall first, if the work on the packet fails.
LEMMA ClientDoneStep ==
    ASSUME EndpointIInv, NEW fails \in BOOLEAN, ClientDone(fails)
    PROVE  /\ EndpointIInv'
           /\ HeldIsOver(IF fails THEN Stall(ep, "halted") ELSE ep, ep')
<1> DEFINE e == IF fails THEN Stall(ep, "halted") ELSE ep
<1>1. /\ ep.transfer.outstanding > 0 /\ (fails => resets < MaxResets)
      /\ resets' = IF fails THEN resets + 1 ELSE resets
      /\ ep' = HeldPacketDone(e)
      /\ pending' = pending /\ host' = host /\ losses' = losses
  BY DEF ClientDone
<1>2. Sound(e, pending, host) /\ e.transfer = ep.transfer /\ e.asked = ep.asked
      /\ e.in = ep.in
  BY StallSound DEF EndpointIInv, Halt
<1> HIDE DEF e
<1>3. Sound(ep', pending, host) /\ HeldIsOver(e, ep') /\ ep'.asked = e.asked
  BY <1>1, <1>2, InvariantFields, HeldPacketDoneSound
<1>4. ep'.in = ep.in
  BY <1>2, <1>3 DEF HeldIsOver
<1>5. resets' \in 0..MaxResets
  BY <1>1, InvariantFields DEF EndpointIInv
<1>. QED
  BY <1>1, <1>2, <1>3, <1>4, <1>5 DEF EndpointIInv, HostTypeOK, e

LEMMA HaltsStep ==
    ASSUME EndpointIInv, EndpointHalts \/ CommandHalts
    PROVE  /\ EndpointIInv' /\ ep'.halt # "none" /\ ep'.in = ep.in
           /\ ep'.put = ep.put /\ ep'.received = ep.received
           /\ ep'.transfer = ep.transfer /\ ep'.take = ep.take
           /\ ep'.buf = ep.buf /\ ep'.sel = ep.sel
           /\ pending' = pending /\ host' = host
<1>1. PICK level \in Halt \ {"none"} : ep' = Stall(ep, level)
  BY DEF EndpointHalts, CommandHalts, Halt
<1>2. /\ resets < MaxResets /\ resets' = resets + 1
      /\ pending' = pending /\ host' = host /\ losses' = losses
  BY DEF EndpointHalts, CommandHalts
<1>3. Sound(ep, pending, host)
  BY DEF EndpointIInv
<1>4. /\ Sound(ep', pending, host) /\ ep'.halt # "none" /\ ep'.in = ep.in
      /\ ep'.put = ep.put /\ ep'.received = ep.received /\ ep'.asked = ep.asked
      /\ ep'.transfer = ep.transfer /\ ep'.take = ep.take
      /\ ep'.buf = ep.buf /\ ep'.sel = ep.sel
  BY <1>1, <1>3, StallSound
<1>5. resets' \in 0..MaxResets
  BY <1>2, InvariantFields
<1>. QED
  BY <1>2, <1>4, <1>5 DEF EndpointIInv, HostTypeOK

LEMMA HostResetFields ==
    ASSUME EndpointIInv
    PROVE  /\ HostReset \in HostState /\ HostReset.pid = 0 /\ ~HostReset.retry
           /\ HostReset.received = host.received
           /\ HostReset.next \in 1..(MaxPackets + 1)
           /\ ~ep.in => HostReset.next = IF host.retry THEN host.next + 1 ELSE host.next
<1> DEFINE n == IF host.next <= MaxPackets /\ host.retry /\ ~ep.in
                THEN host.next + 1 ELSE host.next
<1>1. n \in 1..(MaxPackets + 1) /\ n \in Nat /\ host \in HostState
  BY InvariantFields
<1>2. ~ep.in => n = IF host.retry THEN host.next + 1 ELSE host.next
  BY DEF EndpointIInv, HostTypeOK
<1>3. HostReset = [host EXCEPT !.pid = 0, !.retry = FALSE, !.next = n]
  BY DEF HostReset
<1> HIDE DEF n
<1>4. /\ HostReset \in HostState /\ HostReset.pid = 0 /\ ~HostReset.retry
      /\ HostReset.next = n /\ HostReset.received = host.received
  BY <1>1, <1>3 DEF HostState
<1>. QED
  BY <1>1, <1>2, <1>4

LEMMA ChainsKept == ASSUME EndpointIInv PROVE Chains(ep.in, ep.chain)
BY DEF EndpointIInv, Sound, Kinds, Chains

LEMMA OneMore ==
    ASSUME NEW m \in Nat, NEW n \in Nat, m < n
    PROVE  m + 1 <= n
OBVIOUS

\* The toggles start again, on both sides.
LEMMA HardReset ==
    ASSUME EndpointIInv, ep' = Restarted(ep, TRUE), host' = HostReset, pending' = <<>>,
           ep.asked < MaxPackets, resets' \in 0..MaxResets, losses' \in 0..MaxLosses
    PROVE  EndpointIInv' /\ IsReset([ep EXCEPT !.asked = @ + 1], ep')
<1>1. Chains(ep.in, ep.chain) /\ ep \in Driver /\ TRUE \in BOOLEAN
  BY ChainsKept, InvariantFields
<1>2. /\ Sound(ep', <<>>, HostReset) /\ ep'.asked = ep.asked + 1
      /\ IsReset([ep EXCEPT !.asked = @ + 1], ep')
  BY <1>1, HostResetFields, RestartedSound
<1>3. HostTypeOK'
  BY HostResetFields DEF HostTypeOK
<1>4. ep'.asked <= MaxPackets
  <2>1. ep.asked \in Nat /\ MaxPackets \in Nat /\ ep.asked < MaxPackets
    BY InvariantFields
  <2>2. ep'.asked = ep.asked + 1
    BY <1>2
  <2>. QED
    BY <2>1, <2>2, OneMore
<1>. QED
  BY <1>2, <1>3, <1>4 DEF EndpointIInv

LEMMA HostClearsHaltStep ==
    ASSUME EndpointIInv, QuietReset, HostClearsHalt
    PROVE  /\ EndpointIInv'
           /\ IF ep.halt = "on_condition"
              THEN /\ ep' = [ep EXCEPT !.pid = 0] /\ host' = [host EXCEPT !.pid = 0]
                   /\ pending' = pending
              ELSE /\ IsReset([ep EXCEPT !.asked = @ + 1], ep')
                   /\ host' = HostReset /\ pending' = <<>>
<1>1. /\ pending = <<>> /\ pending' = pending /\ ep.asked < MaxPackets
      /\ resets' \in 0..MaxResets /\ losses' \in 0..MaxLosses
  BY InvariantFields DEF HostClearsHalt, CountReset, EndpointIInv
<1>2. CASE ep.halt = "on_condition"
  <2>1. ep' = [ep EXCEPT !.pid = 0] /\ host' = [host EXCEPT !.pid = 0]
    BY <1>2 DEF HostClearsHalt
  <2>2. Sound(ep, pending, host)
    BY DEF EndpointIInv
  <2>3. /\ ep' \in Driver /\ ep'.buf = ep.buf /\ ep'.sel = ep.sel
        /\ ep'.owned = ep.owned /\ ep'.give = ep.give /\ ep'.take = ep.take
        /\ ep'.first = ep.first /\ ep'.halt = ep.halt /\ ep'.in = ep.in
        /\ ep'.transfer = ep.transfer /\ ep'.chain = ep.chain /\ ep'.cur = ep.cur
        /\ ep'.configured = ep.configured /\ ep'.asked = ep.asked
    BY <2>1, InvariantFields DEF Driver
  <2>4. /\ host' \in HostState /\ host'.retry = host.retry
        /\ host'.next = host.next
    BY <2>1, InvariantFields DEF HostState
  <2>5. Places(ep', pending)
    BY <2>2, <2>3 DEF Sound, Places
  <2>6. Toggles(ep', host')
    BY <1>2, <2>2, <2>3, <2>4 DEF Sound, Toggles
  <2>7. Kinds(ep')
    BY <2>2, <2>3, KindsKeep DEF Sound
  <2>8. Work(ep') /\ Accounts(ep')
    BY <2>2, <2>3 DEF Sound, Work, Accounts
  <2>9. HostTypeOK' /\ ep'.asked <= MaxPackets
    BY <2>3, <2>4, InvariantFields DEF HostTypeOK, EndpointIInv
  <2>. QED
    BY <1>1, <1>2, <2>1, <2>3, <2>5, <2>6, <2>7, <2>8, <2>9
       DEF EndpointIInv, Sound
<1>3. CASE ep.halt # "on_condition"
  <2>1. ep' = Restarted(ep, TRUE) /\ host' = HostReset /\ pending' = <<>>
    BY <1>1, <1>3 DEF HostClearsHalt
  <2>. QED
    BY <1>1, <1>3, <2>1, HardReset
<1>. QED
  BY <1>2, <1>3

LEMMA HostResetsInterfaceStep ==
    ASSUME EndpointIInv, QuietReset, HostResetsInterface
    PROVE  /\ EndpointIInv' /\ IsReset([ep EXCEPT !.asked = @ + 1], ep')
           /\ host' \in {HostReset, host} /\ pending' = <<>> /\ ~host.retry
<1>1. /\ pending = <<>> /\ pending' = <<>> /\ ~host.retry /\ ep.asked < MaxPackets
      /\ resets' \in 0..MaxResets /\ losses' \in 0..MaxLosses
  BY InvariantFields DEF HostResetsInterface, CountReset, EndpointIInv
<1>2. CASE ep.halt = "on_condition"
  BY <1>1, <1>2, HardReset DEF HostResetsInterface
<1>3. CASE ep.halt # "on_condition"
  <2>1. ep' = Restarted(ep, FALSE) /\ host' = [host EXCEPT !.retry = FALSE]
    BY <1>3 DEF HostResetsInterface
  <2>2. host' = host
    BY <1>1, <2>1, InvariantFields DEF HostState
  <2>3. /\ Toggles(ep, host) /\ Places(ep, <<>>) /\ FALSE \in BOOLEAN
        /\ Chains(ep.in, ep.chain) /\ ep \in Driver
    BY <1>1, ChainsKept, InvariantFields DEF EndpointIInv, Sound
  <2>4. /\ Sound(ep', <<>>, host) /\ ep'.asked = ep.asked + 1
        /\ IsReset([ep EXCEPT !.asked = @ + 1], ep')
    BY <1>1, <1>3, <2>1, <2>3, InvariantFields, RestartedSound
  <2>5. HostTypeOK' /\ ep'.asked <= MaxPackets
    BY <1>1, <2>2, <2>4, InvariantFields DEF HostTypeOK
  <2>. QED
    BY <1>1, <2>2, <2>4, <2>5 DEF EndpointIInv
<1>. QED
  BY <1>2, <1>3

LEMMA HostConfiguresStep ==
    ASSUME EndpointIInv, HostConfigures
    PROVE  /\ EndpointIInv' /\ host' = HostReset /\ pending' = <<>>
           /\ ep'.in = ep.in /\ ep'.received = ep.received /\ ep'.halt = "none"
           /\ ~ep'.transfer.queued
           /\ ep.in => ep'.put = ep.put /\ Sent(ep') = <<>>
<1> DEFINE e == [ep EXCEPT !.configured = TRUE]
           f == ResetEndpoint(e, TRUE)
<1>1. /\ ep' = Restarted(f, FALSE) /\ host' = HostReset /\ ~ep.configured
      /\ ep.asked < MaxPackets /\ pending' = pending /\ resets' = resets
      /\ losses' = losses
  BY DEF HostConfigures
<1>2. pending = <<>>
  BY <1>1 DEF EndpointIInv, Sound, Kinds, Places
<1>3. /\ e \in Driver /\ e.chain = ep.chain /\ e.in = ep.in
      /\ e.received = ep.received /\ e.asked = ep.asked /\ e.put = ep.put
  BY InvariantFields DEF Driver
<1> HIDE DEF e
<1>4. Sound(f, <<>>, HostReset) /\ IsReset(e, f)
  BY <1>3, ChainsKept, HostResetFields, ResetEndpointSound
<1> HIDE DEF f
<1>5. /\ f \in Driver /\ Toggles(f, HostReset) /\ Places(f, <<>>)
      /\ Chains(f.in, f.chain) /\ f.halt = "none" /\ FALSE \in BOOLEAN
  BY <1>4 DEF Sound, Kinds, Chains, IsReset
<1> DEFINE x == [f EXCEPT !.asked = @ + 1]
<1>6. /\ Sound(ep', <<>>, HostReset) /\ ep'.asked = f.asked + 1
      /\ IsReset(x, ep')
  BY <1>1, <1>5, HostResetFields, RestartedSound
<1>7. /\ x.in = f.in /\ x.received = f.received /\ x.put = f.put
  BY <1>5 DEF Driver
<1> HIDE DEF x
<1>8. /\ ep'.in = ep.in /\ ep'.received = ep.received /\ ep'.halt = "none"
      /\ ~ep'.transfer.queued /\ ep'.asked = ep.asked + 1
      /\ ep.in => ep'.put = ep.put /\ Sent(ep') = <<>>
  BY <1>3, <1>4, <1>6, <1>7 DEF IsReset
<1>9. HostTypeOK'
  BY <1>1, HostResetFields DEF HostTypeOK
<1>10. ep'.asked <= MaxPackets
  <2>1. ep.asked \in Nat /\ MaxPackets \in Nat /\ ep.asked < MaxPackets
    BY <1>1, InvariantFields
  <2>2. ep'.asked = ep.asked + 1
    BY <1>8
  <2>. QED
    BY <2>1, <2>2
<1>11. resets' \in 0..MaxResets /\ losses' \in 0..MaxLosses
  BY <1>1 DEF EndpointIInv
<1>. QED
  BY <1>1, <1>2, <1>6, <1>8, <1>9, <1>10, <1>11
     DEF EndpointIInv

LEMMA BusResetStep ==
    ASSUME EndpointIInv, BusReset
    PROVE  /\ EndpointIInv' /\ host' = HostReset /\ pending' = <<>>
           /\ ep'.in = ep.in /\ ep'.received = ep.received /\ ep'.halt = "none"
           /\ ~ep'.transfer.queued
           /\ ep.in => ep'.put = ep.put /\ Sent(ep') = <<>>
<1> DEFINE e == [ep EXCEPT !.configured = FALSE]
<1>1. /\ ep' = Restarted(e, TRUE) /\ host' = HostReset /\ pending' = <<>>
      /\ ep.asked < MaxPackets /\ resets' \in 0..MaxResets /\ losses' \in 0..MaxLosses
  BY InvariantFields DEF BusReset, CountReset, EndpointIInv
<1>2. /\ e \in Driver /\ e.chain = ep.chain /\ e.in = ep.in
      /\ e.received = ep.received /\ e.asked = ep.asked /\ e.put = ep.put
  BY InvariantFields DEF Driver
<1> HIDE DEF e
<1> DEFINE x == [e EXCEPT !.asked = @ + 1]
<1>3. /\ Sound(ep', <<>>, HostReset) /\ ep'.asked = e.asked + 1
      /\ IsReset(x, ep')
  <2>1. TRUE \in BOOLEAN /\ Chains(e.in, e.chain)
    BY <1>2, ChainsKept
  <2>. QED
    BY <1>1, <1>2, <2>1, HostResetFields, RestartedSound
<1>4. /\ x.in = e.in /\ x.received = e.received /\ x.put = e.put
  BY <1>2 DEF Driver
<1> HIDE DEF x
<1>5. /\ ep'.in = ep.in /\ ep'.received = ep.received /\ ep'.halt = "none"
      /\ ~ep'.transfer.queued /\ ep'.asked = ep.asked + 1
      /\ ep.in => ep'.put = ep.put /\ Sent(ep') = <<>>
  BY <1>2, <1>3, <1>4 DEF IsReset
<1>6. HostTypeOK'
  BY <1>1, HostResetFields DEF HostTypeOK
<1>7. ep'.asked <= MaxPackets
  <2>1. ep.asked \in Nat /\ MaxPackets \in Nat /\ ep.asked < MaxPackets
    BY <1>1, InvariantFields
  <2>2. ep'.asked = ep.asked + 1
    BY <1>5
  <2>. QED
    BY <2>1, <2>2
<1>. QED
  BY <1>1, <1>3, <1>5, <1>6, <1>7 DEF EndpointIInv

LEMMA EndpointStep ==
    ASSUME EndpointIInv, QuietReset, [EndpointNext]_endpointVars
    PROVE  EndpointIInv'
<1>1. CASE Transaction
  <2>1. ASSUME NEW ack \in BOOLEAN, CountLoss(ack), HostSends(ack) \/ HostReceives(ack),
               UNCHANGED resets
        PROVE  EndpointIInv'
    BY <2>1, HostSendsStep, HostReceivesStep
  <2>. QED
    BY <1>1, <2>1, HostRepeatsStep DEF Transaction
<1>2. CASE HandleBuffer
  BY <1>2, HandleBufferStep
<1>3. CASE ClientStarts
  BY <1>3, ClientStartsStep
<1>4. ASSUME NEW fails \in BOOLEAN, ClientDone(fails) PROVE EndpointIInv'
  BY <1>4, ClientDoneStep
<1>5. CASE EndpointHalts \/ CommandHalts
  BY <1>5, HaltsStep
<1>6. CASE HostClearsHalt
  BY <1>6, HostClearsHaltStep
<1>7. CASE HostResetsInterface
  BY <1>7, HostResetsInterfaceStep
<1>8. CASE HostConfigures
  BY <1>8, HostConfiguresStep
<1>9. CASE BusReset
  BY <1>9, BusResetStep
<1>10. CASE UNCHANGED endpointVars
  BY <1>10 DEF endpointVars, EndpointIInv, HostTypeOK
<1>. QED
  BY <1>1, <1>2, <1>3, <1>4, <1>5, <1>6, <1>7, <1>8, <1>9, <1>10 DEF EndpointNext

-----------------------------------------------------------------------------
(***************************************************************************)
(* The invariants.                                                         *)
(***************************************************************************)

LEMMA SomeBuffers ==
    /\ <<>> \in Seq(Buffer) /\ Len(<<>>) = 0
    /\ \A b \in Buffer : <<b>> \in Seq(Buffer) /\ Len(<<b>>) = 1 /\ <<b>>[1] = b
    /\ \A b, c \in Buffer : <<b, c>> \in Seq(Buffer) /\ Len(<<b, c>>) = 2
OBVIOUS

LEMMA OneIf ==
    ASSUME NEW yes \in BOOLEAN, NEW b \in Buffer
    PROVE  LET s == IF yes THEN <<b>> ELSE <<>>
           IN s \in Seq(Buffer) /\ Len(s) = IF yes THEN 1 ELSE 0
BY SomeBuffers

\* Where the buffers are that the driver does not own.
LEMMA PlacesCounted ==
    ASSUME EndpointIInv
    PROVE  /\ pending \in Seq(Buffer) /\ Given \in Seq(Buffer)
           /\ ep.owned + Len(Given) + Len(pending) = 2
           /\ ep.owned = 2 => pending = <<>>
           /\ ep.owned = 1 => \A i \in 1..Len(pending) : pending[i] # ep.give
<1>1. /\ Places(ep, pending) /\ ep.owned \in {0, 1, 2} /\ ep.give \in {0, 1}
      /\ ep.sel \in {0, 1} /\ \A b \in {0, 1} : ep.buf[b].avail \in BOOLEAN
      /\ ep.give \in Buffer /\ 1 - ep.give \in Buffer
      /\ ep.sel \in Buffer /\ 1 - ep.sel \in Buffer
  BY InvariantFields, TransferFields DEF EndpointIInv, Sound, Buffer
<1> DEFINE given(b) == IF ep.buf[b].avail THEN <<b>> ELSE <<>>
           n(b) == IF ep.buf[b].avail THEN 1 ELSE 0
<1>2. \A b \in Buffer : given(b) \in Seq(Buffer) /\ Len(given(b)) = n(b)
  <2>1. \A b \in Buffer : ep.buf[b].avail \in BOOLEAN
    BY <1>1 DEF Buffer
  <2>. QED
    BY <2>1, OneIf
<1>3. Given = given(ep.sel) \o given(1 - ep.sel)
  BY DEF Given
<1> HIDE DEF given
<1>4. Given \in Seq(Buffer) /\ Len(Given) = n(0) + n(1)
  <2>1. Given \in Seq(Buffer) /\ Len(Given) = n(ep.sel) + n(1 - ep.sel)
    <3> HIDE DEF n
    <3> DEFINE x == given(ep.sel)
               y == given(1 - ep.sel)
    <3>1. /\ x \in Seq(Buffer) /\ Len(x) = n(ep.sel)
          /\ y \in Seq(Buffer) /\ Len(y) = n(1 - ep.sel)
      BY <1>1, <1>2
    <3>2. Given = x \o y
      BY <1>3
    <3> HIDE DEF x, y
    <3>3. x \o y \in Seq(Buffer) /\ Len(x \o y) = Len(x) + Len(y)
      BY <3>1, ConcatProperties
    <3>. QED
      BY <3>1, <3>2, <3>3, Zenon
  <2>. QED
    BY <1>1, <2>1
<1>5. CASE ep.owned = 2
  BY <1>1, <1>4, <1>5, SomeBuffers DEF Places
<1>6. CASE ep.owned = 1
  <2>1. /\ ~ep.buf[ep.give].avail
        /\ pending = IF ep.buf[1 - ep.give].avail THEN <<>> ELSE <<1 - ep.give>>
    BY <1>1, <1>6 DEF Places
  <2>2. CASE ep.buf[1 - ep.give].avail
    BY <1>1, <1>4, <1>6, <2>1, <2>2, SomeBuffers
  <2>3. CASE ~ep.buf[1 - ep.give].avail
    <3>1. /\ pending = <<1 - ep.give>> /\ pending \in Seq(Buffer) /\ Len(pending) = 1
          /\ pending[1] = 1 - ep.give /\ 1 - ep.give # ep.give
      BY <1>1, <2>1, <2>3, SomeBuffers
    <3>2. \A i \in 1..Len(pending) : pending[i] # ep.give
      BY <3>1
    <3>. QED
      BY <1>1, <1>4, <1>6, <2>1, <2>3, <3>1, <3>2
  <2>. QED
    BY <2>2, <2>3
<1>7. CASE ep.owned = 0
  <2>1. /\ ep.buf[ep.give].avail => ep.buf[1 - ep.give].avail
        /\ pending = IF ep.buf[ep.give].avail THEN <<>>
                     ELSE IF ep.buf[1 - ep.give].avail THEN <<ep.give>>
                     ELSE <<ep.give, 1 - ep.give>>
    BY <1>1, <1>7 DEF Places
  <2>2. /\ pending \in Seq(Buffer)
        /\ Len(pending) = IF ep.buf[ep.give].avail THEN 0
                          ELSE IF ep.buf[1 - ep.give].avail THEN 1 ELSE 2
    BY <1>1, <2>1, SomeBuffers
  <2>. QED
    BY <1>1, <1>4, <1>7, <2>1, <2>2
<1>. QED
  BY <1>1, <1>5, <1>6, <1>7

LEMMA EndpointTyped == ASSUME EndpointIInv PROVE EndpointTypeOK
<1>1. ep \in Driver /\ ep.asked \in 0..MaxPackets
  BY InvariantFields DEF EndpointIInv
<1>2. ep \in [in : BOOLEAN, configured : BOOLEAN, halt : Halt, pid : {0, 1},
               owned : 0..2, give : Buffer, take : Buffer, first : BOOLEAN,
               cur : Buffer \cup {NoBuffer}, transfer : Transfer, chain : Transfer,
               buf : BufferControl,
               sel : Buffer, put : Nat, received : Seq(Nat), asked : 0..MaxPackets]
  BY <1>1 DEF Driver
<1>3. host \in [pid : {0, 1}, next : 1..(MaxPackets + 1), received : Seq(Nat),
                 retry : BOOLEAN]
  BY InvariantFields DEF HostState
<1>. QED
  BY <1>2, <1>3, PlacesCounted DEF EndpointTypeOK, BufferControl, EndpointIInv

LEMMA WaitingLength ==
    ASSUME EndpointIInv
    PROVE  /\ Waiting \in Seq(Buffer)
           /\ Len(Waiting) = Len(pending) + (IF ep.transfer.queued THEN 1 ELSE 0)
<1> DEFINE first == IF ep.transfer.queued THEN <<1 - ep.take>> ELSE <<>>
           n == IF ep.transfer.queued THEN 1 ELSE 0
<1>1. first \in Seq(Buffer) /\ Len(first) = n
  <2>1. ep.take \in {0, 1} /\ ep.transfer.queued \in BOOLEAN
    BY InvariantFields, TransferFields
  <2>2. 1 - ep.take \in Buffer
    BY <2>1 DEF Buffer
  <2>. QED
    BY <2>1, <2>2, OneIf
<1>2. Waiting = first \o pending
  BY DEF Waiting
<1>3. n \in Nat /\ Len(pending) \in Nat
  BY PlacesCounted
<1> HIDE DEF first, n
<1>4. Waiting \in Seq(Buffer) /\ Len(Waiting) = n + Len(pending)
  BY <1>1, <1>2, PlacesCounted, ConcatProperties
<1>. QED
  BY <1>3, <1>4 DEF n

LEMMA EndpointIInvImplies == ASSUME EndpointIInv PROVE EndpointInv
<1>1. /\ Work(ep) /\ Accounts(ep) /\ ep.owned \in {0, 1, 2}
      /\ ep.transfer.outstanding \in Nat /\ ep.transfer.toSubmit \in Nat
      /\ ep.transfer.toHandle \in Nat /\ ep.transfer.queued \in BOOLEAN
      /\ Len(pending) \in Nat /\ Len(Given) \in Nat
  BY InvariantFields, TransferFields, PlacesCounted DEF EndpointIInv, Sound
<1>2. OneOutstanding
  BY <1>1 DEF OneOutstanding, Work
<1>3. EveryBufferOwned
  BY PlacesCounted DEF EveryBufferOwned
<1>4. QueueHoldsOther
  <2> SUFFICES ASSUME ep.transfer.outstanding > 0
               PROVE  /\ \A i \in 1..Len(pending) : pending[i] # ep.take
                      /\ Len(Waiting) <= 1
    BY DEF QueueHoldsOther
  <2>1. /\ ep.owned >= 1 /\ (ep.owned = 1 => ep.take = ep.give)
        /\ ep.transfer.queued => ep.owned = 2
    BY <1>1 DEF Work
  <2>2. Len(pending) <= 2 - ep.owned
    BY <1>1, PlacesCounted
  <2>3. ep.owned = 2 => \A i \in 1..Len(pending) : pending[i] # ep.take
    BY PlacesCounted
  <2>4. Len(Waiting) <= 1
    BY <1>1, <2>1, <2>2, WaitingLength
  <2>. QED
    BY <1>1, <2>1, <2>3, <2>4, PlacesCounted
<1>5. NoUnexpectedPacket
  <2>1. Len(pending) <= 2 - ep.owned
    BY <1>1, PlacesCounted
  <2>2. /\ Len(pending) \in Nat /\ ep.owned \in {0, 1, 2}
        /\ ep.transfer.toSubmit \in Nat /\ ep.transfer.toHandle \in Nat
    BY <1>1, PlacesCounted, TransferFields
  <2>3. Len(Waiting) = Len(pending) + (IF ep.transfer.queued THEN 1 ELSE 0)
    BY <1>1, WaitingLength
  <2>. QED
    BY <1>1, <2>1, <2>2, <2>3 DEF NoUnexpectedPacket, Accounts
<1>. QED
  BY <1>2, <1>3, <1>4, <1>5, EndpointTyped DEF EndpointInv

THEOREM EndpointInvariant ==
    ASSUME QuietReset
    PROVE  EndpointSafety => []EndpointIInv
<1>1. EndpointInit => EndpointIInv
  BY InitEndpoint
<1>2. EndpointIInv /\ [EndpointNext]_endpointVars => EndpointIInv'
  BY EndpointStep
<1>. QED
  BY <1>1, <1>2, PTL DEF EndpointSafety

\* Each buffer has one owner, each completion a packet and a transfer it is for,
\* and one packet at most is with the client, for any chunks, transfers and
\* losses: the assertions of _usb_handle_transfer and _usb_call_on_packet hold
\* when the host resets an endpoint only at rest.
THEOREM EndpointSafe ==
    ASSUME QuietReset
    PROVE  EndpointSafety => []EndpointInv
<1>1. EndpointIInv => EndpointInv
  BY EndpointIInvImplies
<1>. QED
  BY <1>1, EndpointInvariant, PTL

-----------------------------------------------------------------------------
(***************************************************************************)
(* What the endpoint promises: the packets on their way, and the moves of  *)
(* UsbPipe.                                                                *)
(***************************************************************************)

\* The buffers that wait for the interrupt, or behind a held packet.
Queue(e, p) == (IF e.transfer.queued THEN <<1 - e.take>> ELSE <<>>) \o p

Packets(e, s) == [i \in 1..Len(s) |-> e.buf[s[i]].packet]

Unseen(e, h) == IF h.retry THEN Tail(Sent(e)) ELSE Sent(e)

OnTheWay(e, p, h) == IF e.in THEN Unseen(e, h) ELSE Packets(e, Queue(e, p))

LEMMA PacketsTyped ==
    ASSUME NEW e \in Driver, NEW s \in Seq(Buffer)
    PROVE  /\ Packets(e, s) \in Seq(Nat) /\ Len(Packets(e, s)) = Len(s)
           /\ \A i \in 1..Len(s) : Packets(e, s)[i] = e.buf[s[i]].packet
<1>1. \A i \in 1..Len(s) : e.buf[s[i]].packet \in Nat
  <2>1. \A b \in Buffer : e.buf[b].packet \in Nat
    BY TransferFields DEF Buffer
  <2>. QED
    BY <2>1, ElementOfSeq
<1>2. Len(s) \in Nat
  BY LenProperties
<1>. QED
  BY <1>1, <1>2 DEF Packets

LEMMA PacketsFew ==
    ASSUME NEW e \in Driver
    PROVE  /\ Packets(e, <<>>) = <<>>
           /\ \A b \in Buffer : Packets(e, <<b>>) = <<e.buf[b].packet>>
           /\ \A b, c \in Buffer :
                 Packets(e, <<b, c>>) = <<e.buf[b].packet, e.buf[c].packet>>
<1>1. \A b \in Buffer : e.buf[b].packet \in Nat
  BY TransferFields DEF Buffer
<1>2. Packets(e, <<>>) = <<>>
  BY DEF Packets
<1>3. ASSUME NEW b \in Buffer PROVE Packets(e, <<b>>) = <<e.buf[b].packet>>
  BY <1>1 DEF Packets
<1>4. ASSUME NEW b \in Buffer, NEW c \in Buffer
      PROVE  Packets(e, <<b, c>>) = <<e.buf[b].packet, e.buf[c].packet>>
  <2> DEFINE x == <<b, c>>
             s == Packets(e, x)
             t == <<e.buf[b].packet, e.buf[c].packet>>
  <2>1. x \in Seq(Buffer) /\ Len(x) = 2 /\ x[1] = b /\ x[2] = c
    OBVIOUS
  <2> HIDE DEF x
  <2>2. /\ s \in Seq(Nat) /\ Len(s) = 2
        /\ s[1] = e.buf[b].packet /\ s[2] = e.buf[c].packet
    BY <2>1, PacketsTyped
  <2>3. /\ t \in Seq(Nat) /\ Len(t) = 2
        /\ t[1] = e.buf[b].packet /\ t[2] = e.buf[c].packet
    BY <1>1
  <2> HIDE DEF s, t
  <2>4. \A i \in 1..Len(s) : s[i] = t[i]
    BY <2>2, <2>3
  <2>5. s = t
    BY <2>2, <2>3, <2>4, SeqEqual
  <2>. QED
    BY <2>5 DEF s, t, x
<1>. QED
  BY <1>2, <1>3, <1>4

LEMMA PacketsTail ==
    ASSUME NEW e \in Driver, NEW s \in Seq(Buffer), s # <<>>
    PROVE  /\ Packets(e, s) # <<>> /\ Head(Packets(e, s)) = e.buf[Head(s)].packet
           /\ Packets(e, Tail(s)) = Tail(Packets(e, s))
<1> DEFINE t == Tail(s)
           u == Packets(e, s)
           v == Packets(e, t)
<1>1. /\ t \in Seq(Buffer) /\ Len(t) = Len(s) - 1 /\ Len(s) \in Nat \ {0}
      /\ \A i \in 1..Len(t) : t[i] = s[i + 1]
  BY HeadTailProperties, EmptySeq
<1>2. /\ u \in Seq(Nat) /\ Len(u) = Len(s)
      /\ \A i \in 1..Len(s) : u[i] = e.buf[s[i]].packet
  BY PacketsTyped
<1>3. /\ v \in Seq(Nat) /\ Len(v) = Len(t)
      /\ \A i \in 1..Len(t) : v[i] = e.buf[t[i]].packet
  BY <1>1, PacketsTyped
<1> HIDE DEF t, u, v
<1>4. u # <<>> /\ Head(u) = u[1] /\ Head(s) = s[1]
  BY <1>1, <1>2
<1>5. /\ Tail(u) \in Seq(Nat) /\ Len(Tail(u)) = Len(u) - 1
      /\ \A i \in 1..Len(Tail(u)) : Tail(u)[i] = u[i + 1]
  BY <1>2, <1>4, HeadTailProperties
<1>6. Len(v) = Len(Tail(u)) /\ \A i \in 1..Len(v) : v[i] = Tail(u)[i]
  <2>1. Len(v) = Len(Tail(u)) /\ Len(v) = Len(t) /\ Len(t) = Len(s) - 1
    BY <1>1, <1>2, <1>3, <1>5
  <2>2. ASSUME NEW i \in 1..Len(v) PROVE v[i] = Tail(u)[i]
    <3>1. i \in 1..Len(t) /\ i \in 1..Len(Tail(u)) /\ i + 1 \in 1..Len(s)
      BY <1>1, <2>1
    <3>2. v[i] = e.buf[t[i]].packet /\ t[i] = s[i + 1]
      BY <1>1, <1>3, <3>1
    <3>3. Tail(u)[i] = u[i + 1] /\ u[i + 1] = e.buf[s[i + 1]].packet
      BY <1>2, <1>5, <3>1
    <3>. QED
      BY <3>2, <3>3
  <2>. QED
    BY <2>1, <2>2
<1>7. v = Tail(u)
  BY <1>3, <1>5, <1>6, SeqEqual
<1>. QED
  BY <1>1, <1>2, <1>4, <1>7 DEF t, u, v

LEMMA PacketsKept ==
    ASSUME NEW e, NEW g, Untouched(e, g), NEW s \in Seq(Buffer),
           \A i \in 1..Len(s) : ~g.buf[s[i]].avail
    PROVE  Packets(g, s) = Packets(e, s)
<1>1. \A i \in 1..Len(s) : g.buf[s[i]] = e.buf[s[i]]
  BY ElementOfSeq DEF Untouched
<1>. QED
  BY <1>1 DEF Packets

\* The controller has none of the buffers that wait.
LEMMA QueueDone ==
    ASSUME NEW e, NEW p, NEW h, Sound(e, p, h)
    PROVE  /\ Queue(e, p) \in Seq(Buffer) /\ p \in Seq(Buffer) /\ Len(Queue(e, p)) <= 2
           /\ \A i \in 1..Len(Queue(e, p)) : ~e.buf[Queue(e, p)[i]].avail
           /\ e.transfer.queued => p = <<>> /\ Queue(e, p) = <<1 - e.take>>
           /\ ~e.transfer.queued => Queue(e, p) = p
           /\ \A b \in Buffer : e.buf[b].avail =>
                 ~e.transfer.queued /\ p \in {<<>>, <<1 - b>>}
<1>1. e \in Driver /\ Places(e, p) /\ Work(e)
  BY DEF Sound
<1>2. /\ e.owned \in {0, 1, 2} /\ e.give \in {0, 1} /\ e.take \in {0, 1}
      /\ \A b \in {0, 1} : e.buf[b].avail \in BOOLEAN
      /\ e.transfer.queued \in BOOLEAN
  BY <1>1, TransferFields
<1>3. /\ e.give \in Buffer /\ 1 - e.give \in Buffer /\ 1 - e.take \in Buffer
      /\ 1 - (1 - e.give) = e.give
  BY <1>2 DEF Buffer
<1>4. e.transfer.queued => e.owned = 2
  BY <1>1 DEF Work
<1>5. /\ p \in Seq(Buffer) /\ Len(p) <= 2
      /\ \A i \in 1..Len(p) : ~e.buf[p[i]].avail
      /\ e.owned = 2 => p = <<>> /\ ~e.buf[0].avail /\ ~e.buf[1].avail
      /\ \A b \in Buffer : e.buf[b].avail => p \in {<<>>, <<1 - b>>}
  <2>1. CASE e.owned = 2
    BY <1>1, <1>2, <2>1, SomeBuffers DEF Places
  <2>2. CASE e.owned = 1
    <3>1. /\ ~e.buf[e.give].avail
          /\ p = IF e.buf[1 - e.give].avail THEN <<>> ELSE <<1 - e.give>>
      BY <1>1, <2>2 DEF Places
    <3>2. \A b \in Buffer : b = e.give \/ b = 1 - e.give
      BY <1>2 DEF Buffer
    <3>. QED
      BY <1>2, <1>3, <2>2, <3>1, <3>2, SomeBuffers
  <2>3. CASE e.owned = 0
    <3>1. /\ e.buf[e.give].avail => e.buf[1 - e.give].avail
          /\ p = IF e.buf[e.give].avail THEN <<>>
                 ELSE IF e.buf[1 - e.give].avail THEN <<e.give>>
                 ELSE <<e.give, 1 - e.give>>
      BY <1>1, <2>3 DEF Places
    <3>2. \A b \in Buffer : b = e.give \/ b = 1 - e.give
      BY <1>2 DEF Buffer
    <3>3. CASE e.buf[e.give].avail
      BY <2>3, <3>1, <3>3, SomeBuffers
    <3>4. CASE ~e.buf[e.give].avail /\ e.buf[1 - e.give].avail
      BY <1>3, <2>3, <3>1, <3>2, <3>4, SomeBuffers
    <3>5. CASE ~e.buf[e.give].avail /\ ~e.buf[1 - e.give].avail
      <4>1. p = <<e.give, 1 - e.give>>
        BY <3>1, <3>5
      <4>2. p \in Seq(Buffer) /\ Len(p) = 2 /\ p[1] = e.give /\ p[2] = 1 - e.give
        BY <1>3, <4>1, SomeBuffers
      <4>3. \A b \in Buffer : ~e.buf[b].avail
        BY <3>2, <3>5
      <4>. QED
        BY <2>3, <3>5, <4>2, <4>3
    <3>. QED
      BY <3>3, <3>4, <3>5
  <2>. QED
    BY <1>2, <2>1, <2>2, <2>3
<1>6. CASE e.transfer.queued
  <2>1. p = <<>> /\ Queue(e, p) = <<1 - e.take>> \o <<>>
    BY <1>4, <1>5, <1>6 DEF Queue
  <2>2. Queue(e, p) = <<1 - e.take>>
    BY <1>3, <2>1, SomeBuffers, ConcatEmptySeq
  <2>3. \A b \in Buffer : ~e.buf[b].avail
    BY <1>4, <1>5, <1>6 DEF Buffer
  <2>4. /\ Queue(e, p) \in Seq(Buffer) /\ Len(Queue(e, p)) = 1
        /\ Queue(e, p)[1] = 1 - e.take
    BY <1>3, <2>2, SomeBuffers
  <2>5. \A i \in 1..Len(Queue(e, p)) : ~e.buf[Queue(e, p)[i]].avail
    BY <1>3, <2>3, <2>4
  <2>. QED
    BY <1>5, <1>6, <2>1, <2>2, <2>3, <2>4, <2>5
<1>7. CASE ~e.transfer.queued
  <2>1. Queue(e, p) = <<>> \o p
    BY <1>7 DEF Queue
  <2>2. Queue(e, p) = p
    BY <1>5, <2>1, ConcatEmptySeq
  <2>. QED
    BY <1>5, <1>7, <2>2
<1>. QED
  BY <1>6, <1>7

GivenOf(e) ==
    LET given(b) == IF e.buf[b].avail THEN <<b>> ELSE <<>>
    IN given(e.sel) \o given(1 - e.sel)

LEMMA Concats ==
    /\ <<>> \o <<>> = <<>>
    /\ \A x \in Nat : <<x>> \o <<>> = <<x>> /\ <<>> \o <<x>> = <<x>>
    /\ \A x, y \in Nat : <<x>> \o <<y>> = <<x, y>>
<1>1. <<>> \in Seq(Nat) /\ \A x \in Nat : <<x>> \in Seq(Nat)
  OBVIOUS
<1>2. ASSUME NEW x \in Nat, NEW y \in Nat PROVE <<x>> \o <<y>> = <<x, y>>
  BY <1>1, AppendIsConcat, AppendTwo
<1>. QED
  BY <1>1, <1>2, ConcatEmptySeq

LEMMA AppendBoth ==
    ASSUME NEW s \in Seq(Nat), NEW x \in Nat, NEW y \in Nat
    PROVE  LET t == Append(Append(s, x), y)
           IN t = s \o <<x, y>> /\ Len(t) = Len(s) + 2
<1>1. Append(s, x) = s \o <<x>> /\ Append(s, x) \in Seq(Nat) /\ Len(Append(s, x)) = Len(s) + 1
  BY AppendIsConcat, AppendProperties
<1>2. /\ Append(Append(s, x), y) = Append(s, x) \o <<y>>
      /\ Len(Append(Append(s, x), y)) = Len(Append(s, x)) + 1
  BY <1>1, AppendIsConcat, AppendProperties
<1>3. <<x>> \in Seq(Nat) /\ <<y>> \in Seq(Nat) /\ Len(s) \in Nat
  OBVIOUS
<1>4. (s \o <<x>>) \o <<y>> = s \o (<<x>> \o <<y>>)
  BY <1>3, ConcatAssociative
<1>5. <<x>> \o <<y>> = <<x, y>>
  BY Concats
<1>. QED
  BY <1>1, <1>2, <1>3, <1>4, <1>5

LEMMA SentGiven ==
    ASSUME NEW e \in Driver
    PROVE  /\ GivenOf(e) \in Seq(Buffer) /\ Len(GivenOf(e)) <= 2
           /\ Packets(e, GivenOf(e)) = Sent(e)
           /\ e.buf[e.sel].avail => GivenOf(e) # <<>> /\ Head(GivenOf(e)) = e.sel
<1> DEFINE a == e.sel
           b == 1 - e.sel
<1>1. /\ a \in Buffer /\ b \in Buffer /\ Buffer \subseteq Nat
      /\ e.buf[a].avail \in BOOLEAN /\ e.buf[b].avail \in BOOLEAN
      /\ e.buf[a].packet \in Nat /\ e.buf[b].packet \in Nat
  BY TransferFields DEF Buffer
<1>2. /\ GivenOf(e) = (IF e.buf[a].avail THEN <<a>> ELSE <<>>)
                     \o (IF e.buf[b].avail THEN <<b>> ELSE <<>>)
      /\ Sent(e) = (IF e.buf[a].avail THEN <<e.buf[a].packet>> ELSE <<>>)
                  \o (IF e.buf[b].avail THEN <<e.buf[b].packet>> ELSE <<>>)
  BY DEF GivenOf, Sent
<1> HIDE DEF a, b
<1>3. CASE e.buf[a].avail /\ e.buf[b].avail
  <2>1. GivenOf(e) = <<a, b>> /\ Sent(e) = <<e.buf[a].packet, e.buf[b].packet>>
    BY <1>1, <1>2, <1>3, Concats
  <2>2. <<a, b>> \in Seq(Buffer) /\ Len(<<a, b>>) = 2 /\ <<a, b>> # <<>> /\ Head(<<a, b>>) = a
    BY <1>1
  <2>3. Packets(e, GivenOf(e)) = Sent(e)
    BY <1>1, <2>1, PacketsFew
  <2>. QED
    BY <2>1, <2>2, <2>3 DEF a
<1>4. CASE e.buf[a].avail /\ ~e.buf[b].avail
  <2>1. GivenOf(e) = <<a>> /\ Sent(e) = <<e.buf[a].packet>>
    BY <1>1, <1>2, <1>4, Concats
  <2>2. <<a>> \in Seq(Buffer) /\ Len(<<a>>) = 1 /\ <<a>> # <<>> /\ Head(<<a>>) = a
    BY <1>1
  <2>3. Packets(e, GivenOf(e)) = Sent(e)
    BY <1>1, <2>1, PacketsFew
  <2>. QED
    BY <2>1, <2>2, <2>3 DEF a
<1>5. CASE ~e.buf[a].avail /\ e.buf[b].avail
  <2>1. GivenOf(e) = <<b>> /\ Sent(e) = <<e.buf[b].packet>>
    BY <1>1, <1>2, <1>5, Concats
  <2>2. <<b>> \in Seq(Buffer) /\ Len(<<b>>) = 1
    BY <1>1
  <2>. QED
    BY <1>1, <1>5, <2>1, <2>2, PacketsFew DEF a
<1>6. CASE ~e.buf[a].avail /\ ~e.buf[b].avail
  <2>1. GivenOf(e) = <<>> /\ Sent(e) = <<>>
    BY <1>1, <1>2, <1>6, Concats
  <2>. QED
    BY <1>6, <2>1, SomeBuffers, PacketsFew DEF a
<1>. QED
  BY <1>1, <1>3, <1>4, <1>5, <1>6

\* The packets on their way, as UsbEndpoint has them and as they are spoken of here.
LEMMA FlightIs ==
    ASSUME NEW e, NEW p, NEW h \in HostState, Sound(e, p, h)
    PROVE  LET order == IF e.in THEN IF h.retry THEN Tail(GivenOf(e)) ELSE GivenOf(e)
                        ELSE Queue(e, p)
               way == OnTheWay(e, p, h)
           IN /\ [i \in 1..Len(order) |-> e.buf[order[i]].packet] = way
              /\ way \in Seq(Nat) /\ Len(way) <= 2
              /\ Sent(e) \in Seq(Nat) /\ Len(Sent(e)) <= 2
              /\ e.in /\ h.retry => Sent(e) # <<>> /\ e.buf[e.sel].avail
              /\ e.buf[e.sel].avail =>
                    Sent(e) # <<>> /\ Head(Sent(e)) = e.buf[e.sel].packet
<1>1. e \in Driver /\ h.retry \in BOOLEAN /\ e.in \in BOOLEAN
  BY TransferFields DEF Sound, HostState
<1>2. e.in /\ h.retry => e.buf[e.sel].avail
  BY DEF Sound, Toggles
<1>3. /\ GivenOf(e) \in Seq(Buffer) /\ Len(GivenOf(e)) <= 2
      /\ Packets(e, GivenOf(e)) = Sent(e)
      /\ e.buf[e.sel].avail => GivenOf(e) # <<>> /\ Head(GivenOf(e)) = e.sel
  BY <1>1, SentGiven
<1>4. /\ Sent(e) \in Seq(Nat) /\ Len(Sent(e)) <= 2
      /\ e.buf[e.sel].avail =>
            /\ Sent(e) # <<>> /\ Head(Sent(e)) = e.buf[e.sel].packet
            /\ Packets(e, Tail(GivenOf(e))) = Tail(Sent(e))
            /\ Tail(Sent(e)) \in Seq(Nat) /\ Len(Tail(Sent(e))) = Len(Sent(e)) - 1
  <2>1. Sent(e) \in Seq(Nat) /\ Len(Sent(e)) <= 2
    BY <1>1, <1>3, PacketsTyped
  <2>2. CASE e.buf[e.sel].avail
    <3>1. /\ Sent(e) # <<>> /\ Head(Sent(e)) = e.buf[e.sel].packet
          /\ Packets(e, Tail(GivenOf(e))) = Tail(Sent(e))
      BY <1>1, <1>3, <2>2, PacketsTail
    <3>. QED
      BY <2>1, <3>1, HeadTailProperties
  <2>. QED
    BY <2>1, <2>2
<1>5. CASE ~e.in
  <2>1. Queue(e, p) \in Seq(Buffer) /\ Len(Queue(e, p)) <= 2
    BY QueueDone
  <2>2. /\ Packets(e, Queue(e, p)) \in Seq(Nat)
        /\ Len(Packets(e, Queue(e, p))) = Len(Queue(e, p))
    BY <1>1, <2>1, PacketsTyped
  <2>3. /\ OnTheWay(e, p, h) = Packets(e, Queue(e, p))
        /\ OnTheWay(e, p, h) = [i \in 1..Len(Queue(e, p)) |-> e.buf[Queue(e, p)[i]].packet]
    BY <1>5 DEF OnTheWay, Packets
  <2>. QED
    BY <1>2, <1>4, <1>5, <2>1, <2>2, <2>3
<1>6. CASE e.in /\ ~h.retry
  <2>1. OnTheWay(e, p, h) = Sent(e)
    BY <1>6 DEF OnTheWay, Unseen
  <2>2. Sent(e) = [i \in 1..Len(GivenOf(e)) |-> e.buf[GivenOf(e)[i]].packet]
    BY <1>3 DEF Packets
  <2>. QED
    BY <1>2, <1>4, <1>6, <2>1, <2>2
<1>7. CASE e.in /\ h.retry
  <2>1. OnTheWay(e, p, h) = Tail(Sent(e))
    BY <1>7 DEF OnTheWay, Unseen
  <2>2. Packets(e, Tail(GivenOf(e))) = Tail(Sent(e))
    BY <1>2, <1>4, <1>7
  <2>3. Packets(e, Tail(GivenOf(e)))
        = [i \in 1..Len(Tail(GivenOf(e))) |-> e.buf[Tail(GivenOf(e))[i]].packet]
    BY DEF Packets
  <2>4. Tail(Sent(e)) \in Seq(Nat) /\ Len(Tail(Sent(e))) <= 2
    BY <1>2, <1>4, <1>7
  <2>. QED
    BY <1>2, <1>4, <1>7, <2>1, <2>2, <2>3, <2>4
<1>. QED
  BY <1>1, <1>5, <1>6, <1>7

-----------------------------------------------------------------------------
(***************************************************************************)
(* The moves of UsbPipe.                                                   *)
(***************************************************************************)

NextPacket == IF ep.in THEN ep.put + 1
              ELSE IF host.retry THEN host.next + 1 ELSE host.next
Arrived    == IF ep.in THEN host.received ELSE ep.received
Way        == OnTheWay(ep, pending, host)
HaltStays  == ep.halt # "none" => ep'.halt # "none"

LEMMA WayTyped ==
    ASSUME EndpointIInv
    PROVE  Way \in Seq(Nat) /\ Len(Way) <= 2 /\ Flight = Way
<1>1. Sound(ep, pending, host) /\ host \in HostState
  BY InvariantFields DEF EndpointIInv
<1>2. /\ Waiting = Queue(ep, pending) /\ Given = GivenOf(ep)
  BY DEF Waiting, Queue, Given, GivenOf
<1>. QED
  BY <1>1, <1>2, FlightIs DEF Way, Flight, Sending

LEMMA WayTypedNext ==
    ASSUME EndpointIInv'
    PROVE  Way' \in Seq(Nat) /\ Len(Way') <= 2 /\ Flight' = Way'
<1>1. Sound(ep', pending', host') /\ host' \in HostState
  BY DEF EndpointIInv, HostTypeOK
<1>2. /\ Waiting' = Queue(ep', pending') /\ Given' = GivenOf(ep')
      /\ Way' = OnTheWay(ep', pending', host')
  BY DEF Waiting, Queue, Given, GivenOf, Way
<1>. QED
  BY <1>1, <1>2, FlightIs DEF Flight, Sending

LEMMA StaysHalted == ASSUME HaltStays PROVE Pipe!Stays
<1>1. CASE ep'.halt # "none"
  <2>1. (ep'.halt # "none") = TRUE
    BY <1>1
  <2>. QED
    BY <2>1 DEF Pipe!Stays
<1>2. CASE ep'.halt = "none"
  <2>1. (ep'.halt # "none") = (ep.halt # "none")
    BY <1>2 DEF HaltStays
  <2>. QED
    BY <2>1 DEF Pipe!Stays
<1>. QED
  BY <1>1, <1>2

LEMMA PipeStutters ==
    ASSUME EndpointIInv, EndpointIInv', Way' = Way, Arrived' = Arrived,
           NextPacket' = NextPacket, HaltStays
    PROVE  Pipe!PipeNext
<1>1. Flight' = Flight
  BY WayTyped, WayTypedNext
<1>. QED
  BY <1>1 DEF Pipe!PipeNext, Pipe!Stays, Arrived, NextPacket, HaltStays

LEMMA PipeReceives ==
    ASSUME EndpointIInv, EndpointIInv', Way # <<>>, Way' = Tail(Way),
           Arrived' = Append(Arrived, Head(Way)), NextPacket' = NextPacket, HaltStays
    PROVE  Pipe!PipeNext
<1>1. Flight # <<>> /\ Flight' = Tail(Flight) /\ Head(Flight) = Head(Way)
  BY WayTyped, WayTypedNext
<1>. QED
  BY <1>1 DEF Pipe!PipeNext, Pipe!Receive, Pipe!Stays, Arrived, NextPacket, HaltStays

LEMMA PipeDrops ==
    ASSUME EndpointIInv, EndpointIInv', Way # <<>>, Way' = Tail(Way),
           Arrived' = Arrived, NextPacket' = NextPacket, ep'.halt # "none"
    PROVE  Pipe!PipeNext
<1>1. Flight # <<>> /\ Flight' = Tail(Flight)
  BY WayTyped, WayTypedNext
<1>. QED
  BY <1>1 DEF Pipe!PipeNext, Pipe!Drop, Pipe!Stays, Arrived, NextPacket

LEMMA PipeResets ==
    ASSUME EndpointIInv, EndpointIInv', Way' = <<>>,
           Arrived' = Arrived, NextPacket' = NextPacket, ep'.halt = "none"
    PROVE  Pipe!PipeNext
<1>1. Flight' = <<>>
  BY WayTypedNext
<1>. QED
  BY <1>1 DEF Pipe!PipeNext, Pipe!Reset, Arrived, NextPacket

LEMMA PipeSendsOne ==
    ASSUME EndpointIInv, EndpointIInv', Way' = Append(Way, NextPacket),
           NextPacket \in Nat, NextPacket' = NextPacket + 1, Arrived' = Arrived, HaltStays
    PROVE  Pipe!PipeNext
<1> DEFINE n == NextPacket
           more == [i \in 1..1 |-> n + i - 1]
<1>1. Way \in Seq(Nat) /\ Flight = Way /\ Flight' = Way' /\ Len(Way') <= 2
  BY WayTyped, WayTypedNext
<1> HIDE DEF n
<1>2. n \in Nat
  BY DEF n
<1>3. more = <<n>>
  BY <1>2
<1>4. Way' = Way \o more /\ Len(Flight) + 1 <= 2
  BY <1>1, <1>2, <1>3, AppendIsConcat, AppendProperties DEF n
<1> HIDE DEF more
<1>5. Flight' = Flight \o more
  BY <1>1, <1>4
<1>6. Pipe!Send(1)
  BY <1>1, <1>4, <1>5 DEF Pipe!Send, Pipe!Capacity, Arrived, NextPacket, more, n
<1>7. Pipe!Stays /\ 1 \in 1..Pipe!Capacity
  <2>1. 1 \in 1..Pipe!Capacity
    BY DEF Pipe!Capacity
  <2>. QED
    BY <2>1, StaysHalted
<1>. QED
  BY <1>6, <1>7 DEF Pipe!PipeNext

LEMMA PipeSendsTwo ==
    ASSUME EndpointIInv, EndpointIInv',
           Way' = Append(Append(Way, NextPacket), NextPacket + 1),
           NextPacket \in Nat, NextPacket' = NextPacket + 2, Arrived' = Arrived, HaltStays
    PROVE  Pipe!PipeNext
<1> DEFINE n == NextPacket
           more == [i \in 1..2 |-> n + i - 1]
<1>1. Way \in Seq(Nat) /\ Flight = Way /\ Flight' = Way' /\ Len(Way') <= 2
  BY WayTyped, WayTypedNext
<1> HIDE DEF n
<1>2. n \in Nat /\ n + 1 \in Nat
  BY DEF n
<1>3. more = <<n, n + 1>>
  BY <1>2
<1>4. Way' = Way \o more /\ Len(Flight) + 2 <= 2
  <2>1. Way' = Append(Append(Way, n), n + 1)
    BY DEF n
  <2> DEFINE t == Append(Append(Way, n), n + 1)
  <2>2. t = Way \o <<n, n + 1>> /\ Len(t) = Len(Way) + 2
    <3>1. Way \in Seq(Nat)
      BY <1>1
    <3>. QED
      BY <1>2, <3>1, AppendBoth
  <2>3. Way' = Way \o <<n, n + 1>> /\ Len(Way') = Len(Way) + 2
    BY <2>1, <2>2
  <2>4. Len(Way) \in Nat /\ Len(Way') \in Nat
    BY <1>1
  <2>. QED
    BY <1>1, <1>3, <2>3, <2>4
<1> HIDE DEF more
<1>5. Flight' = Flight \o more
  BY <1>1, <1>4
<1>6. Pipe!Send(2)
  BY <1>1, <1>4, <1>5 DEF Pipe!Send, Pipe!Capacity, Arrived, NextPacket, more, n
<1>7. Pipe!Stays /\ 2 \in 1..Pipe!Capacity
  <2>1. 2 \in 1..Pipe!Capacity
    BY DEF Pipe!Capacity
  <2>. QED
    BY <2>1, StaysHalted
<1>. QED
  BY <1>6, <1>7 DEF Pipe!PipeNext

-----------------------------------------------------------------------------
(***************************************************************************)
(* Each action is a move of UsbPipe.                                       *)
(***************************************************************************)

LEMMA SentTaken ==
    ASSUME NEW e \in Driver, NEW g, e.buf[e.sel].avail, ~g.buf[e.sel].avail,
           g.sel = 1 - e.sel, g.buf[1 - e.sel] = e.buf[1 - e.sel]
    PROVE  Sent(g) = Tail(Sent(e))
<1> DEFINE a == e.sel
           b == 1 - e.sel
<1>1. /\ e.buf[b].avail \in BOOLEAN /\ 1 - b = a
      /\ e.buf[a].packet \in Nat /\ e.buf[b].packet \in Nat
  BY TransferFields
<1>2. Sent(e) = <<e.buf[a].packet>> \o (IF e.buf[b].avail THEN <<e.buf[b].packet>> ELSE <<>>)
  BY DEF Sent
<1>3. Sent(g) = (IF e.buf[b].avail THEN <<e.buf[b].packet>> ELSE <<>>) \o <<>>
  BY <1>1 DEF Sent
<1> HIDE DEF a, b
<1>4. CASE e.buf[b].avail
  <2>1. /\ Sent(e) = <<e.buf[a].packet, e.buf[b].packet>>
        /\ Sent(g) = <<e.buf[b].packet>>
    BY <1>1, <1>2, <1>3, <1>4, Concats
  <2>. QED
    BY <1>1, <2>1
<1>5. CASE ~e.buf[b].avail
  <2>1. Sent(e) = <<e.buf[a].packet>> /\ Sent(g) = <<>>
    BY <1>1, <1>2, <1>3, <1>5, Concats
  <2>. QED
    BY <1>1, <2>1
<1>. QED
  BY <1>1, <1>4, <1>5

LEMMA WayOfEither ==
    /\ Way = IF ep.in THEN Unseen(ep, host) ELSE Packets(ep, Queue(ep, pending))
    /\ Way' = IF ep'.in THEN Unseen(ep', host') ELSE Packets(ep', Queue(ep', pending'))
BY DEF Way, OnTheWay

LEMMA NextPacketTyped == ASSUME EndpointIInv PROVE NextPacket \in Nat /\ ep.put \in Nat
BY InvariantFields, TransferFields DEF NextPacket

\* The driver gives packets to the controller, and the host looks away.
LEMMA SendsMove ==
    ASSUME EndpointIInv, EndpointIInv', ep.in, ep'.in, host' = host, HaltStays,
           Sends(ep, ep')
    PROVE  Pipe!PipeNext
<1>1. /\ Way = Unseen(ep, host) /\ Way' = Unseen(ep', host)
      /\ NextPacket = ep.put + 1 /\ NextPacket' = ep'.put + 1 /\ Arrived' = Arrived
  BY WayOfEither DEF NextPacket, Arrived
<1>2. Sent(ep) \in Seq(Nat) /\ (host.retry => Sent(ep) # <<>>) /\ host.retry \in BOOLEAN
  BY InvariantFields, FlightIs DEF EndpointIInv
<1> DEFINE n == ep.put + 1
           m == ep.put + 2
<1>3. n \in Nat /\ m \in Nat /\ NextPacket \in Nat /\ m = n + 1
  BY NextPacketTyped
<1>4. CASE ep'.put = ep.put /\ Sent(ep') = Sent(ep)
  <2>1. Way' = Way /\ NextPacket' = NextPacket
    BY <1>1, <1>4 DEF Unseen
  <2>. QED
    BY <1>1, <2>1, PipeStutters
<1>5. CASE ep'.put = n /\ Sent(ep') = Append(Sent(ep), n)
  <2>1. NextPacket' = NextPacket + 1
    BY <1>1, <1>5
  <2>2. Tail(Append(Sent(ep), n)) = IF Sent(ep) = <<>> THEN <<>> ELSE Append(Tail(Sent(ep)), n)
    BY <1>2, <1>3, HeadTailAppend
  <2> HIDE DEF n
  <2>3. Way' = Append(Way, n)
    BY <1>1, <1>2, <1>5, <2>2 DEF Unseen
  <2>. QED
    BY <1>1, <1>3, <2>1, <2>3, PipeSendsOne DEF n
<1>6. CASE ep'.put = m /\ Sent(ep') = Append(Append(Sent(ep), n), m)
  <2>1. NextPacket' = NextPacket + 2
    BY <1>1, <1>6, NextPacketTyped
  <2> DEFINE s == Append(Sent(ep), n)
  <2>2. Tail(s) = IF Sent(ep) = <<>> THEN <<>> ELSE Append(Tail(Sent(ep)), n)
    BY <1>2, <1>3, HeadTailAppend
  <2>3. s \in Seq(Nat) /\ s # <<>>
    BY <1>2, <1>3, AppendProperties
  <2>4. Tail(Append(s, m)) = Append(Tail(s), m)
    BY <1>3, <2>3, HeadTailAppend
  <2>5. Way' = Append(Append(Way, n), m)
    <3> HIDE DEF n, m
    <3>1. CASE host.retry
      <4>1. Way = Tail(Sent(ep)) /\ Way' = Tail(Append(s, m)) /\ Sent(ep) # <<>>
        BY <1>1, <1>2, <1>6, <3>1 DEF Unseen
      <4>. QED
        BY <2>2, <2>4, <4>1
    <3>2. CASE ~host.retry
      BY <1>1, <1>6, <3>2 DEF Unseen
    <3>. QED
      BY <1>2, <3>1, <3>2
  <2>6. n = NextPacket /\ m = NextPacket + 1
    BY <1>1, <1>3
  <2> HIDE DEF n, m, s
  <2>. QED
    BY <1>1, <1>3, <2>1, <2>5, <2>6, PipeSendsTwo
<1>. QED
  BY <1>4, <1>5, <1>6 DEF Sends

\* The driver leaves the packets in the buffers it does not give.
LEMMA OutWay ==
    ASSUME EndpointIInv, EndpointIInv', ~ep.in, ~ep'.in, Untouched(ep, ep')
    PROVE  /\ Way = Packets(ep, Queue(ep, pending))
           /\ Way' = Packets(ep, Queue(ep', pending'))
<1>1. Sound(ep', pending', host')
  BY DEF EndpointIInv
<1>2. /\ Queue(ep', pending') \in Seq(Buffer)
      /\ \A i \in 1..Len(Queue(ep', pending')) : ~ep'.buf[Queue(ep', pending')[i]].avail
  BY <1>1, QueueDone
<1>3. Packets(ep', Queue(ep', pending')) = Packets(ep, Queue(ep', pending'))
  BY <1>2, PacketsKept
<1>. QED
  BY <1>3, WayOfEither

\* What waits is taken, dropped or left where it is.
LEMMA OutMoves ==
    ASSUME EndpointIInv, EndpointIInv', ~ep.in, ~ep'.in, Untouched(ep, ep'),
           host' = host, HaltStays,
           NEW q, q = Queue(ep, pending), NEW r, r = Queue(ep', pending'),
           \/ r = q /\ ep'.received = ep.received
           \/ /\ q # <<>> /\ r = Tail(q)
              /\ \/ ep'.received = Append(ep.received, ep.buf[Head(q)].packet)
                 \/ ep'.received = ep.received /\ ep'.halt # "none"
    PROVE  Pipe!PipeNext
<1>1. /\ Way = Packets(ep, q) /\ Way' = Packets(ep, r)
      /\ NextPacket' = NextPacket /\ Arrived = ep.received /\ Arrived' = ep'.received
  BY OutWay DEF NextPacket, Arrived
<1>2. CASE r = q /\ ep'.received = ep.received
  BY <1>1, <1>2, PipeStutters
<1>3. CASE q # <<>> /\ r = Tail(q)
  <2>1. q \in Seq(Buffer) /\ ep \in Driver
    BY InvariantFields, QueueDone DEF EndpointIInv
  <2>2. /\ Way # <<>> /\ Head(Way) = ep.buf[Head(q)].packet /\ Way' = Tail(Way)
    BY <1>1, <1>3, <2>1, PacketsTail
  <2>3. CASE ep'.received = Append(ep.received, ep.buf[Head(q)].packet)
    BY <1>1, <2>2, <2>3, PipeReceives
  <2>4. CASE ep'.received = ep.received /\ ep'.halt # "none"
    BY <1>1, <2>2, <2>4, PipeDrops
  <2>. QED
    BY <1>2, <1>3, <2>3, <2>4, PipeStutters, <1>1
<1>. QED
  BY <1>2, <1>3

LEMMA HostSendsMove ==
    ASSUME EndpointIInv, NEW ack \in BOOLEAN, HostSends(ack), CountLoss(ack),
           UNCHANGED resets
    PROVE  Pipe!PipeNext
<1>1. /\ EndpointIInv' /\ ~host.retry /\ ep.buf[ep.sel].avail
      /\ Alike(ep, ep') /\ ep'.transfer = ep.transfer
      /\ ep'.buf[ep.sel].packet = host.next
      /\ ep'.buf[1 - ep.sel] = ep.buf[1 - ep.sel]
  BY HostSendsStep
<1>2. /\ ~ep.in /\ pending' = Append(pending, ep.sel)
      /\ host' = IF ack THEN HostGoesOn ELSE [host EXCEPT !.retry = TRUE]
  BY DEF HostSends, BufferDone
<1>3. ~ep'.in /\ HaltStays /\ Arrived' = Arrived
  BY <1>1, <1>2 DEF Alike, HaltStays, Arrived
<1>4. NextPacket = host.next /\ NextPacket' = host.next + 1
  <2>1. CASE ack
    <3>1. ~host'.retry /\ host'.next = host.next + 1
      BY <1>2, <2>1, HostGoesOnFields
    <3>. QED
      BY <1>1, <1>2, <1>3, <3>1 DEF NextPacket
  <2>2. CASE ~ack
    <3>1. host'.retry /\ host'.next = host.next
      <4>1. host' = [host EXCEPT !.retry = TRUE] /\ host \in HostState
        BY <1>2, <2>2, InvariantFields
      <4>. QED
        BY <4>1 DEF HostState
    <3>. QED
      BY <1>1, <1>2, <1>3, <3>1 DEF NextPacket
  <2>. QED
    BY <2>1, <2>2
<1> DEFINE a == ep.sel
           b == 1 - ep.sel
<1>5. /\ a \in Buffer /\ b \in Buffer /\ ep \in Driver /\ ep' \in Driver
      /\ host.next \in Nat /\ ep.buf[b].packet \in Nat
  BY <1>1, InvariantFields, TransferFields DEF Buffer, EndpointIInv, Sound
<1>6. ~ep.transfer.queued /\ pending \in {<<>>, <<b>>}
  <2>1. Sound(ep, pending, host)
    BY DEF EndpointIInv
  <2>. QED
    BY <1>1, <1>5, <2>1, QueueDone
<1>7. Queue(ep, pending) = <<>> \o pending /\ Queue(ep', pending') = <<>> \o Append(pending, a)
  BY <1>1, <1>2, <1>6 DEF Queue
<1>8. Way = Packets(ep, Queue(ep, pending)) /\ Way' = Packets(ep', Queue(ep', pending'))
  BY <1>2, <1>3, WayOfEither
<1>9. ep'.buf[a].packet = host.next /\ ep'.buf[b].packet = ep.buf[b].packet
  BY <1>1
<1> HIDE DEF a, b
<1>10. CASE pending = <<>>
  <2>1. Queue(ep, pending) = <<>> /\ Queue(ep', pending') = <<a>>
    BY <1>5, <1>7, <1>10
  <2>2. Way = <<>> /\ Way' = <<host.next>>
    BY <1>5, <1>8, <1>9, <2>1, PacketsFew
  <2>3. Way' = Append(Way, host.next)
    BY <1>5, <2>2
  <2>. QED
    BY <1>1, <1>3, <1>4, <1>5, <2>3, PipeSendsOne
<1>11. CASE pending = <<b>>
  <2>1. Queue(ep, pending) = <<b>> /\ Queue(ep', pending') = <<b, a>>
    <3>1. a \in Nat /\ b \in Nat
      BY <1>5 DEF Buffer
    <3>2. <<>> \o <<b>> = <<b>> /\ Append(<<b>>, a) = <<b, a>> /\ <<b, a>> \in Seq(Nat)
      BY <3>1, AppendTwo, Concats
    <3>. QED
      BY <1>7, <1>11, <3>2, ConcatEmptySeq
  <2>2. Way = <<ep.buf[b].packet>> /\ Way' = <<ep.buf[b].packet, host.next>>
    BY <1>5, <1>8, <1>9, <2>1, PacketsFew
  <2>3. Way' = Append(Way, host.next)
    BY <1>5, <2>2, AppendTwo
  <2>. QED
    BY <1>1, <1>3, <1>4, <1>5, <2>3, PipeSendsOne
<1>. QED
  BY <1>6, <1>10, <1>11

LEMMA HostRepeatsMove ==
    ASSUME EndpointIInv, HostRepeats, UNCHANGED <<resets, losses>>
    PROVE  Pipe!PipeNext
<1>1. EndpointIInv' /\ host.retry
  BY HostRepeatsStep
<1>2. /\ ~ep.in /\ ep' = ep /\ pending' = pending
      /\ ~host'.retry /\ host'.next = host.next + 1
  BY HostGoesOnFields DEF HostRepeats
<1>3. /\ Way' = Way /\ Arrived' = Arrived /\ NextPacket' = NextPacket /\ HaltStays
  BY <1>1, <1>2, WayOfEither DEF Arrived, NextPacket, HaltStays
<1>. QED
  BY <1>1, <1>3, PipeStutters

LEMMA HostReceivesMove ==
    ASSUME EndpointIInv, NEW ack \in BOOLEAN, HostReceives(ack), CountLoss(ack),
           UNCHANGED resets
    PROVE  Pipe!PipeNext
<1> DEFINE b == ep.buf[ep.sel]
<1>1. /\ EndpointIInv' /\ b.avail /\ (b.pid = host.pid <=> ~host.retry)
      /\ ack => /\ Alike(ep, ep') /\ ep'.put = ep.put /\ ep'.sel = 1 - ep.sel
                /\ ~ep'.buf[ep.sel].avail
                /\ ep'.buf[1 - ep.sel] = ep.buf[1 - ep.sel]
      /\ ~ack => ep' = ep
  BY HostReceivesStep
<1>2. /\ ep.in /\ (~ack => b.pid = host.pid)
      /\ host' = [host EXCEPT !.pid = IF b.pid = host.pid THEN 1 - @ ELSE @,
                              !.received = IF b.pid = host.pid
                                           THEN Append(@, b.packet) ELSE @,
                              !.retry = ~ack]
  BY DEF HostReceives
<1>3. /\ host'.retry <=> ~ack
      /\ host'.received = IF host.retry THEN host.received
                          ELSE Append(host.received, b.packet)
  <2> HIDE DEF b
  <2>. QED
    BY <1>1, <1>2, InvariantFields DEF HostState
<1>4. ep'.in /\ ep'.put = ep.put /\ HaltStays
  BY <1>1, <1>2 DEF Alike, HaltStays
<1>5. Sent(ep') = IF ack THEN Tail(Sent(ep)) ELSE Sent(ep)
  <2>1. ep \in Driver
    BY InvariantFields
  <2>2. ack => Sent(ep') = Tail(Sent(ep))
    BY <1>1, <2>1, SentTaken
  <2>. QED
    BY <1>1, <2>2
<1>6. Sent(ep) # <<>> /\ Head(Sent(ep)) = b.packet
  <2>1. Sound(ep, pending, host) /\ host \in HostState
    BY InvariantFields DEF EndpointIInv
  <2>. QED
    BY <1>1, <2>1, FlightIs
<1> HIDE DEF b
<1>7. /\ NextPacket' = NextPacket /\ Arrived = host.received /\ Arrived' = host'.received
      /\ Way = Unseen(ep, host) /\ Way' = Tail(Sent(ep))
  BY <1>2, <1>3, <1>4, <1>5, WayOfEither DEF NextPacket, Arrived, Unseen
<1>8. CASE host.retry
  BY <1>1, <1>3, <1>4, <1>7, <1>8, PipeStutters DEF Unseen
<1>9. CASE ~host.retry
  <2>1. Way = Sent(ep)
    BY <1>7, <1>9 DEF Unseen
  <2>. QED
    BY <1>1, <1>3, <1>4, <1>6, <1>7, <1>9, <2>1, PipeReceives
<1>. QED
  BY <1>8, <1>9

LEMMA OneItem ==
    /\ \A b \in Buffer : <<b>> # <<>> /\ Tail(<<b>>) = <<>> /\ Head(<<b>>) = b
    /\ \A s \in Seq(Buffer) : s # <<>> /\ Tail(s) = <<>> => s = <<Head(s)>>
<1>1. ASSUME NEW b \in Buffer PROVE <<b>> # <<>> /\ Tail(<<b>>) = <<>> /\ Head(<<b>>) = b
  OBVIOUS
<1>2. ASSUME NEW s \in Seq(Buffer), s # <<>>, Tail(s) = <<>> PROVE s = <<Head(s)>>
  <2> DEFINE t == <<Head(s)>>
  <2>1. Len(Tail(s)) = Len(s) - 1 /\ Head(s) \in Buffer /\ Len(s) \in Nat
    BY <1>2, HeadTailProperties
  <2>2. Len(s) = 1 /\ s[1] = Head(s)
    BY <1>2, <2>1
  <2>3. t \in Seq(Buffer) /\ Len(t) = 1 /\ t[1] = Head(s)
    BY <2>1
  <2> HIDE DEF t
  <2>4. \A i \in 1..Len(s) : s[i] = t[i]
    BY <2>2, <2>3
  <2>5. s = t
    BY <1>2, <2>2, <2>3, <2>4, SeqEqual
  <2>. QED
    BY <2>5 DEF t
<1>. QED
  BY <1>1, <1>2

LEMMA HandleBufferMove ==
    ASSUME EndpointIInv, HandleBuffer
    PROVE  Pipe!PipeNext
<1>1. EndpointIInv' /\ Handles(ep, Head(pending), ep')
  BY HandleBufferStep
<1>2. pending # <<>> /\ pending' = Tail(pending) /\ host' = host
  BY DEF HandleBuffer
<1>3. /\ ep'.in = ep.in /\ HaltStays /\ ~ep.transfer.queued
      /\ IF ep.in THEN SendsOne(ep, ep') ELSE Untouched(ep, ep')
  BY <1>1 DEF Handles, HaltStays
<1>4. CASE ep.in
  BY <1>1, <1>2, <1>3, <1>4, SendsMove DEF SendsOne, Sends
<1>5. CASE ~ep.in
  <2> DEFINE q == Queue(ep, pending)
             r == Queue(ep', pending')
  <2>1. Sound(ep, pending, host) /\ Sound(ep', pending', host')
    BY <1>1 DEF EndpointIInv
  <2>2. /\ q = pending /\ pending \in Seq(Buffer)
        /\ ep'.transfer.queued => Tail(pending) = <<>> /\ r = <<1 - ep'.take>>
        /\ ~ep'.transfer.queued => r = Tail(pending)
    BY <1>2, <1>3, <2>1, QueueDone
  <2> HIDE DEF q, r
  <2>3. CASE ep'.transfer.queued /\ 1 - ep'.take = Head(pending) /\ ep'.received = ep.received
    <3>1. pending = <<Head(pending)>>
      BY <1>2, <2>2, <2>3, OneItem
    <3>2. r = q
      BY <2>2, <2>3, <3>1
    <3>. QED
      BY <1>1, <1>2, <1>3, <1>5, <2>3, <3>2, OutMoves DEF q, r
  <2>4. CASE ~ep'.transfer.queued /\ ep'.received = ep.received /\ ep'.halt # "none"
    <3>1. q # <<>> /\ r = Tail(q)
      BY <1>2, <2>2, <2>4
    <3>. QED
      BY <1>1, <1>2, <1>3, <1>5, <2>4, <3>1, OutMoves DEF q, r
  <2>5. CASE /\ ~ep'.transfer.queued
             /\ ep'.received = Append(ep.received, ep.buf[Head(pending)].packet)
    <3>1. q # <<>> /\ r = Tail(q) /\ Head(q) = Head(pending)
      BY <1>2, <2>2, <2>5
    <3>. QED
      BY <1>1, <1>2, <1>3, <1>5, <2>5, <3>1, OutMoves DEF q, r
  <2>. QED
    BY <1>1, <1>5, <2>3, <2>4, <2>5 DEF Handles
<1>. QED
  BY <1>4, <1>5

LEMMA ClientStartsMove ==
    ASSUME EndpointIInv, ClientStarts
    PROVE  Pipe!PipeNext
<1> DEFINE e == [ep EXCEPT !.asked = ep'.asked]
<1>1. /\ EndpointIInv' /\ GaveOnly(e, ep')
      /\ ~ep'.transfer.queued /\ ~ep.transfer.queued
  BY ClientStartsStep
<1>2. pending' = pending /\ host' = host
  BY DEF ClientStarts
<1>3. /\ e.in = ep.in /\ e.received = ep.received /\ e.halt = ep.halt /\ e.put = ep.put
      /\ e.buf = ep.buf /\ e.sel = ep.sel
  BY InvariantFields DEF Driver
<1> HIDE DEF e
<1>4. Sent(e) = Sent(ep)
  BY <1>3 DEF Sent
<1>5. /\ ep'.in = ep.in /\ ep'.received = ep.received /\ HaltStays
      /\ IF ep.in THEN Sends(e, ep') ELSE Untouched(e, ep')
  BY <1>1, <1>3 DEF GaveOnly, HaltStays
<1>6. CASE ep.in
  <2>1. Sends(ep, ep')
    BY <1>3, <1>4, <1>5, <1>6 DEF Sends
  <2>. QED
    BY <1>1, <1>2, <1>5, <1>6, <2>1, SendsMove
<1>7. CASE ~ep.in
  <2>1. Untouched(ep, ep')
    BY <1>3, <1>5, <1>7 DEF Untouched
  <2>2. Queue(ep', pending') = Queue(ep, pending)
    BY <1>1, <1>2 DEF Queue
  <2>. QED
    BY <1>1, <1>2, <1>5, <1>7, <2>1, <2>2, OutMoves
<1>. QED
  BY <1>6, <1>7

LEMMA ClientDoneMove ==
    ASSUME EndpointIInv, NEW fails \in BOOLEAN, ClientDone(fails)
    PROVE  Pipe!PipeNext
<1> DEFINE e == IF fails THEN Stall(ep, "halted") ELSE ep
<1>1. EndpointIInv' /\ HeldIsOver(e, ep')
  BY ClientDoneStep
<1>2. pending' = pending /\ host' = host
  BY DEF ClientDone
<1>3. /\ e.in = ep.in /\ e.received = ep.received /\ e.put = ep.put
      /\ e.buf = ep.buf /\ e.sel = ep.sel /\ e.take = ep.take
      /\ e.transfer = ep.transfer /\ (ep.halt # "none" => e.halt # "none")
  BY StallSound DEF EndpointIInv, Halt
<1> HIDE DEF e
<1>4. Sent(e) = Sent(ep)
  BY <1>3 DEF Sent
<1>5. /\ ep'.in = ep.in /\ HaltStays /\ ~ep'.transfer.queued
      /\ IF ep.in THEN Sends(e, ep')
         ELSE /\ Untouched(e, ep')
              /\ \/ ~ep.transfer.queued /\ ep'.received = ep.received
                 \/ ep'.halt # "none" /\ ep'.received = ep.received
                 \/ /\ ep.transfer.queued
                    /\ ep'.received = Append(ep.received, ep.buf[1 - ep.take].packet)
  BY <1>1, <1>3 DEF HeldIsOver, HaltStays
<1>6. CASE ep.in
  <2>1. Sends(ep, ep')
    BY <1>3, <1>4, <1>5, <1>6 DEF Sends
  <2>. QED
    BY <1>1, <1>2, <1>5, <1>6, <2>1, SendsMove
<1>7. CASE ~ep.in
  <2>1. Untouched(ep, ep')
    BY <1>3, <1>5, <1>7 DEF Untouched
  <2> DEFINE q == Queue(ep, pending)
             r == Queue(ep', pending')
  <2>2. Sound(ep, pending, host) /\ Sound(ep', pending', host')
    BY <1>1 DEF EndpointIInv
  <2>3. /\ r = pending /\ (~ep.transfer.queued => q = pending)
        /\ ep.transfer.queued => pending = <<>> /\ q = <<1 - ep.take>>
    BY <1>2, <1>5, <2>2, QueueDone
  <2> HIDE DEF q, r
  <2>4. CASE ~ep.transfer.queued
    <3>1. r = q /\ ep'.received = ep.received
      BY <1>5, <1>7, <2>3, <2>4
    <3>. QED
      BY <1>1, <1>2, <1>5, <1>7, <2>1, <3>1, OutMoves DEF q, r
  <2>5. CASE ep.transfer.queued
    <3>1. q # <<>> /\ r = Tail(q) /\ Head(q) = 1 - ep.take
      <4>1. 1 - ep.take \in Buffer
        <5>1. ep.take \in {0, 1}
          BY <2>2, TransferFields DEF Sound
        <5>. QED
          BY <5>1 DEF Buffer
      <4>. QED
        BY <2>3, <2>5, <4>1, OneItem
    <3>2. \/ ep'.received = Append(ep.received, ep.buf[Head(q)].packet)
          \/ ep'.received = ep.received /\ ep'.halt # "none"
      BY <1>5, <1>7, <2>5, <3>1
    <3>. QED
      BY <1>1, <1>2, <1>5, <1>7, <2>1, <3>1, <3>2, OutMoves DEF q, r
  <2>. QED
    BY <2>4, <2>5
<1>. QED
  BY <1>6, <1>7

LEMMA HaltsMove ==
    ASSUME EndpointIInv, EndpointHalts \/ CommandHalts
    PROVE  Pipe!PipeNext
<1>1. /\ EndpointIInv' /\ ep'.halt # "none" /\ ep'.in = ep.in
      /\ ep'.put = ep.put /\ ep'.received = ep.received
      /\ ep'.transfer = ep.transfer /\ ep'.take = ep.take
      /\ ep'.buf = ep.buf /\ ep'.sel = ep.sel
      /\ pending' = pending /\ host' = host
  BY HaltsStep
<1>2. /\ Arrived' = Arrived /\ NextPacket' = NextPacket /\ HaltStays
  BY <1>1 DEF Arrived, NextPacket, HaltStays
<1>3. Way' = Way
  BY <1>1, WayOfEither DEF Unseen, Sent, Packets, Queue
<1>. QED
  BY <1>1, <1>2, <1>3, PipeStutters

\* A reset leaves nothing on its way, and the host goes on behind what it sent.
LEMMA ResetMove ==
    ASSUME EndpointIInv, EndpointIInv', ep'.in = ep.in, ep'.received = ep.received,
           ep'.halt = "none", ~ep'.transfer.queued, pending' = <<>>,
           ep.in => ep'.put = ep.put /\ Sent(ep') = <<>>,
           host' = HostReset \/ (host' = host /\ ~host.retry)
    PROVE  Pipe!PipeNext
<1>1. /\ ~host'.retry /\ host'.received = host.received
      /\ ~ep.in => host'.next = IF host.retry THEN host.next + 1 ELSE host.next
  BY HostResetFields
<1>2. Arrived' = Arrived /\ NextPacket' = NextPacket
  BY <1>1 DEF Arrived, NextPacket
<1>3. Way' = <<>>
  <2>1. CASE ep.in
    BY <1>1, <2>1, WayOfEither DEF Unseen
  <2>2. CASE ~ep.in
    <3>1. Queue(ep', pending') = <<>> \o <<>>
      BY DEF Queue
    <3>2. Queue(ep', pending') = <<>>
      BY <3>1, Concats
    <3>3. Way' = Packets(ep', <<>>)
      BY <2>2, <3>2, WayOfEither
    <3>. QED
      BY <3>3 DEF Packets
  <2>. QED
    BY <2>1, <2>2
<1>. QED
  BY <1>2, <1>3, PipeResets

LEMMA ResetOfAsked ==
    ASSUME EndpointIInv, NEW g, IsReset([ep EXCEPT !.asked = @ + 1], g)
    PROVE  /\ g.in = ep.in /\ g.received = ep.received /\ g.halt = "none"
           /\ ~g.transfer.queued /\ (ep.in => g.put = ep.put /\ Sent(g) = <<>>)
<1> DEFINE e == [ep EXCEPT !.asked = @ + 1]
<1>1. e.in = ep.in /\ e.received = ep.received /\ e.put = ep.put
  BY InvariantFields DEF Driver
<1> HIDE DEF e
<1>2. IsReset(e, g)
  BY DEF e
<1>. QED
  BY <1>1, <1>2 DEF IsReset

LEMMA HostClearsHaltMove ==
    ASSUME EndpointIInv, QuietReset, HostClearsHalt
    PROVE  Pipe!PipeNext
<1>1. EndpointIInv'
  BY HostClearsHaltStep
<1>2. CASE ep.halt = "on_condition"
  <2>1. /\ ep' = [ep EXCEPT !.pid = 0] /\ host' = [host EXCEPT !.pid = 0]
        /\ pending' = pending
    BY <1>2, HostClearsHaltStep
  <2>2. /\ ep'.in = ep.in /\ ep'.put = ep.put /\ ep'.received = ep.received
        /\ ep'.transfer = ep.transfer /\ ep'.take = ep.take
        /\ ep'.buf = ep.buf /\ ep'.sel = ep.sel /\ ep'.halt = ep.halt
    BY <2>1, InvariantFields DEF Driver
  <2>3. host'.retry = host.retry /\ host'.next = host.next /\ host'.received = host.received
    BY <2>1, InvariantFields DEF HostState
  <2>4. Way' = Way
    <3>1. Sent(ep') = Sent(ep) /\ Unseen(ep', host') = Unseen(ep, host)
      BY <2>2, <2>3 DEF Unseen, Sent
    <3>2. /\ Queue(ep', pending') = Queue(ep, pending)
          /\ \A s : Packets(ep', s) = Packets(ep, s)
      BY <2>1, <2>2 DEF Packets, Queue
    <3>. QED
      BY <2>2, <3>1, <3>2, WayOfEither
  <2>5. Arrived' = Arrived /\ NextPacket' = NextPacket /\ HaltStays
    BY <2>2, <2>3 DEF Arrived, NextPacket, HaltStays
  <2>. QED
    BY <1>1, <2>4, <2>5, PipeStutters
<1>3. CASE ep.halt # "on_condition"
  <2>1. /\ IsReset([ep EXCEPT !.asked = @ + 1], ep')
        /\ host' = HostReset /\ pending' = <<>>
    BY <1>3, HostClearsHaltStep
  <2>2. /\ ep'.in = ep.in /\ ep'.received = ep.received /\ ep'.halt = "none"
        /\ ~ep'.transfer.queued /\ (ep.in => ep'.put = ep.put /\ Sent(ep') = <<>>)
    BY <2>1, ResetOfAsked
  <2>. QED
    BY <1>1, <2>1, <2>2, ResetMove
<1>. QED
  BY <1>2, <1>3

LEMMA HostResetsInterfaceMove ==
    ASSUME EndpointIInv, QuietReset, HostResetsInterface
    PROVE  Pipe!PipeNext
<1>1. /\ EndpointIInv' /\ IsReset([ep EXCEPT !.asked = @ + 1], ep')
      /\ host' \in {HostReset, host} /\ pending' = <<>> /\ ~host.retry
  BY HostResetsInterfaceStep
<1>2. /\ ep'.in = ep.in /\ ep'.received = ep.received /\ ep'.halt = "none"
      /\ ~ep'.transfer.queued /\ (ep.in => ep'.put = ep.put /\ Sent(ep') = <<>>)
  BY <1>1, ResetOfAsked
<1>. QED
  BY <1>1, <1>2, ResetMove

LEMMA PipeStep ==
    ASSUME EndpointIInv, QuietReset, [EndpointNext]_endpointVars
    PROVE  Pipe!PipeNext \/ UNCHANGED Pipe!pipeVars
<1>1. CASE Transaction
  <2>1. ASSUME NEW ack \in BOOLEAN, CountLoss(ack), HostSends(ack) \/ HostReceives(ack),
               UNCHANGED resets
        PROVE  Pipe!PipeNext
    BY <2>1, HostSendsMove, HostReceivesMove
  <2>. QED
    BY <1>1, <2>1, HostRepeatsMove DEF Transaction
<1>2. CASE HandleBuffer
  BY <1>2, HandleBufferMove
<1>3. CASE ClientStarts
  BY <1>3, ClientStartsMove
<1>4. ASSUME NEW fails \in BOOLEAN, ClientDone(fails) PROVE Pipe!PipeNext
  BY <1>4, ClientDoneMove
<1>5. CASE EndpointHalts \/ CommandHalts
  BY <1>5, HaltsMove
<1>6. CASE HostClearsHalt
  BY <1>6, HostClearsHaltMove
<1>7. CASE HostResetsInterface
  BY <1>7, HostResetsInterfaceMove
<1>8. CASE HostConfigures
  BY <1>8, HostConfiguresStep, ResetMove
<1>9. CASE BusReset
  BY <1>9, BusResetStep, ResetMove
<1>10. CASE UNCHANGED endpointVars
  BY <1>10 DEF endpointVars, Pipe!pipeVars, Flight, Sending, Given, Waiting
<1>. QED
  BY <1>1, <1>2, <1>3, <1>4, <1>5, <1>6, <1>7, <1>8, <1>9, <1>10 DEF EndpointNext

LEMMA PipeStart == ASSUME EndpointInit PROVE Pipe!PipeInit
<1>1. EndpointIInv
  BY InitEndpoint
<1>2. /\ pending = <<>> /\ ep.received = <<>> /\ ep.put = 0 /\ ep.halt = "none"
      /\ ep.transfer = NoTransfer /\ ep.buf = FreeBuffers /\ ep.sel = 0
      /\ host = [pid |-> 0, next |-> 1, received |-> <<>>, retry |-> FALSE]
  BY DEF EndpointInit
<1>3. host.next = 1 /\ ~host.retry /\ host.received = <<>> /\ ~ep.transfer.queued
  BY <1>2 DEF NoTransfer
<1>4. Sent(ep) = <<>> \o <<>>
  BY <1>2 DEF Sent, FreeBuffers, Buffer
<1>5. Queue(ep, pending) = <<>> \o <<>>
  BY <1>2, <1>3 DEF Queue
<1>6. Way = <<>>
  BY <1>3, <1>4, <1>5, Concats, WayOfEither DEF Unseen, Packets
<1>7. Flight = <<>>
  BY <1>1, <1>6, WayTyped
<1>. QED
  BY <1>2, <1>3, <1>7 DEF Pipe!PipeInit

\* The endpoint keeps the promise of UsbPipe: packets in order, once each, in spite
\* of lost acknowledgements, of held packets and of resets, for any number of them,
\* when the host resets an endpoint only at rest.  _usb_give_buffer and
\* _usb_reset_buffers keep the toggle to that end.
THEOREM EndpointInOrderOnce ==
    ASSUME QuietReset
    PROVE  EndpointSafety => InOrderOnce
<1>1. EndpointInit => Pipe!PipeInit
  BY PipeStart
<1>2. EndpointIInv /\ [EndpointNext]_endpointVars => [Pipe!PipeNext]_(Pipe!pipeVars)
  BY PipeStep
<1>. QED
  BY <1>1, <1>2, EndpointInvariant, PTL DEF EndpointSafety, InOrderOnce, Pipe!PipeSpec

-----------------------------------------------------------------------------
(***************************************************************************)
(* The buffers that wait for the interrupt on OUT have been filled: the    *)
(* controller has filled them, and the driver leaves alone what it does    *)
(* not give.                                                               *)
(***************************************************************************)

\* The buffers that wait, with the endpoint as e has it, are full.
AllFull(e, p) == \A i \in 1..Len(p) : e.buf[p[i]].full

LEMMA WaitingStaysFull ==
    ASSUME NEW e, NEW p, NEW h, Sound(e, p, h), NEW g, NEW q, NEW k, Sound(g, q, k),
           Untouched(e, g), AllFull(e, p),
           \A i \in 1..Len(q) : \E j \in 1..Len(p) : q[i] = p[j]
    PROVE  AllFull(g, q)
<1> SUFFICES ASSUME NEW i \in 1..Len(q) PROVE g.buf[q[i]].full
  BY DEF AllFull
<1>1. PICK j \in 1..Len(p) : q[i] = p[j]
  OBVIOUS
<1>2. q[i] \in Buffer
  BY QueueDone
<1>3. ~g.buf[q[i]].avail
  <2>1. ~g.buf[q[i]].avail \/ g.buf[q[i]].avail
    OBVIOUS
  <2>2. ASSUME g.buf[q[i]].avail PROVE FALSE
    <3>1. q \in {<<>>, <<1 - q[i]>>}
      BY <1>2, <2>2, QueueDone
    <3>2. q[i] \in {0, 1}
      BY <1>2 DEF Buffer
    <3>. QED
      BY <3>1, <3>2
  <2>. QED
    BY <2>2
<1>. QED
  BY <1>1, <1>2, <1>3 DEF Untouched, AllFull

LEMMA SecondItem ==
    ASSUME NEW s \in Seq(Buffer), NEW b \in Buffer, Len(s) = 1
    PROVE  Len(Append(s, b)) = 2 /\ Append(s, b)[1] = s[1] /\ Append(s, b)[2] = b
<1>1. Len(Append(s, b)) = Len(s) + 1
  BY AppendProperties
<1>2. \A i \in 1..Len(s) : Append(s, b)[i] = s[i]
  BY AppendProperties
<1>3. Append(s, b)[Len(s) + 1] = b
  BY AppendProperties
<1>. QED
  BY <1>1, <1>2, <1>3

LEMMA HostSendsFills ==
    ASSUME EndpointIInv, HandledIsFull, NEW ack \in BOOLEAN, HostSends(ack),
           CountLoss(ack), UNCHANGED resets
    PROVE  HandledIsFull'
<1>1. /\ ep.buf[ep.sel].avail /\ ep'.buf[1 - ep.sel] = ep.buf[1 - ep.sel]
  BY HostSendsStep
<1>2. /\ ep \in Driver /\ ep.sel \in {0, 1} /\ ep.sel \in Buffer
  BY InvariantFields, TransferFields DEF Buffer
<1>3. pending' = Append(pending, ep.sel) /\ ep'.buf[ep.sel].full /\ ~ep.in
  BY <1>2 DEF HostSends, BufferDone, Driver, BufferControl
<1>4. pending \in {<<>>, <<1 - ep.sel>>}
  BY <1>1, <1>2, QueueDone DEF EndpointIInv
<1>5. CASE pending = <<>>
  <2>1. pending' = <<ep.sel>>
    BY <1>3, <1>5
  <2>. QED
    BY <1>3, <2>1 DEF HandledIsFull
<1>6. CASE pending = <<1 - ep.sel>>
  <2>1. pending \in Seq(Buffer) /\ Len(pending) = 1 /\ pending[1] = 1 - ep.sel
    BY <1>6, QueueDone DEF EndpointIInv
  <2>2. Len(pending') = 2 /\ pending'[1] = 1 - ep.sel /\ pending'[2] = ep.sel
    <3>1. pending' = Append(pending, ep.sel)
      BY <1>3
    <3>2. /\ Len(Append(pending, ep.sel)) = 2
          /\ Append(pending, ep.sel)[1] = pending[1]
          /\ Append(pending, ep.sel)[2] = ep.sel
      BY <1>2, <2>1, SecondItem
    <3>. QED
      BY <2>1, <3>1, <3>2
  <2>3. ep.buf[1 - ep.sel].full
    BY <1>3, <2>1 DEF HandledIsFull
  <2>4. \A i \in 1..2 : ep'.buf[pending'[i]].full
    BY <1>1, <1>3, <2>2, <2>3
  <2>. QED
    BY <2>2, <2>4 DEF HandledIsFull
<1>. QED
  BY <1>4, <1>5, <1>6

LEMMA HandledStep ==
    ASSUME EndpointIInv, HandledIsFull, QuietReset, [EndpointNext]_endpointVars
    PROVE  HandledIsFull'
<1>1. Sound(ep, pending, host)
  BY DEF EndpointIInv
<1>2. Sound(ep', pending', host')
  BY EndpointStep DEF EndpointIInv
<1>3. /\ ~ep.in => AllFull(ep, pending)
      /\ AllFull(ep', pending') => HandledIsFull'
  BY DEF AllFull, HandledIsFull
<1>4. pending \in Seq(Buffer)
  BY <1>1, QueueDone
<1>a. ASSUME ep'.in = ep.in, ~ep.in => Untouched(ep, ep'), pending' = pending
      PROVE  HandledIsFull'
  <2>1. CASE ep.in
    BY <1>a, <2>1 DEF HandledIsFull
  <2>2. CASE ~ep.in
    BY <1>1, <1>2, <1>3, <1>a, <2>2, WaitingStaysFull
  <2>. QED
    BY <2>1, <2>2
<1>b. ASSUME pending' = <<>> PROVE HandledIsFull'
  BY <1>b DEF HandledIsFull
<1>c. ASSUME ep'.buf = ep.buf, ep'.in = ep.in, pending' = pending PROVE HandledIsFull'
  BY <1>c DEF HandledIsFull
<1>5. CASE Transaction
  <2>1. ASSUME NEW ack \in BOOLEAN, HostReceives(ack) PROVE HandledIsFull'
    <3>1. ep.in /\ ep'.in
      BY <2>1, InvariantFields DEF HostReceives, BufferDone, Driver
    <3>. QED
      BY <3>1 DEF HandledIsFull
  <2>2. CASE HostRepeats
    BY <2>2, <1>c DEF HostRepeats
  <2>. QED
    BY <1>5, <2>1, <2>2, HostSendsFills DEF Transaction
<1>6. CASE HandleBuffer
  <2>1. /\ Handles(ep, Head(pending), ep')
        /\ pending # <<>> /\ pending' = Tail(pending)
    BY <1>6, HandleBufferStep DEF HandleBuffer
  <2>2. ep'.in = ep.in /\ (~ep.in => Untouched(ep, ep'))
    BY <2>1 DEF Handles
  <2>3. \A i \in 1..Len(pending') : \E j \in 1..Len(pending) : pending'[i] = pending[j]
    <3> SUFFICES ASSUME NEW i \in 1..Len(Tail(pending))
                 PROVE  \E j \in 1..Len(pending) : Tail(pending)[i] = pending[j]
      BY <2>1
    <3>1. i + 1 \in 1..Len(pending) /\ Tail(pending)[i] = pending[i + 1]
      BY <1>4, <2>1
    <3>. QED
      BY <3>1
  <2>4. CASE ep.in
    BY <2>2, <2>4 DEF HandledIsFull
  <2>5. CASE ~ep.in
    BY <1>1, <1>2, <1>3, <2>2, <2>3, <2>5, WaitingStaysFull
  <2>. QED
    BY <2>4, <2>5
<1>7. CASE ClientStarts
  <2> DEFINE e == [ep EXCEPT !.asked = ep'.asked]
  <2>1. GaveOnly(e, ep') /\ pending' = pending
    BY <1>7, ClientStartsStep DEF ClientStarts
  <2>2. e.in = ep.in /\ e.buf = ep.buf
    BY InvariantFields DEF Driver
  <2> HIDE DEF e
  <2>3. ep'.in = ep.in /\ (~ep.in => Untouched(ep, ep'))
    BY <2>1, <2>2 DEF GaveOnly, Untouched
  <2>. QED
    BY <1>a, <2>1, <2>3
<1>8. ASSUME NEW fails \in BOOLEAN, ClientDone(fails) PROVE HandledIsFull'
  <2> DEFINE e == IF fails THEN Stall(ep, "halted") ELSE ep
  <2>1. HeldIsOver(e, ep') /\ pending' = pending
    BY <1>8, ClientDoneStep DEF ClientDone
  <2>2. e.in = ep.in /\ e.buf = ep.buf
    BY StallSound DEF EndpointIInv, Halt
  <2> HIDE DEF e
  <2>3. ep'.in = ep.in /\ (~ep.in => Untouched(ep, ep'))
    BY <2>1, <2>2 DEF HeldIsOver, Untouched
  <2>. QED
    BY <1>a, <2>1, <2>3
<1>9. CASE EndpointHalts \/ CommandHalts
  BY <1>9, <1>c, HaltsStep
<1>10. CASE HostClearsHalt
  <2>1. pending' = <<>>
    BY <1>10 DEF HostClearsHalt
  <2>. QED
    BY <1>b, <2>1
<1>11. CASE HostResetsInterface \/ HostConfigures \/ BusReset
  BY <1>b, <1>11, HostResetsInterfaceStep, HostConfiguresStep, BusResetStep
<1>12. CASE UNCHANGED endpointVars
  BY <1>12, <1>c DEF endpointVars
<1>. QED
  BY <1>5, <1>6, <1>7, <1>8, <1>9, <1>10, <1>11, <1>12 DEF EndpointNext

\* The assertion of usb_current_packet_buffer holds when the host resets an
\* endpoint only at rest: a packet on OUT is taken from a buffer the controller has
\* filled.  What breaks it is only that _usb_reset_buffers leaves a completion
\* behind.
THEOREM HandledCorrect ==
    ASSUME QuietReset
    PROVE  EndpointSafety => []HandledIsFull
<1>1. EndpointInit => HandledIsFull
  BY DEF EndpointInit, HandledIsFull
<1>2. EndpointIInv /\ HandledIsFull /\ [EndpointNext]_endpointVars => HandledIsFull'
  BY HandledStep
<1>. QED
  BY <1>1, <1>2, EndpointInvariant, PTL DEF EndpointSafety

=============================================================================
