-------------------------- MODULE MassStorage_proofs --------------------------
(***************************************************************************)
(* Proofs about the mass storage interface and the control endpoint, for   *)
(* any commands, lengths and addresses.                                    *)
(*                                                                         *)
(* The invariant has four parts: that of the control endpoint; what holds   *)
(* of the types, a transfer and the tokens whatever has come too late; and, *)
(* until a completion does, what holds of the interface alone (Fit), and    *)
(* where the two ends can be in a command (Agree).                          *)
(***************************************************************************)
EXTENDS MassStorage, TLAPS

\* A transfer has its residue, and one of the endpoints to itself; a packet
\* waits for its task, or behind another, in a transfer only.
MscFits(m) ==
    /\ m \in MscState
    /\ m.csw.tag # 0 => m.csw.residue >= 0
    /\ (m.in = "stream" \/ m.out = "stream") =>
          /\ m.offset <= m.length
          /\ m.csw.residue >= PacketLength * (m.length - m.offset)
    /\ m.out = "stream" => m.in = "none" /\ m.offset < m.length
    /\ m.csw_on_unstall => m.in = "none" /\ m.out # "stream"
    /\ m.held => m.out = "stream"
    /\ m.deferred => m.held /\ m.offset + 1 < m.length
    /\ m.in = "reply" => m.packet \in [length : Nat, sense : Sense]

\* The interface between commands.
Rests(m) == m.in = "none" /\ m.out # "stream" /\ ~m.csw_on_unstall

\* The sector of a task with the current token was given up.
Stale == Outstanding /\ ~msc.held

\* The address that SET_ADDRESS acknowledges is the one the host asks for.
AddressPending ==
    asking.request # NoRequest /\ control.in = "set_address" =>
        asking.request.name = "SET_ADDRESS" /\ asking.request.arg = device.pending

-----------------------------------------------------------------------------
(***************************************************************************)
(* The operators on the interface.                                         *)
(***************************************************************************)

LEMMA MinOfTwo ==
    ASSUME NEW a \in Nat, NEW b \in Nat
    PROVE  Min({a, b}) \in {a, b} /\ Min({a, b}) \in Nat
           /\ Min({a, b}) <= a /\ Min({a, b}) <= b
<1>1. \E x \in {a, b} : \A y \in {a, b} : x =< y
  <2>1. CASE a <= b
    BY <2>1
  <2>2. CASE ~(a <= b)
    BY <2>2
  <2>. QED
    BY <2>1, <2>2
<1>2. Min({a, b}) \in {a, b} /\ \A y \in {a, b} : Min({a, b}) =< y
  BY <1>1, Zenon DEF Min
<1>. QED
  BY <1>2

\* The status is readied, or waits for the end of a halt.
LEMMA DataPhaseCompleteFits ==
    ASSUME NEW m, MscFits(m), m.in = "none", m.out # "stream"
    PROVE  /\ MscFits(DataPhaseComplete(m))
           /\ DataPhaseComplete(m).token = m.token
           /\ DataPhaseComplete(m).held = m.held
           /\ DataPhaseComplete(m).deferred = m.deferred
           /\ DataPhaseComplete(m).out = m.out
<1> DEFINE Same(x) == /\ x.token = m.token /\ x.held = m.held /\ x.out = m.out
                      /\ x.deferred = m.deferred
<1>1. ASSUME NEW x, MscFits(x), x.in = "none", x.out # "stream", Same(x)
      PROVE  MscFits(SendCsw(x)) /\ Same(SendCsw(x))
  <2>1. /\ SendCsw(x) \in MscState
        /\ SendCsw(x).in = "csw" /\ SendCsw(x).out = x.out /\ SendCsw(x).csw = x.csw
        /\ SendCsw(x).offset = x.offset /\ SendCsw(x).length = x.length
        /\ SendCsw(x).held = x.held /\ SendCsw(x).deferred = x.deferred
        /\ SendCsw(x).token = x.token /\ SendCsw(x).csw_on_unstall = FALSE
    BY <1>1 DEF SendCsw, MscFits, MscState
  <2>. QED
    BY <1>1, <2>1 DEF MscFits
<1>2. ASSUME NEW x, MscFits(x), x.in = "none", x.out # "stream", Same(x),
             NEW e \in Endpoints
      PROVE  /\ MscFits(Halt(x, e)) /\ Same(Halt(x, e))
             /\ Halt(x, e).in = "none" /\ Halt(x, e).out # "stream"
  BY <1>2 DEF Halt, MscFits, MscState
<1> DEFINE n == [m EXCEPT !.stall_before_csw = "none"]
           u == [n EXCEPT !.csw_on_unstall = TRUE]
<1>3. /\ MscFits(n) /\ n.in = "none" /\ n.out # "stream" /\ Same(n)
      /\ MscFits(u) /\ u.in = "none" /\ u.out # "stream" /\ Same(u)
  BY DEF MscFits, MscState
<1>4. "IN" \in Endpoints /\ "OUT" \in Endpoints
  BY DEF Endpoints
<1>5. DataPhaseComplete(m) \in {Halt(u, "IN"), SendCsw(Halt(n, "OUT")), SendCsw(n)}
  BY DEF DataPhaseComplete
<1> HIDE DEF n, u, Same
<1>6. /\ MscFits(Halt(u, "IN")) /\ Same(Halt(u, "IN"))
      /\ MscFits(SendCsw(Halt(n, "OUT"))) /\ Same(SendCsw(Halt(n, "OUT")))
      /\ MscFits(SendCsw(n)) /\ Same(SendCsw(n))
  BY <1>1, <1>2, <1>3, <1>4
<1>7. MscFits(DataPhaseComplete(m)) /\ Same(DataPhaseComplete(m))
  BY <1>5, <1>6
<1>. QED
  BY <1>7 DEF Same

\* A command without data, or one that fails.
LEMMA NoDataFits ==
    ASSUME NEW m, MscFits(m), Rests(m), NEW c \in CommandBlock
    PROVE  /\ MscFits(NoData(m, c))
           /\ NoData(m, c).token = m.token
           /\ NoData(m, c).out = m.out
           /\ \A sense \in Sense :
                 /\ MscFits(Fail(m, c, sense))
                 /\ Fail(m, c, sense).token = m.token
                 /\ Fail(m, c, sense).out = m.out
<1>1. ASSUME NEW n, MscFits(n), Rests(n), n.token = m.token, n.out = m.out
      PROVE  /\ MscFits(NoData(n, c))
             /\ NoData(n, c).token = m.token
             /\ NoData(n, c).out = m.out
  <2> DEFINE s == [n EXCEPT !.stall_before_csw =
                       IF c.dtl # 0 THEN Direction(c) ELSE "none"]
  <2>1. Direction(c) \in Endpoints
    BY DEF Direction, Endpoints
  <2>2. MscFits(s) /\ s.in = "none" /\ s.out = n.out /\ s.token = n.token
    BY <1>1, <2>1 DEF MscFits, Rests, MscState
  <2>3. s.out # "stream"
    BY <1>1, <2>2 DEF Rests
  <2>. HIDE DEF s
  <2>4. /\ MscFits(DataPhaseComplete(s))
        /\ DataPhaseComplete(s).token = s.token
        /\ DataPhaseComplete(s).out = s.out
    BY <2>2, <2>3, DataPhaseCompleteFits
  <2>. QED
    BY <1>1, <2>2, <2>4 DEF NoData, s
<1>2. ASSUME NEW sense \in Sense
      PROVE  /\ MscFits(Fail(m, c, sense))
             /\ Fail(m, c, sense).token = m.token
             /\ Fail(m, c, sense).out = m.out
  <2> DEFINE n == [m EXCEPT !.csw.status = "FAILED", !.sense = sense]
  <2>1. MscFits(n) /\ Rests(n) /\ n.token = m.token /\ n.out = m.out
    BY DEF MscFits, Rests, MscState, Csw, Status
  <2>. QED
    BY <2>1, <1>1 DEF Fail
<1>. QED
  BY <1>1, <1>2

\* What the data phase is to be changes neither the residue nor a transfer.
LEMMA WithDataFits ==
    ASSUME NEW m, MscFits(m), Rests(m), NEW c \in CommandBlock,
           NEW expected \in Nat, NEW dir \in Endpoints
    PROVE  LET w == WithData(m, c, expected, dir)
           IN  /\ MscFits(w) /\ Rests(w)
               /\ w.token = m.token /\ w.out = m.out /\ w.csw.residue = m.csw.residue
               /\ DataLength(c, expected, dir) \in Nat
               /\ DataLength(c, expected, dir) <= c.dtl
<1>1. c.dtl \in Nat /\ Direction(c) \in Endpoints
  BY DEF CommandBlock, Direction, Endpoints
<1>2. /\ MscFits(WithData(m, c, expected, dir)) /\ Rests(WithData(m, c, expected, dir))
      /\ WithData(m, c, expected, dir).token = m.token
      /\ WithData(m, c, expected, dir).out = m.out
      /\ WithData(m, c, expected, dir).csw.residue = m.csw.residue
  BY <1>1 DEF MscFits, Rests, WithData, MscState, Csw, Status
<1>3. /\ DataLength(c, expected, dir) \in Nat
      /\ DataLength(c, expected, dir) <= c.dtl
  BY <1>1, MinOfTwo DEF DataLength
<1>. QED
  BY <1>2, <1>3

\* A command whose reply is one packet.
LEMMA ReplyFits ==
    ASSUME NEW m, MscFits(m), Rests(m), NEW c \in CommandBlock,
           m.csw.residue = c.dtl, NEW sense \in Sense
    PROVE  /\ MscFits(Reply(m, c, sense))
           /\ Reply(m, c, sense).token = m.token
           /\ Reply(m, c, sense).out = m.out
<1> DEFINE expected == Min({ReplyLength, c.dtl})
           n == DataLength(c, expected, "IN")
           w == WithData(m, c, expected, "IN")
<1>1. expected \in Nat
  BY MinOfTwo DEF CommandBlock, ReplyLength
<1>2. /\ MscFits(w) /\ Rests(w)
      /\ w.token = m.token /\ w.out = m.out /\ w.csw.residue = m.csw.residue
      /\ n \in Nat /\ n <= c.dtl
  BY <1>1, WithDataFits DEF Endpoints
<1>. HIDE DEF expected, n, w
<1>3. CASE n = 0
  <2>1. MscFits(DataPhaseComplete(w)) /\ DataPhaseComplete(w).token = w.token
        /\ DataPhaseComplete(w).out = w.out
    BY <1>2, DataPhaseCompleteFits DEF Rests
  <2>. QED
    BY <1>2, <1>3, <2>1 DEF Reply, expected, n, w
<1>4. CASE n # 0
  <2> DEFINE r == [w EXCEPT !.csw.residue = @ - n, !.in = "reply",
                            !.packet = [length |-> n, sense |-> sense]]
  <2>1. w.csw.residue - n \in Int /\ w.csw.residue - n >= 0
    BY <1>2 DEF CommandBlock
  <2>2. [length |-> n, sense |-> sense] \in [length : Nat, sense : Sense]
    BY <1>2
  <2>3. r \in MscState
    BY <1>2, <2>1, <2>2 DEF MscFits, MscState, Csw
  <2>4. MscFits(r) /\ r.token = w.token /\ r.out = w.out
    BY <1>2, <2>1, <2>3 DEF MscFits, Rests, MscState, Csw
  <2>. QED
    BY <1>2, <1>4, <2>4 DEF Reply, expected, n, w
<1>. QED
  BY <1>3, <1>4

\* A packet of a transfer is moved; an OUT packet leaves its successor, if the
\* other buffer holds it, to TakeDeferred.
LEMMA PacketCompleteFits ==
    ASSUME NEW m, MscFits(m), m.in = "stream" \/ m.out = "stream",
           m.offset < m.length
    PROVE  LET n == PacketComplete(m)
               d == [n EXCEPT !.deferred = FALSE]
           IN  /\ n \in MscState /\ d \in MscState
               /\ n.token = m.token /\ n.in = m.in /\ n.out = m.out /\ n.halt = m.halt
               /\ n.length = m.length /\ n.offset = m.offset + 1
               /\ n.held = FALSE /\ n.deferred = m.deferred
               /\ n.csw_on_unstall = FALSE
               /\ n.csw.residue >= 0
               /\ n.csw.residue >= PacketLength * (n.length - n.offset)
<1> DEFINE n == PacketComplete(m)
<1>1. m \in MscState /\ m.csw \in Csw /\ m.csw.residue \in Int
  BY DEF MscFits, MscState, Csw
<1>2. m.csw.residue - PacketLength \in Int /\ m.offset + 1 \in Nat
  BY <1>1 DEF PacketLength, MscState
<1>3. /\ n \in MscState /\ [n EXCEPT !.deferred = FALSE] \in MscState
  BY <1>1, <1>2 DEF PacketComplete, MscState, Csw
<1>4. /\ n.token = m.token /\ n.in = m.in /\ n.out = m.out /\ n.halt = m.halt
      /\ n.length = m.length /\ n.offset = m.offset + 1
      /\ n.held = FALSE /\ n.deferred = m.deferred
      /\ n.csw_on_unstall = m.csw_on_unstall
      /\ n.csw.residue = m.csw.residue - PacketLength
  BY <1>1 DEF PacketComplete, MscState, Csw
<1>5. m.csw_on_unstall = FALSE
  BY <1>1 DEF MscFits, MscState
<1>6. m.csw.residue >= PacketLength * (m.length - m.offset)
      /\ m.length \in Nat /\ m.offset \in Nat
  BY DEF MscFits, MscState
<1>7. n.csw.residue >= PacketLength * (n.length - n.offset) /\ n.csw.residue >= 0
  BY <1>1, <1>4, <1>6 DEF PacketLength
<1>. QED
  BY <1>3, <1>4, <1>5, <1>7

LEMMA FillPacketFits ==
    ASSUME NEW m, MscFits(m), m.in = "stream", m.offset < m.length
    PROVE  /\ MscFits(FillPacket(m))
           /\ FillPacket(m).token \in {m.token, m.token + 1}
           /\ FillPacket(m).out = m.out
<1> DEFINE s == [m EXCEPT !.token = IF m.offset % SectorPackets = 0 THEN @ + 1 ELSE @]
           n == PacketComplete(s)
<1>1. MscFits(s) /\ s.in = "stream" /\ s.offset < s.length /\ s.out = m.out
      /\ s.token \in {m.token, m.token + 1} /\ s.deferred = FALSE /\ s.held = FALSE
  BY DEF MscFits, MscState
<1>. HIDE DEF s
<1>2. /\ n \in MscState /\ n.token = s.token /\ n.in = s.in /\ n.out = s.out
      /\ n.length = s.length /\ n.offset = s.offset + 1
      /\ n.held = FALSE /\ n.deferred = s.deferred /\ n.csw_on_unstall = FALSE
      /\ n.csw.residue >= 0
      /\ n.csw.residue >= PacketLength * (n.length - n.offset)
  BY <1>1, PacketCompleteFits
<1>. HIDE DEF n
<1>3. n.out # "stream" /\ s.offset + 1 <= s.length
  BY <1>1, <1>2 DEF MscFits, MscState
<1>4. MscFits(n)
  BY <1>1, <1>2, <1>3 DEF MscFits
<1>. QED
  BY <1>1, <1>2, <1>4 DEF FillPacket, s, n

\* An OUT packet is done with.
LEMMA DonePacketFits ==
    ASSUME NEW m, MscFits(m), m.out = "stream"
    PROVE  LET d == DonePacket(m)
           IN  /\ MscFits([d EXCEPT !.deferred = FALSE])
               /\ d.token = m.token /\ d.held = FALSE
               /\ d.deferred => m.deferred /\ d.out = "stream"
               /\ ~d.deferred => MscFits(d)
<1> DEFINE n == PacketComplete(m)
<1>1. m.offset < m.length /\ m \in MscState
  BY DEF MscFits
<1>2. /\ n \in MscState /\ n.token = m.token /\ n.in = m.in /\ n.out = m.out
      /\ n.halt = m.halt
      /\ n.length = m.length /\ n.offset = m.offset + 1
      /\ n.held = FALSE /\ n.deferred = m.deferred /\ n.csw_on_unstall = FALSE
      /\ n.csw.residue >= 0
      /\ n.csw.residue >= PacketLength * (n.length - n.offset)
  BY <1>1, PacketCompleteFits
<1>3. n.in = "none" /\ n.offset <= n.length /\ n.offset \in Nat /\ n.length \in Nat
  BY <1>1, <1>2 DEF MscFits, MscState
<1>. HIDE DEF n
<1>4. CASE n.halt["OUT"] # "none"
  <2> DEFINE d == [n EXCEPT !.out = "none", !.deferred = FALSE]
  <2>1. MscFits(d) /\ d.token = n.token /\ d.held = FALSE /\ d.deferred = FALSE
    BY <1>2, <1>3 DEF MscFits, MscState
  <2>2. MscFits([d EXCEPT !.deferred = FALSE])
    BY <2>1 DEF MscFits, MscState
  <2>3. DonePacket(m) = d
    BY <1>4 DEF DonePacket, n
  <2>. HIDE DEF d
  <2>. QED
    BY <1>2, <2>1, <2>2, <2>3
<1>5. CASE n.halt["OUT"] = "none" /\ n.offset = n.length
  <2> DEFINE s == [n EXCEPT !.out = "none"]
             d == DataPhaseComplete(s)
  <2>1. n.deferred = FALSE
    BY <1>1, <1>2, <1>3, <1>5 DEF MscFits, MscState
  <2>2. MscFits(s) /\ s.in = "none" /\ s.out = "none" /\ s.token = n.token
        /\ s.held = FALSE /\ s.deferred = FALSE
    BY <1>2, <1>3, <2>1 DEF MscFits, MscState
  <2>. HIDE DEF s
  <2>3. MscFits(d) /\ d.token = s.token /\ d.held = FALSE /\ d.deferred = FALSE
    BY <2>2, DataPhaseCompleteFits
  <2>4. MscFits([d EXCEPT !.deferred = FALSE])
    BY <2>3 DEF MscFits, MscState
  <2>. QED
    BY <1>2, <1>5, <2>2, <2>3, <2>4 DEF DonePacket, n, s
<1>6. CASE n.halt["OUT"] = "none" /\ n.offset # n.length
  <2> DEFINE d == [n EXCEPT !.deferred = FALSE]
  <2>a. d \in MscState
    BY <1>2 DEF MscState
  <2>b. /\ d.in = n.in /\ d.out = n.out /\ d.offset = n.offset /\ d.length = n.length
        /\ d.csw = n.csw /\ d.csw_on_unstall = n.csw_on_unstall
        /\ d.held = n.held /\ d.deferred = FALSE
    BY <1>2 DEF MscState
  <2> HIDE DEF d
  <2>c. MscFits(d)
    BY <1>2, <1>3, <1>6, <2>a, <2>b DEF MscFits
  <2>1. MscFits([n EXCEPT !.deferred = FALSE])
    BY <2>c DEF d
  <2>2. ~n.deferred => MscFits(n)
    BY <1>2, <1>3, <1>6 DEF MscFits, MscState
  <2>3. DonePacket(m) = n
    BY <1>6 DEF DonePacket, n
  <2>. QED
    BY <1>2, <2>1, <2>2, <2>3
<1>. QED
  BY <1>4, <1>5, <1>6

\* A packet received: a task has its token only if it was given a new one.
LEMMA TakePacketFits ==
    ASSUME NEW m, MscFits(m), m.out = "stream", m.held = FALSE, NEW async \in BOOLEAN
    PROVE  LET t == TakePacket(m, async)
           IN  /\ MscFits(t)
               /\ t.token \in {m.token, m.token + 1}
               /\ t.held => t.token = m.token + 1
<1>1. m \in MscState /\ m.deferred = FALSE /\ m.token \in Nat
  BY DEF MscFits, MscState
<1>2. ASSUME NEW n, MscFits(n), n.out = "stream", n.deferred = FALSE
      PROVE  MscFits(DonePacket(n)) /\ DonePacket(n).token = n.token
             /\ DonePacket(n).held = FALSE
  <2>1. DonePacket(n).token = n.token /\ DonePacket(n).held = FALSE
        /\ ~DonePacket(n).deferred /\ (~DonePacket(n).deferred => MscFits(DonePacket(n)))
    BY <1>2, DonePacketFits
  <2>. QED
    BY <2>1
<1>3. CASE ~EndsChunk(m)
  <2>1. TakePacket(m, async) = DonePacket(m)
    BY <1>3 DEF TakePacket
  <2>. QED
    BY <1>1, <1>2, <2>1
<1>4. CASE EndsChunk(m)
  <2> DEFINE n == [m EXCEPT !.token = @ + 1]
  <2>1. MscFits(n) /\ n.out = "stream" /\ n.deferred = FALSE /\ n.token = m.token + 1
    BY <1>1 DEF MscFits, MscState
  <2>3. TakePacket(m, async) = IF async THEN [n EXCEPT !.held = TRUE] ELSE DonePacket(n)
    BY <1>4 DEF TakePacket
  <2> HIDE DEF n
  <2>2. MscFits([n EXCEPT !.held = TRUE]) /\ [n EXCEPT !.held = TRUE].token = m.token + 1
    BY <2>1 DEF MscFits, MscState
  <2>4. MscFits(DonePacket(n)) /\ DonePacket(n).token = n.token /\ DonePacket(n).held = FALSE
    BY <1>2, <2>1
  <2>5. CASE async
    BY <1>1, <2>2, <2>3, <2>5
  <2>6. CASE ~async
    BY <1>1, <2>1, <2>3, <2>4, <2>6
  <2>. QED
    BY <2>5, <2>6
<1>. QED
  BY <1>3, <1>4

\* The task of the packet has ended well, and the other buffer follows.
LEMMA PacketEndsFits ==
    ASSUME NEW m, MscFits(m), m.held, NEW async \in BOOLEAN
    PROVE  LET t == TakeDeferred(DonePacket(m), async)
           IN  /\ MscFits(t)
               /\ t.token \in {m.token, m.token + 1}
               /\ t.held => t.token = m.token + 1
<1> DEFINE d == DonePacket(m)
           e == [d EXCEPT !.deferred = FALSE]
<1>1. m.out = "stream" /\ m.token \in Nat /\ m.deferred \in BOOLEAN
  BY DEF MscFits, MscState
<1>2. /\ MscFits(e) /\ d.token = m.token /\ d.held = FALSE
      /\ d.deferred => d.out = "stream"
      /\ ~d.deferred => MscFits(d)
  BY <1>1, DonePacketFits
<1>3. CASE ~d.deferred
  BY <1>1, <1>2, <1>3 DEF TakeDeferred
<1>4. CASE d.deferred
  <2>1. e.token = d.token /\ e.held = d.held /\ e.out = d.out
    <3>1. e \in MscState
      BY <1>2 DEF MscFits
    <3>. QED
      BY <3>1 DEF MscState
  <2>2. TakeDeferred(d, async) = TakePacket(e, async)
    BY <1>4 DEF TakeDeferred
  <2> HIDE DEF d, e
  <2>3. /\ MscFits(TakePacket(e, async))
        /\ TakePacket(e, async).token \in {e.token, e.token + 1}
        /\ TakePacket(e, async).held => TakePacket(e, async).token = e.token + 1
    BY <1>2, <1>4, <2>1, TakePacketFits
  <2>4. TakeDeferred(DonePacket(m), async) = TakePacket(e, async)
    BY <2>2 DEF d
  <2>. QED
    BY <1>2, <2>1, <2>3, <2>4
<1>. QED
  BY <1>3, <1>4

\* The task of the packet has failed: the endpoint halts, and the transfer ends.
LEMMA ErrorEndsFits ==
    ASSUME NEW m, MscFits(m), m.held, NEW async \in BOOLEAN
    PROVE  LET t == TakeDeferred(DonePacket(ErrorEnds(m)), async)
           IN  MscFits(t) /\ t.token = m.token /\ t.held = FALSE
<1> DEFINE e == ErrorEnds(m)
           n == PacketComplete(e)
           d == [n EXCEPT !.out = "none", !.deferred = FALSE]
<1>1. m.out = "stream" /\ m.in = "none" /\ m.offset < m.length /\ m \in MscState
  BY DEF MscFits, MscState
<1>2. /\ e \in MscState /\ e.halt["OUT"] # "none" /\ e.token = m.token
      /\ e.offset = m.offset /\ e.length = m.length /\ e.csw.residue = m.csw.residue
      /\ e.csw_on_unstall = FALSE /\ e.in = "csw"
  <2> DEFINE s == [m EXCEPT !.csw.status = "FAILED", !.sense = "DATA_PROTECT",
                            !.stall_before_csw = "OUT"]
             q == [s EXCEPT !.stall_before_csw = "none"]
             h == Halt(q, "OUT")
  <2>1. /\ s \in MscState /\ s.stall_before_csw = "OUT" /\ s.token = m.token
        /\ s.offset = m.offset /\ s.length = m.length
        /\ s.csw.residue = m.csw.residue /\ s.halt = m.halt
    BY <1>1 DEF MscState, Csw, Endpoints, Status, Sense
  <2> HIDE DEF s
  <2>2. /\ q \in MscState /\ q.token = s.token /\ q.offset = s.offset
        /\ q.length = s.length /\ q.csw = s.csw /\ q.halt = s.halt
    BY <2>1 DEF MscState
  <2>3. e = SendCsw(h)
    BY <2>1 DEF e, s, ErrorEnds, DataPhaseComplete
  <2> HIDE DEF q
  <2>4. /\ h \in MscState /\ h.token = q.token /\ h.offset = q.offset
        /\ h.length = q.length /\ h.csw = q.csw /\ h.halt["OUT"] # "none"
    BY <2>2 DEF Halt, MscState, Endpoints
  <2> HIDE DEF h
  <2>5. /\ SendCsw(h) \in MscState /\ SendCsw(h).token = h.token
        /\ SendCsw(h).offset = h.offset /\ SendCsw(h).length = h.length
        /\ SendCsw(h).csw = h.csw /\ SendCsw(h).halt = h.halt
        /\ SendCsw(h).csw_on_unstall = FALSE /\ SendCsw(h).in = "csw"
    BY <2>4 DEF SendCsw, MscState
  <2>. QED
    BY <2>1, <2>2, <2>3, <2>4, <2>5
<1>. HIDE DEF e
<1>3. e.csw.residue \in Int /\ e.csw.residue - PacketLength >= 0
      /\ e.offset \in Nat /\ e.length \in Nat
  BY <1>1, <1>2 DEF MscFits, MscState, Csw, PacketLength
<1>4. /\ n \in MscState /\ n.halt["OUT"] # "none" /\ n.token = e.token
      /\ n.offset = e.offset + 1 /\ n.length = e.length
      /\ n.csw.residue = e.csw.residue - PacketLength
      /\ n.csw_on_unstall = FALSE /\ n.in = "csw" /\ n.held = FALSE
  <2>1. e.csw.residue - PacketLength \in Int /\ e.offset + 1 \in Nat
    BY <1>3 DEF PacketLength
  <2>. QED
    BY <1>2, <2>1 DEF PacketComplete, MscState, Csw
<1>. HIDE DEF n
<1>5. MscFits(d) /\ d.token = n.token /\ d.held = FALSE /\ d.deferred = FALSE
  <2>1. /\ d \in MscState /\ d.token = n.token /\ d.held = FALSE /\ d.deferred = FALSE
        /\ d.out = "none" /\ d.in = "csw" /\ d.csw_on_unstall = FALSE
        /\ d.offset = n.offset /\ d.length = n.length /\ d.csw = n.csw
    BY <1>4 DEF MscState
  <2>2. d.offset <= d.length /\ d.csw.residue >= 0
    BY <1>1, <1>2, <1>3, <1>4, <2>1
  <2> HIDE DEF d
  <2>. QED
    BY <2>1, <2>2 DEF MscFits
<1>6. DonePacket(e) = d
  BY <1>4 DEF DonePacket, n
<1>7. TakeDeferred(d, async) = d
  BY <1>5 DEF TakeDeferred
<1>. QED
  BY <1>2, <1>4, <1>5, <1>6, <1>7 DEF e

\* A READ or WRITE: its transfer has as many packets as the host's length holds.
LEMMA ReadOrWriteFits ==
    ASSUME NEW m, MscFits(m), Rests(m), m.out = "none", NEW c \in CommandBlock,
           m.csw.residue = c.dtl, NEW dir \in Endpoints
    PROVE  LET r == ReadOrWrite(m, c, dir)
           IN  /\ MscFits(r) /\ r.held = FALSE /\ r.token \in Nat
               /\ r.token >= m.token
<1> DEFINE expected == c.blocks * SectorLength
           n == DataLength(c, expected, dir) \div PacketLength
           w == WithData(m, c, expected, dir)
<1>1. expected \in Nat /\ c.dtl \in Nat
  BY DEF CommandBlock, SectorLength, SectorPackets, PacketLength
<1>2. /\ MscFits(w) /\ Rests(w)
      /\ w.token = m.token /\ w.out = m.out /\ w.csw.residue = m.csw.residue
  BY <1>1, WithDataFits
<1>3. n \in Nat /\ PacketLength * n <= c.dtl
  <2>1. DataLength(c, expected, dir) \in Nat /\ DataLength(c, expected, dir) <= c.dtl
    BY <1>1, WithDataFits
  <2> HIDE DEF expected
  <2>. QED
    BY <1>1, <2>1 DEF PacketLength
<1>. HIDE DEF expected, n, w
<1>4. w \in MscState /\ w.token \in Nat /\ w.held = FALSE /\ w.deferred = FALSE
  BY <1>2 DEF MscFits, Rests, MscState
<1>5. CASE n = 0
  <2>1. MscFits(DataPhaseComplete(w)) /\ DataPhaseComplete(w).token = w.token
        /\ DataPhaseComplete(w).held = w.held
    BY <1>2, DataPhaseCompleteFits DEF Rests
  <2>2. ReadOrWrite(m, c, dir) = DataPhaseComplete(w)
    BY <1>5 DEF ReadOrWrite, expected, n, w
  <2>. QED
    BY <1>2, <1>4, <2>1, <2>2
<1>6. CASE n # 0
  <2> DEFINE s == [w EXCEPT !.token = @ + 1, !.offset = 0, !.length = n]
             i == [s EXCEPT !.in = "stream"]
             o == [s EXCEPT !.out = "stream"]
  <2>1. ReadOrWrite(m, c, dir) = IF dir = "IN" THEN FillPacket(i) ELSE o
    BY <1>6 DEF ReadOrWrite, Streams, expected, n, w
  <2>2. /\ s \in MscState /\ s.token = m.token + 1 /\ s.offset = 0 /\ s.length = n
        /\ s.csw.residue = c.dtl /\ s.in = "none" /\ s.out = "none"
        /\ s.held = FALSE /\ s.deferred = FALSE /\ s.csw_on_unstall = FALSE
    <3>1. w.csw_on_unstall = FALSE /\ w.in = "none" /\ w.out = "none"
      BY <1>2, <1>4 DEF Rests, MscState
    <3>2. w.token + 1 \in Nat /\ 0 \in Nat
      BY <1>4
    <3>3. s \in MscState
      BY <1>3, <1>4, <3>2 DEF MscState
    <3>4. /\ s.token = w.token + 1 /\ s.offset = 0 /\ s.length = n /\ s.csw = w.csw
          /\ s.in = w.in /\ s.out = w.out /\ s.held = w.held
          /\ s.deferred = w.deferred /\ s.csw_on_unstall = w.csw_on_unstall
      BY <1>4 DEF MscState
    <3>. QED
      BY <1>2, <1>4, <3>1, <3>3, <3>4
  <2> HIDE DEF s
  <2>3. s.csw.residue >= PacketLength * (s.length - s.offset) /\ s.csw.residue >= 0
        /\ s.offset < s.length
    BY <1>1, <1>3, <1>6, <2>2
  <2>4. /\ i \in MscState /\ i.token = s.token /\ i.offset = 0 /\ i.length = n
        /\ i.csw = s.csw /\ i.in = "stream" /\ i.out = "none"
        /\ i.held = FALSE /\ i.deferred = FALSE /\ i.csw_on_unstall = FALSE
    BY <2>2 DEF MscState
  <2>5. /\ o \in MscState /\ o.token = s.token /\ o.offset = 0 /\ o.length = n
        /\ o.csw = s.csw /\ o.in = "none" /\ o.out = "stream"
        /\ o.held = FALSE /\ o.deferred = FALSE /\ o.csw_on_unstall = FALSE
    BY <2>2 DEF MscState
  <2> HIDE DEF i, o
  <2>6. MscFits(i) /\ MscFits(o)
    BY <1>3, <1>6, <2>2, <2>3, <2>4, <2>5 DEF MscFits
  <2>7. /\ MscFits(FillPacket(i)) /\ FillPacket(i).token \in {i.token, i.token + 1}
        /\ FillPacket(i).out = i.out
    BY <1>3, <1>6, <2>4, <2>6, FillPacketFits
  <2>8. FillPacket(i).held = FALSE
    BY <2>4, <2>7 DEF MscFits, MscState
  <2>9. m.token \in Nat
    BY DEF MscFits, MscState
  <2>. QED
    BY <2>1, <2>2, <2>4, <2>5, <2>6, <2>7, <2>8, <2>9
<1>. QED
  BY <1>5, <1>6

\* Every command leaves the interface consistent, and tokens only grow.
LEMMA HandledFits ==
    ASSUME NEW m, MscFits(m), Rests(m), m.held = FALSE,
           NEW c \in CommandBlock, NEW tag \in Nat
    PROVE  LET h == Handled(m, c, tag)
           IN  /\ MscFits(h) /\ h.held = FALSE /\ h.token \in Nat
               /\ h.token >= m.token
<1> DEFINE o == Opened(m, c, tag)
           x == [m EXCEPT !.out = "none", !.halt = [e \in Endpoints |-> "on_condition"]]
           Fine(h) == MscFits(h) /\ h.held = FALSE /\ h.token \in Nat /\ h.token >= m.token
<1>1. m \in MscState /\ m.token \in Nat /\ c.dtl \in Nat /\ c.op \in Operation
      /\ m.deferred = FALSE
  BY DEF MscFits, MscState, CommandBlock
<1>2. /\ MscFits(o) /\ Rests(o) /\ o.out = "none" /\ o.csw.residue = c.dtl
      /\ o.token = m.token /\ o.sense \in Sense /\ o.ejected \in BOOLEAN
  <2> DEFINE k == [tag |-> tag, status |-> "PASSED", residue |-> c.dtl]
  <2>1. k \in Csw /\ k.residue = c.dtl
    BY <1>1 DEF Csw, Status
  <2> HIDE DEF k
  <2>2. o = [m EXCEPT !.csw = k, !.out = "none",
                      !.sense = IF c.op = "sense" THEN @ ELSE "OK"]
    BY DEF Opened, k
  <2> DEFINE a == [m EXCEPT !.csw = k]
             b == [a EXCEPT !.out = "none"]
             sense == IF c.op = "sense" THEN m.sense ELSE "OK"
  <2>5. /\ a \in MscState /\ a.csw = k /\ a.in = m.in /\ a.sense = m.sense
        /\ a.token = m.token /\ a.held = m.held /\ a.deferred = m.deferred
        /\ a.offset = m.offset /\ a.length = m.length
        /\ a.csw_on_unstall = m.csw_on_unstall
    BY <1>1, <2>1 DEF MscState
  <2>6. sense \in Sense
    BY <1>1 DEF MscState, Sense
  <2>7. o = [b EXCEPT !.sense = sense]
    BY <1>1, <2>2 DEF MscState
  <2> HIDE DEF a, sense
  <2>8. /\ b \in MscState /\ b.csw = k /\ b.out = "none" /\ b.in = m.in
        /\ b.token = m.token /\ b.held = m.held /\ b.deferred = m.deferred
        /\ b.offset = m.offset /\ b.length = m.length
        /\ b.csw_on_unstall = m.csw_on_unstall
    BY <2>5 DEF MscState
  <2> HIDE DEF b, o
  <2>3. /\ o \in MscState /\ o.csw = k /\ o.out = "none" /\ o.in = m.in
        /\ o.token = m.token /\ o.held = m.held /\ o.deferred = m.deferred
        /\ o.offset = m.offset /\ o.length = m.length
        /\ o.csw_on_unstall = m.csw_on_unstall
    BY <2>6, <2>7, <2>8 DEF MscState
  <2> HIDE DEF o
  <2>4. o.sense \in Sense /\ o.ejected \in BOOLEAN
    BY <2>3 DEF MscState
  <2>. QED
    BY <1>1, <2>1, <2>3, <2>4 DEF MscFits, Rests
<1> HIDE DEF o
<1>3. ASSUME NEW h, MscFits(h), h.token = m.token, h.out = "none"
      PROVE  Fine(h)
  BY <1>1, <1>3 DEF MscFits, MscState
<1>4. Fine(x)
  <2>1. MscFits(x) /\ x.token = m.token /\ x.out = "none"
    BY <1>1 DEF MscFits, Rests, MscState
  <2> HIDE DEF x, Fine
  <2>. QED
    BY <2>1, <1>3
<1>5. Fine(NoData(o, c)) /\ \A sense \in Sense : Fine(Fail(o, c, sense))
  BY <1>2, <1>3, NoDataFits
<1>6. Fine(NoData([o EXCEPT !.ejected = TRUE], c))
  <2> DEFINE e == [o EXCEPT !.ejected = TRUE]
  <2>1. MscFits(e) /\ Rests(e) /\ e.token = o.token /\ e.out = o.out
    BY <1>2 DEF MscFits, Rests, MscState
  <2> HIDE DEF e
  <2>2. MscFits(NoData(e, c)) /\ NoData(e, c).token = e.token /\ NoData(e, c).out = e.out
    BY <2>1, NoDataFits
  <2>. QED
    BY <1>2, <1>3, <2>1, <2>2 DEF e
<1>7. ASSUME NEW s \in Sense PROVE Fine(Reply(o, c, s))
  <2>1. MscFits(Reply(o, c, s)) /\ Reply(o, c, s).token = o.token
        /\ Reply(o, c, s).out = o.out
    BY <1>2, ReplyFits
  <2>. QED
    BY <1>2, <1>3, <2>1
<1>8. Fine(Reply([o EXCEPT !.sense = "OK"], c, o.sense))
  <2> DEFINE e == [o EXCEPT !.sense = "OK"]
  <2>1. MscFits(e) /\ Rests(e) /\ e.token = o.token /\ e.out = o.out
        /\ e.csw.residue = c.dtl
    BY <1>2 DEF MscFits, Rests, MscState, Sense
  <2> HIDE DEF e
  <2>2. MscFits(Reply(e, c, o.sense)) /\ Reply(e, c, o.sense).token = e.token
        /\ Reply(e, c, o.sense).out = e.out
    BY <1>2, <2>1, ReplyFits
  <2>. QED
    BY <1>2, <1>3, <2>1, <2>2 DEF e
<1>9. ASSUME NEW dir \in Endpoints PROVE Fine(ReadOrWrite(o, c, dir))
  BY <1>2, ReadOrWriteFits
<1> HIDE DEF Fine, x
<1>10. Fine(Handled(m, c, tag))
  <2>1. CASE c.op = "invalid"
    BY <1>4, <2>1 DEF Handled, x
  <2>2. CASE c.op \in {"none", "unknown"}
    BY <1>5, <2>2 DEF Handled, o, Sense
  <2>3. CASE c.op = "ready"
    BY <1>5, <2>3 DEF Handled, o, Sense
  <2>4. CASE c.op = "eject"
    BY <1>6, <2>4 DEF Handled, o
  <2>5. CASE c.op = "reply"
    BY <1>7, <2>5 DEF Handled, o, Sense
  <2>6. CASE c.op = "sense"
    BY <1>8, <2>6 DEF Handled, o
  <2>7. CASE c.op \in {"read", "write"}
    BY <1>9, <2>7 DEF Handled, o, Endpoints
  <2>. QED
    BY <1>1, <2>1, <2>2, <2>3, <2>4, <2>5, <2>6, <2>7 DEF Operation
<1>. QED
  BY <1>10 DEF Fine

LEMMA ClearedFits ==
    ASSUME NEW token \in Nat, NEW configured \in BOOLEAN
    PROVE  LET n == Cleared(token, configured)
           IN  /\ MscFits(n) /\ Rests(n) /\ n.token = token /\ n.held = FALSE
               /\ configured => n.out = "cmd"
  BY DEF Cleared, NoCsw, MscFits, Rests, MscState, Csw, Status, Sense, Endpoints

LEMMA SendCswFits ==
    ASSUME NEW m, MscFits(m), m.out # "stream"
    PROVE  /\ MscFits(SendCsw(m))
           /\ SendCsw(m).token = m.token /\ SendCsw(m).out = m.out
  BY DEF SendCsw, MscFits, MscState

\* The end of a halt: the IN endpoint may send the status that waited for it,
\* the OUT endpoint waits for a command.
LEMMA ClearHaltFits ==
    ASSUME NEW m, MscFits(m), NEW e \in Endpoints
    PROVE  LET n == ClearHalt(m, e)
           IN  /\ MscFits(n) /\ n.token = m.token
               /\ m.held /\ ~n.held => n.out = "cmd"
               /\ m.out = "cmd" => n.out = "cmd"
               /\ Rests(m) => Rests(n)
<1>1. m \in MscState /\ m.csw_on_unstall \in BOOLEAN /\ m.held \in BOOLEAN
  BY DEF MscFits, MscState
<1>2. CASE m.halt[e] = "on_condition"
  <2>1. ClearHalt(m, e) = m
    BY <1>2 DEF ClearHalt
  <2>. QED
    BY <2>1
<1>3. CASE m.halt[e] # "on_condition" /\ e = "IN"
  <2> DEFINE n == [m EXCEPT !.in = "none", !.halt["IN"] = "none"]
  <2>1. MscFits(n) /\ n.token = m.token /\ n.out = m.out /\ n.held = m.held
        /\ n.csw_on_unstall = m.csw_on_unstall /\ n.in = "none"
    BY <1>1 DEF MscFits, MscState, Endpoints
  <2>2. ClearHalt(m, e) = IF m.halt["IN"] = "halted" /\ m.csw_on_unstall
                          THEN SendCsw(n) ELSE n
    BY <1>3 DEF ClearHalt
  <2> HIDE DEF n
  <2>3. CASE m.csw_on_unstall /\ m.halt["IN"] = "halted"
    <3>1. n.out # "stream"
      BY <2>1, <2>3 DEF MscFits
    <3>2. /\ MscFits(SendCsw(n))
          /\ SendCsw(n).token = n.token /\ SendCsw(n).out = n.out
      BY <2>1, <3>1, SendCswFits
    <3>3. ~m.held
      BY <2>1, <3>1 DEF MscFits
    <3>. QED
      BY <2>1, <2>2, <2>3, <3>2, <3>3 DEF Rests
  <2>4. CASE ~(m.csw_on_unstall /\ m.halt["IN"] = "halted")
    BY <2>1, <2>2, <2>4 DEF Rests
  <2>. QED
    BY <2>3, <2>4
<1>4. CASE m.halt[e] # "on_condition" /\ e = "OUT"
  <2> DEFINE n == [m EXCEPT !.out = "cmd", !.halt["OUT"] = "none",
                            !.held = FALSE, !.deferred = FALSE]
  <2>1. /\ n \in MscState /\ n.token = m.token /\ n.out = "cmd" /\ n.in = m.in
        /\ n.held = FALSE /\ n.deferred = FALSE
        /\ n.csw = m.csw /\ n.offset = m.offset /\ n.length = m.length
        /\ n.csw_on_unstall = m.csw_on_unstall /\ n.packet = m.packet
    BY <1>1 DEF MscState, Endpoints
  <2>2. ClearHalt(m, e) = n
    BY <1>4 DEF ClearHalt
  <2> HIDE DEF n
  <2>3. MscFits(n)
    BY <1>1, <2>1 DEF MscFits
  <2>. QED
    BY <2>1, <2>2, <2>3 DEF Rests
<1>. QED
  BY <1>2, <1>3, <1>4 DEF Endpoints

LEMMA UnconfiguredFits ==
    ASSUME NEW m, MscFits(m)
    PROVE  MscFits(Unconfigured(m)) /\ Unconfigured(m).token = m.token
<1> DEFINE n == [m EXCEPT !.in = "none", !.out = "none", !.held = FALSE,
                          !.deferred = FALSE, !.halt = [e \in Endpoints |-> "none"]]
<1>1. m \in MscState
  BY DEF MscFits
<1>2. /\ n \in MscState /\ n.token = m.token /\ n.in = "none" /\ n.out = "none"
      /\ n.held = FALSE /\ n.deferred = FALSE
      /\ n.csw = m.csw /\ n.offset = m.offset /\ n.length = m.length
      /\ n.csw_on_unstall = m.csw_on_unstall
  BY <1>1 DEF MscState
<1>3. Unconfigured(m) = IF m.halt["IN"] # "none" /\ m.csw_on_unstall THEN SendCsw(n) ELSE n
  BY DEF Unconfigured
<1> HIDE DEF n
<1>4. MscFits(n)
  BY <1>2 DEF MscFits
<1>5. MscFits(SendCsw(n)) /\ SendCsw(n).token = n.token
  BY <1>2, <1>4, SendCswFits
<1>. QED
  BY <1>2, <1>3, <1>4, <1>5

LEMMA CommandWantedFits ==
    ASSUME NEW m, MscFits(m), m.in = "csw"
    PROVE  LET n == CommandWanted(m)
           IN  /\ MscFits(n) /\ Rests(n) /\ n.token = m.token /\ n.held = m.held
               /\ m.out = "cmd" => n.out = "cmd"
<1> DEFINE n == CommandWanted(m)
<1>1. m \in MscState /\ m.csw_on_unstall = FALSE /\ m.out # "stream" /\ m.held = FALSE
      /\ m.deferred = FALSE
  BY DEF MscFits, MscState
<1>2. /\ n \in MscState /\ n.token = m.token /\ n.in = "none"
      /\ n.out = IF m.halt["OUT"] = "none" THEN "cmd" ELSE m.out
      /\ n.held = FALSE /\ n.deferred = FALSE
      /\ n.csw = m.csw /\ n.offset = m.offset /\ n.length = m.length
      /\ n.csw_on_unstall = FALSE
  BY <1>1 DEF CommandWanted, MscState
<1> HIDE DEF n
<1>3. MscFits(n) /\ Rests(n)
  BY <1>1, <1>2 DEF MscFits, Rests
<1>. QED
  BY <1>1, <1>2, <1>3 DEF n

-----------------------------------------------------------------------------
(***************************************************************************)
(* What every operator keeps, whatever has come too late: a transfer stays  *)
(* within its length, and only one endpoint has one.                       *)
(***************************************************************************)

Bounded(m) ==
    /\ m \in MscState
    /\ m.in = "stream" => m.out # "stream" /\ m.offset <= m.length
    /\ m.out = "stream" => m.offset < m.length
    /\ m.in = "reply" => m.packet \in [length : Nat, sense : Sense]

Streaming(m) == m.in = "stream" \/ m.out = "stream"

\* n has the transfer of m, unless a status takes the IN endpoint.
Leaves(n, m) ==
    /\ n \in MscState
    /\ n.token = m.token /\ n.out = m.out /\ n.held = m.held
    /\ n.offset = m.offset /\ n.length = m.length
    /\ n.in = "csw" \/ (n.in = m.in /\ n.packet = m.packet)

LEMMA LeavesBounded ==
    ASSUME NEW m, NEW n, Bounded(m), Leaves(n, m)
    PROVE  Bounded(n) /\ (Streaming(n) => Streaming(m))
  BY DEF Bounded, Leaves, Streaming

LEMMA LeavesChain ==
    ASSUME NEW m, NEW n, NEW o, Leaves(n, m), Leaves(o, n)
    PROVE  Leaves(o, m)
  BY DEF Leaves

LEMMA DataPhaseCompleteLeaves ==
    ASSUME NEW m \in MscState
    PROVE  Leaves(DataPhaseComplete(m), m)
<1> DEFINE n == [m EXCEPT !.stall_before_csw = "none"]
           u == [n EXCEPT !.csw_on_unstall = TRUE]
<1>1. ASSUME NEW x \in MscState PROVE Leaves(SendCsw(x), x)
  BY DEF SendCsw, MscState, Leaves
<1>2. ASSUME NEW x \in MscState, NEW e \in Endpoints PROVE Leaves(Halt(x, e), x)
  BY DEF Halt, MscState, Leaves
<1>3. Leaves(n, m) /\ Leaves(u, m) /\ n \in MscState /\ u \in MscState
  BY DEF MscState, Leaves
<1>4. DataPhaseComplete(m) \in {Halt(u, "IN"), SendCsw(Halt(n, "OUT")), SendCsw(n)}
  BY DEF DataPhaseComplete
<1> HIDE DEF n, u
<1>5. /\ Leaves(Halt(u, "IN"), u) /\ Leaves(Halt(n, "OUT"), n) /\ Leaves(SendCsw(n), n)
      /\ Leaves(SendCsw(Halt(n, "OUT")), Halt(n, "OUT"))
  BY <1>1, <1>2, <1>3 DEF Endpoints, Leaves
<1>. QED
  BY <1>3, <1>4, <1>5, LeavesChain

\* The ends of a command without data, and what its data phase is to be.
LEMMA EndsLeave ==
    ASSUME NEW m \in MscState, NEW c \in CommandBlock
    PROVE  /\ Leaves(NoData(m, c), m)
           /\ \A sense \in Sense : Leaves(Fail(m, c, sense), m)
           /\ Leaves(ErrorEnds(m), m) /\ ErrorEnds(m).halt["OUT"] # "none"
           /\ \A expected \in Nat : \A dir \in Endpoints :
                 Leaves(WithData(m, c, expected, dir), m)
<1>0. Direction(c) \in Endpoints /\ "OUT" \in Endpoints
  BY DEF Direction, Endpoints
<1>1. ASSUME NEW x \in MscState PROVE Leaves(NoData(x, c), x)
  <2> DEFINE s == [x EXCEPT !.stall_before_csw =
                       IF c.dtl # 0 THEN Direction(c) ELSE "none"]
  <2>1. Leaves(s, x) /\ s \in MscState
    BY <1>0 DEF MscState, Leaves
  <2> HIDE DEF s
  <2>2. Leaves(DataPhaseComplete(s), s)
    BY <2>1, DataPhaseCompleteLeaves
  <2>. QED
    BY <2>1, <2>2, LeavesChain DEF NoData, s
<1>2. ASSUME NEW sense \in Sense PROVE Leaves(Fail(m, c, sense), m)
  <2> DEFINE n == [m EXCEPT !.csw.status = "FAILED", !.sense = sense]
  <2>1. Leaves(n, m) /\ n \in MscState
    BY DEF MscState, Csw, Status, Leaves
  <2> HIDE DEF n
  <2>. QED
    BY <1>1, <2>1, LeavesChain DEF Fail, n
<1>3. Leaves(ErrorEnds(m), m) /\ ErrorEnds(m).halt["OUT"] # "none"
  <2> DEFINE s == [m EXCEPT !.csw.status = "FAILED", !.sense = "DATA_PROTECT",
                            !.stall_before_csw = "OUT"]
             n == [s EXCEPT !.stall_before_csw = "none"]
             h == Halt(n, "OUT")
  <2>1. Leaves(s, m) /\ s \in MscState /\ s.stall_before_csw = "OUT"
    BY <1>0 DEF MscState, Csw, Status, Sense, Leaves
  <2> HIDE DEF s
  <2>2. Leaves(DataPhaseComplete(s), s)
    BY <2>1, DataPhaseCompleteLeaves
  <2>3. n \in MscState /\ DataPhaseComplete(s) = SendCsw(h)
    BY <2>1 DEF MscState, DataPhaseComplete
  <2> HIDE DEF n
  <2>4. h \in MscState /\ h.halt["OUT"] # "none"
    BY <1>0, <2>3 DEF Halt, MscState
  <2> HIDE DEF h
  <2>5. SendCsw(h).halt["OUT"] # "none"
    BY <2>4 DEF SendCsw, MscState
  <2>. QED
    BY <2>1, <2>2, <2>3, <2>5, LeavesChain DEF ErrorEnds, s
<1>4. ASSUME NEW expected \in Nat, NEW dir \in Endpoints
      PROVE  Leaves(WithData(m, c, expected, dir), m)
  BY <1>0 DEF WithData, MscState, Csw, Status, Leaves
<1>. QED
  BY <1>1, <1>2, <1>3, <1>4

\* A reply, and a READ or WRITE: a transfer that begins has a new token.
LEMMA ReplyBounded ==
    ASSUME NEW m, Bounded(m), ~Streaming(m), NEW c \in CommandBlock, NEW sense \in Sense
    PROVE  LET r == Reply(m, c, sense)
           IN  /\ Bounded(r) /\ ~Streaming(r) /\ r.token = m.token
<1> DEFINE expected == Min({ReplyLength, c.dtl})
           n == DataLength(c, expected, "IN")
           w == WithData(m, c, expected, "IN")
           r == [w EXCEPT !.csw.residue = @ - n, !.in = "reply",
                          !.packet = [length |-> n, sense |-> sense]]
<1>1. expected \in Nat /\ c.dtl \in Nat /\ "IN" \in Endpoints
  BY MinOfTwo DEF CommandBlock, ReplyLength, Endpoints
<1> HIDE DEF expected
<1>2. n \in Nat
  BY <1>1, MinOfTwo DEF DataLength
<1>3. Leaves(w, m)
  BY <1>1, EndsLeave DEF Bounded
<1>4. Reply(m, c, sense) = IF n = 0 THEN DataPhaseComplete(w) ELSE r
  BY DEF Reply, expected
<1> HIDE DEF n, w
<1>5. Bounded(w) /\ ~Streaming(w) /\ w \in MscState /\ w.token = m.token
  BY <1>3, LeavesBounded DEF Leaves
<1>6. Bounded(r) /\ ~Streaming(r) /\ r.token = m.token
  <2>1. w.csw \in Csw /\ w.csw.residue - n \in Int
    BY <1>2, <1>5 DEF MscState, Csw
  <2>2. [length |-> n, sense |-> sense] \in [length : Nat, sense : Sense]
    BY <1>2
  <2>3. /\ r \in MscState /\ r.in = "reply" /\ r.out = w.out /\ r.token = w.token
        /\ r.packet = [length |-> n, sense |-> sense]
    BY <1>5, <2>1, <2>2 DEF MscState, Csw
  <2> HIDE DEF r
  <2>. QED
    BY <1>5, <2>2, <2>3 DEF Bounded, Streaming
<1>7. /\ Leaves(DataPhaseComplete(w), w)
      /\ Bounded(DataPhaseComplete(w)) /\ ~Streaming(DataPhaseComplete(w))
      /\ DataPhaseComplete(w).token = m.token
  <2>1. Leaves(DataPhaseComplete(w), w)
    BY <1>5, DataPhaseCompleteLeaves
  <2>. QED
    BY <1>5, <2>1, LeavesBounded DEF Leaves
<1>. QED
  BY <1>4, <1>6, <1>7

LEMMA PacketCounted ==
    ASSUME NEW m \in MscState
    PROVE  LET n == PacketComplete(m)
           IN  /\ n \in MscState
               /\ n.token = m.token /\ n.in = m.in /\ n.out = m.out /\ n.halt = m.halt
               /\ n.packet = m.packet /\ n.length = m.length /\ n.offset = m.offset + 1
               /\ n.held = FALSE /\ n.deferred = m.deferred /\ n.csw.tag = m.csw.tag
               /\ n.csw_on_unstall = m.csw_on_unstall /\ n.sense = m.sense
               /\ n.stall_before_csw = m.stall_before_csw
<1>1. m.csw \in Csw /\ m.csw.residue - PacketLength \in Int /\ m.offset + 1 \in Nat
  BY DEF MscState, Csw, PacketLength
<1>. QED
  BY <1>1 DEF PacketComplete, MscState, Csw

LEMMA FillPacketBounded ==
    ASSUME NEW m, Bounded(m), m.in = "stream", m.offset < m.length
    PROVE  LET f == FillPacket(m)
           IN  /\ Bounded(f) /\ f.in = "stream" /\ f.out = m.out
               /\ f.token \in Nat /\ f.token >= m.token
<1> DEFINE s == [m EXCEPT !.token = IF m.offset % SectorPackets = 0 THEN @ + 1 ELSE @]
<1>1. /\ s \in MscState /\ s.in = "stream" /\ s.out = m.out /\ m.out # "stream"
      /\ s.offset = m.offset /\ s.length = m.length
      /\ s.token \in {m.token, m.token + 1} /\ m.token \in Nat
      /\ m.offset \in Nat /\ m.length \in Nat
  BY DEF Bounded, MscState
<1>2. FillPacket(m) = PacketComplete(s)
  BY DEF FillPacket
<1> DEFINE f == PacketComplete(s)
<1> HIDE DEF s
<1>3. /\ f \in MscState /\ f.token = s.token /\ f.in = s.in /\ f.out = s.out
      /\ f.offset = s.offset + 1 /\ f.length = s.length
  BY <1>1, PacketCounted
<1> HIDE DEF f
<1>4. f.offset <= f.length
  BY <1>1, <1>3
<1>5. Bounded(f)
  BY <1>1, <1>3, <1>4 DEF Bounded
<1>6. f.in = "stream" /\ f.out = m.out /\ f.token \in Nat /\ f.token >= m.token
  BY <1>1, <1>3
<1>. QED
  BY <1>2, <1>5, <1>6 DEF f

LEMMA ReadOrWriteBounded ==
    ASSUME NEW m, Bounded(m), ~Streaming(m), NEW c \in CommandBlock, NEW dir \in Endpoints
    PROVE  LET r == ReadOrWrite(m, c, dir)
           IN  /\ Bounded(r) /\ r.token \in Nat /\ r.token >= m.token
               /\ Streaming(r) => r.token > m.token
<1> DEFINE expected == c.blocks * SectorLength
           n == DataLength(c, expected, dir) \div PacketLength
           w == WithData(m, c, expected, dir)
           s == [w EXCEPT !.token = @ + 1, !.offset = 0, !.length = n]
           i == [s EXCEPT !.in = "stream"]
           o == [s EXCEPT !.out = "stream"]
<1>1. expected \in Nat /\ c.dtl \in Nat
  BY DEF CommandBlock, SectorLength, SectorPackets, PacketLength
<1> HIDE DEF expected
<1>2. n \in Nat
  <2>1. DataLength(c, expected, dir) \in Nat
    BY <1>1, MinOfTwo DEF DataLength
  <2>. QED
    BY <2>1 DEF PacketLength
<1>3. Leaves(w, m)
  BY <1>1, EndsLeave DEF Bounded
<1>4. ReadOrWrite(m, c, dir) = IF n = 0 THEN DataPhaseComplete(w)
                               ELSE IF dir = "IN" THEN FillPacket(i) ELSE o
  BY DEF ReadOrWrite, Streams, expected
<1> HIDE DEF n, w
<1>5. Bounded(w) /\ ~Streaming(w) /\ w \in MscState /\ w.token = m.token /\ m.token \in Nat
  BY <1>3, LeavesBounded DEF Leaves, MscState
<1>6. CASE n = 0
  <2>1. Leaves(DataPhaseComplete(w), w)
    BY <1>5, DataPhaseCompleteLeaves
  <2>2. /\ Bounded(DataPhaseComplete(w)) /\ ~Streaming(DataPhaseComplete(w))
        /\ DataPhaseComplete(w).token = m.token
    BY <1>5, <2>1, LeavesBounded DEF Leaves
  <2>. QED
    BY <1>4, <1>5, <1>6, <2>2
<1>7. CASE n # 0
  <2>1. /\ s \in MscState /\ s.token = m.token + 1 /\ s.offset = 0 /\ s.length = n
        /\ s.in = w.in /\ s.out = w.out /\ s.packet = w.packet
    <3>1. w.token + 1 \in Nat /\ 0 \in Nat
      BY <1>5
    <3>2. s \in MscState
      BY <1>2, <1>5, <3>1 DEF MscState
    <3>3. /\ s.token = w.token + 1 /\ s.offset = 0 /\ s.length = n
          /\ s.in = w.in /\ s.out = w.out /\ s.packet = w.packet
      BY <1>5 DEF MscState
    <3>. QED
      BY <1>5, <3>2, <3>3
  <2> HIDE DEF s
  <2>2. /\ i \in MscState /\ i.token = m.token + 1 /\ i.offset = 0 /\ i.length = n
        /\ i.in = "stream" /\ i.out = w.out
    BY <2>1 DEF MscState
  <2>3. /\ o \in MscState /\ o.token = m.token + 1 /\ o.offset = 0 /\ o.length = n
        /\ o.in = w.in /\ o.out = "stream" /\ o.packet = w.packet
    BY <2>1 DEF MscState
  <2> HIDE DEF i, o
  <2>4. Bounded(i) /\ Bounded(o)
    BY <1>2, <1>5, <1>7, <2>2, <2>3 DEF Bounded, Streaming
  <2>5. Bounded(FillPacket(i)) /\ FillPacket(i).token \in Nat
        /\ FillPacket(i).token >= i.token
    BY <1>2, <1>7, <2>2, <2>4, FillPacketBounded
  <2>. QED
    BY <1>4, <1>5, <1>7, <2>2, <2>3, <2>4, <2>5
<1>. QED
  BY <1>6, <1>7

LEMMA HandledBounded ==
    ASSUME NEW m, Bounded(m), ~Streaming(m), NEW c \in CommandBlock, NEW tag \in Nat
    PROVE  LET h == Handled(m, c, tag)
           IN  /\ Bounded(h) /\ h.token \in Nat /\ h.token >= m.token
               /\ Streaming(h) => h.token > m.token
<1> DEFINE o == Opened(m, c, tag)
           x == [m EXCEPT !.out = "none", !.halt = [e \in Endpoints |-> "on_condition"]]
           e == [o EXCEPT !.ejected = TRUE]
           k == [o EXCEPT !.sense = "OK"]
           Fine(h) == /\ Bounded(h) /\ h.token \in Nat /\ h.token >= m.token
                      /\ Streaming(h) => h.token > m.token
           Ready(h) == /\ Bounded(h) /\ ~Streaming(h) /\ h.token = m.token
                       /\ h \in MscState
<1>1. m \in MscState /\ m.token \in Nat /\ c.dtl \in Nat /\ c.op \in Operation
      /\ m.sense \in Sense
  BY DEF Bounded, MscState, CommandBlock
<1>2. Ready(o) /\ o.sense \in Sense
  <2> DEFINE z == [tag |-> tag, status |-> "PASSED", residue |-> c.dtl]
             a == [m EXCEPT !.csw = z]
             b == [a EXCEPT !.out = "none"]
             sense == IF c.op = "sense" THEN m.sense ELSE "OK"
  <2>1. z \in Csw /\ sense \in Sense
    BY <1>1 DEF Csw, Status, Sense
  <2>2. o = [m EXCEPT !.csw = z, !.out = "none", !.sense = sense]
    BY <1>1 DEF Opened, MscState
  <2> HIDE DEF z, sense
  <2>3. a \in MscState /\ a.in = m.in /\ a.token = m.token /\ a.packet = m.packet
    BY <1>1, <2>1 DEF MscState
  <2>4. o = [b EXCEPT !.sense = sense]
    BY <1>1, <2>2 DEF MscState
  <2> HIDE DEF a
  <2>5. /\ b \in MscState /\ b.in = m.in /\ b.token = m.token /\ b.packet = m.packet
        /\ b.out = "none"
    BY <2>3 DEF MscState
  <2> HIDE DEF b, o
  <2>6. /\ o \in MscState /\ o.in = m.in /\ o.token = m.token /\ o.packet = m.packet
        /\ o.out = "none" /\ o.sense = sense
    BY <2>1, <2>4, <2>5 DEF MscState
  <2>. QED
    BY <2>1, <2>6 DEF Bounded, Streaming
<1>3. Ready(x)
  <2>1. /\ x \in MscState /\ x.in = m.in /\ x.token = m.token /\ x.packet = m.packet
        /\ x.out = "none"
    BY <1>1 DEF MscState
  <2> HIDE DEF x
  <2>. QED
    BY <2>1 DEF Bounded, Streaming
<1> HIDE DEF o, x
<1>4. Ready(e) /\ Ready(k)
  <2>1. /\ e \in MscState /\ e.in = o.in /\ e.token = o.token /\ e.packet = o.packet
        /\ e.out = o.out /\ e.offset = o.offset /\ e.length = o.length
    BY <1>2 DEF MscState
  <2>2. /\ k \in MscState /\ k.in = o.in /\ k.token = o.token /\ k.packet = o.packet
        /\ k.out = o.out /\ k.offset = o.offset /\ k.length = o.length
    BY <1>2 DEF MscState, Sense
  <2> HIDE DEF e, k
  <2>. QED
    BY <1>2, <2>1, <2>2 DEF Bounded, Streaming
<1> HIDE DEF e, k
<1>5. ASSUME NEW h, Ready(h) PROVE Fine(h)
  BY <1>1, <1>5
<1>6. ASSUME NEW h, Ready(h)
      PROVE  /\ Fine(NoData(h, c)) /\ \A s \in Sense : Fine(Fail(h, c, s))
             /\ \A s \in Sense : Fine(Reply(h, c, s))
             /\ \A dir \in Endpoints : Fine(ReadOrWrite(h, c, dir))
  <2>1. ASSUME NEW n, Leaves(n, h) PROVE Fine(n)
    BY <1>1, <1>6, <2>1, LeavesBounded DEF Leaves
  <2>2. Leaves(NoData(h, c), h) /\ \A s \in Sense : Leaves(Fail(h, c, s), h)
    BY <1>6, EndsLeave
  <2>3. ASSUME NEW s \in Sense PROVE Fine(Reply(h, c, s))
    BY <1>1, <1>6, ReplyBounded
  <2>4. ASSUME NEW dir \in Endpoints PROVE Fine(ReadOrWrite(h, c, dir))
    BY <1>1, <1>6, ReadOrWriteBounded
  <2> HIDE DEF Fine
  <2>. QED
    BY <2>1, <2>2, <2>3, <2>4
<1> HIDE DEF Fine, Ready
<1>7. Fine(Handled(m, c, tag))
  <2>1. CASE c.op = "invalid"
    BY <1>3, <1>5, <2>1 DEF Handled, x
  <2>2. CASE c.op \in {"none", "unknown"}
    BY <1>2, <1>6, <2>2 DEF Handled, o, Sense
  <2>3. CASE c.op = "ready"
    BY <1>2, <1>6, <2>3 DEF Handled, o, Sense
  <2>4. CASE c.op = "eject"
    BY <1>4, <1>6, <2>4 DEF Handled, o, e
  <2>5. CASE c.op = "reply"
    BY <1>2, <1>6, <2>5 DEF Handled, o, Sense
  <2>6. CASE c.op = "sense"
    BY <1>2, <1>4, <1>6, <2>6 DEF Handled, o, k
  <2>7. CASE c.op \in {"read", "write"}
    BY <1>2, <1>6, <2>7 DEF Handled, o, Endpoints
  <2>. QED
    BY <1>1, <2>1, <2>2, <2>3, <2>4, <2>5, <2>6, <2>7 DEF Operation
<1>. QED
  BY <1>7 DEF Fine

\* An OUT packet is done with, the other buffer may follow, and a packet is kept
\* only for a task of its own.
LEMMA DonePacketBounded ==
    ASSUME NEW m, Bounded(m), m.in # "stream"
    PROVE  LET d == DonePacket(m)
           IN  /\ Bounded(d) /\ d.in # "stream" /\ d.token = m.token /\ d.held = FALSE
               /\ d.out = "stream" => m.out = "stream" /\ m.halt["OUT"] = "none"
<1> DEFINE n == PacketComplete(m)
           h == [n EXCEPT !.out = "none", !.deferred = FALSE]
           o == [n EXCEPT !.out = "none"]
<1>1. /\ n \in MscState /\ n.token = m.token /\ n.in = m.in /\ n.out = m.out
      /\ n.packet = m.packet /\ n.length = m.length /\ n.offset = m.offset + 1
      /\ n.halt = m.halt /\ n.held = FALSE /\ m.offset \in Nat /\ m.length \in Nat
  <2>1. m \in MscState
    BY DEF Bounded
  <2>2. m.offset \in Nat /\ m.length \in Nat
    BY <2>1 DEF MscState
  <2>. QED
    BY <2>1, <2>2, PacketCounted
<1>2. DonePacket(m) = IF n.halt["OUT"] # "none" THEN h
                      ELSE IF n.offset = n.length THEN DataPhaseComplete(o) ELSE n
  BY DEF DonePacket
<1> HIDE DEF n
<1>3. /\ h \in MscState /\ h.token = n.token /\ h.in = n.in /\ h.out = "none"
      /\ h.packet = n.packet /\ h.held = n.held
      /\ o \in MscState /\ o.token = n.token /\ o.in = n.in /\ o.out = "none"
      /\ o.packet = n.packet /\ o.held = n.held
  BY <1>1 DEF MscState
<1> HIDE DEF h, o
<1>4. Bounded(h) /\ Bounded(o)
  BY <1>1, <1>3 DEF Bounded
<1>5. Leaves(DataPhaseComplete(o), o)
  BY <1>3, DataPhaseCompleteLeaves
<1>6. Bounded(DataPhaseComplete(o))
  BY <1>4, <1>5, LeavesBounded
<1>7. n.offset # n.length => Bounded(n)
  BY <1>1 DEF Bounded
<1>. QED
  BY <1>1, <1>2, <1>3, <1>4, <1>5, <1>6, <1>7 DEF Leaves

LEMMA TakePacketBounded ==
    ASSUME NEW m, Bounded(m), m.in # "stream", m.held = FALSE, NEW async \in BOOLEAN
    PROVE  /\ LET t == TakePacket(m, async)
              IN  /\ Bounded(t) /\ t.in # "stream" /\ t.token \in {m.token, m.token + 1}
                  /\ t.held => t.token = m.token + 1
                  /\ t.out = "stream" => m.out = "stream"
           /\ LET t == TakeDeferred(m, async)
              IN  /\ Bounded(t) /\ t.in # "stream" /\ t.token \in {m.token, m.token + 1}
                  /\ t.held => t.token = m.token + 1
                  /\ t.out = "stream" => m.out = "stream"
<1>1. ASSUME NEW x, Bounded(x), x.in # "stream", x.held = FALSE
      PROVE  LET t == TakePacket(x, async)
             IN  /\ Bounded(t) /\ t.in # "stream" /\ t.token \in {x.token, x.token + 1}
                 /\ t.held => t.token = x.token + 1
                 /\ t.out = "stream" => x.out = "stream"
  <2> DEFINE n == [x EXCEPT !.token = @ + 1]
             k == [n EXCEPT !.held = TRUE]
  <2>1. x \in MscState /\ x.token \in Nat
    BY <1>1 DEF Bounded, MscState
  <2>2. TakePacket(x, async) = IF EndsChunk(x) THEN IF async THEN k ELSE DonePacket(n)
                               ELSE DonePacket(x)
    BY DEF TakePacket
  <2>3. /\ n \in MscState /\ n.token = x.token + 1 /\ n.in = x.in /\ n.out = x.out
        /\ n.packet = x.packet /\ n.offset = x.offset /\ n.length = x.length
    BY <2>1 DEF MscState
  <2> HIDE DEF n
  <2>4. /\ k \in MscState /\ k.token = n.token /\ k.in = n.in /\ k.out = n.out
        /\ k.packet = n.packet /\ k.offset = n.offset /\ k.length = n.length
    BY <2>3 DEF MscState
  <2> HIDE DEF k
  <2>5. Bounded(n) /\ Bounded(k)
    BY <1>1, <2>3, <2>4 DEF Bounded
  <2>6. /\ Bounded(DonePacket(n)) /\ DonePacket(n).in # "stream"
        /\ DonePacket(n).token = n.token /\ DonePacket(n).held = FALSE
        /\ DonePacket(n).out = "stream" => n.out = "stream"
    BY <1>1, <2>3, <2>5, DonePacketBounded
  <2>7. /\ Bounded(DonePacket(x)) /\ DonePacket(x).in # "stream"
        /\ DonePacket(x).token = x.token /\ DonePacket(x).held = FALSE
        /\ DonePacket(x).out = "stream" => x.out = "stream"
    BY <1>1, DonePacketBounded
  <2>. QED
    BY <1>1, <2>1, <2>2, <2>3, <2>4, <2>5, <2>6, <2>7
<1> DEFINE e == [m EXCEPT !.deferred = FALSE]
<1>2. m \in MscState
  BY DEF Bounded
<1>3. /\ e \in MscState /\ e.token = m.token /\ e.in = m.in /\ e.out = m.out
      /\ e.packet = m.packet /\ e.offset = m.offset /\ e.length = m.length
      /\ e.held = m.held
  BY <1>2 DEF MscState
<1>4. TakeDeferred(m, async) = IF m.deferred THEN TakePacket(e, async) ELSE m
  BY DEF TakeDeferred
<1> HIDE DEF e
<1>5. Bounded(e)
  BY <1>3 DEF Bounded
<1>. QED
  BY <1>1, <1>3, <1>4, <1>5

\* The end of a task that has the current token.
LEMMA CompletedBounded ==
    ASSUME NEW m, Bounded(m), m.in # "stream", NEW ok \in BOOLEAN, NEW async \in BOOLEAN,
           m.held \/ m.out # "stream", disk.running = m.token
    PROVE  LET t == Completed(m, ok, async)
           IN  /\ Bounded(t) /\ t.in # "stream" /\ t.token \in {m.token, m.token + 1}
               /\ t.held => m.held /\ t.token = m.token + 1
               /\ t.out = "stream" => m.out = "stream" /\ m.halt["OUT"] = "none"
<1> DEFINE e == IF ok THEN m ELSE ErrorEnds(m)
           d == DonePacket(e)
           n == PacketComplete(e)
           o == [n EXCEPT !.out = "none"]
<1>1. m \in MscState /\ m.held \in BOOLEAN
  BY DEF Bounded, MscState
<1>2. /\ Bounded(e) /\ e.in # "stream" /\ e.out = m.out /\ e.token = m.token
      /\ e.held = m.held /\ e \in MscState
      /\ e.halt["OUT"] = "none" => m.halt["OUT"] = "none"
  <2>1. [op |-> "none", in |-> FALSE, dtl |-> 0, blocks |-> 0] \in CommandBlock
    BY DEF CommandBlock, Operation
  <2>2. Leaves(ErrorEnds(m), m)
    BY <1>1, <2>1, EndsLeave
  <2>3. ErrorEnds(m).halt["OUT"] # "none"
    BY <1>1, <2>1, EndsLeave
  <2>. QED
    BY <1>1, <2>2, <2>3, LeavesBounded DEF Leaves
<1>3. Completed(m, ok, async) = IF m.held THEN TakeDeferred(d, async)
                                ELSE IF n.halt["OUT"] # "none" THEN o ELSE n
  BY DEF Completed, DoneForNobody
<1> HIDE DEF e
<1>4. CASE m.held
  <2>1. /\ Bounded(d) /\ d.in # "stream" /\ d.token = m.token /\ d.held = FALSE
        /\ d.out = "stream" => m.out = "stream" /\ m.halt["OUT"] = "none"
    BY <1>2, DonePacketBounded
  <2> HIDE DEF d
  <2>. QED
    BY <1>3, <1>4, <2>1, TakePacketBounded
<1>5. CASE ~m.held
  <2>1. /\ n \in MscState /\ n.token = m.token /\ n.in = e.in /\ n.out = m.out
        /\ n.packet = e.packet /\ n.held = FALSE
    BY <1>2, PacketCounted
  <2> HIDE DEF n
  <2>2. /\ o \in MscState /\ o.token = m.token /\ o.in = e.in /\ o.out = "none"
        /\ o.packet = e.packet /\ o.held = FALSE
    BY <2>1 DEF MscState
  <2> HIDE DEF o
  <2>3. Bounded(n) /\ Bounded(o)
    BY <1>2, <1>5, <2>1, <2>2 DEF Bounded
  <2>. QED
    BY <1>2, <1>3, <1>5, <2>1, <2>2, <2>3
<1>. QED
  BY <1>1, <1>4, <1>5

\* The end of a halt, resets, and the wait for a command: no transfer begins.
LEMMA ClearHaltBounded ==
    ASSUME NEW m, Bounded(m), NEW e \in Endpoints
    PROVE  LET h == ClearHalt(m, e)
           IN  /\ Bounded(h) /\ h.token = m.token
               /\ h.in = "stream" => m.in = "stream"
               /\ h.out = "stream" => /\ m.out = "stream" /\ h.held = m.held
                                      /\ h.halt["OUT"] = m.halt["OUT"]
<1>a. m \in MscState /\ m.token \in Nat
  BY DEF Bounded, MscState
<1>b. ASSUME NEW x \in MscState PROVE Leaves(SendCsw(x), x)
  BY DEF SendCsw, MscState, Leaves
<1> DEFINE i == [m EXCEPT !.in = "none", !.halt["IN"] = "none"]
           o == [m EXCEPT !.out = "cmd", !.halt["OUT"] = "none",
                          !.held = FALSE, !.deferred = FALSE]
<1>1. /\ i \in MscState /\ i.token = m.token /\ i.in = "none" /\ i.out = m.out
      /\ i.offset = m.offset /\ i.length = m.length /\ i.held = m.held
      /\ i.halt["OUT"] = m.halt["OUT"]
      /\ o \in MscState /\ o.token = m.token /\ o.in = m.in /\ o.out = "cmd"
      /\ o.offset = m.offset /\ o.length = m.length /\ o.packet = m.packet
  BY <1>a DEF MscState, Endpoints
<1>2. ClearHalt(m, e) \in {m, i, SendCsw(i), o}
  BY DEF ClearHalt
<1> HIDE DEF i, o
<1>3. Bounded(i) /\ Bounded(o)
  BY <1>1 DEF Bounded
<1>4. Leaves(SendCsw(i), i)
  BY <1>b, <1>1
<1>5. Bounded(SendCsw(i)) /\ SendCsw(i).token = m.token /\ SendCsw(i).out = m.out
      /\ SendCsw(i).held = m.held /\ SendCsw(i).in # "stream"
      /\ SendCsw(i).halt["OUT"] = m.halt["OUT"]
  <2>1. SendCsw(i).in = "csw" /\ SendCsw(i).halt = i.halt
    BY <1>1 DEF SendCsw, MscState
  <2>. QED
    BY <1>1, <1>3, <1>4, <2>1, LeavesBounded DEF Leaves
<1>. QED
  BY <1>1, <1>2, <1>3, <1>5

LEMMA ResetsBounded ==
    ASSUME NEW m, Bounded(m)
    PROVE  /\ Bounded(Cleared(m.token, TRUE)) /\ ~Streaming(Cleared(m.token, TRUE))
           /\ Cleared(m.token, TRUE).token = m.token
           /\ Bounded(Unconfigured(m)) /\ ~Streaming(Unconfigured(m))
           /\ Unconfigured(m).token = m.token
           /\ m.in = "csw" =>
                 /\ Bounded(CommandWanted(m)) /\ CommandWanted(m).token = m.token
                 /\ CommandWanted(m).in = "none"
                 /\ CommandWanted(m).out = "stream" =>
                       /\ m.out = "stream" /\ CommandWanted(m).held = m.held
                       /\ CommandWanted(m).halt["OUT"] # "none"
<1>1. m \in MscState /\ m.token \in Nat
  BY DEF Bounded, MscState
<1>2. ASSUME NEW x \in MscState PROVE Leaves(SendCsw(x), x)
  BY DEF SendCsw, MscState, Leaves
<1>3. /\ Bounded(Cleared(m.token, TRUE)) /\ ~Streaming(Cleared(m.token, TRUE))
      /\ Cleared(m.token, TRUE).token = m.token
  BY <1>1 DEF Cleared, NoCsw, Bounded, Streaming, MscState, Csw, Status, Sense, Endpoints
<1>4. /\ Bounded(Unconfigured(m)) /\ ~Streaming(Unconfigured(m))
      /\ Unconfigured(m).token = m.token
  <2> DEFINE n == [m EXCEPT !.in = "none", !.out = "none", !.held = FALSE,
                            !.deferred = FALSE, !.halt = [e \in Endpoints |-> "none"]]
  <2>1. n \in MscState /\ n.token = m.token /\ n.in = "none" /\ n.out = "none"
    BY <1>1 DEF MscState
  <2>2. Unconfigured(m) \in {n, SendCsw(n)}
    BY DEF Unconfigured
  <2> HIDE DEF n
  <2>3. Bounded(n) /\ ~Streaming(n)
    BY <2>1 DEF Bounded, Streaming
  <2>4. Bounded(SendCsw(n)) /\ ~Streaming(SendCsw(n)) /\ SendCsw(n).token = n.token
    BY <1>2, <2>1, <2>3, LeavesBounded DEF Leaves
  <2>. QED
    BY <2>1, <2>2, <2>3, <2>4
<1>6. ASSUME m.in = "csw"
      PROVE  /\ Bounded(CommandWanted(m)) /\ CommandWanted(m).token = m.token
             /\ CommandWanted(m).in = "none"
             /\ CommandWanted(m).out = "stream" =>
                   /\ m.out = "stream" /\ CommandWanted(m).held = m.held
                   /\ CommandWanted(m).halt["OUT"] # "none"
  <2> DEFINE n == CommandWanted(m)
  <2>1. /\ n \in MscState /\ n.token = m.token /\ n.in = "none"
        /\ n.out = IF m.halt["OUT"] = "none" THEN "cmd" ELSE m.out
        /\ n.halt = m.halt
        /\ n.offset = m.offset /\ n.length = m.length /\ n.held = m.held
    BY <1>1 DEF CommandWanted, MscState
  <2> HIDE DEF n
  <2>2. Bounded(n)
    BY <2>1 DEF Bounded
  <2>. QED
    BY <2>1, <2>2 DEF n
<1>. QED
  BY <1>3, <1>4, <1>6

-----------------------------------------------------------------------------
(***************************************************************************)
(* The control endpoint.                                                   *)
(***************************************************************************)

ControlInv == ControlTypeOK /\ AddressAgreed /\ AddressPending

ControlStep ==
    \/ \E r \in Request : HostSetup(r)
    \/ HostGoesOn
    \/ BusReset
    \/ UNCHANGED controlVars

LEMMA ControlKept ==
    ASSUME ControlInv, ControlStep
    PROVE  ControlInv'
<1> USE DEF ControlInv, ControlTypeOK, AddressAgreed, AddressPending
<1>0. Address \subseteq Nat /\ NoRequest \notin Request
  BY ControlAssumption
<1>1. ASSUME NEW r \in Request, HostSetup(r) PROVE ControlInv'
  <2>1. Answer(r) \in [in : {"none", "data", "ack", "set_address"},
                       out : {"none", "ack"}, stalled : BOOLEAN]
    BY DEF Answer, Replies, Acks, Stalls
  <2>2. DeviceAfter(r) \in [address : Address \cup {0}, pending : Address \cup {0},
                            config : {0, 1}]
        /\ DeviceAfter(r).address = device.address
    BY DEF DeviceAfter, Request
  <2>3. Answer(r).in = "set_address" =>
           r.name = "SET_ADDRESS" /\ r.arg = DeviceAfter(r).pending
    BY DEF Answer, Replies, Acks, Stalls, DeviceAfter
  <2>4. control' = Answer(r) /\ device' = DeviceAfter(r)
        /\ asking' = [asking EXCEPT !.request = r]
    BY <1>1 DEF HostSetup
  <2>5. asking' \in [request : Request \cup {NoRequest}, address : Address \cup {0}]
        /\ asking'.request = r /\ asking'.address = asking.address
    BY <2>4
  <2>. QED
    BY <2>1, <2>2, <2>3, <2>4, <2>5
<1>2. CASE HostGoesOn
  <2>1. CASE HostTakesData
    BY <2>1 DEF HostTakesData
  <2>2. CASE HostSendsStatus \/ HostTakesStatus \/ HostSeesStall
    BY <2>2 DEF HostSendsStatus, HostTakesStatus, HostSeesStall
  <2>3. CASE HostTakesNewAddress
    <3>1. asking.request.name = "SET_ADDRESS" /\ asking.request.arg = device.pending
      BY <2>3 DEF HostTakesNewAddress, Asked
    <3>2. asking.request.arg \in Address \cup {0}
      BY <3>1
    <3>3. /\ control' = [control EXCEPT !.in = "none"]
          /\ device' = [device EXCEPT !.address = device.pending]
          /\ asking' = [request |-> NoRequest, address |-> asking.request.arg]
      BY <2>3 DEF HostTakesNewAddress
    <3>. QED
      BY <3>1, <3>2, <3>3
  <2>. QED
    BY <1>2, <2>1, <2>2, <2>3 DEF HostGoesOn, HostEnds
<1>3. CASE BusReset
  BY <1>0, <1>3 DEF BusReset
<1>4. CASE UNCHANGED controlVars
  BY <1>4 DEF controlVars
<1>. QED
  BY <1>1, <1>2, <1>3, <1>4 DEF ControlStep

\* Every step of the interface and its host is one of these to the control endpoint.
LEMMA StepIsControlStep ==
    ASSUME [MscNext]_mscAllVars
    PROVE  ControlStep
<1> USE DEF ControlStep
<1>1. /\ [name |-> "MSC_RESET", arg |-> 0] \in Request
      /\ \A e \in Endpoints : [name |-> "CLEAR_HALT", arg |-> e] \in Request
      /\ \A n \in {0, 1} : [name |-> "SET_CONFIGURATION", arg |-> n] \in Request
  BY DEF Request
<1>2. CASE HostResetsMsc \/ HostConfigures \/ HostUnconfigures
  BY <1>1, <1>2 DEF HostResetsMsc, HostConfigures, HostUnconfigures
<1>3. CASE HostClearsHalt
  BY <1>1, <1>3 DEF HostClearsHalt, HostClears, Endpoints
<1>4. CASE HostResetsBus \/ HostAsks \/ HostWaits
  BY <1>4 DEF HostResetsBus, HostAsks, HostWaits
<1>5. CASE \E c \in Command : HostSendsCommand(c)
  BY <1>5 DEF HostSendsCommand, controlVars
<1>6. CASE Bulk \/ HostTimesOut
  BY <1>6 DEF Bulk, HostSeesCommandStall, HostTakesReply, HostTakesPacket,
              HostSendsPacket, HostSendsAhead, HostSeesOutStall, HostSeesInStall,
              HostTakesCsw, HostTimesOut, controlVars
<1>7. CASE Disk \/ PicobootResets \/ PicobootEjects
  BY <1>7 DEF Disk, DiskStarts, DiskEnds, PicobootResets, PicobootEjects, controlVars
<1>8. CASE UNCHANGED mscAllVars
  BY <1>8 DEF mscAllVars, controlVars
<1>. QED
  BY <1>2, <1>3, <1>4, <1>5, <1>6, <1>7, <1>8 DEF MscNext

-----------------------------------------------------------------------------
(***************************************************************************)
(* Transfers, tasks and the host.                                          *)
(***************************************************************************)

DiskTypeOK == disk \in [queued : 0..msc.token, running : 0..msc.token,
                        dropped : BOOLEAN, late : BOOLEAN]
HostTypeOK == host \in [phase : Phase, tag : 0..MaxCommands, moved : Nat, cleared : BOOLEAN,
                        expects : Sense, command : CommandBlock]

BetweenCommands == {"idle", "recover_in", "recover_out"}

\* No transfer that could go on: that of a halted endpoint cannot.
Finished(m) == m.in # "stream" /\ (m.out = "stream" => m.halt["OUT"] # "none")

\* A transfer that waits for no task.
NoTask(m) == m.in = "stream" \/ (m.out = "stream" /\ ~m.held)

\* A task queued is later than the one under way, and none has the token of a
\* transfer that waits for none.
TasksInOrder ==
    /\ disk.queued # 0 => disk.running < disk.queued
    /\ NoTask(msc) => ~Outstanding
    /\ host.phase \in BetweenCommands => Finished(msc)

TransferInv == Bounded(msc) /\ DiskTypeOK /\ HostTypeOK /\ TasksInOrder

\* What is left to show of a step that starts no task.
TransferStep ==
    /\ Bounded(msc') /\ msc'.token >= msc.token
    /\ disk' \in [queued : {0, disk.queued}, running : {disk.running},
                  dropped : BOOLEAN, late : BOOLEAN]
    /\ msc'.token = msc.token /\ NoTask(msc') => NoTask(msc)
    /\ HostTypeOK'
    /\ host'.phase \in BetweenCommands => Finished(msc')

LEMMA TransferKept ==
    ASSUME TransferInv, TransferStep
    PROVE  TransferInv'
<1>1. msc.token \in Nat /\ msc'.token \in Nat
  BY DEF TransferInv, TransferStep, Bounded, MscState
<1>2. DiskTypeOK'
  BY <1>1 DEF TransferInv, TransferStep, DiskTypeOK
<1>3. (disk.queued # 0 => disk.running < disk.queued)'
  BY <1>1 DEF TransferInv, TransferStep, TasksInOrder, DiskTypeOK
<1>4. NoTask(msc') => ~Outstanding'
  <2>1. CASE msc'.token > msc.token
    BY <1>1, <2>1 DEF Outstanding, TransferInv, TransferStep, DiskTypeOK
  <2>2. CASE msc'.token = msc.token
    <3>1. Outstanding' => Outstanding
      BY <1>1, <2>2 DEF Outstanding, TransferInv, TransferStep, DiskTypeOK
    <3>. QED
      BY <2>2, <3>1 DEF TransferInv, TransferStep, TasksInOrder
  <2>. QED
    BY <1>1, <2>1, <2>2 DEF TransferStep
<1>. QED
  BY <1>2, <1>3, <1>4 DEF TransferInv, TransferStep, TasksInOrder

LEMMA TransferTypes ==
    ASSUME TransferInv
    PROVE  /\ msc \in MscState /\ msc.token \in Nat /\ msc.held \in BOOLEAN
           /\ disk.queued \in 0..msc.token /\ disk.running \in 0..msc.token
           /\ disk \in [queued : Nat, running : Nat, dropped : BOOLEAN, late : BOOLEAN]
           /\ disk \in [queued : {0, disk.queued}, running : {disk.running},
                        dropped : BOOLEAN, late : BOOLEAN]
           /\ host.tag \in 0..MaxCommands /\ MaxCommands \in Nat
  BY MscAssumption DEF TransferInv, Bounded, MscState, DiskTypeOK, HostTypeOK

\* The data phase of the host goes on, or it waits for the status.
LEMMA MovedKeeps ==
    ASSUME HostTypeOK, NEW n \in Nat, At("data"), Moved(n)
    PROVE  HostTypeOK' /\ host'.phase \notin BetweenCommands
<1>1. PICK p \in {"status", host.phase} :
         host' = [host EXCEPT !.moved = host.moved + n, !.phase = p]
  BY DEF Moved
<1>2. p \in {"status", "data"} /\ host.moved + n \in Nat
  BY DEF At, HostTypeOK
<1>. QED
  BY <1>1, <1>2 DEF HostTypeOK, Phase, BetweenCommands

LEMMA StallSeenKeeps ==
    ASSUME HostTypeOK,
           HostSeesCommandStall \/ HostSeesOutStall \/ HostSeesInStall \/ HostTimesOut
    PROVE  /\ HostTypeOK' /\ host'.phase \notin BetweenCommands
           /\ msc' = msc /\ disk' = disk
<1>1. msc' = msc /\ disk' = disk
  BY DEF HostSeesCommandStall, HostSeesOutStall, HostSeesInStall, HostTimesOut
<1>2. ASSUME HostSeesCommandStall \/ HostSeesOutStall \/ HostTimesOut
      PROVE  HostTypeOK' /\ host'.phase \notin BetweenCommands
  <2>1. PICK p \in {"recover", "clear_out"} : host' = [host EXCEPT !.phase = p]
    BY <1>2 DEF HostSeesCommandStall, HostSeesOutStall, HostTimesOut
  <2>. QED
    BY <2>1 DEF HostTypeOK, Phase, BetweenCommands
<1>3. ASSUME HostSeesInStall
      PROVE  HostTypeOK' /\ host'.phase \notin BetweenCommands
  <2>1. PICK p \in {"recover", "clear_in"} :
           host' = [host EXCEPT !.phase = p, !.cleared = TRUE]
    BY <1>3 DEF HostSeesInStall, At
  <2>. QED
    BY <2>1 DEF HostTypeOK, Phase, BetweenCommands
<1>. QED
  BY <1>1, <1>2, <1>3

LEMMA CommandTransfers ==
    ASSUME TransferInv, NEW c \in Command, HostSendsCommand(c)
    PROVE  TransferInv' /\ host'.phase \notin BetweenCommands
<1>1. /\ host.phase = "idle" /\ msc.halt["OUT"] = "none"
      /\ msc' = Handled(msc, c, host.tag + 1)
      /\ host.tag < MaxCommands /\ disk' = disk
      /\ host' = [phase |-> IF c.dtl # 0 THEN "data" ELSE "status",
                  tag |-> host.tag + 1, moved |-> 0, cleared |-> FALSE, command |-> c,
                  expects |-> IF c.op = "sense" THEN host.expects ELSE "OK"]
  BY DEF HostSendsCommand, At
<1>2. c \in CommandBlock
  BY MscAssumption
<1>3. Bounded(msc) /\ ~Streaming(msc) /\ host.tag + 1 \in Nat
  BY <1>1, TransferTypes
  DEF TransferInv, TasksInOrder, BetweenCommands, Finished, Streaming
<1>4. /\ Bounded(msc') /\ msc'.token >= msc.token /\ msc'.token \in Nat
      /\ Streaming(msc') => msc'.token > msc.token
  BY <1>1, <1>2, <1>3, HandledBounded
<1>5. HostTypeOK' /\ host'.phase \notin BetweenCommands
  BY <1>1, <1>2, TransferTypes DEF TransferInv, HostTypeOK, Phase, Sense, BetweenCommands
<1>6. TransferStep
  BY <1>1, <1>4, <1>5, TransferTypes DEF TransferStep, NoTask, Streaming
<1>. QED
  BY <1>5, <1>6, TransferKept

LEMMA BulkTransfers ==
    ASSUME TransferInv,
           HostSeesCommandStall \/ HostTakesReply \/ HostTakesPacket \/ HostSendsAhead
              \/ HostSeesOutStall \/ HostSeesInStall \/ HostTakesCsw \/ HostTimesOut
    PROVE  TransferInv'
<1>0. Bounded(msc) /\ HostTypeOK
  BY DEF TransferInv
<1>1. CASE HostSeesCommandStall \/ HostSeesOutStall \/ HostSeesInStall \/ HostTimesOut
  <2>1. TransferStep
    BY <1>0, <1>1, StallSeenKeeps, TransferTypes DEF TransferStep
  <2>. QED
    BY <2>1, TransferKept
<1>2. ASSUME NEW n \in Nat, Moved(n), At("data"), disk' = disk, Bounded(msc'),
             msc'.token >= msc.token,
             msc'.token = msc.token /\ NoTask(msc') => NoTask(msc)
      PROVE  TransferInv'
  <2>1. HostTypeOK' /\ host'.phase \notin BetweenCommands
    BY <1>0, <1>2, MovedKeeps
  <2>2. TransferStep
    BY <1>2, <2>1, TransferTypes DEF TransferStep
  <2>. QED
    BY <2>2, TransferKept
<1>3. ASSUME msc.in \in {"reply", "stream"}
      PROVE  LET n == DataPhaseComplete([msc EXCEPT !.in = "none"])
             IN  /\ Bounded(n) /\ n.token = msc.token
                 /\ NoTask(n) => NoTask(msc)
  <2> DEFINE s == [msc EXCEPT !.in = "none"]
  <2>1. /\ s \in MscState /\ s.in = "none" /\ s.out = msc.out /\ s.token = msc.token
        /\ s.held = msc.held /\ s.offset = msc.offset /\ s.length = msc.length
    BY TransferTypes DEF MscState
  <2> HIDE DEF s
  <2>2. Bounded(s)
    BY <1>0, <2>1 DEF Bounded
  <2>3. Leaves(DataPhaseComplete(s), s)
    BY <2>1, DataPhaseCompleteLeaves
  <2>4. Bounded(DataPhaseComplete(s))
    BY <2>2, <2>3, LeavesBounded
  <2>5. DataPhaseComplete(s).token = msc.token /\ (NoTask(DataPhaseComplete(s)) => NoTask(msc))
    BY <2>1, <2>3 DEF Leaves, NoTask
  <2>. QED
    BY <2>4, <2>5 DEF s
<1>4. CASE HostTakesReply
  <2>1. msc.in = "reply" /\ msc' = DataPhaseComplete([msc EXCEPT !.in = "none"])
        /\ disk' = disk /\ At("data") /\ Moved(msc.packet.length)
    BY <1>4 DEF HostTakesReply
  <2>2. msc.packet.length \in Nat
    BY <1>0, <2>1 DEF Bounded
  <2>3. Bounded(msc') /\ msc'.token = msc.token /\ (NoTask(msc') => NoTask(msc))
    BY <1>3, <2>1
  <2>. QED
    BY <1>2, <2>1, <2>2, <2>3, TransferTypes
<1>5. CASE HostTakesPacket
  <2>1. /\ msc.in = "stream" /\ disk' = disk /\ At("data") /\ Moved(PacketLength)
        /\ msc' = IF msc.offset = msc.length
                  THEN DataPhaseComplete([msc EXCEPT !.in = "none"]) ELSE FillPacket(msc)
        /\ PacketLength \in Nat
    BY <1>5 DEF HostTakesPacket, PacketLength
  <2>2. NoTask(msc) /\ (msc.offset # msc.length => msc.offset < msc.length)
    BY <1>0, <2>1 DEF NoTask, Bounded, MscState
  <2>3. Bounded(msc') /\ msc'.token >= msc.token
    BY <1>0, <1>3, <2>1, <2>2, FillPacketBounded, TransferTypes
  <2>. QED
    BY <1>2, <2>1, <2>2, <2>3
<1>6. CASE HostSendsAhead
  <2>1. /\ msc' = [msc EXCEPT !.deferred = TRUE] /\ disk' = disk /\ At("data")
        /\ Moved(PacketLength) /\ PacketLength \in Nat
    BY <1>6 DEF HostSendsAhead, PacketLength
  <2>2. /\ msc' \in MscState /\ msc'.token = msc.token /\ msc'.in = msc.in
        /\ msc'.out = msc.out /\ msc'.held = msc.held /\ msc'.packet = msc.packet
        /\ msc'.offset = msc.offset /\ msc'.length = msc.length
    BY <2>1, TransferTypes DEF MscState
  <2>3. Bounded(msc') /\ (NoTask(msc') => NoTask(msc)) /\ msc'.token >= msc.token
    BY <1>0, <2>2, TransferTypes DEF Bounded, NoTask
  <2>. QED
    BY <1>2, <2>1, <2>3
<1>7. CASE HostTakesCsw
  <2>1. /\ At("status") /\ msc.in = "csw" /\ msc' = CommandWanted(msc) /\ disk' = disk
        /\ host' = [host EXCEPT
                      !.phase = IF msc.packet.status = "PHASE_ERROR" THEN "recover" ELSE "idle",
                      !.expects = IF msc.packet.status = "FAILED"
                                  THEN Reason(host.command) ELSE "OK"]
    BY <1>7 DEF HostTakesCsw
  <2>2. /\ Bounded(msc') /\ msc'.token = msc.token /\ msc'.in = "none"
        /\ msc'.out = "stream" => /\ msc.out = "stream" /\ msc'.held = msc.held
                                  /\ msc'.halt["OUT"] # "none"
    BY <1>0, <2>1, ResetsBounded
  <2>3. HostTypeOK'
    <3>1. Reason(host.command) \in Sense
      BY DEF Reason, Sense
    <3>. QED
      BY <1>0, <2>1, <3>1 DEF HostTypeOK, Phase, Sense
  <2>4. TransferStep
    BY <2>1, <2>2, <2>3, TransferTypes DEF TransferStep, NoTask, Finished
  <2>. QED
    BY <2>4, TransferKept
<1>. QED
  BY <1>1, <1>4, <1>5, <1>6, <1>7

\* A packet that is kept for its task has the newest token of all.
LEMMA PacketTransfers ==
    ASSUME TransferInv, NEW async \in BOOLEAN, HostSendsPacket(async)
    PROVE  TransferInv' /\ host'.phase \notin BetweenCommands
<1>1. /\ At("data") /\ msc.out = "stream" /\ ~msc.held
      /\ msc' = TakePacket(msc, async) /\ Moved(PacketLength) /\ PacketLength \in Nat
      /\ disk' = IF msc'.held /\ msc'.token # msc.token
                 THEN [disk EXCEPT !.queued = msc'.token] ELSE disk
  BY DEF HostSendsPacket, QueuesTask, PacketLength
<1>2. Bounded(msc) /\ msc.in # "stream" /\ msc.held = FALSE /\ msc.token \in Nat
      /\ NoTask(msc) /\ HostTypeOK
  BY <1>1, TransferTypes DEF TransferInv, Bounded, NoTask
<1>3. /\ Bounded(msc') /\ msc'.in # "stream" /\ msc'.token \in {msc.token, msc.token + 1}
      /\ msc'.held => msc'.token = msc.token + 1
  BY <1>1, <1>2, TakePacketBounded
<1>4. HostTypeOK' /\ host'.phase \notin BetweenCommands
  BY <1>1, <1>2, MovedKeeps
<1>5. CASE ~msc'.held
  <2>1. TransferStep
    BY <1>1, <1>2, <1>3, <1>4, <1>5, TransferTypes DEF TransferStep
  <2>. QED
    BY <1>4, <2>1, TransferKept
<1>6. CASE msc'.held
  <2>1. msc'.token = msc.token + 1 /\ disk' = [disk EXCEPT !.queued = msc'.token]
    BY <1>1, <1>2, <1>3, <1>6
  <2>2. DiskTypeOK' /\ (disk.queued # 0 => disk.running < disk.queued)'
    BY <1>2, <2>1 DEF TransferInv, DiskTypeOK
  <2>. QED
    BY <1>3, <1>4, <1>6, <2>2 DEF TransferInv, TasksInOrder, NoTask
<1>. QED
  BY <1>5, <1>6

LEMMA TaskTransfers ==
    ASSUME TransferInv, Disk
    PROVE  TransferInv'
<1>0. Bounded(msc) /\ HostTypeOK
  BY DEF TransferInv
<1>1. CASE DiskStarts
  <2>1. /\ disk.queued # 0 /\ disk.running = 0 /\ msc' = msc /\ host' = host
        /\ disk' = [disk EXCEPT !.queued = 0, !.running = disk.queued]
    BY <1>1 DEF DiskStarts
  <2>2. disk'.queued = 0 /\ disk'.running = disk.queued
        /\ disk' \in [queued : Nat, running : Nat, dropped : BOOLEAN, late : BOOLEAN]
    BY <2>1, TransferTypes
  <2>3. DiskTypeOK' /\ (Outstanding' => Outstanding)
    BY <2>1, <2>2, TransferTypes DEF DiskTypeOK, Outstanding
  <2>. QED
    BY <2>1, <2>2, <2>3 DEF TransferInv, TasksInOrder, HostTypeOK
<1>2. ASSUME NEW ok \in BOOLEAN, NEW async \in BOOLEAN, DiskEnds(ok, async)
      PROVE  TransferInv'
  <2>1. /\ disk.running # 0 /\ host' = host
        /\ msc' = Completed(msc, ok, async)
        /\ disk' = [disk EXCEPT !.running = 0,
                                !.queued = IF msc'.held /\ msc'.token # msc.token
                                           THEN msc'.token ELSE @,
                                !.late = @ \/ TooLate(ok)]
    BY <1>2 DEF DiskEnds
  <2> DEFINE q == IF msc'.held /\ msc'.token # msc.token THEN msc'.token ELSE disk.queued
  <2>2. disk'.queued = q /\ disk'.running = 0 /\ disk'.dropped \in BOOLEAN
        /\ (q \in Nat => disk' \in [queued : {q}, running : {0},
                                    dropped : BOOLEAN, late : BOOLEAN])
    <3>1. (disk.late \/ TooLate(ok)) \in BOOLEAN
      BY TransferTypes DEF TooLate
    <3>. QED
      BY <2>1, <3>1, TransferTypes
  <2>3. CASE disk.running # msc.token
    <3>1. msc' = msc
      BY <2>1, <2>3 DEF Completed
    <3>2. q = disk.queued
      BY <3>1
    <3> HIDE DEF q
    <3>3. DiskTypeOK' /\ (Outstanding' => Outstanding)
      BY <2>2, <3>1, <3>2, TransferTypes DEF DiskTypeOK, Outstanding
    <3>4. (disk.queued # 0 => disk.running < disk.queued)'
      BY <2>2, <3>2, TransferTypes
    <3>. QED
      BY <2>1, <3>1, <3>3, <3>4 DEF TransferInv, TasksInOrder, HostTypeOK
  <2>4. CASE disk.running = msc.token
    <3>1. Outstanding /\ disk.queued = 0
      BY <2>1, <2>4, TransferTypes DEF Outstanding, TransferInv, TasksInOrder
    <3>2. msc.in # "stream" /\ (msc.held \/ msc.out # "stream")
      BY <3>1 DEF TransferInv, TasksInOrder, NoTask
    <3>3. /\ Bounded(msc') /\ msc'.in # "stream" /\ msc'.token \in {msc.token, msc.token + 1}
          /\ msc'.held => msc'.token = msc.token + 1
          /\ msc'.out = "stream" => msc.out = "stream" /\ msc.halt["OUT"] = "none"
      BY <1>0, <2>1, <2>4, <3>2, CompletedBounded
    <3>4. q \in 0..msc'.token /\ (msc'.held => q = msc'.token) /\ (~msc'.held => q = 0)
      BY <3>1, <3>3, TransferTypes
    <3> HIDE DEF q
    <3>5. DiskTypeOK' /\ (disk.queued # 0 => disk.running < disk.queued)'
      BY <2>2, <3>3, <3>4, TransferTypes DEF DiskTypeOK
    <3>6. NoTask(msc') => ~Outstanding'
      BY <2>2, <3>3, <3>4 DEF NoTask, Outstanding
    <3>7. host.phase \in BetweenCommands => Finished(msc')
      BY <3>3 DEF TransferInv, TasksInOrder, Finished
    <3>. QED
      BY <2>1, <3>3, <3>5, <3>6, <3>7 DEF TransferInv, TasksInOrder, HostTypeOK
  <2>. QED
    BY <2>3, <2>4
<1>. QED
  BY <1>1, <1>2 DEF Disk

LEMMA RequestTransfers ==
    ASSUME TransferInv,
           HostResetsMsc \/ HostClearsHalt \/ HostConfigures \/ HostUnconfigures
              \/ HostResetsBus \/ PicobootResets \/ PicobootEjects
    PROVE  TransferInv'
<1>0. Bounded(msc) /\ HostTypeOK
  BY DEF TransferInv
<1>1. CASE HostResetsMsc \/ HostConfigures
  <2>1. /\ msc' = Cleared(msc.token, TRUE)
        /\ disk' \in {[disk EXCEPT !.dropped = FALSE, !.late = FALSE],
                      [disk EXCEPT !.queued = 0, !.dropped = FALSE, !.late = FALSE]}
        /\ \E p \in {"recover_in", "idle"} :
              host' = [host EXCEPT !.phase = p, !.expects = "OK"]
    BY <1>1 DEF HostResetsMsc, MscReset, HostConfigures
  <2>2. disk' \in [queued : {0, disk.queued}, running : {disk.running},
                   dropped : BOOLEAN, late : BOOLEAN]
    BY <2>1, TransferTypes
  <2>3. Bounded(msc') /\ ~Streaming(msc') /\ msc'.token = msc.token
    BY <1>0, <2>1, ResetsBounded
  <2>4. HostTypeOK'
    BY <1>0, <2>1 DEF HostTypeOK, Phase, Sense
  <2>5. TransferStep
    BY <2>2, <2>3, <2>4, TransferTypes DEF TransferStep, NoTask, Streaming, Finished
  <2>. QED
    BY <2>5, TransferKept
<1>2. ASSUME NEW p \in Phase, NEW e \in Endpoints, NEW next \in Phase,
             HostClears(p, e, next),
             next \in BetweenCommands => Finished(msc)
      PROVE  TransferInv'
  <2>1. /\ msc' = ClearHalt(msc, e) /\ disk' = disk
        /\ host' = [host EXCEPT !.phase = next]
    BY <1>2 DEF HostClears
  <2>2. /\ Bounded(msc') /\ msc'.token = msc.token
        /\ msc'.in = "stream" => msc.in = "stream"
        /\ msc'.out = "stream" => /\ msc.out = "stream" /\ msc'.held = msc.held
                                  /\ msc'.halt["OUT"] = msc.halt["OUT"]
    <3> DEFINE h == ClearHalt(msc, e)
    <3>1. /\ Bounded(h) /\ h.token = msc.token
          /\ h.in = "stream" => msc.in = "stream"
          /\ h.out = "stream" => /\ msc.out = "stream" /\ h.held = msc.held
                                 /\ h.halt["OUT"] = msc.halt["OUT"]
      BY <1>0, ClearHaltBounded
    <3>2. msc' = h
      BY <2>1
    <3> HIDE DEF h
    <3>. QED
      BY <3>1, <3>2
  <2>3. HostTypeOK' /\ host'.phase = next
    BY <1>0, <2>1 DEF HostTypeOK
  <2>4. TransferStep
    BY <1>2, <2>1, <2>2, <2>3, TransferTypes DEF TransferStep, NoTask, Finished
  <2>. QED
    BY <2>4, TransferKept
<1>3. CASE HostClearsHalt
  <2>1. host.phase \in {"recover_in", "recover_out"} => Finished(msc)
    BY DEF TransferInv, TasksInOrder, BetweenCommands
  <2>. QED
    BY <1>2, <1>3, <2>1 DEF HostClearsHalt, HostClears, At, Endpoints, Phase, BetweenCommands
<1>4. CASE HostUnconfigures \/ HostResetsBus
  <2>1. /\ msc' = Unconfigured(msc) /\ disk' = disk
        /\ host' = [host EXCEPT !.phase = "off"]
    BY <1>4 DEF HostUnconfigures, HostResetsBus, LosesConfiguration
  <2>2. Bounded(msc') /\ ~Streaming(msc') /\ msc'.token = msc.token
    BY <1>0, <2>1, ResetsBounded
  <2>3. HostTypeOK' /\ host'.phase = "off"
    BY <1>0, <2>1 DEF HostTypeOK, Phase
  <2>4. TransferStep
    BY <2>1, <2>2, <2>3, TransferTypes
    DEF TransferStep, NoTask, Streaming, BetweenCommands
  <2>. QED
    BY <2>4, TransferKept
<1>5. CASE PicobootResets
  <2>1. /\ msc' = msc /\ host' = host
        /\ disk' = [disk EXCEPT !.queued = 0,
                      !.dropped = @ \/ (msc.held /\ disk.queued = msc.token)]
    BY <1>5 DEF PicobootResets
  <2>2. disk' \in [queued : {0, disk.queued}, running : {disk.running},
                   dropped : BOOLEAN, late : BOOLEAN]
    BY <2>1, TransferTypes
  <2>3. TransferStep
    BY <2>1, <2>2, TransferTypes DEF TransferStep, TransferInv, TasksInOrder, HostTypeOK
  <2>. QED
    BY <2>3, TransferKept
<1>6. CASE PicobootEjects
  <2>1. msc' = [msc EXCEPT !.ejected = TRUE] /\ host' = host /\ disk' = disk
    BY <1>6 DEF PicobootEjects
  <2>2. /\ msc' \in MscState /\ msc'.token = msc.token /\ msc'.in = msc.in
        /\ msc'.out = msc.out /\ msc'.held = msc.held /\ msc'.packet = msc.packet
        /\ msc'.offset = msc.offset /\ msc'.length = msc.length /\ msc'.halt = msc.halt
    BY <2>1, TransferTypes DEF MscState
  <2>3. Bounded(msc') /\ (NoTask(msc') => NoTask(msc)) /\ (Finished(msc) => Finished(msc'))
    BY <1>0, <2>2 DEF Bounded, NoTask, Finished
  <2>4. TransferStep
    BY <2>1, <2>2, <2>3, TransferTypes
    DEF TransferStep, TransferInv, TasksInOrder, HostTypeOK
  <2>. QED
    BY <2>4, TransferKept
<1>. QED
  BY <1>1, <1>3, <1>4, <1>5, <1>6

LEMMA TransferStepKept ==
    ASSUME TransferInv, [MscNext]_mscAllVars
    PROVE  TransferInv'
<1>1. CASE HostAsks \/ HostWaits \/ UNCHANGED mscAllVars
  <2>1. UNCHANGED mscVars
    BY <1>1 DEF HostAsks, HostWaits, mscAllVars
  <2>. QED
    BY <2>1 DEF mscVars, TransferInv, DiskTypeOK, HostTypeOK, TasksInOrder, Outstanding
<1>2. CASE \E c \in Command : HostSendsCommand(c)
  BY <1>2, CommandTransfers
<1>3. CASE Bulk \/ HostTimesOut
  BY <1>3, BulkTransfers, PacketTransfers DEF Bulk
<1>4. CASE Disk
  BY <1>4, TaskTransfers
<1>5. CASE HostResetsMsc \/ HostClearsHalt \/ HostConfigures \/ HostUnconfigures
              \/ HostResetsBus \/ PicobootResets \/ PicobootEjects
  BY <1>5, RequestTransfers
<1>. QED
  BY <1>1, <1>2, <1>3, <1>4, <1>5 DEF MscNext

-----------------------------------------------------------------------------
(***************************************************************************)
(* The interface, until a completion comes too late.                       *)
(***************************************************************************)

Fit == MscFits(msc) /\ (host.phase \in BetweenCommands => Rests(msc))

FitsInv == ~disk.late => Fit

InterfaceInv == TransferInv /\ FitsInv

\* Only a reset of the interface undoes what came too late.
LEMMA LateKept ==
    ASSUME TransferInv, [MscNext]_mscAllVars, disk.late
    PROVE  disk'.late \/ HostResetsMsc \/ HostConfigures
<1>1. disk \in [queued : Nat, running : Nat, dropped : BOOLEAN, late : BOOLEAN]
  BY TransferTypes
<1>2. CASE (\E c \in Command : HostSendsCommand(c)) \/ HostTimesOut \/ HostClearsHalt
              \/ HostUnconfigures \/ HostResetsBus \/ PicobootEjects
              \/ HostAsks \/ HostWaits \/ UNCHANGED mscAllVars
  <2>1. disk' = disk
    BY <1>2 DEF HostSendsCommand, HostTimesOut, HostClearsHalt, HostClears,
                HostUnconfigures, HostResetsBus, LosesConfiguration, PicobootEjects,
                HostAsks, HostWaits, mscAllVars, mscVars
  <2>. QED
    BY <2>1
<1>3. CASE Bulk
  <2>1. CASE \E async \in BOOLEAN : HostSendsPacket(async)
    <3>1. disk' \in {disk, [disk EXCEPT !.queued = msc'.token]}
      BY <2>1 DEF HostSendsPacket, QueuesTask
    <3>. QED
      BY <1>1, <3>1
  <2>2. CASE ~\E async \in BOOLEAN : HostSendsPacket(async)
    <3>1. disk' = disk
      BY <1>3, <2>2 DEF Bulk, HostSeesCommandStall, HostTakesReply, HostTakesPacket,
                        HostSendsAhead, HostSeesOutStall, HostSeesInStall, HostTakesCsw
    <3>. QED
      BY <3>1
  <2>. QED
    BY <2>1, <2>2
<1>4. CASE Disk \/ PicobootResets
  <2>1. CASE DiskStarts
    BY <1>1, <2>1 DEF DiskStarts
  <2>2. ASSUME NEW ok \in BOOLEAN, NEW async \in BOOLEAN, DiskEnds(ok, async)
        PROVE  disk'.late
    <3>1. PICK q : disk' = [disk EXCEPT !.running = 0, !.queued = q,
                                        !.late = disk.late \/ TooLate(ok)]
      BY <2>2 DEF DiskEnds
    <3>2. disk'.late = (disk.late \/ TooLate(ok))
      BY <1>1, <3>1
    <3>. QED
      BY <3>2
  <2>3. CASE PicobootResets
    BY <1>1, <2>3 DEF PicobootResets
  <2>. QED
    BY <1>4, <2>1, <2>2, <2>3 DEF Disk
<1>. QED
  BY <1>2, <1>3, <1>4 DEF MscNext

LEMMA BulkFits ==
    ASSUME TransferInv, Fit,
           (\E c \in Command : HostSendsCommand(c)) \/ Bulk \/ HostTimesOut
    PROVE  Fit'
<1>0. MscFits(msc) /\ msc \in MscState /\ HostTypeOK
  BY DEF Fit, MscFits, TransferInv
<1>1. ASSUME NEW c \in Command, HostSendsCommand(c) PROVE Fit'
  <2>1. host.phase = "idle" /\ msc.out = "cmd" /\ msc' = Handled(msc, c, host.tag + 1)
    BY <1>1 DEF HostSendsCommand, At
  <2>2. c \in CommandBlock /\ host.tag + 1 \in Nat
    BY MscAssumption, TransferTypes
  <2>3. Rests(msc) /\ msc.held = FALSE
    BY <1>0, <2>1 DEF Fit, BetweenCommands, MscFits, MscState
  <2>4. MscFits(msc')
    BY <1>0, <2>1, <2>2, <2>3, HandledFits
  <2>5. host'.phase \notin BetweenCommands
    BY <1>1, CommandTransfers
  <2>. QED
    BY <2>4, <2>5 DEF Fit
<1>2. CASE HostSeesCommandStall \/ HostSeesOutStall \/ HostSeesInStall \/ HostTimesOut
  BY <1>0, <1>2, StallSeenKeeps DEF Fit
<1>3. ASSUME NEW n \in Nat, Moved(n), At("data"), MscFits(msc') PROVE Fit'
  BY <1>0, <1>3, MovedKeeps DEF Fit
<1>4. ASSUME msc.in \in {"reply", "stream"}
      PROVE  MscFits(DataPhaseComplete([msc EXCEPT !.in = "none"]))
  <2> DEFINE s == [msc EXCEPT !.in = "none"]
  <2>1. msc.out # "stream"
    BY <1>0, <1>4 DEF MscFits
  <2>2. MscFits(s) /\ s.in = "none" /\ s.out = msc.out
    BY <1>0, <1>4, <2>1 DEF MscFits, MscState
  <2> HIDE DEF s
  <2>3. MscFits(DataPhaseComplete(s))
    BY <2>1, <2>2, DataPhaseCompleteFits
  <2>. QED
    BY <2>3 DEF s
<1>5. CASE HostTakesReply
  <2>1. msc.in = "reply" /\ msc' = DataPhaseComplete([msc EXCEPT !.in = "none"])
        /\ At("data") /\ Moved(msc.packet.length)
    BY <1>5 DEF HostTakesReply
  <2>2. msc.packet.length \in Nat
    BY <1>0, <2>1 DEF MscFits
  <2>. QED
    BY <1>3, <1>4, <2>1, <2>2
<1>6. CASE HostTakesPacket
  <2>1. /\ msc.in = "stream" /\ At("data") /\ Moved(PacketLength) /\ PacketLength \in Nat
        /\ msc' = IF msc.offset = msc.length
                  THEN DataPhaseComplete([msc EXCEPT !.in = "none"]) ELSE FillPacket(msc)
    BY <1>6 DEF HostTakesPacket, PacketLength
  <2>2. msc.offset # msc.length => msc.offset < msc.length
    BY <1>0, <2>1 DEF MscFits, MscState
  <2>3. MscFits(msc')
    BY <1>0, <1>4, <2>1, <2>2, FillPacketFits
  <2>. QED
    BY <1>3, <2>1, <2>3
<1>7. ASSUME NEW async \in BOOLEAN, HostSendsPacket(async) PROVE Fit'
  <2>1. /\ At("data") /\ msc.out = "stream" /\ ~msc.held
        /\ msc' = TakePacket(msc, async) /\ Moved(PacketLength) /\ PacketLength \in Nat
    BY <1>7 DEF HostSendsPacket, PacketLength
  <2>2. msc.held = FALSE
    BY <1>0, <2>1 DEF MscState
  <2>3. MscFits(msc')
    BY <1>0, <2>1, <2>2, TakePacketFits
  <2>. QED
    BY <1>3, <2>1, <2>3
<1>8. CASE HostSendsAhead
  <2>1. /\ msc' = [msc EXCEPT !.deferred = TRUE] /\ At("data") /\ Moved(PacketLength)
        /\ msc.held /\ msc.offset + 1 < msc.length /\ PacketLength \in Nat
    BY <1>8 DEF HostSendsAhead, PacketLength
  <2>2. MscFits(msc')
    BY <1>0, <2>1 DEF MscFits, MscState
  <2>. QED
    BY <1>3, <2>1, <2>2
<1>9. CASE HostTakesCsw
  <2>1. msc.in = "csw" /\ msc' = CommandWanted(msc)
    BY <1>9 DEF HostTakesCsw
  <2>. QED
    BY <1>0, <2>1, CommandWantedFits DEF Fit
<1>. QED
  BY <1>1, <1>2, <1>5, <1>6, <1>7, <1>8, <1>9 DEF Bulk

\* A task that ends too late, but for nothing: only the counts of the next command,
\* which sets them again, have changed.
LEMMA EarlyCompletion ==
    ASSUME TransferInv, NEW ok \in BOOLEAN, NEW async \in BOOLEAN,
           DiskEnds(ok, async), ~disk'.late, disk.running = msc.token, ~msc.held
    PROVE  /\ msc.out = "cmd" /\ msc.csw.tag = 0 /\ msc.in # "stream"
           /\ msc' \in MscState /\ msc'.csw.tag = 0 /\ msc'.in = msc.in
           /\ msc'.out \in {"cmd", "none"} /\ msc'.packet = msc.packet
           /\ msc'.halt = msc.halt /\ msc'.held = FALSE /\ msc'.deferred = msc.deferred
           /\ msc'.csw_on_unstall = msc.csw_on_unstall /\ msc'.sense = msc.sense
           /\ msc'.stall_before_csw = msc.stall_before_csw /\ msc'.token = msc.token
<1>1. disk \in [queued : Nat, running : Nat, dropped : BOOLEAN, late : BOOLEAN]
      /\ msc \in MscState
  BY TransferTypes
<1>2. PICK q : disk' = [disk EXCEPT !.running = 0, !.queued = q,
                                    !.late = disk.late \/ TooLate(ok)]
  BY DEF DiskEnds
<1>3. disk'.late = (disk.late \/ TooLate(ok))
  BY <1>1, <1>2
<1>4. ok /\ msc.out = "cmd" /\ msc.csw.tag = 0
  BY <1>3 DEF TooLate
<1>5. msc.in # "stream"
  BY TransferTypes DEF DiskEnds, TransferInv, TasksInOrder, NoTask, Outstanding
<1> DEFINE n == PacketComplete(msc)
           o == [n EXCEPT !.out = "none"]
<1>6. msc' \in {n, o}
  BY <1>4 DEF DiskEnds, Completed, DoneForNobody
<1>7. /\ n \in MscState
      /\ n.token = msc.token /\ n.in = msc.in /\ n.out = msc.out /\ n.halt = msc.halt
      /\ n.packet = msc.packet /\ n.held = FALSE /\ n.deferred = msc.deferred
      /\ n.csw.tag = msc.csw.tag /\ n.csw_on_unstall = msc.csw_on_unstall
      /\ n.sense = msc.sense /\ n.stall_before_csw = msc.stall_before_csw
  BY <1>1, PacketCounted
<1> HIDE DEF n
<1>8. /\ o \in MscState
      /\ o.token = n.token /\ o.in = n.in /\ o.out = "none" /\ o.halt = n.halt
      /\ o.packet = n.packet /\ o.held = n.held /\ o.deferred = n.deferred
      /\ o.csw = n.csw /\ o.csw_on_unstall = n.csw_on_unstall
      /\ o.sense = n.sense /\ o.stall_before_csw = n.stall_before_csw
  BY <1>7 DEF MscState
<1> HIDE DEF o
<1>. QED
  BY <1>4, <1>5, <1>6, <1>7, <1>8

LEMMA TaskFits ==
    ASSUME TransferInv, Fit, Disk, ~disk'.late
    PROVE  Fit'
<1>0. MscFits(msc) /\ msc \in MscState
  BY DEF Fit, MscFits
<1>1. CASE DiskStarts
  BY <1>1 DEF DiskStarts, Fit
<1>2. ASSUME NEW ok \in BOOLEAN, NEW async \in BOOLEAN, DiskEnds(ok, async)
      PROVE  Fit'
  <2>1. host' = host /\ msc' = Completed(msc, ok, async)
    BY <1>2 DEF DiskEnds
  <2>2. CASE disk.running # msc.token
    BY <2>1, <2>2 DEF Completed, Fit
  <2>3. CASE disk.running = msc.token /\ ~msc.held
    <3>1. /\ msc.out = "cmd" /\ msc.in # "stream"
          /\ msc' \in MscState /\ msc'.csw.tag = 0 /\ msc'.in = msc.in
          /\ msc'.out \in {"cmd", "none"} /\ msc'.packet = msc.packet
          /\ msc'.held = FALSE /\ msc'.deferred = msc.deferred
          /\ msc'.csw_on_unstall = msc.csw_on_unstall
      BY <1>2, <2>3, EarlyCompletion
    <3>2. ~msc.deferred
      BY <1>0, <2>3 DEF MscFits
    <3>. QED
      BY <1>0, <2>1, <3>1, <3>2 DEF MscFits, Rests, Fit
  <2>4. CASE disk.running = msc.token /\ msc.held
    <3>1. msc' = TakeDeferred(DonePacket(IF ok THEN msc ELSE ErrorEnds(msc)), async)
      BY <2>1, <2>4 DEF Completed
    <3>2. MscFits(msc')
      BY <1>0, <2>4, <3>1, PacketEndsFits, ErrorEndsFits
    <3>3. host.phase \notin BetweenCommands
      BY <1>0, <2>4 DEF Fit, Rests, MscFits
    <3>. QED
      BY <2>1, <3>2, <3>3 DEF Fit
  <2>. QED
    BY <2>2, <2>3, <2>4
<1>. QED
  BY <1>1, <1>2 DEF Disk

\* A reset makes the interface fit again.
LEMMA ResetFits ==
    ASSUME TransferInv, HostResetsMsc \/ HostConfigures
    PROVE  Fit'
<1>1. msc' = Cleared(msc.token, TRUE) /\ msc.token \in Nat
  BY TransferTypes DEF HostResetsMsc, MscReset, HostConfigures
<1>. QED
  BY <1>1, ClearedFits DEF Fit

LEMMA RequestFits ==
    ASSUME TransferInv, Fit,
           HostClearsHalt \/ HostUnconfigures \/ HostResetsBus
              \/ PicobootResets \/ PicobootEjects
    PROVE  Fit'
<1>0. MscFits(msc) /\ msc \in MscState /\ HostTypeOK
  BY DEF Fit, MscFits, TransferInv
<1>1. ASSUME NEW p \in Phase, NEW e \in Endpoints, NEW next \in Phase,
             HostClears(p, e, next), next \in BetweenCommands => Rests(msc)
      PROVE  Fit'
  <2>1. msc' = ClearHalt(msc, e) /\ host' = [host EXCEPT !.phase = next]
    BY <1>1 DEF HostClears
  <2>2. MscFits(msc') /\ (Rests(msc) => Rests(msc'))
    BY <1>0, <2>1, ClearHaltFits
  <2>3. host'.phase = next
    BY <1>0, <2>1 DEF HostTypeOK
  <2>. QED
    BY <1>1, <2>2, <2>3 DEF Fit
<1>2. CASE HostClearsHalt
  <2>1. host.phase \in {"recover_in", "recover_out"} => Rests(msc)
    BY DEF Fit, BetweenCommands
  <2>. QED
    BY <1>1, <1>2, <2>1 DEF HostClearsHalt, HostClears, At, Endpoints, Phase, BetweenCommands
<1>3. CASE HostUnconfigures \/ HostResetsBus
  <2>1. msc' = Unconfigured(msc) /\ host' = [host EXCEPT !.phase = "off"]
    BY <1>3 DEF HostUnconfigures, HostResetsBus, LosesConfiguration
  <2>2. MscFits(msc')
    BY <1>0, <2>1, UnconfiguredFits
  <2>3. host'.phase = "off"
    BY <1>0, <2>1 DEF HostTypeOK
  <2>. QED
    BY <2>2, <2>3 DEF Fit, BetweenCommands
<1>4. CASE PicobootResets
  BY <1>4 DEF PicobootResets, Fit
<1>5. CASE PicobootEjects
  <2>1. msc' = [msc EXCEPT !.ejected = TRUE] /\ host' = host
    BY <1>5 DEF PicobootEjects
  <2>2. MscFits(msc') /\ (Rests(msc) => Rests(msc'))
    BY <1>0, <2>1 DEF MscFits, MscState, Rests
  <2>. QED
    BY <2>1, <2>2 DEF Fit
<1>. QED
  BY <1>2, <1>3, <1>4, <1>5

-----------------------------------------------------------------------------
(***************************************************************************)
(* The theorems.                                                           *)
(***************************************************************************)

LEMMA InterfaceStepKept ==
    ASSUME InterfaceInv, [MscNext]_mscAllVars
    PROVE  InterfaceInv'
<1>1. TransferInv /\ TransferInv'
  BY TransferStepKept DEF InterfaceInv
<1>2. ASSUME ~disk'.late PROVE Fit'
  <2>1. CASE HostResetsMsc \/ HostConfigures
    BY <1>1, <2>1, ResetFits
  <2>2. CASE ~(HostResetsMsc \/ HostConfigures)
    <3>1. Fit
      BY <1>1, <1>2, <2>2, LateKept DEF InterfaceInv, FitsInv
    <3>2. CASE HostAsks \/ HostWaits \/ UNCHANGED mscAllVars
      <4>1. UNCHANGED mscVars
        BY <3>2 DEF HostAsks, HostWaits, mscAllVars
      <4>. QED
        BY <3>1, <4>1 DEF mscVars, Fit
    <3>3. CASE (\E c \in Command : HostSendsCommand(c)) \/ Bulk \/ HostTimesOut
      BY <1>1, <3>1, <3>3, BulkFits
    <3>4. CASE Disk
      BY <1>1, <1>2, <3>1, <3>4, TaskFits
    <3>5. CASE HostClearsHalt \/ HostUnconfigures \/ HostResetsBus
                  \/ PicobootResets \/ PicobootEjects
      BY <1>1, <3>1, <3>5, RequestFits
    <3>. QED
      BY <2>2, <3>2, <3>3, <3>4, <3>5 DEF MscNext
  <2>. QED
    BY <2>1, <2>2
<1>. QED
  BY <1>1, <1>2 DEF InterfaceInv, FitsInv

LEMMA ControlInitially == MscInit => ControlInv
  BY DEF MscInit, ControlInit, ControlInv, ControlTypeOK, AddressAgreed, AddressPending

\* The device and the host agree on the address (_tf_set_address), whatever
\* becomes of the tasks of commands given up.
THEOREM AddressCorrect == MscSafety => []AddressAgreed
<1>1. ControlInv /\ [MscNext]_mscAllVars => ControlInv'
  BY ControlKept, StepIsControlStep
<1>2. ControlInv => AddressAgreed
  BY DEF ControlInv
<1>. QED
  BY <1>1, <1>2, ControlInitially, PTL DEF MscSafety

LEMMA MscInvariant == MscSafety => [](ControlInv /\ InterfaceInv)
<1>1. MscInit => ControlInv /\ InterfaceInv
  <2> SUFFICES ASSUME MscInit PROVE ControlInv /\ InterfaceInv
    OBVIOUS
  <2>1. ControlInv
    BY ControlInitially
  <2>2. MscFits(msc) /\ Rests(msc) /\ msc.token = 0
    BY ClearedFits DEF MscInit
  <2>3. DiskTypeOK /\ HostTypeOK
    <3>1. DiskTypeOK
      <4>1. disk = [queued |-> 0, running |-> 0, dropped |-> FALSE, late |-> FALSE]
        BY DEF MscInit
      <4>2. 0 \in 0..msc.token
        BY <2>2
      <4>. QED
        BY <4>1, <4>2 DEF DiskTypeOK
    <3>2. [op |-> "none", in |-> FALSE, dtl |-> 0, blocks |-> 0] \in CommandBlock
      BY DEF CommandBlock, Operation
    <3>3. 0 \in 0..MaxCommands
      BY MscAssumption
    <3>4. HostTypeOK
      BY <3>2, <3>3 DEF MscInit, HostTypeOK, Phase, Sense
    <3>. QED
      BY <3>1, <3>4
  <2>4. TransferInv
    BY <2>2, <2>3 DEF MscInit, TransferInv, TasksInOrder, NoTask, Outstanding, Bounded,
                      MscFits, Rests, BetweenCommands
  <2>. QED
    BY <2>1, <2>2, <2>4 DEF InterfaceInv, FitsInv, Fit
<1>2. ControlInv /\ InterfaceInv /\ [MscNext]_mscAllVars => (ControlInv /\ InterfaceInv)'
  BY ControlKept, StepIsControlStep, InterfaceStepKept
<1>. QED
  BY <1>1, <1>2, PTL DEF MscSafety

\* The types: whatever lengths the host and the command want, and whatever comes too
\* late, no transfer runs past its length; and until a completion comes too late no
\* command has a residue below zero (MscTypeOK).
THEOREM MscTypeCorrect == MscSafety => []MscTypeOK
<1>1. ControlInv /\ InterfaceInv => MscTypeOK
  BY DEF ControlInv, InterfaceInv, TransferInv, FitsInv, Fit, MscTypeOK, MscFits, Bounded,
         DiskTypeOK, HostTypeOK, MscState
<1>. QED
  BY <1>1, MscInvariant, PTL

\* No completion ends a packet of a sector that is not its own, whatever was given
\* up before (vd_async_complete and the two ++_msc_async_token).
THEOREM CompletionCorrect == MscSafety => []CompletionEndsOwnSector
<1>1. ControlInv /\ InterfaceInv => CompletionEndsOwnSector
  BY DEF InterfaceInv, TransferInv, TasksInOrder, NoTask, CompletionEndsOwnSector
<1>. QED
  BY <1>1, MscInvariant, PTL

-----------------------------------------------------------------------------
(***************************************************************************)
(* What the host and the interface know of a command.  PhasesAgree,        *)
(* StatusIsTrue and SenseTellsFailure relate them at one point of it only, *)
(* and none is inductive: Agree says where both can be at every point.  *)
(***************************************************************************)

\* The sense that the status of a command calls for.
Sensed(m, c) == m.sense = IF m.csw.status = "FAILED" THEN Reason(c) ELSE "OK"

\* Between commands, with the sense that the host expects.
Quiet(m, h) ==
    /\ m.in = "none" /\ m.out # "stream" /\ m.halt["IN"] = "none" /\ ~m.csw_on_unstall
    /\ m.stall_before_csw = "none" /\ ~m.held /\ m.sense = h.expects

\* A CBW that was none: both endpoints are halted until a reset.
Refused(m) ==
    /\ m.in = "none" /\ m.out = "none" /\ ~m.csw_on_unstall
    /\ \A e \in Endpoints : m.halt[e] = "on_condition"

\* The data phase: nothing is halted yet, and it may end with a stall.
StallsBefore(m, h) ==
    /\ m.stall_before_csw \in {"none", Direction(h.command)}
    /\ ~m.csw_on_unstall /\ ~h.cleared /\ m.halt["IN"] = "none" /\ m.halt["OUT"] = "none"

\* A reply is ready for the host; that of REQUEST SENSE tells what it expects.
Replying(m, h) ==
    /\ StallsBefore(m, h) /\ m.in = "reply" /\ m.out = "none"
    /\ h.phase = "data" /\ h.command.in /\ h.moved = 0
    /\ m.packet.length < PacketLength /\ m.csw.residue = h.command.dtl - m.packet.length
    /\ h.command.op = "sense" => m.packet.sense = h.expects

\* How far a transfer is.  It moves all that the host asks for, or ends in a stall.
Ends(m, h) ==
    /\ PacketLength * m.length <= h.command.dtl
    /\ m.csw.residue = h.command.dtl - PacketLength * m.offset
    /\ m.stall_before_csw = "none" => PacketLength * m.length = h.command.dtl

\* A READ with a packet ready for the host.
Reading(m, h) ==
    /\ StallsBefore(m, h) /\ m.in = "stream" /\ m.out = "none"
    /\ Ends(m, h)
    /\ h.phase = "data" /\ h.command.in /\ h.moved = PacketLength * (m.offset - 1)

\* The packet in a buffer, if there is one.
Turn(b) == IF b THEN 1 ELSE 0

\* A WRITE with n packets in the buffers.
Sending(m, h, n) ==
    /\ StallsBefore(m, h) /\ m.in = "none" /\ m.out = "stream"
    /\ Ends(m, h) /\ h.command.op = "write" /\ m.csw.status # "FAILED"
    /\ ~h.command.in
    /\ h.moved = PacketLength * (m.offset + n)
    /\ h.phase = IF h.moved = h.command.dtl THEN "status" ELSE "data"

Writing(m, h) == Sending(m, h, Turn(m.held) + Turn(m.deferred))

\* What the status says was not moved; a WRITE that failed says less.
Residue(m, r, h) ==
    (m.csw.status = "FAILED" /\ h.command.op = "write") \/ r = h.command.dtl - h.moved

\* The status waits for the host to clear the IN endpoint.
Stalling(m, h) ==
    /\ m.in = "none" /\ m.out = "none" /\ m.halt["IN"] = "halted" /\ m.csw_on_unstall
    /\ Residue(m, m.csw.residue, h) /\ m.stall_before_csw = "none"
    /\ h.phase \in {"data", "status", "clear_in"} /\ (h.phase = "data" => h.command.in)
    /\ h.cleared <=> h.phase = "clear_in"

\* The status is ready, behind a halt of the OUT endpoint if the host still sends.
Told(m, h) ==
    /\ m.in = "csw" /\ m.out # "stream" /\ m.halt["IN"] = "none"
    /\ ~m.csw_on_unstall /\ m.stall_before_csw = "none"
    /\ m.packet.tag = h.tag /\ m.packet.status = m.csw.status
    /\ Residue(m, m.packet.residue, h)
    /\ h.phase \in {"data", "status", "clear_out"}
    /\ h.phase \in {"data", "clear_out"} => ~h.command.in /\ m.halt["OUT"] # "none"

\* The interface is at the command of the host.
Current(m, h) == h.command.op # "invalid" /\ m.csw.tag = h.tag /\ Sensed(m, h.command)

\* Where a command can be, to both ends.
Exchange(m, h) ==
    \/ h.command.op = "invalid" /\ Refused(m)
    \/ /\ Current(m, h)
       /\ Replying(m, h) \/ Reading(m, h) \/ Writing(m, h) \/ Stalling(m, h) \/ Told(m, h)

InCommand == host.phase \in {"data", "status", "clear_in", "clear_out"}

\* The host has moved data to the device.
Wrote == ~host.command.in /\ host.moved # 0

\* The host and the interface are at the same point of the same command; and once
\* data has moved to the device, no task that was given up has the current token.
Agree ==
    /\ host.phase \in BetweenCommands => Quiet(msc, host)
    /\ host.phase \in {"recover_in", "recover_out"} => msc.halt["OUT"] = "none"
    /\ InCommand => Exchange(msc, host) /\ host.tag # 0 /\ (Wrote => ~Stale)

AgreeInv == ~disk.late => Agree

-----------------------------------------------------------------------------
(***************************************************************************)
(* The end of a data phase.                                                *)
(***************************************************************************)

LEMMA SendCswDoes ==
    ASSUME NEW m \in MscState
    PROVE  LET n == SendCsw(m)
           IN  /\ n \in MscState
               /\ n.in = "csw" /\ n.packet = m.csw /\ n.csw_on_unstall = FALSE
               /\ n.csw = m.csw /\ n.out = m.out /\ n.halt = m.halt /\ n.sense = m.sense
               /\ n.stall_before_csw = m.stall_before_csw
               /\ n.token = m.token /\ n.held = m.held
  BY DEF SendCsw, MscState

LEMMA HaltDoes ==
    ASSUME NEW m \in MscState, NEW e \in Endpoints
    PROVE  LET n == Halt(m, e)
           IN  /\ n \in MscState
               /\ n.halt[e] = IF m.halt[e] = "none" THEN "halted" ELSE m.halt[e]
               /\ \A d \in Endpoints \ {e} : n.halt[d] = m.halt[d]
               /\ n.in = m.in /\ n.out = m.out /\ n.packet = m.packet
               /\ n.csw_on_unstall = m.csw_on_unstall
               /\ n.csw = m.csw /\ n.sense = m.sense
               /\ n.stall_before_csw = m.stall_before_csw
               /\ n.token = m.token /\ n.held = m.held
  BY DEF Halt, MscState

\* What the end of a data phase leaves alone.
SameCommand(n, m) ==
    /\ n \in MscState /\ n.stall_before_csw = "none"
    /\ n.csw = m.csw /\ n.sense = m.sense /\ n.out = m.out
    /\ n.token = m.token /\ n.held = m.held

LEMMA DataPhaseCompleteDoes ==
    ASSUME NEW m \in MscState
    PROVE  LET n == DataPhaseComplete(m)
           IN  /\ SameCommand(n, m)
               /\ m.stall_before_csw = "IN" =>
                     /\ n.in = m.in /\ n.csw_on_unstall = TRUE /\ n.halt["IN"] # "none"
                     /\ m.halt["IN"] = "none" => n.halt["IN"] = "halted"
                     /\ n.halt["OUT"] = m.halt["OUT"]
               /\ m.stall_before_csw # "IN" =>
                     /\ n.in = "csw" /\ n.packet = m.csw /\ n.csw_on_unstall = FALSE
                     /\ n.halt["IN"] = m.halt["IN"]
                     /\ n.halt["OUT"] = IF m.stall_before_csw = "OUT" /\ m.halt["OUT"] = "none"
                                        THEN "halted" ELSE m.halt["OUT"]
<1> DEFINE q == [m EXCEPT !.stall_before_csw = "none"]
           u == [q EXCEPT !.csw_on_unstall = TRUE]
<1>1. "IN" \in Endpoints /\ "OUT" \in Endpoints /\ "IN" # "OUT"
  BY DEF Endpoints
<1>2. /\ q \in MscState /\ q.stall_before_csw = "none"
      /\ q.csw = m.csw /\ q.sense = m.sense /\ q.out = m.out /\ q.in = m.in
      /\ q.token = m.token /\ q.held = m.held /\ q.halt = m.halt
  BY DEF MscState
<1>3. DataPhaseComplete(m) =
        CASE m.stall_before_csw = "IN"  -> Halt(u, "IN")
          [] m.stall_before_csw = "OUT" -> SendCsw(Halt(q, "OUT"))
          [] OTHER -> SendCsw(q)
  BY DEF DataPhaseComplete
<1> HIDE DEF q
<1>4. /\ u \in MscState /\ u.stall_before_csw = "none" /\ u.csw_on_unstall = TRUE
      /\ u.csw = m.csw /\ u.sense = m.sense /\ u.out = m.out /\ u.in = m.in
      /\ u.token = m.token /\ u.held = m.held /\ u.halt = m.halt
  BY <1>2 DEF MscState
<1> HIDE DEF u
<1>5. CASE m.stall_before_csw = "IN"
  <2> DEFINE n == Halt(u, "IN")
  <2>1. /\ n \in MscState
        /\ n.halt["IN"] = IF u.halt["IN"] = "none" THEN "halted" ELSE u.halt["IN"]
        /\ \A d \in Endpoints \ {"IN"} : n.halt[d] = u.halt[d]
        /\ n.in = u.in /\ n.out = u.out
        /\ n.csw_on_unstall = u.csw_on_unstall
        /\ n.csw = u.csw /\ n.sense = u.sense
        /\ n.stall_before_csw = u.stall_before_csw
        /\ n.token = u.token /\ n.held = u.held
    <3>1. u \in MscState /\ "IN" \in Endpoints
      BY <1>1, <1>4
    <3>. QED
      BY <3>1, HaltDoes
  <2>2. DataPhaseComplete(m) = n
    BY <1>3, <1>5
  <2> HIDE DEF n
  <2>3. SameCommand(n, m)
    BY <1>4, <2>1 DEF SameCommand
  <2>. QED
    BY <1>1, <1>4, <1>5, <2>1, <2>2, <2>3
<1>6. CASE m.stall_before_csw = "OUT"
  <2> DEFINE x == Halt(q, "OUT")
             n == SendCsw(x)
  <2>1. /\ x \in MscState
        /\ x.halt["OUT"] = IF q.halt["OUT"] = "none" THEN "halted" ELSE q.halt["OUT"]
        /\ \A d \in Endpoints \ {"OUT"} : x.halt[d] = q.halt[d]
        /\ x.out = q.out
        /\ x.csw = q.csw /\ x.sense = q.sense
        /\ x.stall_before_csw = q.stall_before_csw
        /\ x.token = q.token /\ x.held = q.held
    <3>1. q \in MscState /\ "OUT" \in Endpoints
      BY <1>1, <1>2
    <3>. QED
      BY <3>1, HaltDoes
  <2>2. DataPhaseComplete(m) = n
    BY <1>3, <1>6
  <2> HIDE DEF x
  <2>3. /\ n \in MscState
        /\ n.in = "csw" /\ n.packet = x.csw /\ n.csw_on_unstall = FALSE
        /\ n.csw = x.csw /\ n.out = x.out /\ n.halt = x.halt /\ n.sense = x.sense
        /\ n.stall_before_csw = x.stall_before_csw
        /\ n.token = x.token /\ n.held = x.held
    BY <2>1, SendCswDoes
  <2> HIDE DEF n
  <2>4. SameCommand(n, m)
    BY <1>2, <2>1, <2>3 DEF SameCommand
  <2>. QED
    BY <1>1, <1>2, <1>6, <2>1, <2>2, <2>3, <2>4
<1>7. CASE m.stall_before_csw \notin {"IN", "OUT"}
  <2> DEFINE n == SendCsw(q)
  <2>1. DataPhaseComplete(m) = n
    BY <1>3, <1>7
  <2>2. /\ n \in MscState
        /\ n.in = "csw" /\ n.packet = q.csw /\ n.csw_on_unstall = FALSE
        /\ n.csw = q.csw /\ n.out = q.out /\ n.halt = q.halt /\ n.sense = q.sense
        /\ n.stall_before_csw = q.stall_before_csw
        /\ n.token = q.token /\ n.held = q.held
    BY <1>2, SendCswDoes
  <2> HIDE DEF n
  <2>3. SameCommand(n, m)
    BY <1>2, <2>2 DEF SameCommand
  <2>. QED
    BY <1>2, <1>7, <2>1, <2>2, <2>3
<1>. QED
  BY <1>5, <1>6, <1>7

\* A host, of any number of commands.
HostState ==
    [phase : Phase, tag : Nat, moved : Nat, cleared : BOOLEAN, expects : Sense,
     command : CommandBlock]

LEMMA HostFields ==
    ASSUME NEW h \in HostState
    PROVE  /\ h.phase \in Phase /\ h.tag \in Nat /\ h.moved \in Nat /\ h.cleared \in BOOLEAN
           /\ h.expects \in Sense /\ h.command \in CommandBlock
           /\ h.command.dtl \in Nat /\ h.command.in \in BOOLEAN
           /\ h.command.blocks \in Nat /\ h.command.op \in Operation
  BY DEF HostState, CommandBlock

LEMMA MscFields ==
    ASSUME NEW m \in MscState
    PROVE  /\ m.offset \in Nat /\ m.length \in Nat /\ m.token \in Nat
           /\ m.csw.residue \in Int /\ m.csw.tag \in Nat /\ m.csw.status \in Status
           /\ m.held \in BOOLEAN /\ m.deferred \in BOOLEAN /\ m.csw_on_unstall \in BOOLEAN
           /\ m.sense \in Sense
<1>1. m.csw \in Csw
  BY DEF MscState
<1>2. m.csw.residue \in Int /\ m.csw.tag \in Nat /\ m.csw.status \in Status
  BY <1>1 DEF Csw
<1>. QED
  BY <1>2 DEF MscState

\* The data phase is over for the interface: with the host in its status phase,
\* or with a stall for what it still has to move.
PhaseOver(m, h) ==
    /\ m \in MscState
    /\ m.in = "none" /\ m.out = "none" /\ m.halt["IN"] = "none" /\ ~m.csw_on_unstall
    /\ Current(m, h) /\ Residue(m, m.csw.residue, h)
    /\ m.stall_before_csw \in {"none", Direction(h.command)}
    /\ h.phase \in {"data", "status"} /\ ~h.cleared
    /\ m.stall_before_csw = "none" => h.phase = "status"
    /\ h \in HostState

LEMMA PhaseOverAgrees ==
    ASSUME NEW m, NEW h, PhaseOver(m, h)
    PROVE  Exchange(DataPhaseComplete(m), h)
<1> DEFINE n == DataPhaseComplete(m)
<1>1. m \in MscState /\ m.csw \in Csw
  BY DEF PhaseOver, MscState
<1>2. /\ SameCommand(n, m)
      /\ m.stall_before_csw = "IN" =>
            /\ n.in = m.in /\ n.csw_on_unstall = TRUE /\ n.halt["IN"] # "none"
            /\ m.halt["IN"] = "none" => n.halt["IN"] = "halted"
            /\ n.halt["OUT"] = m.halt["OUT"]
      /\ m.stall_before_csw # "IN" =>
            /\ n.in = "csw" /\ n.packet = m.csw /\ n.csw_on_unstall = FALSE
            /\ n.halt["IN"] = m.halt["IN"]
            /\ n.halt["OUT"] = IF m.stall_before_csw = "OUT" /\ m.halt["OUT"] = "none"
                               THEN "halted" ELSE m.halt["OUT"]
  BY <1>1, DataPhaseCompleteDoes
<1> HIDE DEF n
<1>3. /\ n.csw = m.csw /\ n.csw.tag = h.tag /\ Current(n, h)
      /\ \A r : Residue(m, r, h) <=> Residue(n, r, h)
  BY <1>2 DEF PhaseOver, SameCommand, Current, Sensed, Residue
<1>4. CASE m.stall_before_csw = "IN"
  <2>1. h.command.in
    BY <1>4 DEF PhaseOver, Direction
  <2>2. Stalling(n, h)
    BY <1>2, <1>3, <1>4, <2>1 DEF PhaseOver, SameCommand, Stalling
  <2>. QED
    BY <1>3, <2>2 DEF Exchange, PhaseOver, n
<1>5. CASE m.stall_before_csw # "IN"
  <2>1. m.stall_before_csw = "OUT" => n.halt["OUT"] # "none"
    BY <1>2
  <2>2. h.command.in \in BOOLEAN
    BY HostFields DEF PhaseOver
  <2>3. h.phase = "data" => m.stall_before_csw = "OUT" /\ ~h.command.in
    BY <1>5, <2>2 DEF PhaseOver, Direction
  <2>4. Told(n, h)
    BY <1>2, <1>3, <1>5, <2>1, <2>3 DEF PhaseOver, SameCommand, Told
  <2>. QED
    BY <1>3, <2>4 DEF Exchange, PhaseOver, n
<1>. QED
  BY <1>4, <1>5

-----------------------------------------------------------------------------
(***************************************************************************)
(* The data phase, packet by packet.                                       *)
(***************************************************************************)

\* What Moved does to a host.
Advanced(h, n) ==
    [h EXCEPT !.moved = @ + n,
              !.phase = IF n < PacketLength \/ h.moved + n = h.command.dtl
                        THEN "status" ELSE @]

LEMMA AdvancedDoes ==
    ASSUME NEW h \in HostState, NEW n \in Nat
    PROVE  LET a == Advanced(h, n)
           IN  /\ a \in HostState
               /\ a.moved = h.moved + n
               /\ a.phase = IF n < PacketLength \/ h.moved + n = h.command.dtl
                            THEN "status" ELSE h.phase
               /\ a.tag = h.tag /\ a.cleared = h.cleared /\ a.expects = h.expects
               /\ a.command = h.command
<1> DEFINE p == IF n < PacketLength \/ h.moved + n = h.command.dtl THEN "status" ELSE h.phase
           x == h.moved + n
<1>1. p \in Phase /\ x \in Nat
  BY DEF HostState, Phase
<1>2. Advanced(h, n) = [h EXCEPT !.moved = x, !.phase = p]
  BY DEF Advanced, HostState
<1> HIDE DEF p, x
<1>3. /\ [h EXCEPT !.moved = x, !.phase = p] \in HostState
      /\ [h EXCEPT !.moved = x, !.phase = p].moved = x
      /\ [h EXCEPT !.moved = x, !.phase = p].phase = p
      /\ [h EXCEPT !.moved = x, !.phase = p].tag = h.tag
      /\ [h EXCEPT !.moved = x, !.phase = p].cleared = h.cleared
      /\ [h EXCEPT !.moved = x, !.phase = p].expects = h.expects
      /\ [h EXCEPT !.moved = x, !.phase = p].command = h.command
  BY <1>1 DEF HostState
<1>. QED
  BY <1>2, <1>3 DEF p, x

\* The host takes the reply, and its data phase ends.
LEMMA ReplyTakenAgrees ==
    ASSUME NEW m, MscFits(m), NEW h \in HostState, Exchange(m, h), m.in = "reply"
    PROVE  Exchange(DataPhaseComplete([m EXCEPT !.in = "none"]), Advanced(h, m.packet.length))
<1> DEFINE x == [m EXCEPT !.in = "none"]
           a == Advanced(h, m.packet.length)
<1>1. Replying(m, h) /\ Current(m, h)
  BY DEF Exchange, Refused, Reading, Sending, Writing, Stalling, Told
<1>2. m \in MscState /\ m.packet.length \in Nat
  BY DEF MscFits
<1>3. /\ a \in HostState
      /\ a.moved = h.moved + m.packet.length
      /\ a.phase = "status"
      /\ a.tag = h.tag /\ a.cleared = h.cleared
      /\ a.command = h.command
  BY <1>1, <1>2, AdvancedDoes DEF Replying
<1>4. /\ x \in MscState /\ x.in = "none" /\ x.out = m.out /\ x.halt = m.halt
      /\ x.csw_on_unstall = m.csw_on_unstall /\ x.csw = m.csw /\ x.sense = m.sense
      /\ x.stall_before_csw = m.stall_before_csw
  BY <1>2 DEF MscState
<1>5. m.csw.residue = a.command.dtl - a.moved
  BY <1>1, <1>2, <1>3 DEF Replying
<1> HIDE DEF x, a
<1>6. Current(x, a)
  BY <1>1, <1>3, <1>4 DEF Current, Sensed
<1>7. PhaseOver(x, a)
  BY <1>1, <1>3, <1>4, <1>5, <1>6 DEF PhaseOver, Replying, StallsBefore, Residue
<1>. QED
  BY <1>7, PhaseOverAgrees DEF x, a

\* The fields that PacketComplete leaves alone.
LEMMA PacketCompleteDoes ==
    ASSUME NEW m \in MscState
    PROVE  LET n == PacketComplete(m)
           IN  /\ n \in MscState
               /\ n.csw.tag = m.csw.tag /\ n.csw.status = m.csw.status
               /\ n.csw.residue = m.csw.residue - PacketLength
               /\ n.offset = m.offset + 1 /\ n.length = m.length
               /\ n.held = FALSE /\ n.deferred = m.deferred
               /\ n.in = m.in /\ n.out = m.out /\ n.halt = m.halt /\ n.token = m.token
               /\ n.sense = m.sense /\ n.packet = m.packet
               /\ n.csw_on_unstall = m.csw_on_unstall
               /\ n.stall_before_csw = m.stall_before_csw
<1> DEFINE k == [m.csw EXCEPT !.residue = @ - PacketLength]
           o == m.offset + 1
<1>1. m.csw \in Csw /\ m.csw.residue - PacketLength \in Int /\ o \in Nat
  BY DEF MscState, Csw, PacketLength
<1>2. /\ k \in Csw /\ k.tag = m.csw.tag /\ k.status = m.csw.status
      /\ k.residue = m.csw.residue - PacketLength
  BY <1>1 DEF Csw
<1>3. PacketComplete(m) = [m EXCEPT !.offset = o, !.csw = k, !.held = FALSE]
  BY DEF PacketComplete, MscState
<1> HIDE DEF k, o
<1> DEFINE n == [m EXCEPT !.offset = o, !.csw = k, !.held = FALSE]
<1>4. /\ n \in MscState /\ n.csw = k /\ n.offset = o /\ n.length = m.length
      /\ n.held = FALSE /\ n.deferred = m.deferred
      /\ n.in = m.in /\ n.out = m.out /\ n.halt = m.halt /\ n.token = m.token
      /\ n.sense = m.sense /\ n.packet = m.packet
      /\ n.csw_on_unstall = m.csw_on_unstall
      /\ n.stall_before_csw = m.stall_before_csw
  BY <1>1, <1>2 DEF MscState
<1> HIDE DEF n
<1>. QED
  BY <1>2, <1>3, <1>4 DEF n, o

\* The host takes a packet of a READ.
LEMMA PacketTakenAgrees ==
    ASSUME NEW m, MscFits(m), NEW h \in HostState, Exchange(m, h), m.in = "stream"
    PROVE  Exchange(IF m.offset = m.length THEN DataPhaseComplete([m EXCEPT !.in = "none"])
                    ELSE FillPacket(m), Advanced(h, PacketLength))
<1> DEFINE a == Advanced(h, PacketLength)
<1>1. Reading(m, h) /\ Current(m, h)
  BY DEF Exchange, Refused, Replying, Sending, Writing, Stalling, Told
<1>2. m \in MscState /\ m.offset \in Nat /\ m.length \in Nat /\ m.csw.residue \in Int
      /\ m.offset <= m.length /\ h.command.dtl \in Nat /\ m.token \in Nat
  BY MscFields, HostFields DEF MscFits
<1>3. /\ a \in HostState
      /\ a.moved = h.moved + PacketLength
      /\ a.phase = IF h.moved + PacketLength = h.command.dtl THEN "status" ELSE h.phase
      /\ a.tag = h.tag /\ a.cleared = h.cleared
      /\ a.command = h.command
  <2>1. PacketLength \in Nat /\ ~(PacketLength < PacketLength)
    BY DEF PacketLength
  <2>. QED
    BY <2>1, AdvancedDoes
<1>4. a.moved = PacketLength * m.offset
  BY <1>1, <1>2, <1>3 DEF Reading, PacketLength
<1>5. h.phase = "data" /\ a.phase = IF a.moved = a.command.dtl THEN "status" ELSE "data"
  BY <1>1, <1>3 DEF Reading
<1> HIDE DEF a
<1>6. CASE m.offset = m.length
  <2> DEFINE x == [m EXCEPT !.in = "none"]
  <2>1. /\ x \in MscState /\ x.in = "none" /\ x.out = m.out /\ x.halt = m.halt
        /\ x.csw_on_unstall = m.csw_on_unstall /\ x.csw = m.csw /\ x.sense = m.sense
        /\ x.stall_before_csw = m.stall_before_csw
    BY <1>2 DEF MscState
  <2>2. Residue(m, m.csw.residue, a)
    BY <1>1, <1>3, <1>4 DEF Reading, Ends, Residue
  <2>3. m.stall_before_csw = "none" => a.phase = "status"
    BY <1>1, <1>3, <1>4, <1>5, <1>6 DEF Reading, Ends
  <2> HIDE DEF x
  <2>4. Current(x, a) /\ Residue(x, x.csw.residue, a)
    BY <1>1, <1>3, <2>1, <2>2 DEF Current, Sensed, Residue
  <2>5. PhaseOver(x, a)
    BY <1>1, <1>3, <1>5, <2>1, <2>3, <2>4 DEF PhaseOver, Reading, StallsBefore
  <2>. QED
    BY <1>6, <2>5, PhaseOverAgrees DEF x, a
<1>7. CASE m.offset # m.length
  <2> DEFINE t == IF m.offset % SectorPackets = 0 THEN m.token + 1 ELSE m.token
             s == [m EXCEPT !.token = t]
             n == PacketComplete(s)
  <2>1. t \in Nat
    BY <1>2
  <2>2. FillPacket(m) = n
    BY DEF FillPacket
  <2> HIDE DEF t
  <2>3. /\ s \in MscState /\ s.csw = m.csw /\ s.offset = m.offset /\ s.length = m.length
        /\ s.in = m.in /\ s.out = m.out /\ s.halt = m.halt /\ s.sense = m.sense
        /\ s.csw_on_unstall = m.csw_on_unstall
        /\ s.stall_before_csw = m.stall_before_csw
    BY <1>2, <2>1 DEF MscState
  <2> HIDE DEF s
  <2>4. /\ n.csw.tag = s.csw.tag /\ n.csw.status = s.csw.status
        /\ n.csw.residue = s.csw.residue - PacketLength
        /\ n.offset = s.offset + 1 /\ n.length = s.length
        /\ n.in = s.in /\ n.out = s.out /\ n.halt = s.halt
        /\ n.sense = s.sense
        /\ n.csw_on_unstall = s.csw_on_unstall
        /\ n.stall_before_csw = s.stall_before_csw
    BY <2>3, PacketCompleteDoes
  <2> HIDE DEF n
  <2>5. Ends(n, a)
    BY <1>1, <1>2, <1>3, <2>3, <2>4 DEF Reading, Ends, PacketLength
  <2>6. a.moved # a.command.dtl
    BY <1>1, <1>2, <1>3, <1>4, <1>7 DEF Reading, Ends, PacketLength
  <2>7. a.moved = PacketLength * (n.offset - 1)
    BY <1>2, <1>4, <2>3, <2>4 DEF PacketLength
  <2>8. StallsBefore(n, a)
    BY <1>1, <1>3, <2>3, <2>4 DEF Reading, StallsBefore
  <2>9. Reading(n, a)
    BY <1>1, <1>3, <1>5, <2>3, <2>4, <2>5, <2>6, <2>7, <2>8 DEF Reading
  <2>10. Current(n, a)
    BY <1>1, <1>3, <2>3, <2>4 DEF Current, Sensed
  <2>. QED
    BY <1>7, <2>2, <2>9, <2>10 DEF Exchange, a
<1>. QED
  BY <1>6, <1>7

\* A packet of a WRITE is done with: the data phase ends with the last one, and
\* otherwise n packets are left in the buffers.
LEMMA DonePacketAgrees ==
    ASSUME NEW m, MscFits(m), NEW h \in HostState,
           Current(m, h), Sending(m, h, 1 + Turn(m.deferred))
    PROVE  LET d == DonePacket(m)
           IN  IF d.deferred THEN d \in MscState /\ Current(d, h) /\ Sending(d, h, 1)
               ELSE Exchange(d, h)
<1> DEFINE n == PacketComplete(m)
<1>1. m \in MscState /\ m.offset \in Nat /\ m.length \in Nat /\ m.csw.residue \in Int
      /\ m.offset < m.length /\ h.command.dtl \in Nat
      /\ (m.deferred => m.offset + 1 < m.length) /\ m.deferred \in BOOLEAN
  BY MscFields, HostFields DEF MscFits, Sending
<1>2. /\ n \in MscState
      /\ n.csw.tag = m.csw.tag /\ n.csw.status = m.csw.status
      /\ n.csw.residue = m.csw.residue - PacketLength
      /\ n.offset = m.offset + 1 /\ n.length = m.length
      /\ n.held = FALSE /\ n.deferred = m.deferred
      /\ n.in = m.in /\ n.out = m.out /\ n.halt = m.halt
      /\ n.sense = m.sense
      /\ n.csw_on_unstall = m.csw_on_unstall
      /\ n.stall_before_csw = m.stall_before_csw
  BY <1>1, PacketCompleteDoes
<1>3. DonePacket(m) = IF n.offset = n.length THEN DataPhaseComplete([n EXCEPT !.out = "none"])
                      ELSE n
  <2>1. n.halt["OUT"] = "none"
    BY <1>2 DEF Sending, StallsBefore
  <2>. QED
    BY <2>1 DEF DonePacket
<1> HIDE DEF n
<1>4. Current(n, h) /\ StallsBefore(n, h)
  BY <1>2 DEF Current, Sensed, Sending, StallsBefore
<1>5. Ends(n, h)
  BY <1>1, <1>2 DEF Sending, Ends, PacketLength
<1>6. h.moved = PacketLength * (n.offset + Turn(n.deferred))
  <2>1. h.moved = PacketLength * (m.offset + (1 + Turn(m.deferred)))
    BY DEF Sending
  <2>2. Turn(m.deferred) \in Nat
    BY DEF Turn
  <2>. QED
    BY <1>1, <1>2, <2>1, <2>2 DEF PacketLength
<1>7. CASE n.offset = n.length
  <2> DEFINE x == [n EXCEPT !.out = "none"]
  <2>1. /\ x \in MscState /\ x.in = n.in /\ x.out = "none" /\ x.halt = n.halt
        /\ x.csw_on_unstall = n.csw_on_unstall /\ x.csw = n.csw /\ x.sense = n.sense
        /\ x.stall_before_csw = n.stall_before_csw /\ x.deferred = n.deferred
    BY <1>2 DEF MscState
  <2>2. n.deferred = FALSE
    BY <1>1, <1>2, <1>7
  <2>3. h.moved = PacketLength * n.length
    BY <1>1, <1>2, <1>6, <1>7, <2>2 DEF Turn, PacketLength
  <2>4. n.stall_before_csw = "none" => h.phase = "status"
    BY <1>5, <2>3 DEF Ends, Sending
  <2>5. Residue(n, n.csw.residue, h)
    BY <1>5, <1>7, <2>3 DEF Ends, Residue
  <2> HIDE DEF x
  <2>6. Current(x, h) /\ Residue(x, x.csw.residue, h)
    BY <1>4, <2>1, <2>5 DEF Current, Sensed, Residue
  <2>7. h.phase \in {"data", "status"}
    BY DEF Sending
  <2>8. PhaseOver(x, h)
    BY <1>2, <1>4, <2>1, <2>4, <2>6, <2>7 DEF PhaseOver, Sending, StallsBefore
  <2>9. Exchange(DataPhaseComplete(x), h)
    BY <2>8, PhaseOverAgrees
  <2>10. DataPhaseComplete(x).deferred = FALSE
    <3>1. DataPhaseComplete(x).deferred = x.deferred
      BY <2>1 DEF DataPhaseComplete, SendCsw, Halt, MscState
    <3>. QED
      BY <2>1, <2>2, <3>1
  <2>. QED
    BY <1>3, <1>7, <2>9, <2>10 DEF x
<1>8. CASE n.offset # n.length
  <2>1. Sending(n, h, Turn(n.deferred))
    BY <1>2, <1>4, <1>5, <1>6 DEF Sending
  <2>2. CASE n.deferred
    BY <1>2, <1>3, <1>4, <1>8, <2>1, <2>2 DEF Turn
  <2>3. CASE ~n.deferred
    <3>1. Turn(n.held) + Turn(n.deferred) = Turn(n.deferred)
      BY <1>2, <2>3 DEF Turn
    <3>2. Writing(n, h)
      BY <2>1, <3>1 DEF Writing
    <3>. QED
      BY <1>3, <1>4, <1>8, <2>3, <3>2 DEF Exchange
  <2>. QED
    BY <2>2, <2>3
<1>. QED
  BY <1>7, <1>8

\* A packet received is done with at once, or kept for its task.
LEMMA TakePacketAgrees ==
    ASSUME NEW m, MscFits(m), NEW h \in HostState, m.held = FALSE, NEW async \in BOOLEAN,
           Current(m, h), Sending(m, h, 1)
    PROVE  Exchange(TakePacket(m, async), h)
<1>1. m \in MscState /\ m.deferred = FALSE /\ m.token \in Nat
  BY MscFields DEF MscFits
<1>2. ASSUME NEW n, MscFits(n), n.deferred = FALSE, Current(n, h), Sending(n, h, 1)
      PROVE  Exchange(DonePacket(n), h)
  <2>1. 1 + Turn(n.deferred) = 1
    BY <1>2 DEF Turn
  <2>2. IF DonePacket(n).deferred
        THEN DonePacket(n) \in MscState /\ Current(DonePacket(n), h) /\ Sending(DonePacket(n), h, 1)
        ELSE Exchange(DonePacket(n), h)
    BY <1>2, <2>1, DonePacketAgrees
  <2>3. DonePacket(n).deferred => n.deferred
    BY <1>2, DonePacketFits DEF Sending
  <2>. QED
    BY <1>2, <2>2, <2>3
<1>3. CASE ~EndsChunk(m)
  <2>1. TakePacket(m, async) = DonePacket(m)
    BY <1>3 DEF TakePacket
  <2>. QED
    BY <1>1, <1>2, <2>1
<1>4. CASE EndsChunk(m)
  <2> DEFINE n == [m EXCEPT !.token = @ + 1]
             k == [n EXCEPT !.held = TRUE]
  <2>1. TakePacket(m, async) = IF async THEN k ELSE DonePacket(n)
    BY <1>4 DEF TakePacket
  <2>2. MscFits(n) /\ n.deferred = FALSE /\ n \in MscState /\ n.csw = m.csw
        /\ n.stall_before_csw = m.stall_before_csw /\ n.csw_on_unstall = m.csw_on_unstall
        /\ n.halt = m.halt /\ n.in = m.in /\ n.out = m.out /\ n.sense = m.sense
        /\ n.length = m.length /\ n.offset = m.offset
    BY <1>1 DEF MscFits, MscState, Sending
  <2> HIDE DEF n
  <2>3. Current(n, h) /\ Sending(n, h, 1)
    BY <2>2 DEF Current, Sensed, Sending, StallsBefore, Ends
  <2>4. k.deferred = FALSE /\ k.held = TRUE /\ k.csw = n.csw
        /\ k.stall_before_csw = n.stall_before_csw /\ k.csw_on_unstall = n.csw_on_unstall
        /\ k.halt = n.halt /\ k.in = n.in /\ k.out = n.out /\ k.sense = n.sense
        /\ k.length = n.length /\ k.offset = n.offset
    BY <2>2 DEF MscState
  <2> HIDE DEF k
  <2>5. Current(k, h) /\ Sending(k, h, 1)
    BY <2>3, <2>4 DEF Current, Sensed, Sending, StallsBefore, Ends
  <2>6. Turn(k.held) + Turn(k.deferred) = 1
    BY <2>4 DEF Turn
  <2>7. Exchange(k, h)
    BY <2>5, <2>6 DEF Exchange, Writing
  <2>8. Exchange(DonePacket(n), h)
    BY <1>2, <2>2, <2>3
  <2>. QED
    BY <2>1, <2>7, <2>8
<1>. QED
  BY <1>3, <1>4

\* The task of a packet has ended well, and the other buffer follows.
LEMMA PacketEndsAgrees ==
    ASSUME NEW m, MscFits(m), NEW h \in HostState, m.held, NEW async \in BOOLEAN,
           Exchange(m, h)
    PROVE  Exchange(TakeDeferred(DonePacket(m), async), h)
<1> DEFINE d == DonePacket(m)
           e == [d EXCEPT !.deferred = FALSE]
<1>1. m.out = "stream" /\ m.deferred \in BOOLEAN /\ m.held \in BOOLEAN
  BY MscFields DEF MscFits
<1>2. Writing(m, h) /\ Current(m, h)
  BY <1>1 DEF Exchange, Refused, Replying, Reading, Stalling, Told
<1>3. Turn(m.held) + Turn(m.deferred) = 1 + Turn(m.deferred)
  BY <1>1 DEF Turn
<1>4. IF d.deferred THEN d \in MscState /\ Current(d, h) /\ Sending(d, h, 1)
      ELSE Exchange(d, h)
  BY <1>2, <1>3, DonePacketAgrees DEF Writing
<1>5. MscFits(e) /\ d.held = FALSE
  BY <1>1, DonePacketFits
<1> HIDE DEF d
<1>6. CASE ~d.deferred
  BY <1>4, <1>6 DEF TakeDeferred, d
<1>7. CASE d.deferred
  <2>1. e.held = d.held /\ e.csw = d.csw /\ e.stall_before_csw = d.stall_before_csw
        /\ e.csw_on_unstall = d.csw_on_unstall /\ e.sense = d.sense
        /\ e.halt = d.halt /\ e.in = d.in /\ e.out = d.out
        /\ e.length = d.length /\ e.offset = d.offset
    BY <1>4, <1>7 DEF MscState
  <2>2. TakeDeferred(DonePacket(m), async) = TakePacket(e, async)
    BY <1>7 DEF TakeDeferred, d
  <2> HIDE DEF e
  <2>3. Current(e, h) /\ Sending(e, h, 1)
    BY <1>4, <1>7, <2>1 DEF Current, Sensed, Sending, StallsBefore, Ends
  <2>. QED
    BY <1>5, <2>1, <2>2, <2>3, TakePacketAgrees
<1>. QED
  BY <1>6, <1>7

\* The task of a packet has failed: the status that tells so follows a halt.
LEMMA ErrorEndsAgrees ==
    ASSUME NEW m, MscFits(m), NEW h \in HostState, m.held, NEW async \in BOOLEAN,
           Exchange(m, h)
    PROVE  Exchange(TakeDeferred(DonePacket(ErrorEnds(m)), async), h)
<1> DEFINE s == [m EXCEPT !.csw.status = "FAILED", !.sense = "DATA_PROTECT",
                          !.stall_before_csw = "OUT"]
           e == ErrorEnds(m)
           n == PacketComplete(e)
           d == [n EXCEPT !.out = "none", !.deferred = FALSE]
<1>1. m.out = "stream" /\ m \in MscState /\ m.csw \in Csw
  BY DEF MscFits, MscState
<1>2. Writing(m, h) /\ Current(m, h)
  BY <1>1 DEF Exchange, Refused, Replying, Reading, Stalling, Told
<1>3. /\ s \in MscState /\ s.stall_before_csw = "OUT" /\ s.sense = "DATA_PROTECT"
      /\ s.csw.tag = m.csw.tag /\ s.csw.status = "FAILED" /\ s.halt = m.halt
  BY <1>1 DEF MscState, Csw, Endpoints, Status, Sense
<1>4. e = DataPhaseComplete(s)
  BY DEF ErrorEnds
<1> HIDE DEF s, e
<1>5. /\ SameCommand(e, s)
      /\ e.in = "csw" /\ e.packet = s.csw /\ e.csw_on_unstall = FALSE
      /\ e.halt["IN"] = s.halt["IN"] /\ e.halt["OUT"] # "none"
  BY <1>3, <1>4, DataPhaseCompleteDoes
<1>6. e \in MscState /\ e.csw = s.csw /\ e.sense = s.sense /\ e.stall_before_csw = "none"
  BY <1>5 DEF SameCommand
<1>7. /\ n \in MscState
      /\ n.csw.tag = e.csw.tag /\ n.csw.status = e.csw.status
      /\ n.in = e.in /\ n.halt = e.halt
      /\ n.sense = e.sense /\ n.packet = e.packet
      /\ n.csw_on_unstall = e.csw_on_unstall
      /\ n.stall_before_csw = e.stall_before_csw
  BY <1>6, PacketCompleteDoes
<1>8. TakeDeferred(DonePacket(e), async) = d
  <2>1. DonePacket(e) = d
    BY <1>5, <1>7 DEF DonePacket
  <2>2. d.deferred = FALSE
    BY <1>7 DEF MscState
  <2>. QED
    BY <2>1, <2>2 DEF TakeDeferred
<1> HIDE DEF n
<1>9. /\ d.csw = n.csw /\ d.in = n.in /\ d.out = "none" /\ d.halt = n.halt
      /\ d.sense = n.sense /\ d.packet = n.packet
      /\ d.csw_on_unstall = n.csw_on_unstall
      /\ d.stall_before_csw = n.stall_before_csw
  BY <1>7 DEF MscState
<1> HIDE DEF d
<1>10. /\ h.command.op = "write" /\ ~h.command.in /\ m.halt["IN"] = "none"
       /\ h.phase \in {"data", "status"}
  BY <1>2 DEF Writing, Sending, StallsBefore
<1>11. Current(d, h)
  BY <1>2, <1>3, <1>6, <1>7, <1>9, <1>10 DEF Current, Sensed, Reason
<1>12. Told(d, h)
  BY <1>2, <1>3, <1>5, <1>6, <1>7, <1>9, <1>10 DEF Told, Residue, Current
<1>. QED
  BY <1>8, <1>11, <1>12 DEF Exchange, e

\* The host sends a packet, to a free buffer or to the one behind a packet kept.
LEMMA PacketSentAgrees ==
    ASSUME NEW m, MscFits(m), NEW h \in HostState, m.out = "stream", h.phase = "data",
           Exchange(m, h), NEW async \in BOOLEAN
    PROVE  /\ ~m.held => Exchange(TakePacket(m, async), Advanced(h, PacketLength))
           /\ m.held /\ ~m.deferred =>
                 Exchange([m EXCEPT !.deferred = TRUE], Advanced(h, PacketLength))
<1> DEFINE a == Advanced(h, PacketLength)
<1>1. m \in MscState /\ m.deferred \in BOOLEAN /\ m.held \in BOOLEAN /\ m.offset \in Nat
      /\ (m.deferred => m.held)
  BY MscFields DEF MscFits
<1>2. Writing(m, h) /\ Current(m, h)
  BY DEF Exchange, Refused, Replying, Reading, Stalling, Told
<1>3. /\ a \in HostState
      /\ a.moved = h.moved + PacketLength
      /\ a.phase = IF h.moved + PacketLength = h.command.dtl THEN "status" ELSE h.phase
      /\ a.tag = h.tag /\ a.cleared = h.cleared
      /\ a.command = h.command
  <2>1. PacketLength \in Nat /\ ~(PacketLength < PacketLength)
    BY DEF PacketLength
  <2>. QED
    BY <2>1, AdvancedDoes
<1> HIDE DEF a
<1>4. Current(m, a)
  BY <1>2, <1>3 DEF Current, Sensed
<1>5. Sending(m, a, 1 + (Turn(m.held) + Turn(m.deferred)))
  <2>1. Turn(m.held) + Turn(m.deferred) \in Nat
    BY DEF Turn
  <2>2. h.moved = PacketLength * (m.offset + (Turn(m.held) + Turn(m.deferred)))
    BY <1>2 DEF Writing, Sending
  <2>3. a.moved = PacketLength * (m.offset + (1 + (Turn(m.held) + Turn(m.deferred))))
    <3>1. ASSUME NEW x \in Nat, NEW y \in Nat
          PROVE  PacketLength * (x + y) + PacketLength = PacketLength * (x + (1 + y))
      BY DEF PacketLength
    <3>2. a.moved = h.moved + PacketLength
      BY <1>3
    <3>. QED
      BY <1>1, <2>1, <2>2, <3>1, <3>2
  <2>4. Ends(m, a) /\ StallsBefore(m, a)
    BY <1>2, <1>3 DEF Writing, Sending, StallsBefore, Ends
  <2>. QED
    BY <1>2, <1>3, <2>3, <2>4 DEF Writing, Sending
<1>6. ASSUME ~m.held PROVE Exchange(TakePacket(m, async), a)
  <2>1. 1 + (Turn(m.held) + Turn(m.deferred)) = 1
    BY <1>1, <1>6 DEF Turn
  <2>2. Sending(m, a, 1)
    BY <1>5, <2>1
  <2>. QED
    BY <1>1, <1>3, <1>4, <1>6, <2>2, TakePacketAgrees
<1>7. ASSUME m.held, ~m.deferred PROVE Exchange([m EXCEPT !.deferred = TRUE], a)
  <2> DEFINE k == [m EXCEPT !.deferred = TRUE]
  <2>1. k.deferred = TRUE /\ k.held = m.held /\ k.csw = m.csw
        /\ k.stall_before_csw = m.stall_before_csw /\ k.csw_on_unstall = m.csw_on_unstall
        /\ k.halt = m.halt /\ k.in = m.in /\ k.out = m.out /\ k.sense = m.sense
        /\ k.length = m.length /\ k.offset = m.offset
    BY <1>1 DEF MscState
  <2>2. 1 + (Turn(m.held) + Turn(m.deferred)) = Turn(k.held) + Turn(k.deferred)
    BY <1>7, <2>1 DEF Turn
  <2>3. Sending(m, a, Turn(k.held) + Turn(k.deferred))
    BY <1>5, <2>2
  <2> HIDE DEF k
  <2>4. Sending(k, a, Turn(k.held) + Turn(k.deferred))
    BY <2>1, <2>3 DEF Sending, StallsBefore, Ends
  <2>5. Current(k, a)
    BY <1>4, <2>1 DEF Current, Sensed
  <2>. QED
    BY <2>4, <2>5 DEF Exchange, Writing, k
<1>. QED
  BY <1>6, <1>7 DEF a

-----------------------------------------------------------------------------
(***************************************************************************)
(* Commands.                                                               *)
(***************************************************************************)

\* A command before its data phase, with nothing wrong so far.
Begun(m, h) ==
    /\ m \in MscState /\ h \in HostState
    /\ m.in = "none" /\ m.out = "none" /\ ~m.csw_on_unstall
    /\ m.halt["IN"] = "none" /\ m.halt["OUT"] = "none"
    /\ m.csw.residue = h.command.dtl /\ ~m.held /\ ~m.deferred
    /\ Current(m, h)
    /\ h.moved = 0 /\ ~h.cleared /\ h.phase = IF h.command.dtl # 0 THEN "data" ELSE "status"

LEMMA NoDataAgrees ==
    ASSUME NEW m, NEW h, Begun(m, h)
    PROVE  Exchange(NoData(m, h.command), h)
<1> DEFINE s == [m EXCEPT !.stall_before_csw =
                     IF h.command.dtl # 0 THEN Direction(h.command) ELSE "none"]
<1>1. m \in MscState /\ Direction(h.command) \in Endpoints /\ h.command.dtl \in Nat
  BY HostFields DEF Begun, Direction, Endpoints
<1>2. /\ s \in MscState /\ s.in = m.in /\ s.out = m.out /\ s.halt = m.halt
      /\ s.csw_on_unstall = m.csw_on_unstall /\ s.csw = m.csw /\ s.sense = m.sense
      /\ s.stall_before_csw = IF h.command.dtl # 0 THEN Direction(h.command) ELSE "none"
  BY <1>1 DEF MscState
<1>3. Residue(m, m.csw.residue, h)
  BY <1>1 DEF Begun, Residue
<1>4. NoData(m, h.command) = DataPhaseComplete(s)
  BY DEF NoData
<1> HIDE DEF s
<1>5. Current(s, h) /\ Residue(s, s.csw.residue, h)
  BY <1>2, <1>3 DEF Current, Sensed, Residue, Begun
<1>6. h.phase \in {"data", "status"} /\ (s.stall_before_csw = "none" => h.phase = "status")
  BY <1>1, <1>2 DEF Begun, Endpoints
<1>7. PhaseOver(s, h)
  BY <1>2, <1>5, <1>6 DEF PhaseOver, Begun
<1>. QED
  BY <1>4, <1>7, PhaseOverAgrees

LEMMA FailAgrees ==
    ASSUME NEW m, NEW h, Begun(m, h)
    PROVE  Exchange(Fail(m, h.command, Reason(h.command)), h)
<1> DEFINE k == [m.csw EXCEPT !.status = "FAILED"]
           n == [m EXCEPT !.csw = k, !.sense = Reason(h.command)]
<1>1. m \in MscState /\ m.csw \in Csw /\ Reason(h.command) \in Sense
  BY DEF Begun, MscState, Reason, Sense
<1>2. k \in Csw /\ k.status = "FAILED" /\ k.tag = m.csw.tag /\ k.residue = m.csw.residue
  BY <1>1 DEF Csw, Status
<1>3. Fail(m, h.command, Reason(h.command)) = NoData(n, h.command)
  BY DEF Fail
<1> HIDE DEF k
<1>4. /\ n \in MscState /\ n.in = m.in /\ n.out = m.out /\ n.halt = m.halt
      /\ n.csw_on_unstall = m.csw_on_unstall /\ n.csw = k /\ n.sense = Reason(h.command)
      /\ n.held = m.held /\ n.deferred = m.deferred
  BY <1>1, <1>2 DEF MscState
<1> HIDE DEF n
<1>5. Current(n, h)
  BY <1>2, <1>4 DEF Begun, Current, Sensed
<1>6. Begun(n, h)
  BY <1>2, <1>4, <1>5 DEF Begun
<1>. QED
  BY <1>3, <1>6, NoDataAgrees

\* What the data phase is to be: it stalls unless both ends want the same.
LEMMA WithDataAgrees ==
    ASSUME NEW m, NEW h, Begun(m, h), m.csw.status # "FAILED",
           NEW expected \in Nat, NEW dir \in Endpoints
    PROVE  LET w == WithData(m, h.command, expected, dir)
           IN  /\ Begun(w, h) /\ w.csw.status # "FAILED" /\ w.token = m.token
               /\ w.stall_before_csw \in {"none", Direction(h.command)}
               /\ w.stall_before_csw = "none" =>
                     Direction(h.command) = dir /\ expected = h.command.dtl
<1> DEFINE c == h.command
           stall == IF Direction(c) # dir \/ expected # c.dtl THEN Direction(c) ELSE "none"
           status == IF Direction(c) # dir \/ expected > c.dtl THEN "PHASE_ERROR"
                     ELSE m.csw.status
           k == [m.csw EXCEPT !.status = status]
           w == [m EXCEPT !.stall_before_csw = stall, !.csw = k]
<1>1. m \in MscState /\ m.csw \in Csw /\ Direction(c) \in Endpoints
  BY DEF Begun, MscState, Direction, Endpoints
<1>2. stall \in Endpoints \cup {"none"} /\ status \in Status /\ status # "FAILED"
  BY <1>1, MscFields DEF Status
<1>3. WithData(m, c, expected, dir) = w
  BY DEF WithData
<1>4. stall \in {"none", Direction(c)}
      /\ (stall = "none" => Direction(c) = dir /\ expected = c.dtl)
  BY <1>1 DEF Endpoints
<1> HIDE DEF stall, status
<1>5. k \in Csw /\ k.status = status /\ k.tag = m.csw.tag /\ k.residue = m.csw.residue
  BY <1>1, <1>2 DEF Csw
<1> HIDE DEF k
<1>6. /\ w \in MscState /\ w.in = m.in /\ w.out = m.out /\ w.halt = m.halt
      /\ w.csw_on_unstall = m.csw_on_unstall /\ w.csw = k /\ w.sense = m.sense
      /\ w.held = m.held /\ w.deferred = m.deferred /\ w.token = m.token
      /\ w.stall_before_csw = stall
  BY <1>1, <1>2, <1>5 DEF MscState
<1> HIDE DEF w
<1>7. Current(w, h)
  BY <1>2, <1>5, <1>6 DEF Begun, Current, Sensed
<1>8. Begun(w, h)
  BY <1>5, <1>6, <1>7 DEF Begun
<1>. QED
  BY <1>2, <1>3, <1>4, <1>5, <1>6, <1>8

\* Nothing of the data phase is moved.
LEMMA NothingMovedAgrees ==
    ASSUME NEW w, NEW h, Begun(w, h),
           w.stall_before_csw \in {"none", Direction(h.command)},
           w.stall_before_csw = "none" => h.command.dtl = 0
    PROVE  Exchange(DataPhaseComplete(w), h)
<1>1. h.command.dtl \in Nat
  BY HostFields DEF Begun
<1>2. Residue(w, w.csw.residue, h)
  BY <1>1 DEF Begun, Residue
<1>3. PhaseOver(w, h)
  BY <1>2 DEF Begun, PhaseOver
<1>. QED
  BY <1>3, PhaseOverAgrees

LEMMA ReplyAgrees ==
    ASSUME NEW m, NEW h, Begun(m, h), m.csw.status # "FAILED", NEW sense \in Sense,
           h.command.op = "sense" => sense = h.expects
    PROVE  Exchange(Reply(m, h.command, sense), h)
<1> DEFINE c == h.command
           expected == Min({ReplyLength, c.dtl})
           n == DataLength(c, expected, "IN")
           w == WithData(m, c, expected, "IN")
<1>0. c.dtl \in Nat /\ ReplyLength \in Nat
  BY HostFields DEF Begun, ReplyLength
<1>1. expected \in Nat /\ expected <= ReplyLength /\ expected \in {ReplyLength, c.dtl}
  BY <1>0, MinOfTwo
<1>2. /\ n \in Nat /\ n <= c.dtl /\ n <= ReplyLength
      /\ Direction(c) = "IN" => n \in {expected, c.dtl}
      /\ Direction(c) # "IN" => n = 0
  <2> HIDE DEF expected
  <2>1. Min({expected, c.dtl}) \in Nat /\ Min({expected, c.dtl}) \in {expected, c.dtl}
        /\ Min({expected, c.dtl}) <= expected /\ Min({expected, c.dtl}) <= c.dtl
    BY <1>0, <1>1, MinOfTwo
  <2>. QED
    BY <1>0, <1>1, <2>1 DEF DataLength
<1> HIDE DEF expected, n
<1>3. /\ Begun(w, h) /\ w.csw.status # "FAILED"
      /\ w.stall_before_csw \in {"none", Direction(c)}
      /\ w.stall_before_csw = "none" => Direction(c) = "IN" /\ expected = c.dtl
  BY <1>1, WithDataAgrees DEF Endpoints
<1> HIDE DEF w
<1>4. CASE n = 0
  <2>1. w.stall_before_csw = "none" => c.dtl = 0
    BY <1>2, <1>3, <1>4
  <2>2. Reply(m, c, sense) = DataPhaseComplete(w)
    BY <1>4 DEF Reply, expected, n, w
  <2>. QED
    BY <1>3, <2>1, <2>2, NothingMovedAgrees
<1>5. CASE n # 0
  <2> DEFINE k == [w.csw EXCEPT !.residue = @ - n]
             p == [length |-> n, sense |-> sense]
             r == [w EXCEPT !.csw = k, !.in = "reply", !.packet = p]
  <2>1. w \in MscState /\ w.csw \in Csw /\ w.csw.residue = c.dtl
    BY <1>3 DEF Begun, MscState
  <2>2. k.residue = c.dtl - n /\ k.tag = w.csw.tag /\ k.status = w.csw.status
    BY <2>1 DEF Csw
  <2>3. p.length = n /\ p.sense = sense
    OBVIOUS
  <2>4. Reply(m, c, sense) = r
    BY <1>5 DEF Reply, expected, n, w
  <2> HIDE DEF k, p
  <2>5. /\ r.in = "reply" /\ r.out = w.out /\ r.halt = w.halt
        /\ r.csw_on_unstall = w.csw_on_unstall /\ r.csw = k /\ r.sense = w.sense
        /\ r.packet = p /\ r.stall_before_csw = w.stall_before_csw
    BY <2>1 DEF MscState
  <2> HIDE DEF r
  <2>6. Current(r, h)
    BY <1>3, <2>2, <2>5 DEF Begun, Current, Sensed
  <2>7. h.phase = "data" /\ h.command.in /\ n < PacketLength
    <3>1. c.dtl # 0 /\ n < PacketLength
      BY <1>0, <1>2, <1>5 DEF ReplyLength, PacketLength
    <3>2. c.in
      BY <1>2, <1>5 DEF Direction
    <3>. QED
      BY <1>3, <3>1, <3>2 DEF Begun
  <2>8. StallsBefore(r, h)
    BY <1>3, <2>5 DEF Begun, StallsBefore
  <2>9. Replying(r, h)
    BY <1>3, <2>2, <2>3, <2>5, <2>7, <2>8 DEF Begun, Replying
  <2>. QED
    BY <2>4, <2>6, <2>9 DEF Exchange
<1>. QED
  BY <1>4, <1>5

LEMMA ReadOrWriteAgrees ==
    ASSUME NEW m, NEW h, Begun(m, h), m.csw.status # "FAILED", NEW dir \in Endpoints,
           dir = "OUT" => h.command.op = "write"
    PROVE  Exchange(ReadOrWrite(m, h.command, dir), h)
<1> DEFINE c == h.command
           expected == c.blocks * SectorLength
           l == DataLength(c, expected, dir)
           n == l \div PacketLength
           w == WithData(m, c, expected, dir)
<1>0. c.dtl \in Nat /\ c.blocks \in Nat /\ c.in \in BOOLEAN
  BY HostFields DEF Begun
<1>1. expected \in Nat /\ expected = 4 * c.blocks
  BY <1>0 DEF SectorLength, SectorPackets, PacketLength
<1>2. /\ l \in Nat /\ l <= c.dtl
      /\ Direction(c) = dir => l \in {expected, c.dtl}
      /\ Direction(c) # dir => l = 0
  <2> HIDE DEF expected
  <2>1. Min({expected, c.dtl}) \in Nat /\ Min({expected, c.dtl}) \in {expected, c.dtl}
        /\ Min({expected, c.dtl}) <= expected /\ Min({expected, c.dtl}) <= c.dtl
    BY <1>0, <1>1, MinOfTwo
  <2>. QED
    BY <1>0, <2>1 DEF DataLength
<1> HIDE DEF expected, l
<1>3. /\ n \in Nat /\ PacketLength * n <= c.dtl
      /\ n # 0 => Direction(c) = dir /\ c.dtl # 0
      /\ Direction(c) = dir /\ expected = c.dtl => PacketLength * n = c.dtl
  <2>1. n \in Nat /\ PacketLength * n <= c.dtl
    BY <1>0, <1>2 DEF PacketLength
  <2>2. n # 0 => Direction(c) = dir /\ c.dtl # 0
    <3>1. l = 0 => n = 0
      BY DEF PacketLength
    <3>. QED
      BY <1>0, <1>2, <3>1
  <2>3. Direction(c) = dir /\ expected = c.dtl => PacketLength * n = c.dtl
    <3>1. Direction(c) = dir /\ expected = c.dtl => l = 4 * c.blocks /\ c.dtl = 4 * c.blocks
      BY <1>1, <1>2
    <3>2. (4 * c.blocks) \div 2 = 2 * c.blocks
      BY <1>0
    <3>. QED
      BY <1>0, <3>1, <3>2 DEF PacketLength
  <2>. QED
    BY <2>1, <2>2, <2>3
<1>4. /\ Begun(w, h) /\ w.csw.status # "FAILED"
      /\ w.stall_before_csw \in {"none", Direction(c)}
      /\ w.stall_before_csw = "none" => Direction(c) = dir /\ expected = c.dtl
  BY <1>1, WithDataAgrees
<1>5. ReadOrWrite(m, c, dir) = IF n = 0 THEN DataPhaseComplete(w) ELSE Streams(w, n, dir)
  BY DEF ReadOrWrite, expected, l
<1> HIDE DEF w, n
<1>6. CASE n = 0
  <2>1. w.stall_before_csw = "none" => c.dtl = 0
    BY <1>3, <1>4, <1>6 DEF PacketLength
  <2>. QED
    BY <1>4, <1>5, <1>6, <2>1, NothingMovedAgrees
<1>7. CASE n # 0
  <2> DEFINE s == [w EXCEPT !.token = @ + 1, !.offset = 0, !.length = n]
             i == [s EXCEPT !.in = "stream"]
             o == [s EXCEPT !.out = "stream"]
  <2>1. w \in MscState /\ w.token + 1 \in Nat /\ 0 \in Nat
    BY <1>4, MscFields DEF Begun
  <2>2. /\ s \in MscState /\ s.offset = 0 /\ s.length = n
        /\ s.in = w.in /\ s.out = w.out /\ s.halt = w.halt /\ s.csw = w.csw
        /\ s.sense = w.sense /\ s.csw_on_unstall = w.csw_on_unstall
        /\ s.stall_before_csw = w.stall_before_csw
        /\ s.held = w.held /\ s.deferred = w.deferred
    BY <1>3, <2>1 DEF MscState
  <2>3. Streams(w, n, dir) = IF dir = "IN" THEN FillPacket(i) ELSE o
    BY DEF Streams
  <2> HIDE DEF s
  <2>4. Begun(s, h)
    <3>1. Current(s, h)
      BY <1>4, <2>2 DEF Begun, Current, Sensed
    <3>. QED
      BY <1>4, <2>2, <3>1 DEF Begun
  <2>5. /\ PacketLength * s.length <= c.dtl /\ s.csw.residue = c.dtl
        /\ s.stall_before_csw = "none" => PacketLength * s.length = c.dtl
        /\ s.stall_before_csw \in {"none", Direction(c)}
        /\ s.csw.status # "FAILED" /\ h.phase = "data" /\ Direction(c) = dir
    BY <1>3, <1>4, <1>7, <2>2, <2>4 DEF Begun
  <2>6. CASE dir = "IN"
    <3> DEFINE t == IF i.offset % SectorPackets = 0 THEN i.token + 1 ELSE i.token
               j == [i EXCEPT !.token = t]
               f == PacketComplete(j)
    <3>1. /\ i \in MscState /\ i.offset = 0 /\ i.length = n
          /\ i.in = "stream" /\ i.out = s.out /\ i.halt = s.halt /\ i.csw = s.csw
          /\ i.sense = s.sense /\ i.csw_on_unstall = s.csw_on_unstall
          /\ i.stall_before_csw = s.stall_before_csw
      BY <2>2 DEF MscState
    <3>2. FillPacket(i) = f
      BY DEF FillPacket
    <3> HIDE DEF i
    <3>3. t \in Nat
      BY <3>1, MscFields
    <3> HIDE DEF t
    <3>4. /\ j \in MscState /\ j.offset = 0 /\ j.length = n
          /\ j.in = "stream" /\ j.out = i.out /\ j.halt = i.halt /\ j.csw = i.csw
          /\ j.sense = i.sense /\ j.csw_on_unstall = i.csw_on_unstall
          /\ j.stall_before_csw = i.stall_before_csw
      BY <3>1, <3>3 DEF MscState
    <3> HIDE DEF j
    <3>5. /\ f.csw.tag = j.csw.tag /\ f.csw.status = j.csw.status
          /\ f.csw.residue = j.csw.residue - PacketLength
          /\ f.offset = j.offset + 1 /\ f.length = j.length
          /\ f.in = j.in /\ f.out = j.out /\ f.halt = j.halt
          /\ f.sense = j.sense
          /\ f.csw_on_unstall = j.csw_on_unstall
          /\ f.stall_before_csw = j.stall_before_csw
      BY <3>4, PacketCompleteDoes
    <3> HIDE DEF f
    <3>6. f.offset = 1 /\ f.csw.residue = c.dtl - PacketLength /\ f.length = s.length
      BY <2>2, <2>5, <3>1, <3>4, <3>5
    <3>7. Ends(f, h)
      <4>1. PacketLength * f.offset = PacketLength
        BY <3>6 DEF PacketLength
      <4>. QED
        BY <2>5, <3>1, <3>4, <3>5, <3>6, <4>1 DEF Ends
    <3>8. h.moved = PacketLength * (f.offset - 1)
      BY <2>4, <3>6 DEF Begun, PacketLength
    <3>9. StallsBefore(f, h)
      BY <2>4, <2>5, <3>1, <3>4, <3>5 DEF StallsBefore, Begun
    <3>10. c.in
      BY <2>5, <2>6 DEF Direction
    <3>11. Reading(f, h)
      BY <2>4, <2>5, <3>1, <3>4, <3>5, <3>7, <3>8, <3>9, <3>10 DEF Reading, Begun
    <3>12. Current(f, h)
      BY <2>4, <3>1, <3>4, <3>5 DEF Begun, Current, Sensed
    <3>. QED
      BY <1>5, <1>7, <2>3, <2>6, <3>2, <3>11, <3>12 DEF Exchange
  <2>7. CASE dir = "OUT"
    <3>1. /\ o.offset = 0 /\ o.length = n /\ o.held = s.held /\ o.deferred = s.deferred
          /\ o.in = s.in /\ o.out = "stream" /\ o.halt = s.halt /\ o.csw = s.csw
          /\ o.sense = s.sense /\ o.csw_on_unstall = s.csw_on_unstall
          /\ o.stall_before_csw = s.stall_before_csw
      BY <2>2 DEF MscState
    <3> HIDE DEF o
    <3>2. Ends(o, h)
      <4>1. PacketLength * o.offset = 0 /\ c.dtl - 0 = c.dtl
        BY <1>0, <3>1 DEF PacketLength
      <4>. QED
        BY <2>2, <2>5, <3>1, <4>1 DEF Ends
    <3>3. Turn(o.held) + Turn(o.deferred) = 0
      BY <2>4, <3>1 DEF Begun, Turn
    <3>4. StallsBefore(o, h)
      BY <2>4, <2>5, <3>1 DEF StallsBefore, Begun
    <3>5. ~c.in
      BY <1>0, <2>5, <2>7 DEF Direction
    <3>6. h.moved = PacketLength * (o.offset + 0) /\ h.moved # c.dtl
      <4>1. h.moved = 0 /\ c.dtl # 0
        BY <2>4, <2>5 DEF Begun
      <4>. QED
        BY <3>1, <4>1 DEF PacketLength
    <3>7. Sending(o, h, 0)
      BY <2>4, <2>5, <2>7, <3>1, <3>2, <3>4, <3>5, <3>6 DEF Sending, Begun
    <3>8. Current(o, h)
      BY <2>4, <3>1 DEF Begun, Current, Sensed
    <3>. QED
      BY <1>5, <1>7, <2>3, <2>7, <3>3, <3>7, <3>8 DEF Exchange, Writing
  <2>. QED
    BY <2>6, <2>7 DEF Endpoints
<1>. QED
  BY <1>6, <1>7

\* The host as it sends a command: it has moved nothing yet, and knows which
\* sense REQUEST SENSE is to tell.
Asking(h, m) ==
    /\ h \in HostState /\ h.moved = 0 /\ ~h.cleared
    /\ h.phase = IF h.command.dtl # 0 THEN "data" ELSE "status"
    /\ h.command.op = "sense" => h.expects = m.sense

LEMMA HandledAgrees ==
    ASSUME NEW m \in MscState, NEW h, Asking(h, m),
           m.in = "none", m.halt["IN"] = "none", m.halt["OUT"] = "none",
           m.csw_on_unstall = FALSE, m.held = FALSE, m.deferred = FALSE
    PROVE  Exchange(Handled(m, h.command, h.tag), h)
<1> DEFINE c == h.command
           o == Opened(m, c, h.tag)
<1>1. c \in CommandBlock /\ h.tag \in Nat /\ c.dtl \in Nat /\ c.op \in Operation
      /\ m.sense \in Sense
  BY HostFields, MscFields DEF Asking
<1>2. CASE c.op = "invalid"
  <2> DEFINE x == [m EXCEPT !.out = "none", !.halt = [e \in Endpoints |-> "on_condition"]]
  <2>1. Handled(m, c, h.tag) = x
    BY <1>2 DEF Handled
  <2>2. x.in = m.in /\ x.out = "none" /\ x.csw_on_unstall = m.csw_on_unstall
        /\ x.halt = [e \in Endpoints |-> "on_condition"]
    BY DEF MscState
  <2> HIDE DEF x
  <2>3. Refused(x)
    BY <2>2 DEF Refused
  <2>. QED
    BY <1>2, <2>1, <2>3 DEF Exchange
<1>3. CASE c.op # "invalid"
  <2> DEFINE k == [tag |-> h.tag, status |-> "PASSED", residue |-> c.dtl]
             sense == IF c.op = "sense" THEN m.sense ELSE "OK"
  <2>1. k \in Csw /\ k.residue = c.dtl /\ k.tag = h.tag /\ k.status = "PASSED"
    BY <1>1 DEF Csw, Status
  <2>2. sense \in Sense
    BY <1>1 DEF Sense
  <2>3. o = [m EXCEPT !.csw = k, !.out = "none", !.sense = sense]
    BY DEF Opened
  <2>4. (c.op = "sense" => sense = h.expects) /\ (c.op # "sense" => sense = "OK")
    BY DEF Asking
  <2> HIDE DEF k, sense
  <2>5. /\ o \in MscState /\ o.csw = k /\ o.out = "none" /\ o.in = m.in
        /\ o.halt = m.halt /\ o.sense = sense /\ o.ejected = m.ejected
        /\ o.held = m.held /\ o.deferred = m.deferred
        /\ o.csw_on_unstall = m.csw_on_unstall
    <3> DEFINE a == [m EXCEPT !.csw = k, !.out = "none"]
    <3>1. o = [a EXCEPT !.sense = sense]
      BY <2>3 DEF MscState
    <3>2. /\ a \in MscState /\ a.csw = k /\ a.out = "none" /\ a.in = m.in
          /\ a.halt = m.halt /\ a.ejected = m.ejected
          /\ a.held = m.held /\ a.deferred = m.deferred
          /\ a.csw_on_unstall = m.csw_on_unstall
      BY <2>1 DEF MscState
    <3> HIDE DEF a
    <3>. QED
      BY <2>2, <3>1, <3>2 DEF MscState
  <2> HIDE DEF o
  <2>6. ASSUME NEW x, x \in MscState, x.csw = k, x.out = "none", x.in = m.in,
               x.halt = m.halt, x.held = m.held, x.deferred = m.deferred,
               x.csw_on_unstall = m.csw_on_unstall, x.sense = "OK"
        PROVE  Begun(x, h) /\ x.csw.status # "FAILED"
    <3>1. Current(x, h)
      BY <1>3, <2>1, <2>6 DEF Current, Sensed
    <3>. QED
      BY <2>1, <2>6, <3>1 DEF Begun, Asking
  <2>7. CASE c.op # "sense"
    <3>1. Begun(o, h) /\ o.csw.status # "FAILED"
      BY <2>4, <2>5, <2>6, <2>7
    <3>2. CASE c.op = "none"
      BY <3>1, <3>2, NoDataAgrees DEF Handled, o
    <3>3. CASE c.op = "ready"
      <4>1. Reason(c) = "NOT_READY"
        BY <3>3 DEF Reason
      <4>2. Exchange(NoData(o, c), h) /\ Exchange(Fail(o, c, "NOT_READY"), h)
        BY <3>1, <4>1, NoDataAgrees, FailAgrees
      <4>3. Handled(m, c, h.tag) = IF o.ejected THEN Fail(o, c, "NOT_READY") ELSE NoData(o, c)
        BY <3>3 DEF Handled, o
      <4>. QED
        BY <4>2, <4>3
    <3>4. CASE c.op = "unknown"
      <4>1. Reason(c) = "ILLEGAL_REQUEST"
        BY <3>4 DEF Reason
      <4>2. Exchange(Fail(o, c, "ILLEGAL_REQUEST"), h)
        BY <3>1, <4>1, FailAgrees
      <4>. QED
        BY <3>4, <4>2 DEF Handled, o
    <3>5. CASE c.op = "eject"
      <4> DEFINE e == [o EXCEPT !.ejected = TRUE]
      <4>1. /\ e \in MscState /\ e.csw = o.csw /\ e.out = o.out /\ e.in = o.in
            /\ e.halt = o.halt /\ e.sense = o.sense /\ e.held = o.held
            /\ e.deferred = o.deferred /\ e.csw_on_unstall = o.csw_on_unstall
        BY <2>5 DEF MscState
      <4> HIDE DEF e
      <4>2. Begun(e, h)
        BY <2>4, <2>5, <2>6, <2>7, <4>1
      <4>3. Exchange(NoData(e, c), h)
        BY <4>2, NoDataAgrees
      <4>. QED
        BY <3>5, <4>3 DEF Handled, o, e
    <3>6. CASE c.op = "reply"
      <4>1. Exchange(Reply(o, c, "OK"), h)
        BY <2>7, <3>1, ReplyAgrees DEF Sense
      <4>. QED
        BY <3>6, <4>1 DEF Handled, o
    <3>7. CASE c.op = "read"
      <4>1. Exchange(ReadOrWrite(o, c, "IN"), h)
        BY <3>1, ReadOrWriteAgrees DEF Endpoints
      <4>. QED
        BY <3>7, <4>1 DEF Handled, o
    <3>8. CASE c.op = "write"
      <4>1. Exchange(ReadOrWrite(o, c, "OUT"), h)
        BY <3>1, <3>8, ReadOrWriteAgrees DEF Endpoints
      <4>. QED
        BY <3>8, <4>1 DEF Handled, o
    <3>. QED
      BY <1>1, <1>3, <2>7, <3>2, <3>3, <3>4, <3>5, <3>6, <3>7, <3>8 DEF Operation
  <2>8. CASE c.op = "sense"
    <3> DEFINE e == [o EXCEPT !.sense = "OK"]
    <3>1. /\ e \in MscState /\ e.csw = o.csw /\ e.out = o.out /\ e.in = o.in
          /\ e.halt = o.halt /\ e.sense = "OK" /\ e.held = o.held
          /\ e.deferred = o.deferred /\ e.csw_on_unstall = o.csw_on_unstall
      BY <2>5 DEF MscState, Sense
    <3> HIDE DEF e
    <3>2. Begun(e, h) /\ e.csw.status # "FAILED"
      BY <2>5, <2>6, <3>1
    <3>3. Exchange(Reply(e, c, o.sense), h)
      BY <2>2, <2>4, <2>5, <3>2, ReplyAgrees
    <3>. QED
      BY <2>8, <3>3 DEF Handled, o, e
  <2>. QED
    BY <2>7, <2>8
<1>. QED
  BY <1>2, <1>3

\* The host has the status: the interface rests, with the sense it expects.
LEMMA CommandWantedAgrees ==
    ASSUME NEW m, MscFits(m), NEW h, NEW a, Exchange(m, h), m.in = "csw",
           a.expects = IF m.packet.status = "FAILED" THEN Reason(h.command) ELSE "OK"
    PROVE  Quiet(CommandWanted(m), a)
<1> DEFINE n == CommandWanted(m)
<1>1. Told(m, h) /\ Current(m, h)
  BY DEF Exchange, Refused, Replying, Reading, Sending, Writing, Stalling
<1>2. m \in MscState /\ ~m.held
  BY <1>1 DEF MscFits, Told
<1>3. /\ n.in = "none" /\ n.out \in {"cmd", m.out} /\ n.halt = m.halt /\ n.held = m.held
      /\ n.csw_on_unstall = m.csw_on_unstall /\ n.sense = m.sense
      /\ n.stall_before_csw = m.stall_before_csw
  BY <1>2 DEF CommandWanted, MscState
<1> HIDE DEF n
<1>4. m.sense = a.expects
  BY <1>1 DEF Told, Current, Sensed
<1>. QED
  BY <1>1, <1>2, <1>3, <1>4 DEF Told, Quiet, n

\* A halt is cleared: of the IN endpoint, and the status that waited for it is
\* sent; of the OUT endpoint, behind which the status is.
LEMMA ClearHaltAgrees ==
    ASSUME NEW m, MscFits(m), NEW h \in HostState, Exchange(m, h)
    PROVE  /\ h.phase = "clear_in" =>
                 Exchange(ClearHalt(m, "IN"), [h EXCEPT !.phase = "status"])
           /\ h.phase = "clear_out" =>
                 Exchange(ClearHalt(m, "OUT"), [h EXCEPT !.phase = "status"])
<1> DEFINE a == [h EXCEPT !.phase = "status"]
<1>1. m \in MscState /\ "IN" \in Endpoints /\ "OUT" \in Endpoints
  BY DEF MscFits, Endpoints
<1>2. a.phase = "status" /\ a.tag = h.tag /\ a.moved = h.moved /\ a.command = h.command
      /\ a.cleared = h.cleared
  BY DEF HostState
<1> HIDE DEF a
<1>3. CASE h.command.op = "invalid"
  <2>1. Refused(m)
    BY <1>3 DEF Exchange, Current
  <2>2. ClearHalt(m, "IN") = m /\ ClearHalt(m, "OUT") = m
    BY <1>1, <2>1 DEF Refused, ClearHalt
  <2>3. Exchange(m, a)
    BY <1>2, <1>3, <2>1 DEF Exchange
  <2>. QED
    BY <2>2, <2>3 DEF a
<1>4. CASE h.command.op # "invalid" /\ h.phase = "clear_in"
  <2> DEFINE q == [m EXCEPT !.in = "none", !.halt["IN"] = "none"]
             n == SendCsw(q)
  <2>1. Stalling(m, h) /\ Current(m, h)
    <3>1. Current(m, h) /\ ~Replying(m, h) /\ ~Reading(m, h) /\ ~Told(m, h)
      BY <1>4 DEF Exchange, Replying, Reading, Told
    <3>2. ~Writing(m, h)
      BY <1>4 DEF Writing, Sending
    <3>. QED
      BY <1>4, <3>1, <3>2 DEF Exchange
  <2>2. ClearHalt(m, "IN") = n
    BY <2>1 DEF ClearHalt, Stalling
  <2>3. /\ q \in MscState /\ q.out = m.out /\ q.csw = m.csw /\ q.sense = m.sense
        /\ q.halt["IN"] = "none" /\ q.stall_before_csw = m.stall_before_csw
    BY <1>1 DEF MscState
  <2> HIDE DEF q
  <2>4. /\ n.in = "csw" /\ n.packet = q.csw /\ n.csw_on_unstall = FALSE
        /\ n.csw = q.csw /\ n.out = q.out /\ n.halt = q.halt /\ n.sense = q.sense
        /\ n.stall_before_csw = q.stall_before_csw
    BY <2>3, SendCswDoes
  <2> HIDE DEF n
  <2>5. Current(n, a)
    BY <1>2, <2>1, <2>3, <2>4 DEF Current, Sensed
  <2>6. Residue(n, n.packet.residue, a)
    BY <1>2, <2>1, <2>3, <2>4 DEF Stalling, Residue
  <2>7. Told(n, a)
    BY <1>2, <2>1, <2>3, <2>4, <2>5, <2>6 DEF Stalling, Told, Current
  <2>. QED
    BY <1>4, <2>2, <2>5, <2>7 DEF Exchange, a
<1>5. CASE h.command.op # "invalid" /\ h.phase = "clear_out"
  <2> DEFINE n == [m EXCEPT !.out = "cmd", !.halt["OUT"] = "none",
                            !.held = FALSE, !.deferred = FALSE]
  <2>1. Told(m, h) /\ Current(m, h)
    <3>1. Current(m, h) /\ ~Replying(m, h) /\ ~Reading(m, h) /\ ~Stalling(m, h)
      BY <1>5 DEF Exchange, Replying, Reading, Stalling
    <3>2. ~Writing(m, h)
      BY <1>5 DEF Writing, Sending
    <3>. QED
      BY <1>5, <3>1, <3>2 DEF Exchange
  <2>2. ClearHalt(m, "OUT") = m \/ ClearHalt(m, "OUT") = n
    BY DEF ClearHalt
  <2>3. /\ n.in = m.in /\ n.out = "cmd" /\ n.csw = m.csw /\ n.sense = m.sense
        /\ n.halt["IN"] = m.halt["IN"] /\ n.stall_before_csw = m.stall_before_csw
        /\ n.csw_on_unstall = m.csw_on_unstall /\ n.packet = m.packet
    BY <1>1 DEF MscState, Endpoints
  <2> HIDE DEF n
  <2>4. Current(n, a) /\ Current(m, a)
    BY <1>2, <2>1, <2>3 DEF Current, Sensed
  <2>5. Residue(n, n.packet.residue, a) /\ Residue(m, m.packet.residue, a)
    BY <1>2, <2>1, <2>3 DEF Told, Residue
  <2>6. Told(n, a) /\ Told(m, a)
    BY <1>2, <2>1, <2>3, <2>5 DEF Told
  <2>. QED
    BY <1>5, <2>2, <2>4, <2>6 DEF Exchange, a
<1>. QED
  BY <1>3, <1>4, <1>5

\* A cleared endpoint leaves an interface that rests at rest.
LEMMA ClearHaltQuiet ==
    ASSUME NEW m, MscFits(m), NEW h, Quiet(m, h), NEW a, a.expects = h.expects
    PROVE  /\ Quiet(ClearHalt(m, "IN"), a)
           /\ Quiet(ClearHalt(m, "OUT"), a)
           /\ ClearHalt(m, "IN").halt["OUT"] = m.halt["OUT"]
<1> DEFINE i == [m EXCEPT !.in = "none", !.halt["IN"] = "none"]
           o == [m EXCEPT !.out = "cmd", !.halt["OUT"] = "none",
                          !.held = FALSE, !.deferred = FALSE]
<1>1. m \in MscState
  BY DEF MscFits
<1>2. ClearHalt(m, "IN") = i /\ ClearHalt(m, "OUT") \in {m, o}
  BY DEF ClearHalt, Quiet
<1>3. /\ i.in = "none" /\ i.out = m.out /\ i.sense = m.sense
      /\ i.halt["IN"] = "none" /\ i.stall_before_csw = m.stall_before_csw
      /\ i.csw_on_unstall = m.csw_on_unstall /\ i.held = m.held
      /\ i.halt["OUT"] = m.halt["OUT"]
  BY <1>1 DEF MscState, Endpoints
<1>4. /\ o.in = m.in /\ o.out = "cmd" /\ o.sense = m.sense
      /\ o.halt["IN"] = m.halt["IN"] /\ o.stall_before_csw = m.stall_before_csw
      /\ o.csw_on_unstall = m.csw_on_unstall /\ o.held = FALSE
  BY <1>1 DEF MscState, Endpoints
<1> HIDE DEF i, o
<1>5. Quiet(i, a) /\ Quiet(o, a) /\ Quiet(m, a)
  BY <1>3, <1>4 DEF Quiet
<1>. QED
  BY <1>2, <1>3, <1>5

-----------------------------------------------------------------------------
(***************************************************************************)
(* The steps.                                                              *)
(***************************************************************************)

\* The host sees a stall.
LEMMA StallSeenAgrees ==
    ASSUME NEW m, NEW h \in HostState, Exchange(m, h)
    PROVE  /\ h.phase = "data" /\ ~h.command.in /\ m.halt["OUT"] # "none" =>
                 Exchange(m, [h EXCEPT !.phase = "clear_out"])
           /\ /\ h.phase = "status" \/ (h.phase = "data" /\ h.command.in)
              /\ m.halt["IN"] # "none"
              => Exchange(m, [h EXCEPT !.phase = "clear_in", !.cleared = TRUE])
<1> DEFINE a == [h EXCEPT !.phase = "clear_out"]
           b == [h EXCEPT !.phase = "clear_in", !.cleared = TRUE]
<1>1. /\ a.phase = "clear_out" /\ a.tag = h.tag /\ a.moved = h.moved
      /\ a.command = h.command /\ a.cleared = h.cleared
      /\ b.phase = "clear_in" /\ b.tag = h.tag /\ b.moved = h.moved
      /\ b.command = h.command /\ b.cleared = TRUE
  BY DEF HostState
<1> HIDE DEF a, b
<1>2. CASE h.command.op = "invalid"
  <2>1. Refused(m)
    BY <1>2 DEF Exchange, Current
  <2>2. Exchange(m, a) /\ Exchange(m, b)
    BY <1>1, <1>2, <2>1 DEF Exchange
  <2>. QED
    BY <2>2 DEF a, b
<1>3. CASE h.command.op # "invalid"
  <2>1. Current(m, h)
    BY <1>3 DEF Exchange
  <2>2. Current(m, a) /\ Current(m, b)
    BY <1>1, <2>1 DEF Current, Sensed
  <2>3. ASSUME h.phase = "data", ~h.command.in, m.halt["OUT"] # "none"
        PROVE  Exchange(m, a)
    <3>1. ~Replying(m, h) /\ ~Reading(m, h) /\ ~Stalling(m, h)
      BY <2>3 DEF Replying, Reading, Stalling
    <3>2. ~Writing(m, h)
      BY <2>3 DEF Writing, Sending, StallsBefore
    <3>3. Told(m, h)
      BY <1>3, <3>1, <3>2 DEF Exchange
    <3>4. Told(m, a)
      BY <1>1, <2>3, <3>3 DEF Told, Residue
    <3>. QED
      BY <2>2, <3>4 DEF Exchange
  <2>4. ASSUME h.phase = "status" \/ (h.phase = "data" /\ h.command.in),
               m.halt["IN"] # "none"
        PROVE  Exchange(m, b)
    <3>1. ~Replying(m, h) /\ ~Reading(m, h) /\ ~Told(m, h)
      BY <2>4 DEF Replying, Reading, StallsBefore, Told
    <3>2. ~Writing(m, h)
      BY <2>4 DEF Writing, Sending, StallsBefore
    <3>3. Stalling(m, h)
      BY <1>3, <3>1, <3>2 DEF Exchange
    <3>4. Stalling(m, b)
      BY <1>1, <3>3 DEF Stalling, Residue
    <3>. QED
      BY <2>2, <3>4 DEF Exchange
  <2>. QED
    BY <2>3, <2>4 DEF a, b
<1>. QED
  BY <1>2, <1>3

\* No task becomes stale in a step that starts none and keeps the packet of the
\* one there is.
LEMMA StaleKept ==
    ASSUME TransferInv, ~Stale, msc'.token \in Nat, msc'.token >= msc.token,
           disk'.queued \in {0, disk.queued}, disk'.running = disk.running,
           msc'.token = msc.token /\ msc.held => msc'.held
    PROVE  ~Stale'
<1>1. msc.token \in Nat /\ disk.queued \in 0..msc.token /\ disk.running \in 0..msc.token
  BY TransferTypes
<1>2. CASE msc'.token > msc.token
  BY <1>1, <1>2 DEF Stale, Outstanding
<1>3. CASE msc'.token = msc.token
  BY <1>1, <1>3 DEF Stale, Outstanding
<1>. QED
  BY <1>1, <1>2, <1>3

LEMMA HostIsState ==
    ASSUME TransferInv, Fit
    PROVE  host \in HostState /\ MscFits(msc) /\ msc \in MscState
<1>1. 0..MaxCommands \subseteq Nat
  BY MscAssumption
<1>. QED
  BY <1>1 DEF TransferInv, Fit, HostTypeOK, HostState, MscFits

\* What a step has to show while a command is under way.
AgreeStep ==
    /\ host'.phase \notin BetweenCommands
    /\ InCommand' => Exchange(msc', host') /\ host'.tag # 0 /\ (Wrote' => ~Stale')

LEMMA AgreeStepKeeps == AgreeStep => Agree'
  BY DEF AgreeStep, Agree, BetweenCommands

LEMMA CommandAgrees ==
    ASSUME TransferInv, Fit, Agree, NEW c \in Command, HostSendsCommand(c)
    PROVE  Agree'
<1>1. /\ host.phase = "idle" /\ msc.out = "cmd" /\ msc.halt["OUT"] = "none"
      /\ msc' = Handled(msc, c, host.tag + 1)
      /\ disk' = disk
      /\ host' = [phase |-> IF c.dtl # 0 THEN "data" ELSE "status",
                  tag |-> host.tag + 1, moved |-> 0, cleared |-> FALSE, command |-> c,
                  expects |-> IF c.op = "sense" THEN host.expects ELSE "OK"]
  BY DEF HostSendsCommand, At
<1>2. Quiet(msc, host) /\ msc \in MscState /\ host \in HostState /\ MscFits(msc)
  BY <1>1, HostIsState DEF Agree, BetweenCommands
<1>3. msc.csw_on_unstall = FALSE /\ msc.held = FALSE /\ msc.deferred = FALSE
  BY <1>2, MscFields DEF Quiet, MscFits
<1>4. c \in CommandBlock /\ c.dtl \in Nat /\ host.tag + 1 \in Nat
  BY <1>2, MscAssumption, HostFields DEF CommandBlock
<1>5. /\ host'.command = c /\ host'.tag = host.tag + 1 /\ host'.moved = 0
      /\ host'.cleared = FALSE /\ host'.phase = IF c.dtl # 0 THEN "data" ELSE "status"
      /\ c.op = "sense" => host'.expects = host.expects
  BY <1>1
<1>6. host' \in HostState
  <2>1. host.expects \in Sense
    BY <1>2, HostFields
  <2>. QED
    BY <1>1, <1>4, <2>1 DEF HostState, Phase, Sense
<1>7. Asking(host', msc)
  BY <1>2, <1>5, <1>6 DEF Asking, Quiet
<1>8. Exchange(Handled(msc, host'.command, host'.tag), host')
  <2> DEFINE h == host'
  <2>1. Asking(h, msc)
    BY <1>7
  <2> HIDE DEF h
  <2>2. Exchange(Handled(msc, h.command, h.tag), h)
    BY <1>1, <1>2, <1>3, <2>1, HandledAgrees DEF Quiet
  <2>. QED
    BY <2>2 DEF h
<1>9. host'.tag # 0 /\ ~Wrote'
  BY <1>2, <1>5, HostFields DEF Wrote
<1>10. AgreeStep
  BY <1>1, <1>5, <1>8, <1>9 DEF AgreeStep, BetweenCommands
<1>. QED
  BY <1>10, AgreeStepKeeps

LEMMA BulkAgrees ==
    ASSUME TransferInv, TransferInv', Fit, Agree, Bulk \/ HostTimesOut
    PROVE  Agree'
<1>0. /\ host \in HostState /\ MscFits(msc) /\ msc \in MscState
      /\ msc.token \in Nat /\ msc'.token \in Nat
      /\ msc.held \in BOOLEAN /\ msc.deferred \in BOOLEAN
  <2>1. msc' \in MscState
    BY DEF TransferInv, Bounded
  <2>. QED
    BY <2>1, HostIsState, MscFields
<1>1. InCommand => Exchange(msc, host) /\ host.tag # 0 /\ (Wrote => ~Stale)
  BY DEF Agree
<1>2. ASSUME Exchange(msc, host), NEW n \in Nat, Moved(n), host.phase = "data"
      PROVE  /\ host' = Advanced(host, n) /\ host'.phase \notin BetweenCommands
             /\ host'.tag = host.tag /\ host'.command = host.command
  <2>1. host' = Advanced(host, n)
    BY <1>2 DEF Moved, Advanced
  <2>2. host'.tag = host.tag /\ host'.command = host.command
    BY <1>0, <1>2 DEF Moved, HostState
  <2>. QED
    BY <1>0, <1>2, <2>1, <2>2, AdvancedDoes DEF BetweenCommands
<1>3. CASE HostSeesCommandStall \/ HostTimesOut
  <2>1. host' = [host EXCEPT !.phase = "recover"]
    BY <1>3 DEF HostSeesCommandStall, HostTimesOut
  <2>2. host'.phase = "recover"
    BY <1>0, <2>1 DEF HostState
  <2>3. AgreeStep
    BY <2>2 DEF AgreeStep, InCommand, BetweenCommands
  <2>. QED
    BY <2>3, AgreeStepKeeps
<1>4. CASE HostSeesOutStall
  <2>1. /\ host.phase = "data" /\ ~host.command.in /\ msc.halt["OUT"] # "none"
        /\ host' = [host EXCEPT !.phase = "clear_out"] /\ msc' = msc /\ disk' = disk
    BY <1>4 DEF HostSeesOutStall, At
  <2>2. Exchange(msc, host) /\ host.tag # 0 /\ (Wrote => ~Stale)
    BY <1>1, <2>1 DEF InCommand
  <2>3. Exchange(msc, [host EXCEPT !.phase = "clear_out"])
    BY <1>0, <2>1, <2>2, StallSeenAgrees
  <2>4. host'.phase = "clear_out" /\ host'.tag # 0 /\ (Wrote' => ~Stale')
    BY <1>0, <2>1, <2>2 DEF HostState, Wrote, Stale, Outstanding
  <2>5. AgreeStep
    BY <2>1, <2>3, <2>4 DEF AgreeStep, BetweenCommands
  <2>. QED
    BY <2>5, AgreeStepKeeps
<1>5. CASE HostSeesInStall
  <2>1. /\ host.phase = "status" \/ (host.phase = "data" /\ host.command.in)
        /\ msc.halt["IN"] # "none"
        /\ host' = [host EXCEPT !.phase = IF @ = "status" /\ host.cleared
                                          THEN "recover" ELSE "clear_in",
                                !.cleared = TRUE]
        /\ msc' = msc /\ disk' = disk
    BY <1>5 DEF HostSeesInStall, At
  <2>2. Exchange(msc, host) /\ host.tag # 0 /\ (Wrote => ~Stale)
    BY <1>1, <2>1 DEF InCommand
  <2>3. CASE host.phase = "status" /\ host.cleared
    <3>1. host'.phase = "recover"
      BY <1>0, <2>1, <2>3 DEF HostState
    <3>2. AgreeStep
      BY <3>1 DEF AgreeStep, InCommand, BetweenCommands
    <3>. QED
      BY <3>2, AgreeStepKeeps
  <2>4. CASE ~(host.phase = "status" /\ host.cleared)
    <3>1. host' = [host EXCEPT !.phase = "clear_in", !.cleared = TRUE]
      BY <2>1, <2>4
    <3>2. Exchange(msc, [host EXCEPT !.phase = "clear_in", !.cleared = TRUE])
      BY <1>0, <2>1, <2>2, StallSeenAgrees
    <3>3. host'.phase = "clear_in" /\ host'.tag # 0 /\ (Wrote' => ~Stale')
      BY <1>0, <2>1, <2>2, <3>1 DEF HostState, Wrote, Stale, Outstanding
    <3>4. AgreeStep
      BY <2>1, <3>1, <3>2, <3>3 DEF AgreeStep, BetweenCommands
    <3>. QED
      BY <3>4, AgreeStepKeeps
  <2>. QED
    BY <2>3, <2>4
<1>6. CASE HostTakesReply
  <2>1. /\ host.phase = "data" /\ host.command.in /\ msc.in = "reply"
        /\ msc' = DataPhaseComplete([msc EXCEPT !.in = "none"])
        /\ Moved(msc.packet.length)
    BY <1>6 DEF HostTakesReply, At
  <2>2. Exchange(msc, host) /\ host.tag # 0 /\ msc.packet.length \in Nat
    BY <1>0, <1>1, <2>1 DEF InCommand, MscFits
  <2>3. host' = Advanced(host, msc.packet.length) /\ host'.phase \notin BetweenCommands
    BY <1>2, <2>1, <2>2
  <2>4. Exchange(msc', host')
    BY <1>0, <2>1, <2>2, <2>3, ReplyTakenAgrees
  <2>5. host'.tag # 0 /\ ~Wrote'
    BY <1>2, <2>1, <2>2 DEF Wrote
  <2>6. AgreeStep
    BY <2>3, <2>4, <2>5 DEF AgreeStep
  <2>. QED
    BY <2>6, AgreeStepKeeps
<1>7. CASE HostTakesPacket
  <2>1. /\ host.phase = "data" /\ host.command.in /\ msc.in = "stream"
        /\ msc' = IF msc.offset = msc.length
                  THEN DataPhaseComplete([msc EXCEPT !.in = "none"]) ELSE FillPacket(msc)
        /\ Moved(PacketLength) /\ PacketLength \in Nat
    BY <1>7 DEF HostTakesPacket, At, PacketLength
  <2>2. Exchange(msc, host) /\ host.tag # 0
    BY <1>1, <2>1 DEF InCommand
  <2>3. host' = Advanced(host, PacketLength) /\ host'.phase \notin BetweenCommands
    BY <1>2, <2>1, <2>2
  <2>4. Exchange(msc', host')
    BY <1>0, <2>1, <2>2, <2>3, PacketTakenAgrees
  <2>5. host'.tag # 0 /\ ~Wrote'
    BY <1>2, <2>1, <2>2 DEF Wrote
  <2>6. AgreeStep
    BY <2>3, <2>4, <2>5 DEF AgreeStep
  <2>. QED
    BY <2>6, AgreeStepKeeps
<1>8. ASSUME NEW async \in BOOLEAN, HostSendsPacket(async) PROVE Agree'
  <2>1. /\ host.phase = "data" /\ msc.out = "stream" /\ ~msc.held
        /\ msc' = TakePacket(msc, async) /\ Moved(PacketLength) /\ PacketLength \in Nat
        /\ disk' = IF msc'.held /\ msc'.token # msc.token
                   THEN [disk EXCEPT !.queued = msc'.token] ELSE disk
    BY <1>8 DEF HostSendsPacket, QueuesTask, At, PacketLength
  <2>2. Exchange(msc, host) /\ host.tag # 0 /\ ~Stale
    BY <1>1, <2>1 DEF InCommand, TransferInv, TasksInOrder, NoTask, Stale
  <2>3. host' = Advanced(host, PacketLength) /\ host'.phase \notin BetweenCommands
    BY <1>2, <2>1, <2>2
  <2>4. Exchange(msc', host')
    BY <1>0, <2>1, <2>2, <2>3, PacketSentAgrees
  <2>5. ~Stale'
    <3>1. CASE msc'.held
      BY <3>1 DEF Stale
    <3>2. CASE ~msc'.held
      <4>1. msc'.token \in {msc.token, msc.token + 1}
        BY <1>0, <2>1, TakePacketFits
      <4>2. msc'.token >= msc.token /\ disk' = disk
        BY <1>0, <2>1, <3>2, <4>1
      <4>. QED
        BY <1>0, <2>1, <2>2, <4>2, StaleKept
    <3>. QED
      BY <3>1, <3>2
  <2>6. host'.tag # 0
    BY <1>2, <2>1, <2>2
  <2>7. AgreeStep
    BY <2>3, <2>4, <2>5, <2>6 DEF AgreeStep
  <2>. QED
    BY <2>7, AgreeStepKeeps
<1>9. CASE HostSendsAhead
  <2>1. /\ host.phase = "data" /\ msc.out = "stream" /\ msc.held /\ ~msc.deferred
        /\ msc' = [msc EXCEPT !.deferred = TRUE] /\ disk' = disk
        /\ Moved(PacketLength) /\ PacketLength \in Nat
    BY <1>9 DEF HostSendsAhead, At, PacketLength
  <2>2. Exchange(msc, host) /\ host.tag # 0
    BY <1>1, <2>1 DEF InCommand
  <2>3. host' = Advanced(host, PacketLength) /\ host'.phase \notin BetweenCommands
    BY <1>2, <2>1, <2>2
  <2>4. Exchange(msc', host')
    BY <1>0, <2>1, <2>2, <2>3, PacketSentAgrees
  <2>5. host'.tag # 0 /\ ~Stale'
    BY <1>0, <1>2, <2>1, <2>2 DEF MscState, Stale
  <2>6. AgreeStep
    BY <2>3, <2>4, <2>5 DEF AgreeStep
  <2>. QED
    BY <2>6, AgreeStepKeeps
<1>10. CASE HostTakesCsw
  <2>1. /\ host.phase = "status" /\ msc.in = "csw" /\ msc' = CommandWanted(msc)
        /\ host' = [host EXCEPT
                      !.phase = IF msc.packet.status = "PHASE_ERROR" THEN "recover" ELSE "idle",
                      !.expects = IF msc.packet.status = "FAILED"
                                  THEN Reason(host.command) ELSE "OK"]
    BY <1>10 DEF HostTakesCsw, At
  <2>2. Exchange(msc, host)
    BY <1>1, <2>1 DEF InCommand
  <2>3. /\ host'.phase \in {"recover", "idle"}
        /\ host'.expects = IF msc.packet.status = "FAILED" THEN Reason(host.command) ELSE "OK"
    BY <1>0, <2>1 DEF HostState
  <2>4. Quiet(msc', host')
    <3> DEFINE a == host'
    <3>1. a.expects = IF msc.packet.status = "FAILED" THEN Reason(host.command) ELSE "OK"
      BY <2>3
    <3> HIDE DEF a
    <3>2. Quiet(CommandWanted(msc), a)
      BY <1>0, <2>1, <2>2, <3>1, CommandWantedAgrees
    <3>. QED
      BY <2>1, <3>2 DEF a
  <2>. QED
    BY <2>3, <2>4 DEF Agree, InCommand, BetweenCommands
<1>. QED
  BY <1>3, <1>4, <1>5, <1>6, <1>7, <1>8, <1>9, <1>10 DEF Bulk

LEMMA TaskAgrees ==
    ASSUME TransferInv, Fit, Agree, Disk, ~disk'.late
    PROVE  Agree'
<1>0. /\ host \in HostState /\ MscFits(msc) /\ msc \in MscState
      /\ msc.token \in Nat /\ disk.queued \in 0..msc.token /\ disk.running \in 0..msc.token
      /\ disk \in [queued : Nat, running : Nat, dropped : BOOLEAN, late : BOOLEAN]
      /\ msc.held \in BOOLEAN
  BY HostIsState, TransferTypes
<1>1. ASSUME msc' = msc, host' = host, Stale' => Stale PROVE Agree'
  BY <1>1 DEF Agree, InCommand, Wrote
<1>2. CASE DiskStarts
  <2>1. /\ disk.queued # 0 /\ disk.running = 0 /\ msc' = msc /\ host' = host
        /\ disk' = [disk EXCEPT !.queued = 0, !.running = disk.queued]
    BY <1>2 DEF DiskStarts
  <2>2. disk'.queued = 0 /\ disk'.running = disk.queued
    BY <1>0, <2>1
  <2>3. Stale' => Stale
    BY <1>0, <2>1, <2>2 DEF Stale, Outstanding
  <2>. QED
    BY <1>1, <2>1, <2>3
<1>3. ASSUME NEW ok \in BOOLEAN, NEW async \in BOOLEAN, DiskEnds(ok, async)
      PROVE  Agree'
  <2>1. /\ disk.running # 0 /\ host' = host
        /\ msc' = Completed(msc, ok, async)
        /\ disk' = [disk EXCEPT !.running = 0,
                                !.queued = IF msc'.held /\ msc'.token # msc.token
                                           THEN msc'.token ELSE @,
                                !.late = @ \/ TooLate(ok)]
    BY <1>3 DEF DiskEnds
  <2>2. /\ disk'.running = 0
        /\ disk'.queued = IF msc'.held /\ msc'.token # msc.token THEN msc'.token
                          ELSE disk.queued
    BY <1>0, <2>1
  <2>3. CASE disk.running # msc.token
    <3>1. msc' = msc
      BY <2>1, <2>3 DEF Completed
    <3>2. Stale' => Stale
      BY <1>0, <2>2, <3>1 DEF Stale, Outstanding
    <3>. QED
      BY <1>1, <2>1, <3>1, <3>2
  <2>5. CASE disk.running = msc.token /\ ~msc.held
    <3>1. /\ msc.out = "cmd" /\ msc.csw.tag = 0 /\ msc'.in = msc.in
          /\ msc'.out \in {"cmd", "none"} /\ msc'.halt = msc.halt /\ msc'.held = FALSE
          /\ msc'.csw_on_unstall = msc.csw_on_unstall /\ msc'.sense = msc.sense
          /\ msc'.stall_before_csw = msc.stall_before_csw
      BY <1>3, <2>5, EarlyCompletion
    <3>2. ~InCommand
      <4>1. ~Refused(msc)
        BY <3>1 DEF Refused
      <4>2. Current(msc, host) => host.tag = 0
        BY <3>1 DEF Current
      <4>. QED
        BY <4>1, <4>2 DEF Agree, Exchange
    <3>3. Quiet(msc, host) => Quiet(msc', host)
      BY <3>1 DEF Quiet
    <3>. QED
      BY <2>1, <3>1, <3>2, <3>3 DEF Agree, InCommand
  <2>4. CASE disk.running = msc.token /\ msc.held
    <3>1. msc' = TakeDeferred(DonePacket(IF ok THEN msc ELSE ErrorEnds(msc)), async)
      BY <2>1, <2>4 DEF Completed
    <3>2. host.phase \notin BetweenCommands
      BY <2>4 DEF Agree, Quiet
    <3>3. InCommand => Exchange(msc', host) /\ host.tag # 0
      <4>1. ASSUME InCommand PROVE Exchange(msc', host) /\ host.tag # 0
        <5>1. Exchange(msc, host) /\ host.tag # 0
          BY <4>1 DEF Agree
        <5>2. Exchange(TakeDeferred(DonePacket(msc), async), host)
          BY <1>0, <2>4, <5>1, PacketEndsAgrees
        <5>3. Exchange(TakeDeferred(DonePacket(ErrorEnds(msc)), async), host)
          BY <1>0, <2>4, <5>1, ErrorEndsAgrees
        <5>. QED
          BY <3>1, <5>1, <5>2, <5>3
      <4>. QED
        BY <4>1
    <3>5. disk.queued = 0
      BY <1>0, <2>4 DEF TransferInv, TasksInOrder
    <3>6. ~Stale'
      <4>1. CASE msc'.held
        BY <4>1 DEF Stale
      <4>2. CASE ~msc'.held
        BY <2>2, <3>5, <4>2 DEF Stale, Outstanding
      <4>. QED
        BY <4>1, <4>2
    <3>7. AgreeStep
      BY <2>1, <3>2, <3>3, <3>6 DEF AgreeStep, InCommand
    <3>. QED
      BY <3>7, AgreeStepKeeps
  <2>. QED
    BY <2>3, <2>4, <2>5
<1>. QED
  BY <1>2, <1>3 DEF Disk

\* A reset brings both ends to the same point.
LEMMA ResetAgrees ==
    ASSUME TransferInv, HostResetsMsc \/ HostConfigures
    PROVE  Agree'
<1>1. /\ msc' = Cleared(msc.token, TRUE)
      /\ \E p \in {"recover_in", "idle"} :
            host' = [host EXCEPT !.phase = p, !.expects = "OK"]
  BY DEF HostResetsMsc, MscReset, HostConfigures
<1>2. host'.phase \in {"recover_in", "idle"} /\ host'.expects = "OK"
  BY <1>1 DEF TransferInv, HostTypeOK
<1>3. /\ msc'.in = "none" /\ msc'.out = "cmd" /\ msc'.csw_on_unstall = FALSE
      /\ msc'.halt = [e \in Endpoints |-> "none"] /\ msc'.stall_before_csw = "none"
      /\ msc'.held = FALSE /\ msc'.sense = "OK"
  BY <1>1 DEF Cleared
<1>4. Quiet(msc', host') /\ msc'.halt["OUT"] = "none"
  BY <1>2, <1>3 DEF Quiet, Endpoints
<1>. QED
  BY <1>2, <1>4 DEF Agree, InCommand, BetweenCommands

LEMMA RequestAgrees ==
    ASSUME TransferInv, Fit, Agree,
           HostClearsHalt \/ HostUnconfigures \/ HostResetsBus
              \/ PicobootResets \/ PicobootEjects
    PROVE  Agree'
<1>0. /\ host \in HostState /\ MscFits(msc) /\ msc \in MscState /\ msc.token \in Nat
      /\ disk \in [queued : {0, disk.queued}, running : {disk.running},
                   dropped : BOOLEAN, late : BOOLEAN]
  BY HostIsState, TransferTypes
<1>2. CASE HostUnconfigures \/ HostResetsBus
  <2>1. host' = [host EXCEPT !.phase = "off"]
    BY <1>2 DEF HostUnconfigures, HostResetsBus, LosesConfiguration
  <2>2. host'.phase = "off"
    BY <1>0, <2>1 DEF HostState
  <2>. QED
    BY <2>2 DEF Agree, InCommand, BetweenCommands
<1>3. CASE PicobootResets
  <2>1. /\ msc' = msc /\ host' = host
        /\ disk' = [disk EXCEPT !.queued = 0,
                      !.dropped = @ \/ (msc.held /\ disk.queued = msc.token)]
    BY <1>3 DEF PicobootResets
  <2>2. disk'.queued = 0 /\ disk'.running = disk.running
    BY <1>0, <2>1
  <2>3. Stale' => Stale
    BY <2>1, <2>2 DEF Stale, Outstanding
  <2>. QED
    BY <2>1, <2>3 DEF Agree, InCommand, BetweenCommands, Wrote
<1>4. CASE PicobootEjects
  <2>1. msc' = [msc EXCEPT !.ejected = TRUE] /\ host' = host /\ disk' = disk
    BY <1>4 DEF PicobootEjects
  <2>2. /\ msc'.csw = msc.csw /\ msc'.stall_before_csw = msc.stall_before_csw
        /\ msc'.csw_on_unstall = msc.csw_on_unstall /\ msc'.sense = msc.sense
        /\ msc'.token = msc.token /\ msc'.in = msc.in /\ msc'.out = msc.out
        /\ msc'.halt = msc.halt /\ msc'.packet = msc.packet /\ msc'.offset = msc.offset
        /\ msc'.length = msc.length /\ msc'.held = msc.held
        /\ msc'.deferred = msc.deferred
    BY <1>0, <2>1 DEF MscState
  <2>3. ASSUME NEW n, n.csw = msc.csw, n.stall_before_csw = msc.stall_before_csw,
               n.csw_on_unstall = msc.csw_on_unstall, n.sense = msc.sense,
               n.in = msc.in, n.out = msc.out, n.halt = msc.halt, n.packet = msc.packet,
               n.offset = msc.offset, n.length = msc.length, n.held = msc.held,
               n.deferred = msc.deferred
        PROVE  /\ Quiet(msc, host) => Quiet(n, host)
               /\ Exchange(msc, host) => Exchange(n, host)
    <3>1. Current(msc, host) => Current(n, host)
      BY <2>3 DEF Current, Sensed
    <3>2. Refused(msc) => Refused(n)
      BY <2>3 DEF Refused
    <3>3. StallsBefore(msc, host) => StallsBefore(n, host)
      BY <2>3 DEF StallsBefore
    <3>4. Ends(msc, host) => Ends(n, host)
      BY <2>3 DEF Ends
    <3>5. Replying(msc, host) => Replying(n, host)
      BY <2>3, <3>3 DEF Replying
    <3>6. Reading(msc, host) => Reading(n, host)
      BY <2>3, <3>3, <3>4 DEF Reading
    <3>7. Writing(msc, host) => Writing(n, host)
      BY <2>3, <3>3, <3>4 DEF Writing, Sending
    <3>8. Stalling(msc, host) => Stalling(n, host)
      BY <2>3 DEF Stalling, Residue
    <3>9. Told(msc, host) => Told(n, host)
      BY <2>3 DEF Told, Residue
    <3>10. Quiet(msc, host) => Quiet(n, host)
      BY <2>3 DEF Quiet
    <3>. QED
      BY <3>1, <3>2, <3>5, <3>6, <3>7, <3>8, <3>9, <3>10 DEF Exchange
  <2>4. Stale' => Stale
    BY <2>1, <2>2 DEF Stale, Outstanding
  <2>5. /\ Quiet(msc, host) => Quiet(msc', host)
        /\ Exchange(msc, host) => Exchange(msc', host)
    BY <2>2, <2>3
  <2>. QED
    BY <2>1, <2>2, <2>4, <2>5 DEF Agree, InCommand, BetweenCommands, Wrote
<1>5. CASE HostClearsHalt
  <2>1. PICK p \in {"clear_in", "clear_out", "recover_in", "recover_out"} :
           /\ host.phase = p /\ disk' = disk
           /\ msc' = ClearHalt(msc, IF p \in {"clear_in", "recover_in"} THEN "IN" ELSE "OUT")
           /\ host' = [host EXCEPT !.phase = CASE p = "recover_in" -> "recover_out"
                                               [] p = "recover_out" -> "idle"
                                               [] OTHER -> "status"]
    BY <1>5 DEF HostClearsHalt, HostClears, At
  <2>2. CASE p \in {"clear_in", "clear_out"}
    <3>1. host' = [host EXCEPT !.phase = "status"] /\ host'.phase = "status"
      BY <1>0, <2>1, <2>2 DEF HostState
    <3>2. Exchange(msc, host) /\ host.tag # 0 /\ (Wrote => ~Stale)
      BY <2>1, <2>2 DEF Agree, InCommand, BetweenCommands, Wrote
    <3>3. Exchange(msc', host')
      BY <1>0, <2>1, <2>2, <3>1, <3>2, ClearHaltAgrees
    <3>5. ~msc.held
      <4>1. CASE host.command.op = "invalid"
        BY <1>0, <3>2, <4>1 DEF Exchange, Current, Refused, MscFits
      <4>2. CASE host.command.op # "invalid"
        <5>1. ~Writing(msc, host)
          BY <2>1, <2>2 DEF Writing, Sending
        <5>2. msc.out # "stream"
          BY <3>2, <4>2, <5>1 DEF Exchange, Replying, Reading, Stalling, Told
        <5>. QED
          BY <1>0, <5>2 DEF MscFits
      <4>. QED
        BY <4>1, <4>2
    <3>6. msc'.token = msc.token
      BY <1>0, <2>1, ClearHaltFits DEF Endpoints
    <3>7. host'.tag # 0 /\ (Wrote' => ~Stale')
      <4>1. host'.tag = host.tag /\ (Wrote' => Wrote)
        BY <1>0, <3>1 DEF HostState, Wrote
      <4>. QED
        BY <1>0, <2>1, <3>2, <3>5, <3>6, <4>1, StaleKept
    <3>8. AgreeStep
      BY <3>1, <3>3, <3>7 DEF AgreeStep, BetweenCommands
    <3>. QED
      BY <3>8, AgreeStepKeeps
  <2>3. CASE p \in {"recover_in", "recover_out"}
    <3>1. Quiet(msc, host) /\ msc.halt["OUT"] = "none"
      BY <2>1, <2>3 DEF Agree, BetweenCommands
    <3>2. /\ host'.phase = IF p = "recover_in" THEN "recover_out" ELSE "idle"
          /\ host'.expects = host.expects
      BY <1>0, <2>1, <2>3 DEF HostState
    <3>3. Quiet(msc', host') /\ (p = "recover_in" => msc'.halt["OUT"] = "none")
      <4> DEFINE a == host'
      <4>1. a.expects = host.expects
        BY <3>2
      <4> HIDE DEF a
      <4>2. /\ Quiet(ClearHalt(msc, "IN"), a)
            /\ Quiet(ClearHalt(msc, "OUT"), a)
            /\ ClearHalt(msc, "IN").halt["OUT"] = msc.halt["OUT"]
        BY <1>0, <3>1, <4>1, ClearHaltQuiet
      <4>. QED
        BY <2>1, <2>3, <3>1, <4>2 DEF a
    <3>. QED
      BY <2>3, <3>2, <3>3 DEF Agree, InCommand, BetweenCommands, Wrote
  <2>. QED
    BY <2>2, <2>3
<1>. QED
  BY <1>2, <1>3, <1>4, <1>5

LEMMA AgreeStepKept ==
    ASSUME InterfaceInv, InterfaceInv', AgreeInv, [MscNext]_mscAllVars
    PROVE  AgreeInv'
<1>1. TransferInv /\ TransferInv'
  BY DEF InterfaceInv
<1>2. ASSUME ~disk'.late PROVE Agree'
  <2>1. CASE HostResetsMsc \/ HostConfigures
    BY <1>1, <2>1, ResetAgrees
  <2>2. CASE ~(HostResetsMsc \/ HostConfigures)
    <3>1. Fit /\ Agree
      BY <1>1, <1>2, <2>2, LateKept DEF InterfaceInv, FitsInv, AgreeInv
    <3>2. CASE HostAsks \/ HostWaits \/ UNCHANGED mscAllVars
      <4>1. UNCHANGED mscVars
        BY <3>2 DEF HostAsks, HostWaits, mscAllVars
      <4>. QED
        BY <3>1, <4>1 DEF mscVars, Agree, InCommand, Wrote, Stale, Outstanding
    <3>3. CASE \E c \in Command : HostSendsCommand(c)
      BY <1>1, <3>1, <3>3, CommandAgrees
    <3>4. CASE Bulk \/ HostTimesOut
      BY <1>1, <3>1, <3>4, BulkAgrees
    <3>5. CASE Disk
      BY <1>1, <1>2, <3>1, <3>5, TaskAgrees
    <3>6. CASE HostClearsHalt \/ HostUnconfigures \/ HostResetsBus
                  \/ PicobootResets \/ PicobootEjects
      BY <1>1, <3>1, <3>6, RequestAgrees
    <3>. QED
      BY <2>2, <3>2, <3>3, <3>4, <3>5, <3>6 DEF MscNext
  <2>. QED
    BY <2>1, <2>2
<1>. QED
  BY <1>2 DEF AgreeInv

LEMMA AgreeInvariant == MscSafety => [](InterfaceInv /\ AgreeInv)
<1>1. MscInit => AgreeInv
  BY DEF MscInit, AgreeInv, Agree, InCommand, BetweenCommands
<1>2. /\ (ControlInv /\ InterfaceInv) /\ (ControlInv /\ InterfaceInv)'
      /\ AgreeInv /\ [MscNext]_mscAllVars
      => AgreeInv'
  BY AgreeStepKept
<1>. QED
  BY <1>1, <1>2, MscInvariant, PTL DEF MscSafety

\* The two ends agree on what goes over an endpoint, for any commands, until a
\* completion comes too late (_msc_data_phase_complete, _msc_init_for_di_or_do).
THEOREM PhasesCorrect == MscSafety => []PhasesAgree
<1>1. ASSUME InterfaceInv, AgreeInv PROVE PhasesAgree
  <2> SUFFICES ASSUME ~disk.late PROVE PhasesAgree
    BY DEF PhasesAgree
  <2>0. Agree
    BY <1>1 DEF AgreeInv
  <2>1. host.phase \in {"data", "status"} => Exchange(msc, host)
    BY <2>0 DEF Agree, InCommand
  <2>2. CASE host.command.op = "invalid"
    BY <2>1, <2>2 DEF Exchange, Current, Refused, PhasesAgree
  <2>3. CASE host.command.op # "invalid" /\ host.phase \in {"data", "status"}
    <3>1. CASE Replying(msc, host)
      BY <3>1 DEF Replying, PhasesAgree
    <3>2. CASE Reading(msc, host)
      BY <3>2 DEF Reading, PhasesAgree
    <3>3. CASE Writing(msc, host)
      BY <3>3 DEF Writing, Sending, StallsBefore, PhasesAgree
    <3>4. CASE Stalling(msc, host)
      <4>1. host.phase = "status" => ~host.cleared
        BY <3>4 DEF Stalling
      <4>. QED
        BY <3>4, <4>1 DEF Stalling, PhasesAgree
    <3>5. CASE Told(msc, host)
      BY <3>5 DEF Told, PhasesAgree
    <3>. QED
      BY <2>1, <2>3, <3>1, <3>2, <3>3, <3>4, <3>5 DEF Exchange
  <2>. QED
    BY <2>2, <2>3 DEF PhasesAgree
<1>. QED
  BY <1>1, AgreeInvariant, PTL

\* The status a host reads is that of its own command, tells how much was moved,
\* and lets no command that moved data pass with a sector still to be written, until a
\* completion comes too late (vd_async_complete).
THEOREM StatusCorrect == MscSafety => []StatusIsTrue
<1>1. ASSUME InterfaceInv, AgreeInv PROVE StatusIsTrue
  <2> SUFFICES ASSUME msc.in = "csw", host.phase \in {"data", "status"}, ~disk.late
               PROVE  /\ msc.packet.tag = host.tag
                      /\ (msc.packet.status # "FAILED" \/ host.command.op # "write") =>
                            msc.packet.residue = host.command.dtl - host.moved
                      /\ Wrote => ~Outstanding
    BY DEF StatusIsTrue, Wrote
  <2>1. Exchange(msc, host) /\ (Wrote => ~Stale) /\ MscFits(msc)
    BY <1>1 DEF AgreeInv, Agree, InCommand, InterfaceInv, FitsInv, Fit
  <2>2. Told(msc, host)
    BY <2>1 DEF Exchange, Refused, Replying, Reading, Writing, Sending, Stalling
  <2>3. ~msc.held
    BY <2>1, <2>2 DEF MscFits, Told
  <2>. QED
    BY <2>1, <2>2, <2>3 DEF Told, Residue, Stale
<1>. QED
  BY <1>1, AgreeInvariant, PTL

\* REQUEST SENSE tells the reason of the failure the host was told of, until a
\* completion comes too late (_msc_set_csw_failed, _scsi_handle_request_sense).
THEOREM SenseCorrect == MscSafety => []SenseTellsFailure
<1>1. AgreeInv => SenseTellsFailure
  BY DEF AgreeInv, Agree, InCommand, SenseTellsFailure, Exchange, Current, Refused, Replying,
         Reading, Writing, Sending, Stalling, Told
<1>. QED
  BY <1>1, AgreeInvariant, PTL
=============================================================================
