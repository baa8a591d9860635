--------------------------- MODULE Picoboot_proofs ---------------------------
(***************************************************************************)
(* Proofs about PICOBOOT, for any commands, flash and resets of the host:  *)
(*   - it is an instance of the task mechanism: every step of it is a step *)
(*     of AsyncTask, whose theorems therefore hold of it;                  *)
(*   - its tasks and transfers are those of the stream's command; and for  *)
(*     a host that sends no command across an answer it has one task at a  *)
(*     time, no queued task is overwritten, the status tells who is at     *)
(*     work, and acknowledgements find IN idle;                            *)
(*   - a WRITE that is acknowledged is in the flash.                       *)
(*                                                                         *)
(* The inductive invariant has a part for every host: the types and        *)
(* MatchInv, which go together, because the type of the stream's position  *)
(* needs that a stream has a command.  FreeInv and StatusInv are about a   *)
(* host that crosses no answer (~crossed): a command that arrives then     *)
(* finds IN idle, so nothing but the stream has an endpoint while a task   *)
(* is queued.  Before the first reset no answer is left over for the host  *)
(* to cross, and CalmInv needs no such premise; WriteInv rests on it.      *)
(***************************************************************************)
EXTENDS Picoboot, AsyncTask_proofs

Transfer == {"none", "default", "stream", "ack"}

\* What the operations on endpoints make of one.
LEMMA EndpointOps ==
    ASSUME NEW e \in [Direction -> Endpoint], NEW d \in Direction,
           NEW transfer \in Transfer
    PROVE  /\ Ended(e, d) \in [Direction -> Endpoint]
           /\ Halted(e, d) \in [Direction -> Endpoint]
           /\ Started(e, d, transfer) \in [Direction -> Endpoint]
           /\ \A f \in Direction :
                 /\ Ended(e, d)[f].halted = e[f].halted
                 /\ Started(e, d, transfer)[f].halted = e[f].halted
                 /\ Halted(e, d)[f].transfer = e[f].transfer
                 /\ f # d => /\ Ended(e, d)[f] = e[f]
                             /\ Started(e, d, transfer)[f] = e[f]
                             /\ Halted(e, d)[f] = e[f]
           /\ Ended(e, d)[d].transfer = "none"
           /\ Started(e, d, transfer)[d].transfer = transfer
           /\ Halted(e, d)[d].halted
  BY DEF Ended, Halted, Started, Endpoint, Transfer

\* An acknowledgement goes out on one endpoint and leaves the other alone.
LEMMA AckOp ==
    ASSUME NEW e \in [Direction -> Endpoint], NEW c
    PROVE  /\ Ack(e, c) \in [Direction -> Endpoint]
           /\ Ack(e, c) = Started(e, IF c.flag = "READ" THEN "out" ELSE "in", "ack")
  BY EndpointOps DEF Ack, Direction, Transfer

\* The task of a chunk is one the queue of PICOBOOT may hold.
LEMMA TaskType ==
    ASSUME NEW c \in Command, c.flag # "REBOOT", NEW i \in DOMAIN c.addr,
           NEW check \in BOOLEAN, NEW token \in 1..MaxCommands
    PROVE  /\ CommandTask(c, i, check, token) \in TasksOf["picoboot"]
           /\ CommandTask(c, i, check, token).token = token
           /\ CommandTask(c, i, check, token).type = {c.flag}
           /\ CommandTask(c, i, check, token) # NoTask
<1>1. CommandTask(c, i, check, token) \in TasksOf["picoboot"]
  BY PicobootAssumption
<1>2. CommandTask(c, i, check, token) \in Task
  BY <1>1, TasksAssumption DEF Queue
<1>. QED
  BY <1>1, <1>2, TasksAssumption DEF CommandTask

\* What a command has for the chunks of its stream.
LEMMA CommandParts ==
    ASSUME NEW c \in Command
    PROVE  /\ c \in PicobootCmd /\ c # NoCommand
           /\ c.addr \in Seq(Address) /\ c.data \in Seq(Data)
           /\ Len(c.addr) \in Nat \ {0} /\ DOMAIN c.addr = 1..Len(c.addr)
           /\ 1 \in DOMAIN c.addr
           /\ c.flag = "WRITE" => DOMAIN c.data = DOMAIN c.addr
<1>1. c \in PicobootCmd /\ c # NoCommand
  BY PicobootAssumption
<1>2. c.addr \in Seq(Address) /\ c.data \in Seq(Data)
  BY <1>1 DEF PicobootCmd
<1>3. Len(c.addr) >= 1 /\ (c.flag = "WRITE" => Len(c.data) = Len(c.addr))
  BY PicobootAssumption
<1>. QED
  BY <1>1, <1>2, <1>3

-----------------------------------------------------------------------------
(***************************************************************************)
(* Refinement: what the host does is the work of the interrupt handler.    *)
(***************************************************************************)

\* A stream that waits for its next chunk belongs to a READ or WRITE.
LEMMA StreamCommand ==
    ASSUME PicobootTypeOK, TasksMatchStream, NEW d \in Direction, ep[d].transfer = "stream"
    PROVE  /\ stream.command \in Command
           /\ stream.chunk \in DOMAIN stream.command.addr
           /\ HasData(stream.command) /\ stream.command.flag # "REBOOT"
           /\ d = "out" <=> stream.command.flag = "WRITE"
<1>1. d \in Streams
  BY DEF Streams
<1>2. /\ stream.command # NoCommand
      /\ HasData(stream.command) /\ d = streamEp(stream.command)
  BY <1>1 DEF TasksMatchStream
<1>. QED
  BY <1>2 DEF PicobootTypeOK, Stream, HasData, streamEp

\* The token of a new command is within its bound.
LEMMA NewToken ==
    ASSUME PicobootTypeOK, CommandArrives
    PROVE  sent' \in 1..MaxCommands /\ sent' = sent + 1
  BY PicobootAssumption DEF PicobootTypeOK, CommandArrives

\* A chunk that is asked for is queued like any task of PICOBOOT.
LEMMA ChunkQueued ==
    ASSUME NEW s, s.command \in Command, s.command.flag # "REBOOT",
           NEW i \in DOMAIN s.command.addr, s.check \in BOOLEAN,
           s.token \in 1..MaxCommands, QueueChunk(s, i)
    PROVE  \E t \in TasksOf["picoboot"] : queue_task("picoboot", t)
  BY TaskType DEF QueueChunk

\* A step of the host is a step of the interrupt handler of AsyncTask, or leaves
\* its variables alone.
LEMMA HostIsHandler ==
    ASSUME AsyncTypeOK, PicobootTypeOK, TasksMatchStream, Host
    PROVE  Handler \/ UNCHANGED asyncVars
<1> USE DEF workerVars, flashVars, sharedVars, Queue
<1>1. CASE HostSendsJunk \/ HostSendsBadCommand \/ HostSendsWrite
           \/ HostTakesAck \/ HostClearsHalt
  BY <1>1 DEF HostSendsJunk, HostSendsBadCommand, HostSendsWrite, HostTakesAck,
              HostClearsHalt
<1>2. CASE HostSendsReboot
  <2>1. HandlerReboots
    BY <1>2 DEF HostSendsReboot, HandlerReboots
  <2>. QED
    BY <2>1 DEF Handler
<1>3. CASE HostSendsCommand
  <2>1. PICK c \in Command :
           /\ c.flag # "REBOOT"
           /\ queue_task("picoboot", CommandTask(c, 1, FALSE, sent'))
    BY <1>3 DEF HostSendsCommand
  <2>2. CommandTask(c, 1, FALSE, sent') \in TasksOf["picoboot"]
    BY <1>3, <2>1, NewToken, CommandParts, TaskType DEF HostSendsCommand
  <2>3. HandlerQueuesTask("picoboot")
    BY <1>3, <2>1, <2>2 DEF HostSendsCommand, HandlerQueuesTask
  <2>. QED
    BY <2>3 DEF Handler
<1>4. CASE HostSendsRead
  <2>1. PICK c \in Command :
           /\ c.flag = "READ"
           /\ QueueChunk(NewStream(c), 1) \/ UNCHANGED <<slot, event>>
    BY <1>4 DEF HostSendsRead
  <2>2. CASE QueueChunk(NewStream(c), 1)
    <3>1. \E t \in TasksOf["picoboot"] : queue_task("picoboot", t)
      <4>1. sent' \in 1..MaxCommands /\ 1 \in DOMAIN c.addr
        BY <1>4, <2>1, NewToken, CommandParts DEF HostSendsRead
      <4>. QED
        BY <2>1, <2>2, <4>1, TaskType DEF QueueChunk, NewStream
    <3>2. HandlerQueuesTask("picoboot")
      BY <1>4, <3>1 DEF HostSendsRead, HandlerQueuesTask
    <3>. QED
      BY <3>2 DEF Handler
  <2>3. CASE UNCHANGED <<slot, event>>
    BY <1>4, <2>3 DEF HostSendsRead, asyncVars
  <2>. QED
    BY <2>1, <2>2, <2>3
<1>5. CASE HostSendsPart
  <2>1. HandlerFillsBuffer("picoboot")
    BY <1>5 DEF HostSendsPart, HandlerFillsBuffer, fill_buffer
  <2>. QED
    BY <2>1 DEF Handler
<1>s. ASSUME NEW d \in Direction, ep[d].transfer = "stream"
      PROVE  stream.token \in 1..MaxCommands /\ stream.check \in BOOLEAN
  BY <1>s, StreamCommand, PicobootAssumption DEF PicobootTypeOK, Stream
<1>6. CASE HostSendsChunk
  <2>1. /\ "out" \in Direction /\ ep["out"].transfer = "stream"
        /\ QueueChunk(stream, stream.chunk)
        /\ buffer' = [buffer EXCEPT !["picoboot"] = stream.command.data[stream.chunk]]
    BY <1>6 DEF HostSendsChunk, Direction, Idle
  <2>2. /\ stream.command \in Command /\ stream.command.flag = "WRITE"
        /\ stream.chunk \in DOMAIN stream.command.addr
    BY <2>1, StreamCommand
  <2>3. \E t \in TasksOf["picoboot"] : queue_task("picoboot", t)
    BY <2>1, <2>2, <1>s, ChunkQueued
  <2>4. stream.command.data[stream.chunk] \in Data
    BY <2>2, CommandParts
  <2>5. fill_buffer("picoboot")
    BY <2>1, <2>4 DEF fill_buffer
  <2>6. HandlerQueuesTask("picoboot")
    BY <1>6, <2>3, <2>5 DEF HostSendsChunk, HandlerQueuesTask
  <2>. QED
    BY <2>6 DEF Handler
<1>7. CASE HostReadsChunk
  <2>1. "in" \in Direction /\ ep["in"].transfer = "stream"
    BY <1>7 DEF HostReadsChunk, Direction, Idle
  <2>2. CASE ~IsLast /\ QueueChunk(stream, stream.chunk + 1)
    <3>1. /\ stream.command \in Command /\ stream.command.flag # "REBOOT"
          /\ stream.chunk + 1 \in DOMAIN stream.command.addr
      BY <2>1, <2>2, StreamCommand, CommandParts DEF IsLast
    <3>2. \E t \in TasksOf["picoboot"] : queue_task("picoboot", t)
      BY <2>1, <2>2, <3>1, <1>s, ChunkQueued
    <3>3. HandlerQueuesTask("picoboot")
      BY <1>7, <3>2 DEF HostReadsChunk, HandlerQueuesTask
    <3>. QED
      BY <3>3 DEF Handler
  <2>3. CASE UNCHANGED <<slot, event, stream>>
    BY <1>7, <2>3 DEF HostReadsChunk, asyncVars
  <2>. QED
    BY <1>7, <2>2, <2>3 DEF HostReadsChunk
<1>8. CASE HostUsesDisk
  BY <1>8 DEF HostUsesDisk, Handler
<1>9. CASE HostResetsPicoboot \/ HostConfigures
  <2>1. HandlerResetsQueues
    BY <1>9 DEF HostResetsPicoboot, HostConfigures, PicobootReset,
                HandlerResetsQueues, AsyncTypeOK, PicobootTypeOK
  <2>. QED
    BY <2>1 DEF Handler
<1>10. CASE HostUnconfigures
  <2>1. HandlerAbortsFlash
    BY <1>10 DEF HostUnconfigures, HandlerAbortsFlash
  <2>. QED
    BY <2>1 DEF Handler
<1>. QED
  BY <1>1, <1>2, <1>3, <1>4, <1>5, <1>6, <1>7, <1>8, <1>9, <1>10 DEF Host

\* Every step of PICOBOOT is a step of the task mechanism.
LEMMA StepIsAsyncStep ==
    ASSUME AsyncTypeOK, PicobootTypeOK, TasksMatchStream, [PicobootNext]_picobootVars
    PROVE  [AsyncNext]_asyncVars
<1>1. CASE Host
  BY <1>1, HostIsHandler DEF AsyncNext
<1>2. CASE Work /\ UNCHANGED usbVars
  BY <1>2 DEF AsyncNext
<1>3. CASE AckCommand \/ FinishChunk \/ DiskComplete
  <2>1. /\ TaskDone /\ rebooting' \in {rebooting, TRUE}
        /\ UNCHANGED <<slot, event, flashVars, disable, aborted, ejected, buffer>>
    BY <1>3 DEF AckCommand, FinishChunk, DiskComplete, sharedVars
  <2>2. Complete
    BY <2>1 DEF Complete
  <2>. QED
    BY <2>2 DEF AsyncNext
<1>4. CASE UNCHANGED picobootVars
  BY <1>4 DEF picobootVars
<1>. QED
  BY <1>1, <1>2, <1>3, <1>4 DEF PicobootNext, PicobootWork

-----------------------------------------------------------------------------
(***************************************************************************)
(* Types.                                                                  *)
(***************************************************************************)

StreamOK(s) ==
    /\ s \in Stream
    /\ s.command # NoCommand => s.chunk \in DOMAIN s.command.addr /\ s.token >= 1

\* A new command leaves a stream of the right type, and so does a chunk of it.
LEMMA NewStreamType ==
    ASSUME PicobootTypeOK, CommandArrives, NEW c \in Command
    PROVE  StreamOK(NewStream(c)) /\ NewStream(c).token = sent'
<1>1. sent' \in Nat \ {0}
  BY NewToken, PicobootAssumption
<1>. QED
  BY <1>1, CommandParts DEF StreamOK, NewStream, Stream

LEMMA ChunkType ==
    ASSUME NEW s, StreamOK(s), s.command \in Command,
           NEW i \in DOMAIN s.command.addr, QueueChunk(s, i)
    PROVE  StreamOK(stream') /\ stream'.token = s.token /\ stream'.command = s.command
<1>1. i \in Nat \ {0}
  BY CommandParts
<1>. QED
  BY <1>1 DEF StreamOK, QueueChunk, Stream

\* The types hold of the endpoints a command or an acknowledgement leaves.
LEMMA EndpointType ==
    ASSUME PicobootTypeOK, NEW c
    PROVE  /\ Ended(ep, "out") \in [Direction -> Endpoint]
           /\ Ended(Halted(Halted(ep, "in"), "out"), "out") \in [Direction -> Endpoint]
           /\ Started(ep, "out", "stream") \in [Direction -> Endpoint]
           /\ Started(Ended(ep, "out"), "in", "stream") \in [Direction -> Endpoint]
           /\ Ack(ep, c) \in [Direction -> Endpoint]
           /\ \A d \in Direction :
                 /\ Ack(Ended(ep, d), c) \in [Direction -> Endpoint]
                 /\ Ended(ep, d) \in [Direction -> Endpoint]
                 /\ Ended(Halted(ep, d), d) \in [Direction -> Endpoint]
                 /\ Started(Ended(ep, d), "out", "default") \in [Direction -> Endpoint]
<1>1. /\ ep \in [Direction -> Endpoint] /\ "in" \in Direction /\ "out" \in Direction
      /\ "stream" \in Transfer /\ "default" \in Transfer /\ "ack" \in Transfer
  BY DEF PicobootTypeOK, Direction, Transfer
<1>2. \A d \in Direction : Ended(ep, d) \in [Direction -> Endpoint]
                           /\ Halted(ep, d) \in [Direction -> Endpoint]
  BY <1>1, EndpointOps
<1>3. Halted(Halted(ep, "in"), "out") \in [Direction -> Endpoint]
  BY <1>1, <1>2, EndpointOps
<1>. QED
  BY <1>1, <1>2, <1>3, EndpointOps, AckOp

LEMMA PicobootTypeStep ==
    ASSUME AsyncTypeOK, PicobootTypeOK, TasksMatchStream, [PicobootNext]_picobootVars
    PROVE  PicobootTypeOK'
<1>a. /\ ep \in [Direction -> Endpoint] /\ StreamOK(stream)
      /\ cmd_status \in [bInProgress : BOOLEAN, dStatusCode : StatusCode]
      /\ configured \in BOOLEAN /\ resets \in 0..MaxResets
      /\ sent \in 0..MaxCommands /\ stream.token \in Nat /\ stream.token <= sent
      /\ crossed \in BOOLEAN
  BY DEF PicobootTypeOK, StreamOK, Stream
<1>b. \A code \in StatusCode :
         /\ InProgress(code) \in [bInProgress : BOOLEAN, dStatusCode : StatusCode]
         /\ Over(code) \in [bInProgress : BOOLEAN, dStatusCode : StatusCode]
         /\ [cmd_status EXCEPT !.dStatusCode = code]
               \in [bInProgress : BOOLEAN, dStatusCode : StatusCode]
  BY <1>a DEF InProgress, Over
<1>c. "OK" \in StatusCode /\ cmd_status.dStatusCode \in StatusCode /\ result \in StatusCode
  BY <1>a DEF StatusCode, Result, AsyncTypeOK
<1>d. ASSUME /\ ep' \in [Direction -> Endpoint] /\ StreamOK(stream')
             /\ cmd_status' \in [bInProgress : BOOLEAN, dStatusCode : StatusCode]
             /\ configured' \in BOOLEAN /\ resets' \in 0..MaxResets
             /\ sent' \in 0..MaxCommands /\ stream'.token <= sent'
             /\ crossed' \in BOOLEAN
      PROVE  PicobootTypeOK'
  BY <1>d DEF PicobootTypeOK, StreamOK
<1>e. CommandArrives => /\ sent' \in 0..MaxCommands /\ stream.token <= sent'
                        /\ sent' <= sent' /\ crossed' \in BOOLEAN
  BY <1>a, PicobootAssumption DEF CommandArrives
<1>1. CASE HostSendsJunk
  BY <1>1, <1>a, <1>d, <1>e, EndpointType DEF HostSendsJunk, RefuseCommand
<1>2. CASE HostSendsBadCommand
  <2>1. PICK c \in Command : /\ c.defect \notin {"NONE", "BAD_MAGIC"}
                             /\ stream' = NewStream(c) /\ cmd_status' = Over(c.defect)
    BY <1>2 DEF HostSendsBadCommand
  <2>2. c.defect \in StatusCode
    BY CommandParts DEF PicobootCmd, StatusCode
  <2>. QED
    BY <1>2, <2>1, <2>2, <1>a, <1>b, <1>d, <1>e, EndpointType, NewStreamType
    DEF HostSendsBadCommand, RefuseCommand
<1>3. CASE HostSendsReboot
  <2>1. PICK c \in Command : stream' = NewStream(c) /\ ep' = Ack(Ended(ep, "out"), c)
    BY <1>3 DEF HostSendsReboot
  <2>. QED
    BY <1>3, <2>1, <1>a, <1>b, <1>c, <1>d, <1>e, EndpointType, NewStreamType
    DEF HostSendsReboot, Direction
<1>4. CASE HostSendsCommand
  <2>1. PICK c \in Command : stream' = NewStream(c)
    BY <1>4 DEF HostSendsCommand
  <2>. QED
    BY <1>4, <2>1, <1>a, <1>b, <1>c, <1>d, <1>e, EndpointType, NewStreamType
    DEF HostSendsCommand
<1>5. CASE HostSendsWrite
  <2>1. PICK c \in Command : stream' = NewStream(c)
    BY <1>5 DEF HostSendsWrite
  <2>. QED
    BY <1>5, <2>1, <1>a, <1>b, <1>c, <1>d, <1>e, EndpointType, NewStreamType
    DEF HostSendsWrite
<1>6. CASE HostSendsRead
  <2>1. PICK c \in Command : QueueChunk(NewStream(c), 1) \/ stream' = NewStream(c)
    BY <1>6 DEF HostSendsRead
  <2>2. /\ StreamOK(NewStream(c)) /\ NewStream(c).token = sent'
        /\ NewStream(c).command = c /\ 1 \in DOMAIN c.addr
    BY <1>6, NewStreamType, CommandParts DEF HostSendsRead, NewStream
  <2>3. StreamOK(stream') /\ stream'.token = sent'
    BY <2>1, <2>2, ChunkType
  <2>. QED
    BY <1>6, <2>3, <1>a, <1>b, <1>c, <1>d, <1>e, EndpointType DEF HostSendsRead
<1>7. CASE HostSendsPart \/ HostUsesDisk
  BY <1>7, <1>a, <1>d DEF HostSendsPart, HostUsesDisk, usbVars
<1>8. CASE HostSendsChunk
  <2>1. /\ "out" \in Direction /\ ep["out"].transfer = "stream"
        /\ QueueChunk(stream, stream.chunk)
    BY <1>8 DEF HostSendsChunk, Direction, Idle
  <2>2. StreamOK(stream') /\ stream'.token = stream.token
    BY <2>1, <1>a, StreamCommand, ChunkType
  <2>. QED
    BY <1>8, <2>2, <1>a, <1>d DEF HostSendsChunk
<1>9. CASE HostReadsChunk
  <2>1. "in" \in Direction /\ ep["in"].transfer = "stream"
    BY <1>9 DEF HostReadsChunk, Direction, Idle
  <2>2. CASE ~IsLast /\ QueueChunk(stream, stream.chunk + 1) /\ UNCHANGED <<ep, cmd_status>>
    <3>1. stream.command \in Command /\ stream.chunk + 1 \in DOMAIN stream.command.addr
      BY <2>1, <2>2, StreamCommand, CommandParts DEF IsLast
    <3>2. StreamOK(stream') /\ stream'.token = stream.token
      BY <2>2, <3>1, <1>a, ChunkType
    <3>. QED
      BY <1>9, <2>2, <3>2, <1>a, <1>d DEF HostReadsChunk
  <2>3. CASE /\ ep' = Ack(Ended(ep, "in"), stream.command)
             /\ cmd_status' = Over(cmd_status.dStatusCode)
             /\ UNCHANGED <<slot, event, stream>>
    BY <1>9, <2>1, <2>3, <1>a, <1>b, <1>c, <1>d, EndpointType DEF HostReadsChunk
  <2>. QED
    BY <1>9, <2>2, <2>3 DEF HostReadsChunk
<1>10. CASE HostTakesAck
  <2>1. PICK d \in Direction :
           LET e == Ended(ep, d)
           IN  ep' = IF e["out"].halted THEN e ELSE Started(e, "out", "default")
    BY <1>10 DEF HostTakesAck
  <2>. QED
    BY <1>10, <2>1, <1>a, <1>d, EndpointType DEF HostTakesAck
<1>11. CASE HostClearsHalt
  BY <1>11, <1>a, <1>d DEF HostClearsHalt, Idle, Endpoint
<1>12. CASE HostResetsPicoboot \/ HostConfigures \/ HostUnconfigures
  <2>1. ep' \in [Direction -> Endpoint]
    <3>1. Idle("none") \in Endpoint /\ Idle("default") \in Endpoint
      BY DEF Idle, Endpoint
    <3>2. ResetEndpoints => ep' \in [Direction -> Endpoint]
      BY <3>1 DEF ResetEndpoints
    <3>3. HostUnconfigures => ep' \in [Direction -> Endpoint]
      BY <3>1 DEF HostUnconfigures
    <3>. QED
      BY <1>12, <3>2, <3>3 DEF HostResetsPicoboot, HostConfigures, PicobootReset
  <2>2. resets' \in 0..MaxResets
    BY <1>12, <1>a, PicobootAssumption
    DEF HostResetsPicoboot, HostConfigures, HostUnconfigures, CountReset
  <2>. QED
    BY <1>12, <2>1, <2>2, <1>a, <1>b, <1>c, <1>d
    DEF HostResetsPicoboot, HostConfigures, HostUnconfigures, PicobootReset
<1>13. CASE AckCommand
  BY <1>13, <1>a, <1>b, <1>c, <1>d, EndpointType DEF AckCommand
<1>14. CASE FinishChunk
  <2>1. CASE UNCHANGED <<ep, cmd_status, stream>>
    BY <1>14, <2>1, <1>a, <1>d DEF FinishChunk
  <2>2. CASE ChunkFails
    <3>1. streamEp(stream.command) \in Direction
      BY DEF streamEp, Direction
    <3>2. StreamOK(stream') /\ stream'.token = stream.token
      BY <2>2, <1>a DEF ChunkFails, StreamOK, Stream
    <3>. QED
      BY <1>14, <2>2, <3>1, <3>2, <1>a, <1>b, <1>c, <1>d, EndpointType
      DEF FinishChunk, ChunkFails
  <2>3. CASE Streaming /\ ChunkSucceeds
    <3>1. streamEp(stream.command) \in Direction /\ "out" \in Direction
      BY DEF streamEp, Direction
    <3>2. stream.command \in Command
      BY <2>3, <3>1, StreamCommand DEF Streaming
    <3>3. StreamOK(stream') /\ stream'.token = stream.token
      <4>1. stream.chunk \in 1..Len(stream.command.addr)
        BY <3>2, <1>a, CommandParts DEF StreamOK
      <4>2. CASE Does("WRITE") /\ ~IsLast
        <5>1. stream' = [stream EXCEPT !.outstanding = FALSE, !.chunk = stream.chunk + 1]
          BY <2>3, <4>2 DEF ChunkSucceeds
        <5>2. stream.chunk + 1 \in DOMAIN stream.command.addr
          BY <4>1, <4>2, <3>2, CommandParts DEF IsLast
        <5>3. stream.chunk + 1 \in Nat \ {0} /\ stream \in Stream
          BY <4>1, <1>a, <3>2, CommandParts DEF StreamOK
        <5>4. /\ stream' \in Stream /\ stream'.command = stream.command
              /\ stream'.token = stream.token /\ stream'.chunk = stream.chunk + 1
          BY <5>1, <5>3 DEF Stream
        <5>. QED
          BY <5>2, <5>4, <1>a, <3>2, CommandParts DEF StreamOK
      <4>3. CASE ~(Does("WRITE") /\ ~IsLast)
        <5>1. stream' = [stream EXCEPT !.outstanding = FALSE, !.chunk = stream.chunk]
          BY <2>3, <4>3 DEF ChunkSucceeds
        <5>. QED
          BY <5>1, <1>a DEF StreamOK, Stream
      <4>. QED
        BY <4>2, <4>3
    <3>4. ep' \in [Direction -> Endpoint]
      <4>1. CASE Does("WRITE") /\ IsLast
        <5>1. ep' = Ack(Ended(ep, "out"), stream.command)
          BY <2>3, <4>1 DEF ChunkSucceeds
        <5>. QED
          BY <5>1, <3>1, EndpointType
      <4>2. CASE ~(Does("WRITE") /\ IsLast)
        BY <2>3, <4>2, <1>a DEF ChunkSucceeds
      <4>. QED
        BY <4>1, <4>2
    <3>5. cmd_status' \in [bInProgress : BOOLEAN, dStatusCode : StatusCode]
      BY <2>3, <1>b, <1>c DEF ChunkSucceeds
    <3>. QED
      BY <1>14, <3>3, <3>4, <3>5, <1>a, <1>d DEF FinishChunk
  <2>4. CASE ChunkOutlivesStream
    BY <1>14, <2>4, <1>a, <1>b, <1>c, <1>d DEF FinishChunk, ChunkOutlivesStream
  <2>. QED
    BY <1>14, <2>1, <2>2, <2>3, <2>4 DEF FinishChunk
<1>15. CASE UNCHANGED usbVars
  BY <1>15, <1>a, <1>d DEF usbVars
<1>. QED
  BY <1>1, <1>2, <1>3, <1>4, <1>5, <1>6, <1>7, <1>8, <1>9, <1>10, <1>11, <1>12,
     <1>13, <1>14, <1>15
  DEF PicobootNext, PicobootWork, Host, DiskComplete, picobootVars

-----------------------------------------------------------------------------
(***************************************************************************)
(* The tasks and the transfer of PICOBOOT are those of the stream's        *)
(* command, whatever the host does.  TasksMatchStream in terms of the two  *)
(* places a task can be.                                                   *)
(***************************************************************************)

Queued  == slot["picoboot"] # NoTask
Running == source = "picoboot" /\ running # NoTask

\* The task belongs to the command the stream was last set up for.
OwnQueued  == Queued /\ slot["picoboot"].token = stream.token
OwnRunning == Running /\ IsCurrent

RunningInv ==
    Running => /\ running.token <= sent
               /\ IsCurrent => /\ stream.command # NoCommand
                               /\ running.type = {stream.command.flag}

WaitingInv ==
    Queued => /\ slot["picoboot"].token <= sent
              /\ OwnQueued => /\ stream.command # NoCommand
                              /\ slot["picoboot"].type = {stream.command.flag}
                              /\ ~OwnRunning

TransferInv ==
    /\ \A d \in Direction : ep[d].transfer = "stream" =>
          /\ stream.command # NoCommand
          /\ HasData(stream.command) /\ d = streamEp(stream.command)
          /\ OwnQueued \/ OwnRunning => stream.outstanding
    /\ ep["in"].transfer = "stream" => ep["out"].transfer = "none" /\ ~ep["out"].halted

MatchInv == RunningInv /\ WaitingInv /\ TransferInv

LEMMA OutstandingIs ==
    ASSUME NEW t \in Outstanding
    PROVE  \/ Queued /\ t = slot["picoboot"]
           \/ Running /\ t = running
  BY DEF Outstanding, Queued, Running

LEMMA MatchUnfolded ==
    ASSUME MatchInv
    PROVE  TasksMatchStream
<1>1. \A t \in Outstanding : t.token <= sent
  BY OutstandingIs DEF MatchInv, RunningInv, WaitingInv
<1>2. \A t \in Current : stream.command # NoCommand /\ t.type = {stream.command.flag}
  BY OutstandingIs DEF Current, MatchInv, RunningInv, WaitingInv, OwnQueued, IsCurrent
<1>3. \A d \in Streams : /\ stream.command # NoCommand
                         /\ HasData(stream.command) /\ d = streamEp(stream.command)
  BY DEF Streams, MatchInv, TransferInv
<1>. QED
  BY <1>1, <1>2, <1>3 DEF TasksMatchStream

\* A stream that waits for its next chunk has no task of its own.
LEMMA NoOwnTask ==
    ASSUME MatchInv, NEW d \in Direction, ep[d].transfer = "stream", ~Deferred
    PROVE  /\ ~OwnQueued /\ ~OwnRunning
           /\ stream.command # NoCommand /\ HasData(stream.command)
           /\ d = streamEp(stream.command)
  BY DEF MatchInv, TransferInv, Deferred

\* A command finds no stream, and gets a token that no task has.
LEMMA CommandIsNew ==
    ASSUME AsyncTypeOK, PicobootTypeOK, MatchInv, CommandArrives
    PROVE  /\ ep \in [Direction -> Endpoint] /\ "in" \in Direction /\ "out" \in Direction
           /\ ep["out"].transfer = "default" /\ ~ep["out"].halted
           /\ ep["in"].transfer # "stream"
           /\ sent \in Nat /\ sent' = sent + 1
           /\ Running => running.token <= sent' /\ running.token # sent'
           /\ Queued => /\ slot["picoboot"].token <= sent'
                        /\ slot["picoboot"].token # sent'
<1>1. /\ ep["out"].transfer = "default" /\ ~ep["out"].halted
      /\ sent' = sent + 1 /\ sent \in Nat
  BY PicobootAssumption DEF CommandArrives, Idle, PicobootTypeOK
<1>2. ep["in"].transfer # "stream"
  BY <1>1 DEF MatchInv, TransferInv
<1>3. (Running => running.token \in Nat) /\ (Queued => slot["picoboot"].token \in Nat)
  <2>1. /\ Running => running \in TasksOf["picoboot"]
        /\ Queued => slot["picoboot"] \in TasksOf["picoboot"]
    BY DEF Running, Queued, AsyncTypeOK, Queue
  <2>2. \A t \in TasksOf["picoboot"] : t.token \in Nat
    BY TasksAssumption DEF Queue, Task
  <2>. QED
    BY <2>1, <2>2
<1>. QED
  BY <1>1, <1>2, <1>3 DEF MatchInv, RunningInv, WaitingInv, PicobootTypeOK, Direction

\* Where no endpoint streams, the invariant is about the tasks.
LEMMA MatchQuiet ==
    ASSUME RunningInv', WaitingInv', \A d \in Direction : ep'[d].transfer # "stream"
    PROVE  MatchInv'
  BY DEF MatchInv, TransferInv, Direction

\* A command that arrives leaves the task that runs, if any, to an older one.
LEMMA RunningIsOld ==
    ASSUME AsyncTypeOK, PicobootTypeOK, MatchInv, CommandArrives,
           UNCHANGED workerVars,
           stream'.token = sent' \/ stream' = stream
    PROVE  /\ RunningInv'
           /\ stream'.token = sent' => ~OwnRunning'
<1>1. (Running' <=> Running) /\ running' = running
  BY DEF Running, workerVars
<1>2. Running => running.token <= sent' /\ running.token # sent'
  BY CommandIsNew
<1>3. stream'.token = sent' => ~OwnRunning'
  BY <1>1, <1>2 DEF OwnRunning, IsCurrent
<1>4. stream' = stream => RunningInv'
  BY <1>1, <1>2 DEF RunningInv, MatchInv, IsCurrent
<1>5. stream'.token = sent' => RunningInv'
  BY <1>1, <1>2, <1>3 DEF RunningInv, OwnRunning
<1>. QED
  BY <1>3, <1>4, <1>5

\* So does one that queues nothing with the task that is queued, if any.
LEMMA QueuedIsOld ==
    ASSUME AsyncTypeOK, PicobootTypeOK, MatchInv, CommandArrives,
           UNCHANGED workerVars, slot'["picoboot"] = slot["picoboot"],
           stream'.token = sent' \/ stream' = stream
    PROVE  /\ WaitingInv'
           /\ stream'.token = sent' => ~OwnQueued'
<1>1. (Queued' <=> Queued) /\ (Running' <=> Running) /\ running' = running
  BY DEF Queued, Running, workerVars
<1>2. Queued => slot["picoboot"].token <= sent' /\ slot["picoboot"].token # sent'
  BY CommandIsNew
<1>3. stream'.token = sent' => ~OwnQueued'
  BY <1>1, <1>2 DEF OwnQueued
<1>4. stream' = stream => WaitingInv'
  BY <1>1, <1>2 DEF WaitingInv, MatchInv, OwnQueued, OwnRunning, IsCurrent
<1>5. stream'.token = sent' => WaitingInv'
  BY <1>1, <1>2, <1>3 DEF WaitingInv
<1>. QED
  BY <1>3, <1>4, <1>5

LEMMA SlotSet ==
    ASSUME AsyncTypeOK, NEW t, queue_task("picoboot", t)
    PROVE  slot'["picoboot"] = t
  BY DEF AsyncTypeOK, queue_task, Queue

\* The task of a new command.
LEMMA NewTask ==
    ASSUME AsyncTypeOK, PicobootTypeOK, MatchInv, CommandArrives, UNCHANGED workerVars,
           NEW c \in Command, stream'.command = c, stream'.token = sent',
           queue_task("picoboot", CommandTask(c, 1, FALSE, sent'))
    PROVE  RunningInv' /\ WaitingInv' /\ slot'["picoboot"].token = sent'
<1>1. slot'["picoboot"] = CommandTask(c, 1, FALSE, sent')
  BY SlotSet
<1>2. slot'["picoboot"].token = sent' /\ slot'["picoboot"].type = {c.flag}
  BY <1>1 DEF CommandTask
<1>3. RunningInv' /\ ~OwnRunning'
  BY RunningIsOld
<1>4. sent' <= sent' /\ c # NoCommand
  BY CommandIsNew, CommandParts
<1>. QED
  BY <1>2, <1>3, <1>4 DEF WaitingInv

LEMMA MatchCommand ==
    ASSUME AsyncTypeOK, PicobootTypeOK, MatchInv,
           HostSendsJunk \/ HostSendsBadCommand \/ HostSendsReboot \/ HostSendsCommand
    PROVE  MatchInv'
<1>a. CommandArrives /\ UNCHANGED workerVars
  BY DEF HostSendsJunk, HostSendsBadCommand, HostSendsReboot, HostSendsCommand, asyncVars
<1>b. /\ ep \in [Direction -> Endpoint] /\ "in" \in Direction /\ "out" \in Direction
      /\ ep["out"].transfer = "default" /\ ep["in"].transfer # "stream"
  BY <1>a, CommandIsNew
<1>c. RefuseCommand => \A d \in Direction : ep'[d].transfer # "stream"
  BY <1>b DEF RefuseCommand, Ended, Halted, Direction, Endpoint
<1>1. CASE HostSendsJunk
  <2>1. slot' = slot /\ stream' = stream
    BY <1>1 DEF HostSendsJunk, asyncVars
  <2>. QED
    BY <1>1, <2>1, <1>a, <1>c, RunningIsOld, QueuedIsOld, MatchQuiet DEF HostSendsJunk
<1>2. CASE HostSendsBadCommand
  <2>1. slot' = slot /\ stream'.token = sent'
    BY <1>2, <1>a, NewStreamType DEF HostSendsBadCommand, asyncVars
  <2>. QED
    BY <1>2, <2>1, <1>a, <1>c, RunningIsOld, QueuedIsOld, MatchQuiet
    DEF HostSendsBadCommand
<1>3. CASE HostSendsReboot
  <2>1. PICK c \in Command : stream' = NewStream(c) /\ ep' = Ack(Ended(ep, "out"), c)
    BY <1>3 DEF HostSendsReboot
  <2>2. slot' = slot /\ stream'.token = sent'
    BY <1>3, <2>1, <1>a, NewStreamType DEF HostSendsReboot
  <2>3. \A d \in Direction : ep'[d].transfer # "stream"
    BY <2>1, <1>b DEF Ack, Started, Ended, Direction, Endpoint
  <2>. QED
    BY <2>2, <2>3, <1>a, RunningIsOld, QueuedIsOld, MatchQuiet
<1>4. CASE HostSendsCommand
  <2>1. PICK c \in Command : /\ stream' = NewStream(c)
                             /\ queue_task("picoboot", CommandTask(c, 1, FALSE, sent'))
    BY <1>4 DEF HostSendsCommand
  <2>2. stream'.command = c /\ stream'.token = sent'
    BY <1>a, <2>1, NewStreamType DEF NewStream
  <2>3. \A d \in Direction : ep'[d].transfer # "stream"
    BY <1>4, <1>b DEF HostSendsCommand, Ended, Direction, Endpoint
  <2>. QED
    BY <2>1, <2>2, <2>3, <1>a, NewTask, MatchQuiet
<1>. QED
  BY <1>1, <1>2, <1>3, <1>4

LEMMA MatchTransfer ==
    ASSUME AsyncTypeOK, PicobootTypeOK, MatchInv, HostSendsWrite \/ HostSendsRead
    PROVE  MatchInv'
<1>a. CommandArrives /\ UNCHANGED workerVars
  BY DEF HostSendsWrite, HostSendsRead, asyncVars
<1>b. /\ ep \in [Direction -> Endpoint] /\ "in" \in Direction /\ "out" \in Direction
      /\ ep["out"].transfer = "default" /\ ~ep["out"].halted
      /\ ep["in"].transfer # "stream"
  BY <1>a, CommandIsNew
<1>1. CASE HostSendsWrite
  <2>1. PICK c \in Command : c.flag = "WRITE" /\ stream' = NewStream(c)
    BY <1>1 DEF HostSendsWrite
  <2>2. stream'.command = c /\ stream'.token = sent' /\ c # NoCommand
    BY <1>a, <2>1, CommandParts, NewStreamType DEF NewStream
  <2>3. ep'["out"].transfer = "stream" /\ ep'["in"].transfer # "stream"
    BY <1>1, <1>b DEF HostSendsWrite, Started, Direction, Endpoint
  <2>4. slot' = slot
    BY <1>1 DEF HostSendsWrite, asyncVars
  <2>5. RunningInv' /\ WaitingInv' /\ ~OwnRunning' /\ ~OwnQueued'
    BY <1>a, <2>2, <2>4, RunningIsOld, QueuedIsOld
  <2>6. TransferInv'
    BY <2>1, <2>2, <2>3, <2>5 DEF TransferInv, Direction, HasData, streamEp
  <2>. QED
    BY <2>5, <2>6 DEF MatchInv
<1>2. CASE HostSendsRead
  <2>1. PICK c \in Command :
           /\ c.flag = "READ"
           /\ \/ stream' = NewStream(c) /\ slot' = slot
              \/ QueueChunk(NewStream(c), 1)
    BY <1>2 DEF HostSendsRead
  <2>2. /\ NewStream(c).command = c /\ NewStream(c).token = sent'
        /\ NewStream(c).check = FALSE /\ StreamOK(NewStream(c))
        /\ c # NoCommand /\ 1 \in DOMAIN c.addr
    BY <1>a, CommandParts, NewStreamType DEF NewStream
  <2>3. /\ ep'["in"].transfer = "stream" /\ ~ep'["out"].halted
        /\ ep'["out"].transfer = "none"
    BY <1>2, <1>b DEF HostSendsRead, Started, Ended, Direction, Endpoint
  <2>4. CASE stream' = NewStream(c) /\ slot' = slot
    <3>1. stream'.command = c /\ stream'.token = sent'
      BY <2>2, <2>4
    <3>2. RunningInv' /\ WaitingInv' /\ ~OwnRunning' /\ ~OwnQueued'
      BY <1>a, <2>4, <3>1, RunningIsOld, QueuedIsOld
    <3>3. TransferInv'
      BY <2>1, <2>2, <2>3, <3>1, <3>2 DEF TransferInv, Direction, HasData, streamEp
    <3>. QED
      BY <3>2, <3>3 DEF MatchInv
  <2>5. CASE QueueChunk(NewStream(c), 1)
    <3>1. stream'.command = c /\ stream'.token = sent' /\ stream'.outstanding
      BY <2>2, <2>5, ChunkType DEF QueueChunk, StreamOK, Stream
    <3>2. queue_task("picoboot", CommandTask(c, 1, FALSE, sent'))
      BY <2>2, <2>5 DEF QueueChunk
    <3>3. RunningInv' /\ WaitingInv'
      BY <1>a, <3>1, <3>2, NewTask
    <3>4. TransferInv'
      BY <2>1, <2>2, <2>3, <3>1 DEF TransferInv, Direction, HasData, streamEp
    <3>. QED
      BY <3>3, <3>4 DEF MatchInv
  <2>. QED
    BY <2>1, <2>4, <2>5
<1>. QED
  BY <1>1, <1>2

\* Nothing about PICOBOOT changes.
LEMMA MatchFrame ==
    ASSUME MatchInv, slot'["picoboot"] = slot["picoboot"],
           UNCHANGED <<source, running, stream, ep, sent>>
    PROVE  MatchInv'
<1>1. /\ (Queued' <=> Queued) /\ (Running' <=> Running) /\ (IsCurrent' <=> IsCurrent)
      /\ (OwnQueued' <=> OwnQueued) /\ (OwnRunning' <=> OwnRunning)
  BY DEF Queued, Running, IsCurrent, OwnQueued, OwnRunning
<1>. QED
  BY <1>1 DEF MatchInv, RunningInv, WaitingInv, TransferInv

\* The task that ran is done with, or it was one of the virtual disk.
LEMMA MatchGone ==
    ASSUME MatchInv, slot'["picoboot"] = slot["picoboot"],
           UNCHANGED <<stream, ep, sent>>, ~Running'
    PROVE  MatchInv'
<1>1. (Queued' <=> Queued) /\ (OwnQueued' <=> OwnQueued) /\ ~OwnRunning'
  BY DEF Queued, OwnQueued, OwnRunning
<1>. QED
  BY <1>1 DEF MatchInv, RunningInv, WaitingInv, TransferInv

\* A stream asks for its next chunk when no task of its own is outstanding.
LEMMA MatchChunk ==
    ASSUME AsyncTypeOK, PicobootTypeOK, MatchInv,
           NEW d \in Direction, ep[d].transfer = "stream", ~Deferred,
           NEW i \in DOMAIN stream.command.addr, QueueChunk(stream, i),
           UNCHANGED <<workerVars, ep, sent>>
    PROVE  MatchInv' /\ OwnQueued' /\ stream'.command = stream.command
<1>1. /\ ~OwnQueued /\ ~OwnRunning
      /\ stream.command # NoCommand /\ HasData(stream.command)
  BY NoOwnTask
<1>2. stream.command \in Command /\ stream \in Stream /\ StreamOK(stream)
  BY <1>1 DEF PicobootTypeOK, StreamOK, Stream
<1>3. /\ stream'.command = stream.command /\ stream'.token = stream.token
      /\ stream'.outstanding
  BY <1>2, ChunkType DEF QueueChunk, Stream
<1>4. slot'["picoboot"] = CommandTask(stream.command, i, stream.check, stream.token)
  BY SlotSet DEF QueueChunk
<1>5. /\ slot'["picoboot"].token = stream.token
      /\ slot'["picoboot"].type = {stream.command.flag}
  BY <1>4 DEF CommandTask
<1>6. slot'["picoboot"] # NoTask
  <2>1. stream.token \in 1..MaxCommands /\ stream.check \in BOOLEAN
    BY <1>1, <1>2, PicobootAssumption DEF PicobootTypeOK, Stream
  <2>2. stream.command.flag # "REBOOT"
    BY <1>1 DEF HasData
  <2>. QED
    BY <1>2, <1>4, <2>1, <2>2, TaskType
<1>7. /\ (Running' <=> Running) /\ running' = running /\ (IsCurrent' <=> IsCurrent)
      /\ ~OwnRunning'
  BY <1>1, <1>3 DEF Running, IsCurrent, OwnRunning, workerVars
<1>8. RunningInv'
  BY <1>3, <1>7 DEF MatchInv, RunningInv
<1>9. WaitingInv' /\ OwnQueued'
  BY <1>1, <1>3, <1>5, <1>6, <1>7 DEF WaitingInv, OwnQueued, Queued, PicobootTypeOK
<1>10. TransferInv'
  BY <1>3 DEF MatchInv, TransferInv
<1>. QED
  BY <1>3, <1>8, <1>9, <1>10 DEF MatchInv

\* Data, and what the host does between commands.
LEMMA MatchData ==
    ASSUME AsyncTypeOK, PicobootTypeOK, MatchInv,
           \/ HostSendsPart \/ HostSendsChunk \/ HostReadsChunk \/ HostTakesAck
           \/ HostClearsHalt \/ HostUsesDisk
    PROVE  MatchInv'
<1>a. /\ ep \in [Direction -> Endpoint] /\ "in" \in Direction /\ "out" \in Direction
  BY DEF PicobootTypeOK, Direction
<1>b. UNCHANGED <<workerVars, sent>>
  BY DEF HostSendsPart, HostSendsChunk, HostReadsChunk, HostTakesAck, HostClearsHalt,
         HostUsesDisk, HandlerQueuesTask, usbVars, asyncVars
<1>c. UNCHANGED <<slot, stream>>
        => /\ RunningInv' /\ WaitingInv'
           /\ (OwnQueued' <=> OwnQueued) /\ (OwnRunning' <=> OwnRunning)
  BY <1>b DEF MatchInv, RunningInv, WaitingInv, Queued, Running, IsCurrent, OwnQueued,
              OwnRunning, workerVars
<1>1. CASE HostSendsPart \/ HostUsesDisk
  <2>1. UNCHANGED <<source, running, stream, ep, sent>>
    BY <1>1, <1>b DEF HostSendsPart, HostUsesDisk, usbVars, workerVars
  <2>2. slot'["picoboot"] = slot["picoboot"]
    BY <1>1 DEF HostSendsPart, HostUsesDisk, HandlerQueuesTask, queue_task,
                AsyncTypeOK, Queue
  <2>. QED
    BY <2>1, <2>2, MatchFrame
<1>2. CASE HostSendsChunk
  <2>1. /\ ep["out"].transfer = "stream" /\ ~Deferred
        /\ QueueChunk(stream, stream.chunk) /\ ep' = ep
    BY <1>2 DEF HostSendsChunk, Idle
  <2>2. stream.chunk \in DOMAIN stream.command.addr
    BY <2>1, <1>a, NoOwnTask DEF PicobootTypeOK
  <2>. QED
    BY <2>1, <2>2, <1>a, <1>b, MatchChunk
<1>3. CASE HostReadsChunk
  <2>1. ep["in"].transfer = "stream" /\ ~Deferred
    BY <1>3 DEF HostReadsChunk, Idle
  <2>2. CASE ~IsLast /\ QueueChunk(stream, stream.chunk + 1) /\ UNCHANGED ep
    <3>1. stream.command \in Command /\ stream.chunk \in DOMAIN stream.command.addr
      BY <2>1, <1>a, NoOwnTask DEF PicobootTypeOK, Stream
    <3>2. stream.chunk + 1 \in DOMAIN stream.command.addr
      BY <3>1, <2>2, CommandParts DEF IsLast
    <3>. QED
      BY <2>1, <2>2, <3>2, <1>a, <1>b, MatchChunk
  <2>3. CASE /\ ep' = Ack(Ended(ep, "in"), stream.command)
             /\ UNCHANGED <<slot, stream>>
    <3>1. ep["out"].transfer = "none"
      BY <2>1 DEF MatchInv, TransferInv
    <3>2. \A d \in Direction : ep'[d].transfer # "stream"
      BY <2>3, <3>1, <1>a DEF Ack, Started, Ended, Direction, Endpoint
    <3>. QED
      BY <2>3, <3>2, <1>c, MatchQuiet
  <2>. QED
    BY <1>3, <2>2, <2>3 DEF HostReadsChunk
<1>4. CASE HostTakesAck
  <2>1. PICK d \in Direction :
           /\ ep[d] = Idle("ack")
           /\ LET e == Ended(ep, d)
              IN  ep' = IF e["out"].halted THEN e ELSE Started(e, "out", "default")
    BY <1>4 DEF HostTakesAck
  <2>2. ep[d].transfer = "ack"
    BY <2>1 DEF Idle
  <2>3. ep["in"].transfer # "stream"
    BY <2>2 DEF MatchInv, TransferInv, Direction
  <2>4. UNCHANGED <<slot, stream>>
    BY <1>4 DEF HostTakesAck, asyncVars
  \* OUT goes back to waiting for commands, whatever it was in the middle of.
  <2>5. CASE Ended(ep, d)["out"].halted
    <3>1. ep' = Ended(ep, d)
      BY <2>1, <2>5
    <3>2. ep'["in"].transfer # "stream" /\ (ep'["out"].transfer = "stream"
                                             => ep["out"].transfer = "stream")
      BY <2>3, <3>1, <1>a DEF Ended, Endpoint, Direction
    <3>3. TransferInv'
      BY <1>c, <2>4, <3>2 DEF MatchInv, TransferInv, Direction
    <3>. QED
      BY <1>c, <2>4, <3>3 DEF MatchInv
  <2>6. CASE ~Ended(ep, d)["out"].halted
    <3>1. ep' = Started(Ended(ep, d), "out", "default")
      BY <2>1, <2>6
    <3>2. \A f \in Direction : ep'[f].transfer # "stream"
      BY <2>3, <3>1, <1>a DEF Started, Ended, Direction, Endpoint
    <3>. QED
      BY <1>c, <2>4, <3>2, MatchQuiet
  <2>. QED
    BY <2>5, <2>6
<1>5. CASE HostClearsHalt
  <2>1. PICK d \in Direction :
           /\ ep[d].halted
           /\ ep' = [ep EXCEPT ![d] = Idle(IF d = "out" THEN "default" ELSE "none")]
    BY <1>5 DEF HostClearsHalt
  <2>2. UNCHANGED <<slot, stream>>
    BY <1>5 DEF HostClearsHalt, asyncVars
  <2>3. CASE d = "out"
    <3>1. ep["in"].transfer # "stream"
      BY <2>1, <2>3 DEF MatchInv, TransferInv
    <3>2. \A f \in Direction : ep'[f].transfer # "stream"
      BY <2>1, <2>3, <3>1, <1>a DEF Idle, Direction
    <3>. QED
      BY <1>c, <2>2, <3>2, MatchQuiet
  <2>4. CASE d = "in"
    <3>1. ep'["out"] = ep["out"] /\ ep'["in"].transfer = "none"
      BY <2>1, <2>4, <1>a DEF Idle
    <3>2. TransferInv'
      BY <1>c, <2>2, <3>1 DEF MatchInv, TransferInv, Direction
    <3>. QED
      BY <1>c, <2>2, <3>2 DEF MatchInv
  <2>. QED
    BY <2>3, <2>4 DEF Direction
<1>. QED
  BY <1>1, <1>2, <1>3, <1>4, <1>5

\* A reset ends the streams.
LEMMA MatchReset ==
    ASSUME AsyncTypeOK, PicobootTypeOK, MatchInv,
           HostResetsPicoboot \/ HostConfigures \/ HostUnconfigures
    PROVE  MatchInv'
<1>1. UNCHANGED <<workerVars, stream, sent>>
  BY DEF HostResetsPicoboot, HostConfigures, HostUnconfigures
<1>2. slot'["picoboot"] \in {slot["picoboot"], NoTask}
  BY DEF HostResetsPicoboot, HostConfigures, HostUnconfigures, PicobootReset,
         reset_queues, Queue
<1>3. RunningInv' /\ WaitingInv'
  BY <1>1, <1>2 DEF MatchInv, RunningInv, WaitingInv, Queued, Running, IsCurrent,
                    OwnQueued, OwnRunning, workerVars
<1>4. \A d \in Direction : ep'[d].transfer # "stream"
  BY DEF HostResetsPicoboot, HostConfigures, HostUnconfigures, PicobootReset,
         ResetEndpoints, Idle
<1>. QED
  BY <1>3, <1>4, MatchQuiet

\* The completions.
LEMMA MatchComplete ==
    ASSUME AsyncTypeOK, PicobootTypeOK, MatchInv,
           AckCommand \/ FinishChunk \/ DiskComplete
    PROVE  MatchInv'
<1>a. /\ ep \in [Direction -> Endpoint] /\ "in" \in Direction /\ "out" \in Direction
      /\ stream \in Stream
  BY DEF PicobootTypeOK, Direction
<1>b. TaskDone /\ slot' = slot /\ sent' = sent
  BY DEF AckCommand, FinishChunk, DiskComplete, usbVars
<1>c. ~Running' /\ running # NoTask /\ (Queued' <=> Queued)
  BY <1>b DEF TaskDone, Running, Queued, AsyncTypeOK
<1>d. RunningInv' /\ ~OwnRunning'
  BY <1>c DEF RunningInv, OwnRunning
<1>e. UNCHANGED <<stream, ep>> => MatchInv'
  BY <1>b, <1>c, MatchGone
<1>f. source = "picoboot" /\ IsCurrent
        => /\ OwnRunning /\ ~OwnQueued /\ stream.command # NoCommand
           /\ running.type = {stream.command.flag}
  BY <1>c DEF MatchInv, RunningInv, WaitingInv, Running, OwnRunning, OwnQueued
<1>g. ASSUME stream'.command = stream.command, stream'.token = stream.token
      PROVE  WaitingInv' /\ (OwnQueued' <=> OwnQueued)
  <2>1. OwnQueued' <=> OwnQueued
    BY <1>b, <1>c, <1>g DEF OwnQueued
  <2>. QED
    BY <1>b, <1>c, <1>d, <1>g, <2>1 DEF MatchInv, WaitingInv
<1>1. CASE DiskComplete
  BY <1>1, <1>e DEF DiskComplete, usbVars
<1>2. CASE AckCommand
  <2>1. CASE IsCurrent
    <3>1. /\ ep' = Ack(ep, stream.command) /\ source = "picoboot" /\ ~ReadsOrWrites
          /\ stream' = stream
      BY <1>2, <2>1 DEF AckCommand
    <3>2. ~HasData(stream.command)
      BY <3>1, <2>1, <1>f DEF ReadsOrWrites, Does, HasData
    <3>3. \A d \in Direction : ep[d].transfer # "stream"
      BY <3>2 DEF MatchInv, TransferInv
    <3>4. \A d \in Direction : ep'[d].transfer # "stream"
      BY <3>1, <3>3, <1>a DEF Ack, Started, Direction, Endpoint
    <3>. QED
      BY <3>1, <3>4, <1>d, <1>g, MatchQuiet
  <2>2. CASE ~IsCurrent
    BY <1>2, <2>2, <1>e DEF AckCommand
  <2>. QED
    BY <2>1, <2>2
<1>3. CASE FinishChunk
  <2>1. CASE UNCHANGED <<ep, stream>>
    BY <2>1, <1>e
  <2>a. ChunkFails \/ ChunkSucceeds
          => stream'.command = stream.command /\ stream'.token = stream.token
    BY <1>a DEF ChunkFails, ChunkSucceeds, Stream
  <2>2. CASE IsCurrent /\ ChunkFails
    <3>1. streamEp(stream.command) \in Direction
      BY DEF streamEp, Direction
    <3>2. \A d \in Direction : ep[d].transfer = "stream" => d = streamEp(stream.command)
      BY DEF MatchInv, TransferInv
    <3>3. \A d \in Direction : ep'[d].transfer # "stream"
      BY <2>2, <3>1, <3>2, <1>a DEF ChunkFails, Ended, Halted, Endpoint
    <3>. QED
      BY <2>2, <2>a, <3>3, <1>d, <1>g, MatchQuiet
  <2>3. CASE IsCurrent /\ ChunkSucceeds
    <3>1. ~OwnQueued /\ running.type = {stream.command.flag}
      BY <1>3, <2>3, <1>f DEF FinishChunk
    <3>2. CASE Does("WRITE") /\ IsLast
      <4>1. ep' = Ack(Ended(ep, "out"), stream.command)
        BY <2>3, <3>2 DEF ChunkSucceeds
      <4>2. stream.command.flag = "WRITE"
        BY <3>1, <3>2 DEF Does
      <4>3. ep["in"].transfer # "stream"
        BY <4>2, <1>a DEF MatchInv, TransferInv, streamEp
      <4>4. \A d \in Direction : ep'[d].transfer # "stream"
        BY <4>1, <4>2, <4>3, <1>a DEF Ack, Started, Ended, Direction, Endpoint
      <4>. QED
        BY <2>3, <2>a, <4>4, <1>d, <1>g, MatchQuiet
    <3>3. CASE ~(Does("WRITE") /\ IsLast)
      <4>1. ep' = ep
        BY <2>3, <3>3 DEF ChunkSucceeds
      <4>2. ~OwnQueued' /\ ~OwnRunning'
        BY <2>3, <2>a, <3>1, <1>d, <1>g
      <4>3. TransferInv'
        BY <2>3, <2>a, <4>1, <4>2 DEF MatchInv, TransferInv
      <4>. QED
        BY <2>3, <2>a, <4>3, <1>d, <1>g DEF MatchInv
    <3>. QED
      BY <3>2, <3>3
  <2>. QED
    BY <1>3, <2>1, <2>2, <2>3 DEF FinishChunk, ChunkOutlivesStream
<1>. QED
  BY <1>1, <1>2, <1>3

\* The worker takes the task out of the queue, and keeps it until it completes.
LEMMA MatchWork ==
    ASSUME AsyncTypeOK, PicobootTypeOK, MatchInv, Work, UNCHANGED usbVars
    PROVE  MatchInv'
<1>a. UNCHANGED <<stream, ep, sent>>
  BY DEF usbVars
<1>1. CASE full("disk") /\ dequeue_task("disk")
  <2>1. slot'["picoboot"] = slot["picoboot"] /\ ~Running'
    BY <1>1 DEF dequeue_task, Running, AsyncTypeOK, Queue
  <2>. QED
    BY <2>1, <1>a, MatchGone
<1>2. CASE full("picoboot") /\ dequeue_task("picoboot")
  <2>1. /\ Queued /\ running' = slot["picoboot"] /\ slot'["picoboot"] = NoTask
        /\ source' = "picoboot"
    BY <1>2 DEF dequeue_task, full, Queued, AsyncTypeOK, Queue
  <2>2. ~Queued' /\ ~OwnQueued' /\ (OwnRunning' <=> OwnQueued) /\ (IsCurrent' => OwnQueued)
    BY <2>1, <1>a DEF Queued, Running, OwnQueued, OwnRunning, IsCurrent
  <2>3. RunningInv' /\ WaitingInv'
    BY <2>1, <2>2, <1>a DEF MatchInv, WaitingInv, RunningInv
  <2>4. TransferInv'
    BY <2>2, <1>a DEF MatchInv, TransferInv
  <2>. QED
    BY <2>3, <2>4 DEF MatchInv
<1>3. CASE UNCHANGED <<slot, source, running>>
  BY <1>3, <1>a, MatchFrame
<1>. QED
  BY <1>1, <1>2, <1>3
  DEF Work, PollDisk, PollPicoboot, Wake, Refuse, Accept, RefuseVectors, Prepare,
      EraseSector, SkipAccess, AccessMemory, ReadFlash, StartProgram, EndProgram, Finish

LEMMA MatchStep ==
    ASSUME AsyncTypeOK, PicobootTypeOK, MatchInv, [PicobootNext]_picobootVars
    PROVE  MatchInv'
<1>1. CASE Host
  BY <1>1, MatchCommand, MatchTransfer, MatchData, MatchReset DEF Host
<1>2. CASE Work /\ UNCHANGED usbVars
  BY <1>2, MatchWork
<1>3. CASE AckCommand \/ FinishChunk \/ DiskComplete
  BY <1>3, MatchComplete
<1>4. CASE UNCHANGED picobootVars
  BY <1>4, MatchFrame DEF picobootVars, asyncVars, usbVars, workerVars
<1>. QED
  BY <1>1, <1>2, <1>3, <1>4 DEF PicobootNext, PicobootWork

-----------------------------------------------------------------------------
(***************************************************************************)
(* One task at a time, for a host that sends no command across an answer:  *)
(* no command arrives while a task is queued, and nothing but the stream   *)
(* has an endpoint while there is one.                                     *)
(***************************************************************************)

FreeInv ==
    /\ Queued => /\ slot["picoboot"].token = stream.token
                 /\ ep["out"].transfer \in {"stream", "none"} /\ ~ep["out"].halted
                 /\ ep["in"].transfer # "ack"
    /\ \A d \in Direction : ep[d].transfer = "stream" =>
          /\ ~ep["out"].halted
          /\ \A f \in Direction : ep[f].transfer \in {"stream", "none"}

\* With MatchInv that is what follows of the task that is queued and of the
\* streams.
QueuedInv ==
    Queued => /\ stream.command # NoCommand
              /\ slot["picoboot"].type = {stream.command.flag}
              /\ slot["picoboot"].token = stream.token
              /\ ~(Running /\ IsCurrent)
              /\ ep["out"].transfer \in {"stream", "none"} /\ ~ep["out"].halted
              /\ ep["in"].transfer # "ack"

StreamInv ==
    \A d \in Direction : ep[d].transfer = "stream" =>
       /\ stream.command # NoCommand
       /\ HasData(stream.command) /\ d = streamEp(stream.command)
       /\ Queued \/ (Running /\ IsCurrent) => stream.outstanding
       /\ ~ep["out"].halted
       /\ \A f \in Direction : ep[f].transfer \in {"stream", "none"}

OneTaskInv == RunningInv /\ QueuedInv /\ StreamInv

LEMMA OneTaskFolded ==
    ASSUME MatchInv, FreeInv
    PROVE  OneTaskInv
<1>1. Queued => OwnQueued
  BY DEF FreeInv, OwnQueued
<1>. QED
  BY <1>1 DEF MatchInv, FreeInv, WaitingInv, TransferInv, OwnRunning, OneTaskInv,
              QueuedInv, StreamInv

LEMMA OneTaskUnfolded ==
    ASSUME MatchInv, ~crossed => FreeInv
    PROVE  OneTask
<1>1. TasksMatchStream
  BY MatchUnfolded
<1>2. ASSUME ~crossed PROVE OneTaskOfStream /\ OneTaskOfQueue
  <2>1. OneTaskInv
    BY <1>2, OneTaskFolded
  <2>2. Current # {} => Queued \/ (Running /\ IsCurrent)
    BY OutstandingIs DEF Current, IsCurrent
  <2>3. OneTaskOfStream
    BY <2>1, <2>2 DEF OneTaskOfStream, Streams, OneTaskInv, StreamInv
  <2>4. OneTaskOfQueue
    BY <2>1 DEF OneTaskOfQueue, full, OneTaskInv, QueuedInv, Queued, Running, IsCurrent
  <2>. QED
    BY <2>3, <2>4
<1>. QED
  BY <1>1, <1>2 DEF OneTask

\* No command arrives, and no stream waits for its next chunk, while a task is
\* queued.
LEMMA NothingQueued ==
    ASSUME OneTaskInv
    PROVE  /\ CommandArrives => ~Queued
           /\ \A d \in Direction : ep[d].transfer = "stream" /\ ~Deferred
                 => ~Queued /\ ~(Running /\ IsCurrent)
<1>1. CommandArrives => ep["out"].transfer = "default"
  BY DEF CommandArrives, Idle
<1>. QED
  BY <1>1 DEF OneTaskInv, QueuedInv, StreamInv, Deferred

\* What a command finds.
LEMMA Arrived ==
    ASSUME PicobootTypeOK, OneTaskInv, CommandArrives, ~crossed'
    PROVE  /\ ep \in [Direction -> Endpoint]
           /\ ep["out"].transfer = "default" /\ ep["in"].transfer = "none"
           /\ ~ep["out"].halted /\ ~ep["in"].halted
           /\ ~Queued
<1>1. ep["in"] = Idle("none") /\ ep["out"] = Idle("default")
  BY DEF CommandArrives
<1>. QED
  BY <1>1, NothingQueued DEF Idle, PicobootTypeOK

\* Where no endpoint streams and nothing is queued there is nothing to show.
LEMMA FreeQuiet ==
    ASSUME ~Queued', \A d \in Direction : ep'[d].transfer # "stream"
    PROVE  FreeInv'
  BY DEF FreeInv

\* Every command but a READ or WRITE starts no stream.
LEMMA FreeCommand ==
    ASSUME AsyncTypeOK, PicobootTypeOK, OneTaskInv, ~crossed',
           HostSendsJunk \/ HostSendsBadCommand \/ HostSendsReboot \/ HostSendsCommand
    PROVE  FreeInv'
<1>a. CommandArrives
  BY DEF HostSendsJunk, HostSendsBadCommand, HostSendsReboot, HostSendsCommand
<1>b. /\ ep \in [Direction -> Endpoint] /\ "in" \in Direction /\ "out" \in Direction
      /\ ep["out"].transfer = "default" /\ ep["in"].transfer = "none"
      /\ ~ep["out"].halted /\ ~ep["in"].halted /\ ~Queued
  BY <1>a, Arrived DEF Direction
<1>1. CASE HostSendsJunk \/ HostSendsBadCommand
  <2>1. ~Queued' /\ RefuseCommand
    BY <1>1, <1>b DEF HostSendsJunk, HostSendsBadCommand, asyncVars, Queued
  <2>2. \A d \in Direction : ep'[d].transfer # "stream"
    BY <2>1, <1>b DEF RefuseCommand, Ended, Halted, Direction, Endpoint
  <2>. QED
    BY <2>1, <2>2, FreeQuiet
<1>2. CASE HostSendsReboot
  <2>1. PICK c \in Command : ep' = Ack(Ended(ep, "out"), c)
    BY <1>2 DEF HostSendsReboot
  <2>2. ~Queued'
    BY <1>2, <1>b DEF HostSendsReboot, Queued
  <2>3. \A d \in Direction : ep'[d].transfer # "stream"
    BY <2>1, <1>b DEF Ack, Started, Ended, Direction, Endpoint
  <2>. QED
    BY <2>2, <2>3, FreeQuiet
<1>3. CASE HostSendsCommand
  <2>1. PICK c \in Command :
           /\ stream' = NewStream(c)
           /\ queue_task("picoboot", CommandTask(c, 1, FALSE, sent'))
    BY <1>3 DEF HostSendsCommand
  <2>2. slot'["picoboot"].token = sent'
    <3>1. slot'["picoboot"] = CommandTask(c, 1, FALSE, sent')
      BY <2>1, SlotSet
    <3>. QED
      BY <3>1 DEF CommandTask
  <2>3. stream'.token = sent'
    BY <1>a, <2>1, NewStreamType
  <2>4. /\ ep'["out"].transfer = "none" /\ ~ep'["out"].halted
        /\ ep'["in"].transfer = "none"
    BY <1>3, <1>b DEF HostSendsCommand, Ended, Direction, Endpoint
  <2>. QED
    BY <2>2, <2>3, <2>4 DEF FreeInv, Direction
<1>. QED
  BY <1>1, <1>2, <1>3

LEMMA FreeTransfer ==
    ASSUME AsyncTypeOK, PicobootTypeOK, OneTaskInv, ~crossed',
           HostSendsWrite \/ HostSendsRead
    PROVE  FreeInv'
<1>a. CommandArrives
  BY DEF HostSendsWrite, HostSendsRead
<1>b. /\ ep \in [Direction -> Endpoint] /\ "in" \in Direction /\ "out" \in Direction
      /\ ep["out"].transfer = "default" /\ ep["in"].transfer = "none"
      /\ ~ep["out"].halted /\ ~ep["in"].halted /\ ~Queued
  BY <1>a, Arrived DEF Direction
<1>1. CASE HostSendsWrite
  <2>1. /\ ep'["out"].transfer = "stream" /\ ~ep'["out"].halted
        /\ ep'["in"].transfer = "none"
    BY <1>1, <1>b DEF HostSendsWrite, Started, Direction, Endpoint
  <2>2. ~Queued'
    BY <1>1, <1>b DEF HostSendsWrite, asyncVars, Queued
  <2>. QED
    BY <2>1, <2>2 DEF FreeInv, Direction
<1>2. CASE HostSendsRead
  <2>1. PICK c \in Command : QueueChunk(NewStream(c), 1)
    BY <1>2, <1>b DEF HostSendsRead
  <2>2. /\ NewStream(c).command = c /\ NewStream(c).token = sent'
        /\ StreamOK(NewStream(c)) /\ 1 \in DOMAIN c.addr
    BY <1>a, CommandParts, NewStreamType DEF NewStream
  <2>3. stream'.token = sent'
    BY <2>1, <2>2, ChunkType
  <2>4. slot'["picoboot"] = CommandTask(c, 1, NewStream(c).check, sent')
    BY <2>1, <2>2, SlotSet DEF QueueChunk
  <2>5. slot'["picoboot"].token = sent'
    BY <2>4 DEF CommandTask
  <2>6. /\ ep'["in"].transfer = "stream" /\ ~ep'["out"].halted
        /\ ep'["out"].transfer = "none"
    BY <1>2, <1>b DEF HostSendsRead, Started, Ended, Direction, Endpoint
  <2>. QED
    BY <2>3, <2>5, <2>6 DEF FreeInv, Direction
<1>. QED
  BY <1>1, <1>2

\* Nothing about PICOBOOT changes, or the queue gets empty.
LEMMA FreeFrame ==
    ASSUME OneTaskInv, slot'["picoboot"] \in {slot["picoboot"], NoTask},
           ep' = ep, stream'.token = stream.token
    PROVE  FreeInv'
<1>1. Queued' => Queued /\ slot'["picoboot"] = slot["picoboot"]
  BY DEF Queued
<1>. QED
  BY <1>1 DEF FreeInv, OneTaskInv, QueuedInv, StreamInv

\* A stream asks for its next chunk.
LEMMA FreeChunk ==
    ASSUME AsyncTypeOK, PicobootTypeOK, OneTaskInv,
           NEW d \in Direction, ep[d].transfer = "stream",
           NEW i \in DOMAIN stream.command.addr, QueueChunk(stream, i), ep' = ep
    PROVE  FreeInv'
<1>1. /\ ~ep["out"].halted
      /\ \A f \in Direction : ep[f].transfer \in {"stream", "none"}
  BY DEF OneTaskInv, StreamInv
<1>2. stream'.token = stream.token
  BY DEF QueueChunk, PicobootTypeOK, Stream
<1>3. slot'["picoboot"].token = stream.token
  <2>1. slot'["picoboot"]
           = CommandTask(stream.command, i, stream.check, stream.token)
    BY SlotSet DEF QueueChunk
  <2>. QED
    BY <2>1 DEF CommandTask
<1>. QED
  BY <1>1, <1>2, <1>3 DEF FreeInv, Direction

\* Data, and what the host does between commands.
LEMMA FreeData ==
    ASSUME AsyncTypeOK, PicobootTypeOK, OneTaskInv,
           \/ HostSendsPart \/ HostSendsChunk \/ HostReadsChunk \/ HostTakesAck
           \/ HostClearsHalt \/ HostUsesDisk
    PROVE  FreeInv'
<1>a. /\ ep \in [Direction -> Endpoint] /\ "in" \in Direction /\ "out" \in Direction
  BY DEF PicobootTypeOK, Direction
<1>1. CASE HostSendsPart \/ HostUsesDisk
  <2>1. slot'["picoboot"] = slot["picoboot"]
    BY <1>1 DEF HostSendsPart, HostUsesDisk, HandlerQueuesTask, queue_task,
                AsyncTypeOK, Queue
  <2>. QED
    BY <1>1, <2>1, FreeFrame DEF HostSendsPart, HostUsesDisk, usbVars
<1>2. CASE HostSendsChunk
  <2>1. /\ ep["out"].transfer = "stream"
        /\ QueueChunk(stream, stream.chunk) /\ ep' = ep
    BY <1>2 DEF HostSendsChunk, Idle
  <2>2. stream.chunk \in DOMAIN stream.command.addr
    BY <2>1, <1>a DEF OneTaskInv, StreamInv, PicobootTypeOK
  <2>. QED
    BY <2>1, <2>2, <1>a, FreeChunk
<1>3. CASE HostReadsChunk
  <2>1. ep["in"].transfer = "stream" /\ ~Deferred
    BY <1>3 DEF HostReadsChunk, Idle
  <2>2. CASE ~IsLast /\ QueueChunk(stream, stream.chunk + 1) /\ UNCHANGED ep
    <3>1. stream.command \in Command /\ stream.chunk \in DOMAIN stream.command.addr
      BY <2>1, <1>a DEF OneTaskInv, StreamInv, PicobootTypeOK, Stream
    <3>2. stream.chunk + 1 \in DOMAIN stream.command.addr
      BY <3>1, <2>2, CommandParts DEF IsLast
    <3>. QED
      BY <2>1, <2>2, <3>2, <1>a, FreeChunk
  <2>3. CASE /\ ep' = Ack(Ended(ep, "in"), stream.command)
             /\ UNCHANGED <<slot, stream>>
    <3>1. ~Queued'
      BY <2>1, <2>3, <1>a, NothingQueued DEF Queued
    <3>2. ep["out"].transfer # "stream"
      BY <2>1, <1>a DEF OneTaskInv, StreamInv, streamEp
    <3>3. \A d \in Direction : ep'[d].transfer # "stream"
      BY <2>3, <3>2, <1>a DEF Ack, Started, Ended, Direction, Endpoint
    <3>. QED
      BY <3>1, <3>3, FreeQuiet
  <2>. QED
    BY <1>3, <2>2, <2>3 DEF HostReadsChunk
<1>4. CASE HostTakesAck
  <2>1. PICK d \in Direction :
           /\ ep[d] = Idle("ack")
           /\ LET e == Ended(ep, d)
              IN  ep' = IF e["out"].halted THEN e ELSE Started(e, "out", "default")
    BY <1>4 DEF HostTakesAck
  <2>2. ep[d].transfer = "ack"
    BY <2>1 DEF Idle
  <2>3. (\A f \in Direction : ep[f].transfer # "stream") /\ ~Queued
    BY <2>2, <1>a DEF OneTaskInv, StreamInv, QueuedInv, Direction
  <2>4. \A f \in Direction : Ended(ep, d)[f].transfer # "stream"
    BY <2>3, <1>a DEF Ended, Direction, Endpoint
  <2>5. \A f \in Direction :
           Started(Ended(ep, d), "out", "default")[f].transfer # "stream"
    BY <2>4, <1>a DEF Started, Ended, Direction, Endpoint
  <2>6. \A f \in Direction : ep'[f].transfer # "stream"
    BY <2>1, <2>4, <2>5
  <2>7. ~Queued'
    BY <1>4, <2>3 DEF HostTakesAck, asyncVars, Queued
  <2>. QED
    BY <2>6, <2>7, FreeQuiet
<1>5. CASE HostClearsHalt
  <2>1. PICK d \in Direction :
           /\ ep[d].halted
           /\ ep' = [ep EXCEPT ![d] = Idle(IF d = "out" THEN "default" ELSE "none")]
    BY <1>5 DEF HostClearsHalt
  <2>2. stream' = stream /\ slot' = slot /\ (Queued' <=> Queued)
    BY <1>5 DEF HostClearsHalt, asyncVars, Queued
  <2>3. CASE d = "out"
    <3>1. ~Queued' /\ ep["in"].transfer # "stream"
      BY <2>1, <2>2, <2>3, <1>a DEF OneTaskInv, QueuedInv, StreamInv
    <3>2. \A f \in Direction : ep'[f].transfer # "stream"
      BY <2>1, <2>3, <3>1, <1>a DEF Idle, Direction
    <3>. QED
      BY <3>1, <3>2, FreeQuiet
  <2>4. CASE d = "in"
    <3>1. ep'["out"] = ep["out"] /\ ep'["in"].transfer = "none"
      BY <2>1, <2>4, <1>a DEF Idle
    <3>. QED
      BY <2>2, <3>1, <1>a DEF OneTaskInv, QueuedInv, StreamInv, FreeInv, Direction
  <2>. QED
    BY <2>3, <2>4 DEF Direction
<1>. QED
  BY <1>1, <1>2, <1>3, <1>4, <1>5

\* A reset empties the queue and ends the streams, whatever was before; the loss of
\* the configuration leaves what is queued.
LEMMA FreeReset ==
    ASSUME HostResetsPicoboot \/ HostConfigures \/ (HostUnconfigures /\ OneTaskInv)
    PROVE  FreeInv'
<1>1. CASE HostResetsPicoboot \/ HostConfigures
  <2>1. ~Queued'
    BY <1>1 DEF HostResetsPicoboot, HostConfigures, PicobootReset, reset_queues,
                Queued, Queue
  <2>2. \A d \in Direction : ep'[d].transfer # "stream"
    BY <1>1 DEF HostResetsPicoboot, HostConfigures, PicobootReset, ResetEndpoints, Idle
  <2>. QED
    BY <2>1, <2>2, FreeQuiet
<1>2. CASE HostUnconfigures /\ OneTaskInv
  <2>1. /\ \A d \in Direction : ep'[d].transfer = "none" /\ ~ep'[d].halted
        /\ "in" \in Direction /\ "out" \in Direction
    BY <1>2 DEF HostUnconfigures, Idle, Direction
  <2>2. slot' = slot /\ stream' = stream
    BY <1>2 DEF HostUnconfigures
  <2>. QED
    BY <1>2, <2>1, <2>2 DEF OneTaskInv, QueuedInv, FreeInv, Queued
<1>. QED
  BY <1>1, <1>2

\* The completions.
LEMMA FreeComplete ==
    ASSUME AsyncTypeOK, PicobootTypeOK, OneTaskInv,
           AckCommand \/ FinishChunk \/ DiskComplete
    PROVE  FreeInv'
<1>a. /\ ep \in [Direction -> Endpoint] /\ "in" \in Direction /\ "out" \in Direction
      /\ stream \in Stream
  BY DEF PicobootTypeOK, Direction
<1>b. TaskDone /\ slot' = slot
  BY DEF AckCommand, FinishChunk, DiskComplete
<1>c. running # NoTask /\ (Queued' <=> Queued)
  BY <1>b DEF TaskDone, Queued, AsyncTypeOK
<1>e. ep' = ep /\ stream'.token = stream.token => FreeInv'
  BY <1>b, FreeFrame
<1>f. source = "picoboot" /\ IsCurrent
        => ~Queued' /\ running.type = {stream.command.flag}
  BY <1>c DEF OneTaskInv, RunningInv, QueuedInv, Running
<1>1. CASE DiskComplete
  BY <1>1, <1>e DEF DiskComplete, usbVars
<1>2. CASE AckCommand
  <2>1. CASE IsCurrent
    <3>1. ep' = Ack(ep, stream.command) /\ source = "picoboot" /\ ~ReadsOrWrites
      BY <1>2, <2>1 DEF AckCommand
    <3>2. ~HasData(stream.command)
      BY <3>1, <2>1, <1>f DEF ReadsOrWrites, Does, HasData
    <3>3. \A d \in Direction : ep[d].transfer # "stream"
      BY <3>2 DEF OneTaskInv, StreamInv
    <3>4. \A d \in Direction : ep'[d].transfer # "stream"
      BY <3>1, <3>3, <1>a DEF Ack, Started, Direction, Endpoint
    <3>. QED
      BY <2>1, <3>1, <3>4, <1>f, FreeQuiet
  <2>2. CASE ~IsCurrent
    BY <1>2, <2>2, <1>e DEF AckCommand
  <2>. QED
    BY <2>1, <2>2
<1>3. CASE FinishChunk
  <2>1. CASE UNCHANGED <<ep, stream>>
    BY <2>1, <1>e
  <2>2. CASE IsCurrent /\ ChunkFails
    <3>1. streamEp(stream.command) \in Direction
      BY DEF streamEp, Direction
    <3>2. \A d \in Direction : ep[d].transfer = "stream" => d = streamEp(stream.command)
      BY DEF OneTaskInv, StreamInv
    <3>3. \A d \in Direction : ep'[d].transfer # "stream"
      BY <2>2, <3>1, <3>2, <1>a DEF ChunkFails, Ended, Halted, Endpoint
    <3>. QED
      BY <1>3, <2>2, <3>3, <1>f, FreeQuiet DEF FinishChunk
  <2>3. CASE IsCurrent /\ ChunkSucceeds
    <3>1. ~Queued' /\ running.type = {stream.command.flag}
      BY <1>3, <2>3, <1>f DEF FinishChunk
    <3>2. CASE Does("WRITE") /\ IsLast
      <4>1. ep' = Ack(Ended(ep, "out"), stream.command)
        BY <2>3, <3>2 DEF ChunkSucceeds
      <4>2. stream.command.flag = "WRITE"
        BY <3>1, <3>2 DEF Does
      <4>3. ep["in"].transfer # "stream"
        BY <4>2, <1>a DEF OneTaskInv, StreamInv, streamEp
      <4>4. \A d \in Direction : ep'[d].transfer # "stream"
        BY <4>1, <4>2, <4>3, <1>a DEF Ack, Started, Ended, Direction, Endpoint
      <4>. QED
        BY <3>1, <4>4, FreeQuiet
    <3>3. CASE ~(Does("WRITE") /\ IsLast)
      BY <2>3, <3>3, <1>a, <1>e DEF ChunkSucceeds, Stream
    <3>. QED
      BY <3>2, <3>3
  <2>. QED
    BY <1>3, <2>1, <2>2, <2>3 DEF FinishChunk, ChunkOutlivesStream
<1>. QED
  BY <1>1, <1>2, <1>3

LEMMA FreeWork ==
    ASSUME AsyncTypeOK, OneTaskInv, Work, UNCHANGED usbVars
    PROVE  FreeInv'
<1>1. slot'["picoboot"] \in {slot["picoboot"], NoTask}
  BY DEF Work, PollDisk, PollPicoboot, Wake, Refuse, Accept, RefuseVectors, Prepare,
         EraseSector, SkipAccess, AccessMemory, ReadFlash, StartProgram, EndProgram,
         Finish, dequeue_task, AsyncTypeOK, Queue
<1>. QED
  BY <1>1, FreeFrame DEF usbVars

\* Only SET_CONFIGURATION makes a crossed answer good.
LEMMA CrossedStays ==
    ASSUME PicobootTypeOK, [PicobootNext]_picobootVars, crossed, ~HostConfigures
    PROVE  crossed'
<1>1. CommandArrives => crossed'
  BY DEF CommandArrives
<1>. QED
  BY <1>1 DEF PicobootNext, PicobootWork, Host, HostSendsJunk, HostSendsBadCommand,
      HostSendsReboot, HostSendsCommand, HostSendsWrite, HostSendsRead, HostSendsPart,
      HostSendsChunk, HostReadsChunk, HostTakesAck, HostClearsHalt, HostUsesDisk,
      HostResetsPicoboot, HostUnconfigures, AckCommand, FinishChunk, DiskComplete,
      picobootVars, usbVars

LEMMA FreeStep ==
    ASSUME AsyncTypeOK, PicobootTypeOK, MatchInv, ~crossed => FreeInv, ~crossed',
           [PicobootNext]_picobootVars
    PROVE  FreeInv'
<1>1. CASE HostConfigures
  BY <1>1, FreeReset
<1>2. CASE ~HostConfigures
  <2>1. OneTaskInv
    BY <1>2, CrossedStays, OneTaskFolded
  <2>2. CASE Host
    BY <1>2, <2>1, <2>2, FreeCommand, FreeTransfer, FreeData, FreeReset DEF Host
  <2>3. CASE Work /\ UNCHANGED usbVars
    BY <2>1, <2>3, FreeWork
  <2>4. CASE AckCommand \/ FinishChunk \/ DiskComplete
    BY <2>1, <2>4, FreeComplete
  <2>5. CASE UNCHANGED picobootVars
    BY <2>1, <2>5, FreeFrame DEF picobootVars, asyncVars, usbVars
  <2>. QED
    BY <2>2, <2>3, <2>4, <2>5 DEF PicobootNext, PicobootWork
<1>. QED
  BY <1>1, <1>2

-----------------------------------------------------------------------------
(***************************************************************************)
(* What the invariant gives.                                               *)
(***************************************************************************)

IInv == AsyncTypeOK /\ PicobootTypeOK /\ MatchInv /\ (~crossed => FreeInv)

LEMMA IInvInit == PicobootInit => IInv
<1> SUFFICES ASSUME PicobootInit PROVE IInv
  OBVIOUS
<1>1. AsyncTypeOK
  BY TypeInit DEF PicobootInit
<1>2. PicobootTypeOK
  <2>1. ep \in [Direction -> Endpoint]
    BY DEF PicobootInit, Idle, Endpoint
  <2>2. stream \in Stream /\ stream.command = NoCommand /\ stream.token = 0
    BY DEF PicobootInit, Stream
  <2>3. cmd_status \in [bInProgress : BOOLEAN, dStatusCode : StatusCode]
    BY DEF PicobootInit, StatusCode, Result
  <2>4. configured \in BOOLEAN /\ sent = 0 /\ resets = 0 /\ crossed \in BOOLEAN
    BY DEF PicobootInit
  <2>5. sent \in 0..MaxCommands /\ resets \in 0..MaxResets
    BY <2>4, PicobootAssumption
  <2>. QED
    BY <2>1, <2>2, <2>3, <2>4, <2>5 DEF PicobootTypeOK
<1>3. ~Queued /\ ~Running /\ \A d \in Direction : ep[d].transfer = "none"
  BY DEF PicobootInit, AsyncInit, Queued, Running, Queue, Idle
<1>4. MatchInv /\ FreeInv
  BY <1>3 DEF MatchInv, RunningInv, WaitingInv, TransferInv, FreeInv, Direction
<1>. QED
  BY <1>1, <1>2, <1>4 DEF IInv

\* Every step of PICOBOOT is one of the task mechanism.
LEMMA IInvAsyncStep == IInv /\ [PicobootNext]_picobootVars => [AsyncNext]_asyncVars
  BY MatchUnfolded, StepIsAsyncStep DEF IInv

LEMMA IInvStep == IInv /\ [PicobootNext]_picobootVars => IInv'
<1> SUFFICES ASSUME IInv, [PicobootNext]_picobootVars PROVE IInv'
  OBVIOUS
<1>1. AsyncTypeOK /\ PicobootTypeOK /\ MatchInv /\ (~crossed => FreeInv)
  BY DEF IInv
<1>2. AsyncTypeOK'
  BY <1>1, IInvAsyncStep, AsyncTypeStep
<1>3. PicobootTypeOK' /\ MatchInv'
  BY <1>1, MatchUnfolded, PicobootTypeStep, MatchStep
<1>4. ~crossed' => FreeInv'
  BY <1>1, FreeStep
<1>. QED
  BY <1>2, <1>3, <1>4 DEF IInv

LEMMA IInvCorrect == PicobootSafety => []IInv
  BY IInvInit, IInvStep, PTL DEF PicobootSafety

\* The types, of the tasks and of what PICOBOOT keeps.
THEOREM PicobootTypeCorrect == PicobootSafety => [](AsyncTypeOK /\ PicobootTypeOK)
<1>1. IInv => AsyncTypeOK /\ PicobootTypeOK
  BY DEF IInv
<1>. QED
  BY <1>1, IInvCorrect, PTL

\* The tasks and the stream are those of one command, whatever the host does; and
\* as long as it sends no command across an answer PICOBOOT has one task at a time,
\* and a stream never has two chunks under way (the hold on packets and the halts
\* of _picoboot_cmd_packet_internal).
THEOREM OneTaskCorrect == PicobootSafety => []OneTask
<1>1. IInv => OneTask
  BY OneTaskUnfolded DEF IInv
<1>. QED
  BY <1>1, IInvCorrect, PTL

\* Every run of PICOBOOT is a run of the task mechanism.
THEOREM PicobootRefines == PicobootSafety => AsyncSafety
<1>1. PicobootInit => AsyncInit
  BY DEF PicobootInit
<1>. QED
  BY <1>1, IInvAsyncStep, IInvCorrect, PTL DEF PicobootSafety, AsyncSafety

\* So the commands of the host neither lose the wakeup of the worker nor let a
\* task of the virtual disk run under exclusive access.
THEOREM PicobootInherits == PicobootSafety => [](NoLostWakeup /\ DiskIdleWhileExclusive)
  BY PicobootRefines, WakeupCorrect, ExclusiveCorrect, PTL

\* A task that is queued is never overwritten by another one: queue_task is
\* called for PICOBOOT only when its queue is empty, if the host sends no command
\* across an answer.
THEOREM QueuedTaskKeptCorrect == PicobootSafety => QueuedTaskKept
<1>1. ASSUME IInv, [PicobootNext]_picobootVars
      PROVE  [slot["picoboot"] # NoTask /\ ~crossed
                => slot'["picoboot"] \in {slot["picoboot"], NoTask}]_slot
  <2> SUFFICES ASSUME Queued, ~crossed
               PROVE  slot'["picoboot"] \in {slot["picoboot"], NoTask}
    BY DEF Queued
  <2>a. OneTaskInv /\ slot \in [Queue -> Task \cup {NoTask}]
    BY <1>1, OneTaskFolded DEF IInv, AsyncTypeOK
  <2>b. ~CommandArrives
    BY <2>a, NothingQueued
  <2>c. \A d \in Direction : ~(ep[d] = Idle("stream") /\ ~Deferred)
    BY <2>a, NothingQueued DEF Idle
  <2>1. CASE HostUsesDisk
    BY <2>1, <2>a DEF HostUsesDisk, HandlerQueuesTask, queue_task, Queue
  <2>2. CASE HostResetsPicoboot \/ HostConfigures
    BY <2>2 DEF HostResetsPicoboot, HostConfigures, PicobootReset, reset_queues, Queue
  <2>3. CASE PollDisk \/ PollPicoboot
    BY <2>3, <2>a DEF PollDisk, PollPicoboot, dequeue_task, Queue
  <2>4. CASE UNCHANGED slot
    BY <2>4
  <2>5. ~(HostSendsCommand \/ HostSendsRead \/ HostSendsChunk \/ HostReadsChunk)
    BY <2>b, <2>c DEF HostSendsCommand, HostSendsRead, HostSendsChunk,
                      HostReadsChunk, Direction
  <2>. QED
    BY <1>1, <2>1, <2>2, <2>3, <2>4, <2>5
    DEF PicobootNext, PicobootWork, Host, HostSendsJunk, HostSendsBadCommand,
        HostSendsReboot, HostSendsWrite, HostSendsPart, HostTakesAck, HostClearsHalt,
        HostUnconfigures, AckCommand, FinishChunk, DiskComplete, Work, Wake, Refuse,
        Accept, RefuseVectors, Prepare, EraseSector, SkipAccess, AccessMemory,
        ReadFlash, StartProgram, EndProgram, Finish, picobootVars, asyncVars
<1>. QED
  BY <1>1, IInvCorrect, PTL DEF PicobootSafety, QueuedTaskKept

-----------------------------------------------------------------------------
(***************************************************************************)
(* Before the first reset the protocol keeps itself: whatever else the     *)
(* host does, there is no task but of the stream's command, OUT waits for  *)
(* no command while there is one, and IN is free when OUT does.            *)
(***************************************************************************)

\* A command asks for one thing.
OneFlag(t) == \E f \in TaskFlag \cup {"REBOOT"} : t.type = {f}

FlagInv ==
    /\ Queued => OneFlag(slot["picoboot"])
    /\ Running => OneFlag(running)

LEMMA ChunkHasOneFlag ==
    ASSUME AsyncTypeOK, NEW s, s.command \in Command, NEW i, QueueChunk(s, i)
    PROVE  OneFlag(slot'["picoboot"])
<1>1. slot'["picoboot"] = CommandTask(s.command, i, s.check, s.token)
  BY SlotSet DEF QueueChunk
<1>2. slot'["picoboot"].type = {s.command.flag}
  BY <1>1 DEF CommandTask
<1>. QED
  BY <1>2, CommandParts DEF OneFlag, PicobootCmd

LEMMA FlagStep ==
    ASSUME AsyncTypeOK, PicobootTypeOK, MatchInv, FlagInv, [PicobootNext]_picobootVars
    PROVE  FlagInv'
<1>a. UNCHANGED <<source, running>> => FlagInv' \/ slot'["picoboot"] # slot["picoboot"]
  BY DEF FlagInv, Queued, Running, OneFlag
<1>b. ASSUME UNCHANGED <<source, running>>, OneFlag(slot'["picoboot"])
      PROVE  FlagInv'
  BY <1>b DEF FlagInv, Queued, Running, OneFlag
<1>s. ASSUME NEW d \in Direction, ep[d].transfer = "stream", ~Deferred
      PROVE  stream.command \in Command
  BY <1>s, NoOwnTask DEF PicobootTypeOK, Stream
<1>1. CASE HostSendsCommand
  <2>1. PICK c \in Command : queue_task("picoboot", CommandTask(c, 1, FALSE, sent'))
    BY <1>1 DEF HostSendsCommand
  <2>2. slot'["picoboot"] = CommandTask(c, 1, FALSE, sent')
    BY <2>1, SlotSet
  <2>3. slot'["picoboot"].type = {c.flag}
    BY <2>2 DEF CommandTask
  <2>4. OneFlag(slot'["picoboot"])
    BY <2>3, CommandParts DEF OneFlag, PicobootCmd
  <2>. QED
    BY <1>1, <1>b, <2>4 DEF HostSendsCommand, workerVars
<1>2. CASE HostSendsRead
  <2>1. PICK c \in Command : QueueChunk(NewStream(c), 1) \/ slot' = slot
    BY <1>2 DEF HostSendsRead
  <2>2. NewStream(c).command \in Command
    BY DEF NewStream
  <2>. QED
    BY <1>2, <1>a, <1>b, <2>1, <2>2, ChunkHasOneFlag DEF HostSendsRead, workerVars
<1>3. CASE HostSendsChunk
  <2>1. ep["out"].transfer = "stream" /\ ~Deferred /\ QueueChunk(stream, stream.chunk)
    BY <1>3 DEF HostSendsChunk, Idle
  <2>2. OneFlag(slot'["picoboot"])
    BY <2>1, <1>s, ChunkHasOneFlag DEF Direction
  <2>. QED
    BY <1>3, <1>b, <2>2 DEF HostSendsChunk, workerVars
<1>4. CASE HostReadsChunk
  <2>1. ep["in"].transfer = "stream" /\ ~Deferred
        /\ (QueueChunk(stream, stream.chunk + 1) \/ slot' = slot)
    BY <1>4 DEF HostReadsChunk, Idle
  <2>2. OneFlag(slot'["picoboot"]) \/ slot' = slot
    BY <2>1, <1>s, ChunkHasOneFlag DEF Direction
  <2>. QED
    BY <1>4, <1>a, <1>b, <2>2 DEF HostReadsChunk, workerVars
<1>5. CASE HostUsesDisk
  BY <1>5, <1>a DEF HostUsesDisk, HandlerQueuesTask, queue_task, AsyncTypeOK, Queue,
                    workerVars
<1>6. CASE HostResetsPicoboot \/ HostConfigures
  <2>1. ~Queued' /\ UNCHANGED <<source, running>>
    BY <1>6 DEF HostResetsPicoboot, HostConfigures, PicobootReset, reset_queues,
                Queued, Queue, workerVars
  <2>. QED
    BY <2>1 DEF FlagInv, Running, OneFlag
<1>7. CASE AckCommand \/ FinishChunk \/ DiskComplete
  BY <1>7 DEF AckCommand, FinishChunk, DiskComplete, TaskDone, FlagInv, Queued,
              Running, OneFlag
<1>8. CASE Work
  <2>1. CASE full("disk") /\ dequeue_task("disk")
    BY <2>1 DEF dequeue_task, FlagInv, Queued, Running, OneFlag, AsyncTypeOK, Queue
  <2>2. CASE full("picoboot") /\ dequeue_task("picoboot")
    BY <2>2 DEF dequeue_task, full, FlagInv, Queued, Running, OneFlag, AsyncTypeOK, Queue
  <2>3. CASE UNCHANGED <<slot, source, running>>
    BY <2>3, <1>a
  <2>. QED
    BY <1>8, <2>1, <2>2, <2>3
    DEF Work, PollDisk, PollPicoboot, Wake, Refuse, Accept, RefuseVectors, Prepare,
        EraseSector, SkipAccess, AccessMemory, ReadFlash, StartProgram, EndProgram, Finish
<1>9. CASE UNCHANGED <<slot, workerVars>>
  BY <1>9, <1>a DEF workerVars
<1>. QED
  BY <1>1, <1>2, <1>3, <1>4, <1>5, <1>6, <1>7, <1>8, <1>9
  DEF PicobootNext, PicobootWork, Host, HostSendsJunk, HostSendsBadCommand,
      HostSendsReboot, HostSendsWrite, HostSendsPart, HostTakesAck, HostClearsHalt,
      HostUnconfigures, picobootVars, asyncVars

\* No task of PICOBOOT is queued or under way.
NoTaskLeft == ~Queued /\ ~Running

\* No endpoint is left for a command, or has an acknowledgement.
Occupied ==
    /\ ep["out"].transfer \in {"stream", "none"} /\ ~ep["out"].halted
    /\ ep["in"].transfer \in {"stream", "none"}

CalmInv ==
    resets = 0 =>
       /\ ~configured => /\ NoTaskLeft /\ ~cmd_status.bInProgress
                         /\ \A d \in Direction : ep[d].transfer = "none"
       /\ Running => IsCurrent
       /\ Queued => slot["picoboot"].token = stream.token
       /\ ~NoTaskLeft \/ ep["in"].transfer = "stream" \/ ep["out"].transfer = "stream"
             => Occupied
       /\ ep["out"].transfer \in {"default", "ack"} \/ ep["out"].halted
             => ep["in"].transfer = "none"
       /\ ~NoTaskLeft /\ HasData(stream.command)
             => /\ Streaming
                /\ ~ep[streamEp(stream.command)].halted

\* A command finds no task, and IN free.
LEMMA CalmArrival ==
    ASSUME AsyncTypeOK, PicobootTypeOK, MatchInv, CalmInv, CommandArrives, resets = 0
    PROVE  /\ NoTaskLeft /\ ep["in"].transfer = "none"
           /\ ep \in [Direction -> Endpoint] /\ "in" \in Direction /\ "out" \in Direction
           /\ ep["out"].transfer = "default" /\ ~ep["out"].halted
  BY CommandIsNew DEF CalmInv, Occupied

\* Where no task is left the tasks need no more attention.
LEMMA CalmQuiet ==
    ASSUME resets' = 0 => /\ NoTaskLeft' /\ configured'
                          /\ ep'["in"].transfer = "stream" \/ ep'["out"].transfer = "stream"
                                => Occupied'
                          /\ ep'["out"].transfer \in {"default", "ack"} \/ ep'["out"].halted
                                => ep'["in"].transfer = "none"
    PROVE  CalmInv'
  BY DEF CalmInv, NoTaskLeft

LEMMA CalmCommand ==
    ASSUME AsyncTypeOK, PicobootTypeOK, MatchInv, CalmInv,
           \/ HostSendsJunk \/ HostSendsBadCommand \/ HostSendsReboot
           \/ HostSendsCommand \/ HostSendsWrite \/ HostSendsRead
    PROVE  CalmInv'
<1> SUFFICES ASSUME resets' = 0 PROVE CalmInv'
  BY DEF CalmInv
<1>0. /\ CommandArrives /\ resets' = resets /\ configured' = configured
      /\ UNCHANGED workerVars
  BY DEF HostSendsJunk, HostSendsBadCommand, HostSendsReboot, HostSendsCommand,
         HostSendsWrite, HostSendsRead, asyncVars
<1>a. CommandArrives /\ resets = 0 /\ configured' /\ UNCHANGED workerVars
  BY <1>0 DEF CommandArrives
<1>b. /\ NoTaskLeft /\ ep["in"].transfer = "none"
      /\ ep \in [Direction -> Endpoint] /\ "in" \in Direction /\ "out" \in Direction
      /\ ep["out"].transfer = "default" /\ ~ep["out"].halted
  BY <1>a, CalmArrival
<1>c. ~Running' /\ (slot' = slot => NoTaskLeft')
  BY <1>a, <1>b DEF NoTaskLeft, Queued, Running, workerVars
<1>1. CASE HostSendsJunk \/ HostSendsBadCommand
  <2>1. RefuseCommand /\ slot' = slot
    BY <1>1 DEF HostSendsJunk, HostSendsBadCommand, asyncVars
  <2>2. ep'["out"].transfer = "none" /\ ep'["in"].transfer = "none"
    BY <2>1, <1>b DEF RefuseCommand, Ended, Halted, Endpoint, Direction
  <2>. QED
    BY <2>1, <2>2, <1>a, <1>c, CalmQuiet
<1>2. CASE HostSendsReboot
  <2>1. PICK c \in Command : Obeyed(c) /\ ep' = Ack(Ended(ep, "out"), c)
    BY <1>2 DEF HostSendsReboot
  <2>2. ep'["out"].transfer = "none" /\ ~ep'["out"].halted /\ ep'["in"].transfer = "ack"
    BY <2>1, <1>b DEF Obeyed, Ack, Started, Ended, Endpoint, Direction
  <2>. QED
    BY <1>2, <2>2, <1>a, <1>c, CalmQuiet DEF HostSendsReboot
<1>3. CASE HostSendsCommand
  <2>1. PICK c \in Command :
           /\ ~HasData(c) /\ stream' = NewStream(c)
           /\ queue_task("picoboot", CommandTask(c, 1, FALSE, sent'))
    BY <1>3 DEF HostSendsCommand
  <2>2. stream'.token = sent' /\ ~HasData(stream'.command)
    BY <1>a, <2>1, NewStreamType DEF NewStream
  <2>3. slot'["picoboot"].token = sent'
    <3>1. slot'["picoboot"] = CommandTask(c, 1, FALSE, sent')
      BY <2>1, SlotSet
    <3>. QED
      BY <3>1 DEF CommandTask
  <2>4. /\ ep'["out"].transfer = "none" /\ ~ep'["out"].halted
        /\ ep'["in"].transfer = "none"
    BY <1>3, <1>b DEF HostSendsCommand, Ended, Direction, Endpoint
  <2>. QED
    BY <1>a, <1>c, <2>2, <2>3, <2>4 DEF CalmInv, Occupied
<1>4. CASE HostSendsWrite
  <2>1. /\ ep'["out"].transfer = "stream" /\ ~ep'["out"].halted
        /\ ep'["in"].transfer = "none"
    BY <1>4, <1>b DEF HostSendsWrite, Started, Direction, Endpoint
  <2>. QED
    BY <1>4, <2>1, <1>a, <1>c, CalmQuiet DEF HostSendsWrite, asyncVars, Occupied
<1>5. CASE HostSendsRead
  <2>1. /\ ep'["in"].transfer = "stream" /\ ~ep'["out"].halted
        /\ ep'["out"].transfer = "none" /\ ep'["in"].halted = ep["in"].halted
    BY <1>5, <1>b DEF HostSendsRead, Started, Ended, Direction, Endpoint
  <2>2. CASE ep["in"].halted
    BY <1>5, <2>1, <2>2, <1>a, <1>c, CalmQuiet DEF HostSendsRead, Occupied
  <2>3. CASE ~ep["in"].halted
    <3>1. PICK c \in Command : c.flag = "READ" /\ QueueChunk(NewStream(c), 1)
      BY <1>5, <2>3 DEF HostSendsRead
    <3>2. /\ NewStream(c).command = c /\ NewStream(c).token = sent'
          /\ StreamOK(NewStream(c)) /\ 1 \in DOMAIN c.addr
      BY <1>a, CommandParts, NewStreamType DEF NewStream
    <3>3. stream'.token = sent' /\ stream'.command = c
      BY <3>1, <3>2, ChunkType
    <3>4. slot'["picoboot"] = CommandTask(c, 1, NewStream(c).check, sent')
      BY <3>1, <3>2, SlotSet DEF QueueChunk
    <3>5. slot'["picoboot"].token = sent'
      BY <3>4 DEF CommandTask
    <3>6. streamEp(stream'.command) = "in"
      BY <3>1, <3>3 DEF streamEp
    <3>. QED
      BY <1>a, <1>c, <2>1, <2>3, <3>3, <3>5, <3>6 DEF CalmInv, Occupied, Streaming
  <2>. QED
    BY <2>2, <2>3
<1>. QED
  BY <1>1, <1>2, <1>3, <1>4, <1>5

\* Nothing the invariant is about changes but that the queue may get empty.
LEMMA CalmFrame ==
    ASSUME CalmInv, slot'["picoboot"] = slot["picoboot"],
           UNCHANGED <<source, running, ep, configured, resets>>,
           cmd_status' = cmd_status \/ configured,
           stream'.command = stream.command, stream'.token = stream.token
    PROVE  CalmInv'
<1>1. /\ (Queued' <=> Queued) /\ (Running' <=> Running) /\ (IsCurrent' <=> IsCurrent)
      /\ (NoTaskLeft' <=> NoTaskLeft) /\ (Streaming' <=> Streaming)
      /\ (Occupied' <=> Occupied)
  BY DEF Queued, Running, IsCurrent, NoTaskLeft, Streaming, streamEp, Occupied
<1>. QED
  BY <1>1 DEF CalmInv

LEMMA CalmChunk ==
    ASSUME AsyncTypeOK, PicobootTypeOK, MatchInv, CalmInv,
           NEW d \in Direction, ep[d] = Idle("stream"), ~Deferred,
           NEW i \in DOMAIN stream.command.addr, QueueChunk(stream, i),
           UNCHANGED <<workerVars, ep, configured, resets, sent>>
    PROVE  CalmInv'
<1> SUFFICES ASSUME resets = 0 PROVE CalmInv'
  BY DEF CalmInv
<1>1. ep[d].transfer = "stream" /\ ~ep[d].halted
  BY DEF Idle
<1>2. ~OwnRunning /\ d = streamEp(stream.command) /\ stream.command # NoCommand
  BY <1>1, NoOwnTask
<1>3. stream'.command = stream.command /\ stream'.token = stream.token
  BY DEF QueueChunk, PicobootTypeOK, Stream
<1>4. slot'["picoboot"].token = stream.token
  <2>1. slot'["picoboot"]
           = CommandTask(stream.command, i, stream.check, stream.token)
    BY SlotSet DEF QueueChunk
  <2>. QED
    BY <2>1 DEF CommandTask
<1>5. ~Running'
  BY <1>2 DEF CalmInv, OwnRunning, Running, workerVars
<1>6. Occupied
  BY <1>1 DEF CalmInv, Direction
<1>7. configured
  BY <1>1 DEF CalmInv
<1>. QED
  BY <1>1, <1>2, <1>3, <1>4, <1>5, <1>6, <1>7 DEF CalmInv, Occupied, Streaming

LEMMA CalmData ==
    ASSUME AsyncTypeOK, PicobootTypeOK, MatchInv, CalmInv,
           \/ HostSendsPart \/ HostSendsChunk \/ HostReadsChunk \/ HostTakesAck
           \/ HostClearsHalt \/ HostUsesDisk
    PROVE  CalmInv'
<1> SUFFICES ASSUME resets = 0, resets' = 0 PROVE CalmInv'
  BY DEF CalmInv, HostSendsPart, HostSendsChunk, HostReadsChunk, HostTakesAck,
         HostClearsHalt, HostUsesDisk, usbVars
<1>a. /\ ep \in [Direction -> Endpoint] /\ "in" \in Direction /\ "out" \in Direction
  BY DEF PicobootTypeOK, Direction
<1>b. UNCHANGED <<workerVars, configured, resets, sent>>
  BY DEF HostSendsPart, HostSendsChunk, HostReadsChunk, HostTakesAck, HostClearsHalt,
         HostUsesDisk, HandlerQueuesTask, usbVars, asyncVars
<1>c. (\E d \in Direction : ep[d].transfer # "none") => configured'
  BY <1>b DEF CalmInv
<1>1. CASE HostSendsPart \/ HostUsesDisk
  <2>1. slot'["picoboot"] = slot["picoboot"]
    BY <1>1 DEF HostSendsPart, HostUsesDisk, HandlerQueuesTask, queue_task,
                AsyncTypeOK, Queue
  <2>. QED
    BY <1>1, <1>b, <2>1, CalmFrame DEF HostSendsPart, HostUsesDisk, usbVars, workerVars
<1>2. CASE HostSendsChunk
  <2>1. /\ ep["out"] = Idle("stream") /\ ~Deferred
        /\ QueueChunk(stream, stream.chunk) /\ ep' = ep
    BY <1>2 DEF HostSendsChunk
  <2>2. stream.chunk \in DOMAIN stream.command.addr
    BY <2>1, <1>a, NoOwnTask DEF PicobootTypeOK, Idle
  <2>. QED
    BY <2>1, <2>2, <1>a, <1>b, CalmChunk
<1>3. CASE HostReadsChunk
  <2>1. ep["in"] = Idle("stream") /\ ~Deferred /\ ep["in"].transfer = "stream"
    BY <1>3 DEF HostReadsChunk, Idle
  <2>2. CASE ~IsLast /\ QueueChunk(stream, stream.chunk + 1) /\ UNCHANGED ep
    <3>1. stream.command \in Command /\ stream.chunk \in DOMAIN stream.command.addr
      BY <2>1, <1>a, NoOwnTask DEF PicobootTypeOK, Stream
    <3>2. stream.chunk + 1 \in DOMAIN stream.command.addr
      BY <3>1, <2>2, CommandParts DEF IsLast
    <3>. QED
      BY <2>1, <2>2, <3>2, <1>a, <1>b, CalmChunk
  <2>3. CASE /\ ep' = Ack(Ended(ep, "in"), stream.command)
             /\ UNCHANGED <<slot, stream>>
    <3>1. ~OwnQueued /\ ~OwnRunning /\ stream.command.flag = "READ"
      BY <2>1, <1>a, NoOwnTask DEF HasData, streamEp
    <3>2. NoTaskLeft'
      BY <2>3, <3>1, <1>b DEF CalmInv, NoTaskLeft, OwnQueued, OwnRunning, Queued,
                              Running, workerVars
    <3>3. ep'["in"].transfer = "none" /\ ep'["out"].transfer = "ack"
      BY <2>3, <3>1, <1>a DEF Ack, Started, Ended, Direction, Endpoint
    <3>. QED
      BY <2>1, <3>2, <3>3, <1>a, <1>c, CalmQuiet
  <2>. QED
    BY <1>3, <2>2, <2>3 DEF HostReadsChunk
<1>4. CASE HostTakesAck
  <2>1. PICK d \in Direction :
           /\ ep[d] = Idle("ack")
           /\ LET e == Ended(ep, d)
              IN  ep' = IF e["out"].halted THEN e ELSE Started(e, "out", "default")
    BY <1>4 DEF HostTakesAck
  <2>2. ep[d].transfer = "ack"
    BY <2>1 DEF Idle
  <2>3. ~Occupied
    BY <2>2 DEF Occupied, Direction
  <2>4. NoTaskLeft /\ ep["in"].transfer # "stream" /\ ep["out"].transfer # "stream"
    BY <2>3 DEF CalmInv
  <2>5. NoTaskLeft'
    BY <1>4, <2>4 DEF HostTakesAck, NoTaskLeft, Queued, Running, asyncVars, workerVars
  <2>6. \/ ep' = Ended(ep, d)
        \/ ep' = Started(Ended(ep, d), "out", "default")
    BY <2>1
  <2>7. /\ ep'["in"].transfer = Ended(ep, d)["in"].transfer
        /\ ep'["out"].transfer # "stream"
    BY <2>4, <2>6, <1>a DEF Ended, Started, Endpoint, Direction
  <2>8. Ended(ep, d)["in"].transfer = "none"
    BY <2>2, <1>a DEF CalmInv, Ended, Endpoint, Direction
  <2>. QED
    BY <2>2, <2>5, <2>7, <2>8, <1>c, CalmQuiet
<1>5. CASE HostClearsHalt
  <2>1. PICK d \in Direction :
           /\ ep[d].halted
           /\ ep' = [ep EXCEPT ![d] = Idle(IF d = "out" THEN "default" ELSE "none")]
    BY <1>5 DEF HostClearsHalt
  <2>2. /\ UNCHANGED <<slot, stream, source, running>> /\ configured
        /\ (Queued' <=> Queued) /\ (Running' <=> Running) /\ (NoTaskLeft' <=> NoTaskLeft)
        /\ (IsCurrent' <=> IsCurrent)
    BY <1>5 DEF HostClearsHalt, asyncVars, workerVars, Queued, Running, NoTaskLeft,
                IsCurrent
  <2>3. CASE d = "out"
    <3>1. NoTaskLeft /\ ep["in"].transfer = "none"
      BY <2>1, <2>3 DEF CalmInv, Occupied
    <3>2. ep'["in"] = ep["in"] /\ ep'["out"].transfer = "default"
      BY <2>1, <2>3, <1>a DEF Idle
    <3>. QED
      BY <2>2, <3>1, <3>2, <1>b, CalmQuiet
  <2>4. CASE d = "in"
    <3>1. ep'["out"] = ep["out"] /\ ep'["in"].transfer = "none"
      BY <2>1, <2>4, <1>a DEF Idle
    <3>2. Occupied => Occupied'
      BY <3>1 DEF Occupied
    <3>3. ~NoTaskLeft /\ HasData(stream.command) => streamEp(stream.command) = "out"
      BY <2>1, <2>4 DEF CalmInv, streamEp
    <3>4. ~NoTaskLeft /\ HasData(stream.command)
             => Streaming' /\ ~ep'[streamEp(stream.command)].halted
      BY <2>2, <3>1, <3>3 DEF CalmInv, Streaming
    <3>. QED
      BY <2>2, <3>1, <3>2, <3>4, <1>b DEF CalmInv
  <2>. QED
    BY <2>3, <2>4 DEF Direction
<1>. QED
  BY <1>1, <1>2, <1>3, <1>4, <1>5

\* The only reset that is not counted is the first SET_CONFIGURATION.
LEMMA CalmReset ==
    ASSUME PicobootTypeOK, CalmInv,
           HostResetsPicoboot \/ HostConfigures \/ HostUnconfigures
    PROVE  CalmInv'
<1> SUFFICES ASSUME resets' = 0 PROVE CalmInv'
  BY DEF CalmInv
<1>1. HostConfigures /\ resets = 0 /\ ~configured
  BY DEF HostResetsPicoboot, HostConfigures, HostUnconfigures, CountReset, PicobootTypeOK
<1>2. NoTaskLeft'
  BY <1>1 DEF CalmInv, NoTaskLeft, HostConfigures, PicobootReset, reset_queues, Queued,
              Running, Queue, workerVars
<1>3. ep'["in"].transfer = "none" /\ ep'["out"].transfer = "default" /\ configured'
  BY <1>1 DEF HostConfigures, PicobootReset, ResetEndpoints, Idle, Direction
<1>. QED
  BY <1>2, <1>3, CalmQuiet

LEMMA CalmComplete ==
    ASSUME AsyncTypeOK, PicobootTypeOK, MatchInv, CalmInv,
           AckCommand \/ FinishChunk \/ DiskComplete
    PROVE  CalmInv'
<1> SUFFICES ASSUME resets = 0, resets' = 0 PROVE CalmInv'
  BY DEF CalmInv, AckCommand, FinishChunk, DiskComplete, usbVars
<1>a. /\ ep \in [Direction -> Endpoint] /\ "in" \in Direction /\ "out" \in Direction
      /\ stream \in Stream
  BY DEF PicobootTypeOK, Direction
<1>b. TaskDone /\ UNCHANGED <<slot, configured, resets>>
  BY DEF AckCommand, FinishChunk, DiskComplete, usbVars
<1>c. ~Running' /\ running # NoTask /\ (Queued' <=> Queued)
  BY <1>b DEF TaskDone, Running, Queued, AsyncTypeOK
<1>1. CASE DiskComplete
  <2>1. ~Running /\ UNCHANGED <<ep, stream, cmd_status>>
    BY <1>1 DEF DiskComplete, Running, usbVars
  <2>2. (NoTaskLeft' <=> NoTaskLeft) /\ (Streaming' <=> Streaming) /\ (Occupied' <=> Occupied)
    BY <1>c, <2>1 DEF NoTaskLeft, Streaming, streamEp, Occupied
  <2>. QED
    BY <1>b, <1>c, <2>1, <2>2 DEF CalmInv
<1>2. CASE AckCommand \/ FinishChunk
  <2>1. Running /\ OwnRunning /\ ~NoTaskLeft
    BY <1>2, <1>c DEF AckCommand, FinishChunk, CalmInv, Running, OwnRunning, NoTaskLeft
  <2>2. /\ IsCurrent /\ ~Queued /\ stream.command # NoCommand
        /\ running.type = {stream.command.flag}
    BY <2>1 DEF MatchInv, RunningInv, WaitingInv, OwnRunning, OwnQueued, CalmInv
  <2>3. NoTaskLeft' /\ configured'
    BY <1>b, <1>c, <2>1, <2>2 DEF NoTaskLeft, CalmInv
  <2>4. Occupied
    BY <2>1 DEF CalmInv
  <2>5. CASE AckCommand
    <3>1. ep' = Ack(ep, stream.command) /\ ~ReadsOrWrites
      BY <2>2, <2>5 DEF AckCommand
    <3>2. ~HasData(stream.command)
      BY <3>1, <2>2 DEF ReadsOrWrites, Does, HasData
    <3>3. ep["out"].transfer # "stream" /\ ep["in"].transfer # "stream"
      BY <3>2, <1>a DEF MatchInv, TransferInv
    <3>4. /\ ep'["in"].transfer = "ack" /\ ep'["out"].transfer = "none"
          /\ ~ep'["out"].halted
      BY <3>1, <3>2, <3>3, <2>4, <1>a DEF Ack, Started, Direction, Endpoint, HasData,
                                         Occupied
    <3>. QED
      BY <2>3, <3>4, CalmQuiet
  <2>6. CASE FinishChunk
    <3>0. HasData(stream.command) /\ Streaming
      <4>1. HasData(stream.command)
        BY <2>2, <2>6 DEF FinishChunk, ReadsOrWrites, Does, HasData
      <4>. QED
        BY <4>1, <2>1 DEF CalmInv
    <3>1. CASE ChunkFails
      <4>1. CASE stream.command.flag = "READ"
        <5>1. /\ ep'["in"].transfer = "none" /\ ep'["out"] = ep["out"]
          BY <3>1, <4>1, <1>a DEF ChunkFails, Ended, Halted, Endpoint, streamEp, Direction
        <5>2. ep["out"].transfer = "none"
          BY <3>0, <4>1 DEF Streaming, streamEp, MatchInv, TransferInv
        <5>. QED
          BY <2>3, <5>1, <5>2, CalmQuiet
      <4>2. CASE stream.command.flag # "READ"
        <5>1. ep["in"].transfer # "stream"
          BY <4>2, <1>a DEF MatchInv, TransferInv, streamEp
        <5>2. ep'["out"].transfer = "none" /\ ep'["in"] = ep["in"]
          BY <3>1, <4>2, <1>a DEF ChunkFails, Ended, Halted, Endpoint, streamEp, Direction
        <5>. QED
          BY <2>3, <2>4, <5>1, <5>2, CalmQuiet DEF Occupied
      <4>. QED
        BY <4>1, <4>2
    <3>2. CASE ChunkSucceeds
      <4>1. CASE Does("WRITE") /\ IsLast
        <5>1. ep' = Ack(Ended(ep, "out"), stream.command)
          BY <3>2, <4>1 DEF ChunkSucceeds
        <5>2. stream.command.flag = "WRITE"
          BY <2>2, <4>1 DEF Does
        <5>3. /\ ep'["out"].transfer = "none" /\ ~ep'["out"].halted
              /\ ep'["in"].transfer = "ack"
          BY <2>4, <5>1, <5>2, <1>a DEF Ack, Started, Ended, Direction, Endpoint, Occupied
        <5>. QED
          BY <2>3, <5>3, CalmQuiet
      <4>2. CASE ~(Does("WRITE") /\ IsLast)
        <5>1. ep' = ep
          BY <3>2, <4>2 DEF ChunkSucceeds
        <5>. QED
          BY <2>3, <2>4, <5>1, CalmQuiet DEF CalmInv, Occupied
      <4>. QED
        BY <4>1, <4>2
    <3>. QED
      BY <2>2, <2>6, <3>0, <3>1, <3>2 DEF FinishChunk
  <2>. QED
    BY <1>2, <2>5, <2>6
<1>. QED
  BY <1>1, <1>2

LEMMA CalmWork ==
    ASSUME AsyncTypeOK, CalmInv, Work, UNCHANGED usbVars
    PROVE  CalmInv'
<1> SUFFICES ASSUME resets = 0 PROVE CalmInv'
  BY DEF CalmInv, usbVars
<1>a. UNCHANGED <<stream, ep, cmd_status, configured, resets>>
  BY DEF usbVars
<1>b. (Streaming' <=> Streaming) /\ (Occupied' <=> Occupied)
  BY <1>a DEF Streaming, streamEp, Occupied
<1>1. CASE full("disk") /\ dequeue_task("disk")
  <2>1. slot'["picoboot"] = slot["picoboot"] /\ ~Running'
    BY <1>1 DEF dequeue_task, Running, AsyncTypeOK, Queue
  <2>2. (NoTaskLeft => NoTaskLeft') /\ (Queued' <=> Queued)
    BY <2>1 DEF NoTaskLeft, Queued
  <2>3. ~NoTaskLeft' => ~NoTaskLeft
    BY <2>2
  <2>. QED
    BY <1>a, <1>b, <2>1, <2>2, <2>3 DEF CalmInv
<1>2. CASE full("picoboot") /\ dequeue_task("picoboot")
  <2>1. /\ Queued /\ running' = slot["picoboot"] /\ slot'["picoboot"] = NoTask
    BY <1>2 DEF dequeue_task, full, Queued, AsyncTypeOK, Queue
  <2>2. ~NoTaskLeft /\ ~Queued' /\ IsCurrent'
    BY <2>1, <1>a DEF NoTaskLeft, Queued, CalmInv, IsCurrent
  <2>. QED
    BY <1>a, <1>b, <2>2 DEF CalmInv
<1>3. CASE UNCHANGED <<slot, source, running>>
  BY <1>3, <1>a, CalmFrame
<1>. QED
  BY <1>1, <1>2, <1>3
  DEF Work, PollDisk, PollPicoboot, Wake, Refuse, Accept, RefuseVectors, Prepare,
      EraseSector, SkipAccess, AccessMemory, ReadFlash, StartProgram, EndProgram, Finish

LEMMA CalmStep ==
    ASSUME AsyncTypeOK, PicobootTypeOK, MatchInv, CalmInv, [PicobootNext]_picobootVars
    PROVE  CalmInv'
<1>1. CASE Host
  BY <1>1, CalmCommand, CalmData, CalmReset DEF Host
<1>2. CASE Work /\ UNCHANGED usbVars
  BY <1>2, CalmWork
<1>3. CASE AckCommand \/ FinishChunk \/ DiskComplete
  BY <1>3, CalmComplete
<1>4. CASE UNCHANGED picobootVars
  BY <1>4, CalmFrame DEF picobootVars, asyncVars, usbVars, workerVars
<1>. QED
  BY <1>1, <1>2, <1>3, <1>4 DEF PicobootNext, PicobootWork

-----------------------------------------------------------------------------
(***************************************************************************)
(* The status.  Who is at work on a command that is in progress, and what  *)
(* the endpoints may be in the meantime, for a host that sends no command  *)
(* across an answer.                                                       *)
(***************************************************************************)

\* A task of the command the stream was last set up for is queued or under way.
Busy == Queued \/ (Running /\ IsCurrent)

\* IN is free for the acknowledgement, and what streams goes on.
EndsInv ==
    /\ Busy /\ stream.command.flag # "READ" => ep["in"].transfer = "none"
    /\ \A d \in Direction :
          ep[d].transfer = "stream" => ~ep[d].halted /\ cmd_status.bInProgress

ProgressInv ==
    /\ configured /\ cmd_status.bInProgress
          => /\ stream.command # NoCommand
             /\ IF HasData(stream.command) THEN Streaming ELSE Busy
    /\ Queued => cmd_status.bInProgress

\* The task that runs belongs to the command in progress, which no other command
\* and no acknowledgement can end.
Served ==
    /\ IsCurrent /\ cmd_status.bInProgress
    /\ ep["out"].transfer \in {"stream", "none"} /\ ~ep["out"].halted
    /\ ep["in"].transfer # "ack"

\* Otherwise a reset has overtaken it, and has aborted it if it may hang in the
\* flash.
OvertakenInv ==
    Running => Served \/ (resets # 0 /\ (Mutates => aborted))

StatusInv == EndsInv /\ ProgressInv /\ OvertakenInv

\* A command finds no task of its own, and any that runs overtaken.
LEMMA CommandFindsNoTask ==
    ASSUME AsyncTypeOK, PicobootTypeOK, OneTaskInv, StatusInv, CommandArrives, ~crossed',
           UNCHANGED <<workerVars, aborted, resets, configured>>
    PROVE  /\ ~Queued /\ ~Streaming
           /\ OvertakenInv'
<1>1. ep["out"].transfer = "default" /\ ep["in"].transfer = "none" /\ ~Queued
  BY Arrived
<1>2. ~Streaming
  BY <1>1 DEF Streaming, streamEp
<1>3. (Running' <=> Running) /\ running' = running /\ (Mutates' <=> Mutates)
  BY DEF workerVars, Running, Mutates, Does
<1>4. ~Served
  BY <1>1 DEF Served
<1>. QED
  BY <1>1, <1>2, <1>3, <1>4 DEF OvertakenInv, StatusInv, CommandArrives

LEMMA StatusCommand ==
    ASSUME AsyncTypeOK, PicobootTypeOK, MatchInv, OneTaskInv, StatusInv, ~crossed',
           HostSendsJunk \/ HostSendsBadCommand \/ HostSendsReboot \/ HostSendsCommand
    PROVE  StatusInv'
<1>a. CommandArrives /\ UNCHANGED <<workerVars, aborted, resets, configured>>
  BY DEF HostSendsJunk, HostSendsBadCommand, HostSendsReboot, HostSendsCommand,
         asyncVars, sharedVars
<1>b. /\ ep \in [Direction -> Endpoint] /\ "in" \in Direction /\ "out" \in Direction
      /\ ep["out"].transfer = "default" /\ ep["in"].transfer = "none"
      /\ ~Queued /\ ~Streaming /\ OvertakenInv'
  BY <1>a, Arrived, CommandFindsNoTask DEF Direction
<1>c. stream'.token = sent' => ~(Running' /\ IsCurrent')
  BY <1>a, RunningIsOld DEF OwnRunning
<1>d. RefuseCommand => /\ \A d \in Direction : ep'[d].transfer # "stream"
                       /\ ep'["in"].transfer = "none"
  BY <1>b DEF RefuseCommand, Ended, Halted, Direction, Endpoint
<1>1. CASE HostSendsJunk
  <2>1. stream' = stream /\ cmd_status' = cmd_status /\ slot' = slot
    BY <1>1 DEF HostSendsJunk, asyncVars
  <2>2. ~Queued' /\ (Busy' <=> Busy)
    BY <1>a, <1>b, <2>1 DEF Queued, Busy, Running, IsCurrent, workerVars
  <2>3. ProgressInv'
    BY <1>a, <1>b, <2>1, <2>2 DEF StatusInv, ProgressInv
  <2>4. EndsInv'
    BY <1>1, <1>d DEF HostSendsJunk, EndsInv
  <2>. QED
    BY <1>b, <2>3, <2>4 DEF StatusInv
<1>2. CASE HostSendsBadCommand \/ HostSendsReboot
  <2>1. stream'.token = sent' /\ slot' = slot /\ ~cmd_status'.bInProgress
    BY <1>2, <1>a, NewStreamType DEF HostSendsBadCommand, HostSendsReboot, asyncVars, Over
  <2>2. ~Queued' /\ ~Busy'
    BY <1>b, <1>c, <2>1 DEF Queued, Busy
  <2>3. \A d \in Direction : ep'[d].transfer # "stream"
    <3>1. CASE HostSendsBadCommand
      BY <3>1, <1>d DEF HostSendsBadCommand
    <3>2. CASE HostSendsReboot
      <4>1. PICK c : ep' = Ack(Ended(ep, "out"), c)
        BY <3>2 DEF HostSendsReboot
      <4>. QED
        BY <4>1, <1>b DEF Ack, Started, Ended, Direction, Endpoint
    <3>. QED
      BY <1>2, <3>1, <3>2
  <2>. QED
    BY <1>b, <2>1, <2>2, <2>3 DEF StatusInv, EndsInv, ProgressInv
<1>3. CASE HostSendsCommand
  <2>1. PICK c \in Command :
           /\ ~HasData(c) /\ c.flag # "REBOOT" /\ stream' = NewStream(c)
           /\ queue_task("picoboot", CommandTask(c, 1, FALSE, sent'))
    BY <1>3 DEF HostSendsCommand
  <2>2. sent' \in 1..MaxCommands /\ 1 \in DOMAIN c.addr
    BY <1>a, NewToken, CommandParts
  <2>3. Queued'
    <3>1. slot'["picoboot"] = CommandTask(c, 1, FALSE, sent')
      BY <2>1, SlotSet
    <3>2. CommandTask(c, 1, FALSE, sent') \in Task
      <4>1. CommandTask(c, 1, FALSE, sent') \in TasksOf["picoboot"]
        BY <2>1, <2>2, PicobootAssumption
      <4>. QED
        BY <4>1, TasksAssumption DEF Queue
    <3>. QED
      BY <3>1, <3>2, TasksAssumption DEF Queued
  <2>4. stream'.command = c /\ c # NoCommand
    BY <2>1, CommandParts DEF NewStream
  <2>5. /\ \A d \in Direction : ep'[d].transfer = "none"
        /\ cmd_status'.bInProgress
    BY <1>3, <1>b DEF HostSendsCommand, Ended, Direction, Endpoint, InProgress
  <2>6. EndsInv'
    BY <2>5, <1>b DEF EndsInv
  <2>7. ProgressInv'
    BY <2>1, <2>3, <2>4, <2>5 DEF ProgressInv, Busy
  <2>. QED
    BY <1>b, <2>6, <2>7 DEF StatusInv
<1>. QED
  BY <1>1, <1>2, <1>3

LEMMA StatusTransfer ==
    ASSUME AsyncTypeOK, PicobootTypeOK, MatchInv, OneTaskInv, StatusInv, ~crossed',
           HostSendsWrite \/ HostSendsRead
    PROVE  StatusInv'
<1>a. CommandArrives /\ UNCHANGED <<workerVars, aborted, resets, configured>>
  BY DEF HostSendsWrite, HostSendsRead, asyncVars, sharedVars
<1>b. /\ ep \in [Direction -> Endpoint] /\ "in" \in Direction /\ "out" \in Direction
      /\ ep["out"].transfer = "default" /\ ep["in"].transfer = "none"
      /\ ~ep["out"].halted /\ ~ep["in"].halted
      /\ ~Queued /\ OvertakenInv'
  BY <1>a, Arrived, CommandFindsNoTask DEF Direction
<1>c. stream'.token = sent' => ~(Running' /\ IsCurrent')
  BY <1>a, RunningIsOld DEF OwnRunning
<1>d. cmd_status'.bInProgress
  BY DEF HostSendsWrite, HostSendsRead, InProgress
<1>1. CASE HostSendsWrite
  <2>1. PICK c \in Command : c.flag = "WRITE" /\ stream' = NewStream(c)
    BY <1>1 DEF HostSendsWrite
  <2>2. stream'.command = c /\ stream'.token = sent' /\ c # NoCommand
    BY <1>a, <2>1, CommandParts, NewStreamType DEF NewStream
  <2>3. /\ ep'["out"].transfer = "stream" /\ ~ep'["out"].halted
        /\ ep'["in"].transfer = "none"
    BY <1>1, <1>b DEF HostSendsWrite, Started, Direction, Endpoint
  <2>4. ~Queued' /\ ~Busy'
    BY <1>1, <1>b, <1>c, <2>2 DEF HostSendsWrite, asyncVars, Queued, Busy
  <2>5. EndsInv'
    BY <1>d, <2>3, <2>4 DEF EndsInv, Direction
  <2>6. ProgressInv'
    BY <1>d, <2>1, <2>2, <2>3, <2>4 DEF ProgressInv, HasData, Streaming, streamEp
  <2>. QED
    BY <1>b, <2>5, <2>6 DEF StatusInv
<1>2. CASE HostSendsRead
  <2>1. PICK c \in Command : c.flag = "READ" /\ QueueChunk(NewStream(c), 1)
    BY <1>2, <1>b DEF HostSendsRead
  <2>2. /\ NewStream(c).command = c /\ StreamOK(NewStream(c))
        /\ c # NoCommand /\ 1 \in DOMAIN c.addr
    BY <1>a, CommandParts, NewStreamType DEF NewStream
  <2>3. stream'.command = c
    BY <2>1, <2>2, ChunkType
  <2>4. /\ ep'["in"].transfer = "stream" /\ ~ep'["in"].halted
        /\ ep'["out"].transfer = "none"
    BY <1>2, <1>b DEF HostSendsRead, Started, Ended, Direction, Endpoint
  <2>5. EndsInv'
    BY <1>d, <2>1, <2>3, <2>4 DEF EndsInv, Direction
  <2>6. ProgressInv'
    BY <1>d, <2>1, <2>2, <2>3, <2>4 DEF ProgressInv, HasData, Streaming, streamEp
  <2>. QED
    BY <1>b, <2>5, <2>6 DEF StatusInv
<1>. QED
  BY <1>1, <1>2

\* Nothing that the status is about changes.
LEMMA StatusFrame ==
    ASSUME StatusInv, slot'["picoboot"] = slot["picoboot"],
           UNCHANGED <<source, running, ep, cmd_status, configured, resets, aborted>>,
           stream'.command = stream.command, stream'.token = stream.token
    PROVE  StatusInv'
<1>1. /\ (Queued' <=> Queued) /\ (Running' <=> Running) /\ (IsCurrent' <=> IsCurrent)
      /\ (Busy' <=> Busy) /\ (Mutates' <=> Mutates) /\ (Streaming' <=> Streaming)
  BY DEF Queued, Running, IsCurrent, Busy, Mutates, Does, Streaming, streamEp
<1>2. EndsInv' /\ ProgressInv'
  BY <1>1 DEF StatusInv, EndsInv, ProgressInv
<1>3. Served' <=> Served
  BY <1>1 DEF Served
<1>4. OvertakenInv'
  BY <1>1, <1>3 DEF StatusInv, OvertakenInv
<1>. QED
  BY <1>2, <1>4 DEF StatusInv

\* A stream that asks for a chunk is busy, and its command is in progress.
LEMMA StatusChunk ==
    ASSUME AsyncTypeOK, PicobootTypeOK, OneTaskInv, StatusInv,
           NEW d \in Direction, ep[d].transfer = "stream", ~Deferred,
           NEW i \in DOMAIN stream.command.addr, QueueChunk(stream, i),
           UNCHANGED <<workerVars, ep, cmd_status, configured, resets, aborted>>
    PROVE  StatusInv'
<1>1. /\ stream.command # NoCommand /\ HasData(stream.command)
      /\ d = streamEp(stream.command)
      /\ \A f \in Direction : ep[f].transfer \in {"stream", "none"}
      /\ \A f \in Direction : ep[f].transfer = "stream" => f = streamEp(stream.command)
  BY DEF OneTaskInv, StreamInv
<1>2. stream'.command = stream.command /\ stream'.token = stream.token
  BY DEF QueueChunk, PicobootTypeOK, Stream
<1>3. cmd_status.bInProgress /\ Streaming
  BY <1>1 DEF StatusInv, EndsInv, Streaming
<1>4. EndsInv'
  BY <1>1, <1>2 DEF StatusInv, EndsInv, streamEp, HasData, Direction
<1>5. ProgressInv'
  BY <1>1, <1>2, <1>3 DEF ProgressInv, Streaming, streamEp, HasData
<1>6. OvertakenInv'
  <2>1. /\ (Running' <=> Running) /\ (IsCurrent' <=> IsCurrent)
        /\ (Mutates' <=> Mutates) /\ running' = running
    BY <1>2 DEF workerVars, Running, IsCurrent, Mutates, Does
  <2>2. Served' <=> Served
    BY <2>1 DEF Served
  <2>. QED
    BY <2>1, <2>2 DEF StatusInv, OvertakenInv
<1>. QED
  BY <1>4, <1>5, <1>6 DEF StatusInv

LEMMA StatusData ==
    ASSUME AsyncTypeOK, PicobootTypeOK, OneTaskInv, StatusInv,
           \/ HostSendsPart \/ HostSendsChunk \/ HostReadsChunk \/ HostTakesAck
           \/ HostClearsHalt \/ HostUsesDisk
    PROVE  StatusInv'
<1>a. /\ ep \in [Direction -> Endpoint] /\ "in" \in Direction /\ "out" \in Direction
      /\ stream \in Stream
  BY DEF PicobootTypeOK, Direction
<1>b. UNCHANGED <<workerVars, configured, resets, aborted>>
  BY DEF HostSendsPart, HostSendsChunk, HostReadsChunk, HostTakesAck, HostClearsHalt,
         HostUsesDisk, HandlerQueuesTask, asyncVars, sharedVars, usbVars
<1>1. CASE HostSendsPart \/ HostUsesDisk
  <2>1. slot'["picoboot"] = slot["picoboot"]
    BY <1>1 DEF HostSendsPart, HostUsesDisk, HandlerQueuesTask, queue_task,
                AsyncTypeOK, Queue
  <2>2. UNCHANGED <<source, running, usbVars, aborted>>
    BY <1>1, <1>b DEF HostSendsPart, HostUsesDisk, workerVars
  <2>. QED
    BY <2>1, <2>2, StatusFrame DEF usbVars
<1>2. CASE HostSendsChunk
  <2>1. /\ ep["out"].transfer = "stream" /\ ~Deferred
        /\ QueueChunk(stream, stream.chunk) /\ ep' = ep /\ cmd_status' = cmd_status
    BY <1>2 DEF HostSendsChunk, Idle
  <2>2. stream.chunk \in DOMAIN stream.command.addr
    BY <2>1, <1>a DEF OneTaskInv, StreamInv, PicobootTypeOK
  <2>. QED
    BY <2>1, <2>2, <1>a, <1>b, StatusChunk
<1>3. CASE HostReadsChunk
  <2>1. ep["in"].transfer = "stream" /\ ~Deferred
    BY <1>3 DEF HostReadsChunk, Idle
  <2>2. CASE ~IsLast /\ QueueChunk(stream, stream.chunk + 1) /\ UNCHANGED <<ep, cmd_status>>
    <3>1. stream.command \in Command /\ stream.chunk \in DOMAIN stream.command.addr
      BY <2>1, <1>a DEF OneTaskInv, StreamInv, PicobootTypeOK, Stream
    <3>2. stream.chunk + 1 \in DOMAIN stream.command.addr
      BY <3>1, <2>2, CommandParts DEF IsLast
    <3>. QED
      BY <2>1, <2>2, <3>2, <1>a, <1>b, StatusChunk
  <2>3. CASE /\ ep' = Ack(Ended(ep, "in"), stream.command)
             /\ cmd_status' = Over(cmd_status.dStatusCode)
             /\ UNCHANGED <<slot, stream>>
    <3>1. ~Queued /\ ~(Running /\ IsCurrent)
      BY <2>1, <1>a, NothingQueued
    <3>2. /\ stream.command.flag = "READ" /\ ep["out"].transfer \in {"stream", "none"}
          /\ "out" # streamEp(stream.command)
      BY <2>1, <1>a DEF OneTaskInv, StreamInv, HasData, streamEp
    <3>3. ep["out"].transfer # "stream"
      BY <3>2, <1>a DEF OneTaskInv, StreamInv
    <3>4. \A d \in Direction : ep'[d].transfer # "stream"
      BY <2>3, <3>2, <3>3, <1>a DEF Ack, Started, Ended, Direction, Endpoint
    <3>5. ~Queued' /\ ~Busy' /\ ~cmd_status'.bInProgress
      BY <3>1, <2>3, <1>b DEF Queued, Busy, Running, IsCurrent, workerVars, Over
    <3>6. OvertakenInv'
      <4>1. (Running' <=> Running) /\ (Mutates' <=> Mutates)
        BY <1>b DEF Running, Mutates, Does, workerVars
      <4>2. ~(Running /\ Served)
        BY <3>1 DEF Served
      <4>. QED
        BY <4>1, <4>2, <3>5, <1>b DEF StatusInv, OvertakenInv
    <3>. QED
      BY <3>4, <3>5, <3>6 DEF StatusInv, EndsInv, ProgressInv
  <2>. QED
    BY <1>3, <2>2, <2>3 DEF HostReadsChunk
<1>c. CASE HostTakesAck \/ HostClearsHalt
  <2>1. UNCHANGED <<slot, stream, cmd_status>>
    BY <1>c DEF HostTakesAck, HostClearsHalt, asyncVars
  <2>2. /\ (Queued' <=> Queued) /\ (Running' <=> Running) /\ (Busy' <=> Busy)
        /\ (IsCurrent' <=> IsCurrent) /\ (Mutates' <=> Mutates) /\ running' = running
    BY <2>1, <1>b DEF workerVars, Queued, Running, Busy, IsCurrent, Mutates, Does
  <2>3. CASE /\ \A d \in Direction : ep[d].transfer # "stream" /\ ep'[d].transfer # "stream"
             /\ ep["in"].transfer = "none" => ep'["in"].transfer = "none"
             /\ ~Served /\ ~Queued
    <3>1. ~Streaming
      BY <2>3, <1>a DEF Streaming, streamEp
    <3>2. OvertakenInv'
      BY <2>1, <2>2, <2>3, <1>b DEF StatusInv, OvertakenInv
    <3>3. EndsInv'
      BY <2>1, <2>2, <2>3 DEF StatusInv, EndsInv
    <3>4. ProgressInv'
      BY <2>1, <2>2, <2>3, <3>1, <1>b DEF StatusInv, ProgressInv
    <3>. QED
      BY <3>2, <3>3, <3>4 DEF StatusInv
  <2>4. CASE HostTakesAck
    <3>1. PICK d \in Direction :
             /\ ep[d] = Idle("ack")
             /\ LET e == Ended(ep, d)
                IN  ep' = IF e["out"].halted THEN e ELSE Started(e, "out", "default")
      BY <2>4 DEF HostTakesAck
    <3>2. ep[d].transfer = "ack"
      BY <3>1 DEF Idle
    <3>3. (\A f \in Direction : ep[f].transfer # "stream") /\ ~Queued
      BY <3>2, <1>a DEF OneTaskInv, StreamInv, QueuedInv, Direction
    <3>4. ~Served
      BY <3>2 DEF Served, Direction
    <3>5. \A f \in Direction : Ended(ep, d)[f].transfer # "stream"
      BY <3>3, <1>a DEF Ended, Direction, Endpoint
    <3>6. \A f \in Direction :
             Started(Ended(ep, d), "out", "default")[f].transfer # "stream"
      BY <3>5, <1>a DEF Started, Ended, Direction, Endpoint
    <3>7. ep["in"].transfer = "none"
            => /\ Ended(ep, d)["in"].transfer = "none"
               /\ Started(Ended(ep, d), "out", "default")["in"].transfer = "none"
      BY <1>a DEF Started, Ended, Direction, Endpoint
    <3>. QED
      BY <2>3, <3>1, <3>3, <3>4, <3>5, <3>6, <3>7
  <2>5. CASE HostClearsHalt
    <3>1. PICK d \in Direction :
             /\ ep[d].halted
             /\ ep' = [ep EXCEPT ![d] = Idle(IF d = "out" THEN "default" ELSE "none")]
      BY <2>5 DEF HostClearsHalt
    <3>2. CASE d = "out"
      <4>1. (\A f \in Direction : ep[f].transfer # "stream") /\ ~Queued /\ ~Served
        BY <3>1, <3>2 DEF OneTaskInv, StreamInv, QueuedInv, Served
      <4>2. ep'["out"].transfer = "default" /\ ep'["in"] = ep["in"]
        BY <3>1, <3>2, <1>a DEF Idle
      <4>. QED
        BY <2>3, <4>1, <4>2 DEF Direction
    <3>3. CASE d = "in"
      <4>1. ep["in"].transfer # "stream"
        BY <3>1, <3>3, <1>a DEF StatusInv, EndsInv
      <4>2. /\ ep'["in"].transfer = "none" /\ ~ep'["in"].halted
            /\ ep'["out"] = ep["out"]
        BY <3>1, <3>3, <1>a DEF Idle
      <4>3. EndsInv'
        BY <2>1, <4>2 DEF StatusInv, EndsInv, Direction
      <4>4. Streaming' <=> Streaming
        BY <2>1, <4>1, <4>2 DEF Streaming, streamEp
      <4>5. ProgressInv'
        BY <2>1, <2>2, <4>4, <1>b DEF StatusInv, ProgressInv
      <4>6. Served => Served'
        BY <2>1, <2>2, <4>2 DEF Served
      <4>7. OvertakenInv'
        BY <2>1, <2>2, <4>6, <1>b DEF StatusInv, OvertakenInv
      <4>. QED
        BY <4>3, <4>5, <4>7 DEF StatusInv
    <3>. QED
      BY <3>2, <3>3 DEF Direction
  <2>. QED
    BY <1>c, <2>4, <2>5
<1>. QED
  BY <1>1, <1>2, <1>3, <1>c

\* What a reset does not end it overtakes.
LEMMA StatusReset ==
    ASSUME AsyncTypeOK, PicobootTypeOK, StatusInv, HostResetsPicoboot \/ HostUnconfigures
    PROVE  StatusInv'
<1>1. UNCHANGED <<workerVars, stream>>
  BY DEF HostResetsPicoboot, HostUnconfigures
<1>2. (Running' <=> Running) /\ running' = running /\ (Mutates' <=> Mutates)
  BY <1>1 DEF Running, Mutates, Does, workerVars
<1>3. \A d \in Direction : ep'[d].transfer # "stream"
  BY DEF HostResetsPicoboot, HostUnconfigures, PicobootReset, ResetEndpoints, Idle
<1>4. ep'["in"].transfer = "none"
  BY DEF HostResetsPicoboot, HostUnconfigures, PicobootReset, ResetEndpoints, Idle,
         Direction
<1>5. EndsInv'
  BY <1>3, <1>4 DEF EndsInv
<1>6. resets' # 0
  BY DEF HostResetsPicoboot, HostUnconfigures, CountReset, PicobootTypeOK
<1>7. CASE HostResetsPicoboot
  <2>1. ~Queued' /\ ~cmd_status'.bInProgress
    BY <1>7 DEF HostResetsPicoboot, PicobootReset, reset_queues, Queued, Queue, Over
  <2>2. ProgressInv'
    BY <2>1 DEF ProgressInv
  <2>3. aborted' = (aborted \/ cmd_status.bInProgress)
    BY <1>7 DEF HostResetsPicoboot
  <2>4. OvertakenInv'
    BY <1>2, <1>6, <2>3 DEF StatusInv, OvertakenInv, Served
  <2>. QED
    BY <1>5, <2>2, <2>4 DEF StatusInv
<1>8. CASE HostUnconfigures
  <2>1. aborted' /\ ~configured' /\ slot' = slot /\ cmd_status' = cmd_status
    BY <1>8 DEF HostUnconfigures
  <2>2. ProgressInv'
    BY <2>1 DEF StatusInv, ProgressInv, Queued
  <2>3. OvertakenInv'
    BY <1>2, <1>6, <2>1 DEF OvertakenInv
  <2>. QED
    BY <1>5, <2>2, <2>3 DEF StatusInv
<1>. QED
  BY <1>7, <1>8

\* SET_CONFIGURATION ends what the host has crossed before: it aborts the flash
\* whatever the status says.
LEMMA StatusConfigured ==
    ASSUME PicobootTypeOK, CalmInv, HostConfigures
    PROVE  StatusInv'
<1>1. /\ \A d \in Direction : ep'[d].transfer # "stream"
      /\ ep'["in"].transfer = "none"
  BY DEF HostConfigures, PicobootReset, ResetEndpoints, Idle, Direction
<1>2. ~Queued' /\ ~cmd_status'.bInProgress
  BY DEF HostConfigures, PicobootReset, reset_queues, Queued, Queue, Over
<1>3. aborted' /\ (Running' <=> Running)
  BY DEF HostConfigures, Running, workerVars
<1>4. Running => resets' # 0
  <2>1. CASE CountReset("set_config")
    BY <2>1 DEF CountReset, PicobootTypeOK
  <2>2. CASE ~configured /\ resets' = resets
    BY <2>2 DEF CalmInv, NoTaskLeft
  <2>. QED
    BY <2>1, <2>2 DEF HostConfigures
<1>. QED
  BY <1>1, <1>2, <1>3, <1>4 DEF StatusInv, EndsInv, ProgressInv, OvertakenInv

\* A callback answers for its command, or finds that it has been overtaken.
LEMMA StatusComplete ==
    ASSUME AsyncTypeOK, PicobootTypeOK, OneTaskInv, StatusInv,
           AckCommand \/ FinishChunk \/ DiskComplete
    PROVE  StatusInv'
<1>a. /\ ep \in [Direction -> Endpoint] /\ "in" \in Direction /\ "out" \in Direction
      /\ stream \in Stream
  BY DEF PicobootTypeOK, Direction
<1>b. TaskDone /\ UNCHANGED <<slot, configured, resets, aborted>>
  BY DEF AckCommand, FinishChunk, DiskComplete, usbVars, sharedVars
<1>c. ~Running' /\ running # NoTask /\ (Queued' <=> Queued) /\ (Busy' <=> Queued)
  BY <1>b DEF TaskDone, Running, Queued, Busy, AsyncTypeOK
<1>d. OvertakenInv'
  BY <1>c DEF OvertakenInv
<1>e. source = "picoboot" /\ IsCurrent
        => /\ ~Queued /\ stream.command # NoCommand
           /\ running.type = {stream.command.flag}
  BY <1>c DEF OneTaskInv, RunningInv, QueuedInv, Running
\* The task was not of this command.
<1>f. CASE UNCHANGED <<ep, cmd_status, stream>> /\ (source = "picoboot" => ~IsCurrent)
  <2>1. (Busy => Queued) /\ (Streaming' <=> Streaming)
    BY <1>f DEF Busy, Running, Streaming, streamEp
  <2>2. Queued => Busy
    BY DEF Busy
  <2>3. EndsInv'
    BY <1>c, <1>f, <2>2 DEF StatusInv, EndsInv
  <2>4. ProgressInv'
    BY <1>b, <1>c, <1>f, <2>1 DEF StatusInv, ProgressInv
  <2>. QED
    BY <1>d, <2>3, <2>4 DEF StatusInv
\* It is over.
<1>g. CASE /\ ~Queued /\ ~cmd_status'.bInProgress
           /\ \A d \in Direction : ep'[d].transfer # "stream"
  BY <1>c, <1>d, <1>g DEF StatusInv, EndsInv, ProgressInv
<1>1. CASE DiskComplete
  BY <1>1, <1>f DEF DiskComplete, usbVars
<1>2. CASE AckCommand
  <2>1. CASE IsCurrent
    <3>1. ep' = Ack(ep, stream.command) /\ source = "picoboot" /\ ~ReadsOrWrites
          /\ ~cmd_status'.bInProgress
      BY <1>2, <2>1 DEF AckCommand, Over
    <3>2. ~HasData(stream.command)
      BY <3>1, <2>1, <1>e DEF ReadsOrWrites, Does, HasData
    <3>3. \A d \in Direction : ep[d].transfer # "stream"
      BY <3>2 DEF OneTaskInv, StreamInv
    <3>4. \A d \in Direction : ep'[d].transfer # "stream"
      BY <3>1, <3>3, <1>a DEF Ack, Started, Direction, Endpoint
    <3>. QED
      BY <2>1, <3>1, <3>4, <1>e, <1>g
  <2>2. CASE ~IsCurrent
    BY <1>2, <2>2, <1>f DEF AckCommand
  <2>. QED
    BY <2>1, <2>2
<1>3. CASE FinishChunk
  <2>1. CASE ~IsCurrent
    BY <1>3, <2>1, <1>f DEF FinishChunk
  <2>a. ASSUME IsCurrent
        PROVE  /\ ~Queued /\ stream.command # NoCommand /\ HasData(stream.command)
               /\ running.type = {stream.command.flag}
    BY <1>3, <2>a, <1>e DEF FinishChunk, ReadsOrWrites, Does, HasData
  <2>2. CASE IsCurrent /\ ChunkFails
    <3>1. streamEp(stream.command) \in Direction
      BY DEF streamEp, Direction
    <3>2. \A d \in Direction : ep[d].transfer = "stream" => d = streamEp(stream.command)
      BY DEF OneTaskInv, StreamInv
    <3>3. \A d \in Direction : ep'[d].transfer # "stream"
      BY <2>2, <3>1, <3>2, <1>a DEF ChunkFails, Ended, Halted, Endpoint
    <3>. QED
      BY <2>2, <3>3, <2>a, <1>g DEF ChunkFails, Over
  <2>3. CASE IsCurrent /\ Streaming /\ ChunkSucceeds
    <3>1. CASE Does("WRITE") /\ IsLast
      <4>1. ep' = Ack(Ended(ep, "out"), stream.command) /\ ~cmd_status'.bInProgress
        BY <2>3, <3>1 DEF ChunkSucceeds, Over
      <4>2. stream.command.flag = "WRITE"
        BY <2>3, <2>a, <3>1 DEF Does
      <4>3. ep["in"].transfer # "stream"
        BY <4>2, <1>a DEF OneTaskInv, StreamInv, streamEp
      <4>4. \A d \in Direction : ep'[d].transfer # "stream"
        BY <4>1, <4>2, <4>3, <1>a DEF Ack, Started, Ended, Direction, Endpoint
      <4>. QED
        BY <2>3, <2>a, <4>1, <4>4, <1>g
    <3>2. CASE ~(Does("WRITE") /\ IsLast)
      <4>1. /\ ep' = ep /\ stream'.command = stream.command
            /\ cmd_status' = [cmd_status EXCEPT !.dStatusCode = result]
        BY <2>3, <3>2, <1>a DEF ChunkSucceeds, Stream
      <4>2. cmd_status'.bInProgress <=> cmd_status.bInProgress
        BY <4>1 DEF PicobootTypeOK
      <4>3. Streaming' /\ ~Queued'
        BY <4>1, <1>c, <2>3, <2>a DEF Streaming, streamEp
      <4>4. EndsInv'
        BY <4>1, <4>2, <4>3, <1>c DEF StatusInv, EndsInv
      <4>5. ProgressInv'
        BY <4>1, <4>3, <2>3, <2>a DEF ProgressInv, HasData
      <4>. QED
        BY <4>4, <4>5, <1>d DEF StatusInv
    <3>. QED
      BY <3>1, <3>2
  <2>4. CASE IsCurrent /\ ~Streaming /\ ChunkOutlivesStream
    <3>1. /\ ep' = ep /\ stream' = stream
          /\ cmd_status' = [cmd_status EXCEPT !.dStatusCode = result]
      BY <2>4 DEF ChunkOutlivesStream
    <3>2. cmd_status'.bInProgress <=> cmd_status.bInProgress
      BY <3>1 DEF PicobootTypeOK
    <3>3. ~Queued' /\ ~Busy'
      BY <2>4, <2>a, <1>c
    <3>4. EndsInv'
      BY <3>1, <3>2, <3>3 DEF StatusInv, EndsInv
    <3>5. ~(configured /\ cmd_status.bInProgress)
      BY <2>4, <2>a DEF StatusInv, ProgressInv
    <3>6. ProgressInv'
      BY <3>2, <3>3, <3>5, <1>b DEF ProgressInv
    <3>. QED
      BY <3>4, <3>6, <1>d DEF StatusInv
  <2>. QED
    BY <1>3, <2>1, <2>2, <2>3, <2>4 DEF FinishChunk
<1>. QED
  BY <1>1, <1>2, <1>3

\* The worker takes a task of the command in progress.
LEMMA StatusWork ==
    ASSUME AsyncTypeOK, PicobootTypeOK, OneTaskInv, FlagInv, StatusInv, Work,
           UNCHANGED usbVars
    PROVE  StatusInv'
<1>a. UNCHANGED <<stream, ep, cmd_status, configured, resets, sent>>
  BY DEF usbVars
<1>b. (IsCurrent' <=> running'.token = stream.token) /\ (Streaming' <=> Streaming)
  BY <1>a DEF IsCurrent, Streaming, streamEp
<1>1. CASE full("disk") /\ dequeue_task("disk")
  <2>1. /\ slot'["picoboot"] = slot["picoboot"] /\ ~Running' /\ source' = "disk"
        /\ pc \in {"poll_disk", "poll_picoboot"}
    BY <1>1 DEF dequeue_task, full, Running, AsyncTypeOK, Queue, Work, PollDisk,
                PollPicoboot, Wake, Refuse, Accept, RefuseVectors, Prepare, EraseSector,
                SkipAccess, AccessMemory, ReadFlash, StartProgram, EndProgram, Finish
  <2>2. ~Running
    BY <2>1 DEF Running, AsyncTypeOK
  <2>3. (Queued' <=> Queued) /\ (Busy' <=> Busy)
    BY <2>1, <2>2 DEF Queued, Busy
  <2>4. EndsInv' /\ ProgressInv'
    BY <1>a, <1>b, <2>3 DEF StatusInv, EndsInv, ProgressInv
  <2>5. OvertakenInv'
    BY <2>1 DEF OvertakenInv
  <2>. QED
    BY <2>4, <2>5 DEF StatusInv
<1>2. CASE full("picoboot") /\ dequeue_task("picoboot")
  <2>1. /\ Queued /\ running' = slot["picoboot"] /\ slot'["picoboot"] = NoTask
        /\ source' = "picoboot" /\ running' # NoTask
    BY <1>2 DEF dequeue_task, full, Queued, AsyncTypeOK, Queue
  <2>2. Running' /\ IsCurrent' /\ Busy' /\ Busy /\ ~Queued'
    BY <2>1, <1>b DEF Running, Queued, Busy, OneTaskInv, QueuedInv
  <2>3. EndsInv' /\ ProgressInv'
    BY <1>a, <1>b, <2>2 DEF StatusInv, EndsInv, ProgressInv
  <2>4. Served'
    BY <1>a, <2>1, <2>2 DEF Served, StatusInv, ProgressInv, OneTaskInv, QueuedInv
  <2>5. OvertakenInv'
    BY <2>4 DEF OvertakenInv
  <2>. QED
    BY <2>3, <2>5 DEF StatusInv
<1>3. CASE UNCHANGED <<slot, source, running>>
  <2>1. /\ (Queued' <=> Queued) /\ (Running' <=> Running) /\ (Busy' <=> Busy)
        /\ (IsCurrent' <=> IsCurrent) /\ (Mutates' <=> Mutates)
    BY <1>a, <1>3 DEF Queued, Running, Busy, IsCurrent, Mutates, Does
  <2>2. EndsInv' /\ ProgressInv'
    BY <1>a, <1>b, <2>1 DEF StatusInv, EndsInv, ProgressInv
  <2>3. Running /\ Mutates /\ aborted => aborted'
    <3>1. CASE Prepare
      <4>1. aborted /\ ~Does("EXIT_XIP") => aborted'
        BY <3>1 DEF Prepare
      <4>2. Running /\ Mutates => ~Does("EXIT_XIP")
        BY DEF FlagInv, OneFlag, Mutates, Does
      <4>. QED
        BY <4>1, <4>2
    <3>2. CASE ~Prepare
      BY <3>2 DEF Work, PollDisk, PollPicoboot, Wake, Refuse, Accept, RefuseVectors,
           EraseSector, SkipAccess, AccessMemory, ReadFlash, StartProgram, EndProgram,
           Finish, dequeue_task, sharedVars
    <3>. QED
      BY <3>1, <3>2
  <2>4. Served' <=> Served
    BY <1>a, <1>3, <2>1 DEF Served
  <2>5. OvertakenInv'
    BY <1>a, <1>3, <2>1, <2>3, <2>4 DEF StatusInv, OvertakenInv
  <2>. QED
    BY <2>2, <2>5 DEF StatusInv
<1>. QED
  BY <1>1, <1>2, <1>3
  DEF Work, PollDisk, PollPicoboot, Wake, Refuse, Accept, RefuseVectors, Prepare,
      EraseSector, SkipAccess, AccessMemory, ReadFlash, StartProgram, EndProgram, Finish

LEMMA StatusInit == PicobootInit => StatusInv
<1> SUFFICES ASSUME PicobootInit PROVE StatusInv
  OBVIOUS
<1>1. ~Queued /\ ~Running /\ ~cmd_status.bInProgress
      /\ \A d \in Direction : ep[d].transfer = "none"
  BY DEF PicobootInit, AsyncInit, Queued, Running, Queue, Idle
<1>. QED
  BY <1>1 DEF StatusInv, EndsInv, ProgressInv, OvertakenInv, Busy

LEMMA StatusStep ==
    ASSUME AsyncTypeOK, PicobootTypeOK, MatchInv, FlagInv, CalmInv,
           ~crossed => OneTaskInv /\ StatusInv, ~crossed',
           [PicobootNext]_picobootVars
    PROVE  StatusInv'
<1>1. CASE HostConfigures
  BY <1>1, StatusConfigured
<1>2. CASE ~HostConfigures
  <2>1. OneTaskInv /\ StatusInv
    BY <1>2, CrossedStays
  <2>2. CASE Host
    BY <1>2, <2>1, <2>2, StatusCommand, StatusTransfer, StatusData, StatusReset DEF Host
  <2>3. CASE Work /\ UNCHANGED usbVars
    BY <2>1, <2>3, StatusWork
  <2>4. CASE AckCommand \/ FinishChunk \/ DiskComplete
    BY <2>1, <2>4, StatusComplete
  <2>5. CASE UNCHANGED picobootVars
    BY <2>1, <2>5, StatusFrame DEF picobootVars, asyncVars, usbVars, workerVars, sharedVars
  <2>. QED
    BY <2>2, <2>3, <2>4, <2>5 DEF PicobootNext, PicobootWork
<1>. QED
  BY <1>1, <1>2

\* The invariants that what the host sees rests on.
HostInv == IInv /\ CheckedInv /\ FlagInv /\ CalmInv /\ (~crossed => StatusInv)

LEMMA HostInvInit == PicobootInit => HostInv
<1> SUFFICES ASSUME PicobootInit PROVE HostInv
  OBVIOUS
<1>1. IInv /\ StatusInv /\ CheckedInv
  BY IInvInit, StatusInit DEF CheckedInv, PicobootInit, AsyncInit
<1>2. /\ ~Queued /\ ~Running /\ ~cmd_status.bInProgress
      /\ ep["out"].transfer = "none" /\ ep["in"].transfer = "none"
      /\ ~ep["out"].halted /\ ~ep["in"].halted
  BY DEF PicobootInit, AsyncInit, Queued, Running, Queue, Idle, Direction
<1>3. FlagInv /\ CalmInv
  BY <1>2 DEF FlagInv, CalmInv, NoTaskLeft, Direction
<1>. QED
  BY <1>1, <1>3 DEF HostInv

LEMMA HostInvCorrect == PicobootSafety => []HostInv
<1>1. HostInv /\ [PicobootNext]_picobootVars => HostInv'
  <2> SUFFICES ASSUME HostInv, [PicobootNext]_picobootVars PROVE HostInv'
    OBVIOUS
  <2>a. /\ IInv /\ AsyncTypeOK /\ PicobootTypeOK /\ MatchInv /\ FlagInv /\ CalmInv
        /\ CheckedInv /\ (~crossed => StatusInv)
    BY DEF HostInv, IInv
  <2>1. IInv'
    BY <2>a, IInvStep
  <2>2. ~crossed => OneTaskInv
    BY <2>a, OneTaskFolded DEF IInv
  <2>3. ~crossed' => StatusInv'
    BY <2>a, <2>2, StatusStep
  <2>4. FlagInv' /\ CalmInv'
    BY <2>a, FlagStep, CalmStep
  <2>5. CheckedInv'
    BY <2>a, IInvAsyncStep, CheckedStep
  <2>. QED
    BY <2>1, <2>3, <2>4, <2>5 DEF HostInv
<1>. QED
  BY <1>1, HostInvInit, PTL DEF PicobootSafety

\* An acknowledgement that a callback sends finds the endpoint idle, if the host
\* has sent no command across an answer: it can get no other transfer on IN while a
\* task of the command is under way.
THEOREM AckCorrect == PicobootSafety => []AckOnIdleEndpoint
<1>1. HostInv => AckOnIdleEndpoint
  <2> SUFFICES ASSUME HostInv, ~crossed, pc = "complete", source = "picoboot", IsCurrent,
                      ~Does("READ")
               PROVE  ep["in"].transfer = "none"
    BY DEF AckOnIdleEndpoint, AckFindsIdle
  <2>1. Running
    BY DEF HostInv, IInv, AsyncTypeOK, Running
  <2>2. running.type = {stream.command.flag}
    BY <2>1 DEF HostInv, IInv, MatchInv, RunningInv
  <2>. QED
    BY <2>1, <2>2 DEF HostInv, StatusInv, EndsInv, Busy, Does
<1>. QED
  BY <1>1, HostInvCorrect, PTL

\* bInProgress is set while, and only while, something will clear it, and while
\* PICOBOOT_IF_RESET may be needed to get the worker out of the flash, for a host
\* that sends no command across an answer.
THEOREM ProgressCorrect == PicobootSafety => []StatusTellsProgress
<1>1. HostInv => StatusTellsProgress
  <2> SUFFICES ASSUME HostInv, ~crossed
               PROVE  /\ configured /\ cmd_status.bInProgress
                            => Current # {} \/ (stream.command # NoCommand /\ Streaming)
                      /\ source = "picoboot" /\ WaitsForFlash
                            => cmd_status.bInProgress \/ aborted
    BY DEF StatusTellsProgress
  <2>a. OneTaskInv /\ StatusInv
    BY OneTaskFolded DEF HostInv, IInv
  <2>1. Queued \/ (Running /\ IsCurrent) => Current # {}
    <3>1. Queued => slot["picoboot"] \in Current
      BY <2>a DEF Queued, Current, Outstanding, OneTaskInv, QueuedInv
    <3>2. Running /\ IsCurrent => running \in Current
      BY DEF Running, IsCurrent, Current, Outstanding
    <3>. QED
      BY <3>1, <3>2
  <2>2. configured /\ cmd_status.bInProgress
          => Current # {} \/ (stream.command # NoCommand /\ Streaming)
    BY <2>a, <2>1 DEF StatusInv, ProgressInv, Busy
  <2>3. ASSUME source = "picoboot", WaitsForFlash
        PROVE  cmd_status.bInProgress \/ aborted
    <3>1. Running
      BY <2>3 DEF HostInv, IInv, AsyncTypeOK, Running, WaitsForFlash
    <3>2. Mutates
      BY <2>3 DEF HostInv, CheckedInv, WaitsForFlash, Mutates
    <3>. QED
      BY <2>a, <3>1, <3>2 DEF StatusInv, OvertakenInv, Served
  <2>. QED
    BY <2>2, <2>3
<1>. QED
  BY <1>1, HostInvCorrect, PTL

\* Without a reset usb_packet_done finds the transfer of the chunk: what breaks
\* its assertion is only that a reset of the host overtakes the chunk's task.
THEOREM PacketDoneCorrect == PicobootSafety => [](resets = 0 => PacketDoneHasTransfer)
<1>1. HostInv => (resets = 0 => PacketDoneHasTransfer)
  <2> SUFFICES ASSUME HostInv, resets = 0, pc = "complete", source = "picoboot",
                      IsCurrent, ReadsOrWrites
               PROVE  ep[streamEp(stream.command)].transfer # "none"
    BY DEF PacketDoneHasTransfer
  <2>1. Running
    BY DEF HostInv, IInv, AsyncTypeOK, Running
  <2>2. running.type = {stream.command.flag}
    BY <2>1 DEF HostInv, IInv, MatchInv, RunningInv
  <2>3. HasData(stream.command)
    BY <2>2 DEF ReadsOrWrites, Does, HasData
  <2>. QED
    BY <2>1, <2>3 DEF HostInv, CalmInv, NoTaskLeft, Streaming
<1>. QED
  BY <1>1, HostInvCorrect, PTL

\* A task of the stream's command has its type.
LEMMA CurrentTask ==
    ASSUME MatchInv, NEW t \in Current
    PROVE  /\ OwnQueued \/ OwnRunning
           /\ t.type = {stream.command.flag}
           /\ OwnRunning => running.type = {stream.command.flag}
  BY OutstandingIs DEF Current, OwnQueued, OwnRunning, IsCurrent, MatchInv, RunningInv,
         WaitingInv

\* The chunk buffer changes when the host sends, and when a READ fills it.
LEMMA BufferChange ==
    ASSUME AsyncTypeOK, PicobootTypeOK, [PicobootNext]_picobootVars,
           buffer'["picoboot"] # buffer["picoboot"]
    PROVE  \/ ep["out"] = Idle("stream") /\ ~Deferred
           \/ pc = "mutate" /\ source = "picoboot" /\ Does("READ")
<1>a. buffer \in [Queue -> Content] /\ "picoboot" \in Queue /\ "disk" \in Queue
  BY DEF AsyncTypeOK, Queue
<1>1. CASE HostSendsPart \/ HostSendsChunk
  BY <1>1 DEF HostSendsPart, HostSendsChunk
<1>2. CASE HostUsesDisk
  BY <1>2, <1>a DEF HostUsesDisk, HandlerQueuesTask, fill_buffer
<1>3. CASE AccessMemory \/ ReadFlash
  <2>1. /\ (pc = "mutate" /\ Does("READ")) \/ buffer' = buffer
        /\ buffer' # buffer => \E d : buffer' = [buffer EXCEPT ![source] = d]
    BY <1>3 DEF AccessMemory, ReadFlash
  <2>2. source = "picoboot"
    BY <2>1, <1>a DEF AsyncTypeOK
  <2>. QED
    BY <2>1, <2>2
<1>4. CASE UNCHANGED buffer
  BY <1>4
<1>. QED
  BY <1>1, <1>2, <1>3, <1>4
  DEF PicobootNext, PicobootWork, Host, HostSendsJunk, HostSendsBadCommand,
      HostSendsReboot, HostSendsCommand, HostSendsWrite, HostSendsRead, HostReadsChunk,
      HostTakesAck, HostClearsHalt, HostResetsPicoboot, HostConfigures, HostUnconfigures,
      AckCommand, FinishChunk, DiskComplete, Work, PollDisk, PollPicoboot, dequeue_task,
      Wake, Refuse, Accept, RefuseVectors, Prepare, EraseSector, SkipAccess,
      StartProgram, EndProgram, Finish, picobootVars, asyncVars, sharedVars

\* The chunk buffer of a WRITE is left alone from the packet that completes the
\* chunk to the callback of its task (packet_queued), but for an overtaken READ.
THEOREM BufferCorrect == PicobootSafety => ChunkKeepsBuffer
<1>1. HostInv /\ [PicobootNext]_picobootVars
        => [buffer'["picoboot"] # buffer["picoboot"]
              /\ (\E t \in Current : "WRITE" \in t.type)
            => source = "picoboot" /\ Does("READ") /\ ~IsCurrent]_buffer
  <2> SUFFICES ASSUME HostInv, [PicobootNext]_picobootVars,
                      buffer'["picoboot"] # buffer["picoboot"],
                      NEW t \in Current, "WRITE" \in t.type
               PROVE  source = "picoboot" /\ Does("READ") /\ ~IsCurrent
    OBVIOUS
  <2>a. AsyncTypeOK /\ PicobootTypeOK /\ MatchInv
    BY DEF HostInv, IInv
  <2>b. /\ OwnQueued \/ OwnRunning
        /\ OwnRunning => running.type = {"WRITE"}
    BY <2>a, CurrentTask
  <2>1. ~(ep["out"] = Idle("stream") /\ ~Deferred)
    BY <2>a, <2>b, NoOwnTask DEF Idle, Direction
  <2>2. pc = "mutate" /\ source = "picoboot" /\ Does("READ")
    BY <2>a, <2>1, BufferChange
  <2>3. Running
    BY <2>a, <2>2 DEF AsyncTypeOK, Running
  <2>. QED
    BY <2>b, <2>2, <2>3 DEF Does, OwnRunning
<1>. QED
  BY <1>1, HostInvCorrect, PTL DEF PicobootSafety, ChunkKeepsBuffer

-----------------------------------------------------------------------------
(***************************************************************************)
(* Acknowledged WRITEs.  While no reset interferes, the chunks a WRITE has *)
(* behind it are in the flash as long as it is the one who last changed it.*)
(***************************************************************************)

\* A task past its preparation is on record as the last to change the flash.
MutatorInv ==
    (pc \in {"mutate", "program"} \/ (pc = "complete" /\ result = "OK")) /\ Mutates
        => lastMutation = source

LEMMA MutatorStep ==
    ASSUME AsyncTypeOK, MutatorInv, [AsyncNext]_asyncVars
    PROVE  MutatorInv'
<1>1. CASE Handler \/ UNCHANGED asyncVars
  <2>1. UNCHANGED <<workerVars, lastMutation>>
    BY <1>1 DEF Handler, HandlerQueuesTask, HandlerFillsBuffer,
         HandlerResetsQueues, HandlerAbortsFlash, HandlerReboots,
         HandlerSetsMedium, asyncVars, flashVars
  <2>. QED
    BY <2>1 DEF workerVars, MutatorInv, Mutates, Does
<1>2. CASE Prepare
  <2>1. PICK r \in {"OK", "USER_ERROR"} :
          /\ lastMutation' = IF r = "OK" /\ Mutates /\ ~Interleaved
                             THEN source ELSE lastMutation
          /\ IF PrepareResult(r) = "OK"
             THEN /\ pc' = "mutate"
                  /\ UNCHANGED <<slot, event, source, running, result>>
             ELSE Finish(PrepareResult(r))
    BY <1>2 DEF Prepare, FlashResults
  <2>2. CASE PrepareResult(r) = "OK"
    <3>1. r = "OK" /\ ~Interleaved
      BY <2>2 DEF PrepareResult
    <3>. QED
      BY <2>1, <2>2, <3>1 DEF MutatorInv, Mutates, Does
  <2>3. CASE PrepareResult(r) # "OK"
    BY <2>1, <2>3 DEF Finish, MutatorInv
  <2>. QED
    BY <2>2, <2>3
<1>3. CASE EraseSector \/ StartProgram \/ EndProgram \/ SkipAccess \/ AccessMemory \/ ReadFlash
  <2>1. pc \in {"mutate", "program"} /\ UNCHANGED <<source, running, lastMutation>>
    BY <1>3 DEF EraseSector, StartProgram, EndProgram, SkipAccess, AccessMemory,
                ReadFlash, Finish, flashVars
  <2>. QED
    BY <2>1 DEF MutatorInv, Mutates, Does
<1>4. CASE Refuse \/ RefuseVectors
  <2>1. pc' = "complete" /\ result' # "OK"
    BY <1>4 DEF Refuse, RefuseVectors, Finish
  <2>. QED
    BY <2>1 DEF MutatorInv
<1>5. CASE PollDisk \/ PollPicoboot \/ Wake \/ Accept \/ Complete
  <2>1. pc' \notin {"mutate", "program", "complete"}
    BY <1>5 DEF PollDisk, PollPicoboot, Wake, Accept, Complete, TaskDone, dequeue_task
  <2>. QED
    BY <2>1 DEF MutatorInv
<1>. QED
  BY <1>1, <1>2, <1>3, <1>4, <1>5 DEF AsyncNext, Work

\* Chunk i of the stream's command is in the flash, if that is where it goes.
Written(i) ==
    LET c == stream.command IN
    c.addr[i] \in Page => flash[c.addr[i]] \in {c.data[i], "torn"}

\* The last to change the flash was PICOBOOT, and it has got through.
Kept == lastMutation = "picoboot" /\ ~aborted

IsChunkTask(t) ==
    /\ t.transfer_addr = stream.command.addr[stream.chunk]
    /\ stream.chunk > 1 => t.check_last_mutation_source

\* A task of the stream has the chunk's page, and the buffer its data; the chunks
\* before it are written.
ChunksInv ==
    /\ stream.chunk > 1 \/ Busy => stream.check
    /\ Queued => IsChunkTask(slot["picoboot"])
    /\ Running => IsChunkTask(running)
    /\ Busy => buffer["picoboot"] = stream.command.data[stream.chunk]
    /\ Kept => \A i \in 1..(stream.chunk - 1) : Written(i)
    /\ Running /\ (pc = "program" \/ (pc = "complete" /\ result = "OK" /\ ~aborted))
          => Written(stream.chunk)

Writing == resets = 0 /\ ep["out"].transfer = "stream"

WriteInv == Writing => ChunksInv

\* What a stream on OUT says of its command and of the task that runs.
LEMMA WritingFacts ==
    ASSUME AsyncTypeOK, PicobootTypeOK, MatchInv, CalmInv, Writing
    PROVE  /\ stream.command \in Command /\ stream.command.flag = "WRITE"
           /\ stream.command # NoCommand /\ Streaming
           /\ stream.chunk \in DOMAIN stream.command.addr /\ stream.chunk \in Nat \ {0}
           /\ stream.token \in 1..MaxCommands /\ stream.check \in BOOLEAN
           /\ ep["in"].transfer = "none"
           /\ Running => IsCurrent /\ running.type = {"WRITE"}
<1>1. "out" \in Direction /\ "in" \in Direction /\ ep["out"].transfer = "stream"
  BY DEF Direction, Writing
<1>2. /\ stream.command \in Command /\ stream.chunk \in DOMAIN stream.command.addr
      /\ HasData(stream.command) /\ "out" = streamEp(stream.command)
      /\ ep["in"].transfer \in {"stream", "none"}
      /\ ep["in"].transfer = "stream" => "in" = streamEp(stream.command)
      /\ stream.command # NoCommand
  BY <1>1 DEF MatchInv, TransferInv, CalmInv, Occupied, Writing, PicobootTypeOK, Stream
<1>3. stream.command.flag = "WRITE" /\ Streaming
  BY <1>1, <1>2 DEF streamEp, HasData, Streaming
<1>4. Running => IsCurrent /\ running.type = {"WRITE"}
  BY <1>2, <1>3 DEF CalmInv, Writing, MatchInv, RunningInv
<1>5. /\ stream.token \in 1..MaxCommands /\ stream.check \in BOOLEAN
      /\ stream.chunk \in Nat \ {0}
  BY <1>2, PicobootAssumption DEF PicobootTypeOK, Stream
<1>. QED
  BY <1>2, <1>3, <1>4, <1>5

\* Nothing the chunks are about changes.
LEMMA WriteFrame ==
    ASSUME AsyncTypeOK, WriteInv, slot'["picoboot"] = slot["picoboot"],
           buffer'["picoboot"] = buffer["picoboot"] \/ ~Busy,
           UNCHANGED <<stream, flash, lastMutation, aborted>>,
           \/ UNCHANGED <<pc, source, running, result>>
           \/ ~Running /\ ~Running',
           Writing' => Writing
    PROVE  WriteInv'
<1> SUFFICES ASSUME Writing' PROVE ChunksInv'
  BY DEF WriteInv
<1>1. ChunksInv
  BY DEF WriteInv
<1>2. /\ (Queued' <=> Queued) /\ (Running' <=> Running)
      /\ Running => UNCHANGED <<pc, running, result>>
  BY DEF Queued, Running
<1>3. Busy' <=> Busy
  BY <1>2 DEF Busy, IsCurrent
<1>4. Kept' <=> Kept
  BY DEF Kept
<1>5. \A i : Written(i)' <=> Written(i)
  BY DEF Written
<1>6. Queued => IsChunkTask(slot["picoboot"])'
  BY <1>1 DEF ChunksInv, IsChunkTask
<1>7. Running => IsChunkTask(running)'
  BY <1>1, <1>2 DEF ChunksInv, IsChunkTask
<1>. QED
  BY <1>1, <1>2, <1>3, <1>4, <1>5, <1>6, <1>7 DEF ChunksInv

\* A WRITE that begins has written nothing and has no task.
LEMMA WriteBegins ==
    ASSUME AsyncTypeOK, PicobootTypeOK, MatchInv, CalmInv, WriteInv, HostSendsWrite
    PROVE  WriteInv'
<1> SUFFICES ASSUME Writing' PROVE ChunksInv'
  BY DEF WriteInv
<1>1. UNCHANGED asyncVars /\ resets = 0 /\ CommandArrives
  BY DEF HostSendsWrite, Writing
<1>2. ~Queued /\ ~Running
  BY <1>1, CalmArrival DEF NoTaskLeft
<1>3. ~Queued' /\ ~Running' /\ ~Busy'
  BY <1>1, <1>2 DEF Queued, Running, Busy, asyncVars, workerVars
<1>4. stream'.chunk = 1
  BY DEF HostSendsWrite, NewStream
<1>. QED
  BY <1>3, <1>4 DEF ChunksInv

\* A chunk is complete: its data is in the buffer and its task in the queue.
LEMMA WriteChunk ==
    ASSUME AsyncTypeOK, PicobootTypeOK, MatchInv, CalmInv, WriteInv, HostSendsChunk
    PROVE  WriteInv'
<1> SUFFICES ASSUME Writing' PROVE ChunksInv'
  BY DEF WriteInv
<1>1. /\ UNCHANGED <<workerVars, flash, lastMutation, aborted, ep, resets>>
      /\ QueueChunk(stream, stream.chunk) /\ ~Deferred
      /\ buffer' = [buffer EXCEPT !["picoboot"] = stream.command.data[stream.chunk]]
  BY DEF HostSendsChunk, flashVars
<1>2. Writing
  BY <1>1 DEF Writing
<1>3. ChunksInv
  BY <1>2 DEF WriteInv
<1>4. ~Queued /\ ~(Running /\ IsCurrent)
  BY <1>1, <1>2, NoOwnTask DEF Writing, Direction, OwnQueued, OwnRunning, CalmInv
<1>5. ~Running
  BY <1>2, <1>4, WritingFacts
<1>6. ~Running'
  BY <1>1, <1>5 DEF Running, workerVars
<1>7. /\ stream'.command = stream.command /\ stream'.chunk = stream.chunk
      /\ stream'.check = TRUE
  BY <1>1, <1>2, WritingFacts DEF QueueChunk, PicobootTypeOK, Stream
<1>8. buffer'["picoboot"] = stream'.command.data[stream'.chunk]
  BY <1>1, <1>7 DEF AsyncTypeOK, Queue
<1>9. IsChunkTask(slot["picoboot"])'
  <2>1. slot'["picoboot"]
           = CommandTask(stream.command, stream.chunk, stream.check, stream.token)
    BY <1>1, SlotSet DEF QueueChunk
  <2>2. stream.chunk > 1 => stream.check
    BY <1>3 DEF ChunksInv
  <2>. QED
    BY <2>1, <2>2, <1>7 DEF IsChunkTask, CommandTask
<1>10. (Kept' <=> Kept) /\ (\A i : Written(i)' <=> Written(i))
  BY <1>1, <1>7 DEF Kept, Written
<1>. QED
  BY <1>3, <1>6, <1>7, <1>8, <1>9, <1>10 DEF ChunksInv

\* No other step of the host lets a stream begin on OUT, or disturbs one.
LEMMA WriteHost ==
    ASSUME AsyncTypeOK, PicobootTypeOK, MatchInv, CalmInv, WriteInv, Host
    PROVE  WriteInv'
<1>a. /\ ep \in [Direction -> Endpoint] /\ "in" \in Direction /\ "out" \in Direction
  BY DEF PicobootTypeOK, Direction
<1>b. ep'["out"].transfer # "stream" => WriteInv'
  BY DEF WriteInv, Writing
<1>1. CASE HostSendsWrite
  BY <1>1, WriteBegins
<1>2. CASE HostSendsChunk
  BY <1>2, WriteChunk
<1>3. CASE \/ HostSendsJunk \/ HostSendsBadCommand \/ HostSendsReboot
           \/ HostSendsCommand \/ HostSendsRead
  <2>1. /\ CommandArrives
        /\ \/ RefuseCommand
           \/ \E c : ep' = Ack(Ended(ep, "out"), c)
           \/ ep' = Ended(ep, "out")
           \/ ep' = Started(Ended(ep, "out"), "in", "stream")
    BY <1>3 DEF HostSendsJunk, HostSendsBadCommand, HostSendsReboot,
                HostSendsCommand, HostSendsRead
  <2>2. ep'["out"].transfer # "stream"
    <3>1. Ended(ep, "out")["out"].transfer = "none"
      BY <1>a DEF Ended, Endpoint
    <3>2. RefuseCommand => ep'["out"].transfer = "none"
      BY <1>a DEF RefuseCommand, Ended, Halted, Endpoint
    <3>3. \A c : Ack(Ended(ep, "out"), c)["out"].transfer # "stream"
      BY <1>a, <3>1 DEF Ack, Started, Ended, Endpoint
    <3>4. Started(Ended(ep, "out"), "in", "stream")["out"].transfer # "stream"
      BY <1>a, <3>1 DEF Started, Ended, Endpoint
    <3>. QED
      BY <2>1, <3>1, <3>2, <3>3, <3>4
  <2>. QED
    BY <2>2, <1>b
<1>4. CASE HostSendsPart
  <2>1. ep["out"].transfer = "stream" /\ ~Deferred
    BY <1>4 DEF HostSendsPart, Idle
  <2>2. resets = 0 => ~Busy
    BY <2>1, <1>a, NoOwnTask DEF Busy, OwnQueued, OwnRunning, CalmInv
  <2>3. /\ UNCHANGED <<slot, stream, flash, lastMutation, aborted, pc, source,
                       running, result, ep, resets>>
    BY <1>4 DEF HostSendsPart, usbVars, flashVars, workerVars
  <2>4. resets # 0 => WriteInv'
    BY <2>3 DEF WriteInv, Writing
  <2>. QED
    BY <2>2, <2>3, <2>4, WriteFrame DEF Writing
<1>5. CASE HostReadsChunk
  <2>1. ep["in"].transfer = "stream"
    BY <1>5 DEF HostReadsChunk, Idle
  <2>2. ep["out"].transfer # "stream"
    BY <2>1 DEF MatchInv, TransferInv
  <2>3. ep'["out"].transfer # "stream"
    <3>1. ep' = ep \/ ep' = Ack(Ended(ep, "in"), stream.command)
      BY <1>5 DEF HostReadsChunk
    <3>. QED
      BY <2>2, <3>1, <1>a DEF Ack, Started, Ended, Endpoint
  <2>. QED
    BY <2>3, <1>b
<1>6. CASE HostTakesAck
  <2>1. PICK d \in Direction :
           /\ ep[d] = Idle("ack")
           /\ LET e == Ended(ep, d)
              IN  ep' = IF e["out"].halted THEN e ELSE Started(e, "out", "default")
    BY <1>6 DEF HostTakesAck
  <2>2. CASE resets = 0
    <3>1. ep["out"].transfer # "stream"
      BY <2>1, <2>2 DEF CalmInv, Occupied, Idle, Direction
    <3>2. ep'["out"].transfer # "stream"
      BY <2>1, <3>1, <1>a DEF Started, Ended, Endpoint, Direction
    <3>. QED
      BY <3>2, <1>b
  <2>3. CASE resets # 0
    BY <1>6, <2>3 DEF HostTakesAck, WriteInv, Writing
  <2>. QED
    BY <2>2, <2>3
<1>7. CASE HostClearsHalt
  <2>1. Writing' => Writing
    BY <1>7, <1>a DEF HostClearsHalt, Writing, Idle, Direction
  <2>2. /\ UNCHANGED <<slot, buffer, stream, flash, lastMutation, aborted, pc, source,
                       running, result>>
    BY <1>7 DEF HostClearsHalt, asyncVars, sharedVars, flashVars, workerVars
  <2>. QED
    BY <2>1, <2>2, WriteFrame
<1>8. CASE HostUsesDisk
  <2>1. slot'["picoboot"] = slot["picoboot"] /\ buffer'["picoboot"] = buffer["picoboot"]
    BY <1>8 DEF HostUsesDisk, HandlerQueuesTask, queue_task, fill_buffer, AsyncTypeOK,
                Queue
  <2>2. UNCHANGED <<stream, flash, lastMutation, aborted, pc, source, running, result,
                    ep, resets>>
    BY <1>8 DEF HostUsesDisk, HandlerQueuesTask, usbVars, flashVars, workerVars
  <2>. QED
    BY <2>1, <2>2, WriteFrame DEF Writing
<1>9. CASE HostResetsPicoboot \/ HostConfigures \/ HostUnconfigures
  <2>1. ep'["out"].transfer # "stream"
    BY <1>9, <1>a DEF HostResetsPicoboot, HostConfigures, HostUnconfigures,
         PicobootReset, ResetEndpoints, Idle
  <2>. QED
    BY <2>1, <1>b
<1>. QED
  BY <1>1, <1>2, <1>3, <1>4, <1>5, <1>6, <1>7, <1>8, <1>9 DEF Host

\* The callback of a chunk counts it among those behind the stream.
LEMMA WriteComplete ==
    ASSUME AsyncTypeOK, PicobootTypeOK, MatchInv, CalmInv, WriteInv,
           AckCommand \/ FinishChunk \/ DiskComplete
    PROVE  WriteInv'
<1>a. /\ ep \in [Direction -> Endpoint] /\ "in" \in Direction /\ "out" \in Direction
      /\ stream \in Stream
  BY DEF PicobootTypeOK, Direction
<1>b. /\ TaskDone
      /\ UNCHANGED <<slot, flash, lastMutation, aborted, buffer, resets>>
  BY DEF AckCommand, FinishChunk, DiskComplete, usbVars, sharedVars, flashVars
<1>c. ~Running' /\ running # NoTask /\ (Queued' <=> Queued) /\ pc = "complete"
  BY <1>b DEF TaskDone, Running, Queued, AsyncTypeOK
<1>1. CASE DiskComplete
  <2>1. ~Running /\ UNCHANGED <<stream, ep>>
    BY <1>1 DEF DiskComplete, Running, usbVars
  <2>. QED
    BY <2>1, <1>b, <1>c, WriteFrame DEF Writing
<1>d. ASSUME AckCommand \/ FinishChunk, Writing
      PROVE  /\ Running /\ IsCurrent /\ running.type = {"WRITE"} /\ ~AckCommand
             /\ ~Queued
  <2>1. Running
    BY <1>d, <1>c DEF AckCommand, FinishChunk, Running
  <2>2. IsCurrent /\ running.type = {"WRITE"}
    BY <1>d, <2>1, WritingFacts
  <2>3. ~AckCommand
    BY <2>2 DEF AckCommand, ReadsOrWrites, Does
  <2>. QED
    BY <1>d, <2>1, <2>2, <2>3 DEF MatchInv, WaitingInv, OwnQueued, OwnRunning, CalmInv,
                                  Writing
<1>2. CASE AckCommand
  <2>1. ~Writing
    BY <1>2, <1>d
  <2>2. ep' = ep \/ ep' = Ack(ep, stream.command)
    BY <1>2 DEF AckCommand
  <2>3. ~Writing'
    BY <2>1, <2>2, <1>a, <1>b DEF Writing, Ack, Started, Endpoint
  <2>. QED
    BY <2>3 DEF WriteInv
<1>3. CASE FinishChunk
  <2>1. \/ ep' = ep
        \/ ep' = Ended(Halted(ep, streamEp(stream.command)), streamEp(stream.command))
        \/ ep' = Ack(Ended(ep, "out"), stream.command)
    BY <1>3 DEF FinishChunk, ChunkFails, ChunkSucceeds, ChunkOutlivesStream
  <2>2. Writing' => Writing
    BY <2>1, <1>a, <1>b DEF Writing, Ack, Started, Ended, Halted, Endpoint, streamEp,
                            Direction
  <2>3. SUFFICES ASSUME Writing, Writing' PROVE ChunksInv'
    BY <2>2 DEF WriteInv
  <2>4. /\ Running /\ IsCurrent /\ running.type = {"WRITE"} /\ ~Queued /\ Streaming
        /\ streamEp(stream.command) = "out"
    BY <1>3, <1>d, <2>3, WritingFacts DEF streamEp
  <2>5. ~ChunkFails
    BY <2>1, <2>3, <2>4, <1>a DEF ChunkFails, Writing, Ended, Halted, Endpoint
  <2>6. result = "OK" /\ ChunkSucceeds
    BY <1>3, <2>4, <2>5 DEF FinishChunk
  <2>7. ~IsLast
    <3>1. IsLast => ep' = Ack(Ended(ep, "out"), stream.command)
      BY <2>4, <2>6 DEF ChunkSucceeds, Does
    <3>. QED
      BY <3>1, <2>3, <1>a DEF Writing, Ack, Started, Ended, Endpoint
  <2>8. /\ stream'.command = stream.command /\ stream'.chunk = stream.chunk + 1
        /\ stream'.check = stream.check
    <3>1. stream' = [stream EXCEPT !.outstanding = FALSE, !.chunk = stream.chunk + 1]
      BY <2>4, <2>6, <2>7 DEF ChunkSucceeds, Does
    <3>. QED
      BY <3>1, <1>a DEF Stream
  <2>9. ChunksInv /\ Busy
    BY <2>3, <2>4 DEF WriteInv, Busy
  <2>10. stream'.check /\ ~Busy' /\ ~Queued' /\ ~Running'
    BY <2>4, <2>8, <2>9, <1>c DEF ChunksInv, Busy
  <2>11. (Kept' <=> Kept) /\ (\A i : Written(i)' <=> Written(i))
    BY <1>b, <2>8 DEF Kept, Written
  <2>12. Kept => Written(stream.chunk)
    BY <2>4, <2>6, <2>9, <1>c DEF ChunksInv, Kept
  <2>13. Kept => \A i \in 1..stream.chunk : Written(i)
    <3>1. stream.chunk \in Nat \ {0}
      BY <1>a DEF Stream
    <3>2. \A i \in 1..stream.chunk : i \in 1..(stream.chunk - 1) \/ i = stream.chunk
      BY <3>1
    <3>. QED
      BY <2>9, <2>12, <3>2 DEF ChunksInv
  <2>14. stream'.chunk - 1 = stream.chunk
    BY <2>8, <1>a DEF Stream
  <2>. QED
    BY <2>10, <2>11, <2>13, <2>14 DEF ChunksInv
<1>. QED
  BY <1>1, <1>2, <1>3

\* A task of the virtual disk that touches the flash is on record for it.
LEMMA WriteDiskWork ==
    ASSUME AsyncTypeOK, MutatorInv, CheckedInv, Work, source = "disk",
           UNCHANGED <<slot, source, running>>, Kept'
    PROVE  Kept /\ flash' = flash /\ buffer'["picoboot"] = buffer["picoboot"]
<1>1. CASE Prepare
  <2>1. running \in TasksOf["disk"] /\ running \in Task
    BY <1>1, RunningIsTask DEF AsyncTypeOK, Prepare
  <2>2. Mutates /\ ~Interleaved
    BY <2>1, DiskWritesAssumption DEF Mutates, Does, Interleaved
  <2>3. PICK r : /\ aborted' = (aborted /\ ~(Does("EXIT_XIP") /\ r = "OK"))
                 /\ lastMutation' = IF r = "OK" /\ Mutates /\ ~Interleaved
                                    THEN source ELSE lastMutation
    BY <1>1 DEF Prepare
  <2>. QED
    BY <1>1, <2>2, <2>3 DEF Kept, Prepare, AsyncTypeOK
<1>2. CASE EraseSector \/ StartProgram \/ EndProgram
  <2>1. /\ pc \in {"mutate", "program"} /\ lastMutation' = lastMutation
        /\ EraseSector => todo # {}
        /\ StartProgram => Does("WRITE")
        /\ EndProgram => pc = "program"
    BY <1>2 DEF EraseSector, StartProgram, EndProgram
  <2>2. Mutates
    BY <1>2, <2>1 DEF CheckedInv, Mutates, EraseSector
  <2>. QED
    BY <2>1, <2>2 DEF MutatorInv, Kept
<1>3. CASE AccessMemory \/ ReadFlash
  <2>1. /\ UNCHANGED <<lastMutation, flash, aborted>>
        /\ buffer' = buffer \/ \E d : buffer' = [buffer EXCEPT ![source] = d]
    BY <1>3 DEF AccessMemory, ReadFlash, flashVars
  <2>. QED
    BY <2>1 DEF Kept, AsyncTypeOK, Queue
<1>4. CASE UNCHANGED <<flashVars, sharedVars>>
  BY <1>4 DEF Kept, flashVars, sharedVars
<1>. QED
  BY <1>1, <1>2, <1>3, <1>4
  DEF Work, PollDisk, PollPicoboot, dequeue_task, Wake, Refuse, Accept, RefuseVectors,
      SkipAccess, Finish

\* What the worker does with the chunk's task: programs its page, and no other.
LEMMA WriteChunkWork ==
    ASSUME AsyncTypeOK, PicobootTypeOK, MatchInv, CalmInv, CheckedInv, Writing,
           ChunksInv, Running, Work, UNCHANGED <<slot, source, running, stream>>
    PROVE  /\ Kept' /\ stream.chunk > 1 => Kept
           /\ Kept' => \A i \in 1..(stream.chunk - 1) : Written(i) => Written(i)'
           /\ buffer' = buffer
           /\ pc' = "program" \/ (pc' = "complete" /\ result' = "OK" /\ ~aborted')
                 => Written(stream.chunk)'
<1> DEFINE c == stream.command
           p == running.transfer_addr
<1>a. /\ c \in Command /\ c.flag = "WRITE" /\ stream.chunk \in DOMAIN c.addr
      /\ stream.chunk \in Nat \ {0} /\ IsCurrent /\ running.type = {"WRITE"}
      /\ p = c.addr[stream.chunk] /\ Busy
      /\ stream.chunk > 1 => running.check_last_mutation_source
      /\ buffer["picoboot"] = c.data[stream.chunk] /\ source = "picoboot"
  BY WritingFacts DEF ChunksInv, IsChunkTask, Busy, Running
<1>b. /\ Does("WRITE") /\ ~Does("READ") /\ ~Does("FLASH_ERASE") /\ ~Does("EXIT_XIP")
      /\ ~Does("VECTORIZE_FLASH") /\ ReadsOrWrites /\ Mutates
  BY <1>a DEF Does, ReadsOrWrites, Mutates
<1>c. pc \notin {"poll_disk", "poll_picoboot", "wfe"}
  BY DEF AsyncTypeOK, Running
<1>d. flash' = flash => \A i : Written(i)' <=> Written(i)
  BY DEF Written
\* Chunks before this one are on other pages.
<1>e. \A i \in 1..(stream.chunk - 1) : c.addr[i] \in Page => c.addr[i] # p
  <2>1. \A i \in 1..(stream.chunk - 1) : i \in DOMAIN c.addr /\ i # stream.chunk
    BY <1>a, CommandParts
  <2>. QED
    BY <1>a, <2>1, ChunksAssumption
<1>f. ASSUME NEW x, flash' = WithPage(p, x)
      PROVE  \A i \in 1..(stream.chunk - 1) : Written(i) => Written(i)'
  BY <1>e, <1>f DEF WithPage, Written, AsyncTypeOK
<1>1. CASE Prepare
  <2>1. PICK r \in {"OK", "USER_ERROR"} :
          /\ aborted' = (aborted /\ ~(Does("EXIT_XIP") /\ r = "OK"))
          /\ lastMutation' = IF r = "OK" /\ Mutates /\ ~Interleaved
                             THEN source ELSE lastMutation
          /\ IF PrepareResult(r) = "OK"
             THEN pc' = "mutate"
             ELSE Finish(PrepareResult(r))
          /\ flash' = flash /\ buffer' = buffer
    BY <1>1 DEF Prepare, FlashResults
  <2>2. Kept' /\ stream.chunk > 1 => Kept
    BY <1>a, <1>b, <2>1 DEF Kept, Interleaved, AsyncTypeOK
  <2>3. pc' = "mutate" \/ (pc' = "complete" /\ result' # "OK")
    BY <2>1 DEF Finish
  <2>. QED
    BY <1>d, <2>1, <2>2, <2>3
<1>2. CASE Refuse \/ Accept \/ RefuseVectors
  <2>1. /\ UNCHANGED <<flashVars, sharedVars>>
        /\ pc' = "prepare" \/ (pc' = "complete" /\ result' # "OK")
    BY <1>2 DEF Refuse, Accept, RefuseVectors, Finish
  <2>. QED
    BY <1>d, <2>1 DEF Kept, flashVars, sharedVars
<1>3. CASE SkipAccess
  <2>1. /\ UNCHANGED <<flashVars, sharedVars>>
        /\ pc' = "complete" /\ result' # "OK"
    BY <1>3, <1>b DEF SkipAccess, Finish
  <2>. QED
    BY <1>d, <2>1 DEF Kept, flashVars, sharedVars
<1>4. CASE AccessMemory
  <2>1. UNCHANGED <<lastMutation, flash, aborted, buffer>>
    BY <1>4, <1>b DEF AccessMemory
  <2>2. p \notin Page
    BY <1>4, TasksAssumption DEF AccessMemory, DirectAccess, OtherAddress, RamAddress
  <2>3. Written(stream.chunk)'
    BY <1>a, <2>2 DEF Written
  <2>. QED
    BY <1>d, <2>1, <2>3 DEF Kept
<1>5. CASE StartProgram
  <2>1. UNCHANGED <<lastMutation, aborted, buffer>> /\ (Kept' <=> Kept)
    BY <1>5 DEF StartProgram, sharedVars, Kept
  <2>2. PICK r :
          IF r # "OK" \/ aborted
          THEN /\ Finish(r)
               /\ flash' \in IF r = "OK" THEN {flash, WithPage(p, "torn")} ELSE {flash}
          ELSE /\ pc' = "program"
               /\ flash' = WithPage(p, Programmed(flash[p], buffer[source]))
    BY <1>5 DEF StartProgram
  <2>3. CASE r # "OK" \/ aborted
    <3>1. ~(pc' = "program" \/ (pc' = "complete" /\ result' = "OK" /\ ~aborted'))
      BY <2>1, <2>2, <2>3 DEF Finish
    <3>2. flash' = flash \/ flash' = WithPage(p, "torn")
      BY <2>2, <2>3
    <3>. QED
      BY <1>d, <1>f, <2>1, <3>1, <3>2
  <2>4. CASE ~(r # "OK" \/ aborted)
    <3>1. flash' = WithPage(p, Programmed(flash[p], buffer[source]))
      BY <2>2, <2>4
    <3>2. Programmed(flash[p], buffer[source]) \in {c.data[stream.chunk], "torn"}
      BY <1>a DEF Programmed
    <3>3. Written(stream.chunk)'
      BY <1>a, <3>1, <3>2 DEF Written, WithPage, AsyncTypeOK
    <3>. QED
      BY <1>f, <2>1, <3>1, <3>3
  <2>. QED
    BY <2>3, <2>4
<1>6. CASE EndProgram
  <2>1. UNCHANGED <<lastMutation, aborted, buffer>> /\ (Kept' <=> Kept) /\ pc = "program"
    BY <1>6 DEF EndProgram, sharedVars, Kept
  <2>2. Written(stream.chunk)
    BY <2>1 DEF ChunksInv
  <2>3. flash' = flash \/ flash' = WithPage(p, "torn")
    BY <1>6 DEF EndProgram
  <2>4. flash' = WithPage(p, "torn") => Written(stream.chunk)'
    BY <1>a DEF Written, WithPage, AsyncTypeOK
  <2>. QED
    BY <1>d, <1>f, <2>1, <2>2, <2>3, <2>4
<1>7. ~EraseSector /\ ~ReadFlash
  <2>1. ~EraseSector
    BY <1>b DEF EraseSector, CheckedInv
  <2>. QED
    BY <1>b, <2>1 DEF ReadFlash
<1>. QED
  BY <1>1, <1>2, <1>3, <1>4, <1>5, <1>6, <1>7, <1>c
  DEF Work, PollDisk, PollPicoboot, Wake

LEMMA WriteWork ==
    ASSUME AsyncTypeOK, PicobootTypeOK, MatchInv, CalmInv, CheckedInv, MutatorInv,
           WriteInv, Work, UNCHANGED usbVars
    PROVE  WriteInv'
<1> SUFFICES ASSUME Writing' PROVE ChunksInv'
  BY DEF WriteInv
<1>a. UNCHANGED <<stream, ep, resets>>
  BY DEF usbVars
<1>b. Writing /\ ChunksInv
  BY <1>a DEF Writing, WriteInv
<1>c. \A t : IsChunkTask(t)' <=> IsChunkTask(t)
  BY <1>a DEF IsChunkTask
<1>1. CASE full("disk") /\ dequeue_task("disk")
  <2>1. /\ slot'["picoboot"] = slot["picoboot"] /\ ~Running' /\ running = NoTask
        /\ UNCHANGED <<flashVars, sharedVars>>
    BY <1>1 DEF dequeue_task, full, Running, AsyncTypeOK, Queue, Work, PollDisk,
                PollPicoboot, Wake, Refuse, Accept, RefuseVectors, Prepare, EraseSector,
                SkipAccess, AccessMemory, ReadFlash, StartProgram, EndProgram, Finish
  <2>2. ~Running /\ UNCHANGED <<flash, lastMutation, aborted, buffer>>
    BY <2>1 DEF Running, flashVars, sharedVars
  <2>. QED
    BY <1>a, <2>1, <2>2, WriteFrame DEF Writing, WriteInv
<1>2. CASE full("picoboot") /\ dequeue_task("picoboot")
  <2>1. /\ Queued /\ running' = slot["picoboot"] /\ slot'["picoboot"] = NoTask
        /\ source' = "picoboot" /\ pc' = "begin"
        /\ UNCHANGED <<flashVars, sharedVars>>
    BY <1>2 DEF dequeue_task, full, Queued, AsyncTypeOK, Queue
  <2>2. ~Queued' /\ Busy
    BY <2>1 DEF Queued, Busy
  <2>3. IsChunkTask(running)'
    BY <1>a, <1>b, <2>1 DEF ChunksInv, IsChunkTask
  <2>4. UNCHANGED <<flash, lastMutation, aborted, buffer>>
    BY <2>1 DEF flashVars, sharedVars
  <2>5. (Kept' <=> Kept) /\ (\A i : Written(i)' <=> Written(i))
    BY <1>a, <2>4 DEF Kept, Written
  <2>. QED
    BY <1>a, <1>b, <2>1, <2>2, <2>3, <2>4, <2>5 DEF ChunksInv
<1>3. CASE UNCHANGED <<slot, source, running>>
  <2>1. /\ (Queued' <=> Queued) /\ (Running' <=> Running) /\ (Busy' <=> Busy)
    BY <1>a, <1>3 DEF Queued, Running, Busy, IsCurrent
  <2>2. /\ Queued => IsChunkTask(slot["picoboot"])'
        /\ Running => IsChunkTask(running)'
    BY <1>a, <1>b, <1>3 DEF ChunksInv, IsChunkTask
  <2>3. CASE Running
    <3>1. /\ Kept' /\ stream.chunk > 1 => Kept
          /\ Kept' => \A i \in 1..(stream.chunk - 1) : Written(i) => Written(i)'
          /\ buffer' = buffer
          /\ pc' = "program" \/ (pc' = "complete" /\ result' = "OK" /\ ~aborted')
                => Written(stream.chunk)'
      BY <1>a, <1>b, <1>3, <2>3, WriteChunkWork
    <3>2. stream.chunk \in Nat \ {0}
      BY DEF PicobootTypeOK, Stream
    <3>3. Kept' => \A i \in 1..(stream.chunk - 1) : Written(i)'
      <4>1. CASE stream.chunk > 1
        BY <1>b, <3>1, <4>1 DEF ChunksInv
      <4>2. CASE stream.chunk = 1
        BY <4>2
      <4>. QED
        BY <3>2, <4>1, <4>2
    <3>. QED
      BY <1>a, <1>b, <2>1, <2>2, <3>1, <3>3 DEF ChunksInv
  <2>4. CASE ~Running
    <3>1. source = "disk" \/ running = NoTask
      BY <2>4 DEF Running, AsyncTypeOK, Queue
    <3>2. Kept' => Kept /\ flash' = flash
      <4>1. CASE source = "disk"
        BY <1>3, <4>1, WriteDiskWork
      <4>2. CASE running = NoTask
        <5>1. pc \in {"poll_disk", "poll_picoboot", "wfe"}
          BY <4>2 DEF AsyncTypeOK
        <5>2. UNCHANGED <<flashVars, sharedVars>>
          BY <5>1 DEF Work, PollDisk, PollPicoboot, dequeue_task, Wake, Refuse, Accept,
                      RefuseVectors, Prepare, EraseSector, SkipAccess, AccessMemory,
                      ReadFlash, StartProgram, EndProgram
        <5>. QED
          BY <5>2 DEF Kept, flashVars, sharedVars
      <4>. QED
        BY <3>1, <4>1, <4>2
    <3>3. buffer'["picoboot"] = buffer["picoboot"]
      <4>1. CASE AccessMemory \/ ReadFlash
        <5>1. source = "disk"
          BY <3>1, <4>1 DEF AsyncTypeOK, AccessMemory, ReadFlash
        <5>2. buffer' = buffer \/ \E d : buffer' = [buffer EXCEPT ![source] = d]
          BY <4>1 DEF AccessMemory, ReadFlash
        <5>. QED
          BY <5>1, <5>2 DEF AsyncTypeOK, Queue
      <4>2. CASE ~(AccessMemory \/ ReadFlash)
        BY <4>2 DEF Work, PollDisk, PollPicoboot, dequeue_task, Wake, Refuse, Accept,
                    RefuseVectors, Prepare, EraseSector, SkipAccess, StartProgram,
                    EndProgram, sharedVars
      <4>. QED
        BY <4>1, <4>2
    <3>4. flash' = flash => \A i : Written(i)' <=> Written(i)
      BY <1>a DEF Written
    <3>5. Kept' => \A i \in 1..(stream.chunk - 1) : Written(i)'
      BY <1>b, <3>2, <3>4 DEF ChunksInv
    <3>. QED
      BY <1>a, <1>b, <2>1, <2>2, <2>4, <3>3, <3>5 DEF ChunksInv
  <2>. QED
    BY <2>3, <2>4
<1>. QED
  BY <1>1, <1>2, <1>3
  DEF Work, PollDisk, PollPicoboot, Wake, Refuse, Accept, RefuseVectors, Prepare,
      EraseSector, SkipAccess, AccessMemory, ReadFlash, StartProgram, EndProgram, Finish

LEMMA WriteStep ==
    ASSUME AsyncTypeOK, PicobootTypeOK, MatchInv, CalmInv, CheckedInv, MutatorInv,
           WriteInv, [PicobootNext]_picobootVars
    PROVE  WriteInv'
<1>1. CASE Host
  BY <1>1, WriteHost
<1>2. CASE Work /\ UNCHANGED usbVars
  BY <1>2, WriteWork
<1>3. CASE AckCommand \/ FinishChunk \/ DiskComplete
  BY <1>3, WriteComplete
<1>4. CASE UNCHANGED picobootVars
  BY <1>4, WriteFrame DEF picobootVars, asyncVars, usbVars, workerVars, sharedVars,
                          flashVars, Writing
<1>. QED
  BY <1>1, <1>2, <1>3, <1>4 DEF PicobootNext, PicobootWork

ChunkIInv == HostInv /\ MutatorInv /\ WriteInv

LEMMA ChunkIInvCorrect == PicobootSafety => []ChunkIInv
<1>1. PicobootInit => MutatorInv /\ WriteInv
  <2> SUFFICES ASSUME PicobootInit PROVE MutatorInv /\ WriteInv
    OBVIOUS
  <2>1. MutatorInv
    BY DEF PicobootInit, AsyncInit, MutatorInv
  <2>2. ep["out"].transfer # "stream"
    BY DEF PicobootInit, Idle, Direction
  <2>. QED
    BY <2>1, <2>2 DEF WriteInv, Writing
<1>2. HostInv /\ MutatorInv /\ WriteInv /\ [PicobootNext]_picobootVars
        => MutatorInv' /\ WriteInv'
  <2> SUFFICES ASSUME HostInv, MutatorInv, WriteInv, [PicobootNext]_picobootVars
               PROVE  MutatorInv' /\ WriteInv'
    OBVIOUS
  <2>1. WriteInv'
    BY WriteStep DEF HostInv, IInv
  <2>2. [AsyncNext]_asyncVars
    BY IInvAsyncStep DEF HostInv
  <2>. QED
    BY <2>1, <2>2, MutatorStep DEF HostInv, IInv
<1>. QED
  BY <1>1, <1>2, HostInvCorrect, PTL DEF PicobootSafety, ChunkIInv

\* The acknowledgement of a WRITE is sent by the callback of its last chunk.
LEMMA WriteAcked ==
    ASSUME AsyncTypeOK, PicobootTypeOK, MatchInv, CalmInv,
           [PicobootNext]_picobootVars, ep["in"].transfer # "ack",
           ep'["in"].transfer = "ack", stream'.command.flag = "WRITE"
    PROVE  /\ FinishChunk /\ IsCurrent /\ result = "OK" /\ Streaming /\ IsLast
           /\ stream'.command = stream.command /\ stream.command.flag = "WRITE"
<1>a. /\ ep \in [Direction -> Endpoint] /\ "in" \in Direction /\ "out" \in Direction
      /\ stream \in Stream
  BY DEF PicobootTypeOK, Direction
<1>1. ASSUME Host PROVE FALSE
  <2>1. ~HostSendsReboot
    <3>1. ASSUME HostSendsReboot PROVE FALSE
      <4>1. PICK c \in Command : Obeyed(c) /\ stream' = NewStream(c)
        BY <3>1 DEF HostSendsReboot
      <4>. QED
        BY <4>1 DEF Obeyed, NewStream
    <3>. QED
      BY <3>1
  <2>2. ~HostReadsChunk
    <3>1. ASSUME HostReadsChunk PROVE FALSE
      <4>1. ep["in"].transfer = "stream"
        BY <3>1 DEF HostReadsChunk, Idle
      <4>2. stream.command.flag = "READ"
        BY <4>1, <1>a DEF MatchInv, TransferInv, HasData, streamEp
      <4>3. ep' = Ack(Ended(ep, "in"), stream.command)
        BY <3>1, <4>1 DEF HostReadsChunk
      <4>. QED
        BY <4>2, <4>3, <1>a DEF Ack, Started, Ended, Endpoint
    <3>. QED
      BY <3>1
  <2>3. ASSUME CommandArrives, \/ RefuseCommand \/ ep' = Ended(ep, "out")
                               \/ ep' = Started(ep, "out", "stream")
                               \/ ep' = Started(Ended(ep, "out"), "in", "stream")
        PROVE  FALSE
    BY <2>3, <1>a DEF RefuseCommand, Ended, Halted, Started, Endpoint
  <2>4. ~HostTakesAck
    <3>1. ASSUME NEW d \in Direction
          PROVE  /\ Ended(ep, d)["in"].transfer # "ack"
                 /\ Started(Ended(ep, d), "out", "default")["in"].transfer # "ack"
      BY <1>a DEF Ended, Started, Endpoint, Direction
    <3>. QED
      BY <3>1 DEF HostTakesAck
  <2>5. ~HostClearsHalt
    BY <1>a DEF HostClearsHalt, Idle, Direction
  <2>6. ~(HostResetsPicoboot \/ HostConfigures \/ HostUnconfigures)
    BY <1>a DEF HostResetsPicoboot, HostConfigures, HostUnconfigures, PicobootReset,
                ResetEndpoints, Idle
  <2>. QED
    BY <1>1, <2>1, <2>2, <2>3, <2>4, <2>5, <2>6
    DEF Host, HostSendsJunk, HostSendsBadCommand, HostSendsCommand, HostSendsWrite,
        HostSendsRead, HostSendsPart, HostSendsChunk, HostUsesDisk, usbVars
<1>2. ep' # ep
  OBVIOUS
<1>3. AckCommand \/ FinishChunk
  BY <1>1, <1>2 DEF PicobootNext, PicobootWork, DiskComplete, picobootVars, usbVars
<1>4. ASSUME source = "picoboot", TaskDone, IsCurrent
      PROVE  running.type = {stream.command.flag}
  BY <1>4 DEF TaskDone, AsyncTypeOK, MatchInv, RunningInv, Running
<1>5. ~AckCommand
  <2>1. ASSUME AckCommand PROVE FALSE
    <3>1. IsCurrent /\ stream' = stream
      BY <1>2, <2>1 DEF AckCommand
    <3>2. running.type = {"WRITE"} /\ ~ReadsOrWrites
      BY <1>4, <2>1, <3>1 DEF AckCommand
    <3>. QED
      BY <3>2 DEF ReadsOrWrites, Does
  <2>. QED
    BY <2>1
<1>6. FinishChunk /\ IsCurrent
  BY <1>2, <1>3, <1>5 DEF FinishChunk
<1>7. ~ChunkFails
  BY <1>a DEF ChunkFails, Ended, Halted, Endpoint, streamEp
<1>8. result = "OK" /\ Streaming /\ ChunkSucceeds
  BY <1>2, <1>6, <1>7 DEF FinishChunk, ChunkOutlivesStream
<1>9. stream'.command = stream.command
  BY <1>8, <1>a DEF ChunkSucceeds, Stream
<1>10. IsLast
  BY <1>2, <1>8 DEF ChunkSucceeds
<1>. QED
  BY <1>6, <1>8, <1>9, <1>10

\* An acknowledged WRITE is in the flash: every page has its data, or is torn
\* because it was not erased (check_last_mutation_source).
THEOREM WrittenCorrect == PicobootSafety => AckMeansWritten
<1>1. ChunkIInv /\ [PicobootNext]_picobootVars
        => [resets = 0 /\ ep["in"].transfer # "ack" /\ ep'["in"].transfer = "ack"
              /\ stream'.command.flag = "WRITE" /\ ~aborted
            => LET c == stream'.command IN
               \A i \in DOMAIN c.addr :
                  c.addr[i] \in Page => flash[c.addr[i]] \in {c.data[i], "torn"}
           ]_<<ep, stream, flash>>
  <2> SUFFICES ASSUME ChunkIInv, [PicobootNext]_picobootVars, resets = 0,
                      ep["in"].transfer # "ack", ep'["in"].transfer = "ack",
                      stream'.command.flag = "WRITE", ~aborted,
                      NEW i \in DOMAIN stream'.command.addr
               PROVE  stream'.command.addr[i] \in Page
                        => flash[stream'.command.addr[i]]
                              \in {stream'.command.data[i], "torn"}
    OBVIOUS
  <2>a. /\ AsyncTypeOK /\ PicobootTypeOK /\ MatchInv /\ CalmInv
        /\ MutatorInv /\ WriteInv
    BY DEF ChunkIInv, HostInv, IInv
  <2>1. /\ FinishChunk /\ IsCurrent /\ result = "OK" /\ Streaming /\ IsLast
        /\ stream'.command = stream.command /\ stream.command.flag = "WRITE"
    BY <2>a, WriteAcked
  <2>2. Writing
    BY <2>1 DEF Streaming, streamEp, Writing
  <2>3. Running /\ pc = "complete" /\ running.type = {"WRITE"} /\ source = "picoboot"
    <3>1. source = "picoboot" /\ pc = "complete"
      BY <2>1 DEF FinishChunk, TaskDone
    <3>2. Running
      BY <2>a, <3>1 DEF AsyncTypeOK, Running
    <3>. QED
      BY <2>a, <2>2, <3>1, <3>2, WritingFacts
  <2>4. Kept
    BY <2>a, <2>1, <2>3 DEF MutatorInv, Mutates, Does, Kept
  <2>5. /\ \A j \in 1..(stream.chunk - 1) : Written(j)
        /\ Written(stream.chunk)
    BY <2>a, <2>1, <2>2, <2>3, <2>4 DEF WriteInv, ChunksInv, Kept
  <2>6. i \in 1..stream.chunk
    BY <2>a, <2>1, <2>2, WritingFacts, CommandParts DEF IsLast
  <2>7. i \in 1..(stream.chunk - 1) \/ i = stream.chunk
    BY <2>6, <2>a, <2>2, WritingFacts
  <2>8. Written(i)
    BY <2>5, <2>7
  <2>. QED
    BY <2>1, <2>8 DEF Written
<1>. QED
  BY <1>1, ChunkIInvCorrect, PTL DEF PicobootSafety, AckMeansWritten

=============================================================================
