------------------------------- MODULE UsbPipe -------------------------------
(***************************************************************************)
(* What a bulk endpoint promises: packets reach the other side in the      *)
(* order they were sent, once each, and none is lost but by a reset of the *)
(* endpoint or while it is halted.  At most two packets are under way, as  *)
(* many as the endpoint has buffers.                                       *)
(***************************************************************************)
EXTENDS Naturals, Sequences

VARIABLES
    next,       \* the number of the next packet to send
    flight,     \* the packets sent and not yet received, oldest first
    received,   \* the packets received, in their order
    halted      \* whether the endpoint answers with a stall

pipeVars == <<next, flight, received, halted>>

Capacity == 2

PipeInit == next = 1 /\ flight = <<>> /\ received = <<>> /\ halted = FALSE

\* A step of the sender may put several packets under way.
Send(k) ==
    /\ Len(flight) + k <= Capacity
    /\ flight' = flight \o [i \in 1..k |-> next + i - 1]
    /\ next' = next + k
    /\ UNCHANGED received

Receive ==
    /\ flight # <<>>
    /\ received' = Append(received, Head(flight))
    /\ flight' = Tail(flight)
    /\ UNCHANGED next

\* Under a halt, or with the step that halts, packets on their way are dropped.
Drop ==
    /\ halted'
    /\ flight # <<>> /\ flight' \in {<<>>, Tail(flight)}
    /\ UNCHANGED <<next, received>>

\* A reset of the endpoint empties the pipe and ends a halt.
Reset == flight' = <<>> /\ halted' = FALSE /\ UNCHANGED <<next, received>>

\* A halt comes at any moment, also in a step of the sender or the receiver.
Stays == halted' \in {halted, TRUE}

PipeNext ==
    \/ \E k \in 1..Capacity : Send(k) /\ Stays
    \/ Receive /\ Stays
    \/ Drop /\ Stays
    \/ Reset
    \/ UNCHANGED <<next, flight, received>> /\ Stays

PipeSpec == PipeInit /\ [][PipeNext]_pipeVars

=============================================================================
