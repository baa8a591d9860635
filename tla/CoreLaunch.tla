----------------------------- MODULE CoreLaunch -----------------------------
(***************************************************************************)
(* The launch of core 1 (bootrom_rt0.S, wait_for_vector to core1_launch).  *)
(*                                                                         *)
(* Core 1 waits in the ROM for the words 0, 1, VTOR, SP and PC, which core *)
(* 0 sends over the FIFO between the cores, and sends each of them back.   *)
(* Core 0's end runs from flash or RAM and is external: it sends the words *)
(* one at a time, takes each answer, and starts anew at a wrong one.       *)
(* Either core may be reset at any time; the FIFOs keep what is in them.   *)
(*                                                                         *)
(* A step reads or writes a FIFO once.  Both loops of wfe are cut between  *)
(* the look at the status and the sleep.                                   *)
(***************************************************************************)
EXTENDS Naturals, Sequences

CONSTANTS
    Images,      \* what core 0 may ask core 1 to start: a VTOR, an SP and a PC each
    FifoDepth,   \* the words a FIFO holds (8)
    MaxCalls,    \* bound on the launches asked for
    MaxResets    \* bound on the resets of a core

\* A zero word starts the handshake anew, so no image has one; 1 is the command.
ASSUME LaunchAssumption ==
    /\ Images \subseteq [vtor : Nat \ {0, 1}, sp : Nat \ {0, 1}, pc : Nat \ {0, 1}]
    /\ Images # {}
    /\ FifoDepth \in Nat \ {0}
    /\ MaxCalls \in Nat /\ MaxResets \in Nat

VARIABLES
    core1,       \* at: where core 1 is; heard: the words it took since the last 0;
                 \* word: r0, the word to send
    caller,      \* at: where core 0's launch code is; next: the word it is at; image
    fifo,        \* fifo[c]: the words on their way to core c
    event,       \* event[c]: the event register of core c, which ends a wfe
    answered,    \* the image whose PC core 1 sent back in this call, a set
    calls,       \* the launches asked for so far
    coreResets   \* the resets so far

launchVars == <<core1, caller, fifo, event, answered, calls, coreResets>>

Core == {0, 1}

Sequence(image) == <<0, 0, 1, image.vtor, image.sp, image.pc>>
Command(image)  == <<1, image.vtor, image.sp, image.pc>>

Word == {0, 1} \cup UNION {{i.vtor, i.sp, i.pc} : i \in Images}

AtReset == [at |-> "entry", heard |-> <<>>, word |-> 0]
Idle    == [at |-> "idle", next |-> 1, image |-> CHOOSE i \in Images : TRUE]

LaunchInit ==
    /\ core1 = AtReset
    /\ caller = Idle
    /\ fifo = [c \in Core |-> <<>>]
    /\ event = [c \in Core |-> FALSE]
    /\ answered = {}
    /\ calls = 0 /\ coreResets = 0

Valid(c) == fifo[c] # <<>>
Ready(c) == Len(fifo[c]) < FifoDepth
Other(c) == 1 - c

Taken(c) == [fifo EXCEPT ![c] = Tail(@)]

\* Mutant of Sent: no sev.
SentSilently(c, word) ==
    /\ fifo' = [fifo EXCEPT ![Other(c)] = Append(@, word)]
    /\ event' = event

\* Core c writes a word and wakes both cores (sev).
Sent(c, word) ==
    /\ fifo' = [fifo EXCEPT ![Other(c)] = Append(@, word)]
    /\ event' = [d \in Core |-> TRUE]

-----------------------------------------------------------------------------
(* Core 1. *)

\* The read at entry does not look at the status first.
EnterRom ==
    /\ core1.at = "entry"
    /\ fifo' = IF Valid(1) THEN Taken(1) ELSE fifo
    /\ core1' = [core1 EXCEPT !.at = "drain"]
    /\ UNCHANGED <<caller, event, answered, calls, coreResets>>

\* core_0_handshake_loop: drain, then send 0.
Drain ==
    /\ core1.at = "drain" /\ Valid(1)
    /\ fifo' = Taken(1)
    /\ UNCHANGED <<core1, caller, event, answered, calls, coreResets>>

Drained ==
    /\ core1.at = "drain" /\ ~Valid(1)
    /\ core1' = [at |-> "send", heard |-> <<>>, word |-> 0]
    /\ UNCHANGED <<caller, fifo, event, answered, calls, coreResets>>

\* Is the word to send the echo of a PC?
LastEcho == Len(core1.heard) = 4

\* send_and_then.
Send ==
    /\ core1.at = "send" /\ Ready(0)
    /\ Sent(1, core1.word)
    /\ core1' = [core1 EXCEPT !.at = IF LastEcho THEN "launch" ELSE "receive"]
    /\ answered' = IF LastEcho THEN {i \in Images : Command(i) = core1.heard}
                               ELSE answered
    /\ UNCHANGED <<caller, calls, coreResets>>

\* send_and_then_again.
FindFull ==
    /\ core1.at = "send" /\ ~Ready(0)
    /\ core1' = [core1 EXCEPT !.at = "full"]
    /\ UNCHANGED <<caller, fifo, event, answered, calls, coreResets>>

\* The wfe in send_and_then_again and in receive_and_check_zero.
Wake ==
    /\ core1.at \in {"full", "receive"} /\ event[1]
    /\ event' = [event EXCEPT ![1] = FALSE]
    /\ core1' = [core1 EXCEPT !.at = IF @ = "full" THEN "send" ELSE "look"]
    /\ UNCHANGED <<caller, fifo, answered, calls, coreResets>>

FindNothing ==
    /\ core1.at = "look" /\ ~Valid(1)
    /\ core1' = [core1 EXCEPT !.at = "receive"]
    /\ UNCHANGED <<caller, fifo, event, answered, calls, coreResets>>

\* Mutant of Restarts: a zero restarts the handshake only in place of the 1.
RestartsAtStart(word) == core1.heard = <<>> /\ word # 1

\* A zero at any time, and anything but 1 at the start, goes back to the loop.
Restarts(word) == word = 0 \/ (core1.heard = <<>> /\ word # 1)

\* receive_and_check_zero and what follows it in wait_for_vector.
Receive ==
    /\ core1.at = "look" /\ Valid(1)
    /\ fifo' = Taken(1)
    /\ LET word == Head(fifo[1]) IN
         core1' = IF Restarts(word)
                  THEN [core1 EXCEPT !.at = "drain"]
                  ELSE [at |-> "send", heard |-> Append(core1.heard, word), word |-> word]
    /\ UNCHANGED <<caller, event, answered, calls, coreResets>>

\* core1_launch.
Launch ==
    /\ core1.at = "launch"
    /\ core1' = [core1 EXCEPT !.at = "running"]
    /\ UNCHANGED <<caller, fifo, event, answered, calls, coreResets>>

RomOfCore1 ==
    \/ EnterRom \/ Drain \/ Drained \/ Send \/ FindFull
    \/ Wake \/ FindNothing \/ Receive \/ Launch

\* The function core 1 was started with returns, to _dead.
Core1Returns ==
    /\ core1.at = "running"
    /\ core1' = [core1 EXCEPT !.at = "dead"]
    /\ UNCHANGED <<caller, fifo, event, answered, calls, coreResets>>

-----------------------------------------------------------------------------
(* Core 0: the launch code of a program, which the ROM only knows by its   *)
(* words.                                                                  *)

Calling == caller.at \notin {"idle", "done"}

CurrentWord == Sequence(caller.image)[caller.next]

\* A zero is sent when there is no answer left over.
Turn(n) == IF Sequence(caller.image)[n] = 0 THEN "drain" ELSE "push"

Call ==
    /\ ~Calling
    /\ calls < MaxCalls
    /\ \E i \in Images : caller' = [at |-> "drain", next |-> 1, image |-> i]
    /\ answered' = {}
    /\ calls' = calls + 1
    /\ UNCHANGED <<core1, fifo, event, coreResets>>

DropAnswer ==
    /\ caller.at = "drain" /\ Valid(0)
    /\ fifo' = Taken(0)
    /\ UNCHANGED <<core1, caller, event, answered, calls, coreResets>>

\* Core 1 may be waiting for space, so it is woken.
NoAnswerLeft ==
    /\ caller.at = "drain" /\ ~Valid(0)
    /\ event' = [c \in Core |-> TRUE]
    /\ caller' = [caller EXCEPT !.at = "push"]
    /\ UNCHANGED <<core1, fifo, answered, calls, coreResets>>

Push ==
    /\ caller.at = "push" /\ Ready(1)
    /\ Sent(0, CurrentWord)
    /\ caller' = [caller EXCEPT !.at = "pop"]
    /\ UNCHANGED <<core1, answered, calls, coreResets>>

AwaitAnswer ==
    \/ /\ caller.at = "pop" /\ ~Valid(0)
       /\ caller' = [caller EXCEPT !.at = "sleep"]
       /\ UNCHANGED <<core1, fifo, event, answered, calls, coreResets>>
    \/ /\ caller.at = "sleep" /\ event[0]
       /\ event' = [event EXCEPT ![0] = FALSE]
       /\ caller' = [caller EXCEPT !.at = "pop"]
       /\ UNCHANGED <<core1, fifo, answered, calls, coreResets>>

TakeAnswer ==
    /\ caller.at = "pop" /\ Valid(0)
    /\ fifo' = Taken(0)
    /\ caller' =
         IF Head(fifo[0]) # CurrentWord THEN [caller EXCEPT !.at = "drain", !.next = 1]
         ELSE IF caller.next = 6 THEN [caller EXCEPT !.at = "done"]
         ELSE [caller EXCEPT !.next = @ + 1, !.at = Turn(caller.next + 1)]
    /\ UNCHANGED <<core1, event, answered, calls, coreResets>>

LaunchCode == DropAnswer \/ NoAnswerLeft \/ Push \/ AwaitAnswer \/ TakeAnswer

-----------------------------------------------------------------------------
(* Resets of one core, by the other core or a debugger. *)

ResetCore1 ==
    /\ coreResets < MaxResets
    /\ coreResets' = coreResets + 1
    /\ core1' = AtReset
    /\ event' = [event EXCEPT ![1] = FALSE]
    /\ UNCHANGED <<caller, fifo, answered, calls>>

\* Core 0 has to find its way to the launch code again.
ResetCore0 ==
    /\ coreResets < MaxResets
    /\ coreResets' = coreResets + 1
    /\ caller' = Idle
    /\ event' = [event EXCEPT ![0] = FALSE]
    /\ UNCHANGED <<core1, fifo, answered, calls>>

\* A reset of the chip: both cores and the FIFOs.
ResetBoth ==
    /\ core1' = AtReset /\ caller' = Idle
    /\ fifo' = [c \in Core |-> <<>>]
    /\ event' = [c \in Core |-> FALSE]
    /\ answered' = {}
    /\ UNCHANGED <<calls, coreResets>>

LaunchNext ==
    \/ RomOfCore1 \/ Core1Returns \/ Call \/ LaunchCode
    \/ ResetCore0 \/ ResetCore1 \/ ResetBoth

\* RomStart has these steps, says when core 0 takes its own, and adds fairness.
LaunchSafety == LaunchInit /\ [][LaunchNext]_launchVars

-----------------------------------------------------------------------------

LaunchTypeOK ==
    /\ core1 \in [at : {"entry", "drain", "send", "full", "receive", "look",
                        "launch", "running", "dead"},
                  heard : Seq(Word), word : Word]
    /\ Len(core1.heard) <= IF core1.at \in {"receive", "look"} THEN 3 ELSE 4
    /\ caller \in [at : {"idle", "drain", "push", "pop", "sleep", "done"},
                   next : 1..6, image : Images]
    /\ fifo \in [Core -> Seq(Word)]
    /\ \A c \in Core : Len(fifo[c]) <= FifoDepth
    /\ event \in [Core -> BOOLEAN]
    /\ answered \subseteq Images
    /\ calls \in 0..MaxCalls /\ coreResets \in 0..MaxResets

\* Core 1 starts nothing but a whole image: VTOR, SP and PC of one call.
StartsWhole ==
    core1.at \in {"launch", "running", "dead"} =>
        \E i \in Images : core1.heard = Command(i)

\* Core 1 starts whole images only, however often either core was reset in the
\* middle of a handshake; and when the last word of a call is answered, it is
\* the image of that call that core 1 took.
LaunchAsCalled ==
    /\ StartsWhole
    /\ caller.at = "done" => caller.image \in answered

\* Core 1 waits for a word, and none is on its way in either direction.
AtRest == core1.at = "receive" /\ ~Valid(0) /\ ~Valid(1)

\* A call ends with core 1 started, unless core 1 had left the ROM already: no
\* event is slept over, no word is waited for by both sides.  The one exception
\* is a core 0 that again and again looks for left-over answers just before core
\* 1 sends one; to send a zero to core 1 at rest even once is enough.
LaunchEnds ==
    \/ Calling ~> (~Calling \/ core1.at \in {"running", "dead"})
    \/ []<><<NoAnswerLeft /\ ~AtRest>>_launchVars

=============================================================================
