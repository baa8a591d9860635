---------------------------- MODULE RomStart_proofs ----------------------------
(***************************************************************************)
(* Proofs about the start of the chip.  First the launch of core 1, for    *)
(* any images, any depth of the FIFOs and any number of calls and resets;  *)
(* then the chip's start, whose steps are steps of the launch, so that     *)
(* what is proved of core 1 holds in the whole chip; and where a boot      *)
(* goes: where the last request for a reboot said.                         *)
(***************************************************************************)
EXTENDS RomStart, SequenceTheorems, TLAPS

(***************************************************************************)
(* Type correctness.                                                       *)
(***************************************************************************)

\* The words of an image, and of the sequence that carries it, are words.
LEMMA SequenceType ==
    ASSUME NEW i \in Images
    PROVE  /\ Sequence(i) \in Seq(Word) /\ Len(Sequence(i)) = 6
           /\ \A n \in 1..6 : Sequence(i)[n] \in Word
  <1>1. i.vtor \in Word /\ i.sp \in Word /\ i.pc \in Word /\ 0 \in Word /\ 1 \in Word
    BY DEF Word
  <1>2. Word \subseteq Nat
    BY LaunchAssumption DEF Word
  <1>. QED
    BY <1>1, <1>2 DEF Sequence

\* Nothing has been heard, and zero is a word.
LEMMA EmptyType == <<>> \in Seq(Word) /\ Len(<<>>) = 0 /\ 0 \in Word
  BY DEF Word

\* Both ends have a place to start from.
LEMMA ResetType ==
    /\ AtReset \in [at : {"entry", "drain", "send", "full", "receive", "look",
                         "launch", "running", "dead"},
                   heard : Seq(Word), word : Word]
    /\ AtReset.heard = <<>>
    /\ Idle \in [at : {"idle", "drain", "push", "pop", "sleep", "done"},
                next : 1..6, image : Images]
  <1>1. (CHOOSE i \in Images : TRUE) \in Images
    BY LaunchAssumption
  <1>2. 0 \in Word
    BY DEF Word
  <1>. QED
    BY <1>1, <1>2 DEF AtReset, Idle

\* The types hold at the start.
LEMMA LaunchTypeInit == LaunchInit => LaunchTypeOK
  BY ResetType, LaunchAssumption DEF LaunchInit, LaunchTypeOK, Core

\* A FIFO stays one when a word is taken from it.
LEMMA TakenType ==
    ASSUME LaunchTypeOK, NEW c \in Core, Valid(c)
    PROVE  /\ Taken(c) \in [Core -> Seq(Word)]
           /\ \A d \in Core : Len(Taken(c)[d]) <= FifoDepth
           /\ Head(fifo[c]) \in Word
           /\ Taken(c)[c] = Tail(fifo[c])
           /\ \A d \in Core \ {c} : Taken(c)[d] = fifo[d]
  <1>1. fifo[c] \in Seq(Word) /\ fifo[c] # <<>> /\ Len(fifo[c]) <= FifoDepth
    BY DEF LaunchTypeOK, Valid
  <1>2. /\ Tail(fifo[c]) \in Seq(Word) /\ Head(fifo[c]) \in Word
        /\ Len(Tail(fifo[c])) = Len(fifo[c]) - 1
    BY <1>1, HeadTailProperties
  <1>3. Len(Tail(fifo[c])) <= FifoDepth
    BY <1>1, <1>2, LaunchAssumption, LenProperties
  <1>. QED
    BY <1>2, <1>3 DEF LaunchTypeOK, Taken

\* And when a word is written to one that is ready.
LEMMA SentType ==
    ASSUME LaunchTypeOK, NEW c \in Core, NEW w \in Word, Ready(Other(c)), Sent(c, w)
    PROVE  /\ fifo' \in [Core -> Seq(Word)]
           /\ \A d \in Core : Len(fifo'[d]) <= FifoDepth
           /\ event' \in [Core -> BOOLEAN]
           /\ fifo'[Other(c)] = Append(fifo[Other(c)], w)
           /\ fifo'[c] = fifo[c]
  <1>1. Other(c) \in Core /\ Other(c) # c
    BY DEF Core, Other
  <1>2. fifo[Other(c)] \in Seq(Word) /\ Len(fifo[Other(c)]) < FifoDepth
    BY <1>1 DEF LaunchTypeOK, Ready
  <1>3. /\ Append(fifo[Other(c)], w) \in Seq(Word)
        /\ Len(Append(fifo[Other(c)], w)) = Len(fifo[Other(c)]) + 1
    BY <1>2, AppendProperties
  <1>4. Len(Append(fifo[Other(c)], w)) <= FifoDepth
    BY <1>2, <1>3, LaunchAssumption, LenProperties
  <1>5. fifo' = [fifo EXCEPT ![Other(c)] = Append(@, w)]
    BY DEF Sent
  <1>6. event' \in [Core -> BOOLEAN]
    BY DEF Sent
  <1>. QED
    BY <1>1, <1>3, <1>4, <1>5, <1>6 DEF LaunchTypeOK

\* What core 1 has heard grows by the word it takes.
LEMMA ReceiveType == LaunchTypeOK /\ Receive => LaunchTypeOK'
<1> SUFFICES ASSUME LaunchTypeOK, Receive PROVE LaunchTypeOK'
  OBVIOUS
<1> DEFINE word == Head(fifo[1])
<1>1. /\ 1 \in Core /\ Valid(1)
  BY DEF Core, Receive
<1>2. /\ fifo' \in [Core -> Seq(Word)] /\ word \in Word
      /\ \A c \in Core : Len(fifo'[c]) <= FifoDepth
  BY <1>1, TakenType DEF Receive
<1>3. /\ core1.heard \in Seq(Word) /\ Len(core1.heard) <= 3
      /\ Append(core1.heard, word) \in Seq(Word)
      /\ Len(Append(core1.heard, word)) = Len(core1.heard) + 1
  BY <1>2, AppendProperties DEF LaunchTypeOK, Receive
<1>4. CASE Restarts(word)
  <2>1. core1' = [core1 EXCEPT !.at = "drain"]
    BY <1>4 DEF Receive
  <2>2. core1'.heard = core1.heard /\ core1'.at = "drain" /\ Len(core1'.heard) <= 4
    BY <1>3, <2>1, LenProperties DEF LaunchTypeOK
  <2>. QED
    BY <1>2, <2>1, <2>2 DEF LaunchTypeOK, Receive
<1>5. CASE ~Restarts(word)
  <2>1. core1' = [at |-> "send", heard |-> Append(core1.heard, word), word |-> word]
    BY <1>5 DEF Receive
  <2>2. Len(Append(core1.heard, word)) <= 4
    BY <1>3, LenProperties
  <2>. QED
    BY <1>2, <1>3, <2>1, <2>2 DEF LaunchTypeOK, Receive
<1>. QED
  BY <1>4, <1>5

\* At most four and not four is at most three.
LEMMA BelowFour == ASSUME NEW n \in Nat, n <= 4, n # 4 PROVE n <= 3
  OBVIOUS

\* The echo of the fourth word is the last that core 1 sends.
LEMMA SendType == LaunchTypeOK /\ Send => LaunchTypeOK'
<1> SUFFICES ASSUME LaunchTypeOK, Send PROVE LaunchTypeOK'
  OBVIOUS
<1>1. /\ 1 \in Core /\ Other(1) = 0
      /\ core1.word \in Word /\ core1.heard \in Seq(Word) /\ core1.at = "send"
      /\ Len(core1.heard) \in Nat /\ Len(core1.heard) <= 4
  BY LenProperties DEF Core, Other, LaunchTypeOK, Send
<1>2. /\ fifo' \in [Core -> Seq(Word)]
      /\ \A c \in Core : Len(fifo'[c]) <= FifoDepth
      /\ event' \in [Core -> BOOLEAN]
  BY <1>1, SentType DEF Send
<1>3. core1' = [core1 EXCEPT !.at = IF LastEcho THEN "launch" ELSE "receive"]
  BY DEF Send
<1>4. core1' \in [at : {"entry", "drain", "send", "full", "receive", "look",
                       "launch", "running", "dead"},
                 heard : Seq(Word), word : Word]
  BY <1>3 DEF LaunchTypeOK
<1>5. core1'.heard = core1.heard /\ core1'.at = IF LastEcho THEN "launch" ELSE "receive"
  BY <1>3 DEF LaunchTypeOK
<1>6. CASE LastEcho
  BY <1>1, <1>2, <1>4, <1>5, <1>6 DEF LaunchTypeOK, Send
<1>7. CASE ~LastEcho
  <2>1. Len(core1.heard) <= 3
    BY <1>1, <1>7, BelowFour, Zenon DEF LastEcho
  <2>. QED
    BY <1>1, <1>2, <1>4, <1>5, <1>7, <2>1 DEF LaunchTypeOK, Send
<1>. QED
  BY <1>6, <1>7

\* The steps of core 1 keep the types.
LEMMA LaunchTypeCore1 == LaunchTypeOK /\ (RomOfCore1 \/ Core1Returns) => LaunchTypeOK'
<1> SUFFICES ASSUME LaunchTypeOK, RomOfCore1 \/ Core1Returns PROVE LaunchTypeOK'
  OBVIOUS
<1> USE DEF LaunchTypeOK
<1>0. 1 \in Core /\ 0 \in Core /\ Other(1) = 0
  BY DEF Core, Other
<1>1. CASE EnterRom
  <2>1. /\ fifo' \in [Core -> Seq(Word)]
        /\ \A c \in Core : Len(fifo'[c]) <= FifoDepth
    BY <1>0, <1>1, TakenType DEF EnterRom
  <2>. QED
    BY <1>1, <2>1 DEF EnterRom
<1>2. CASE Drain
  BY <1>0, <1>2, TakenType DEF Drain
<1>3. CASE Drained
  BY <1>3, EmptyType DEF Drained
<1>4. CASE Send
  BY <1>4, SendType
<1>5. CASE FindFull
  BY <1>5 DEF FindFull
<1>6. CASE Wake
  BY <1>6 DEF Wake
<1>7. CASE FindNothing
  BY <1>7 DEF FindNothing
<1>8. CASE Receive
  BY <1>8, ReceiveType
<1>9. CASE Launch
  BY <1>9 DEF Launch
<1>10. CASE Core1Returns
  BY <1>10 DEF Core1Returns
<1>. QED
  BY <1>1, <1>2, <1>3, <1>4, <1>5, <1>6, <1>7, <1>8, <1>9, <1>10 DEF RomOfCore1

\* The place in the sequence stays within it.
LEMMA TakeAnswerType == LaunchTypeOK /\ TakeAnswer => LaunchTypeOK'
<1> SUFFICES ASSUME LaunchTypeOK, TakeAnswer PROVE LaunchTypeOK'
  OBVIOUS
<1> DEFINE Caller == [at : {"idle", "drain", "push", "pop", "sleep", "done"},
                      next : 1..6, image : Images]
<1>1. /\ fifo' \in [Core -> Seq(Word)]
      /\ \A c \in Core : Len(fifo'[c]) <= FifoDepth
  BY TakenType DEF Core, TakeAnswer
<1>2. caller \in Caller
  BY DEF LaunchTypeOK
<1>3. caller' \in Caller
  <2>1. CASE Head(fifo[0]) # CurrentWord
    <3>1. caller' = [caller EXCEPT !.at = "drain", !.next = 1]
      BY <2>1 DEF TakeAnswer
    <3>2. ASSUME NEW n \in 1..6 PROVE [caller EXCEPT !.at = "drain", !.next = n] \in Caller
      BY <1>2
    <3>3. 1 \in 1..6
      OBVIOUS
    <3>. HIDE DEF Caller
    <3>. QED
      BY <3>1, <3>2, <3>3
  <2>2. CASE Head(fifo[0]) = CurrentWord /\ caller.next = 6
    <3>1. caller' = [caller EXCEPT !.at = "done"]
      BY <2>2 DEF TakeAnswer
    <3>. QED
      BY <1>2, <3>1
  <2>3. CASE Head(fifo[0]) = CurrentWord /\ caller.next # 6
    <3>1. caller' = [caller EXCEPT !.next = @ + 1, !.at = Turn(caller.next + 1)]
      BY <2>3 DEF TakeAnswer
    <3>2. Turn(caller.next + 1) \in {"drain", "push"} /\ caller.next + 1 \in 1..6
      BY <1>2, <2>3 DEF Turn
    <3>. QED
      BY <1>2, <3>1, <3>2
  <2>. QED
    BY <2>1, <2>2, <2>3
<1>. QED
  BY <1>1, <1>3 DEF LaunchTypeOK, TakeAnswer

\* The steps of core 0's launch code keep the types.
LEMMA LaunchTypeCore0 == LaunchTypeOK /\ (Call \/ LaunchCode) => LaunchTypeOK'
<1> SUFFICES ASSUME LaunchTypeOK, Call \/ LaunchCode PROVE LaunchTypeOK'
  OBVIOUS
<1> USE DEF LaunchTypeOK
<1>0. 1 \in Core /\ 0 \in Core /\ Other(0) = 1
  BY DEF Core, Other
<1>1. CASE Call
  BY <1>1, LaunchAssumption DEF Call
<1>2. CASE DropAnswer
  BY <1>0, <1>2, TakenType DEF DropAnswer
<1>3. CASE NoAnswerLeft
  BY <1>3 DEF NoAnswerLeft
<1>4. CASE Push
  <2>1. CurrentWord \in Word
    BY SequenceType DEF CurrentWord
  <2>2. /\ fifo' \in [Core -> Seq(Word)]
        /\ \A c \in Core : Len(fifo'[c]) <= FifoDepth
        /\ event' \in [Core -> BOOLEAN]
    BY <1>0, <1>4, <2>1, SentType DEF Push
  <2>. QED
    BY <1>4, <2>2 DEF Push
<1>5. CASE AwaitAnswer
  BY <1>5 DEF AwaitAnswer
<1>6. CASE TakeAnswer
  BY <1>6, TakeAnswerType
<1>. QED
  BY <1>1, <1>2, <1>3, <1>4, <1>5, <1>6 DEF LaunchCode

\* Resets keep the types.
LEMMA LaunchTypeReset == LaunchTypeOK /\ (ResetCore0 \/ ResetCore1 \/ ResetBoth) => LaunchTypeOK'
<1> SUFFICES ASSUME LaunchTypeOK, ResetCore0 \/ ResetCore1 \/ ResetBoth PROVE LaunchTypeOK'
  OBVIOUS
<1>1. CASE ResetCore0
  <2>1. coreResets' \in 0..MaxResets
    BY <1>1, LaunchAssumption DEF LaunchTypeOK, ResetCore0
  <2>4. event' \in [Core -> BOOLEAN]
    BY <1>1 DEF LaunchTypeOK, ResetCore0
  <2>2. caller' = Idle /\ UNCHANGED <<core1, fifo, answered, calls>>
    BY <1>1 DEF ResetCore0
  <2>. QED
    BY <2>1, <2>2, <2>4, ResetType DEF LaunchTypeOK
<1>2. CASE ResetCore1
  <2>1. coreResets' \in 0..MaxResets
    BY <1>2, LaunchAssumption DEF LaunchTypeOK, ResetCore1
  <2>4. event' \in [Core -> BOOLEAN]
    BY <1>2 DEF LaunchTypeOK, ResetCore1
  <2>2. core1' = AtReset /\ UNCHANGED <<caller, fifo, answered, calls>>
    BY <1>2 DEF ResetCore1
  <2>3. Len(core1'.heard) = 0
    BY <2>2, ResetType
  <2>. QED
    BY <2>1, <2>2, <2>3, <2>4, ResetType DEF LaunchTypeOK
<1>3. CASE ResetBoth
  <2>1. core1' = AtReset /\ caller' = Idle /\ answered' = {} /\ UNCHANGED <<calls, coreResets>>
    BY <1>3 DEF ResetBoth
  <2>2. /\ fifo' \in [Core -> Seq(Word)] /\ event' \in [Core -> BOOLEAN]
        /\ \A c \in Core : Len(fifo'[c]) <= FifoDepth
    BY <1>3, LaunchAssumption, EmptyType DEF ResetBoth
  <2>3. Len(core1'.heard) = 0
    BY <2>1, ResetType
  <2>. QED
    BY <2>1, <2>2, <2>3, ResetType DEF LaunchTypeOK
<1>. QED
  BY <1>1, <1>2, <1>3

\* A step of the launch, or one that leaves it alone, keeps the types.
LEMMA LaunchTypeStep == LaunchTypeOK /\ [LaunchNext]_launchVars => LaunchTypeOK'
<1> SUFFICES ASSUME LaunchTypeOK, [LaunchNext]_launchVars PROVE LaunchTypeOK'
  OBVIOUS
<1>1. CASE UNCHANGED launchVars
  BY <1>1 DEF LaunchTypeOK, launchVars
<1>. QED
  BY <1>1, LaunchTypeCore0, LaunchTypeCore1, LaunchTypeReset DEF LaunchNext

\* The launch keeps its types.
THEOREM LaunchTypeCorrect == LaunchSafety => []LaunchTypeOK
  BY LaunchTypeInit, LaunchTypeStep, PTL DEF LaunchSafety

(***************************************************************************)
(* What core 1 has heard, followed by what is on its way, is a stream of   *)
(* words.  The invariant: whatever in it follows a 1, up to the next 0, is *)
(* the beginning of an image.  The end of the stream belongs to the        *)
(* image core 0 is sending, unless core 0 has to start with a 0 next.      *)
(***************************************************************************)
Heard  == IF core1.at \in {"entry", "drain"} THEN <<>> ELSE core1.heard
Stream == Heard \o fifo[1]

\* The words of the sequence that core 0 has sent.
Pushed == IF caller.at \in {"pop", "sleep", "done"} THEN caller.next ELSE caller.next - 1

\* From a on to b the stream has a 1 and no 0.
Open(s, a, b) == a <= b /\ s[a] = 1 /\ \A k \in a..b : s[k] # 0

\* The words from a to b begin the command for image i.
Begins(s, a, b, i) ==
    /\ b - a + 1 <= 4
    /\ \A k \in a..b : s[k] = Command(i)[k - a + 1]

WholeImages(s) ==
    \A a, b \in 1..Len(s) : Open(s, a, b) => \E i \in Images : Begins(s, a, b, i)

EndIsCurrent(s, pushed, image) ==
    \A a \in 1..Len(s) : Open(s, a, Len(s)) =>
        \/ pushed = 0
        \/ Begins(s, a, Len(s), image) /\ Len(s) - a + 1 = pushed - 2

\* What core 1 has heard begins with a 1 and has no 0, and it starts after 4 words.
HeardInv ==
    /\ core1.at \notin {"entry", "drain"} /\ core1.heard # <<>> =>
         Open(core1.heard, 1, Len(core1.heard))
    /\ core1.at \in {"launch", "running", "dead"} => Len(core1.heard) = 4

StreamInv ==
    /\ HeardInv
    /\ WholeImages(Stream)
    /\ EndIsCurrent(Stream, Pushed, caller.image)

\* The end of a stream is as good as the stream.
LEMMA Suffix ==
    ASSUME NEW s \in Seq(Word), NEW t \in Seq(Word), NEW n \in Nat,
           Len(s) = n + Len(t), \A k \in 1..Len(t) : t[k] = s[n + k]
    PROVE  /\ WholeImages(s) => WholeImages(t)
           /\ \A pushed \in 0..6, image \in Images :
                EndIsCurrent(s, pushed, image) => EndIsCurrent(t, pushed, image)
<1>1. Len(s) \in Nat /\ Len(t) \in Nat
  BY LenProperties
<1>2. ASSUME NEW a \in 1..Len(t), NEW b \in 1..Len(t), Open(t, a, b)
      PROVE  Open(s, n + a, n + b)
  <2>1. n + a <= n + b /\ s[n + a] = 1
    BY <1>1, <1>2 DEF Open
  <2>2. ASSUME NEW k \in (n + a)..(n + b) PROVE s[k] # 0
    <3>1. k - n \in a..b /\ k - n \in 1..Len(t) /\ n + (k - n) = k
      BY <1>1
    <3>2. t[k - n] = s[n + (k - n)] /\ t[k - n] # 0
      BY <1>2, <3>1 DEF Open
    <3>. QED
      BY <3>1, <3>2
  <2>. QED
    BY <2>1, <2>2 DEF Open
<1>3. ASSUME NEW a \in 1..Len(t), NEW b \in 1..Len(t), NEW i \in Images,
             Begins(s, n + a, n + b, i)
      PROVE  Begins(t, a, b, i)
  <2>1. b - a + 1 <= 4
    BY <1>1, <1>3 DEF Begins
  <2>2. ASSUME NEW k \in a..b PROVE t[k] = Command(i)[k - a + 1]
    <3>1. /\ k \in 1..Len(t) /\ n + k \in (n + a)..(n + b)
          /\ (n + k) - (n + a) + 1 = k - a + 1
      BY <1>1
    <3>2. s[n + k] = Command(i)[(n + k) - (n + a) + 1]
      BY <1>3, <3>1 DEF Begins
    <3>. QED
      BY <3>1, <3>2
  <2>. QED
    BY <2>1, <2>2 DEF Begins
<1>4. ASSUME WholeImages(s) PROVE WholeImages(t)
  <2> SUFFICES ASSUME NEW a \in 1..Len(t), NEW b \in 1..Len(t), Open(t, a, b)
               PROVE  \E i \in Images : Begins(t, a, b, i)
    BY DEF WholeImages
  <2>1. n + a \in 1..Len(s) /\ n + b \in 1..Len(s)
    BY <1>1
  <2>2. PICK i \in Images : Begins(s, n + a, n + b, i)
    BY <1>2, <1>4, <2>1 DEF WholeImages
  <2>. QED
    BY <1>3, <2>2
<1>5. ASSUME NEW pushed \in 0..6, NEW image \in Images, EndIsCurrent(s, pushed, image)
      PROVE  EndIsCurrent(t, pushed, image)
  <2> SUFFICES ASSUME NEW a \in 1..Len(t), Open(t, a, Len(t)), pushed # 0
               PROVE  Begins(t, a, Len(t), image) /\ Len(t) - a + 1 = pushed - 2
    BY DEF EndIsCurrent
  <2>1. n + a \in 1..Len(s) /\ n + Len(t) = Len(s) /\ Len(t) \in 1..Len(t)
    BY <1>1
  <2>2. Open(s, n + a, Len(s))
    BY <1>2, <2>1
  <2>3. Begins(s, n + a, Len(s), image) /\ Len(s) - (n + a) + 1 = pushed - 2
    BY <1>5, <2>1, <2>2 DEF EndIsCurrent
  <2>. QED
    BY <1>1, <1>3, <2>1, <2>3
<1>. QED
  BY <1>4, <1>5

\* The words of a sequence: two zeros, then the command.
LEMMA SequenceWords ==
    ASSUME NEW i \in Images
    PROVE  /\ Sequence(i)[1] = 0 /\ Sequence(i)[2] = 0
           /\ \A n \in 3..6 : Sequence(i)[n] = Command(i)[n - 2] /\ Sequence(i)[n] # 0
           /\ Command(i)[1] = 1 /\ \A n \in 4..6 : Sequence(i)[n] # 1
           /\ Command(i) \in Seq(Word) /\ Len(Command(i)) = 4
<1>1. i.vtor \in Nat \ {0, 1} /\ i.sp \in Nat \ {0, 1} /\ i.pc \in Nat \ {0, 1}
  BY LaunchAssumption
<1>2. {1, i.vtor, i.sp, i.pc} \subseteq Word
  BY DEF Word
<1>. QED
  BY <1>1, <1>2 DEF Sequence, Command

\* The next word of core 0's sequence continues the stream.
LEMMA Extension ==
    ASSUME NEW s \in Seq(Word), NEW image \in Images, NEW pushed \in 0..5,
           WholeImages(s), EndIsCurrent(s, pushed, image)
    PROVE  LET t == Append(s, Sequence(image)[pushed + 1])
           IN  WholeImages(t) /\ EndIsCurrent(t, pushed + 1, image)
<1> DEFINE w == Sequence(image)[pushed + 1]
           t == Append(s, w)
           n == Len(s) + 1
<1>1. /\ Len(s) \in Nat /\ w \in Word /\ t \in Seq(Word) /\ Len(t) = n
      /\ \A k \in 1..Len(s) : t[k] = s[k]
      /\ t[n] = w
  <2>1. w \in Word
    BY SequenceType
  <2>. QED
    BY <2>1, LenProperties, AppendProperties
<1> HIDE DEF w, t
<1>2. ASSUME NEW a \in 1..n, NEW b \in 1..Len(s), Open(t, a, b)
      PROVE  a \in 1..Len(s) /\ Open(s, a, b)
  <2>1. a \in 1..Len(s) /\ a <= b /\ s[a] = 1
    BY <1>1, <1>2 DEF Open
  <2>2. ASSUME NEW k \in a..b PROVE s[k] # 0
    <3>1. k \in 1..Len(s) /\ t[k] = s[k]
      BY <1>1, <2>1
    <3>. QED
      BY <1>2, <3>1 DEF Open
  <2>. QED
    BY <2>1, <2>2 DEF Open
<1>3. ASSUME NEW a \in 1..Len(s), Open(t, a, n)
      PROVE  Open(s, a, Len(s)) /\ Open(t, a, Len(s)) /\ w # 0
  <2>1. Len(s) \in 1..n /\ a <= Len(s) /\ a..Len(s) \subseteq a..n /\ n \in a..n
    BY <1>1
  <2>2. Open(t, a, Len(s))
    BY <1>3, <2>1 DEF Open
  <2>3. w # 0
    BY <1>1, <1>3, <2>1 DEF Open
  <2>4. Len(s) \in 1..Len(s) /\ a \in 1..n
    BY <1>1, <2>1
  <2>. QED
    BY <1>2, <2>2, <2>3, <2>4
<1>4. ASSUME NEW a \in 1..n, Open(t, a, n)
      PROVE  Begins(t, a, n, image) /\ n - a + 1 = (pushed + 1) - 2
  <2>1. CASE a = n
    <3>1. w = 1
      BY <1>1, <1>4, <2>1 DEF Open
    <3>2. pushed = 2
      <4>1. pushed \notin {0, 1}
        BY <3>1, SequenceWords DEF w
      <4>2. pushed \notin 3..5
        BY <3>1, SequenceWords DEF w
      <4>. QED
        BY <4>1, <4>2
    <3>3. \A k \in a..n : k = n /\ k - a + 1 = 1
      BY <1>1, <2>1
    <3>4. n - a + 1 = 1
      BY <1>1, <2>1
    <3>5. \A k \in a..n : t[k] = Command(image)[k - a + 1]
      BY <1>1, <3>1, <3>3, SequenceWords
    <3>. QED
      BY <3>2, <3>4, <3>5 DEF Begins
  <2>2. CASE a # n
    <3>1. a \in 1..Len(s) /\ Len(s) \in 1..Len(s)
      BY <1>1, <2>2
    <3>2. Open(s, a, Len(s)) /\ w # 0
      BY <1>3, <1>4, <3>1
    <3>3. pushed \notin {0, 1}
      BY <3>2, SequenceWords DEF w
    <3>4. Begins(s, a, Len(s), image) /\ Len(s) - a + 1 = pushed - 2
      BY <3>1, <3>2, <3>3 DEF EndIsCurrent
    <3>5. pushed \in 3..5 /\ n - a + 1 = pushed - 1
      BY <1>1, <3>1, <3>4
    <3>6. ASSUME NEW k \in a..n PROVE t[k] = Command(image)[k - a + 1]
      <4>1. CASE k = n
        <5>1. pushed + 1 \in 3..6 /\ (pushed + 1) - 2 = k - a + 1
          BY <3>5, <4>1
        <5>2. w = Command(image)[(pushed + 1) - 2]
          BY <5>1, SequenceWords DEF w
        <5>. QED
          BY <1>1, <4>1, <5>1, <5>2
      <4>2. CASE k # n
        <5>1. k \in a..Len(s) /\ k \in 1..Len(s)
          BY <1>1, <3>1, <4>2
        <5>. QED
          BY <1>1, <3>4, <5>1 DEF Begins
      <4>. QED
        BY <4>1, <4>2
    <3>. QED
      BY <3>5, <3>6 DEF Begins
  <2>. QED
    BY <2>1, <2>2
<1>5. WholeImages(t)
  <2> SUFFICES ASSUME NEW a \in 1..Len(t), NEW b \in 1..Len(t), Open(t, a, b)
               PROVE  \E i \in Images : Begins(t, a, b, i)
    BY DEF WholeImages
  <2>1. CASE b = n
    BY <1>1, <1>4, <2>1
  <2>2. CASE b # n
    <3>1. a \in 1..n /\ b \in 1..Len(s)
      BY <1>1, <2>2
    <3>2. a \in 1..Len(s) /\ Open(s, a, b)
      BY <1>2, <3>1
    <3>3. PICK i \in Images : Begins(s, a, b, i)
      BY <3>1, <3>2 DEF WholeImages
    <3>4. \A k \in a..b : k \in 1..Len(s) /\ t[k] = s[k]
      BY <1>1, <3>1, <3>2
    <3>. QED
      BY <3>3, <3>4 DEF Begins
  <2>. QED
    BY <2>1, <2>2
<1>6. EndIsCurrent(t, pushed + 1, image)
  BY <1>1, <1>4 DEF EndIsCurrent
<1>. QED
  BY <1>5, <1>6 DEF t, w

\* The words of two sequences joined, by their places.
LEMMA Joined ==
    ASSUME NEW h \in Seq(Word), NEW f \in Seq(Word)
    PROVE  /\ h \o f \in Seq(Word) /\ Len(h \o f) = Len(h) + Len(f)
           /\ Len(h) \in Nat /\ Len(f) \in Nat
           /\ \A k \in 1..Len(h) : (h \o f)[k] = h[k]
           /\ \A k \in 1..Len(f) : (h \o f)[Len(h) + k] = f[k]
  BY LenProperties, ConcatProperties

\* What core 1 takes from the FIFO without keeping it leaves an end of the stream.
LEMMA Dropped ==
    ASSUME NEW h \in Seq(Word), NEW f \in Seq(Word), f # <<>>,
           NEW pushed \in 0..6, NEW image \in Images,
           WholeImages(h \o f), EndIsCurrent(h \o f, pushed, image)
    PROVE  WholeImages(Tail(f)) /\ EndIsCurrent(Tail(f), pushed, image)
<1>1. /\ Tail(f) \in Seq(Word) /\ Len(Tail(f)) = Len(f) - 1
      /\ Len(f) \in Nat /\ Len(h) \in Nat /\ Len(h) + 1 \in Nat
      /\ \A k \in 1..Len(Tail(f)) : Tail(f)[k] = f[k + 1]
  BY HeadTailProperties, LenProperties
<1>2. Len(h \o f) = (Len(h) + 1) + Len(Tail(f))
  BY <1>1, Joined
<1>3. ASSUME NEW k \in 1..Len(Tail(f)) PROVE Tail(f)[k] = (h \o f)[(Len(h) + 1) + k]
  <2>1. k + 1 \in 1..Len(f) /\ (Len(h) + 1) + k = Len(h) + (k + 1)
    BY <1>1
  <2>2. (h \o f)[Len(h) + (k + 1)] = f[k + 1]
    BY <2>1, Joined
  <2>. QED
    BY <1>1, <2>1, <2>2
<1>4. h \o f \in Seq(Word)
  BY Joined
<1>. QED
  BY <1>1, <1>2, <1>3, <1>4, Suffix

\* So does a reset of core 1.
LEMMA Forgotten ==
    ASSUME NEW h \in Seq(Word), NEW f \in Seq(Word),
           NEW pushed \in 0..6, NEW image \in Images,
           WholeImages(h \o f), EndIsCurrent(h \o f, pushed, image)
    PROVE  WholeImages(f) /\ EndIsCurrent(f, pushed, image)
<1>1. /\ h \o f \in Seq(Word) /\ Len(h) \in Nat /\ Len(h \o f) = Len(h) + Len(f)
      /\ \A k \in 1..Len(f) : f[k] = (h \o f)[Len(h) + k]
  BY Joined
<1>. QED
  BY <1>1, Suffix

\* A word that core 1 keeps only moves within the stream.
LEMMA Kept ==
    ASSUME NEW h \in Seq(Word), NEW f \in Seq(Word), f # <<>>
    PROVE  Append(h, Head(f)) \o Tail(f) = h \o f
  BY HeadTailProperties, AppendProperties, ConcatProperties, LenProperties

\* A word appended to the first of two sequences that are joined.
LEMMA JoinedAppend ==
    ASSUME NEW h \in Seq(Word), NEW f \in Seq(Word), NEW w \in Word
    PROVE  h \o Append(f, w) = Append(h \o f, w)
  BY AppendProperties, ConcatProperties, LenProperties

\* Nothing joined to a sequence.
LEMMA JoinedEmpty ==
    ASSUME NEW f \in Seq(Word)
    PROVE  <<>> \o f = f
  BY ConcatProperties, LenProperties

\* An empty stream is whole.
LEMMA EmptyStream ==
    WholeImages(<<>>) /\ \A pushed \in 0..6, image \in Images : EndIsCurrent(<<>>, pushed, image)
  BY EmptyType DEF WholeImages, EndIsCurrent

\* In a state with the types, the stream and the count of its words have theirs.
LEMMA StreamType ==
    LaunchTypeOK => /\ Heard \in Seq(Word) /\ fifo[1] \in Seq(Word)
                    /\ Pushed \in 0..6 /\ caller.image \in Images
<1> SUFFICES ASSUME LaunchTypeOK
             PROVE  /\ Heard \in Seq(Word) /\ fifo[1] \in Seq(Word)
                    /\ Pushed \in 0..6 /\ caller.image \in Images
  OBVIOUS
<1>1. Heard \in Seq(Word)
  BY EmptyType DEF Heard, LaunchTypeOK
<1>2. fifo[1] \in Seq(Word)
  BY DEF LaunchTypeOK, Core
<1>3. Pushed \in 0..6 /\ caller.image \in Images
  BY DEF LaunchTypeOK, Pushed
<1>. QED
  BY <1>1, <1>2, <1>3

\* The invariant holds at first, and after a reset of both cores.
LEMMA StreamFresh ==
    ASSUME core1 = AtReset, fifo = [c \in Core |-> <<>>], LaunchTypeOK
    PROVE  StreamInv
<1>1. core1.at = "entry" /\ Heard = <<>> /\ fifo[1] = <<>>
  BY DEF AtReset, Heard, Core
<1>2. Stream = <<>>
  BY <1>1, JoinedEmpty, EmptyType DEF Stream
<1>3. HeardInv
  BY <1>1 DEF HeardInv
<1>. QED
  BY <1>2, <1>3, EmptyStream, StreamType DEF StreamInv

\* A step that neither moves a word to or from core 1 nor changes what it has
\* heard, nor how far core 0 is, keeps the invariant of the stream.
LEMMA StreamSame ==
    ASSUME StreamInv, Heard' = Heard, fifo'[1] = fifo[1],
           Pushed' = Pushed, caller'.image = caller.image, HeardInv'
    PROVE  StreamInv'
  BY DEF StreamInv, Stream

\* The steps of core 1 that leave its FIFO alone.
LEMMA StreamCore1 ==
    ASSUME LaunchTypeOK, StreamInv,
           Drained \/ Send \/ FindFull \/ Wake \/ FindNothing \/ Launch \/ Core1Returns
    PROVE  StreamInv'
<1>1. fifo'[1] = fifo[1]
  BY DEF LaunchTypeOK, Core, Other, Sent, Drained, Send, FindFull, Wake, FindNothing, Launch,
         Core1Returns
<1>2. Pushed' = Pushed /\ caller'.image = caller.image
  BY DEF Pushed, Drained, Send, FindFull, Wake, FindNothing, Launch, Core1Returns
<1>3. HeardInv' /\ Heard' = Heard
  <2>1. CASE Drained
    BY <2>1, EmptyType DEF Drained, HeardInv, Heard
  <2>2. CASE Send
    <3>1. /\ core1'.heard = core1.heard /\ core1.at = "send"
          /\ core1'.at = IF Len(core1.heard) = 4 THEN "launch" ELSE "receive"
      BY <2>2 DEF Send, LastEcho, LaunchTypeOK
    <3>. QED
      BY <3>1 DEF StreamInv, HeardInv, Heard
  <2>3. CASE FindFull
    BY <2>3 DEF FindFull, LaunchTypeOK, StreamInv, HeardInv, Heard
  <2>4. CASE Wake
    <3>1. /\ core1'.heard = core1.heard /\ core1.at \in {"full", "receive"}
          /\ core1'.at = IF core1.at = "full" THEN "send" ELSE "look"
      BY <2>4 DEF Wake, LaunchTypeOK
    <3>. QED
      BY <3>1 DEF StreamInv, HeardInv, Heard
  <2>5. CASE FindNothing
    BY <2>5 DEF FindNothing, LaunchTypeOK, StreamInv, HeardInv, Heard
  <2>6. CASE Launch
    BY <2>6 DEF Launch, LaunchTypeOK, StreamInv, HeardInv, Heard
  <2>7. CASE Core1Returns
    BY <2>7 DEF Core1Returns, LaunchTypeOK, StreamInv, HeardInv, Heard
  <2>. QED
    BY <2>1, <2>2, <2>3, <2>4, <2>5, <2>6, <2>7
<1>. QED
  BY <1>1, <1>2, <1>3, StreamSame

\* The steps of core 1 that take a word, and its reset.
LEMMA StreamTaken ==
    ASSUME LaunchTypeOK, StreamInv, EnterRom \/ Drain \/ Receive \/ ResetCore1
    PROVE  StreamInv'
<1> DEFINE f == fifo[1]
<1>0. /\ Heard \in Seq(Word) /\ f \in Seq(Word) /\ 1 \in Core
      /\ Pushed \in 0..6 /\ caller.image \in Images
      /\ WholeImages(Heard \o f) /\ EndIsCurrent(Heard \o f, Pushed, caller.image)
  BY StreamType DEF StreamInv, Stream, Core
<1>1. Pushed' = Pushed /\ caller'.image = caller.image
  BY DEF Pushed, EnterRom, Drain, Receive, ResetCore1
<1>2. ASSUME core1'.at \in {"entry", "drain"},
             fifo'[1] = f \/ (f # <<>> /\ fifo'[1] = Tail(f))
      PROVE  StreamInv'
  <2>1. Heard' = <<>> /\ HeardInv'
    BY <1>2 DEF Heard, HeardInv
  <2>2. WholeImages(fifo'[1]) /\ EndIsCurrent(fifo'[1], Pushed, caller.image)
    BY <1>0, <1>2, Dropped, Forgotten
  <2>3. fifo'[1] \in Seq(Word)
    BY <1>0, <1>2, HeadTailProperties
  <2>4. Stream' = fifo'[1]
    BY <2>1, <2>3, JoinedEmpty DEF Stream
  <2>. QED
    BY <1>1, <2>1, <2>2, <2>4 DEF StreamInv
<1>3. CASE EnterRom
  <2>1. core1'.at = "drain"
    BY <1>3 DEF EnterRom, LaunchTypeOK
  <2>2. fifo'[1] = f \/ (f # <<>> /\ fifo'[1] = Tail(f))
    BY <1>0, <1>3, TakenType DEF EnterRom, Valid
  <2>. QED
    BY <1>2, <2>1, <2>2
<1>4. CASE Drain
  <2>1. core1'.at = "drain"
    BY <1>4 DEF Drain
  <2>2. f # <<>> /\ fifo'[1] = Tail(f)
    BY <1>0, <1>4, TakenType DEF Drain, Valid
  <2>. QED
    BY <1>2, <2>1, <2>2
<1>5. CASE ResetCore1
  <2>1. core1'.at = "entry" /\ fifo'[1] = f
    BY <1>5 DEF ResetCore1, AtReset
  <2>. QED
    BY <1>2, <2>1
<1>6. CASE Receive
  <2> DEFINE word == Head(f)
  <2>1. f # <<>> /\ fifo'[1] = Tail(f) /\ word \in Word
    BY <1>0, <1>6, TakenType DEF Receive, Valid
  <2>2. CASE Restarts(word)
    <3>1. core1'.at = "drain"
      BY <1>6, <2>2 DEF Receive, LaunchTypeOK
    <3>. QED
      BY <1>2, <2>1, <3>1
  <2>3. CASE ~Restarts(word)
    <3>1. core1' = [at |-> "send", heard |-> Append(core1.heard, word), word |-> word]
      BY <1>6, <2>3 DEF Receive
    <3>2. core1.at = "look" /\ Heard = core1.heard
      BY <1>6 DEF Receive, Heard
    <3>3. Heard' = Append(Heard, word)
      BY <3>1, <3>2 DEF Heard
    <3>4. Stream' = Stream
      BY <1>0, <2>1, <3>3, Kept DEF Stream
    <3>5. HeardInv'
      <4>1. /\ Append(Heard, word) \in Seq(Word) /\ Len(Heard) \in Nat
            /\ Len(Append(Heard, word)) = Len(Heard) + 1
            /\ \A k \in 1..Len(Heard) : Append(Heard, word)[k] = Heard[k]
            /\ Append(Heard, word)[Len(Heard) + 1] = word
        BY <1>0, <2>1, AppendProperties, LenProperties
      <4>2. word # 0 /\ (Heard = <<>> => word = 1)
        BY <2>3, <3>2 DEF Restarts
      <4>3. CASE Heard = <<>>
        <5>1. Len(Heard) = 0
          BY <4>3
        <5>2. Open(Append(Heard, word), 1, 1)
          BY <4>1, <4>2, <4>3, <5>1 DEF Open
        <5>. QED
          BY <3>1, <3>2, <4>1, <5>1, <5>2 DEF HeardInv
      <4>4. CASE Heard # <<>>
        <5>1. Open(Heard, 1, Len(Heard))
          BY <3>2, <4>4 DEF StreamInv, HeardInv
        <5>2. Open(Append(Heard, word), 1, Len(Heard) + 1)
          <6>1. Append(Heard, word)[1] = 1
            BY <4>1, <5>1 DEF Open
          <6>2. ASSUME NEW k \in 1..(Len(Heard) + 1) PROVE Append(Heard, word)[k] # 0
            <7>1. CASE k = Len(Heard) + 1
              BY <4>1, <4>2, <7>1
            <7>2. CASE k # Len(Heard) + 1
              <8>1. k \in 1..Len(Heard)
                BY <4>1, <7>2
              <8>. QED
                BY <4>1, <5>1, <8>1 DEF Open
            <7>. QED
              BY <7>1, <7>2
          <6>. QED
            BY <4>1, <6>1, <6>2 DEF Open
        <5>. QED
          BY <3>1, <3>2, <4>1, <5>2 DEF HeardInv
      <4>. QED
        BY <4>3, <4>4
    <3>. QED
      BY <1>1, <3>4, <3>5 DEF StreamInv
  <2>. QED
    BY <2>2, <2>3
<1>. QED
  BY <1>3, <1>4, <1>5, <1>6

\* The steps of core 0 that only move it, and its reset: what it has sent of the
\* sequence stays, or it starts with a zero next.
LEMMA StreamMoved ==
    ASSUME StreamInv, core1' = core1, fifo'[1] = fifo[1],
           (Pushed' = Pushed /\ caller'.image = caller.image) \/ Pushed' = 0
    PROVE  StreamInv'
<1>1. Heard' = Heard /\ Stream' = Stream /\ HeardInv'
  BY DEF Heard, Stream, StreamInv, HeardInv
<1>2. EndIsCurrent(Stream, Pushed', caller'.image)
  BY DEF StreamInv, EndIsCurrent
<1>. QED
  BY <1>1, <1>2 DEF StreamInv

\* The steps of core 0 keep the stream of words in order.
LEMMA StreamCore0 ==
    ASSUME LaunchTypeOK, StreamInv, Call \/ LaunchCode \/ ResetCore0
    PROVE  StreamInv'
<1>0. 0 \in Core /\ 1 \in Core \ {0} /\ Other(0) = 1
  BY DEF Core, Other
<1>1. CASE Call
  <2>1. Pushed' = 0 /\ core1' = core1 /\ fifo' = fifo
    BY <1>1 DEF Call, Pushed
  <2>. QED
    BY <2>1, StreamMoved
<1>2. CASE ResetCore0
  <2>1. Pushed' = 0 /\ core1' = core1 /\ fifo' = fifo
    BY <1>2 DEF ResetCore0, Idle, Pushed
  <2>. QED
    BY <2>1, StreamMoved
<1>3. CASE DropAnswer
  <2>1. Pushed' = Pushed /\ caller' = caller /\ core1' = core1
    BY <1>3 DEF DropAnswer, Pushed
  <2>2. fifo'[1] = fifo[1]
    BY <1>0, <1>3, TakenType DEF DropAnswer
  <2>. QED
    BY <2>1, <2>2, StreamMoved
<1>4. CASE NoAnswerLeft
  <2>1. caller'.image = caller.image /\ core1' = core1 /\ fifo' = fifo
    BY <1>4 DEF NoAnswerLeft, LaunchTypeOK
  <2>2. Pushed' = Pushed
    BY <1>4 DEF NoAnswerLeft, LaunchTypeOK, Pushed
  <2>. QED
    BY <2>1, <2>2, StreamMoved
<1>5. CASE AwaitAnswer
  <2>1. caller'.image = caller.image /\ core1' = core1 /\ fifo' = fifo
    BY <1>5 DEF AwaitAnswer, LaunchTypeOK
  <2>2. Pushed' = Pushed
    BY <1>5 DEF AwaitAnswer, LaunchTypeOK, Pushed
  <2>. QED
    BY <2>1, <2>2, StreamMoved
<1>6. CASE TakeAnswer
  <2>1. core1' = core1
    BY <1>6 DEF TakeAnswer
  <2>2. fifo'[1] = fifo[1]
    BY <1>0, <1>6, TakenType DEF TakeAnswer
  <2>3. (Pushed' = Pushed /\ caller'.image = caller.image) \/ Pushed' = 0
    <3>0. /\ caller.at = "pop" /\ caller.next \in 1..6 /\ Pushed = caller.next
          /\ caller = [at |-> caller.at, next |-> caller.next, image |-> caller.image]
      BY <1>6 DEF TakeAnswer, LaunchTypeOK, Pushed
    <3>1. CASE Head(fifo[0]) # CurrentWord
      <4>1. caller' = [caller EXCEPT !.at = "drain", !.next = 1]
        BY <1>6, <3>1 DEF TakeAnswer
      <4>2. caller'.at = "drain" /\ caller'.next = 1
        BY <3>0, <4>1
      <4>. QED
        BY <4>2 DEF Pushed
    <3>2. CASE Head(fifo[0]) = CurrentWord /\ caller.next = 6
      <4>1. caller' = [caller EXCEPT !.at = "done"]
        BY <1>6, <3>2 DEF TakeAnswer
      <4>2. caller'.at = "done" /\ caller'.next = caller.next /\ caller'.image = caller.image
        BY <3>0, <4>1
      <4>. QED
        BY <3>0, <4>2 DEF Pushed
    <3>3. CASE Head(fifo[0]) = CurrentWord /\ caller.next # 6
      <4>1. caller' = [caller EXCEPT !.next = @ + 1, !.at = Turn(caller.next + 1)]
        BY <1>6, <3>3 DEF TakeAnswer
      <4>2. /\ caller'.at \in {"drain", "push"} /\ caller'.next = caller.next + 1
            /\ caller'.image = caller.image
        BY <3>0, <4>1 DEF Turn
      <4>. QED
        BY <3>0, <4>2 DEF Pushed
    <3>. QED
      BY <3>1, <3>2, <3>3
  <2>. QED
    BY <2>1, <2>2, <2>3, StreamMoved
<1>7. CASE Push
  <2>1. /\ caller.at = "push" /\ Ready(Other(0)) /\ Sent(0, CurrentWord) /\ core1' = core1
        /\ caller' = [caller EXCEPT !.at = "pop"]
    BY <1>0, <1>7 DEF Push
  <2>2. /\ Pushed = caller.next - 1 /\ Pushed \in 0..5 /\ Pushed + 1 = caller.next
        /\ caller'.image = caller.image /\ Pushed' = caller.next
    BY <2>1 DEF Pushed, LaunchTypeOK
  <2>3. CurrentWord = Sequence(caller.image)[Pushed + 1] /\ caller.image \in Images
    BY <2>2 DEF CurrentWord, LaunchTypeOK
  <2>4. CurrentWord \in Word
    BY <2>2, <2>3, SequenceType
  <2>5. fifo'[1] = Append(fifo[1], CurrentWord)
    BY <1>0, <2>1, <2>4, SentType
  <2>6. Heard' = Heard /\ HeardInv'
    BY <2>1 DEF Heard, StreamInv, HeardInv
  <2>7. Heard \in Seq(Word) /\ fifo[1] \in Seq(Word) /\ Stream \in Seq(Word)
    BY StreamType, Joined DEF Stream
  <2>8. Stream' = Append(Stream, CurrentWord)
    BY <2>4, <2>5, <2>6, <2>7, JoinedAppend DEF Stream
  <2>9. WholeImages(Stream') /\ EndIsCurrent(Stream', Pushed + 1, caller.image)
    BY <2>2, <2>3, <2>7, <2>8, Extension DEF StreamInv
  <2>. QED
    BY <2>2, <2>6, <2>9 DEF StreamInv
<1>. QED
  BY <1>1, <1>2, <1>3, <1>4, <1>5, <1>6, <1>7 DEF LaunchCode

\* Every step of the launch keeps the stream of words in order.
LEMMA StreamStep == LaunchTypeOK /\ StreamInv /\ [LaunchNext]_launchVars => StreamInv'
<1> SUFFICES ASSUME LaunchTypeOK, StreamInv, [LaunchNext]_launchVars PROVE StreamInv'
  OBVIOUS
<1>1. CASE UNCHANGED launchVars
  BY <1>1 DEF launchVars, StreamInv, HeardInv, Heard, Stream, Pushed
<1>2. CASE ResetBoth
  <2>1. LaunchTypeOK' /\ core1' = AtReset /\ fifo' = [c \in Core |-> <<>>]
    BY <1>2, LaunchTypeReset DEF ResetBoth
  <2>2. core1'.at = "entry" /\ Heard' = <<>> /\ fifo'[1] = <<>>
    BY <2>1 DEF AtReset, Heard, Core
  <2>3. Stream' = <<>> /\ HeardInv'
    BY <2>2, JoinedEmpty, EmptyType DEF Stream, HeardInv
  <2>4. Pushed' \in 0..6 /\ caller'.image \in Images
    BY <2>1 DEF LaunchTypeOK, Pushed
  <2>. QED
    BY <2>3, <2>4, EmptyStream DEF StreamInv
<1>3. CASE RomOfCore1 \/ Core1Returns \/ ResetCore1
  BY <1>3, StreamCore1, StreamTaken DEF RomOfCore1
<1>4. CASE Call \/ LaunchCode \/ ResetCore0
  BY <1>4, StreamCore0
<1>. QED
  BY <1>1, <1>2, <1>3, <1>4 DEF LaunchNext

\* Core 1 starts at the end of four words that it has heard since a 1.
LEMMA StreamStarts == LaunchTypeOK /\ StreamInv => StartsWhole
<1> SUFFICES ASSUME LaunchTypeOK, StreamInv, core1.at \in {"launch", "running", "dead"}
             PROVE  \E i \in Images : core1.heard = Command(i)
  BY DEF StartsWhole
<1>1. Heard = core1.heard /\ Heard \in Seq(Word) /\ fifo[1] \in Seq(Word) /\ Len(Heard) = 4
  BY StreamType DEF Heard, StreamInv, HeardInv
<1>2. /\ \A k \in 1..4 : Stream[k] = Heard[k]
      /\ 1 \in 1..Len(Stream) /\ 4 \in 1..Len(Stream)
  <2>1. /\ Len(Stream) = Len(Heard) + Len(fifo[1]) /\ Len(fifo[1]) \in Nat
        /\ \A k \in 1..Len(Heard) : Stream[k] = Heard[k]
    BY <1>1, Joined DEF Stream
  <2>2. Len(Stream) = 4 + Len(fifo[1]) /\ \A k \in 1..4 : Stream[k] = Heard[k]
    BY <1>1, <2>1, Zenon
  <2>. QED
    BY <2>1, <2>2
<1>3. Heard # <<>>
  <2>1. 4 # 0
    OBVIOUS
  <2>. QED
    BY <1>1, <2>1, EmptyType, Zenon
<1>4. Open(Stream, 1, 4)
  <2>1. Open(Heard, 1, 4)
    BY <1>1, <1>3 DEF StreamInv, HeardInv
  <2>. QED
    BY <1>2, <2>1 DEF Open
<1>5. PICK i \in Images : Begins(Stream, 1, 4, i)
  BY <1>2, <1>4 DEF StreamInv, WholeImages
<1>6. \A k \in 1..4 : Heard[k] = Command(i)[k]
  BY <1>2, <1>5 DEF Begins
<1>7. Heard = Command(i)
  BY <1>1, <1>6, SequenceWords, SeqEqual
<1>. QED
  BY <1>1, <1>7

\* For any images, depth of the FIFOs, and number of calls and resets, core 1
\* starts nothing but VTOR, SP and PC of one call.
THEOREM StartsWholeCorrect == LaunchSafety => []StartsWhole
<1>1. LaunchInit => StreamInv
  BY StreamFresh, LaunchTypeInit DEF LaunchInit
<1>. QED
  BY <1>1, LaunchTypeInit, LaunchTypeStep, StreamStep, StreamStarts, PTL DEF LaunchSafety

(***************************************************************************)
(* The answers of core 1 to a call.  Core 0 only knows how many it took;   *)
(* that each was the answer to the word it had sent, and not to one sent   *)
(* before, is what the two zeros at the start of the sequence are for.  An *)
(* answer of 0 is sent after core 1 has drained its FIFO.  The first may   *)
(* be left from before the call.  The second was sent in the call, so      *)
(* nothing but the zeros of the call can still be in front of core 1.  If  *)
(* one is, another zero is answered, and core 0 sees that it was early; if *)
(* not, both are in step from there on, until core 1 is reset and sends a  *)
(* zero that core 0 takes for a wrong answer.                              *)
(***************************************************************************)
\* Core 1 has not heard anything, and only zeros are on their way to it.
Flushed ==
    /\ core1.at \in {"entry", "drain", "send", "full", "receive", "look"}
    /\ core1.at \notin {"entry", "drain"} => core1.heard = <<>>
    /\ core1.at \in {"send", "full"} => core1.word = 0
    /\ \A k \in 1..Len(fifo[1]) : fifo[1][k] = 0

Owes == core1.at \in {"send", "full"}

\* A zero among the answers from the k-th on was sent after core 1 had drained
\* its FIFO in this call.
ZeroMeansFlushed(k) ==
    /\ \A j \in k..Len(fifo[0]) : fifo[0][j] = 0 =>
         Flushed /\ \A i \in j..Len(fifo[0]) : fifo[0][i] = 0
    /\ Owes /\ core1.word = 0 /\ Len(fifo[0]) + 1 >= k => Flushed

\* The next answer that core 0 will find is a zero.
ZeroNext ==
    \/ fifo[0] # <<>> /\ Head(fifo[0]) = 0
    \/ /\ fifo[0] = <<>>
       /\ \/ core1.at \in {"entry", "drain"}
          \/ Owes /\ core1.word = 0
          \/ core1.at \in {"receive", "look"} /\ Valid(1) /\ Head(fifo[1]) = 0

\* Core 1 has heard the first n words of the command for image i.
HasHeard(i, n) ==
    /\ Len(core1.heard) = n
    /\ \A k \in 1..n : core1.heard[k] = Command(i)[k]

AwaitsWord == core1.at \in {"receive", "look"}
Popping == caller.at \in {"pop", "sleep"}

\* Core 0 has sent the first n words of the command, and core 1 follows it.
InStep(i, n) ==
    \/ /\ caller.at = "push" /\ n < 4
       /\ fifo[0] = <<>> /\ fifo[1] = <<>>
       /\ AwaitsWord /\ HasHeard(i, n)
    \/ /\ Popping /\ n > 0
       /\ fifo[0] = <<>> /\ fifo[1] = <<Command(i)[n]>>
       /\ AwaitsWord /\ HasHeard(i, n - 1)
    \/ /\ Popping /\ n > 0
       /\ fifo[0] = <<>> /\ fifo[1] = <<>>
       /\ Owes /\ HasHeard(i, n) /\ core1.word = Command(i)[n]
    \/ /\ Popping /\ n > 0
       /\ fifo[0] = <<Command(i)[n]>> /\ fifo[1] = <<>>
       /\ IF n = 4 THEN core1.at \in {"launch", "running", "dead"} /\ i \in answered
          ELSE AwaitsWord /\ HasHeard(i, n)

\* Core 1 was reset after its answer.
Idles ==
    /\ fifo[1] = <<>>
    /\ core1.at \notin {"launch", "running", "dead"}
    /\ core1.at \notin {"entry", "drain"} => core1.heard = <<>>
    /\ Owes => core1.word = 0

Overtaken(i, n) ==
    /\ Popping /\ n > 0 /\ Idles
    /\ fifo[0] # <<>> /\ Head(fifo[0]) = Command(i)[n]
    /\ IF Len(fifo[0]) = 1 THEN ~AwaitsWord ELSE fifo[0][2] = 0
    /\ n = 4 => i \in answered

CallInv ==
    /\ caller.next = 1 /\ caller.at \in {"push", "pop", "sleep"} => ZeroMeansFlushed(2)
    /\ caller.next = 2 => ZeroMeansFlushed(1)
    /\ caller.next > 2 /\ caller.at # "done" =>
         /\ caller.at # "drain"
         /\ \/ InStep(caller.image, Pushed - 2)
            \/ ZeroNext
            \/ Overtaken(caller.image, Pushed - 2)
    /\ caller.at = "done" =>
         /\ caller.image \in answered
         /\ fifo[1] = <<>>
         /\ Owes => core1.heard = <<>>
    /\ caller.at = "idle" => caller.next = 1

\* The words of the command are the last four of the sequence, and none is 0.
LEMMA CommandWords ==
    ASSUME NEW i \in Images
    PROVE  /\ \A n \in 1..4 : Command(i)[n] = Sequence(i)[n + 2] /\ Command(i)[n] # 0
                              /\ Command(i)[n] \in Word
           /\ \A n \in 2..4 : Command(i)[n] # 1
           /\ Command(i)[1] = 1
           /\ Sequence(i)[1] = 0 /\ Sequence(i)[2] = 0
  <1>1. i.vtor \in Nat \ {0, 1} /\ i.sp \in Nat \ {0, 1} /\ i.pc \in Nat \ {0, 1}
    BY LaunchAssumption
  <1>2. i.vtor \in Word /\ i.sp \in Word /\ i.pc \in Word /\ 1 \in Word
    BY DEF Word
  <1>. QED
    BY <1>1, <1>2 DEF Command, Sequence

\* Core 1 goes back to its first loop.
LEMMA ClearMoves ==
    ASSUME LaunchTypeOK,
           EnterRom \/ Drain \/ ResetCore1 \/ (Receive /\ Restarts(Head(fifo[1])))
    PROVE  /\ core1'.at \in {"entry", "drain"}
           /\ fifo'[0] = fifo[0] /\ caller' = caller /\ answered' = answered
           /\ fifo'[1] = fifo[1] \/ (Valid(1) /\ fifo'[1] = Tail(fifo[1]))
           /\ \/ core1.at \in {"entry", "drain"}
              \/ fifo'[1] = fifo[1]
              \/ core1.at = "look" /\ Valid(1) /\ Restarts(Head(fifo[1]))
  <1>0. 1 \in Core /\ 0 \in Core \ {1}
    BY DEF Core
  <1>1. CASE EnterRom
    BY <1>0, <1>1, TakenType DEF EnterRom, LaunchTypeOK
  <1>2. CASE Drain
    BY <1>0, <1>2, TakenType DEF Drain
  <1>3. CASE ResetCore1
    BY <1>3 DEF ResetCore1, AtReset
  <1>4. CASE Receive /\ Restarts(Head(fifo[1]))
    <2>1. core1' = [core1 EXCEPT !.at = "drain"]
      BY <1>4 DEF Receive
    <2>2. core1'.at = "drain"
      BY <2>1 DEF LaunchTypeOK
    <2>. QED
      BY <1>0, <1>4, <2>2, TakenType DEF Receive
  <1>. QED
    BY <1>1, <1>2, <1>3, <1>4

\* Core 1 sends.
LEMMA SendMoves ==
    ASSUME LaunchTypeOK, Send
    PROVE  /\ core1.at = "send" /\ core1'.heard = core1.heard /\ core1'.word = core1.word
           /\ core1'.at = IF Len(core1.heard) = 4 THEN "launch" ELSE "receive"
           /\ fifo'[0] = Append(fifo[0], core1.word) /\ fifo'[1] = fifo[1]
           /\ caller' = caller
           /\ answered' = IF Len(core1.heard) = 4 THEN {i \in Images : Command(i) = core1.heard}
                                                  ELSE answered
  <1>1. 1 \in Core /\ Other(1) = 0 /\ core1.word \in Word
    BY DEF Core, Other, LaunchTypeOK
  <1>2. fifo'[0] = Append(fifo[0], core1.word) /\ fifo'[1] = fifo[1]
    BY <1>1, SentType DEF Send
  <1>3. core1' = [core1 EXCEPT !.at = IF LastEcho THEN "launch" ELSE "receive"]
    BY DEF Send
  <1>4. /\ core1'.heard = core1.heard /\ core1'.word = core1.word
        /\ core1'.at = IF LastEcho THEN "launch" ELSE "receive"
    BY <1>3 DEF LaunchTypeOK
  <1>. QED
    BY <1>2, <1>4 DEF Send, LastEcho

\* Core 1 takes a word of the command.
LEMMA HearMoves ==
    ASSUME LaunchTypeOK, Receive, ~Restarts(Head(fifo[1]))
    PROVE  /\ core1.at = "look" /\ Valid(1)
           /\ core1' = [at |-> "send", heard |-> Append(core1.heard, Head(fifo[1])),
                        word |-> Head(fifo[1])]
           /\ fifo'[0] = fifo[0] /\ fifo'[1] = Tail(fifo[1])
           /\ caller' = caller /\ answered' = answered
  <1>0. 1 \in Core /\ 0 \in Core \ {1}
    BY DEF Core
  <1>. QED
    BY <1>0, TakenType DEF Receive

\* Core 1 has drained its FIFO, and is to send a zero.
LEMMA DrainedMoves ==
    ASSUME Drained
    PROVE  /\ core1.at = "drain" /\ fifo[1] = <<>> /\ fifo' = fifo
           /\ core1'.at = "send" /\ core1'.heard = <<>> /\ core1'.word = 0
           /\ caller' = caller /\ answered' = answered
  BY DEF Drained, Valid

\* The steps of core 1 that no word depends on.
LEMMA SameMoves ==
    ASSUME LaunchTypeOK, FindFull \/ Wake \/ FindNothing \/ Launch \/ Core1Returns
    PROVE  /\ core1'.heard = core1.heard /\ core1'.word = core1.word
           /\ fifo' = fifo /\ caller' = caller /\ answered' = answered
           /\ \E K \in {{"send", "full"}, {"receive", "look"}, {"launch", "running", "dead"}} :
                core1.at \in K /\ core1'.at \in K
  <1>1. CASE FindFull
    BY <1>1 DEF FindFull, LaunchTypeOK
  <1>2. CASE Wake
    <2>1. core1' = [core1 EXCEPT !.at = IF @ = "full" THEN "send" ELSE "look"]
      BY <1>2 DEF Wake
    <2>. QED
      BY <1>2, <2>1 DEF Wake, LaunchTypeOK
  <1>3. CASE FindNothing
    BY <1>3 DEF FindNothing, LaunchTypeOK
  <1>4. CASE Launch
    BY <1>4 DEF Launch, LaunchTypeOK
  <1>5. CASE Core1Returns
    BY <1>5 DEF Core1Returns, LaunchTypeOK
  <1>. QED
    BY <1>1, <1>2, <1>3, <1>4, <1>5

\* What the FIFOs hold, one word more or one word less.
LEMMA FifoWords ==
    ASSUME NEW s \in Seq(Word)
    PROVE  /\ Len(s) \in Nat
           /\ s = <<>> <=> Len(s) = 0
           /\ s # <<>> => /\ Head(s) = s[1] /\ Head(s) \in Word
                          /\ Tail(s) \in Seq(Word) /\ Len(Tail(s)) = Len(s) - 1
                          /\ \A k \in 1..(Len(s) - 1) : Tail(s)[k] = s[k + 1]
           /\ \A w \in Word : /\ Append(s, w) \in Seq(Word)
                              /\ Len(Append(s, w)) = Len(s) + 1
                              /\ \A k \in 1..Len(s) : Append(s, w)[k] = s[k]
                              /\ Append(s, w)[Len(s) + 1] = w
  <1>1. Len(s) \in Nat /\ (s = <<>> <=> Len(s) = 0)
    BY EmptySeq, LenProperties
  <1>2. ASSUME s # <<>>
        PROVE  /\ Head(s) = s[1] /\ Head(s) \in Word
               /\ Tail(s) \in Seq(Word) /\ Len(Tail(s)) = Len(s) - 1
               /\ \A k \in 1..(Len(s) - 1) : Tail(s)[k] = s[k + 1]
    BY <1>2, HeadTailProperties
  <1>3. ASSUME NEW w \in Word
        PROVE  /\ Append(s, w) \in Seq(Word)
               /\ Len(Append(s, w)) = Len(s) + 1
               /\ \A k \in 1..Len(s) : Append(s, w)[k] = s[k]
               /\ Append(s, w)[Len(s) + 1] = w
    BY <1>3, AppendProperties
  <1>. QED
    BY <1>1, <1>2, <1>3

\* Each FIFO is a sequence of words.
LEMMA FifosAre == LaunchTypeOK => /\ fifo[0] \in Seq(Word) /\ fifo[1] \in Seq(Word)
                                  /\ core1.heard \in Seq(Word) /\ core1.word \in Word
  BY DEF LaunchTypeOK, Core

\* A FIFO of zeros is one when a word is taken.
LEMMA ZerosTaken ==
    ASSUME NEW s \in Seq(Word), NEW t, \A k \in 1..Len(s) : s[k] = 0,
           t = s \/ (s # <<>> /\ t = Tail(s))
    PROVE  \A k \in 1..Len(t) : t[k] = 0
  <1>1. CASE s # <<>> /\ t = Tail(s)
    <2>1. /\ Len(s) \in Nat /\ Len(t) = Len(s) - 1
          /\ \A k \in 1..(Len(s) - 1) : t[k] = s[k + 1]
      BY <1>1, FifoWords
    <2>2. ASSUME NEW k \in 1..Len(t) PROVE t[k] = 0
      <3>1. k \in 1..(Len(s) - 1) /\ k + 1 \in 1..Len(s)
        BY <2>1
      <3>. QED
        BY <2>1, <3>1
    <2>. QED
      BY <2>2
  <1>. QED
    BY <1>1

\* Core 1 stays flushed until it hears a 1.
LEMMA FlushedCore1 ==
    ASSUME LaunchTypeOK, Flushed, RomOfCore1 \/ Core1Returns \/ ResetCore1
    PROVE  /\ Flushed'
           /\ \/ fifo'[0] = fifo[0]
              \/ Send /\ core1.word = 0 /\ fifo'[0] = Append(fifo[0], 0)
<1>0. fifo[1] \in Seq(Word)
  BY FifosAre
<1>1. CASE EnterRom \/ Drain \/ ResetCore1 \/ (Receive /\ Restarts(Head(fifo[1])))
  <2>1. /\ core1'.at \in {"entry", "drain"} /\ fifo'[0] = fifo[0]
        /\ fifo'[1] = fifo[1] \/ (fifo[1] # <<>> /\ fifo'[1] = Tail(fifo[1]))
    BY <1>1, ClearMoves DEF Valid
  <2>2. \A k \in 1..Len(fifo'[1]) : fifo'[1][k] = 0
    BY <1>0, <2>1, ZerosTaken DEF Flushed
  <2>. QED
    BY <2>1, <2>2 DEF Flushed
<1>2. CASE Send
  <2>0. core1.at = "send" /\ 0 # 4
    BY <1>2 DEF Send
  <2>1. core1.word = 0 /\ core1.heard = <<>> /\ Len(core1.heard) # 4
    BY <2>0, EmptyType DEF Flushed
  <2>. QED
    BY <1>2, <2>1, SendMoves DEF Flushed
<1>3. CASE Receive /\ ~Restarts(Head(fifo[1]))
  <2>1. fifo[1] # <<>> /\ Head(fifo[1]) # 0
    BY <1>3 DEF Receive, Valid, Restarts
  <2>2. Head(fifo[1]) = fifo[1][1] /\ 1 \in 1..Len(fifo[1])
    BY <1>0, <2>1, FifoWords
  <2>. QED
    BY <2>1, <2>2 DEF Flushed
<1>4. CASE Drained
  <2>1. \A k \in 1..Len(fifo'[1]) : fifo'[1][k] = 0
    BY <1>4, DrainedMoves, EmptyType
  <2>. QED
    BY <1>4, <2>1, DrainedMoves DEF Flushed
<1>5. CASE FindFull \/ Wake \/ FindNothing \/ Launch \/ Core1Returns
  BY <1>5, SameMoves DEF Flushed
<1>. QED
  BY <1>1, <1>2, <1>3, <1>4, <1>5 DEF RomOfCore1

\* What the answers say of core 1 stays true when it moves.
LEMMA ZerosCore1 ==
    ASSUME LaunchTypeOK, NEW k \in {1, 2}, ZeroMeansFlushed(k),
           RomOfCore1 \/ Core1Returns \/ ResetCore1
    PROVE  ZeroMeansFlushed(k)'
<1> DEFINE f == fifo[0]
<1>0. f \in Seq(Word) /\ Len(f) \in Nat /\ core1.word \in Word
  BY FifosAre, FifoWords
<1>1. CASE Flushed
  <2>1. Flushed' /\ (fifo'[0] = f \/ fifo'[0] = Append(f, 0))
    BY <1>1, FlushedCore1
  <2>2. ASSUME NEW j \in k..Len(fifo'[0]), fifo'[0][j] = 0,
               NEW i \in j..Len(fifo'[0])
        PROVE  fifo'[0][i] = 0
    <3>1. CASE fifo'[0] = f
      BY <1>0, <2>2, <3>1 DEF ZeroMeansFlushed
    <3>2. CASE fifo'[0] = Append(f, 0)
      <4>1. /\ Len(fifo'[0]) = Len(f) + 1
            /\ \A n \in 1..Len(f) : fifo'[0][n] = f[n]
            /\ fifo'[0][Len(f) + 1] = 0
        BY <1>0, <3>2, FifoWords, EmptyType
      <4>2. CASE i = Len(f) + 1
        BY <4>1, <4>2
      <4>3. CASE i # Len(f) + 1
        <5>1. /\ j \in k..Len(f) /\ i \in j..Len(f)
              /\ j \in 1..Len(f) /\ i \in 1..Len(f)
          BY <1>0, <4>1, <4>3
        <5>. QED
          BY <2>2, <4>1, <5>1 DEF ZeroMeansFlushed
      <4>. QED
        BY <4>2, <4>3
    <3>. QED
      BY <2>1, <3>1, <3>2
  <2>. QED
    BY <2>1, <2>2 DEF ZeroMeansFlushed
<1>2. CASE ~Flushed
  <2>1. /\ \A j \in k..Len(f) : f[j] # 0
        /\ Owes /\ Len(f) + 1 >= k => core1.word # 0
    BY <1>2 DEF ZeroMeansFlushed
  <2>2. CASE Drained
    <3>1. Flushed'
      BY <2>2, DrainedMoves, EmptyType DEF Flushed
    <3>2. fifo'[0] = f
      BY <2>2, DrainedMoves
    <3>. QED
      BY <2>1, <3>1, <3>2 DEF ZeroMeansFlushed
  <2>3. CASE EnterRom \/ Drain \/ ResetCore1 \/ (Receive /\ Restarts(Head(fifo[1])))
    <3>1. core1'.at \in {"entry", "drain"} /\ fifo'[0] = f
      BY <2>3, ClearMoves
    <3>. QED
      BY <2>1, <3>1 DEF ZeroMeansFlushed, Owes
  <2>4. CASE Receive /\ ~Restarts(Head(fifo[1]))
    <3>1. core1'.word # 0 /\ fifo'[0] = f
      BY <2>4, HearMoves DEF Restarts
    <3>. QED
      BY <2>1, <3>1 DEF ZeroMeansFlushed
  <2>5. CASE FindFull \/ Wake \/ FindNothing \/ Launch \/ Core1Returns
    <3>1. fifo'[0] = f /\ core1'.word = core1.word /\ (Owes' <=> Owes)
      BY <2>5, SameMoves DEF Owes
    <3>. QED
      BY <2>1, <3>1 DEF ZeroMeansFlushed
  <2>6. CASE Send
    <3>1. /\ fifo'[0] = Append(f, core1.word) /\ Owes /\ ~Owes'
      BY <2>6, SendMoves DEF Owes
    <3>2. /\ Len(fifo'[0]) = Len(f) + 1
          /\ \A n \in 1..Len(f) : fifo'[0][n] = f[n]
          /\ fifo'[0][Len(f) + 1] = core1.word
      BY <1>0, <3>1, FifoWords
    <3>3. ASSUME NEW j \in k..Len(fifo'[0]) PROVE fifo'[0][j] # 0
      <4>1. CASE j = Len(f) + 1
        BY <1>0, <2>1, <3>1, <3>2, <4>1
      <4>2. CASE j # Len(f) + 1
        <5>1. j \in 1..Len(f) /\ j \in k..Len(f)
          BY <1>0, <3>2, <4>2
        <5>. QED
          BY <2>1, <3>2, <5>1
      <4>. QED
        BY <4>1, <4>2
    <3>. QED
      BY <3>1, <3>3 DEF ZeroMeansFlushed
  <2>. QED
    BY <2>2, <2>3, <2>4, <2>5, <2>6 DEF RomOfCore1
<1>. QED
  BY <1>1, <1>2

\* A zero that is next for core 0 stays next.
LEMMA ZeroNextCore1 ==
    ASSUME LaunchTypeOK, ZeroNext, RomOfCore1 \/ Core1Returns \/ ResetCore1
    PROVE  ZeroNext'
<1> DEFINE f == fifo[0]
<1>0. f \in Seq(Word) /\ Len(f) \in Nat /\ core1.word \in Word /\ fifo[1] \in Seq(Word)
  BY FifosAre, FifoWords
<1>1. CASE f # <<>> /\ Head(f) = 0
  <2>1. fifo'[0] = f \/ fifo'[0] = Append(f, core1.word)
    BY ClearMoves, SendMoves, HearMoves, DrainedMoves, SameMoves DEF RomOfCore1
  <2>2. CASE fifo'[0] = Append(f, core1.word)
    <3>1. /\ Append(f, core1.word) \in Seq(Word) /\ Len(Append(f, core1.word)) = Len(f) + 1
          /\ \A k \in 1..Len(f) : Append(f, core1.word)[k] = f[k]
          /\ Len(f) # 0 /\ Head(f) = f[1]
      BY <1>0, <1>1, FifoWords
    <3>2. fifo'[0] # <<>> /\ Head(fifo'[0]) = fifo'[0][1]
      <4>1. Len(Append(f, core1.word)) # 0
        BY <1>0, <3>1
      <4>. QED
        BY <2>2, <3>1, <4>1, FifoWords
    <3>. QED
      BY <1>0, <1>1, <2>2, <3>1, <3>2 DEF ZeroNext
  <2>. QED
    BY <1>1, <2>1, <2>2 DEF ZeroNext
<1>2. CASE f = <<>>
  <2>0. \/ core1.at \in {"entry", "drain"}
        \/ Owes /\ core1.word = 0
        \/ core1.at \in {"receive", "look"} /\ Valid(1) /\ Head(fifo[1]) = 0
    BY <1>2 DEF ZeroNext
  <2>1. CASE EnterRom \/ Drain \/ ResetCore1 \/ (Receive /\ Restarts(Head(fifo[1])))
    BY <1>2, <2>1, ClearMoves DEF ZeroNext
  <2>2. CASE Drained
    BY <1>2, <2>2, DrainedMoves DEF ZeroNext, Owes
  <2>3. CASE Send
    <3>1. core1.word = 0 /\ fifo'[0] = Append(f, 0)
      BY <2>0, <2>3, SendMoves DEF Owes
    <3>2. Append(<<>>, 0) # <<>> /\ Head(Append(<<>>, 0)) = 0
      OBVIOUS
    <3>. QED
      BY <1>2, <3>1, <3>2 DEF ZeroNext
  <2>4. CASE Receive /\ ~Restarts(Head(fifo[1]))
    BY <2>0, <2>4, HearMoves DEF Owes, Restarts
  <2>5. CASE FindFull \/ Wake \/ FindNothing \/ Launch \/ Core1Returns
    BY <1>2, <2>0, <2>5, SameMoves DEF ZeroNext, Owes, Valid
  <2>. QED
    BY <2>1, <2>2, <2>3, <2>4, <2>5 DEF RomOfCore1
<1>. QED
  BY <1>1, <1>2 DEF ZeroNext

\* A FIFO of one word.
LEMMA OneWord ==
    ASSUME NEW w \in Word
    PROVE  /\ <<w>> \in Seq(Word) /\ Len(<<w>>) = 1 /\ <<w>> # <<>>
           /\ Head(<<w>>) = w /\ Tail(<<w>>) = <<>>
           /\ Append(<<>>, w) = <<w>> /\ <<w>>[1] = w
  OBVIOUS

\* The places of a sequence that is not empty, and of its tail.
LEMMA TwoOrMore ==
    ASSUME NEW n \in Nat, n # 0
    PROVE  /\ 1 \in 1..n /\ (n - 1 = 0 <=> n = 1)
           /\ n # 1 => 2 \in 1..n /\ 1 \in 1..(n - 1) /\ 1 + 1 = 2
  OBVIOUS

\* The second word is the first when that was taken.
LEMMA SecondWord ==
    ASSUME NEW s \in Seq(Word), s # <<>>
    PROVE  /\ 1 \in 1..Len(s) /\ (Tail(s) = <<>> <=> Len(s) = 1)
           /\ Tail(s) # <<>> => 2 \in 1..Len(s) /\ Head(Tail(s)) = s[2]
  <1>1. /\ Len(s) \in Nat /\ Len(s) # 0 /\ Tail(s) \in Seq(Word) /\ Len(Tail(s)) = Len(s) - 1
        /\ \A k \in 1..(Len(s) - 1) : Tail(s)[k] = s[k + 1]
    BY FifoWords
  <1>2. /\ 1 \in 1..Len(s) /\ (Len(s) - 1 = 0 <=> Len(s) = 1)
        /\ Len(s) # 1 => 2 \in 1..Len(s) /\ 1 \in 1..(Len(s) - 1) /\ 1 + 1 = 2
    BY <1>1, TwoOrMore, Zenon
  <1>3. Tail(s) = <<>> <=> Len(Tail(s)) = 0
    BY <1>1, FifoWords
  <1>4. Tail(s) = <<>> <=> Len(s) = 1
    BY <1>1, <1>2, <1>3, Zenon
  <1>5. ASSUME Tail(s) # <<>> PROVE 2 \in 1..Len(s) /\ Head(Tail(s)) = s[2]
    <2>1. 2 \in 1..Len(s) /\ 1 \in 1..(Len(s) - 1) /\ 1 + 1 = 2
      BY <1>2, <1>4, <1>5, Zenon
    <2>2. Head(Tail(s)) = Tail(s)[1]
      BY <1>1, <1>5, FifoWords
    <2>3. Tail(s)[1] = s[1 + 1]
      BY <1>1, <2>1, Zenon
    <2>. QED
      BY <2>1, <2>2, <2>3, Zenon
  <1>. QED
    BY <1>2, <1>4, <1>5

\* Core 1 hears the next word of the command.
LEMMA HeardMore ==
    ASSUME LaunchTypeOK, NEW i \in Images, NEW n \in 1..4, HasHeard(i, n - 1),
           core1'.heard = Append(core1.heard, Command(i)[n])
    PROVE  HasHeard(i, n)'
  <1>1. /\ core1.heard \in Seq(Word) /\ Command(i)[n] \in Word
        /\ Len(core1.heard) = n - 1
    BY FifosAre, CommandWords DEF HasHeard
  <1>2. /\ Len(core1'.heard) = n
        /\ \A k \in 1..(n - 1) : core1'.heard[k] = core1.heard[k]
        /\ core1'.heard[n] = Command(i)[n]
    BY <1>1, FifoWords
  <1>3. ASSUME NEW k \in 1..n PROVE core1'.heard[k] = Command(i)[k]
    <2>1. CASE k = n
      BY <1>2, <2>1
    <2>2. CASE k # n
      <3>1. k \in 1..(n - 1)
        BY <2>2
      <3>. QED
        BY <1>2, <3>1 DEF HasHeard
    <2>. QED
      BY <2>1, <2>2
  <1>. QED
    BY <1>2, <1>3 DEF HasHeard

\* Who has heard four words of the command has heard it.
LEMMA HeardAll ==
    ASSUME LaunchTypeOK, NEW i \in Images, HasHeard(i, 4)
    PROVE  core1.heard = Command(i)
  <1>1. core1.heard \in Seq(Word) /\ Len(core1.heard) = 4
    BY FifosAre DEF HasHeard
  <1>2. Command(i) \in Seq(Word) /\ Len(Command(i)) = 4
    BY SequenceWords
  <1>. QED
    BY <1>1, <1>2, SeqEqual DEF HasHeard

\* While both cores are in step, a move of core 1 is the one core 0 waits for,
\* or a reset.
LEMMA InStepCore1 ==
    ASSUME LaunchTypeOK, NEW i \in Images, NEW n \in 0..4, InStep(i, n),
           RomOfCore1 \/ Core1Returns \/ ResetCore1
    PROVE  InStep(i, n)' \/ ZeroNext' \/ Overtaken(i, n)'
<1>0. ASSUME n > 0
      PROVE  /\ n \in 1..4 /\ Command(i)[n] \in Word /\ Command(i)[n] # 0
             /\ (n > 1 => Command(i)[n] # 1) /\ (n = 1 => Command(i)[n] = 1)
  <2>1. n \in 1..4 /\ (n > 1 => n \in 2..4)
    BY <1>0
  <2>. QED
    BY <2>1, CommandWords
<1>1. CASE /\ caller.at = "push" /\ n < 4
           /\ fifo[0] = <<>> /\ fifo[1] = <<>>
           /\ AwaitsWord /\ HasHeard(i, n)
  <2>1. CASE EnterRom \/ Drain \/ ResetCore1 \/ (Receive /\ Restarts(Head(fifo[1])))
    BY <1>1, <2>1, ClearMoves DEF ZeroNext
  <2>2. CASE FindFull \/ Wake \/ FindNothing \/ Launch \/ Core1Returns
    BY <1>1, <2>2, SameMoves DEF InStep, AwaitsWord, HasHeard
  <2>3. CASE Send \/ Drained \/ (Receive /\ ~Restarts(Head(fifo[1])))
    BY <1>1, <2>3 DEF Send, Drained, Receive, AwaitsWord, Valid
  <2>. QED
    BY <2>1, <2>2, <2>3 DEF RomOfCore1
<1>2. CASE /\ Popping /\ n > 0
           /\ fifo[0] = <<>> /\ fifo[1] = <<Command(i)[n]>>
           /\ AwaitsWord /\ HasHeard(i, n - 1)
  <2> DEFINE w == Command(i)[n]
  <2>0. /\ w \in Word /\ w # 0 /\ (n > 1 => w # 1) /\ (n = 1 => w = 1)
        /\ Head(fifo[1]) = w /\ Tail(fifo[1]) = <<>>
    BY <1>0, <1>2, OneWord
  <2>1. ~Restarts(Head(fifo[1]))
    <3>1. n = 1 \/ core1.heard # <<>>
      BY <1>2, EmptyType DEF HasHeard
    <3>. QED
      BY <1>2, <2>0, <3>1 DEF Restarts
  <2>2. CASE EnterRom \/ Drain \/ ResetCore1
    BY <1>2, <2>2, ClearMoves DEF ZeroNext
  <2>3. CASE FindFull \/ Wake \/ FindNothing \/ Launch \/ Core1Returns
    BY <1>2, <2>3, SameMoves DEF InStep, AwaitsWord, HasHeard, Popping
  <2>4. CASE Send \/ Drained
    BY <1>2, <2>4 DEF Send, Drained, AwaitsWord
  <2>5. CASE Receive
    <3>1. /\ core1' = [at |-> "send", heard |-> Append(core1.heard, w), word |-> w]
          /\ fifo'[0] = <<>> /\ fifo'[1] = <<>> /\ caller' = caller
      BY <1>2, <2>0, <2>1, <2>5, HearMoves
    <3>2. HasHeard(i, n)'
      BY <1>0, <1>2, <3>1, HeardMore
    <3>. QED
      BY <1>2, <3>1, <3>2 DEF InStep, Popping, Owes
  <2>. QED
    BY <2>2, <2>3, <2>4, <2>5 DEF RomOfCore1
<1>3. CASE /\ Popping /\ n > 0
           /\ fifo[0] = <<>> /\ fifo[1] = <<>>
           /\ Owes /\ HasHeard(i, n) /\ core1.word = Command(i)[n]
  <2>1. CASE EnterRom \/ Drain \/ ResetCore1 \/ (Receive /\ Restarts(Head(fifo[1])))
    BY <1>3, <2>1, ClearMoves DEF ZeroNext
  <2>2. CASE FindFull \/ Wake \/ FindNothing \/ Launch \/ Core1Returns
    BY <1>3, <2>2, SameMoves DEF InStep, Owes, HasHeard, Popping
  <2>3. CASE Drained \/ (Receive /\ ~Restarts(Head(fifo[1])))
    BY <1>3, <2>3 DEF Drained, Receive, Owes
  <2>4. CASE Send
    <3>1. /\ fifo'[0] = <<Command(i)[n]>> /\ fifo'[1] = <<>> /\ caller' = caller
          /\ core1'.heard = core1.heard /\ Len(core1.heard) = n
          /\ core1'.at = IF n = 4 THEN "launch" ELSE "receive"
      BY <1>0, <1>3, <2>4, SendMoves, OneWord DEF HasHeard
    <3>2. n = 4 => i \in answered'
      <4>1. n = 4 => core1.heard = Command(i)
        BY <1>3, HeardAll
      <4>. QED
        BY <2>4, <3>1, <4>1, SendMoves
    <3>. QED
      BY <1>3, <3>1, <3>2 DEF InStep, Popping, AwaitsWord, HasHeard
  <2>. QED
    BY <2>1, <2>2, <2>3, <2>4 DEF RomOfCore1
<1>4. CASE /\ Popping /\ n > 0
           /\ fifo[0] = <<Command(i)[n]>> /\ fifo[1] = <<>>
           /\ IF n = 4 THEN core1.at \in {"launch", "running", "dead"} /\ i \in answered
              ELSE AwaitsWord /\ HasHeard(i, n)
  <2>1. CASE EnterRom \/ Drain \/ ResetCore1 \/ (Receive /\ Restarts(Head(fifo[1])))
    <3>1. /\ core1'.at \in {"entry", "drain"} /\ fifo'[0] = fifo[0] /\ fifo'[1] = <<>>
          /\ caller' = caller /\ answered' = answered
      BY <1>4, <2>1, ClearMoves DEF Valid
    <3>2. Len(fifo'[0]) = 1 /\ fifo'[0] # <<>> /\ Head(fifo'[0]) = Command(i)[n]
      BY <1>0, <1>4, <3>1, OneWord
    <3>. QED
      BY <1>4, <3>1, <3>2 DEF Overtaken, Idles, Owes, AwaitsWord, Popping
  <2>2. CASE FindFull \/ Wake \/ FindNothing \/ Launch \/ Core1Returns
    BY <1>4, <2>2, SameMoves DEF InStep, AwaitsWord, HasHeard, Popping
  <2>3. CASE Send \/ Drained \/ (Receive /\ ~Restarts(Head(fifo[1])))
    BY <1>4, <2>3 DEF Send, Drained, Receive, AwaitsWord, Valid
  <2>. QED
    BY <2>1, <2>2, <2>3 DEF RomOfCore1
<1>. QED
  BY <1>1, <1>2, <1>3, <1>4 DEF InStep

\* A core 1 that idles goes on so.
LEMMA IdlesCore1 ==
    ASSUME LaunchTypeOK, Idles, RomOfCore1 \/ Core1Returns \/ ResetCore1
    PROVE  /\ Idles' /\ answered' = answered /\ caller' = caller
           /\ \/ fifo'[0] = fifo[0] /\ (AwaitsWord' => AwaitsWord)
              \/ fifo'[0] = Append(fifo[0], 0)
<1>1. CASE EnterRom \/ Drain \/ ResetCore1 \/ (Receive /\ Restarts(Head(fifo[1])))
  BY <1>1, ClearMoves DEF Idles, Owes, AwaitsWord, Valid
<1>2. CASE Drained
  BY <1>2, DrainedMoves DEF Idles, Owes, AwaitsWord
<1>3. CASE Send
  <2>0. core1.at = "send" /\ 0 # 4
    BY <1>3 DEF Send
  <2>1. core1.word = 0 /\ core1.heard = <<>> /\ Len(core1.heard) # 4
    BY <2>0, EmptyType DEF Idles, Owes
  <2>. QED
    BY <1>3, <2>1, SendMoves DEF Idles, Owes
<1>4. CASE Receive /\ ~Restarts(Head(fifo[1]))
  BY <1>4 DEF Receive, Idles, Valid
<1>5. CASE FindFull \/ Wake \/ FindNothing \/ Launch \/ Core1Returns
  BY <1>5, SameMoves DEF Idles, Owes, AwaitsWord
<1>. QED
  BY <1>1, <1>2, <1>3, <1>4, <1>5 DEF RomOfCore1

\* The steps of core 1 leave a call overtaken that has been.
LEMMA OvertakenCore1 ==
    ASSUME LaunchTypeOK, NEW i \in Images, NEW n \in 0..4, Overtaken(i, n),
           RomOfCore1 \/ Core1Returns \/ ResetCore1
    PROVE  Overtaken(i, n)'
<1> DEFINE f == fifo[0]
<1>0. f \in Seq(Word) /\ Len(f) \in Nat /\ Len(f) # 0
  BY FifosAre, FifoWords DEF Overtaken
<1>1. /\ Idles' /\ answered' = answered /\ caller' = caller
      /\ (fifo'[0] = f /\ (AwaitsWord' => AwaitsWord)) \/ fifo'[0] = Append(f, 0)
  BY IdlesCore1 DEF Overtaken
<1>2. CASE fifo'[0] = f /\ (AwaitsWord' => AwaitsWord)
  BY <1>1, <1>2 DEF Overtaken, Popping
<1>3. CASE fifo'[0] = Append(f, 0)
  <2>1. /\ fifo'[0] \in Seq(Word) /\ Len(fifo'[0]) = Len(f) + 1
        /\ \A k \in 1..Len(f) : fifo'[0][k] = f[k]
        /\ fifo'[0][Len(f) + 1] = 0
    BY <1>0, <1>3, FifoWords, EmptyType
  <2>2. Len(fifo'[0]) # 0 /\ Len(fifo'[0]) # 1
    BY <1>0, <2>1
  <2>3. fifo'[0] # <<>> /\ Head(fifo'[0]) = Head(f)
    <3>1. fifo'[0] # <<>> /\ Head(fifo'[0]) = fifo'[0][1] /\ Head(f) = f[1]
      BY <1>0, <2>1, <2>2, FifoWords
    <3>2. 1 \in 1..Len(f)
      BY <1>0
    <3>. QED
      BY <2>1, <3>1, <3>2
  <2>4. fifo'[0][2] = 0
    <3>1. CASE Len(f) = 1
      BY <2>1, <3>1
    <3>2. CASE Len(f) # 1
      <4>1. f[2] = 0
        BY <3>2 DEF Overtaken
      <4>2. 2 \in 1..Len(f)
        BY <1>0, <3>2, TwoOrMore, Zenon
      <4>. QED
        BY <2>1, <4>1, <4>2
    <3>. QED
      BY <3>1, <3>2
  <2>. QED
    BY <1>1, <2>2, <2>3, <2>4 DEF Overtaken, Popping
<1>. QED
  BY <1>1, <1>2, <1>3

\* The moves of core 0, field by field.
LEMMA PushMoves ==
    ASSUME LaunchTypeOK, Push
    PROVE  /\ caller.at = "push" /\ caller'.at = "pop"
           /\ caller'.next = caller.next /\ caller'.image = caller.image
           /\ fifo'[0] = fifo[0]
           /\ fifo'[1] = Append(fifo[1], Sequence(caller.image)[caller.next])
           /\ Sequence(caller.image)[caller.next] \in Word
           /\ core1' = core1 /\ answered' = answered
  <1>0. 0 \in Core /\ Other(0) = 1
    BY DEF Core, Other
  <1>1. CurrentWord \in Word
    BY SequenceType DEF CurrentWord, LaunchTypeOK
  <1>2. fifo'[0] = fifo[0] /\ fifo'[1] = Append(fifo[1], CurrentWord)
    BY <1>0, <1>1, SentType DEF Push
  <1>3. caller' = [caller EXCEPT !.at = "pop"]
    BY DEF Push
  <1>4. caller'.at = "pop" /\ caller'.next = caller.next /\ caller'.image = caller.image
    BY <1>3 DEF LaunchTypeOK
  <1>. QED
    BY <1>1, <1>2, <1>4 DEF Push, CurrentWord

\* What core 0 makes of an answer: it goes on, ends or starts again.
LEMMA TakeMoves ==
    ASSUME LaunchTypeOK, TakeAnswer
    PROVE  /\ caller.at = "pop" /\ fifo[0] # <<>>
           /\ fifo'[0] = Tail(fifo[0]) /\ fifo'[1] = fifo[1]
           /\ core1' = core1 /\ answered' = answered
           /\ \/ /\ Head(fifo[0]) # Sequence(caller.image)[caller.next]
                 /\ caller'.at = "drain" /\ caller'.next = 1
              \/ /\ Head(fifo[0]) = Sequence(caller.image)[caller.next]
                 /\ caller.next = 6 /\ caller'.at = "done"
                 /\ caller'.next = 6 /\ caller'.image = caller.image
              \/ /\ Head(fifo[0]) = Sequence(caller.image)[caller.next]
                 /\ caller.next < 6 /\ caller'.next = caller.next + 1
                 /\ caller'.image = caller.image
                 /\ caller'.at = IF caller.next = 1 THEN "drain" ELSE "push"
<1>0. /\ 0 \in Core /\ 1 \in Core \ {0} /\ caller.at = "pop" /\ Valid(0)
      /\ caller.next \in 1..6 /\ caller.image \in Images
      /\ caller = [at |-> caller.at, next |-> caller.next, image |-> caller.image]
  BY DEF Core, TakeAnswer, LaunchTypeOK
<1>1. /\ fifo[0] # <<>> /\ fifo'[0] = Tail(fifo[0]) /\ fifo'[1] = fifo[1]
      /\ core1' = core1 /\ answered' = answered
  BY <1>0, TakenType DEF TakeAnswer, Valid
<1>2. CASE Head(fifo[0]) # CurrentWord
  <2>1. caller' = [caller EXCEPT !.at = "drain", !.next = 1]
    BY <1>2 DEF TakeAnswer
  <2>2. caller'.at = "drain" /\ caller'.next = 1
    BY <1>0, <2>1
  <2>. QED
    BY <1>0, <1>1, <1>2, <2>2 DEF CurrentWord
<1>3. CASE Head(fifo[0]) = CurrentWord /\ caller.next = 6
  <2>1. caller' = [caller EXCEPT !.at = "done"]
    BY <1>3 DEF TakeAnswer
  <2>2. caller'.at = "done" /\ caller'.next = 6 /\ caller'.image = caller.image
    BY <1>0, <1>3, <2>1
  <2>. QED
    BY <1>0, <1>1, <1>3, <2>2 DEF CurrentWord
<1>4. CASE Head(fifo[0]) = CurrentWord /\ caller.next # 6
  <2>1. caller' = [caller EXCEPT !.next = @ + 1, !.at = Turn(caller.next + 1)]
    BY <1>4 DEF TakeAnswer
  <2>2. /\ caller'.next = caller.next + 1 /\ caller'.image = caller.image
        /\ caller'.at = Turn(caller.next + 1)
    BY <1>0, <2>1
  <2>3. /\ caller.next = 1 => Sequence(caller.image)[caller.next + 1] = 0
        /\ caller.next # 1 => Sequence(caller.image)[caller.next + 1] # 0
    <3>1. caller.next # 1 => caller.next + 1 \in 3..6
      BY <1>0, <1>4
    <3>. QED
      BY <1>0, <3>1, SequenceWords
  <2>4. Turn(caller.next + 1) = IF caller.next = 1 THEN "drain" ELSE "push"
    BY <2>3 DEF Turn
  <2>5. caller.next < 6
    BY <1>0, <1>4
  <2>. QED
    BY <1>0, <1>1, <1>4, <2>2, <2>4, <2>5 DEF CurrentWord
<1>. QED
  BY <1>2, <1>3, <1>4

\* One answer less, and the next one is the first.
LEMMA ZerosAnswerTaken ==
    ASSUME LaunchTypeOK, NEW k \in {1, 2}, ZeroMeansFlushed(k),
           fifo[0] # <<>>, fifo'[0] = Tail(fifo[0]), fifo'[1] = fifo[1], core1' = core1
    PROVE  ZeroMeansFlushed(1)'
<1> DEFINE f == fifo[0]
<1>1. /\ Len(f) \in Nat /\ Len(f) # 0 /\ Len(Tail(f)) = Len(f) - 1
      /\ \A j \in 1..(Len(f) - 1) : Tail(f)[j] = f[j + 1]
  BY FifosAre, FifoWords
<1>2. ASSUME Flushed PROVE Flushed'
  BY <1>2 DEF Flushed
<1>3. ASSUME NEW j \in 1..Len(Tail(f)), Tail(f)[j] = 0
      PROVE  Flushed' /\ \A i \in j..Len(Tail(f)) : Tail(f)[i] = 0
  <2>1. j + 1 \in k..Len(f) /\ f[j + 1] = 0
    BY <1>1, <1>3
  <2>2. Flushed /\ \A i \in (j + 1)..Len(f) : f[i] = 0
    BY <2>1 DEF ZeroMeansFlushed
  <2>3. ASSUME NEW i \in j..Len(Tail(f)) PROVE Tail(f)[i] = 0
    <3>1. i \in 1..(Len(f) - 1) /\ i + 1 \in (j + 1)..Len(f)
      BY <1>1, <2>1
    <3>. QED
      BY <1>1, <2>2, <3>1
  <2>. QED
    BY <1>2, <2>2, <2>3
<1>4. ASSUME Owes', core1'.word = 0 PROVE Flushed'
  <2>1. Owes /\ core1.word = 0 /\ Len(f) + 1 >= k
    BY <1>1, <1>4 DEF Owes
  <2>. QED
    BY <1>2, <2>1 DEF ZeroMeansFlushed
<1>. QED
  BY <1>3, <1>4 DEF ZeroMeansFlushed

\* A zero on its way to core 1 changes nothing in that.
LEMMA ZerosPushed ==
    ASSUME LaunchTypeOK, NEW k \in {1, 2}, ZeroMeansFlushed(k),
           fifo'[0] = fifo[0], fifo'[1] = Append(fifo[1], 0), core1' = core1
    PROVE  ZeroMeansFlushed(k)'
<1>1. ASSUME Flushed PROVE Flushed'
  <2>1. /\ Len(fifo[1]) \in Nat /\ Len(fifo'[1]) = Len(fifo[1]) + 1
        /\ \A j \in 1..Len(fifo[1]) : fifo'[1][j] = fifo[1][j]
        /\ fifo'[1][Len(fifo[1]) + 1] = 0
    BY FifosAre, FifoWords, EmptyType
  <2>2. ASSUME NEW j \in 1..Len(fifo'[1]) PROVE fifo'[1][j] = 0
    <3>1. j = Len(fifo[1]) + 1 \/ j \in 1..Len(fifo[1])
      BY <2>1
    <3>. QED
      BY <1>1, <2>1, <3>1 DEF Flushed
  <2>. QED
    BY <1>1, <2>2 DEF Flushed
<1>2. Owes' <=> Owes
  BY DEF Owes
<1>. QED
  BY <1>1, <1>2 DEF ZeroMeansFlushed

\* A zero that is next stays next when core 0 sends a word.
LEMMA ZeroNextPush ==
    ASSUME LaunchTypeOK, ZeroNext, NEW w \in Word,
           fifo'[0] = fifo[0], fifo'[1] = Append(fifo[1], w), core1' = core1
    PROVE  ZeroNext'
<1> DEFINE f == fifo[1]
<1>1. Valid(1) => Valid(1)' /\ Head(Append(f, w)) = Head(f)
  <2> SUFFICES ASSUME f # <<>> PROVE Append(f, w) # <<>> /\ Head(Append(f, w)) = Head(f)
    BY DEF Valid
  <2>1. /\ Len(f) \in Nat /\ Len(f) # 0 /\ Append(f, w) \in Seq(Word)
        /\ Len(Append(f, w)) = Len(f) + 1 /\ Head(f) = f[1]
        /\ \A j \in 1..Len(f) : Append(f, w)[j] = f[j]
    BY FifosAre, FifoWords
  <2>2. Len(Append(f, w)) # 0 /\ 1 \in 1..Len(f)
    BY <2>1
  <2>3. Append(f, w) # <<>> /\ Head(Append(f, w)) = Append(f, w)[1]
    BY <2>1, <2>2, FifoWords
  <2>. QED
    BY <2>1, <2>2, <2>3
<1>. QED
  BY <1>1 DEF ZeroNext, Owes

\* After the second zero was answered both are in step, or a zero comes first.
LEMMA SecondZeroTaken ==
    ASSUME LaunchTypeOK, NEW i \in Images, ZeroMeansFlushed(1),
           fifo[0] # <<>>, Head(fifo[0]) = 0, fifo'[0] = Tail(fifo[0]), fifo'[1] = fifo[1],
           core1' = core1, caller'.at = "push"
    PROVE  InStep(i, 0)' \/ ZeroNext'
<1> DEFINE f == fifo[0]
<1>1. /\ f \in Seq(Word) /\ Head(f) = f[1] /\ 1 \in 1..Len(f)
      /\ Tail(f) # <<>> => 2 \in 1..Len(f) /\ Head(Tail(f)) = f[2]
  BY FifosAre, FifoWords, SecondWord
<1>2. Flushed /\ \A j \in 1..Len(f) : f[j] = 0
  BY <1>1 DEF ZeroMeansFlushed
<1>3. CASE Tail(f) # <<>>
  BY <1>1, <1>2, <1>3 DEF ZeroNext
<1>4. CASE Tail(f) = <<>>
  <2>1. CASE core1.at \in {"entry", "drain"} \/ Owes
    BY <1>2, <1>4, <2>1 DEF ZeroNext, Flushed, Owes
  <2>2. CASE AwaitsWord /\ Valid(1)
    <3>1. Head(fifo[1]) = fifo[1][1] /\ Len(fifo[1]) \in Nat /\ Len(fifo[1]) # 0
      BY <2>2, FifosAre, FifoWords DEF Valid
    <3>2. Head(fifo[1]) = 0
      BY <1>2, <3>1 DEF Flushed
    <3>. QED
      BY <1>4, <2>2, <3>2 DEF ZeroNext, AwaitsWord, Valid
  <2>3. CASE AwaitsWord /\ ~Valid(1)
    <3>1. core1.heard = <<>>
      BY <1>2, <2>3 DEF Flushed, AwaitsWord
    <3>2. HasHeard(i, 0)'
      BY <3>1, EmptyType DEF HasHeard
    <3>. QED
      BY <1>4, <2>3, <3>2 DEF InStep, AwaitsWord, Valid
  <2>. QED
    BY <1>2, <2>1, <2>2, <2>3 DEF Flushed, Owes, AwaitsWord
<1>. QED
  BY <1>3, <1>4

\* After an answer to the command both are in step, or a zero comes next.
LEMMA WordTaken ==
    ASSUME LaunchTypeOK, NEW i \in Images, NEW n \in 1..4,
           InStep(i, n) \/ ZeroNext \/ Overtaken(i, n),
           fifo[0] # <<>>, Head(fifo[0]) = Command(i)[n],
           fifo'[0] = Tail(fifo[0]), fifo'[1] = fifo[1],
           core1' = core1, answered' = answered
    PROVE  /\ n < 4 /\ caller'.at = "push" => InStep(i, n)' \/ ZeroNext'
           /\ n = 4 => i \in answered' /\ fifo'[1] = <<>> /\ (Owes' => core1'.heard = <<>>)
<1> DEFINE f == fifo[0]
<1>1. ~ZeroNext
  BY CommandWords DEF ZeroNext
<1>2. CASE InStep(i, n)
  <2>1. /\ f = <<Command(i)[n]>> /\ fifo[1] = <<>>
        /\ IF n = 4 THEN core1.at \in {"launch", "running", "dead"} /\ i \in answered
           ELSE AwaitsWord /\ HasHeard(i, n)
    BY <1>2 DEF InStep
  <2>2. Tail(f) = <<>>
    BY <2>1, CommandWords, OneWord
  <2>. QED
    BY <2>1, <2>2 DEF InStep, AwaitsWord, HasHeard, Owes
<1>3. CASE Overtaken(i, n)
  <2>1. /\ fifo[1] = <<>> /\ core1.at \notin {"launch", "running", "dead"}
        /\ core1.at \notin {"entry", "drain"} => core1.heard = <<>>
        /\ Owes => core1.word = 0
        /\ IF Len(f) = 1 THEN ~AwaitsWord ELSE f[2] = 0
        /\ n = 4 => i \in answered
    BY <1>3 DEF Overtaken, Idles
  <2>2. /\ Tail(f) = <<>> <=> Len(f) = 1
        /\ Tail(f) # <<>> => Head(Tail(f)) = f[2]
    BY FifosAre, SecondWord
  <2>3. ZeroNext'
    <3>1. CASE Len(f) = 1
      <4>1. core1.at \in {"entry", "drain"} \/ Owes
        BY <2>1, <3>1 DEF Owes, AwaitsWord, LaunchTypeOK
      <4>. QED
        BY <2>1, <2>2, <3>1, <4>1 DEF ZeroNext, Owes
    <3>2. CASE Len(f) # 1
      BY <2>1, <2>2, <3>2 DEF ZeroNext
    <3>. QED
      BY <3>1, <3>2
  <2>. QED
    BY <2>1, <2>3 DEF Owes
<1>. QED
  BY <1>1, <1>2, <1>3

\* Core 0 sends a word of the command.
LEMMA WordPushed ==
    ASSUME LaunchTypeOK, NEW i \in Images, NEW n \in 0..3, caller.at = "push",
           InStep(i, n) \/ ZeroNext \/ Overtaken(i, n),
           fifo'[0] = fifo[0], fifo'[1] = Append(fifo[1], Command(i)[n + 1]),
           core1' = core1, caller'.at = "pop"
    PROVE  InStep(i, n + 1)' \/ ZeroNext'
<1>1. n + 1 \in 1..4 /\ n + 1 > 0 /\ (n + 1) - 1 = n /\ Command(i)[n + 1] \in Word
  <2>1. n + 1 \in 1..4 /\ n + 1 > 0 /\ (n + 1) - 1 = n
    OBVIOUS
  <2>. QED
    BY <2>1, CommandWords
<1>2. CASE ZeroNext
  BY <1>1, <1>2, ZeroNextPush
<1>3. CASE InStep(i, n)
  <2>1. fifo[0] = <<>> /\ fifo[1] = <<>> /\ AwaitsWord /\ HasHeard(i, n)
    BY <1>3 DEF InStep, Popping
  <2>2. fifo'[1] = <<Command(i)[n + 1]>>
    BY <1>1, <2>1, OneWord
  <2>3. AwaitsWord' /\ HasHeard(i, n)' /\ Popping'
    BY <2>1 DEF AwaitsWord, HasHeard, Popping
  <2>. QED
    BY <1>1, <2>1, <2>2, <2>3 DEF InStep
<1>. QED
  BY <1>2, <1>3 DEF Overtaken, Popping

\* Nothing is called at the start.
LEMMA CallInvInit == LaunchInit => CallInv
  BY DEF LaunchInit, Idle, CallInv

\* The steps of core 1, and its reset.
LEMMA CallInvCore1 ==
    ASSUME LaunchTypeOK, CallInv, RomOfCore1 \/ Core1Returns \/ ResetCore1
    PROVE  CallInv'
<1>1. caller' = caller /\ Pushed' = Pushed /\ caller.image \in Images
  BY ClearMoves, SendMoves, HearMoves, DrainedMoves, SameMoves DEF RomOfCore1, Pushed, LaunchTypeOK
<1>2. caller.next > 2 /\ caller.at \notin {"done", "drain"} => Pushed - 2 \in 0..4
  <2>1. caller.next \in 1..6
    BY DEF LaunchTypeOK
  <2>. QED
    BY <2>1 DEF Pushed
<1>3. CASE caller.at = "done"
  <2>1. caller.image \in answered /\ fifo[1] = <<>> /\ (Owes => core1.heard = <<>>)
    BY <1>3 DEF CallInv
  <2>2. caller.image \in answered' /\ fifo'[1] = <<>> /\ (Owes' => core1'.heard = <<>>)
    <3>1. CASE EnterRom \/ Drain \/ ResetCore1 \/ (Receive /\ Restarts(Head(fifo[1])))
      BY <2>1, <3>1, ClearMoves DEF Owes, Valid
    <3>2. CASE Drained
      BY <2>1, <3>2, DrainedMoves DEF Owes
    <3>3. CASE Send
      <4>1. core1.at = "send" /\ 0 # 4
        BY <3>3 DEF Send
      <4>2. Len(core1.heard) # 4
        BY <2>1, <4>1, EmptyType DEF Owes
      <4>. QED
        BY <2>1, <3>3, <4>2, SendMoves DEF Owes
    <3>4. CASE Receive /\ ~Restarts(Head(fifo[1]))
      BY <2>1, <3>4 DEF Receive, Valid
    <3>5. CASE FindFull \/ Wake \/ FindNothing \/ Launch \/ Core1Returns
      BY <2>1, <3>5, SameMoves DEF Owes
    <3>. QED
      BY <3>1, <3>2, <3>3, <3>4, <3>5 DEF RomOfCore1
  <2>3. caller.next = 2 => ZeroMeansFlushed(1)'
    BY ZerosCore1 DEF CallInv
  <2>. QED
    BY <1>1, <1>3, <2>2, <2>3 DEF CallInv
<1>4. CASE caller.at # "done"
  <2>1. caller.next = 1 /\ caller.at \in {"push", "pop", "sleep"} => ZeroMeansFlushed(2)'
    BY ZerosCore1 DEF CallInv
  <2>2. caller.next = 2 => ZeroMeansFlushed(1)'
    BY ZerosCore1 DEF CallInv
  <2>3. ASSUME caller.next > 2
        PROVE  /\ caller.at # "drain"
               /\ \/ InStep(caller.image, Pushed - 2)'
                  \/ ZeroNext'
                  \/ Overtaken(caller.image, Pushed - 2)'
    <3> DEFINE n == Pushed - 2
    <3>1. /\ caller.at # "drain"
          /\ InStep(caller.image, n) \/ ZeroNext \/ Overtaken(caller.image, n)
      BY <1>4, <2>3 DEF CallInv
    <3>2. n \in 0..4 /\ n' = n
      BY <1>1, <1>2, <1>4, <2>3, <3>1
    <3>3. ASSUME NEW m \in 0..4, InStep(caller.image, m) \/ ZeroNext \/ Overtaken(caller.image, m)
          PROVE  InStep(caller.image, m)' \/ ZeroNext' \/ Overtaken(caller.image, m)'
      BY <1>1, <3>3, InStepCore1, ZeroNextCore1, OvertakenCore1
    <3>4. \E m \in 0..4 : n = m /\ (InStep(caller.image, m)' \/ ZeroNext' \/ Overtaken(caller.image, m)')
      <4> HIDE DEF n
      <4>. QED
        BY <3>1, <3>2, <3>3
    <3>. QED
      BY <1>1, <3>1, <3>2, <3>4
  <2>. QED
    BY <1>1, <1>4, <2>1, <2>2, <2>3 DEF CallInv
<1>. QED
  BY <1>3, <1>4

\* The places in the command, from those in the sequence.
LEMMA CommandPlace ==
    ASSUME NEW next \in 1..6, next > 2, NEW i \in Images
    PROVE  /\ next - 2 \in 1..4 /\ next - 3 \in 0..3 /\ (next - 3) + 1 = next - 2
           /\ next - 1 - 2 = next - 3 /\ (next + 1) - 1 - 2 = next - 2
           /\ (next - 2 = 4 <=> next = 6) /\ (next < 6 => next - 2 < 4)
           /\ Sequence(i)[next] = Command(i)[next - 2]
           /\ Sequence(i)[next] # 0
  <1>1. next \in 3..6
    OBVIOUS
  <1>2. /\ next - 2 \in 1..4 /\ next - 3 \in 0..3 /\ (next - 3) + 1 = next - 2
        /\ next - 1 - 2 = next - 3 /\ (next + 1) - 1 - 2 = next - 2
        /\ (next - 2 = 4 <=> next = 6) /\ (next < 6 => next - 2 < 4)
    OBVIOUS
  <1>. QED
    BY <1>1, <1>2, SequenceWords

\* Core 0 sends a word.
LEMMA CallInvPush ==
    ASSUME LaunchTypeOK, CallInv, Push
    PROVE  CallInv'
<1> DEFINE i == caller.image
           next == caller.next
<1>0. next \in 1..6 /\ i \in Images
  BY DEF LaunchTypeOK
<1>1. /\ caller.at = "push" /\ caller'.at = "pop"
      /\ caller'.next = next /\ caller'.image = i
      /\ fifo'[0] = fifo[0] /\ fifo'[1] = Append(fifo[1], Sequence(i)[next])
      /\ Sequence(i)[next] \in Word /\ core1' = core1 /\ answered' = answered
  BY PushMoves
<1>2. CASE next = 1
  <2>1. Sequence(i)[1] = 0
    BY <1>0, SequenceWords
  <2>2. ZeroMeansFlushed(2)'
    BY <1>1, <1>2, <2>1, ZerosPushed DEF CallInv
  <2>. QED
    BY <1>1, <1>2, <2>2 DEF CallInv
<1>3. CASE next = 2
  <2>1. Sequence(i)[2] = 0
    BY <1>0, SequenceWords
  <2>2. ZeroMeansFlushed(1)'
    BY <1>1, <1>3, <2>1, ZerosPushed DEF CallInv
  <2>. QED
    BY <1>1, <1>3, <2>2 DEF CallInv
<1>4. CASE next > 2
  <2>1. /\ next - 2 \in 1..4 /\ next - 3 \in 0..3 /\ (next - 3) + 1 = next - 2
        /\ next - 1 - 2 = next - 3 /\ Sequence(i)[next] = Command(i)[next - 2]
    BY <1>0, <1>4, CommandPlace
  <2>2. Pushed - 2 = next - 3 /\ Pushed' - 2 = next - 2
    BY <1>1, <2>1 DEF Pushed
  <2>3. InStep(i, next - 3) \/ ZeroNext \/ Overtaken(i, next - 3)
    BY <1>1, <1>4, <2>2 DEF CallInv
  <2>4. fifo'[1] = Append(fifo[1], Command(i)[(next - 3) + 1])
    BY <1>1, <2>1
  <2>5. InStep(i, (next - 3) + 1)' \/ ZeroNext'
    BY <1>0, <1>1, <2>1, <2>3, <2>4, WordPushed
  <2>6. InStep(i, next - 2)' \/ ZeroNext'
    BY <1>1, <2>1, <2>5
  <2>7. InStep(caller.image, Pushed - 2)' \/ ZeroNext'
    BY <1>1, <2>2, <2>6
  <2>. QED
    BY <1>1, <1>4, <2>7 DEF CallInv
<1>. QED
  BY <1>0, <1>2, <1>3, <1>4

\* Core 0 takes an answer.
LEMMA CallInvTake ==
    ASSUME LaunchTypeOK, CallInv, TakeAnswer
    PROVE  CallInv'
<1> DEFINE i == caller.image
           next == caller.next
           f == fifo[0]
<1>0. next \in 1..6 /\ i \in Images
  BY DEF LaunchTypeOK
<1>1. /\ caller.at = "pop" /\ f # <<>> /\ fifo'[0] = Tail(f) /\ fifo'[1] = fifo[1]
      /\ core1' = core1 /\ answered' = answered
  BY TakeMoves
<1>2. CASE Head(f) # Sequence(i)[next] /\ caller'.at = "drain" /\ caller'.next = 1
  BY <1>2 DEF CallInv
<1>3. CASE /\ Head(f) = Sequence(i)[next]
           /\ next = 6 /\ caller'.at = "done" /\ caller'.next = 6 /\ caller'.image = i
  <2>1. /\ next - 2 \in 1..4 /\ next - 2 = 4 /\ Sequence(i)[next] = Command(i)[next - 2]
    BY <1>0, <1>3, CommandPlace
  <2>2. InStep(i, next - 2) \/ ZeroNext \/ Overtaken(i, next - 2)
    BY <1>1, <1>3 DEF CallInv, Pushed
  <2>3. i \in answered' /\ fifo'[1] = <<>> /\ (Owes' => core1'.heard = <<>>)
    BY <1>0, <1>1, <1>3, <2>1, <2>2, WordTaken
  <2>. QED
    BY <1>3, <2>3 DEF CallInv
<1>4. CASE /\ Head(f) = Sequence(i)[next] /\ next < 6
           /\ caller'.next = next + 1 /\ caller'.image = i
           /\ caller'.at = IF next = 1 THEN "drain" ELSE "push"
  <2>1. CASE next = 1
    <3>1. ZeroMeansFlushed(1)'
      BY <1>1, <2>1, ZerosAnswerTaken DEF CallInv
    <3>. QED
      BY <1>4, <2>1, <3>1 DEF CallInv
  <2>2. CASE next = 2
    <3>1. Head(f) = 0
      BY <1>0, <1>4, <2>2, SequenceWords
    <3>2. InStep(i, 0)' \/ ZeroNext'
      BY <1>0, <1>1, <1>4, <2>2, <3>1, SecondZeroTaken DEF CallInv
    <3>3. Pushed' - 2 = 0
      BY <1>4, <2>2 DEF Pushed
    <3>4. InStep(caller.image, Pushed - 2)' \/ ZeroNext'
      BY <1>4, <3>2, <3>3
    <3>. QED
      BY <1>4, <2>2, <3>4 DEF CallInv
  <2>3. CASE next > 2
    <3>1. /\ next - 2 \in 1..4 /\ next - 2 < 4 /\ (next + 1) - 1 - 2 = next - 2
          /\ Sequence(i)[next] = Command(i)[next - 2]
      BY <1>0, <1>4, <2>3, CommandPlace
    <3>2. PICK n \in 1..4 : n = next - 2
      BY <3>1
    <3>3. InStep(i, n) \/ ZeroNext \/ Overtaken(i, n)
      BY <1>1, <2>3, <3>2 DEF CallInv, Pushed
    <3>4. caller'.at = "push"
      BY <1>4, <2>3
    <3>5. InStep(i, n)' \/ ZeroNext'
      BY <1>0, <1>1, <1>4, <3>1, <3>2, <3>3, <3>4, WordTaken
    <3>6. Pushed' - 2 = n
      BY <1>4, <3>1, <3>2, <3>4 DEF Pushed
    <3>7. InStep(caller.image, Pushed - 2)' \/ ZeroNext'
      BY <1>4, <3>5, <3>6
    <3>. QED
      BY <1>0, <1>4, <2>3, <3>4, <3>7 DEF CallInv
  <2>. QED
    BY <1>0, <2>1, <2>2, <2>3
<1>. QED
  BY <1>2, <1>3, <1>4, TakeMoves

\* The other steps of core 0 and the resets but that of core 1.
LEMMA CallInvCore0 ==
    ASSUME LaunchTypeOK, CallInv, Call \/ LaunchCode \/ ResetCore0 \/ ResetBoth
    PROVE  CallInv'
<1>1. CASE Call
  <2>1. caller'.next = 1 /\ caller'.at = "drain"
    BY <1>1 DEF Call
  <2>. QED
    BY <2>1 DEF CallInv
<1>2. CASE DropAnswer
  <2>1. 0 \in Core /\ 1 \in Core \ {0}
    BY DEF Core
  <2>2. /\ caller.at = "drain" /\ caller' = caller /\ fifo[0] # <<>>
        /\ fifo'[0] = Tail(fifo[0]) /\ fifo'[1] = fifo[1] /\ core1' = core1
    BY <1>2, <2>1, TakenType DEF DropAnswer, Valid
  <2>3. caller.next = 2 => ZeroMeansFlushed(1)'
    BY <2>2, ZerosAnswerTaken DEF CallInv
  <2>. QED
    BY <2>2, <2>3 DEF CallInv
<1>3. CASE NoAnswerLeft
  <2>1. /\ caller.at = "drain" /\ fifo[0] = <<>> /\ fifo' = fifo /\ core1' = core1
        /\ caller'.at = "push" /\ caller'.next = caller.next /\ caller'.image = caller.image
    BY <1>3 DEF NoAnswerLeft, Valid, LaunchTypeOK
  <2>2. ~(caller.next > 2)
    BY <2>1 DEF CallInv
  <2>3. ZeroMeansFlushed(2)'
    <3>1. Len(fifo'[0]) = 0
      BY <2>1, EmptyType
    <3>. QED
      BY <3>1 DEF ZeroMeansFlushed
  <2>4. caller.next = 2 => ZeroMeansFlushed(1)'
    BY <2>1 DEF CallInv, ZeroMeansFlushed, Flushed, Owes
  <2>. QED
    BY <2>1, <2>2, <2>3, <2>4 DEF CallInv
<1>4. CASE AwaitAnswer
  <2>1. /\ caller.at \in {"pop", "sleep"} /\ caller'.at \in {"pop", "sleep"}
        /\ caller'.next = caller.next /\ caller'.image = caller.image
        /\ UNCHANGED <<core1, fifo, answered>>
    BY <1>4 DEF AwaitAnswer, LaunchTypeOK
  <2>2. Pushed' = Pushed /\ Popping /\ Popping'
    BY <2>1 DEF Pushed, Popping
  <2>3. /\ ZeroNext' <=> ZeroNext
        /\ \A k \in {1, 2} : ZeroMeansFlushed(k)' <=> ZeroMeansFlushed(k)
    BY <2>1 DEF ZeroNext, ZeroMeansFlushed, Flushed, Owes, Valid
  <2>4. ASSUME NEW i, NEW n
        PROVE  /\ InStep(i, n) => InStep(i, n)'
               /\ Overtaken(i, n) => Overtaken(i, n)'
    BY <2>1, <2>2 DEF InStep, Overtaken, Idles, HasHeard, AwaitsWord, Owes
  <2>. QED
    BY <2>1, <2>2, <2>3, <2>4 DEF CallInv
<1>5. CASE Push \/ TakeAnswer
  BY <1>5, CallInvPush, CallInvTake
<1>6. CASE ResetCore0 \/ ResetBoth
  <2>1. caller'.next = 1 /\ caller'.at = "idle"
    BY <1>6 DEF ResetCore0, ResetBoth, Idle
  <2>. QED
    BY <2>1 DEF CallInv
<1>. QED
  BY <1>1, <1>2, <1>3, <1>4, <1>5, <1>6 DEF LaunchCode

\* Every step of the launch keeps the invariant of calls.
LEMMA CallInvStep == LaunchTypeOK /\ CallInv /\ [LaunchNext]_launchVars => CallInv'
<1> SUFFICES ASSUME LaunchTypeOK, CallInv, [LaunchNext]_launchVars PROVE CallInv'
  OBVIOUS
<1>1. CASE UNCHANGED launchVars
  BY <1>1 DEF launchVars, CallInv, ZeroMeansFlushed, Flushed, ZeroNext, InStep, Overtaken,
              Idles, HasHeard, AwaitsWord, Owes, Popping, Pushed, Valid
<1>. QED
  BY <1>1, CallInvCore0, CallInvCore1 DEF LaunchNext

\* For any images, depth of the FIFOs, and number of calls and resets, a call that
\* is done was answered by a core 1 that starts the image of this call.
THEOREM LaunchAsCalledCorrect == LaunchSafety => []LaunchAsCalled
<1>1. LaunchTypeOK /\ CallInv /\ StartsWhole => LaunchAsCalled
  BY DEF CallInv, LaunchAsCalled
<1>. QED
  BY <1>1, LaunchTypeInit, LaunchTypeStep, CallInvInit, CallInvStep, StartsWholeCorrect, PTL
     DEF LaunchSafety


(***************************************************************************)
(* The chip's start is a run of the launch.                                *)
(***************************************************************************)

\* A step of the chip is one of the launch, or leaves it alone.
LEMMA StartStepLaunches == [StartNext]_startVars => [LaunchNext]_launchVars
  BY DEF startVars, StartNext, LaunchNext, WatchdogFires, PowerCycle, Rescue, ChipReset,
         RestartCore0

\* The chip's start, with core 0 in ROM, USB or program, is a run of the launch.
THEOREM StartLaunches == StartSpec => LaunchSafety
<1>1. RomInit => LaunchInit
  BY DEF RomInit
<1>. QED
  BY <1>1, StartStepLaunches, PTL DEF StartSpec, LaunchSafety

\* So the whole chip starts core 1 with whole images only.
THEOREM StartStartsWhole == StartSpec => []StartsWhole
  BY StartLaunches, StartsWholeCorrect

(***************************************************************************)
(* The types of core 0's registers and the world around the ROM.           *)
(***************************************************************************)
Places == {"start", "dead", "check_wdog", "main", "flash", "clocks", "usb",
           "program", "disable", "scratch4", "scratch5", "scratch7", "reboot", "wfi",
           Wrapper, HostCode}
Scratches == [magic : BOOLEAN, check : Entry, entry : Entry, mask : Masks]
Requests == [entry : Entry, torn : BOOLEAN, mask : Masks]
Calls == [pc : Entry, then : {"usb", "wfi"}]

RomTypeOK ==
    /\ at \in Places
    /\ rescue \in BOOLEAN /\ watchdog \in BOOLEAN
    /\ scratch \in Scratches /\ asked \in Requests /\ call \in Calls
    /\ crystal \in {"absent", "stopped", "running"}
    /\ attempt \in 0..MaxAttempts
    /\ flash \in Contents
    /\ usb \in Masks
    /\ boots \in 0..MaxBoots

\* No request is a request too, for the usual way.
LEMMA NotAskedType == NotAsked \in Requests /\ NoScratch \in Scratches /\ NoCall \in Calls
  BY RomAssumption DEF NotAsked, NoScratch, NoCall, Requests, Scratches, Calls, Entry

\* The types hold at the start.
LEMMA RomTypeInit == RomInit => RomTypeOK
  <1>1. 0 \in Masks /\ 0 \in 0..MaxAttempts /\ 0 \in 0..MaxBoots
    BY RomAssumption
  <1>. QED
    BY <1>1, NotAskedType DEF RomInit, RomTypeOK, Places

\* The writes of watchdog_reboot, and what they leave.
LEMMA RebootMoves ==
    ASSUME RomTypeOK, WatchdogReboot
    PROVE  RomTypeOK'
<1>1. call.pc \in Entry /\ call.then \in {"usb", "wfi"}
  BY DEF RomTypeOK, Calls
<1>2. CASE DisableWatchdog
  BY <1>2 DEF DisableWatchdog, RomTypeOK, Places
<1>3. CASE WriteMagic
  <2>1. scratch' \in Scratches /\ asked' \in Requests
    BY <1>1, <1>3 DEF WriteMagic, RomTypeOK, Scratches, Requests
  <2>. QED
    BY <1>3, <2>1 DEF WriteMagic, RomTypeOK, Places
<1>4. CASE WriteCheck
  <2>1. scratch' \in Scratches
    BY <1>1, <1>4 DEF WriteCheck, RomTypeOK, Scratches
  <2>. QED
    BY <1>4, <2>1 DEF WriteCheck, RomTypeOK, Places
<1>5. CASE WriteEntry
  <2>1. scratch' \in Scratches /\ asked' \in Requests
    BY <1>1, <1>5 DEF WriteEntry, RomTypeOK, Scratches, Requests
  <2>. QED
    BY <1>5, <2>1 DEF WriteEntry, RomTypeOK, Places
<1>6. CASE ArmWatchdog
  BY <1>1, <1>6, NotAskedType DEF ArmWatchdog, RomTypeOK, Places
<1>. QED
  BY <1>2, <1>3, <1>4, <1>5, <1>6 DEF WatchdogReboot

\* The steps of the ROM on core 0.
LEMMA RomTypeRom == RomTypeOK /\ (Rom \/ VectorRuns) => RomTypeOK'
<1> SUFFICES ASSUME RomTypeOK, Rom \/ VectorRuns PROVE RomTypeOK'
  OBVIOUS
<1>1. CASE CheckRescue
  BY <1>1 DEF CheckRescue, RomTypeOK, Places
<1>2. CASE CheckWatchdog
  <2>1. ClearMagic(scratch) \in Scratches
    BY DEF RomTypeOK, Scratches, ClearMagic
  <2>2. [asked EXCEPT !.entry = NoEntry, !.torn = FALSE] \in Requests
    BY DEF RomTypeOK, Requests, Entry
  <2>3. scratch' \in Scratches /\ asked' \in Requests
    BY <1>2, <2>1, <2>2 DEF CheckWatchdog, RomTypeOK
  <2>4. scratch.entry \in Entry
    BY DEF RomTypeOK, Scratches
  <2>5. at' \in Places
    BY <1>2, <2>4 DEF CheckWatchdog, HasVector, Places, Entry
  <2>. QED
    BY <1>2, <2>3, <2>5 DEF CheckWatchdog, RomTypeOK
<1>3. CASE WrapperRuns
  <2>1. scratch.mask \in Masks
    BY DEF RomTypeOK, Scratches
  <2>. QED
    BY <1>3, <2>1 DEF WrapperRuns, RomTypeOK, Places
<1>4. CASE SampleStrap
  BY <1>4, RomAssumption DEF SampleStrap, RomTypeOK, Places
<1>5. CASE TryFlash
  <2>1. attempt' \in 0..MaxAttempts
    BY <1>5, RomAssumption DEF TryFlash, UsedUp, RomTypeOK
  <2>2. at' \in Places /\ usb' \in Masks
    BY <1>5, RomAssumption DEF TryFlash, RomTypeOK, Places
  <2>. QED
    BY <1>5, <2>1, <2>2 DEF TryFlash, RomTypeOK
<1>6. CASE StartClocks
  BY <1>6 DEF StartClocks, RomTypeOK, Places
<1>7. CASE WatchdogReboot
  BY <1>7, RebootMoves
<1>8. CASE VectorRuns
  BY <1>8 DEF VectorRuns, RomTypeOK, Places, HostCode
<1>. QED
  BY <1>1, <1>2, <1>3, <1>4, <1>5, <1>6, <1>7, <1>8 DEF Rom

\* A request for a reboot begins; only the mask is written.
LEMMA AskMoves ==
    ASSUME RomTypeOK, HostReboots \/ ProgramResetsToUsb
    PROVE  /\ RomTypeOK'
           /\ \E mask \in Masks :
                 \/ UNCHANGED <<scratch, asked>>
                 \/ /\ scratch' = [scratch EXCEPT !.mask = mask]
                    /\ asked' = [asked EXCEPT !.mask = mask]
           /\ at' = "disable"
<1>1. ASSUME NEW pc \in Entry, NEW then \in {"usb", "wfi"}, AskReboot(pc, then),
             scratch' \in Scratches, asked' \in Requests
      PROVE  RomTypeOK' /\ at' = "disable"
  BY <1>1 DEF AskReboot, RomTypeOK, Places, Calls
<1>2. CASE HostReboots
  <2>1. RomTypeOK' /\ at' = "disable"
    BY <1>1, <1>2 DEF HostReboots, RomTypeOK, Entry
  <2>. QED
    BY <1>2, <2>1, RomAssumption DEF HostReboots
<1>3. CASE ProgramResetsToUsb
  <2>1. PICK mask \in Masks :
           /\ AskReboot(Wrapper, "wfi")
           /\ scratch' = [scratch EXCEPT !.mask = mask]
           /\ asked' = [asked EXCEPT !.mask = mask]
    BY <1>3 DEF ProgramResetsToUsb
  <2>2. scratch' \in Scratches /\ asked' \in Requests
    BY <2>1 DEF RomTypeOK, Scratches, Requests
  <2>3. RomTypeOK' /\ at' = "disable"
    BY <1>1, <2>1, <2>2 DEF Entry
  <2>. QED
    BY <2>1, <2>3
<1>. QED
  BY <1>2, <1>3

\* The world around the ROM.
LEMMA RomTypeWorld ==
    RomTypeOK /\ (FlashChanges \/ ProgramStartsCrystal \/ WatchdogFires \/ PowerCycle \/ Rescue
                    \/ RestartCore0)
      => RomTypeOK'
<1> SUFFICES ASSUME RomTypeOK,
                    FlashChanges \/ ProgramStartsCrystal \/ WatchdogFires \/ PowerCycle \/ Rescue
                      \/ RestartCore0
             PROVE  RomTypeOK'
  OBVIOUS
<1>0. 0 \in Masks /\ 0 \in 0..MaxAttempts
  BY RomAssumption
<1>1. CASE FlashChanges
  BY <1>1 DEF FlashChanges, RomTypeOK
<1>2. CASE ProgramStartsCrystal
  BY <1>2 DEF ProgramStartsCrystal, RomTypeOK
<1>3. CASE WatchdogFires
  BY <1>0, <1>3, NotAskedType DEF WatchdogFires, ChipReset, RomTypeOK, Places
<1>4. ASSUME boots < MaxBoots, boots' = boots + 1 PROVE boots' \in 0..MaxBoots
  BY <1>4, RomAssumption DEF RomTypeOK
<1>5. CASE PowerCycle
  BY <1>0, <1>4, <1>5, NotAskedType DEF PowerCycle, ChipReset, RomTypeOK, Places
<1>6. CASE Rescue
  BY <1>0, <1>4, <1>6, NotAskedType DEF Rescue, ChipReset, RomTypeOK, Places
<1>7. CASE RestartCore0
  BY <1>0, <1>7, NotAskedType DEF RestartCore0, RomTypeOK, Places
<1>. QED
  BY <1>1, <1>2, <1>3, <1>5, <1>6, <1>7

\* And every step of the chip keeps them.
LEMMA RomTypeStep == RomTypeOK /\ [StartNext]_startVars => RomTypeOK'
<1> SUFFICES ASSUME RomTypeOK, [StartNext]_startVars PROVE RomTypeOK'
  OBVIOUS
<1>1. CASE UNCHANGED romVars
  BY <1>1 DEF romVars, RomTypeOK
<1>2. CASE RomStep \/ Asks
  BY <1>2, RomTypeRom, RomTypeWorld, AskMoves DEF RomStep, Asks
<1>. QED
  BY <1>1, <1>2, RomTypeWorld DEF StartNext, startVars

\* The chip keeps its types: scratch registers and flags across every reset, the
\* attempts at the flash within FLASH_MAX_ATTEMPTS.
THEOREM StartTypeCorrect == StartSpec => []StartTypeOK
<1>1. LaunchTypeOK /\ RomTypeOK => StartTypeOK
  BY DEF RomTypeOK, StartTypeOK, Places, Scratches, Requests, Calls
<1>2. StartSpec => []RomTypeOK
  BY RomTypeInit, RomTypeStep, PTL DEF StartSpec
<1>3. StartSpec => []LaunchTypeOK
  BY StartLaunches, LaunchTypeCorrect
<1>. QED
  BY <1>1, <1>2, <1>3, PTL

\* And no reset of the chip or of a core lets core 1 start anything but an image it
\* was called with, or tells core 0 of a call that is done when it is not.
THEOREM StartCorrect == StartSpec => []StartInv
<1>1. StartSpec => []LaunchAsCalled
  BY StartLaunches, LaunchAsCalledCorrect
<1>. QED
  BY <1>1, StartTypeCorrect, PTL DEF StartInv

(***************************************************************************)
(* Unless the writes of a request were cut short, the scratch registers    *)
(* hold the request that is not honoured yet, and it alone; while they are *)
(* under way they hold as much of it as was written.  The mask is that of  *)
(* the last reset_usb_boot.                                                *)
(***************************************************************************)
Half == asked.torn /\ scratch.magic /\ call.pc # NoEntry /\ asked.entry = call.pc

ScratchAsAsked ==
    /\ ~asked.torn => /\ scratch.magic <=> asked.entry # NoEntry
                      /\ scratch.magic => /\ scratch.check = asked.entry
                                          /\ scratch.entry = asked.entry
    /\ at = "scratch5" => Half
    /\ at = "scratch7" => Half /\ scratch.check = call.pc
    /\ scratch.mask = asked.mask

\* At the start nothing was asked.
LEMMA ScratchInit == RomInit => ScratchAsAsked
  BY DEF RomInit, ScratchAsAsked, NotAsked, NoScratch, NoEntry

\* Each write of watchdog_reboot brings the registers nearer to the request.
LEMMA ScratchReboot == RomTypeOK /\ ScratchAsAsked /\ WatchdogReboot => ScratchAsAsked'
<1> SUFFICES ASSUME RomTypeOK, ScratchAsAsked, WatchdogReboot PROVE ScratchAsAsked'
  OBVIOUS
<1>0. scratch \in Scratches /\ asked \in Requests /\ call.pc \in Entry
      /\ call.then \in {"usb", "wfi"}
  BY DEF RomTypeOK, Calls
<1>1. CASE DisableWatchdog \/ ArmWatchdog
  BY <1>0, <1>1 DEF DisableWatchdog, ArmWatchdog, ScratchAsAsked
<1>2. CASE WriteMagic
  <2>1. /\ scratch'.magic = (call.pc # NoEntry) /\ scratch'.mask = scratch.mask
        /\ asked'.entry = call.pc /\ asked'.torn = (call.pc # NoEntry)
        /\ asked'.mask = asked.mask
        /\ call' = call /\ (at' = "reboot" \/ (at' = "scratch5" /\ call.pc # NoEntry))
    BY <1>0, <1>2 DEF WriteMagic, Scratches, Requests
  <2>. QED
    BY <2>1 DEF ScratchAsAsked, Half
<1>3. CASE WriteCheck
  <2>1. /\ scratch'.magic = scratch.magic /\ scratch'.mask = scratch.mask
        /\ scratch'.check = call.pc
        /\ asked' = asked /\ call' = call /\ at' = "scratch7"
    BY <1>0, <1>3 DEF WriteCheck, Scratches
  <2>2. Half
    BY <1>3 DEF WriteCheck, ScratchAsAsked
  <2>. QED
    BY <2>1, <2>2 DEF ScratchAsAsked, Half
<1>4. CASE WriteEntry
  <2>1. /\ scratch'.magic = scratch.magic /\ scratch'.mask = scratch.mask
        /\ scratch'.check = scratch.check /\ scratch'.entry = call.pc
        /\ asked'.entry = asked.entry /\ asked'.mask = asked.mask /\ ~asked'.torn
        /\ at' = "reboot"
    BY <1>0, <1>4 DEF WriteEntry, Scratches, Requests
  <2>2. Half /\ scratch.check = call.pc
    BY <1>4 DEF WriteEntry, ScratchAsAsked
  <2>. QED
    BY <2>1, <2>2 DEF ScratchAsAsked, Half
<1>. QED
  BY <1>1, <1>2, <1>3, <1>4 DEF WatchdogReboot

\* Every step of the chip keeps the scratch registers at what was asked last.
LEMMA ScratchStep == RomTypeOK /\ ScratchAsAsked /\ [StartNext]_startVars => ScratchAsAsked'
<1> SUFFICES ASSUME RomTypeOK, ScratchAsAsked, [StartNext]_startVars PROVE ScratchAsAsked'
  OBVIOUS
<1>0. scratch \in Scratches /\ asked \in Requests
  BY DEF RomTypeOK
<1>1. CASE UNCHANGED romVars
  BY <1>1 DEF romVars, ScratchAsAsked, Half
<1>2. CASE Asks
  <2>1. PICK mask \in Masks :
           \/ UNCHANGED <<scratch, asked>>
           \/ /\ scratch' = [scratch EXCEPT !.mask = mask]
              /\ asked' = [asked EXCEPT !.mask = mask]
    BY <1>2, AskMoves DEF Asks
  <2>2. /\ scratch'.magic = scratch.magic /\ scratch'.check = scratch.check
        /\ scratch'.entry = scratch.entry
        /\ asked'.torn = asked.torn /\ asked'.entry = asked.entry
        /\ scratch.mask = asked.mask => scratch'.mask = asked'.mask
    BY <1>0, <2>1 DEF Scratches, Requests
  <2>3. at' = "disable"
    BY <1>2, AskMoves DEF Asks
  <2>. QED
    BY <2>2, <2>3 DEF ScratchAsAsked
<1>3. CASE CheckWatchdog
  <2>1. CASE HasVector(scratch)
    <3>1. /\ ~scratch'.magic /\ scratch'.mask = scratch.mask
          /\ asked'.entry = NoEntry /\ asked'.mask = asked.mask
      BY <1>0, <1>3, <2>1 DEF CheckWatchdog, ClearMagic, Scratches, Requests
    <3>2. at' \in Entry
      BY <1>0, <1>3, <2>1 DEF CheckWatchdog, Scratches
    <3>. QED
      BY <3>1, <3>2 DEF ScratchAsAsked, Entry, NoEntry, Wrapper, HostCode
  <2>2. CASE ~HasVector(scratch)
    <3>1. scratch' = scratch /\ at' = "main" /\ asked'.mask = asked.mask
      BY <1>0, <1>3, <2>2 DEF CheckWatchdog, Requests
    <3>2. CASE asked.torn
      BY <1>3, <2>2, <3>1, <3>2 DEF CheckWatchdog, ScratchAsAsked
    <3>3. CASE ~asked.torn
      <4>1. ~scratch.magic
        BY <2>2, <3>3 DEF ScratchAsAsked, HasVector
      <4>2. asked'.entry = NoEntry
        BY <1>0, <1>3, <3>3 DEF CheckWatchdog, Requests
      <4>. QED
        BY <3>1, <4>1, <4>2 DEF ScratchAsAsked
    <3>. QED
      BY <3>2, <3>3
  <2>. QED
    BY <2>1, <2>2
<1>4. CASE WatchdogReboot
  BY <1>4, ScratchReboot
<1>5. CASE CheckRescue \/ WrapperRuns \/ SampleStrap \/ TryFlash \/ StartClocks
             \/ VectorRuns \/ FlashChanges \/ ProgramStartsCrystal
  <2>1. scratch' = scratch /\ asked' = asked /\ at' \notin {"scratch5", "scratch7"}
    BY <1>5 DEF CheckRescue, WrapperRuns, SampleStrap, TryFlash, StartClocks, VectorRuns,
                FlashChanges, ProgramStartsCrystal
  <2>. QED
    BY <2>1 DEF ScratchAsAsked
<1>6. CASE WatchdogFires \/ PowerCycle \/ Rescue \/ RestartCore0
  <2>1. /\ at' = "start"
        /\ (scratch' = scratch /\ asked' = asked) \/ (scratch' = NoScratch /\ asked' = NotAsked)
    BY <1>6 DEF WatchdogFires, PowerCycle, Rescue, RestartCore0, ChipReset
  <2>. QED
    BY <2>1 DEF ScratchAsAsked, NoScratch, NotAsked
<1>. QED
  BY <1>1, <1>2, <1>3, <1>4, <1>5, <1>6 DEF StartNext, startVars, RomStep, Rom

\* For any masks and number of attempts, a boot goes where the last request for a
\* reboot said, once, unless its writes were cut short, and USB is started without
\* the interfaces that reset_usb_boot named.
THEOREM EntryCorrect == StartSpec => EntryAsAsked
<1>1. ASSUME RomTypeOK, ScratchAsAsked, [StartNext]_startVars
      PROVE  [/\ at = "check_wdog" /\ at' \in {"main", Wrapper, HostCode} /\ ~asked.torn =>
                   at' = IF asked.entry = NoEntry THEN "main" ELSE asked.entry
              /\ at = Wrapper /\ at' = "clocks" => usb' = asked.mask]_startVars
  <2>1. ASSUME at = "check_wdog", at' \in {"main", Wrapper, HostCode}, ~asked.torn
        PROVE  at' = IF asked.entry = NoEntry THEN "main" ELSE asked.entry
    <3>1. CheckWatchdog
      BY <1>1, <2>1 DEF StartNext, startVars, romVars, RomStep, Rom, Asks, CheckRescue,
         WrapperRuns, SampleStrap, TryFlash, StartClocks, VectorRuns, WatchdogReboot,
         DisableWatchdog, WriteMagic, WriteCheck, WriteEntry, ArmWatchdog,
         HostReboots, ProgramResetsToUsb, FlashChanges, ProgramStartsCrystal, WatchdogFires,
         PowerCycle, Rescue, RestartCore0, ChipReset, Wrapper, HostCode
    <3>. QED
      BY <1>1, <2>1, <3>1 DEF CheckWatchdog, HasVector, ScratchAsAsked
  <2>2. ASSUME at = Wrapper, at' = "clocks" PROVE usb' = asked.mask
    <3>1. WrapperRuns
      BY <1>1, <2>2 DEF StartNext, startVars, romVars, RomStep, Rom, Asks, CheckRescue,
         CheckWatchdog, SampleStrap, TryFlash, StartClocks, VectorRuns, WatchdogReboot,
         DisableWatchdog, WriteMagic, WriteCheck, WriteEntry, ArmWatchdog,
         HostReboots, ProgramResetsToUsb, AskReboot, FlashChanges, ProgramStartsCrystal,
         WatchdogFires, PowerCycle, Rescue, RestartCore0, ChipReset, Wrapper, HostCode
    <3>. QED
      BY <1>1, <3>1 DEF WrapperRuns, ScratchAsAsked
  <2>. QED
    BY <2>1, <2>2
<1>. QED
  BY <1>1, RomTypeInit, RomTypeStep, ScratchInit, ScratchStep, PTL DEF StartSpec, EntryAsAsked

=============================================================================
