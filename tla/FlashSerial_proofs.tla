------------------------- MODULE FlashSerial_proofs -------------------------
(***************************************************************************)
(* For any depth of the FIFOs, any number of bytes inside the SSI, any     *)
(* flash and any ranges: the types of FlashSerial, no answer is lost, what *)
(* flash_put_get stores are the answers to its own bytes, and the range    *)
(* functions write the pages of their range and no others.                 *)
(***************************************************************************)
EXTENDS FlashSerial, SequenceTheorems, TLAPS

\* A command as the functions of program_flash_generic.c make them: what they
\* skip is what they have put before.
CommandName == {"none", "write_enable", "program", "sector", "block", "read", "status"}
CommandType ==
    {c \in [name : CommandName, cs : {"low", "high"}, head : Nat, count : Nat, skip : Nat] :
        c.head <= Depth /\ c.skip = c.head}

InPutGet == pc \in {"while", "level", "turn", "end"}

\* The types of FlashTypeOK, by name.
FifoType  == [tx : 0..Depth, inside : 0..Inside, rx : 0..Depth]
ChipType  == [busy : BOOLEAN, wel : BOOLEAN, heard : Nat, garbled : BOOLEAN,
              answer : BOOLEAN]
FlashType == [Page -> Content]
CallType  == [fn : Function \cup {"none"}, start : Nat, goal : Nat,
              before : FlashType, ready : BOOLEAN]
CountType == [tx : Nat, rx : Int, skip : Nat]
SeenType  == [tx : 0..Depth, rx : 0..Depth]

TypeInv ==
    /\ fifo \in FifoType /\ mode \in {"serial", "xip"} /\ cs \in {"low", "high", "normal"}
    /\ aborted \in BOOLEAN /\ chip \in ChipType /\ flash \in FlashType
    /\ pc \in {"idle", "loop", "function", "begin", "while", "level", "turn", "end",
               "exit_xip", "init_spi", "enter_cmd_xip", "flush_cache"}
    /\ call \in CallType /\ addr \in Nat /\ put \in Nat /\ stat \in BOOLEAN
    /\ count \in CountType /\ seen \in SeenType
    /\ todo = <<>> <=> pc \notin {"begin", "while", "level", "turn", "end"}
    /\ todo \in Seq(CommandType)

Total == fifo.tx + fifo.inside + fifo.rx

\* The thread takes no more answers than there are.
SeenInv == pc = "turn" => seen.rx <= fifo.rx

\* What is under way is what has been put and not been taken.
BytesInv ==
    /\ ~InPutGet => Total = 0
    /\ InPutGet => /\ put = todo[1].head + todo[1].count - count.tx
                   /\ Total = count.skip + count.rx - count.tx
                   /\ count.rx >= 0 /\ pc # "end"

\* And what the thread believes to be under way, with what is inside the SSI, is
\* no less.
LevelInv ==
    /\ Total <= Depth
    /\ pc = "level" => fifo.tx <= seen.tx
    /\ pc = "turn" => Total <= seen.tx + seen.rx + Inside

FifoInv == ~aborted /\ pc # "init_spi" => BytesInv /\ LevelInv

FlashInv == TypeInv /\ SeenInv /\ FifoInv

-----------------------------------------------------------------------------
\* Every command the functions make is well formed.
LEMMA CommandsType ==
    /\ ExitSequence \in Seq(CommandType) /\ ExitSequence # <<>>
    /\ \A a : Commands(a) \in Seq(CommandType) /\ Commands(a) # <<>>
<1>1. 1 \in Nat /\ 1 <= Depth /\ AddrBytes \in Nat /\ AddrBytes <= Depth /\ 0 <= Depth
      /\ PageBytes \in Nat
  BY FifoAssumption
<1>2. ASSUME NEW name \in CommandName, NEW level \in {"low", "high"}, NEW head \in Nat,
             head <= Depth, NEW n \in Nat
      PROVE  Command(name, level, head, n) \in CommandType
  BY <1>2 DEF Command, CommandType
<1>3. ASSUME NEW name \in CommandName, NEW n \in Nat
      PROVE  DoCmd(name, n) \in CommandType /\ WithAddr(name, n) \in CommandType
  BY <1>1, <1>2 DEF DoCmd, WithAddr
<1>4. ASSUME NEW name \in CommandName, NEW n \in Nat
      PROVE  Write(name, n) \in Seq(CommandType) /\ Write(name, n) # <<>>
  <2>1. "write_enable" \in CommandName /\ "status" \in CommandName
    BY DEF CommandName
  <2>2. DoCmd("write_enable", 0) \in CommandType /\ DoCmd("status", 1) \in CommandType
    BY <1>3, <2>1
  <2>3. WithAddr(name, n) \in CommandType
    BY <1>3
  <2>. QED
    BY <2>2, <2>3 DEF Write
<1>5. ExitSequence \in Seq(CommandType) /\ ExitSequence # <<>>
  <2>1. "none" \in CommandName
    BY DEF CommandName
  <2>2. /\ Command("none", "high", 0, 4) \in CommandType
        /\ Command("none", "low", 0, 4) \in CommandType
        /\ Command("none", "low", 0, 2) \in CommandType
    BY <1>1, <1>2, <2>1
  <2>. QED
    BY <2>2 DEF ExitSequence
<1>6. WithAddr("read", PageBytes) \in CommandType
  <2>1. "read" \in CommandName
    BY DEF CommandName
  <2>. QED
    BY <1>1, <1>3, <2>1
<1>8. /\ <<WithAddr("read", PageBytes)>> \in Seq(CommandType)
      /\ <<WithAddr("read", PageBytes)>> # <<>>
  BY <1>6
<1>9. {"program", "block", "sector"} \subseteq CommandName
  BY DEF CommandName
<1>10. /\ Write("program", PageBytes) \in Seq(CommandType) /\ Write("program", PageBytes) # <<>>
       /\ Write("block", 0) \in Seq(CommandType) /\ Write("block", 0) # <<>>
       /\ Write("sector", 0) \in Seq(CommandType) /\ Write("sector", 0) # <<>>
  BY <1>1, <1>4, <1>9
<1>7. \A a : Commands(a) \in Seq(CommandType) /\ Commands(a) # <<>>
  BY <1>8, <1>10 DEF Commands
<1> QED BY <1>5, <1>7

\* The first of the commands still to send is one, and what follows are others.
LEMMA TodoType ==
    ASSUME TypeInv, todo # <<>>
    PROVE  /\ todo[1] \in CommandType
           /\ Len(todo) \in Nat \ {0}
           /\ Tail(todo) \in Seq(CommandType)
           /\ Len(todo) > 1 => Tail(todo) # <<>>
<1>1. todo \in Seq(CommandType)
  BY DEF TypeInv
<1>2. Len(todo) \in Nat \ {0}
  BY <1>1, EmptySeq
<1>3. todo[1] \in CommandType
  BY <1>1, <1>2
<1>4. Tail(todo) \in Seq(CommandType) /\ Len(Tail(todo)) = Len(todo) - 1
  BY <1>1, HeadTailProperties
<1>5. Len(todo) > 1 => Tail(todo) # <<>>
  <2>1. Len(<<>>) = 0
    BY EmptySeq
  <2>2. Tail(todo) = <<>> => Len(todo) - 1 = 0
    BY <1>4, <2>1
  <2>. QED
    BY <1>2, <2>2
<1>. QED
  BY <1>2, <1>3, <1>4, <1>5

\* The levels of the FIFOs and the counts, one by one.
LEMMA Fields ==
    ASSUME TypeInv
    PROVE  /\ Depth \in Nat /\ Inside \in Nat
           /\ fifo = [tx |-> fifo.tx, inside |-> fifo.inside, rx |-> fifo.rx]
           /\ fifo.tx \in Nat /\ fifo.tx <= Depth
           /\ fifo.inside \in Nat /\ fifo.inside <= Inside
           /\ fifo.rx \in Nat /\ fifo.rx <= Depth
           /\ seen.tx \in Nat /\ seen.tx <= Depth
           /\ seen.rx \in Nat /\ seen.rx <= Depth
           /\ count.tx \in Nat /\ count.rx \in Int /\ count.skip \in Nat
BY FifoAssumption DEF TypeInv, FifoType, SeenType, CountType

-----------------------------------------------------------------------------
(***************************************************************************)
(* The types.                                                              *)
(***************************************************************************)

LEMMA TypeOfHardware ==
    ASSUME TypeInv, Hardware \/ Abort
    PROVE  TypeInv'
<1>. USE FifoAssumption
<1>1. CASE Shift
  <2>1. fifo' = [tx |-> fifo.tx - 1, inside |-> fifo.inside + 1, rx |-> fifo.rx]
    BY <1>1, Fields DEF Shift
  <2>2. fifo' \in FifoType
    <3>1. /\ fifo.tx - 1 \in 0..Depth /\ fifo.inside + 1 \in 0..Inside
          /\ fifo.rx \in 0..Depth
      BY <1>1, Fields DEF Shift
    <3>. QED
      BY <2>1, <3>1 DEF FifoType
  <2>3. chip' \in ChipType
    <3>. DEFINE garbled == chip.garbled \/ Position # chip.heard + 1
    <3>1. garbled \in BOOLEAN
      OBVIOUS
    <3>2. CASE cs # "low"
      BY <1>1, <3>2 DEF Shift, TypeInv
    <3>3. CASE cs = "low"
      <4>1. /\ chip.busy \in BOOLEAN /\ chip.wel \in BOOLEAN /\ chip.heard + 1 \in Nat
            /\ chip = [busy |-> chip.busy, wel |-> chip.wel, heard |-> chip.heard,
                       garbled |-> chip.garbled, answer |-> chip.answer]
        BY DEF TypeInv, ChipType
      <4>2. chip' = [busy |-> chip.busy, wel |-> chip.wel, heard |-> chip.heard + 1,
                     garbled |-> garbled, answer |-> chip.busy]
        BY <1>1, <3>3, <4>1 DEF Shift
      <4>. HIDE DEF garbled
      <4>. QED
        BY <3>1, <4>1, <4>2 DEF ChipType
    <3>. QED
      BY <3>2, <3>3
  <2>4. UNCHANGED <<mode, cs, flash, aborted, pc, call, addr, todo, put, count, seen, stat>>
    BY <1>1 DEF Shift, codeVars
  <2>. QED
    BY <2>2, <2>3, <2>4 DEF TypeInv
<1>2. CASE Receive
  <2>1. fifo' = [tx |-> fifo.tx, inside |-> fifo.inside - 1,
                 rx |-> IF fifo.rx < Depth THEN fifo.rx + 1 ELSE fifo.rx]
    BY <1>2, Fields DEF Receive
  <2>2. fifo' \in FifoType
    <3>1. /\ fifo.tx \in 0..Depth /\ fifo.inside - 1 \in 0..Inside
          /\ (IF fifo.rx < Depth THEN fifo.rx + 1 ELSE fifo.rx) \in 0..Depth
      BY <1>2, Fields DEF Receive
    <3>. QED
      BY <2>1, <3>1 DEF FifoType
  <2>3. UNCHANGED <<mode, cs, chip, flash, aborted, pc, call, addr, todo, put, count,
                    seen, stat>>
    BY <1>2 DEF Receive, codeVars, chipVars
  <2>. QED
    BY <2>2, <2>3 DEF TypeInv
<1>3. CASE ChipFinishes
  <2>1. chip' \in ChipType
    BY <1>3 DEF ChipFinishes, TypeInv, ChipType
  <2>2. UNCHANGED <<fifo, mode, cs, flash, aborted, pc, call, addr, todo, put, count,
                    seen, stat>>
    BY <1>3 DEF ChipFinishes, codeVars, ssiVars
  <2>. QED
    BY <2>1, <2>2 DEF TypeInv
<1>4. CASE Abort
  BY <1>4 DEF Abort, TypeInv, codeVars, ssiVars, chipVars
<1>. QED
  BY <1>1, <1>2, <1>3, <1>4 DEF Hardware

\* A call, and the functions that have no loop of flash_put_get.
LEMMA TypeOfCall ==
    ASSUME TypeInv,
           Call \/ Connect \/ InitSpi \/ EnterCmdXip \/ FlushCache \/ Loop \/ CallFunction
    PROVE  TypeInv'
<1>. USE FifoAssumption
<1>0. NoCall \in CallType
  BY DEF NoCall, Content, CallType, FlashType
<1>r. Return => /\ pc' = "idle" /\ addr' \in Nat
               /\ call' \in CallType
  BY <1>0 DEF Return
<1>1. CASE Call
  <2>. PICK fn \in Function :
         \E range \in IF fn \in RangeFunction THEN Ranges[fn] ELSE {<<0, 0>>} :
            /\ call' = [fn |-> fn, start |-> range[1], goal |-> range[2],
                        before |-> flash, ready |-> ~chip.busy]
            /\ addr' = range[1]
            /\ pc' = CASE fn \in RangeFunction -> "loop"
                       [] fn = "read_data" -> "function"
                       [] OTHER -> fn
    BY <1>1 DEF Call
  <2>. PICK range \in IF fn \in RangeFunction THEN Ranges[fn] ELSE {<<0, 0>>} :
            /\ call' = [fn |-> fn, start |-> range[1], goal |-> range[2],
                        before |-> flash, ready |-> ~chip.busy]
            /\ addr' = range[1]
            /\ pc' = CASE fn \in RangeFunction -> "loop"
                       [] fn = "read_data" -> "function"
                       [] OTHER -> fn
    OBVIOUS
  <2>1. range \in Nat \X Nat
    BY FlashAssumption
  <2>2. range[1] \in Nat /\ range[2] \in Nat
    BY <2>1
  <2>3. pc' \in {"loop", "function", "exit_xip", "enter_cmd_xip", "flush_cache"}
    BY DEF Function, RangeFunction
  <2>4. call' \in CallType
    BY <2>2 DEF TypeInv, CallType
  <2>5. pc = "idle" /\ UNCHANGED <<fifo, mode, cs, chip, flash, aborted, todo, put, count,
                                 seen, stat>>
    BY <1>1 DEF Call, ssiVars, chipVars
  <2>. QED
    BY <2>2, <2>3, <2>4, <2>5 DEF TypeInv
<1>2. CASE Connect
  BY <1>2 DEF Connect, TypeInv, chipVars
<1>3. CASE InitSpi
  <2>1. ExitSequence \in Seq(CommandType) /\ ExitSequence # <<>>
    BY CommandsType
  <2>. QED
    BY <1>3, <2>1 DEF InitSpi, TypeInv, chipVars, Empty, FifoType
<1>4. CASE EnterCmdXip
  BY <1>4, <1>r DEF EnterCmdXip, TypeInv, chipVars, Empty, FifoType
<1>5. CASE FlushCache
  BY <1>5, <1>r DEF FlushCache, TypeInv, chipVars
<1>6. CASE Loop
  BY <1>6, <1>r DEF Loop, TypeInv, chipVars, ssiVars
<1>7. CASE CallFunction
  <2>1. Commands(addr) \in Seq(CommandType) /\ Commands(addr) # <<>>
    BY CommandsType
  <2>. QED
    BY <1>7, <2>1 DEF CallFunction, TypeInv, chipVars, ssiVars
<1>. QED
  BY <1>1, <1>2, <1>3, <1>4, <1>5, <1>6, <1>7

\* The loop of flash_put_get.
LEMMA TypeOfPutGet ==
    ASSUME TypeInv, SeenInv, Begin \/ ReadLevels \/ Turn
    PROVE  TypeInv'
<1>. USE FifoAssumption
<1>0. pc \in {"begin", "while", "level", "turn"} /\ todo # <<>>
  BY DEF TypeInv, Begin, ReadLevels, Turn
<1>c. /\ todo[1].cs \in {"low", "high"} /\ todo[1].head \in Nat
      /\ todo[1].count \in Nat /\ todo[1].skip \in Nat
  BY <1>0, TodoType DEF CommandType
<1>1. CASE Begin
  <2>1. fifo' = [tx |-> Lesser(fifo.tx + todo[1].head, Depth),
                 inside |-> fifo.inside, rx |-> fifo.rx]
    BY <1>1, Fields DEF Begin
  <2>2. fifo' \in FifoType
    BY <1>c, <2>1, Fields DEF Lesser, FifoType
  <2>3. /\ cs' \in {"low", "high"} /\ put' \in Nat /\ pc' = "while"
        /\ count' \in CountType
        /\ UNCHANGED <<mode, chip, flash, aborted, call, addr, todo, seen, stat>>
    BY <1>1, <1>c DEF Begin, chipVars, CountType
  <2>. QED
    BY <1>0, <2>2, <2>3 DEF TypeInv
<1>2. CASE ReadLevels
  <2>1. seen' \in SeenType /\ pc' \in {"level", "turn"}
    <3>1. seen \in SeenType /\ fifo.tx \in 0..Depth /\ fifo.rx \in 0..Depth
      BY DEF TypeInv, FifoType
    <3>. QED
      BY <1>2, <3>1 DEF ReadLevels, SeenType
  <2>2. UNCHANGED <<fifo, mode, cs, chip, flash, aborted, call, addr, todo, put, count, stat>>
    BY <1>2 DEF ReadLevels, ssiVars, chipVars
  <2>. QED
    BY <1>0, <2>1, <2>2 DEF TypeInv
<1>3. CASE Turn
  <2>1. fifo' = [tx |-> IF Puts THEN Lesser(fifo.tx + 1, Depth) ELSE fifo.tx,
                 inside |-> fifo.inside,
                 rx |-> IF Gets THEN fifo.rx - 1 ELSE fifo.rx]
    BY <1>3, Fields DEF Turn
  <2>2. fifo' \in FifoType
    <3>1. /\ (IF Puts THEN Lesser(fifo.tx + 1, Depth) ELSE fifo.tx) \in 0..Depth
          /\ fifo.inside \in 0..Inside
      BY Fields DEF Lesser
    <3>2. Gets => fifo.rx > 0
      BY <1>3, Fields DEF SeenInv, Gets, Turn
    <3>3. (IF Gets THEN fifo.rx - 1 ELSE fifo.rx) \in 0..Depth
      BY <3>2, Fields
    <3>. QED
      BY <2>1, <3>1, <3>3 DEF FifoType
  <2>3. count' \in CountType
    <3>1. (IF Puts THEN count.tx - 1 ELSE count.tx) \in Nat
      BY Fields DEF Puts
    <3>2. (IF Gets /\ count.skip # 0 THEN count.skip - 1 ELSE count.skip) \in Nat
      BY Fields
    <3>3. (IF Gets /\ count.skip = 0 THEN count.rx - 1 ELSE count.rx) \in Int
      BY Fields
    <3>. QED
      BY <1>3, <3>1, <3>2, <3>3 DEF Turn, CountType
  <2>4. put' \in Nat /\ pc' \in {"while", "end"}
    BY <1>3 DEF Turn, TypeInv
  <2>5. stat' \in BOOLEAN
    <3>1. stat \in BOOLEAN /\ chip.answer \in BOOLEAN
      BY DEF TypeInv, ChipType
    <3>. QED
      BY <1>3, <3>1 DEF Turn
  <2>6. seen' \in SeenType
    BY <1>3 DEF Turn, SeenType
  <2>7. UNCHANGED <<mode, cs, chip, flash, aborted, call, addr, todo>>
    BY <1>3 DEF Turn, chipVars
  <2>. QED
    BY <1>0, <2>2, <2>3, <2>4, <2>5, <2>6, <2>7 DEF TypeInv
<1>. QED
  BY <1>1, <1>2, <1>3

LEMMA TypeOfEnd ==
    ASSUME TypeInv, End
    PROVE  TypeInv'
<1>. USE FifoAssumption
<1>0. pc \in {"while", "end"} /\ todo # <<>>
  BY DEF TypeInv, End
<1>1. Obeyed(todo[1]) \in ChipType
  BY DEF Obeyed, WriteBegins, TypeInv, ChipType
<1>2. Changed(todo[1]) \in FlashType
  BY DEF Changed, Programmed, Content, TypeInv, FlashType
<1>3. Step \in Nat
  BY FlashAssumption DEF Step
<1>4. Return => /\ pc' = "idle" /\ addr' \in Nat
               /\ call' \in CallType
  BY DEF Return, NoCall, Content, CallType, FlashType
<1>5. /\ todo' \in Seq(CommandType)
      /\ cs' \in {"low", "high", "normal"}
      /\ pc' \in {"begin", "loop", "idle"}
      /\ todo' = <<>> <=> pc' # "begin"
  <2>0. /\ Len(todo) \in Nat \ {0} /\ Tail(todo) \in Seq(CommandType)
        /\ Len(todo) > 1 => Tail(todo) # <<>>
    BY <1>0, TodoType
  <2>1. CASE pc' = "begin"
    <3>1. /\ PollsAgain \/ Len(todo) > 1
          /\ todo' = IF PollsAgain THEN todo ELSE Tail(todo)
          /\ cs' = "high"
      BY <2>1 DEF End, Return
    <3>2. todo' \in {todo, Tail(todo)} /\ todo' # <<>>
      BY <1>0, <2>0, <3>1 DEF PollsAgain
    <3>. QED
      BY <2>0, <2>1, <3>1, <3>2 DEF TypeInv
  <2>2. CASE pc' # "begin"
    <3>1. todo' = <<>> /\ cs' \in {"normal", "high"} /\ pc' \in {"loop", "idle"}
      BY <2>2 DEF End, Return
    <3>. QED
      BY <2>2, <3>1
  <2>. QED
    BY <2>1, <2>2
<1>6. addr' \in Nat /\ call' \in CallType
  BY <1>3, <1>4 DEF End, TypeInv
<1>7. /\ put' = 0 /\ count' = Done /\ stat' = FALSE /\ UNCHANGED <<fifo, mode, aborted, seen>>
      /\ chip' = Obeyed(todo[1]) /\ flash' = Changed(todo[1])
  BY DEF End
<1>8. Done \in CountType
  BY DEF Done, CountType
<1>. QED
  BY <1>1, <1>2, <1>5, <1>6, <1>7, <1>8 DEF TypeInv

-----------------------------------------------------------------------------
(***************************************************************************)
(* The bytes under way.                                                    *)
(***************************************************************************)

\* A byte that moves on is not lost and is not counted twice: what arrives
\* finds room.
LEMMA FifoOfHardware ==
    ASSUME FlashInv, Hardware \/ Abort
    PROVE  SeenInv' /\ FifoInv'
<1>0. /\ Depth \in Nat /\ Inside \in Nat
      /\ fifo.tx \in Nat /\ fifo.inside \in Nat /\ fifo.rx \in Nat
      /\ seen.tx \in Nat /\ seen.rx \in Nat
  BY Fields DEF FlashInv
<1>1. CASE Shift
  <2>1. /\ fifo'.tx = fifo.tx - 1 /\ fifo'.inside = fifo.inside + 1 /\ fifo'.rx = fifo.rx
        /\ UNCHANGED <<aborted, pc, todo, put, count, seen>>
    BY <1>1, Fields DEF Shift, codeVars, FlashInv
  <2>2. Total' = Total
    BY <1>0, <2>1 DEF Total
  <2>. QED
    BY <1>0, <2>1, <2>2 DEF FlashInv, SeenInv, FifoInv, BytesInv, LevelInv, InPutGet
<1>2. CASE Receive
  <2>1. /\ fifo'.tx = fifo.tx /\ fifo'.inside = fifo.inside - 1 /\ fifo.inside > 0
        /\ fifo'.rx = IF fifo.rx < Depth THEN fifo.rx + 1 ELSE fifo.rx
        /\ UNCHANGED <<aborted, pc, todo, put, count, seen>>
    BY <1>2, Fields DEF Receive, codeVars, FlashInv
  <2>2. ~aborted /\ pc # "init_spi" => Total' = Total
    BY <1>0, <2>1 DEF Total, FlashInv, FifoInv, LevelInv
  <2>3. SeenInv'
    BY <1>0, <2>1 DEF SeenInv, FlashInv
  <2>4. FifoInv'
    BY <1>0, <2>1, <2>2 DEF FlashInv, FifoInv, BytesInv, LevelInv, InPutGet
  <2>. QED
    BY <2>3, <2>4
<1>3. CASE ChipFinishes
  BY <1>3 DEF ChipFinishes, codeVars, ssiVars, FlashInv, SeenInv, FifoInv, BytesInv,
              LevelInv, InPutGet, Total
<1>4. CASE Abort
  BY <1>4 DEF Abort, codeVars, ssiVars, FlashInv, SeenInv, FifoInv
<1>. QED
  BY <1>1, <1>2, <1>3, <1>4 DEF Hardware

\* Outside flash_put_get the FIFOs stay as they are, or are emptied.
LEMMA FifoOfCall ==
    ASSUME FlashInv,
           Call \/ Connect \/ InitSpi \/ EnterCmdXip \/ FlushCache \/ Loop \/ CallFunction
    PROVE  SeenInv' /\ FifoInv'
<1>1. /\ pc \notin {"while", "level", "turn", "end"}
      /\ pc' \notin {"while", "level", "turn", "end"}
  <2>1. CASE Call
    BY <2>1 DEF Call, Function, RangeFunction
  <2>. QED
    BY <2>1 DEF Connect, InitSpi, EnterCmdXip, FlushCache, Loop, CallFunction, Return
<1>2. fifo' = Empty \/ pc' = "init_spi" \/ (UNCHANGED <<fifo, aborted>> /\ pc # "init_spi")
  BY DEF Call, Connect, InitSpi, EnterCmdXip, FlushCache, Loop, CallFunction, ssiVars
<1>3. Depth \in Nat
  BY FifoAssumption
<1>4. CASE fifo' = Empty
  <2>1. Total' = 0
    BY <1>4 DEF Total, Empty
  <2>. QED
    BY <1>1, <1>3, <2>1 DEF SeenInv, FifoInv, BytesInv, LevelInv, InPutGet
<1>5. CASE pc' = "init_spi"
  BY <1>5 DEF SeenInv, FifoInv
<1>6. CASE UNCHANGED <<fifo, aborted>> /\ pc # "init_spi"
  <2>1. Total' = Total
    BY <1>6 DEF Total
  <2>. QED
    BY <1>1, <1>6, <2>1 DEF FlashInv, SeenInv, FifoInv, BytesInv, LevelInv, InPutGet
<1>. QED
  BY <1>2, <1>4, <1>5, <1>6

\* A byte is only put when it and its answer have room, even if the levels are
\* out of date by then, and the counts go with what is under way.
LEMMA FifoOfPutGet ==
    ASSUME FlashInv, Begin \/ ReadLevels \/ Turn
    PROVE  SeenInv' /\ FifoInv'
<1>0. /\ Depth \in Nat /\ Inside \in Nat
      /\ fifo.tx \in Nat /\ fifo.inside \in Nat /\ fifo.rx \in Nat
      /\ fifo.tx <= Depth /\ fifo.inside <= Inside
      /\ seen.tx \in Nat /\ seen.rx \in Nat
      /\ count.tx \in Nat /\ count.rx \in Int /\ count.skip \in Nat
  BY Fields DEF FlashInv
<1>t. /\ todo[1].head \in Nat /\ todo[1].head <= Depth
      /\ todo[1].count \in Nat /\ todo[1].skip = todo[1].head
  <2>1. TypeInv /\ pc \in {"begin", "while", "level", "turn"}
    BY DEF FlashInv, Begin, ReadLevels, Turn
  <2>2. todo # <<>>
    BY <2>1 DEF TypeInv
  <2>. QED
    BY <2>1, <2>2, TodoType DEF CommandType
<1>1. CASE Begin
  <2>1. /\ fifo'.tx = Lesser(fifo.tx + todo[1].head, Depth)
        /\ fifo'.inside = fifo.inside /\ fifo'.rx = fifo.rx
    BY <1>1, Fields DEF Begin, FlashInv
  <2>2. /\ pc = "begin" /\ pc' = "while" /\ put' = todo[1].head
        /\ count'.tx = todo[1].count /\ count'.rx = todo[1].count
        /\ count'.skip = todo[1].skip /\ UNCHANGED <<aborted, todo>>
    BY <1>1 DEF Begin
  <2>3. ASSUME ~aborted
        PROVE  Total' = todo[1].head
    <3>1. Total = 0
      BY <2>2, <2>3 DEF FlashInv, FifoInv, BytesInv, InPutGet
    <3>2. fifo.tx = 0 /\ fifo.inside = 0 /\ fifo.rx = 0
      BY <1>0, <3>1 DEF Total
    <3>. QED
      BY <1>0, <1>t, <2>1, <3>2 DEF Total, Lesser
  <2>. QED
    BY <1>0, <1>t, <2>2, <2>3 DEF SeenInv, FifoInv, BytesInv, LevelInv, InPutGet
<1>2. CASE ReadLevels
  <2>1. /\ UNCHANGED <<fifo, aborted, todo, put, count>>
        /\ \/ pc = "while" /\ pc' = "level" /\ seen'.tx = fifo.tx
           \/ pc = "level" /\ pc' = "turn" /\ seen'.rx = fifo.rx /\ seen'.tx = seen.tx
    BY <1>2 DEF ReadLevels, ssiVars, FlashInv, TypeInv, SeenType
  <2>2. Total' = Total /\ Total = fifo.tx + fifo.inside + fifo.rx
    BY <2>1 DEF Total
  <2>3. SeenInv'
    BY <1>0, <2>1 DEF SeenInv
  <2>4. FifoInv'
    BY <1>0, <2>1, <2>2 DEF FlashInv, FifoInv, BytesInv, LevelInv, InPutGet
  <2>. QED
    BY <2>3, <2>4
<1>3. CASE Turn
  <2>1. /\ fifo'.tx = IF Puts THEN Lesser(fifo.tx + 1, Depth) ELSE fifo.tx
        /\ fifo'.inside = fifo.inside
        /\ fifo'.rx = IF Gets THEN fifo.rx - 1 ELSE fifo.rx
    BY <1>3, Fields DEF Turn, FlashInv
  <2>2. /\ pc = "turn" /\ pc' \in {"while", "end"} /\ UNCHANGED <<aborted, todo>>
        /\ ~aborted => pc' = "while"
        /\ put' = IF Puts THEN put + 1 ELSE put
        /\ count'.tx = IF Puts THEN count.tx - 1 ELSE count.tx
        /\ count'.skip = IF Gets /\ count.skip # 0 THEN count.skip - 1 ELSE count.skip
        /\ count'.rx = IF Gets /\ count.skip = 0 THEN count.rx - 1 ELSE count.rx
    BY <1>3 DEF Turn, GivesUp
  <2>3. put \in Nat
    BY DEF FlashInv, TypeInv
  <2>4. ASSUME ~aborted
        PROVE  BytesInv' /\ LevelInv'
    <3>1. /\ put = todo[1].head + todo[1].count - count.tx
          /\ Total = count.skip + count.rx - count.tx
          /\ count.rx >= 0 /\ Total <= Depth /\ Total <= seen.tx + seen.rx + Inside
          /\ Total = fifo.tx + fifo.inside + fifo.rx
      BY <2>2, <2>4 DEF FlashInv, FifoInv, BytesInv, LevelInv, InPutGet, Total
    <3>2. Puts => count.tx # 0 /\ Total < Depth /\ fifo.tx < Depth
      BY <1>0, <3>1 DEF Puts
    <3>3. Gets => fifo.rx > 0
      BY <1>0, <2>2 DEF Gets, FlashInv, SeenInv
    <3>4. Total' = (Total + (IF Puts THEN 1 ELSE 0)) - (IF Gets THEN 1 ELSE 0)
      <4>1. fifo'.tx = fifo.tx + (IF Puts THEN 1 ELSE 0)
        BY <1>0, <2>1, <3>2 DEF Lesser
      <4>2. fifo'.rx = fifo.rx - (IF Gets THEN 1 ELSE 0)
        BY <1>0, <2>1
      <4>. QED
        BY <1>0, <2>1, <3>1, <4>1, <4>2 DEF Total
    <3>5. count.skip = 0 /\ Gets => count.rx > 0
      BY <1>0, <3>1, <3>3
    <3>. QED
      BY <1>0, <1>t, <2>2, <2>3, <2>4, <3>1, <3>2, <3>4, <3>5 DEF BytesInv, LevelInv, InPutGet
  <2>. QED
    BY <2>2, <2>4 DEF SeenInv, FifoInv
<1>. QED
  BY <1>1, <1>2, <1>3

\* flash_put_get returns when it has taken every answer.
LEMMA FifoOfEnd ==
    ASSUME FlashInv, End
    PROVE  SeenInv' /\ FifoInv'
<1>1. /\ UNCHANGED <<fifo, aborted>> /\ pc \in {"while", "end"}
      /\ pc = "while" => count = Done
      /\ pc' \in {"begin", "loop", "idle"}
  BY DEF End, Return
<1>2. Total' = Total
  BY <1>1 DEF Total
<1>3. Depth \in Nat
  BY FifoAssumption
<1>4. ~aborted => Total = 0
  BY <1>1 DEF FlashInv, FifoInv, BytesInv, InPutGet, Done
<1>. QED
  BY <1>1, <1>2, <1>3, <1>4 DEF SeenInv, FifoInv, BytesInv, LevelInv, InPutGet

-----------------------------------------------------------------------------
(***************************************************************************)
(* The theorems.                                                           *)
(***************************************************************************)

LEMMA FlashInvInit == FlashInit => FlashInv
<1>. SUFFICES ASSUME FlashInit PROVE FlashInv
  OBVIOUS
<1>. USE FifoAssumption
<1>1. NoCall \in CallType
  BY DEF NoCall, Content, CallType, FlashType
<1>2. flash \in FlashType
  BY DEF FlashInit, Content, FlashType
<1>3. TypeInv
  <2>1. /\ Empty \in FifoType
        /\ Done \in CountType
        /\ [tx |-> 0, rx |-> 0] \in SeenType
    BY DEF Empty, Done, FifoType, CountType, SeenType
  <2>2. todo \in Seq(CommandType)
    BY EmptySeq DEF FlashInit
  <2>3. /\ fifo = Empty /\ count = Done /\ seen = [tx |-> 0, rx |-> 0]
        /\ call = NoCall /\ todo = <<>> /\ pc = "idle" /\ addr = 0 /\ put = 0
        /\ mode = "xip" /\ cs = "normal" /\ aborted = FALSE /\ stat = FALSE
    BY DEF FlashInit
  <2>4. chip \in ChipType
    BY DEF FlashInit, ChipType
  <2>. QED
    BY <1>1, <1>2, <2>1, <2>2, <2>3, <2>4 DEF TypeInv
<1>4. Total = 0 /\ pc = "idle"
  BY DEF FlashInit, Total, Empty
<1>. QED
  BY <1>3, <1>4 DEF FlashInv, SeenInv, FifoInv, BytesInv, LevelInv, InPutGet

LEMMA FlashInvNext == FlashInv /\ [FlashNext]_flashVars => FlashInv'
<1>. SUFFICES ASSUME FlashInv, [FlashNext]_flashVars
              PROVE  FlashInv'
  OBVIOUS
<1>1. CASE Hardware \/ Abort
  BY <1>1, TypeOfHardware, FifoOfHardware DEF FlashInv
<1>2. CASE Call \/ Connect \/ InitSpi \/ EnterCmdXip \/ FlushCache \/ Loop \/ CallFunction
  BY <1>2, TypeOfCall, FifoOfCall DEF FlashInv
<1>3. CASE Begin \/ ReadLevels \/ Turn
  BY <1>3, TypeOfPutGet, FifoOfPutGet DEF FlashInv
<1>4. CASE End
  BY <1>4, TypeOfEnd, FifoOfEnd DEF FlashInv
<1>5. CASE UNCHANGED flashVars
  BY <1>5 DEF flashVars, ssiVars, chipVars, codeVars, FlashInv, TypeInv,
              SeenInv, FifoInv, BytesInv, LevelInv, InPutGet, Total
<1>. QED
  BY <1>1, <1>2, <1>3, <1>4, <1>5 DEF FlashNext, Code

LEMMA FlashInvHolds == FlashSafety => []FlashInv
<1>. QED
  BY FlashInvInit, FlashInvNext, PTL DEF FlashSafety

\* FlashTypeOK always holds: the levels of the FIFOs and the unsigned counts of
\* flash_put_get stay in their ranges.
THEOREM FlashTypeCorrect == FlashSafety => []FlashTypeOK
<1>1. FlashInv => FlashTypeOK
  BY DEF FlashInv, TypeInv, FlashTypeOK, FifoType, ChipType, CallType, CountType,
         SeenType, FlashType
<1>. QED
  BY <1>1, FlashInvHolds, PTL

\* RxNeverOverflows always holds: whatever delays the thread between the two
\* reads of a level and the put that follows, an answer finds room
\* (max_in_flight in flash_put_get).
THEOREM FifoCorrect == FlashSafety => []RxNeverOverflows
<1>1. FlashInv => RxNeverOverflows
  <2>. SUFFICES ASSUME FlashInv, ~aborted, pc # "init_spi", fifo.inside > 0,
                       fifo.rx = Depth
                PROVE  FALSE
    BY DEF RxNeverOverflows
  <2>1. fifo.tx \in Nat /\ fifo.inside \in Nat /\ fifo.rx \in Nat
    BY Fields DEF FlashInv
  <2>2. fifo.tx + fifo.inside + fifo.rx <= Depth
    BY DEF FlashInv, FifoInv, LevelInv, Total
  <2>. QED
    BY <2>1, <2>2
<1>. QED
  BY <1>1, FlashInvHolds, PTL

\* AnswersMatch holds of every step: rx_skip leaves out the answers to the head
\* of the command, and a command starts with nothing left over (flash_put_get,
\* flash_put_cmd_addr).
THEOREM AnswersCorrect == FlashSafety => AnswersMatch
<1>1. FlashInv /\ [FlashNext]_flashVars =>
        [pc = "turn" /\ pc' # pc /\ Gets /\ count.skip = 0 /\ ~aborted
            => /\ count.rx > 0
               /\ put - (fifo.tx + fifo.inside + fifo.rx)
                      = todo[1].head + todo[1].count - count.rx
        ]_<<pc, count, fifo, put, todo>>
  <2>. SUFFICES ASSUME FlashInv, pc = "turn", Gets, count.skip = 0, ~aborted
                PROVE  /\ count.rx > 0
                       /\ put - (fifo.tx + fifo.inside + fifo.rx)
                              = todo[1].head + todo[1].count - count.rx
    OBVIOUS
  <2>1. /\ fifo.tx \in Nat /\ fifo.inside \in Nat /\ fifo.rx \in Nat /\ seen.rx \in Nat
        /\ count.tx \in Nat /\ count.rx \in Int
    BY Fields DEF FlashInv
  <2>2. todo # <<>>
    BY DEF FlashInv, TypeInv
  <2>3. todo[1].head \in Nat /\ todo[1].count \in Nat
    BY <2>2, TodoType DEF FlashInv, CommandType
  <2>4. /\ put = todo[1].head + todo[1].count - count.tx
        /\ fifo.tx + fifo.inside + fifo.rx = count.skip + count.rx - count.tx
        /\ seen.rx <= fifo.rx
    BY DEF FlashInv, FifoInv, BytesInv, SeenInv, InPutGet, Total
  <2>5. fifo.rx > 0
    BY <2>1, <2>4 DEF Gets
  <2>. QED
    BY <2>1, <2>3, <2>4, <2>5
<1>. QED
  BY <1>1, FlashInvHolds, PTL DEF FlashSafety, AnswersMatch

-----------------------------------------------------------------------------
(***************************************************************************)
(* What the range functions do to the flash.                               *)
(***************************************************************************)

\* The commands of one turn of the loops, by themselves.
Enable == DoCmd("write_enable", 0)
Alter ==
    IF call.fn = "range_program" THEN WithAddr("program", PageBytes)
    ELSE WithAddr(IF TakesBlock(addr) THEN "block" ELSE "sector", 0)
Poll == DoCmd("status", 1)

\* What each function leaves to be sent; a function without a range alters
\* nothing.
CallInv ==
    /\ pc = "idle" <=> call.fn = "none"
    /\ pc = "loop" => call.fn \in RangeFunction
    /\ pc \in {"exit_xip", "init_spi", "enter_cmd_xip", "flush_cache"}
          => call.fn \notin RangeFunction
    /\ call.fn \notin RangeFunction =>
          /\ \A i \in 1..Len(todo) : todo[i].name \in {"none", "read"}
          /\ pc # "idle" => flash = call.before
    /\ call.fn \in RangeFunction /\ todo # <<>> =>
          todo \in {<<Enable, Alter, Poll>>, <<Alter, Poll>>, <<Poll>>}

\* The loops go from one whole page to another and stop short of a page beyond
\* the goal.
AddrInv ==
    call.fn \in RangeFunction =>
        /\ \E k \in 0..call.start : call.start = 2 * k
        /\ \E k \in 0..addr : addr = 2 * k
        /\ call.start <= addr
        /\ addr = call.start \/ addr <= call.goal + 1
        /\ pc # "loop" => addr < call.goal

\* The chip is selected for a command only, and has heard nothing otherwise.
ChipInv ==
    /\ cs = "low" => InPutGet
    /\ InPutGet => cs = todo[1].cs
    /\ cs # "low" => chip.heard = 0 /\ ~chip.garbled /\ ~chip.answer
    /\ InPutGet /\ cs = "low" /\ ~aborted => 
          /\ chip.heard = put - fifo.tx /\ ~chip.garbled
          /\ chip.heard > 0 /\ ~chip.answer => ~chip.busy

\* When the answer to a status command has come and has not the busy bit, the
\* chip is not busy.
PollInv ==
    /\ ~InPutGet => ~stat
    /\ InPutGet /\ ~aborted /\ todo[1].name = "status" /\ count.rx = 0 /\ ~stat => ~chip.busy

\* The pages from the start of the range up to an address have been written.
WrittenTo(a) ==
    flash = [p \in Page |->
                IF p \notin Span(call.start, a) THEN call.before[p]
                ELSE IF call.fn = "range_erase" THEN "erased"
                ELSE Programmed(call.before[p])]

\* What a range function has done, if nothing aborts it.
ProgressInv ==
    call.fn \in RangeFunction /\ ~aborted /\ call.ready =>
        /\ todo # <<Poll>> => ~chip.busy /\ WrittenTo(addr)
        /\ todo = <<Alter, Poll>> => chip.wel
        /\ todo = <<Poll>> => WrittenTo(addr + Step)

RangeInv == CallInv /\ AddrInv /\ ChipInv /\ PollInv /\ ProgressInv

\* The commands of a turn, and what is left after each.
LEMMA TurnCommands ==
    /\ Enable.name = "write_enable" /\ Enable.head = 1 /\ Enable.count = 0
    /\ Enable.cs = "low"
    /\ Poll.name = "status" /\ Poll.head = 1 /\ Poll.count = 1 /\ Poll.cs = "low"
    /\ Alter.name \in {"program", "sector", "block"}
    /\ Alter.head = AddrBytes /\ Alter.cs = "low"
    /\ call.fn = "range_program" => Alter.name = "program" /\ Alter.count = PageBytes
    /\ call.fn # "range_program" => Alter.name # "program" /\ Alter.count = 0
BY DEF Enable, Poll, Alter, DoCmd, WithAddr, Command

LEMMA TurnSequences ==
    /\ Len(<<Enable, Alter, Poll>>) = 3 /\ Len(<<Alter, Poll>>) = 2 /\ Len(<<Poll>>) = 1
    /\ <<Enable, Alter, Poll>>[1] = Enable /\ <<Alter, Poll>>[1] = Alter
    /\ <<Poll>>[1] = Poll
    /\ Tail(<<Enable, Alter, Poll>>) = <<Alter, Poll>> /\ Tail(<<Alter, Poll>>) = <<Poll>>
OBVIOUS

LEMMA TurnBegins ==
    ASSUME call.fn \in RangeFunction
    PROVE  Commands(addr) = <<Enable, Alter, Poll>>
BY DEF Commands, Write, Enable, Alter, Poll, RangeFunction

\* Where one part of a range ends at a page, the next one begins.
LEMMA SpanJoins ==
    ASSUME NEW a \in Nat, NEW k \in Nat, NEW c \in Nat, a <= 2 * k, 2 * k <= c
    PROVE  \A p \in Page : /\ p \in Span(a, c) <=> p \in Span(a, 2 * k) \/ p \in Span(2 * k, c)
                           /\ ~(p \in Span(a, 2 * k) /\ p \in Span(2 * k, c))
<1>1. Page \subseteq Int
  BY FlashAssumption DEF Page
<1>. QED
  BY <1>1 DEF Span

LEMMA SpanEmpty ==
    ASSUME NEW k \in Nat, NEW c \in Nat, c <= 2 * k
    PROVE  \A p \in Page : p \notin Span(2 * k, c)
<1>1. Page \subseteq Int
  BY FlashAssumption DEF Page
<1>. QED
  BY <1>1 DEF Span

\* The last turn goes up to the end of the page in which the range ends.
LEMMA SpanRounds ==
    ASSUME NEW a \in Nat, NEW k \in Nat, NEW c \in Nat, c <= 2 * k, 2 * k <= c + 1
    PROVE  \A p \in Page : p \in Span(a, 2 * k) <=> p \in Span(a, c)
<1>1. Page \subseteq Int
  BY FlashAssumption DEF Page
<1>. QED
  BY <1>1 DEF Span

\* A step that leaves the call, its address and the commands to send as they are.
LEMMA SameCall ==
    ASSUME CallInv, AddrInv, UNCHANGED <<call, addr, todo, flash>>,
           pc' = pc \/ {pc, pc'} \subseteq {"begin", "while", "level", "turn", "end"}
    PROVE  CallInv' /\ AddrInv'
<1>1. Alter' = Alter
  BY DEF Alter, TakesBlock
<1>2. Enable' = Enable /\ Poll' = Poll
  BY DEF Enable, Poll
<1>3. CallInv'
  BY <1>1, <1>2 DEF CallInv
<1>4. AddrInv'
  BY DEF AddrInv
<1>. QED
  BY <1>3, <1>4

LEMMA SameProgress ==
    ASSUME ProgressInv, UNCHANGED <<call, addr, todo, flash>>, ~aborted' => ~aborted,
           chip'.busy => chip.busy, chip'.wel <=> chip.wel
    PROVE  ProgressInv'
<1>1. Alter' = Alter
  BY DEF Alter, TakesBlock
<1>2. Enable' = Enable /\ Poll' = Poll
  BY DEF Enable, Poll
<1>3. Step' = Step
  BY DEF Step, TakesBlock
<1>4. WrittenTo(addr)' <=> WrittenTo(addr)
  BY DEF WrittenTo
<1>5. WrittenTo(addr + Step)' <=> WrittenTo(addr + Step)
  BY <1>3 DEF WrittenTo
<1>. QED
  BY <1>1, <1>2, <1>4, <1>5 DEF ProgressInv

LEMMA RangeOfHardware ==
    ASSUME FlashInv, RangeInv, Hardware \/ Abort
    PROVE  RangeInv'
<1>0. /\ fifo.tx \in Nat /\ put \in Nat /\ chip.heard \in Nat
      /\ chip = [busy |-> chip.busy, wel |-> chip.wel, heard |-> chip.heard,
                 garbled |-> chip.garbled, answer |-> chip.answer]
  BY Fields DEF FlashInv, TypeInv, ChipType
<1>1. /\ UNCHANGED <<call, addr, todo, flash, pc, cs, put, stat, count>>
      /\ ~aborted' => ~aborted
      /\ chip'.busy => chip.busy
      /\ chip'.wel <=> chip.wel
  <2>1. CASE Shift
    <3>1. chip'.busy = chip.busy /\ chip'.wel = chip.wel
      BY <1>0, <2>1 DEF Shift
    <3>. QED
      BY <2>1, <3>1 DEF Shift, codeVars
  <2>2. CASE Receive \/ Abort
    BY <2>2 DEF Receive, Abort, codeVars, chipVars, ssiVars
  <2>3. CASE ChipFinishes
    <3>1. chip'.busy = FALSE /\ chip'.wel = chip.wel
      BY <1>0, <2>3 DEF ChipFinishes
    <3>. QED
      BY <2>3, <3>1 DEF ChipFinishes, codeVars, ssiVars
  <2>. QED
    BY <2>1, <2>2, <2>3 DEF Hardware
<1>2. CallInv' /\ AddrInv'
  BY <1>1, SameCall DEF RangeInv
<1>3. ProgressInv'
  BY <1>1, SameProgress DEF RangeInv
<1>4. PollInv'
  BY <1>1 DEF RangeInv, PollInv, InPutGet
<1>5. ChipInv'
  <2>1. CASE Shift
    <3>1. CASE cs # "low"
      BY <1>1, <2>1, <3>1 DEF Shift, RangeInv, ChipInv, InPutGet
    <3>2. CASE cs = "low"
      <4>1. /\ chip'.heard = chip.heard + 1 /\ chip'.answer = chip.busy
            /\ chip'.garbled <=> (chip.garbled \/ Position # chip.heard + 1)
            /\ chip'.busy = chip.busy
        BY <1>0, <2>1, <3>2 DEF Shift
      <4>2. fifo'.tx = fifo.tx - 1
        BY <2>1, Fields DEF Shift, FlashInv
      <4>3. InPutGet /\ ~aborted => Position = chip.heard + 1 /\ ~chip.garbled
        BY <1>0, <3>2 DEF RangeInv, ChipInv, Position
      <4>. QED
        BY <1>0, <1>1, <3>2, <4>1, <4>2, <4>3 DEF RangeInv, ChipInv, InPutGet
    <3>. QED
      BY <3>1, <3>2
  <2>2. CASE Receive
    <3>1. fifo'.tx = fifo.tx /\ chip' = chip
      BY <2>2, Fields DEF Receive, FlashInv, chipVars
    <3>. QED
      BY <1>1, <3>1 DEF RangeInv, ChipInv, InPutGet
  <2>3. CASE ChipFinishes
    <3>1. /\ chip'.heard = chip.heard /\ chip'.garbled = chip.garbled
          /\ chip'.answer = chip.answer /\ chip'.busy = FALSE /\ fifo' = fifo
      BY <1>0, <2>3 DEF ChipFinishes, ssiVars
    <3>. QED
      BY <1>1, <3>1 DEF RangeInv, ChipInv, InPutGet
  <2>4. CASE Abort
    <3>1. chip' = chip /\ fifo' = fifo /\ aborted' = TRUE
      BY <2>4 DEF Abort, chipVars, ssiVars
    <3>. QED
      BY <1>1, <3>1 DEF RangeInv, ChipInv, InPutGet
  <2>. QED
    BY <2>1, <2>2, <2>3, <2>4 DEF Hardware
<1>. QED
  BY <1>2, <1>3, <1>4, <1>5 DEF RangeInv

\* Outside flash_put_get the chip is not selected, and a call starts with a range
\* that is still to be written.
LEMMA RangeOfCall ==
    ASSUME FlashInv, RangeInv,
           Call \/ Connect \/ InitSpi \/ EnterCmdXip \/ FlushCache \/ Loop \/ CallFunction
    PROVE  RangeInv'
<1>0. TypeInv /\ CallInv /\ AddrInv /\ ChipInv /\ PollInv /\ ProgressInv
  BY DEF FlashInv, RangeInv
<1>1. /\ pc \notin {"while", "level", "turn", "end"}
      /\ pc' \notin {"while", "level", "turn", "end"}
  <2>1. CASE Call
    BY <2>1 DEF Call, Function, RangeFunction
  <2>. QED
    BY <2>1 DEF Connect, InitSpi, EnterCmdXip, FlushCache, Loop, CallFunction, Return
<1>2. UNCHANGED <<chip, flash, stat>> /\ cs' \in {cs, "normal"} /\ (aborted' => aborted)
  BY DEF Call, Connect, InitSpi, EnterCmdXip, FlushCache, Loop, CallFunction, ssiVars,
         chipVars, TypeInv
<1>3. ChipInv' /\ PollInv'
  BY <1>0, <1>1, <1>2 DEF ChipInv, PollInv, InPutGet
<1>4. todo = <<>>
  <2>1. pc # "begin"
    BY DEF Call, Connect, InitSpi, EnterCmdXip, FlushCache, Loop, CallFunction
  <2>. QED
    BY <1>0, <1>1, <2>1 DEF TypeInv
<1>5. Len(<<>>) = 0 /\ 1..0 = {} /\ <<>> # <<Poll>> /\ <<>> # <<Alter, Poll>>
  OBVIOUS
<1>6. CASE todo' = <<>> /\ Return
  <2>1. call'.fn = "none" /\ pc' = "idle" /\ "none" \notin RangeFunction
    BY <1>6 DEF Return, NoCall, RangeFunction
  <2>2. CallInv'
    BY <1>5, <1>6, <2>1 DEF CallInv
  <2>. QED
    BY <1>3, <2>1, <2>2 DEF AddrInv, ProgressInv, RangeInv
<1>7. CASE Call
  <2>. PICK fn \in Function :
         \E range \in IF fn \in RangeFunction THEN Ranges[fn] ELSE {<<0, 0>>} :
            /\ call' = [fn |-> fn, start |-> range[1], goal |-> range[2],
                        before |-> flash, ready |-> ~chip.busy]
            /\ addr' = range[1]
            /\ pc' = CASE fn \in RangeFunction -> "loop"
                       [] fn = "read_data" -> "function"
                       [] OTHER -> fn
    BY <1>7 DEF Call
  <2>. PICK range \in IF fn \in RangeFunction THEN Ranges[fn] ELSE {<<0, 0>>} :
            /\ call' = [fn |-> fn, start |-> range[1], goal |-> range[2],
                        before |-> flash, ready |-> ~chip.busy]
            /\ addr' = range[1]
            /\ pc' = CASE fn \in RangeFunction -> "loop"
                       [] fn = "read_data" -> "function"
                       [] OTHER -> fn
    OBVIOUS
  <2>1. /\ call'.fn = fn /\ call'.start = range[1] /\ call'.goal = range[2]
        /\ call'.before = flash /\ call'.ready = ~chip.busy
    OBVIOUS
  <2>2. /\ fn # "none" /\ pc' # "idle"
        /\ fn \in RangeFunction => pc' = "loop"
        /\ fn \notin RangeFunction => pc' # "loop"
    BY DEF Function, RangeFunction
  <2>3. todo' = <<>>
    BY <1>4, <1>7 DEF Call
  <2>4. CallInv'
    <3>1. pc' = "loop" => fn \in RangeFunction
      BY <2>2
    <3>2. pc' \in {"exit_xip", "init_spi", "enter_cmd_xip", "flush_cache"}
            => fn \notin RangeFunction
      BY <2>2
    <3>. QED
      BY <1>2, <1>5, <2>1, <2>2, <2>3, <3>1, <3>2 DEF CallInv
  <2>5. CASE fn \in RangeFunction
    <3>1. range[1] \in Nat /\ range[1] % 2 = 0
      BY <2>5, FlashAssumption, AlignmentAssumption
    <3>2. \E k \in 0..range[1] : range[1] = 2 * k
      <4>1. range[1] \div 2 \in 0..range[1] /\ range[1] = 2 * (range[1] \div 2)
        BY <3>1
      <4>. QED
        BY <4>1
    <3>3. AddrInv'
      BY <2>1, <2>2, <2>5, <3>1, <3>2 DEF AddrInv
    <3>4. \A p \in Page : p \notin Span(range[1], range[1])
      BY <3>1, <3>2, SpanEmpty
    <3>5. flash = [p \in Page |-> flash[p]]
      BY <1>0 DEF TypeInv, FlashType
    <3>6. WrittenTo(addr)'
      BY <1>2, <2>1, <3>4, <3>5 DEF WrittenTo
    <3>7. call'.ready => ~chip'.busy
      BY <1>0, <1>2, <2>1 DEF TypeInv, ChipType
    <3>8. ProgressInv'
      BY <1>5, <2>3, <3>6, <3>7 DEF ProgressInv
    <3>. QED
      BY <1>3, <2>4, <3>3, <3>8 DEF RangeInv
  <2>6. CASE fn \notin RangeFunction
    BY <1>3, <2>1, <2>4, <2>6 DEF RangeInv, AddrInv, ProgressInv
  <2>. QED
    BY <2>5, <2>6
<1>8. CASE Connect
  <2>1. /\ UNCHANGED <<call, addr, todo>> /\ pc = "exit_xip" /\ pc' = "init_spi"
    BY <1>8 DEF Connect
  <2>2. call.fn \notin RangeFunction
    BY <1>0, <2>1 DEF CallInv
  <2>3. CallInv'
    BY <1>0, <1>2, <2>1, <2>2, <1>4, <1>5 DEF CallInv
  <2>. QED
    BY <1>3, <2>1, <2>2, <2>3 DEF RangeInv, AddrInv, ProgressInv
<1>9. CASE InitSpi
  <2>1. /\ UNCHANGED <<call, addr>> /\ pc = "init_spi" /\ pc' = "begin"
        /\ todo' = ExitSequence
    BY <1>9 DEF InitSpi
  <2>2. call.fn \notin RangeFunction
    BY <1>0, <2>1 DEF CallInv
  <2>3. \A i \in 1..Len(ExitSequence) : ExitSequence[i].name \in {"none", "read"}
    BY DEF ExitSequence, Command
  <2>4. CallInv'
    BY <1>0, <1>2, <2>1, <2>2, <2>3 DEF CallInv
  <2>. QED
    BY <1>3, <2>1, <2>2, <2>4 DEF RangeInv, AddrInv, ProgressInv
<1>10. CASE Loop /\ ~Return
  <2>1. /\ pc = "loop" /\ pc' = "function" /\ addr < call.goal
        /\ UNCHANGED <<call, addr, todo, aborted>>
    BY <1>10 DEF Loop
  <2>2. call.fn \in RangeFunction
    BY <1>0, <2>1 DEF CallInv
  <2>3. CallInv'
    BY <1>0, <1>2, <1>4, <2>1, <2>2 DEF CallInv
  <2>4. AddrInv'
    BY <1>0, <2>1 DEF AddrInv
  <2>5. ProgressInv'
    BY <1>0, <1>2, <2>1, SameProgress
  <2>. QED
    BY <1>3, <2>3, <2>4, <2>5 DEF RangeInv
<1>11. CASE CallFunction
  <2>1. /\ pc = "function" /\ pc' = "begin" /\ todo' = Commands(addr)
        /\ UNCHANGED <<call, addr, aborted>>
    BY <1>11 DEF CallFunction
  <2>2. AddrInv'
    BY <1>0, <2>1 DEF AddrInv
  <2>3. CASE call.fn \in RangeFunction
    <3>1. todo' = <<Enable, Alter, Poll>>
      BY <2>1, <2>3, TurnBegins
    <3>2. UNCHANGED <<Enable, Alter, Poll>>
      BY <2>1 DEF Enable, Alter, Poll, TakesBlock
    <3>3. CallInv'
      BY <1>0, <1>2, <2>1, <2>3, <3>1, <3>2 DEF CallInv
    <3>4. <<Enable, Alter, Poll>> # <<Poll>> /\ <<Enable, Alter, Poll>> # <<Alter, Poll>>
      BY TurnSequences
    <3>5. WrittenTo(addr)' <=> WrittenTo(addr)
      BY <1>2, <2>1 DEF WrittenTo
    <3>6. ProgressInv'
      BY <1>0, <1>2, <1>4, <1>5, <2>1, <3>1, <3>2, <3>4, <3>5 DEF ProgressInv
    <3>. QED
      BY <1>3, <2>2, <3>3, <3>6 DEF RangeInv
  <2>4. CASE call.fn \notin RangeFunction
    <3>1. Commands(addr) = <<WithAddr("read", PageBytes)>>
      BY <2>4 DEF Commands, RangeFunction
    <3>2. WithAddr("read", PageBytes).name = "read"
      BY DEF WithAddr, Command
    <3>3. \A i \in 1..Len(todo') : todo'[i].name \in {"none", "read"}
      BY <2>1, <3>1, <3>2
    <3>4. CallInv'
      BY <1>0, <1>2, <2>1, <2>4, <3>3 DEF CallInv
    <3>. QED
      BY <1>3, <2>1, <2>2, <2>4, <3>4 DEF RangeInv, ProgressInv
  <2>. QED
    BY <2>3, <2>4
<1>. QED
  BY <1>4, <1>6, <1>7, <1>8, <1>9, <1>10, <1>11 DEF EnterCmdXip, FlushCache, Loop

\* In flash_put_get the chip hears the bytes in their order, and the answer to a
\* status command is the last it gave.
LEMMA RangeOfPutGet ==
    ASSUME FlashInv, RangeInv, Begin \/ ReadLevels \/ Turn
    PROVE  RangeInv'
<1>0. TypeInv /\ CallInv /\ AddrInv /\ ChipInv /\ PollInv /\ ProgressInv
  BY DEF FlashInv, RangeInv
<1>1. /\ UNCHANGED <<call, addr, todo, flash, chip, aborted>>
      /\ {pc, pc'} \subseteq {"begin", "while", "level", "turn", "end"}
      /\ pc' \in {"while", "level", "turn", "end"}
  BY DEF Begin, ReadLevels, Turn, ssiVars, chipVars
<1>2. CallInv' /\ AddrInv' /\ ProgressInv'
  BY <1>0, <1>1, SameCall, SameProgress
<1>3. /\ Depth \in Nat /\ fifo.tx \in Nat /\ fifo.inside \in Nat /\ fifo.rx \in Nat
      /\ count.tx \in Nat /\ count.rx \in Int /\ count.skip \in Nat /\ put \in Nat
      /\ seen.rx \in Nat
  BY <1>0, Fields DEF TypeInv
<1>4. /\ todo # <<>> /\ todo[1].head \in Nat /\ todo[1].head <= Depth
      /\ todo[1].count \in Nat /\ todo[1].skip = todo[1].head
  <2>1. todo # <<>>
    BY <1>0, <1>1 DEF TypeInv
  <2>. QED
    BY <1>0, <2>1, TodoType DEF CommandType
<1>5. todo[1].name = "status" /\ call.fn \in RangeFunction
        => todo[1].head = 1 /\ todo[1].count = 1 /\ todo[1].cs = "low"
  <2>1. call.fn \in RangeFunction => todo[1] \in {Enable, Alter, Poll}
    BY <1>0, <1>4, TurnSequences DEF CallInv
  <2>. QED
    BY <2>1, TurnCommands
<1>6. todo[1].name = "status" => call.fn \in RangeFunction
  <2>1. 1 \in 1..Len(todo)
    BY <1>0, <1>4, TodoType
  <2>. QED
    BY <1>0, <2>1 DEF CallInv
<1>7. CASE Begin
  <2>1. /\ pc = "begin" /\ pc' = "while" /\ cs' = todo[1].cs /\ put' = todo[1].head
        /\ stat' = stat /\ count'.rx = todo[1].count
    BY <1>7 DEF Begin
  <2>2. fifo'.tx = Lesser(fifo.tx + todo[1].head, Depth)
    BY <1>0, <1>7, Fields DEF Begin
  <2>3. ~aborted => fifo.tx = 0
    BY <1>3, <2>1 DEF FlashInv, FifoInv, BytesInv, InPutGet, Total
  <2>4. ~aborted => put' - fifo'.tx = 0
    <3>1. 0 + todo[1].head = todo[1].head /\ Lesser(todo[1].head, Depth) = todo[1].head
      BY <1>3, <1>4 DEF Lesser
    <3>2. ~aborted => fifo'.tx = todo[1].head
      BY <2>2, <2>3, <3>1
    <3>3. todo[1].head - todo[1].head = 0
      BY <1>4
    <3>. QED
      BY <2>1, <3>2, <3>3
  <2>5. chip.heard = 0 /\ ~chip.garbled
    BY <1>0, <2>1 DEF ChipInv, InPutGet
  <2>6. ChipInv'
    <3>1. cs' # "low" => ~chip.answer
      BY <1>0, <2>1 DEF ChipInv, InPutGet
    <3>. QED
      BY <1>1, <2>1, <2>4, <2>5, <3>1 DEF ChipInv, InPutGet
  <2>7. PollInv'
    BY <1>1, <1>5, <1>6, <2>1 DEF PollInv, InPutGet
  <2>. QED
    BY <1>2, <2>6, <2>7 DEF RangeInv
<1>8. CASE ReadLevels
  <2>1. /\ pc \in {"while", "level"} /\ UNCHANGED <<fifo, cs, put, stat, count>>
    BY <1>8 DEF ReadLevels, ssiVars
  <2>. QED
    BY <1>0, <1>1, <1>2, <2>1 DEF RangeInv, ChipInv, PollInv, InPutGet
<1>9. CASE Turn
  <2>1. /\ pc = "turn" /\ cs' = cs /\ put' = IF Puts THEN put + 1 ELSE put
        /\ count'.rx = IF Gets /\ count.skip = 0 THEN count.rx - 1 ELSE count.rx
        /\ stat' \in IF ~(Gets /\ count.skip = 0 /\ todo[1].name = "status") THEN {stat}
                     ELSE IF aborted THEN BOOLEAN ELSE {chip.answer}
    BY <1>9 DEF Turn
  <2>2. fifo'.tx = IF Puts THEN Lesser(fifo.tx + 1, Depth) ELSE fifo.tx
    BY <1>0, <1>9, Fields DEF Turn
  <2>3. ~aborted => /\ put = todo[1].head + todo[1].count - count.tx
                    /\ fifo.tx + fifo.inside + fifo.rx = count.skip + count.rx - count.tx
                    /\ fifo.tx + fifo.inside + fifo.rx <= seen.tx + seen.rx + Inside
                    /\ count.rx >= 0
    BY <2>1 DEF FlashInv, FifoInv, BytesInv, LevelInv, InPutGet, Total
  <2>4. ~aborted => put' - fifo'.tx = put - fifo.tx
    <3>1. ASSUME Puts, ~aborted PROVE fifo.tx < Depth
      <4>1. /\ seen.tx \in Nat /\ Inside \in Nat
            /\ seen.tx + seen.rx < Depth - Inside
        BY <1>0, <3>1, Fields DEF Puts
      <4>. QED
        BY <1>3, <2>3, <3>1, <4>1
    <3>. QED
      BY <1>3, <2>1, <2>2, <3>1 DEF Lesser
  <2>5. ChipInv'
    BY <1>0, <1>1, <2>1, <2>4 DEF ChipInv, InPutGet
  <2>6. PollInv'
    <3>. SUFFICES ASSUME ~aborted, todo[1].name = "status", count'.rx = 0, ~stat'
                  PROVE  ~chip.busy
      BY <1>1 DEF PollInv, InPutGet
    <3>1. CASE ~(Gets /\ count.skip = 0)
      BY <1>0, <2>1, <3>1 DEF PollInv, InPutGet
    <3>2. CASE Gets /\ count.skip = 0
      <4>1. ~chip.answer
        BY <2>1, <3>2
      <4>2. fifo.rx > 0
        BY <1>3, <2>1, <3>2 DEF Gets, FlashInv, SeenInv
      <4>3. count.rx = 1
        BY <1>3, <2>1, <3>2
      <4>4. put - fifo.tx > 0
        <5>a. todo[1].head = 1 /\ todo[1].count = 1
          BY <1>5, <1>6
        <5>b. put = todo[1].head + todo[1].count - count.tx
          BY <2>3
        <5>1. put = 2 - count.tx
          BY <1>3, <5>a, <5>b
        <5>2. fifo.tx + fifo.inside + fifo.rx = (0 + 1) - count.tx
          BY <1>3, <2>3, <3>2, <4>3
        <5>. QED
          BY <1>3, <4>2, <5>1, <5>2
      <4>5. cs = "low"
        BY <1>0, <1>5, <1>6, <2>1 DEF ChipInv, InPutGet
      <4>. QED
        BY <1>0, <2>1, <4>1, <4>4, <4>5 DEF ChipInv, InPutGet
    <3>. QED
      BY <3>1, <3>2
  <2>. QED
    BY <1>2, <2>5, <2>6 DEF RangeInv
<1>. QED
  BY <1>7, <1>8, <1>9

\* What the chip makes of each command of a turn that it has heard all of.
LEMMA ObeyedFields ==
    ASSUME TypeInv, NEW c \in CommandType
    PROVE  /\ Obeyed(c).heard = 0 /\ ~Obeyed(c).garbled /\ ~Obeyed(c).answer
           /\ Obeyed(c).busy <=> (chip.busy \/ WriteBegins(c))
           /\ Obeyed(c).wel <=> \/ chip.wel /\ ~WriteBegins(c)
                                \/ /\ c.name = "write_enable" /\ chip.heard = 1
                                   /\ ~chip.busy /\ ~chip.garbled
BY DEF Obeyed, TypeInv, ChipType

LEMMA NothingWritten ==
    ASSUME NEW c, c.name \notin {"program", "sector", "block"}
    PROVE  ~WriteBegins(c) /\ Changed(c) = flash
BY DEF WriteBegins, Changed

\* Without an abort the chip has heard the whole command when flash_put_get ends.
LEMMA HeardAll ==
    ASSUME FlashInv, RangeInv, End, ~aborted, todo[1].cs = "low"
    PROVE  /\ chip.heard = todo[1].head + todo[1].count /\ ~chip.garbled
           /\ todo[1].name = "status" /\ ~stat => ~chip.busy
<1>1. pc = "while" /\ count = Done
  BY DEF End, FlashInv, FifoInv, BytesInv, InPutGet
<1>2. /\ todo # <<>> /\ todo[1].head \in Nat /\ todo[1].count \in Nat
  <2>1. todo # <<>>
    BY <1>1 DEF FlashInv, TypeInv
  <2>. QED
    BY <2>1, TodoType DEF CommandType, FlashInv
<1>3. fifo.tx \in Nat /\ fifo.inside \in Nat /\ fifo.rx \in Nat
  BY Fields DEF FlashInv
<1>4. count.tx = 0 /\ count.rx = 0 /\ count.skip = 0
  BY <1>1 DEF Done
<1>5. /\ put = todo[1].head + todo[1].count - count.tx
      /\ fifo.tx + fifo.inside + fifo.rx = count.skip + count.rx - count.tx
  BY <1>1 DEF FlashInv, FifoInv, BytesInv, InPutGet, Total
<1>6. put = todo[1].head + todo[1].count
  BY <1>2, <1>4, <1>5
<1>7. fifo.tx = 0
  BY <1>3, <1>4, <1>5
<1>8. chip.heard = put - fifo.tx /\ ~chip.garbled
  BY <1>1 DEF RangeInv, ChipInv, InPutGet
<1>9. chip.heard = todo[1].head + todo[1].count
  BY <1>2, <1>6, <1>7, <1>8
<1>10. todo[1].name = "status" /\ ~stat => ~chip.busy
  BY <1>1, <1>4 DEF RangeInv, PollInv, InPutGet
<1>. QED
  BY <1>8, <1>9, <1>10

\* The next turn begins a page on, or a block on, and no page beyond the goal.
LEMMA NextAddr ==
    ASSUME FlashInv, AddrInv, call.fn \in RangeFunction, addr < call.goal
    PROVE  /\ addr \in Nat /\ Step \in Nat /\ call.start \in Nat /\ call.start <= addr
           /\ addr <= addr + Step /\ addr + Step <= call.goal + 1
           /\ \E k \in Nat : addr = 2 * k
           /\ \E k \in 0..(addr + Step) : addr + Step = 2 * k
<1>1. /\ addr \in Nat /\ call.start \in Nat /\ call.goal \in Nat
      /\ BlockPages \in Nat
  BY FlashAssumption DEF FlashInv, TypeInv, CallType
<1>2. PICK k \in 0..addr : addr = 2 * k
  BY DEF AddrInv
<1>3. CASE call.fn = "range_erase" /\ TakesBlock(addr)
  <2>1. Step = 2 * BlockPages
    BY <1>3 DEF Step
  <2>2. call.goal - addr >= 2 * BlockPages
    BY <1>3 DEF TakesBlock
  <2>3. addr + Step = 2 * (k + BlockPages) /\ k + BlockPages \in 0..(addr + Step)
    BY <1>1, <1>2, <2>1
  <2>4. call.start <= addr /\ k \in Nat
    BY <1>1, <1>2 DEF AddrInv
  <2>5. addr <= addr + Step /\ addr + Step <= call.goal + 1 /\ Step \in Nat
    BY <1>1, <2>1, <2>2
  <2>. QED
    BY <1>1, <1>2, <2>3, <2>4, <2>5
<1>4. CASE ~(call.fn = "range_erase" /\ TakesBlock(addr))
  <2>1. Step = 2
    BY <1>4 DEF Step
  <2>2. addr + Step = 2 * (k + 1) /\ k + 1 \in 0..(addr + Step)
    BY <1>1, <1>2, <2>1
  <2>3. call.start <= addr /\ k \in Nat
    BY <1>1, <1>2 DEF AddrInv
  <2>4. addr <= addr + Step /\ addr + Step <= call.goal + 1 /\ Step \in Nat
    BY <1>1, <2>1
  <2>. QED
    BY <1>1, <1>2, <2>2, <2>3, <2>4
<1>. QED
  BY <1>3, <1>4

\* A command that the chip obeys writes the pages of this turn, which no turn
\* before it has.
LEMMA TurnWritten ==
    ASSUME FlashInv, AddrInv, call.fn \in RangeFunction, addr < call.goal,
           WrittenTo(addr), WriteBegins(Alter), chip.heard = Alter.head + Alter.count
    PROVE  Changed(Alter) = [p \in Page |->
               IF p \notin Span(call.start, addr + Step) THEN call.before[p]
               ELSE IF call.fn = "range_erase" THEN "erased"
               ELSE Programmed(call.before[p])]
<1>. DEFINE next == addr + Step
<1>1. \A p \in Page : /\ p \in Span(call.start, next)
                            <=> p \in Span(call.start, addr) \/ p \in Span(addr, next)
                      /\ ~(p \in Span(call.start, addr) /\ p \in Span(addr, next))
  <2>1. next \in Nat
    BY NextAddr
  <2>. HIDE DEF next
  <2>2. PICK k \in Nat : addr = 2 * k
    BY NextAddr
  <2>3. call.start <= 2 * k /\ 2 * k <= next /\ call.start \in Nat
    BY <2>2, NextAddr DEF next
  <2>. QED
    BY <2>1, <2>2, <2>3, SpanJoins
<1>2. Changed(Alter) = [p \in Page |->
                          IF p \notin Span(addr, next) THEN flash[p]
                          ELSE IF call.fn = "range_erase" THEN "erased"
                          ELSE Programmed(flash[p])]
  <2>1. Alter.name # "program" <=> call.fn = "range_erase"
    BY TurnCommands DEF RangeFunction
  <2>2. Changed(Alter) = [p \in Page |->
            IF p \notin Span(addr, next) THEN flash[p]
            ELSE IF Alter.name # "program" THEN "erased"
            ELSE Programmed(flash[p])]
    BY DEF Changed
  <2>. QED
    BY <2>1, <2>2
<1>. HIDE DEF next
<1>3. \A p \in Page : flash[p] = IF p \notin Span(call.start, addr) THEN call.before[p]
                                 ELSE IF call.fn = "range_erase" THEN "erased"
                                 ELSE Programmed(call.before[p])
  BY DEF WrittenTo
<1>4. ASSUME NEW p \in Page
      PROVE  (IF p \notin Span(addr, next) THEN flash[p]
              ELSE IF call.fn = "range_erase" THEN "erased"
              ELSE Programmed(flash[p]))
             = (IF p \notin Span(call.start, next) THEN call.before[p]
                ELSE IF call.fn = "range_erase" THEN "erased"
                ELSE Programmed(call.before[p]))
  BY <1>1, <1>3
<1>. QED
  BY <1>2, <1>4 DEF next

LEMMA RangeOfEnd ==
    ASSUME FlashInv, RangeInv, End
    PROVE  RangeInv'
<1>. DEFINE c == todo[1]
<1>0. TypeInv /\ CallInv /\ AddrInv /\ ChipInv /\ PollInv /\ ProgressInv
  BY DEF FlashInv, RangeInv
<1>1. /\ pc \in {"while", "end"} /\ pc' \in {"begin", "loop", "idle"} /\ pc # "idle"
      /\ cs' \in {"high", "normal"} /\ stat' = FALSE /\ aborted' = aborted
      /\ chip' = Obeyed(c) /\ flash' = Changed(c)
  BY DEF End, Return
<1>2. todo # <<>> /\ c \in CommandType /\ Len(todo) \in Nat \ {0}
  <2>1. todo # <<>>
    BY <1>0, <1>1 DEF TypeInv
  <2>. QED
    BY <1>0, <2>1, TodoType
<1>. HIDE DEF c
<1>3. /\ chip'.heard = 0 /\ ~chip'.garbled /\ ~chip'.answer
      /\ chip'.busy <=> (chip.busy \/ WriteBegins(c))
      /\ chip'.wel <=> \/ chip.wel /\ ~WriteBegins(c)
                       \/ /\ c.name = "write_enable" /\ chip.heard = 1
                          /\ ~chip.busy /\ ~chip.garbled
  BY <1>0, <1>1, <1>2, ObeyedFields
<1>4. ChipInv' /\ PollInv'
  <2>1. cs' # "low" /\ ~InPutGet'
    BY <1>1 DEF InPutGet
  <2>. QED
    BY <1>1, <1>3, <2>1 DEF ChipInv, PollInv
<1>5. Len(<<>>) = 0 /\ 1..0 = {} /\ <<>> # <<Poll>> /\ <<>> # <<Alter, Poll>>
  OBVIOUS
<1>6. \/ /\ PollsAgain \/ Len(todo) > 1
         /\ todo' = IF PollsAgain THEN todo ELSE Tail(todo)
         /\ pc' = "begin"
         /\ UNCHANGED <<call, addr>>
      \/ /\ ~PollsAgain /\ Len(todo) = 1
         /\ todo' = <<>>
         /\ IF call.fn \in RangeFunction
            THEN pc' = "loop" /\ addr' = addr + Step /\ UNCHANGED call
            ELSE Return
  BY DEF End
<1>7. CASE call.fn \notin RangeFunction
  <2>1. c.name \in {"none", "read"}
    <3>1. 1 \in 1..Len(todo)
      BY <1>2
    <3>. QED
      BY <1>0, <1>7, <3>1 DEF CallInv, c
  <2>2. flash' = flash /\ ~PollsAgain
    BY <1>1, <2>1, NothingWritten DEF PollsAgain, c
  <2>3. CASE pc' = "begin"
    <3>1. todo' = Tail(todo) /\ UNCHANGED <<call, addr>>
      BY <1>6, <2>2, <2>3 DEF Return
    <3>2. \A i \in 1..Len(Tail(todo)) : Tail(todo)[i].name \in {"none", "read"}
      <4>1. todo \in Seq(CommandType)
        BY <1>0 DEF TypeInv
      <4>2. Len(Tail(todo)) = Len(todo) - 1
        BY <1>2, <4>1, HeadTailProperties
      <4>3. \A i \in 1..Len(Tail(todo)) : Tail(todo)[i] = todo[i + 1]
        BY <1>2, <4>1, HeadTailProperties
      <4>4. \A i \in 1..Len(Tail(todo)) : i + 1 \in 1..Len(todo)
        BY <1>2, <4>2
      <4>. QED
        BY <1>0, <1>7, <4>3, <4>4 DEF CallInv
    <3>3. CallInv'
      BY <1>0, <1>1, <1>7, <2>2, <2>3, <3>1, <3>2 DEF CallInv
    <3>. QED
      BY <1>4, <1>7, <3>1, <3>3 DEF RangeInv, AddrInv, ProgressInv
  <2>4. CASE pc' # "begin"
    <3>1. todo' = <<>> /\ Return
      BY <1>6, <1>7, <2>4
    <3>2. call'.fn = "none" /\ pc' = "idle" /\ "none" \notin RangeFunction
      BY <3>1 DEF Return, NoCall, RangeFunction
    <3>3. CallInv'
      BY <1>5, <3>1, <3>2 DEF CallInv
    <3>. QED
      BY <1>4, <3>2, <3>3 DEF RangeInv, AddrInv, ProgressInv
  <2>. QED
    BY <2>3, <2>4
<1>8. CASE call.fn \in RangeFunction
  <2>1. todo \in {<<Enable, Alter, Poll>>, <<Alter, Poll>>, <<Poll>>}
    BY <1>0, <1>2, <1>8 DEF CallInv
  <2>2. addr < call.goal
    BY <1>0, <1>1, <1>8 DEF AddrInv
  <2>3. call' = call /\ pc' # "idle"
    BY <1>6, <1>8
  <2>4. Enable' = Enable /\ Poll' = Poll /\ (addr' = addr => Alter' = Alter /\ Step' = Step)
    BY <2>3 DEF Enable, Poll, Alter, Step, TakesBlock
  <2>5. addr' = addr /\ pc' = "begin" => AddrInv'
    BY <1>0, <1>1, <2>3 DEF AddrInv
  <2>6. CASE todo = <<Enable, Alter, Poll>>
    <3>1. c = Enable /\ Len(todo) = 3 /\ Tail(todo) = <<Alter, Poll>>
      BY <2>6, TurnSequences DEF c
    <3>2. /\ ~PollsAgain /\ todo' = <<Alter, Poll>> /\ pc' = "begin"
          /\ UNCHANGED <<call, addr>>
      <4>1. ~PollsAgain
        BY <3>1, TurnCommands DEF PollsAgain, c
      <4>2. Len(todo) # 1
        BY <3>1
      <4>. QED
        BY <1>6, <3>1, <4>1, <4>2
    <3>3. flash' = flash /\ ~WriteBegins(c)
      BY <1>1, <3>1, TurnCommands, NothingWritten
    <3>4. CallInv'
      BY <1>0, <1>1, <1>8, <2>4, <3>2, <3>3 DEF CallInv
    <3>5. ProgressInv'
      <4>. SUFFICES ASSUME ~aborted, call.ready
                    PROVE  ~chip'.busy /\ WrittenTo(addr)' /\ chip'.wel /\ todo' # <<Poll>>
        BY <1>1, <2>3, <2>4, <3>2 DEF ProgressInv
      <4>1. todo # <<Poll>> /\ todo' # <<Poll>>
        BY <3>1, <3>2, TurnSequences
      <4>2. ~chip.busy /\ WrittenTo(addr)
        BY <1>0, <1>8, <4>1 DEF ProgressInv
      <4>3. chip.heard = 1 /\ ~chip.garbled
        BY <3>1, TurnCommands, HeardAll DEF c
      <4>4. WrittenTo(addr)'
        BY <3>2, <3>3, <4>2 DEF WrittenTo
      <4>. QED
        BY <1>3, <3>1, <3>3, <4>1, <4>2, <4>3, <4>4, TurnCommands
    <3>. QED
      BY <1>4, <2>5, <3>2, <3>4, <3>5 DEF RangeInv
  <2>7. CASE todo = <<Alter, Poll>>
    <3>1. c = Alter /\ Len(todo) = 2 /\ Tail(todo) = <<Poll>>
      BY <2>7, TurnSequences DEF c
    <3>2. todo' = <<Poll>> /\ pc' = "begin" /\ UNCHANGED <<call, addr>>
      <4>1. ~PollsAgain
        BY <3>1, TurnCommands DEF PollsAgain, c
      <4>2. Len(todo) # 1
        BY <3>1
      <4>. QED
        BY <1>6, <3>1, <4>1, <4>2
    <3>3. CallInv'
      BY <1>0, <1>1, <1>8, <2>4, <3>2 DEF CallInv
    <3>4. ProgressInv'
      <4>. SUFFICES ASSUME ~aborted, call.ready
                    PROVE  WrittenTo(addr + Step)' /\ todo' # <<Alter, Poll>>
        BY <1>1, <2>3, <2>4, <3>2 DEF ProgressInv
      <4>1. todo # <<Poll>> /\ todo' # <<Alter, Poll>>
        BY <3>1, <3>2, TurnSequences
      <4>2. ~chip.busy /\ WrittenTo(addr) /\ chip.wel
        BY <1>0, <1>8, <2>7, <4>1 DEF ProgressInv
      <4>3. chip.heard = Alter.head + Alter.count /\ ~chip.garbled
        BY <3>1, TurnCommands, HeardAll DEF c
      <4>4. WriteBegins(Alter)
        <5>1. PageBytes \in Nat \ {0} /\ AddrBytes \in Nat
          BY FifoAssumption
        <5>2. CASE call.fn = "range_program"
          <6>1. Alter.name = "program" /\ Alter.head = AddrBytes /\ Alter.count = PageBytes
            BY <5>2, TurnCommands
          <6>2. chip.heard > Alter.head
            BY <4>3, <5>1, <6>1
          <6>. QED
            BY <4>2, <4>3, <6>1, <6>2 DEF WriteBegins
        <5>3. CASE call.fn # "range_program"
          <6>1. /\ Alter.name # "program" /\ Alter.name \in {"program", "sector", "block"}
                /\ Alter.head = AddrBytes /\ Alter.count = 0
            BY <5>3, TurnCommands
          <6>2. chip.heard = Alter.head
            BY <4>3, <5>1, <6>1
          <6>. QED
            BY <4>2, <4>3, <6>1, <6>2 DEF WriteBegins
        <5>. QED
          BY <5>2, <5>3
      <4>5. WrittenTo(addr + Step)'
        <5>1. flash' = [p \in Page |->
                   IF p \notin Span(call.start, addr + Step) THEN call.before[p]
                   ELSE IF call.fn = "range_erase" THEN "erased"
                   ELSE Programmed(call.before[p])]
          BY <1>0, <1>1, <1>8, <2>2, <3>1, <4>2, <4>3, <4>4, TurnWritten
        <5>2. addr' + Step' = addr + Step
          BY <2>4, <3>2
        <5>. QED
          BY <2>3, <5>1, <5>2 DEF WrittenTo
      <4>. QED
        BY <4>1, <4>5
    <3>. QED
      BY <1>4, <2>5, <3>2, <3>3, <3>4 DEF RangeInv
  <2>8. CASE todo = <<Poll>>
    <3>1. c = Poll /\ Len(todo) = 1
      BY <2>8, TurnSequences DEF c
    <3>2. flash' = flash /\ ~WriteBegins(c)
      BY <1>1, <3>1, TurnCommands, NothingWritten
    <3>3. CASE PollsAgain
      <4>1. todo' = <<Poll>> /\ pc' = "begin" /\ UNCHANGED <<call, addr>>
        BY <1>6, <2>8, <3>3
      <4>2. CallInv'
        BY <1>0, <1>1, <1>8, <2>4, <3>2, <4>1 DEF CallInv
      <4>3. WrittenTo(addr + Step)' <=> WrittenTo(addr + Step)
        BY <2>4, <3>2, <4>1 DEF WrittenTo
      <4>4. <<Poll>> # <<Alter, Poll>>
        BY TurnSequences
      <4>5. <<Alter', Poll'>> = <<Alter, Poll>>
        BY <2>4, <4>1
      <4>6. ProgressInv'
        BY <1>0, <1>1, <2>3, <2>4, <2>8, <4>1, <4>3, <4>4, <4>5 DEF ProgressInv
      <4>. QED
        BY <1>4, <2>5, <4>1, <4>2, <4>6 DEF RangeInv
    <3>4. CASE ~PollsAgain
      <4>1. todo' = <<>> /\ pc' = "loop" /\ addr' = addr + Step /\ call' = call
        BY <1>6, <1>8, <3>1, <3>4
      <4>2. CallInv'
        BY <1>0, <1>1, <1>8, <4>1 DEF CallInv
      <4>3. AddrInv'
        <5>1. /\ addr \in Nat /\ Step \in Nat /\ call.start \in Nat /\ call.start <= addr
              /\ addr <= addr + Step /\ addr + Step <= call.goal + 1
              /\ \E k \in 0..(addr + Step) : addr + Step = 2 * k
          BY <1>0, <1>8, <2>2, NextAddr DEF FlashInv
        <5>2. call.start <= addr'
          BY <4>1, <5>1
        <5>3. \E k \in 0..addr' : addr' = 2 * k
          BY <4>1, <5>1
        <5>4. addr' <= call.goal + 1
          BY <4>1, <5>1
        <5>. QED
          BY <1>0, <1>8, <4>1, <5>2, <5>3, <5>4 DEF AddrInv
      <4>4. ProgressInv'
        <5>. SUFFICES ASSUME ~aborted, call.ready
                      PROVE  ~chip'.busy /\ WrittenTo(addr)'
          BY <1>1, <1>5, <2>3, <4>1 DEF ProgressInv
        <5>1. WrittenTo(addr + Step)
          BY <1>0, <1>8, <2>8 DEF ProgressInv
        <5>2. WrittenTo(addr)'
          BY <3>2, <4>1, <5>1 DEF WrittenTo
        <5>3. todo[1].name = "status" /\ todo[1].cs = "low" /\ ~stat
          BY <3>1, <3>4, TurnCommands DEF PollsAgain, c
        <5>4. ~chip.busy
          BY <5>3, HeardAll
        <5>. QED
          BY <1>3, <3>2, <5>2, <5>4
      <4>. QED
        BY <1>4, <4>2, <4>3, <4>4 DEF RangeInv
    <3>. QED
      BY <3>3, <3>4
  <2>. QED
    BY <2>1, <2>6, <2>7, <2>8
<1>. QED
  BY <1>7, <1>8

LEMMA RangeInvNext == FlashInv /\ RangeInv /\ [FlashNext]_flashVars => RangeInv'
<1>. SUFFICES ASSUME FlashInv, RangeInv, [FlashNext]_flashVars
              PROVE  RangeInv'
  OBVIOUS
<1>1. CASE Hardware \/ Abort
  BY <1>1, RangeOfHardware
<1>2. CASE Call \/ Connect \/ InitSpi \/ EnterCmdXip \/ FlushCache \/ Loop \/ CallFunction
  BY <1>2, RangeOfCall
<1>3. CASE Begin \/ ReadLevels \/ Turn
  BY <1>3, RangeOfPutGet
<1>4. CASE End
  BY <1>4, RangeOfEnd
<1>5. CASE UNCHANGED flashVars
  <2>1. UNCHANGED <<fifo, cs, aborted, chip, flash, pc, call, addr, todo, put, count, stat>>
    BY <1>5 DEF flashVars, ssiVars, chipVars, codeVars
  <2>2. CallInv' /\ AddrInv' /\ ProgressInv'
    BY <2>1, SameCall, SameProgress DEF RangeInv
  <2>3. ChipInv' /\ PollInv'
    BY <2>1 DEF RangeInv, ChipInv, PollInv, InPutGet
  <2>. QED
    BY <2>2, <2>3 DEF RangeInv
<1>. QED
  BY <1>1, <1>2, <1>3, <1>4, <1>5 DEF FlashNext, Code

LEMMA RangeInvInit == FlashInit => RangeInv
<1>. SUFFICES ASSUME FlashInit PROVE RangeInv
  OBVIOUS
<1>1. /\ pc = "idle" /\ call.fn = "none" /\ todo = <<>> /\ cs = "normal" /\ stat = FALSE
      /\ chip.heard = 0 /\ ~chip.garbled /\ ~chip.answer
  BY DEF FlashInit, NoCall
<1>2. Len(<<>>) = 0 /\ 1..0 = {} /\ "none" \notin RangeFunction
  BY DEF RangeFunction
<1>3. CallInv
  BY <1>1, <1>2 DEF CallInv
<1>4. AddrInv /\ ProgressInv
  BY <1>1, <1>2 DEF AddrInv, ProgressInv
<1>5. ChipInv /\ PollInv
  BY <1>1 DEF ChipInv, PollInv, InPutGet
<1>. QED
  BY <1>3, <1>4, <1>5 DEF RangeInv

\* RangeWritten holds of every step: a flash_range_program or flash_range_erase
\* that no abort ends has written its pages and no others, each one once, and
\* leaves the flash ready.
THEOREM RangeCorrect == FlashSafety => RangeWritten
<1>1. FlashInv /\ RangeInv /\ [FlashNext]_flashVars =>
        [pc # "idle" /\ pc' = "idle" /\ ~aborted /\ call.ready
          => /\ call.fn \in RangeFunction => ~chip.busy
             /\ \A p \in Page :
                   flash'[p] = IF \/ call.fn \notin RangeFunction
                                  \/ p \notin Span(call.start, call.goal)
                               THEN call.before[p]
                               ELSE IF call.fn = "range_erase" THEN "erased"
                               ELSE Programmed(call.before[p])
        ]_<<pc, flash>>
  <2>. SUFFICES ASSUME FlashInv, RangeInv, FlashNext, pc # "idle", pc' = "idle",
                       ~aborted, call.ready
                PROVE  /\ call.fn \in RangeFunction => ~chip.busy
                       /\ \A p \in Page :
                            flash'[p] = IF \/ call.fn \notin RangeFunction
                                           \/ p \notin Span(call.start, call.goal)
                                        THEN call.before[p]
                                        ELSE IF call.fn = "range_erase" THEN "erased"
                                        ELSE Programmed(call.before[p])
    BY DEF flashVars, codeVars
  <2>0. CallInv /\ AddrInv /\ ProgressInv /\ TypeInv
    BY DEF FlashInv, RangeInv
  <2>1. \/ Loop \/ EnterCmdXip \/ FlushCache \/ End
    <3>1. ~(Hardware \/ Abort)
      BY DEF Hardware, Shift, Receive, ChipFinishes, Abort, codeVars
    <3>. QED
      BY <3>1 DEF FlashNext, Code, Call, Connect, InitSpi, CallFunction, Begin,
                  ReadLevels, Turn
  <2>2. CASE call.fn \notin RangeFunction
    <3>1. flash = call.before
      BY <2>0, <2>2 DEF CallInv
    <3>2. flash' = flash
      <4>1. CASE End
        <5>1. todo # <<>> /\ pc # "loop"
          BY <2>0, <4>1 DEF End, TypeInv
        <5>2. 1 \in 1..Len(todo)
          BY <2>0, <5>1, TodoType
        <5>3. todo[1].name \in {"none", "read"}
          BY <2>0, <2>2, <5>2 DEF CallInv
        <5>. QED
          BY <4>1, <5>3, NothingWritten DEF End
      <4>2. CASE Loop \/ EnterCmdXip \/ FlushCache
        BY <4>2 DEF Loop, EnterCmdXip, FlushCache, chipVars
      <4>. QED
        BY <2>1, <4>1, <4>2
    <3>. QED
      BY <2>2, <3>1, <3>2
  <2>3. CASE call.fn \in RangeFunction
    <3>1. Loop
      <4>1. ~End
        BY <2>3 DEF End
      <4>2. ~EnterCmdXip /\ ~FlushCache
        BY <2>0, <2>3 DEF CallInv, EnterCmdXip, FlushCache
      <4>. QED
        BY <2>1, <4>1, <4>2
    <3>2. pc = "loop" /\ ~(addr < call.goal) /\ flash' = flash
      BY <3>1 DEF Loop, chipVars
    <3>3. todo = <<>>
      BY <2>0, <3>2 DEF TypeInv
    <3>4. <<>> # <<Poll>>
      OBVIOUS
    <3>5. ~chip.busy /\ WrittenTo(addr)
      BY <2>0, <2>3, <3>3, <3>4 DEF ProgressInv
    <3>6. addr \in Nat /\ call.start \in Nat /\ call.goal \in Nat
      BY <2>0 DEF TypeInv, CallType
    <3>7. PICK k \in 0..addr : addr = 2 * k
      BY <2>0, <2>3 DEF AddrInv
    <3>8. \A p \in Page : p \in Span(call.start, addr) <=> p \in Span(call.start, call.goal)
      <4>0. k \in Nat /\ call.goal <= 2 * k
        BY <3>2, <3>6, <3>7
      <4>1. CASE addr = call.start
        BY <4>0, <4>1, <3>6, <3>7, SpanEmpty
      <4>2. CASE addr <= call.goal + 1
        BY <4>0, <4>2, <3>6, <3>7, SpanRounds
      <4>. QED
        BY <2>0, <2>3, <4>1, <4>2 DEF AddrInv
    <3>9. \A p \in Page : flash[p] = IF p \notin Span(call.start, addr) THEN call.before[p]
                                     ELSE IF call.fn = "range_erase" THEN "erased"
                                     ELSE Programmed(call.before[p])
      BY <3>5 DEF WrittenTo
    <3>. QED
      BY <2>3, <3>2, <3>5, <3>8, <3>9
  <2>. QED
    BY <2>2, <2>3
<1>2. FlashSafety => []RangeInv
  BY FlashInvHolds, RangeInvInit, RangeInvNext, PTL DEF FlashSafety
<1>. QED
  BY <1>1, <1>2, FlashInvHolds, PTL DEF FlashSafety, RangeWritten

=============================================================================
