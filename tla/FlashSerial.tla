---------------------------- MODULE FlashSerial ----------------------------
(***************************************************************************)
(* The serial interface to the flash (program_flash_generic.c): the thread *)
(* that puts bytes into one FIFO of the SSI and takes the answers out of   *)
(* another, with any delay between two of its steps; the SSI between the   *)
(* FIFOs; the flash chip; and the interrupt handler that aborts.           *)
(*                                                                         *)
(* A FIFO is a number of bytes, because the bytes are told apart by their  *)
(* position in the command.  An address is in units of half a sector, and  *)
(* a page is a sector, so that a range may end inside one.                 *)
(***************************************************************************)
EXTENDS Integers, Sequences

CONSTANTS
    Depth,         \* of the FIFOs
    Inside,        \* bytes the SSI may have under way between them
    AddrBytes,     \* a command and an address
    PageBytes,
    Pages,         \* of the flash
    BlockPages,    \* pages of a block_cmd erase
    Ranges         \* the start and end of the ranges asked for

Function == {"exit_xip", "enter_cmd_xip", "flush_cache", "range_program",
             "range_erase", "read_data"}
RangeFunction == {"range_program", "range_erase"}

ASSUME FifoAssumption ==
    /\ Depth \in Nat /\ Inside \in Nat \ {0} /\ AddrBytes \in Nat \ {0}
    /\ PageBytes \in Nat \ {0}
    /\ Inside < Depth /\ AddrBytes <= Depth
ASSUME FlashAssumption ==
    /\ Pages \in Nat /\ BlockPages \in Nat \ {0}
    /\ \A fn \in RangeFunction : Ranges[fn] \subseteq Nat \X Nat

\* "Setting correct address alignment is the caller's responsibility": a range
\* begins at a page (an assertion of flash_range_program) or at a sector.
ASSUME AlignmentAssumption ==
    \A fn \in RangeFunction : \A range \in Ranges[fn] : range[1] % 2 = 0

VARIABLES
    fifo,       \* bytes in each part of the SSI
    mode,       \* of the SSI: serial frames, or set up for XIP
    cs,         \* OUTOVER of the chip select
    aborted,    \* INOVER of SD1, which is what flash_abort leaves its mark in
    chip,       \* the flash: busy, write enabled, what it heard since it was selected
    flash,      \* what its pages hold
    pc,
    call,       \* the function called, its range, and the chip before it
    addr,
    todo,       \* the commands it has still to send, the one under way first
    put,        \* the bytes of the command put so far
    count,      \* tx_count, rx_count, rx_skip of flash_put_get
    seen,       \* tx_level, rx_level
    stat        \* the busy bit read, last of what flash_put_get has stored

ssiVars  == <<fifo, mode, cs>>
chipVars == <<chip, flash>>
codeVars == <<pc, call, addr, todo, put, count, seen, stat>>
flashVars == <<ssiVars, chipVars, codeVars, aborted>>

Page     == 0..(Pages - 1)
Content  == {"old", "erased", "data", "torn"}
Empty    == [tx |-> 0, inside |-> 0, rx |-> 0]
Done     == [tx |-> 0, rx |-> 0, skip |-> 0]

\* Between two calls the locals are forgotten, so no call is under way.
NoCall == [fn |-> "none", start |-> 0, goal |-> 0, before |-> [p \in Page |-> "torn"],
           ready |-> FALSE]

(***************************************************************************)
(* The commands: the level of CS they are sent under, the bytes put before *)
(* flash_put_get (head), and its count and rx_skip.                        *)
(***************************************************************************)
Command(name, level, head, n) ==
    [name |-> name, cs |-> level, head |-> head, count |-> n, skip |-> head]

\* flash_do_cmd, and flash_put_cmd_addr with flash_put_get.
DoCmd(name, n)    == Command(name, "low", 1, n)
WithAddr(name, n) == Command(name, "low", AddrBytes, n)

\* flash_enable_write, a command with an address, flash_wait_ready.
Write(name, n) == <<DoCmd("write_enable", 0), WithAddr(name, n), DoCmd("status", 1)>>

\* flash_exit_xip: clocks without chip select, clocks with it, and 0xff, 0xff.
ExitSequence == <<Command("none", "high", 0, 4), Command("none", "low", 0, 4),
                  Command("none", "low", 0, 2)>>

\* flash_range_erase: a block if it begins here and ends in the range.
TakesBlock(a) == a % (2 * BlockPages) = 0 /\ call.goal - a >= 2 * BlockPages

Commands(a) ==
    CASE call.fn = "range_program" -> Write("program", PageBytes)
      [] call.fn = "range_erase" /\ TakesBlock(a) -> Write("block", 0)
      [] call.fn = "range_erase" /\ ~TakesBlock(a) -> Write("sector", 0)
      [] OTHER -> <<WithAddr("read", PageBytes)>>

\* How far the loop goes in one turn.
Step == IF call.fn = "range_erase" /\ TakesBlock(addr) THEN 2 * BlockPages ELSE 2

FlashInit ==
    /\ fifo = Empty
    /\ mode = "xip"
    /\ cs = "normal"
    /\ aborted = FALSE
    /\ chip = [busy |-> FALSE, wel |-> FALSE, heard |-> 0, garbled |-> FALSE,
               answer |-> FALSE]
    /\ flash \in [Page -> {"old", "erased"}]
    /\ pc = "idle"
    /\ call = NoCall
    /\ addr = 0 /\ todo = <<>> /\ put = 0 /\ stat = FALSE
    /\ count = Done
    /\ seen = [tx |-> 0, rx |-> 0]

-----------------------------------------------------------------------------
(***************************************************************************)
(* The SSI and the chip, with no promise of when they go on.               *)
(***************************************************************************)

\* The position in the command of the byte that leaves the transmit FIFO; one
\* that was left over from before the command has none.
Position == put - fifo.tx + 1

\* Bytes only move while the SSI is in the mode the code has set up.
Shift ==
    /\ mode = "serial"
    /\ fifo.tx > 0 /\ fifo.inside < Inside
    /\ fifo' = [fifo EXCEPT !.tx = @ - 1, !.inside = @ + 1]
    /\ chip' = IF cs # "low" THEN chip
               ELSE [chip EXCEPT !.heard = @ + 1,
                                 !.garbled = @ \/ Position # chip.heard + 1,
                                 !.answer = chip.busy]
    /\ UNCHANGED <<mode, cs, flash, aborted, codeVars>>

\* The answer arrives; a full FIFO loses it.
Receive ==
    /\ fifo.inside > 0
    /\ fifo' = [fifo EXCEPT !.inside = @ - 1,
                            !.rx = IF @ < Depth THEN @ + 1 ELSE @]
    /\ UNCHANGED <<mode, cs, chipVars, aborted, codeVars>>

\* Programming and erasing take their time, or for ever.
ChipFinishes ==
    /\ chip.busy
    /\ chip' = [chip EXCEPT !.busy = FALSE]
    /\ UNCHANGED <<ssiVars, flash, aborted, codeVars>>

Hardware == Shift \/ Receive \/ ChipFinishes

Programmed(content) == IF content = "erased" THEN "data" ELSE "torn"

\* The pages from one address up to another.
Span(from, to) == {p \in Page : 2 * p + 1 >= from /\ 2 * p < to}

\* What the chip makes of a command when it is no longer selected.
WriteBegins(c) ==
    /\ c.name \in {"program", "sector", "block"}
    /\ chip.wel /\ ~chip.busy /\ ~chip.garbled
    /\ IF c.name = "program" THEN chip.heard > c.head ELSE chip.heard = c.head

Obeyed(c) ==
    [chip EXCEPT !.heard = 0, !.garbled = FALSE, !.answer = FALSE,
                 !.wel = \/ @ /\ ~WriteBegins(c)
                         \/ /\ c.name = "write_enable" /\ chip.heard = 1
                            /\ ~chip.busy /\ ~chip.garbled,
                 !.busy = @ \/ WriteBegins(c)]

Changed(c) ==
    IF ~WriteBegins(c) THEN flash
    ELSE [p \in Page |->
            IF p \notin Span(addr, addr + Step) THEN flash[p]
            ELSE IF c.name # "program" THEN "erased"
            ELSE IF chip.heard = c.head + c.count THEN Programmed(flash[p])
            ELSE "torn"]

\* flash_abort, from the interrupt handler.
Abort ==
    /\ aborted' = TRUE
    /\ UNCHANGED <<ssiVars, chipVars, codeVars>>

-----------------------------------------------------------------------------
(***************************************************************************)
(* The thread.                                                             *)
(***************************************************************************)

\* A function is called.  connect_internal_flash comes before flash_exit_xip
\* (_do_flash_exit_xip, _flash_boot).
Call ==
    /\ pc = "idle"
    /\ \E fn \in Function :
       \E range \in IF fn \in RangeFunction THEN Ranges[fn] ELSE {<<0, 0>>} :
          /\ call' = [fn |-> fn, start |-> range[1], goal |-> range[2],
                      before |-> flash, ready |-> ~chip.busy]
          /\ addr' = range[1]
          /\ pc' = CASE fn \in RangeFunction -> "loop"
                     [] fn = "read_data" -> "function"
                     [] OTHER -> fn
    /\ UNCHANGED <<ssiVars, chipVars, aborted, todo, put, count, seen, stat>>

Return == pc' = "idle" /\ call' = NoCall /\ addr' = 0

\* connect_internal_flash: the reset of the pads takes the abort back.
Connect ==
    /\ pc = "exit_xip"
    /\ aborted' = FALSE
    /\ cs' = "normal"
    /\ pc' = "init_spi"
    /\ UNCHANGED <<fifo, mode, chipVars, call, addr, todo, put, count, seen, stat>>

\* Mutant of InitSpi: the SSI is not disabled, so its FIFOs keep what they have.
InitSpiEnabled ==
    /\ pc = "init_spi"
    /\ mode' = "serial"
    /\ todo' = ExitSequence
    /\ put' = 0
    /\ pc' = "begin"
    /\ UNCHANGED <<fifo, cs, chipVars, aborted, call, addr, count, seen, stat>>

\* flash_init_spi, at the head of flash_exit_xip.
InitSpi ==
    /\ pc = "init_spi"
    /\ fifo' = Empty
    /\ mode' = "serial"
    /\ todo' = ExitSequence
    /\ put' = 0
    /\ pc' = "begin"
    /\ UNCHANGED <<cs, chipVars, aborted, call, addr, count, seen, stat>>

EnterCmdXip ==
    /\ pc = "enter_cmd_xip"
    /\ fifo' = Empty
    /\ mode' = "xip"
    /\ Return
    /\ UNCHANGED <<cs, chipVars, aborted, todo, put, count, seen, stat>>

FlushCache ==
    /\ pc = "flush_cache"
    /\ cs' = "normal"
    /\ Return
    /\ UNCHANGED <<fifo, mode, chipVars, aborted, todo, put, count, seen, stat>>

\* The loops of flash_range_program and flash_range_erase.
Loop ==
    /\ pc = "loop"
    /\ IF addr < call.goal /\ ~aborted
       THEN pc' = "function" /\ UNCHANGED <<call, addr>>
       ELSE Return
    /\ UNCHANGED <<ssiVars, chipVars, aborted, todo, put, count, seen, stat>>

\* flash_page_program, flash_user_erase, flash_sector_erase, flash_read_data.
CallFunction ==
    /\ pc = "function"
    /\ todo' = Commands(addr)
    /\ pc' = "begin"
    /\ UNCHANGED <<ssiVars, chipVars, aborted, call, addr, put, count, seen, stat>>

Lesser(a, b) == IF a < b THEN a ELSE b

\* The head of a command, put without a look at the FIFO: what does not fit in
\* is lost.
Begin ==
    /\ pc = "begin"
    /\ cs' = todo[1].cs
    /\ fifo' = [fifo EXCEPT !.tx = Lesser(@ + todo[1].head, Depth)]
    /\ put' = todo[1].head
    /\ count' = [tx |-> todo[1].count, rx |-> todo[1].count, skip |-> todo[1].skip]
    /\ pc' = "while"
    /\ UNCHANGED <<mode, chipVars, aborted, call, addr, todo, seen, stat>>

\* Mutant of ReadLevels: the levels are read in the other order.
ReadLevelsOptimistically ==
    /\ \/ pc = "while" /\ count # Done
          /\ seen' = [seen EXCEPT !.rx = fifo.rx] /\ pc' = "level"
       \/ pc = "level" /\ seen' = [seen EXCEPT !.tx = fifo.tx] /\ pc' = "turn"
    /\ UNCHANGED <<ssiVars, chipVars, aborted, call, addr, todo, put, count, stat>>

\* flash_put_get reads the level of the transmit FIFO before that of the other:
\* a byte that moves on in between is counted twice and not missed.
ReadLevels ==
    /\ \/ pc = "while" /\ count # Done
          /\ seen' = [seen EXCEPT !.tx = fifo.tx] /\ pc' = "level"
       \/ pc = "level" /\ seen' = [seen EXCEPT !.rx = fifo.rx] /\ pc' = "turn"
    /\ UNCHANGED <<ssiVars, chipVars, aborted, call, addr, todo, put, count, stat>>

Puts == count.tx # 0 /\ seen.tx + seen.rx < Depth - Inside

\* Mutant of Gets: an answer is taken for every byte put.
GetsForEveryPut == count.tx # 0

Gets == seen.rx # 0

\* Mutant of GivesUp: the abort is only looked at while the answers come in.
GivesUpWhenPut == ~Puts /\ ~Gets /\ aborted /\ count.tx = 0

GivesUp == ~Puts /\ ~Gets /\ aborted

\* The body of the loop of flash_put_get.  SD1 is forced low by an abort, so an
\* answer shifted then says that the flash is ready; one that came in before
\* says what it did.
Turn ==
    /\ pc = "turn"
    /\ fifo' = [fifo EXCEPT !.tx = IF Puts THEN Lesser(@ + 1, Depth) ELSE @,
                            !.rx = IF Gets THEN @ - 1 ELSE @]
    /\ put' = IF Puts THEN put + 1 ELSE put
    /\ count' = [tx   |-> IF Puts THEN count.tx - 1 ELSE count.tx,
                 skip |-> IF Gets /\ count.skip # 0 THEN count.skip - 1 ELSE count.skip,
                 rx   |-> IF Gets /\ count.skip = 0 THEN count.rx - 1 ELSE count.rx]
    /\ stat' \in IF ~(Gets /\ count.skip = 0 /\ todo[1].name = "status") THEN {stat}
                 ELSE IF aborted THEN BOOLEAN ELSE {chip.answer}
    /\ pc' = IF GivesUp THEN "end" ELSE "while"
    /\ seen' = [tx |-> 0, rx |-> 0]
    /\ UNCHANGED <<mode, cs, chipVars, aborted, call, addr, todo>>

\* Mutant of PollsAgain: flash_wait_ready looks once.
PollsOnce == FALSE

\* The condition of the loop of flash_wait_ready.
PollsAgain == todo[1].name = "status" /\ stat /\ ~aborted

\* The end of flash_put_get, and what its callers do next.
End ==
    /\ \/ pc = "end"
       \/ pc = "while" /\ count = Done
    /\ chip' = Obeyed(todo[1])
    /\ flash' = Changed(todo[1])
    /\ \/ /\ PollsAgain \/ Len(todo) > 1
          /\ todo' = IF PollsAgain THEN todo ELSE Tail(todo)
          /\ pc' = "begin"
          /\ cs' = "high"
          /\ UNCHANGED <<call, addr>>
       \/ /\ ~PollsAgain /\ Len(todo) = 1
          /\ todo' = <<>>
          /\ cs' = IF call.fn = "exit_xip" THEN "normal" ELSE "high"
          /\ IF call.fn \in RangeFunction
             THEN pc' = "loop" /\ addr' = addr + Step /\ UNCHANGED call
             ELSE Return
    /\ put' = 0
    /\ count' = Done
    /\ stat' = FALSE
    /\ UNCHANGED <<fifo, mode, aborted, seen>>

Code ==
    \/ Connect \/ InitSpi \/ EnterCmdXip \/ FlushCache
    \/ Loop \/ CallFunction \/ Begin \/ ReadLevels \/ Turn \/ End

FlashNext == Hardware \/ Abort \/ Call \/ Code

FlashSafety == FlashInit /\ [][FlashNext]_flashVars

\* The thread goes on after every interrupt; of the SSI and of the chip nothing
\* is assumed.
FlashSpec == FlashSafety /\ WF_flashVars(Code)

-----------------------------------------------------------------------------
(***************************************************************************)
(* Properties.                                                             *)
(***************************************************************************)

FlashTypeOK ==
    /\ fifo \in [tx : 0..Depth, inside : 0..Inside, rx : 0..Depth]
    /\ mode \in {"serial", "xip"} /\ cs \in {"low", "high", "normal"}
    /\ aborted \in BOOLEAN
    /\ chip \in [busy : BOOLEAN, wel : BOOLEAN, heard : Nat, garbled : BOOLEAN,
                 answer : BOOLEAN]
    /\ flash \in [Page -> Content]
    /\ pc \in {"idle", "loop", "function", "begin", "while", "level", "turn", "end",
               "exit_xip", "init_spi", "enter_cmd_xip", "flush_cache"}
    /\ call \in [fn : Function \cup {"none"}, start : Nat, goal : Nat,
                 before : [Page -> Content], ready : BOOLEAN]
    /\ addr \in Nat /\ put \in Nat /\ stat \in BOOLEAN
    /\ count \in [tx : Nat, rx : Int, skip : Nat]
    /\ seen \in [tx : 0..Depth, rx : 0..Depth]
    /\ todo = <<>> <=> pc \notin {"begin", "while", "level", "turn", "end"}

\* Without an abort no answer finds the FIFO full, however long the thread is
\* kept from it (the comment at the head of flash_put_get).
RxNeverOverflows ==
    ~aborted /\ pc # "init_spi" => ~(fifo.inside > 0 /\ fifo.rx = Depth)

\* Without an abort, what flash_put_get stores as the n-th byte is the answer to
\* the n-th byte after the head of this command, not a left-over of an earlier
\* one or an answer to the head (rx_skip).
AnswersMatch ==
    [][pc = "turn" /\ pc' # pc /\ Gets /\ count.skip = 0 /\ ~aborted
          => /\ count.rx > 0
             /\ put - (fifo.tx + fifo.inside + fifo.rx)
                    = todo[1].head + todo[1].count - count.rx
      ]_<<pc, count, fifo, put, todo>>

\* A function that returns without an abort has written or erased the pages of
\* its range, those only, and the flash is ready again: every command went to
\* a chip that heard all of it and was not busy.  A chip that an abort left busy
\* is the exception.
RangeWritten ==
    [][pc # "idle" /\ pc' = "idle" /\ ~aborted /\ call.ready
          => /\ call.fn \in RangeFunction => ~chip.busy
             /\ \A p \in Page :
                   flash'[p] = IF \/ call.fn \notin RangeFunction
                                  \/ p \notin Span(call.start, call.goal)
                               THEN call.before[p]
                               ELSE IF call.fn = "range_erase" THEN "erased"
                               ELSE Programmed(call.before[p])
      ]_<<pc, flash>>

HardwareGoesOn ==
    WF_flashVars(Shift) /\ WF_flashVars(Receive) /\ WF_flashVars(ChipFinishes)

\* An abort ends the function under way although neither the SSI nor the chip
\* ever moves again; without one it ends if they do, unless the SSI is still set up
\* for XIP (flash_put_get, flash_wait_ready, flash_range_erase).
CallsEnd ==
    /\ (aborted /\ pc # "idle") ~> (pc = "idle" \/ ~aborted)
    /\ HardwareGoesOn => ((mode = "serial" /\ pc # "idle") ~> pc = "idle")
=============================================================================
