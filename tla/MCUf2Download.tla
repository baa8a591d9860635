---------------------------- MODULE MCUf2Download ----------------------------
(***************************************************************************)
(* Small instances of Uf2Download for TLC.  A flash sector has two pages.  *)
(***************************************************************************)
EXTENDS Uf2Download

MCPage     == {"p1", "p2", "p3"}
MCSector   == {"s1", "s2"}
MCSectorOf == [p \in MCPage |-> IF p = "p3" THEN "s2" ELSE "s1"]
MCData     == {"a", "b"}

B(num_blocks, block_no, target_addr, addr, data) ==
    [num_blocks |-> num_blocks, block_no |-> block_no,
     target_addr |-> target_addr, addr |-> addr, data |-> data]

\* SRAM_BASE and 0xffffffff; XIP lies below SRAM.
MCSramBase == 4
MCTopAddr  == 9

MCMaxValidBlocks == [ram \in BOOLEAN |-> 3]

FlashImage  == {B(2, 0, "p1", 0, "a"), B(2, 1, "p2", 1, "a")}
SmallImage  == {B(1, 0, "p1", 0, "b")}
LargeImage  == {B(3, 0, "p1", 0, "b"), B(3, 1, "p2", 1, "b"), B(3, 2, "p3", 2, "b")}
\* Not of this device's memory, of a wrong number, and too large.
OddBlocks   == {B(2, 0, "nowhere", 9, "a"), B(2, 2, "p3", 2, "a"),
                B(4, 0, "p1", 0, "a")}
RamImage    == {B(3, 0, "bitmaps", 2, "a"), B(3, 1, "ram", 6, "a"),
                B(3, 2, "ram", 5, "b")}

MCFlashBlocks == FlashImage \cup SmallImage \cup LargeImage \cup OddBlocks
MCSmallBlocks == FlashImage \cup RamImage
MCMixedBlocks == MCFlashBlocks \cup RamImage

\* Exclusive access taken and given up, and a page written behind the back of
\* the virtual disk.
PicobootTask(type, param) ==
    [type |-> type, transfer_addr |-> "p1", erase |-> {}, erase_check |-> "OK",
     exclusive_param |-> param, check_last_mutation_source |-> FALSE, token |-> 0]

MCPicobootTasks == {PicobootTask({"EXCLUSIVE"}, "EXCLUSIVE"),
                    PicobootTask({"EXCLUSIVE"}, "NOT_EXCLUSIVE"),
                    PicobootTask({"WRITE"}, "NOT_EXCLUSIVE")}

\* Every task the virtual disk can make of the blocks.
DiskTasks ==
    {DiskTask(b, token, opens, erases) :
        b \in {c \in Block : IsRam(c)}, token \in 0..MaxToken,
        opens \in BOOLEAN, erases \in {FALSE}}
    \cup
    {DiskTask(b, token, opens, erases) :
        b \in {c \in Block : c.target_addr \in Page}, token \in 0..MaxToken,
        opens \in BOOLEAN, erases \in BOOLEAN}

MCTasksOf     == [q \in Queue |-> IF q = "disk" THEN DiskTasks ELSE {}]
MCBothTasksOf == [q \in Queue |-> IF q = "disk" THEN DiskTasks ELSE MCPicobootTasks]

\* The images are what RebootOnlyWhenWritten and StartsAtLowestSram ask for.
ASSUME MCProperImages == OneBlockPerNumber /\ BlocksInOrder

MCInit == /\ Uf2Init
          /\ buffer = [q \in Queue |-> "torn"]
          /\ flash = [p \in Page |-> "torn"]

MCSafety == MCInit /\ [][Uf2Next]_uf2AllVars
MCSpec   == MCSafety /\ WF_uf2AllVars(Uf2Work /\ GoesOn)

=============================================================================
