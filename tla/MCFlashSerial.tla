---------------------------- MODULE MCFlashSerial ----------------------------
(***************************************************************************)
(* A small instance of FlashSerial for TLC.                                *)
(***************************************************************************)
EXTENDS FlashSerial

\* A range that ends inside its second page; one that takes a block and a
\* sector, and one long enough for a block that begins in the middle of it.
MCRanges == [fn \in RangeFunction |->
               IF fn = "range_program" THEN {<<4, 5>>} ELSE {<<0, 5>>, <<2, 6>>}]

\* All pages start alike.
MCInit == FlashInit /\ \A p \in Page : flash[p] = "old"

MCSpec == MCInit /\ [][FlashNext]_flashVars /\ WF_flashVars(Code)

=============================================================================
