----------------------------- MODULE MCAsyncTask -----------------------------
(***************************************************************************)
(* Small instances of AsyncTask for TLC: a page in a sector, and tasks of  *)
(* every kind the two producers make.                                      *)
(***************************************************************************)
EXTENDS AsyncTask

MCPage     == {"p1"}
MCSector   == {"s1"}
MCSectorOf == [p \in MCPage |-> "s1"]
MCData     == {"d1"}

T(type, addr) ==
    [type |-> type, transfer_addr |-> addr, erase |-> {}, erase_check |-> "OK",
     exclusive_param |-> "NOT_EXCLUSIVE", check_last_mutation_source |-> FALSE,
     token |-> 0]

Erasing(addr, check) ==
    [T({"FLASH_ERASE"}, addr) EXCEPT !.erase = {"s1"}, !.erase_check = check]
Exclusive(param) == [T({"EXCLUSIVE"}, "nowhere") EXCEPT !.exclusive_param = param]

\* What _write_uf2_page queues for the first block of an image.
FirstBlock ==
    [T({"WRITE", "FLASH_ERASE", "EXIT_XIP"}, "p1") EXCEPT !.erase = {"s1"}]

\* Tasks of PICOBOOT: the change of access, a mutation that follows another
\* source, the ways to be refused, the functions of the host, and accesses to
\* flash and memory.
MCPicobootTasks ==
    {Exclusive("EXCLUSIVE_AND_EJECT"), Exclusive("NOT_EXCLUSIVE"),
     [T({"WRITE"}, "p1") EXCEPT !.check_last_mutation_source = TRUE],
     T({"WRITE"}, "unaligned_flash"), Erasing("p1", "BAD_ALIGNMENT"),
     T({"VECTORIZE_FLASH"}, "ram"), T({"VECTORIZE_FLASH"}, "odd_ram"),
     T({"READ"}, "p1"), T({"WRITE"}, "ram")}

MCTasksOf ==
    [q \in Queue |-> IF q = "disk" THEN {FirstBlock} ELSE MCPicobootTasks]

\* The buffers and the flash start with contents of no interest.
MCInit == /\ AsyncInit
          /\ buffer = [q \in Queue |-> "torn"]
          /\ flash = [p \in Page |-> "torn"]

MCSpec == MCInit /\ [][AsyncNext]_asyncVars

=============================================================================
