----------------------------- MODULE MCPicoboot -----------------------------
(***************************************************************************)
(* Small instances of Picoboot for TLC: a sector of two pages.             *)
(***************************************************************************)
EXTENDS Picoboot

MCPage     == {"p1", "p2"}
MCSector   == {"s1"}
MCSectorOf == [p \in MCPage |-> "s1"]
MCData     == {"a", "b"}

Cmd(flag, addr) ==
    [flag |-> flag, addr |-> addr, data |-> <<"a", "a">>, erase |-> {},
     erase_check |-> "OK", exclusive_param |-> "NOT_EXCLUSIVE", defect |-> "NONE"]

Bad(defect) == [Cmd("EXIT_XIP", <<"nowhere">>) EXCEPT !.defect = defect]

\* A WRITE of two pages, a READ of two chunks, commands without data, one that
\* fails, and the ways to be no command.
MCCommand ==
    {Cmd("EXIT_XIP", <<"nowhere">>), Cmd("WRITE", <<"p1", "p2">>),
     Cmd("READ", <<"p1", "nowhere">>),
     [Cmd("FLASH_ERASE", <<"p1">>) EXCEPT !.erase = {"s1"}],
     Cmd("VECTORIZE_FLASH", <<"odd_ram">>),
     Cmd("REBOOT", <<"nowhere">>), Bad("BAD_MAGIC"), Bad("INVALID_CMD_LENGTH")}

CommandTasks ==
    UNION {{CommandTask(c, i, check, token) :
               i \in DOMAIN c.addr, check \in BOOLEAN, token \in 1..MaxCommands} :
           c \in {d \in Command : d.flag # "REBOOT"}}

\* The block of a UF2 image that the virtual disk writes: the first of one, so
\* that it leaves XIP and erases the sector.
DiskBlock ==
    [type |-> {"WRITE", "FLASH_ERASE", "EXIT_XIP"}, transfer_addr |-> "p1",
     erase |-> {"s1"}, erase_check |-> "OK", exclusive_param |-> "NOT_EXCLUSIVE",
     check_last_mutation_source |-> FALSE, token |-> 0]

MCTasksOf ==
    [q \in Queue |-> IF q = "disk" THEN {DiskBlock} ELSE CommandTasks]

MCInit == /\ PicobootInit
          /\ buffer = [q \in Queue |-> "b"]
          /\ flash = [p \in Page |-> "erased"]

MCSafety == MCInit /\ [][PicobootNext]_picobootVars
MCSpec   == MCSafety /\ WF_picobootVars(PicobootWork /\ GoesOn)

=============================================================================
