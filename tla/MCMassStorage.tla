--------------------------- MODULE MCMassStorage ---------------------------
(* Small commands for MassStorage: every operation, data phases the host     *)
(* wants shorter, longer, or the other way round than the command has them.  *)
EXTENDS MassStorage

C(op, in, dtl, blocks) == [op |-> op, in |-> in, dtl |-> dtl, blocks |-> blocks]

MCCommand ==
    { C("invalid", FALSE, 0, 0),
      C("unknown", TRUE, 1, 0),  C("unknown", FALSE, 2, 0),
      C("ready", FALSE, 0, 0),   C("eject", FALSE, 0, 0),
      C("reply", TRUE, 3, 0),    C("sense", TRUE, 1, 0),
      C("read", TRUE, 4, 1),     C("read", TRUE, 6, 1),   C("read", FALSE, 2, 1),
      C("write", FALSE, 8, 2),   C("write", FALSE, 2, 1), C("write", FALSE, 5, 1),
      C("write", TRUE, 2, 1),    C("write", FALSE, 0, 1) }

MCAddress == {1}
=============================================================================
