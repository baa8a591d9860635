------------------------------ MODULE RomStart ------------------------------
(***************************************************************************)
(* How the chip starts (bootrom_rt0.S, bootrom_main.c, runtime.c): from    *)
(* reset through the rescue flag, the watchdog's vector and the flash to   *)
(* the program or to USB, and back by watchdog_reboot; with core 1, which  *)
(* waits in the ROM and which only the program launches (CoreLaunch).      *)
(*                                                                         *)
(* The flash holds a second stage or not, and can be read in some of the   *)
(* four modes of its bus.  watchdog_reboot is cut at each write that a     *)
(* boot would see, since core 0 or the chip may be reset between any two,  *)
(* and where it waits for the crystal, with the watchdog stopped.          *)
(***************************************************************************)
EXTENDS CoreLaunch

CONSTANTS
    Contents,      \* what the flash may hold: sets of modes, see flash
    Masks,         \* interfaces that reset_usb_boot may be asked to leave out
    MaxAttempts,   \* FLASH_MAX_ATTEMPTS
    MaxBoots       \* bound on the resets of the chip

NoEntry == "none"     \* the pc of a plain reboot
Wrapper == "wrapper"  \* _usb_boot_reboot_wrapper
HostCode == "code"    \* code the host has loaded to RAM
Entry == {NoEntry, Wrapper, HostCode}

ASSUME RomAssumption ==
    /\ MaxAttempts \in Nat /\ MaxBoots \in Nat
    /\ Contents \subseteq SUBSET (0..3) /\ Contents # {}
    /\ 0 \in Masks

VARIABLES
    at,        \* where core 0 is
    rescue,    \* the rescue flag of the power-on state machine
    scratch,   \* the registers of the watchdog, see NoScratch
    crystal,   \* absent, stopped or running
    watchdog,  \* enabled by watchdog_reboot?
    attempt,   \* of _flash_boot
    flash,     \* modes: those in which a valid second stage is read
    usb,       \* the interfaces USB was started without
    call,      \* of watchdog_reboot: its pc, and where its caller goes on
    asked,     \* history: what is asked for and not yet honoured, see NotAsked
    boots      \* the resets of the chip so far

romVars == <<at, rescue, scratch, crystal, watchdog, attempt, flash, usb, call, asked, boots>>
startVars == <<launchVars, romVars>>

\* Scratch 4, 5, 7 and 1; scratch 5 by the entry it was made from.  Scratch 6, the
\* stack, is written between 5 and 7 and not checked: it is left out.
NoScratch == [magic |-> FALSE, check |-> NoEntry, entry |-> NoEntry, mask |-> 0]

\* The entry of the last request that has not been honoured, whether its writes
\* were begun and not ended, and the mask of the last reset_usb_boot.
NotAsked == [entry |-> NoEntry, torn |-> FALSE, mask |-> 0]

NoCall == [pc |-> NoEntry, then |-> "usb"]

RomInit ==
    /\ LaunchInit
    /\ at = "start"
    /\ rescue = FALSE
    /\ scratch = NoScratch
    /\ crystal \in {"absent", "stopped"}
    /\ watchdog = FALSE
    /\ attempt = 0
    /\ flash \in Contents
    /\ usb = 0 /\ call = NoCall
    /\ asked = NotAsked
    /\ boots = 0

-----------------------------------------------------------------------------
(* The ROM on core 0. *)

CheckRescue ==
    /\ at = "start"
    /\ rescue' = FALSE
    /\ at' = IF rescue THEN "dead" ELSE "check_wdog"
    /\ UNCHANGED <<scratch, crystal, watchdog, attempt, flash, usb, call, asked, boots>>

\* Mutant of ClearMagic: the vector stays.
KeepMagic(s) == s

\* The magic is cleared before the jump, so that the vector is taken once; check
\* and entry stay.
ClearMagic(s) == [s EXCEPT !.magic = FALSE]

HasVector(s) == s.magic /\ s.check = s.entry /\ s.entry # NoEntry

CheckWatchdog ==
    /\ at = "check_wdog"
    /\ IF HasVector(scratch)
       THEN at' = scratch.entry /\ scratch' = ClearMagic(scratch)
       ELSE at' = "main" /\ UNCHANGED scratch
    /\ asked' = IF asked.torn /\ ~HasVector(scratch) THEN asked
                ELSE [asked EXCEPT !.entry = NoEntry, !.torn = FALSE]
    /\ UNCHANGED <<rescue, crystal, watchdog, attempt, flash, usb, call, boots>>

\* The code behind the vector stays, or returns to the boot.
VectorRuns ==
    /\ at = HostCode
    /\ at' \in {"program", "main"}
    /\ UNCHANGED <<rescue, scratch, crystal, watchdog, attempt, flash, usb, call, asked, boots>>

\* _usb_boot_reboot_wrapper.
WrapperRuns ==
    /\ at = Wrapper
    /\ usb' = scratch.mask
    /\ at' = "clocks"
    /\ UNCHANGED <<rescue, scratch, crystal, watchdog, attempt, flash, call, asked, boots>>

\* main: nine samples of the strap on chip select, of which five decide.
SampleStrap ==
    /\ at = "main"
    /\ \E sum \in {0, 4, 5, 9} :
         /\ at' = IF sum >= 5 THEN "flash" ELSE "clocks"
         /\ usb' = IF sum >= 5 THEN usb ELSE 0
    /\ attempt' = 0
    /\ UNCHANGED <<rescue, scratch, crystal, watchdog, flash, call, asked, boots>>

\* Mutant of CpolCpha: only the first two modes are tried.
CpolOnly(n) == n % 2

CpolCpha(n) == n % 4

UsedUp(n) == n = MaxAttempts

\* _flash_boot: an attempt per step, and USB when they are used up.
TryFlash ==
    /\ at = "flash"
    /\ IF UsedUp(attempt)
       THEN at' = "clocks" /\ usb' = 0 /\ attempt' = 0
       ELSE IF CpolCpha(attempt) \in flash
       THEN at' = "program" /\ attempt' = 0 /\ UNCHANGED usb
       ELSE attempt' = attempt + 1 /\ UNCHANGED <<at, usb>>
    /\ UNCHANGED <<rescue, scratch, crystal, watchdog, flash, call, asked, boots>>

\* _usb_boot and _usb_clock_setup: wait for the crystal.
StartClocks ==
    /\ at = "clocks" /\ crystal # "absent"
    /\ crystal' = "running"
    /\ at' = "usb"
    /\ UNCHANGED <<rescue, scratch, watchdog, attempt, flash, usb, call, asked, boots>>

-----------------------------------------------------------------------------
(* watchdog_reboot. *)

AskReboot(pc, then) ==
    /\ call' = [pc |-> pc, then |-> then]
    /\ at' = "disable"
    /\ UNCHANGED <<rescue, crystal, watchdog, attempt, flash, usb, boots>>

DisableWatchdog ==
    /\ at = "disable"
    /\ watchdog' = FALSE
    /\ at' = "scratch4"
    /\ UNCHANGED <<rescue, scratch, crystal, attempt, flash, usb, call, asked, boots>>

\* The magic comes first; a plain reboot takes the magic of an old vector away.
WriteMagic ==
    /\ at = "scratch4"
    /\ scratch' = [scratch EXCEPT !.magic = call.pc # NoEntry]
    /\ asked' = [asked EXCEPT !.entry = call.pc, !.torn = call.pc # NoEntry]
    /\ at' = IF call.pc = NoEntry THEN "reboot" ELSE "scratch5"
    /\ UNCHANGED <<rescue, crystal, watchdog, attempt, flash, usb, call, boots>>

WriteCheck ==
    /\ at = "scratch5"
    /\ scratch' = [scratch EXCEPT !.check = call.pc]
    /\ at' = "scratch7"
    /\ UNCHANGED <<rescue, crystal, watchdog, attempt, flash, usb, call, asked, boots>>

WriteEntry ==
    /\ at = "scratch7"
    /\ scratch' = [scratch EXCEPT !.entry = call.pc]
    /\ asked' = [asked EXCEPT !.torn = FALSE]
    /\ at' = "reboot"
    /\ UNCHANGED <<rescue, crystal, watchdog, attempt, flash, usb, call, boots>>

ArmWatchdog ==
    /\ at = "reboot" /\ crystal = "running"
    /\ watchdog' = TRUE
    /\ at' = call.then /\ call' = NoCall
    /\ UNCHANGED <<rescue, scratch, crystal, attempt, flash, usb, asked, boots>>

WatchdogReboot == DisableWatchdog \/ WriteMagic \/ WriteCheck \/ WriteEntry \/ ArmWatchdog

\* safe_reboot: PC_REBOOT, or a whole UF2 image.
HostReboots ==
    /\ at = "usb"
    /\ \E pc \in {NoEntry, HostCode} : AskReboot(pc, "usb")
    /\ UNCHANGED <<scratch, asked>>

\* reset_usb_boot, from the thread that also has the launch code: the mask is
\* written before anything else.
ProgramResetsToUsb ==
    /\ at = "program" /\ ~Calling
    /\ \E mask \in Masks :
         /\ AskReboot(Wrapper, "wfi")
         /\ scratch' = [scratch EXCEPT !.mask = mask]
         /\ asked' = [asked EXCEPT !.mask = mask]

-----------------------------------------------------------------------------
(* The world around the ROM. *)

FlashChanges ==
    /\ at = "usb"
    /\ flash' \in Contents \ {flash}
    /\ UNCHANGED <<at, rescue, scratch, crystal, watchdog, attempt, usb, call, asked, boots>>

\* A program starts the crystal, or runs without it.
ProgramStartsCrystal ==
    /\ at = "program" /\ ~Calling /\ crystal = "stopped"
    /\ crystal' = "running"
    /\ UNCHANGED <<at, rescue, scratch, watchdog, attempt, flash, usb, call, asked, boots>>

ChipReset ==
    /\ ResetBoth
    /\ at' = "start"
    /\ watchdog' = FALSE
    /\ attempt' = 0 /\ usb' = 0 /\ call' = NoCall
    /\ UNCHANGED flash

\* PSM_WDSEL leaves the crystal running, and the scratch registers outlast it.
WatchdogFires ==
    /\ watchdog
    /\ ChipReset
    /\ UNCHANGED <<rescue, scratch, crystal, asked, boots>>

\* Power, or the RUN pin: nothing is left.
PowerCycle ==
    /\ boots < MaxBoots /\ boots' = boots + 1
    /\ ChipReset
    /\ rescue' = FALSE
    /\ scratch' = NoScratch /\ asked' = NotAsked
    /\ crystal' = IF crystal = "absent" THEN "absent" ELSE "stopped"

\* The debugger restarts the chip with the rescue flag set.
Rescue ==
    /\ boots < MaxBoots /\ boots' = boots + 1
    /\ ChipReset
    /\ rescue' = TRUE
    /\ crystal' = IF crystal = "absent" THEN "absent" ELSE "stopped"
    /\ UNCHANGED <<scratch, asked>>

\* A reset of core 0 alone goes through the ROM too; the rest is as it was.
RestartCore0 ==
    /\ ResetCore0
    /\ at' = "start"
    /\ attempt' = 0 /\ usb' = 0 /\ call' = NoCall
    /\ UNCHANGED <<rescue, scratch, crystal, watchdog, flash, asked, boots>>

Rom ==
    \/ CheckRescue \/ CheckWatchdog \/ WrapperRuns
    \/ SampleStrap \/ TryFlash \/ StartClocks \/ WatchdogReboot

RomStep      == Rom \/ VectorRuns \/ FlashChanges \/ ProgramStartsCrystal
Asks         == HostReboots \/ ProgramResetsToUsb

StartNext ==
    \/ (RomStep \/ Asks) /\ UNCHANGED launchVars
    \/ (RomOfCore1 \/ Core1Returns \/ ResetCore1) /\ UNCHANGED romVars
    \/ at = "program" /\ (Call \/ LaunchCode) /\ UNCHANGED romVars
    \/ WatchdogFires \/ PowerCycle \/ Rescue \/ RestartCore0

StartSpec ==
    /\ RomInit /\ [][StartNext]_startVars
    /\ WF_startVars(Rom /\ UNCHANGED launchVars)
    /\ WF_startVars(RomOfCore1 /\ UNCHANGED romVars)
    /\ WF_startVars(at = "program" /\ LaunchCode /\ UNCHANGED romVars)
    /\ WF_startVars(WatchdogFires)

-----------------------------------------------------------------------------

StartTypeOK ==
    /\ LaunchTypeOK
    /\ at \in {"start", "dead", "check_wdog", "main", "flash", "clocks", "usb",
               "program", "disable", "scratch4", "scratch5", "scratch7", "reboot",
               "wfi", Wrapper, HostCode}
    /\ {rescue, watchdog} \subseteq BOOLEAN
    /\ scratch \in [magic : BOOLEAN, check : Entry, entry : Entry, mask : Masks]
    /\ asked \in [entry : Entry, torn : BOOLEAN, mask : Masks]
    /\ call \in [pc : Entry, then : {"usb", "wfi"}]
    /\ crystal \in {"absent", "stopped", "running"}
    /\ attempt \in 0..MaxAttempts
    /\ flash \in Contents
    /\ usb \in Masks
    /\ boots \in 0..MaxBoots

\* The types with what core 1 starts (LaunchAsCalled), in the whole chip: no reset
\* of it or of one core, and no reboot, lets core 1 start anything but an image it
\* was called with (wait_for_vector).
StartInv == StartTypeOK /\ LaunchAsCalled

\* A boot goes where the last request for a reboot said, once, and to the flash
\* otherwise: no vector of an earlier request, or of one already honoured, is
\* taken.  The one exception is a request whose writes a reset of core 0 or of the
\* chip has cut short, until a later request is made or a vector is taken.  USB is
\* started without the interfaces that the last reset_usb_boot named.
EntryAsAsked ==
    [][/\ at = "check_wdog" /\ at' \in {"main", Wrapper, HostCode} /\ ~asked.torn =>
            at' = IF asked.entry = NoEntry THEN "main" ELSE asked.entry
       /\ at = Wrapper /\ at' = "clocks" => usb' = asked.mask
      ]_startVars

\* A valid second stage that can be read in any mode is found, and every boot
\* comes to an end: in a program, in USB, or in a clock setup without a crystal.
\* A reset to USB comes to its reset, if the crystal runs.
BootEnds ==
    /\ at = "start" ~>
         \/ at \in {"dead", "program", "usb", HostCode}
         \/ at = "clocks" /\ crystal = "absent"
    /\ (at = "flash" /\ flash # {}) ~> at \in {"program", "start"}
    /\ (at = "disable" /\ call.then = "wfi" /\ crystal = "running") ~> at = "start"

=============================================================================
