----------------------------- MODULE Uf2Download -----------------------------
(***************************************************************************)
(* Drag and drop download of a UF2 image: the virtual disk's side of       *)
(* writes (bootrom/virtual_disk.c), driven by the data phase of the mass   *)
(* storage WRITE command (usb_device_tiny/usb_msc.c) and running its tasks *)
(* on the worker of AsyncTask.                                             *)
(*                                                                         *)
(* The host writes sectors in any order, repeats them, mixes them with     *)
(* sectors that are no UF2 block, resets the mass storage interface, drops *)
(* and sets the configuration and resets PICOBOOT, at any moment of a task *)
(* under way.  PICOBOOT commands appear as tasks of TasksOf["picoboot"].   *)
(***************************************************************************)
EXTENDS AsyncTask, FiniteSetsExt

CONSTANTS
    Block,            \* the UF2 blocks the host may send
    PagesPerSector,   \* FLASH_SECTOR_ERASE_SIZE / 256
    MaxValidBlocks,   \* max_valid_blocks for a RAM image and for a flash image
    SramBase,         \* SRAM_BASE
    TopAddr,          \* 0xffffffff
    HostMay,          \* the kinds of reset the host uses
    MaxToken,         \* bound on _msc_async_token
    MaxResets         \* bound on the resets of the host

HostReset == {"msc_reset", "picoboot_reset", "set_config", "lose_config"}

(***************************************************************************)
(* A block of a UF2 file of the right family (vd_write_block).  addr is    *)
(* the number target_addr stands for.  XIP SRAM counts as RAM and, as      *)
(* is_address_flash has it, as flash.                                      *)
(***************************************************************************)
UF2Block == [num_blocks : Nat, block_no : Nat, target_addr : Address,
             addr : Nat, data : Data]

IsRam(b)   == b.target_addr \in RamAddress
IsFlash(b) == b.target_addr \in Page \cup {"bitmaps", "unaligned_flash"}

\* Mutant of DiskTask: reset_task comes after the token is set.
DiskTaskWithoutToken(b, token, exits, erases) ==
    [type |-> {"WRITE"} \cup (IF exits THEN {"EXIT_XIP"} ELSE {})
                        \cup (IF erases THEN {"FLASH_ERASE"} ELSE {}),
     transfer_addr |-> b.target_addr,
     erase |-> IF erases THEN {sectorOf[b.target_addr]} ELSE {},
     erase_check |-> "OK",
     exclusive_param |-> "NOT_EXCLUSIVE",
     check_last_mutation_source |-> FALSE,
     token |-> 0]

\* The task _write_uf2_page queues.  It leaves XIP if the block opened a new
\* flash image, and erases its sector if that is not yet done.
DiskTask(b, token, exits, erases) ==
    [type |-> {"WRITE"} \cup (IF exits THEN {"EXIT_XIP"} ELSE {})
                        \cup (IF erases THEN {"FLASH_ERASE"} ELSE {}),
     transfer_addr |-> b.target_addr,
     erase |-> IF erases THEN {sectorOf[b.target_addr]} ELSE {},
     erase_check |-> "OK",
     exclusive_param |-> "NOT_EXCLUSIVE",
     check_last_mutation_source |-> FALSE,
     token |-> token]

ASSUME Uf2Assumption ==
    /\ Block \subseteq UF2Block
    /\ PagesPerSector \in Nat \ {0}
    /\ MaxValidBlocks \in [BOOLEAN -> Nat]
    /\ SramBase \in Nat /\ TopAddr \in Nat /\ SramBase <= TopAddr
    /\ \A b \in Block : b.addr <= TopAddr
    /\ HostMay \subseteq HostReset
    /\ MaxToken \in Nat /\ MaxResets \in Nat
    /\ \A b \in Block, token \in 0..MaxToken, exits, erases \in BOOLEAN :
          (IsRam(b) /\ ~erases) \/ b.target_addr \in Page
             => DiskTask(b, token, exits, erases) \in TasksOf["disk"]

VARIABLES
    msc,       \* the mass storage: unconfigured, between WRITE commands, waiting
               \* for the packets of a sector, or for the task of one
    mscToken,  \* _msc_async_token
    uf2,       \* _uf2_info, its bitmaps as sets
    resets,    \* how many resets the host has made
    dropped    \* history: has a reset of PICOBOOT dropped a task of the disk?

uf2Vars == <<msc, mscToken, uf2, resets, dropped>>
uf2AllVars == <<asyncVars, uf2Vars>>

UF2Info == [num_blocks : Nat, token : Nat, valid_block_count : Nat,
            lowest_addr : Nat, ram : BOOLEAN, valid_blocks : SUBSET Nat,
            cleared_pages : SUBSET Nat]

Uf2TypeOK ==
    /\ msc \in {"off", "idle", "ready", "pending"}
    /\ mscToken \in 0..MaxToken
    /\ uf2 \in UF2Info
    /\ uf2.token <= mscToken
    /\ resets \in 0..MaxResets /\ dropped \in BOOLEAN

\* memset0(&_uf2_info), for an image of RAM or of flash.
ClearedInfo(ram) ==
    [num_blocks |-> 0, token |-> 0, valid_block_count |-> 0, lowest_addr |-> 0,
     ram |-> ram, valid_blocks |-> {}, cleared_pages |-> {}]

Uf2Init ==
    /\ AsyncInit
    /\ msc = "off"
    /\ mscToken = 0
    /\ uf2 = ClearedInfo(FALSE)
    /\ resets = 0 /\ dropped = FALSE

-----------------------------------------------------------------------------
(***************************************************************************)
(* The virtual disk (virtual_disk.c).                                      *)
(***************************************************************************)

Garbage(b) ==
    \/ b.num_blocks = 0
    \/ ~IsRam(b) /\ ~IsFlash(b)
    \/ b.target_addr = "unaligned_flash"

\* A block of another size opens a new image.
Opens(b) == b.num_blocks # uf2.num_blocks
Fits(b)  == b.num_blocks <= MaxValidBlocks[IsRam(b)]

\* _update_current_uf2_info up to the check of the kind of memory.
Opened(b) ==
    IF Opens(b)
    THEN [ClearedInfo(IsRam(b)) EXCEPT !.num_blocks = b.num_blocks,
                                       !.lowest_addr = TopAddr]
    ELSE uf2

\* Mutant of Accepts: block numbers from one.
AcceptsFromOne(b) ==
    /\ ~Garbage(b)
    /\ ~disable["disk"]
    /\ Opens(b) => Fits(b)
    /\ IsRam(b) = Opened(b).ram
    /\ b.block_no <= b.num_blocks

Accepts(b) ==
    /\ ~Garbage(b)
    /\ ~disable["disk"]
    /\ Opens(b) => Fits(b)
    /\ IsRam(b) = Opened(b).ram
    /\ b.block_no < b.num_blocks

\* What _update_current_uf2_info leaves when it returns false.
Rejected(b) ==
    IF Garbage(b) \/ disable["disk"] THEN [uf2 EXCEPT !.num_blocks = 0]
    ELSE IF Opens(b) /\ ~Fits(b)    THEN ClearedInfo(IsRam(b))
    ELSE                                 [Opened(b) EXCEPT !.num_blocks = 0]

page_no(b) == b.block_no \div PagesPerSector

Erases(b) == ~Opened(b).ram /\ page_no(b) \notin Opened(b).cleared_pages

ExitsXip(b) == Opens(b) /\ IsFlash(b)

\* Mutant of LowerAddr: the plain minimum.
MinAddr(lowest, addr) == IF addr < lowest THEN addr ELSE lowest

\* XIP SRAM is not picked over SRAM for the address to start a RAM image at.
LowerAddr(lowest, addr) ==
    IF \/ addr < lowest /\ (addr < SramBase <=> lowest < SramBase)
       \/ lowest < SramBase /\ addr >= SramBase
    THEN addr ELSE lowest

\* _write_uf2_page: the block is counted before its task has run.
Counted(b, token) ==
    [num_blocks        |-> b.num_blocks,
     token             |-> token,
     valid_block_count |-> Opened(b).valid_block_count + 1,
     lowest_addr       |-> LowerAddr(Opened(b).lowest_addr, b.addr),
     ram               |-> Opened(b).ram,
     valid_blocks      |-> Opened(b).valid_blocks \cup {b.block_no},
     cleared_pages     |-> IF Erases(b) THEN Opened(b).cleared_pages \cup {page_no(b)}
                                        ELSE Opened(b).cleared_pages]

IsDuplicate(b) == b.block_no \in Opened(b).valid_blocks

\* A chunk that is done with makes room for the next sector of the command or
\* ends the command.
ChunkDone == msc' \in {"ready", "idle"}

\* vd_write_block for a block that goes on to a task, for one that was counted
\* before, and for one that is not to be written.
WriteBlock(b, token) ==
    /\ Accepts(b) /\ ~IsDuplicate(b)
    /\ uf2' = Counted(b, token)
    /\ queue_task("disk", DiskTask(b, token, ExitsXip(b), Erases(b)))
    /\ msc' = "pending"

IgnoreBlock(b, token) ==
    /\ Accepts(b) /\ IsDuplicate(b)
    /\ uf2' = [Opened(b) EXCEPT !.token = token]
    /\ ChunkDone
    /\ UNCHANGED <<slot, event>>

RejectBlock(b) ==
    /\ ~Accepts(b)
    /\ uf2' = Rejected(b)
    /\ ChunkDone
    /\ UNCHANGED <<slot, event>>

-----------------------------------------------------------------------------
(***************************************************************************)
(* The host, through the interrupt handler (usb_msc.c).                    *)
(***************************************************************************)

\* Mutant of HostStartsWrite: the token starts again with each command.
HostStartsWriteAtZero ==
    /\ msc = "idle"
    /\ msc' = "ready"
    /\ mscToken' = 0
    /\ UNCHANGED <<asyncVars, uf2, resets, dropped>>

\* A WRITE command: its data phase has a token of its own.
HostStartsWrite ==
    /\ msc = "idle"
    /\ mscToken < MaxToken
    /\ msc' = "ready"
    /\ mscToken' = mscToken + 1
    /\ UNCHANGED <<asyncVars, uf2, resets, dropped>>

\* A READ command of one sector: it passes through the same sector buffer.
HostReadsSector ==
    /\ msc = "idle"
    /\ mscToken + 2 <= MaxToken
    /\ mscToken' = mscToken + 2
    /\ buffer' = [buffer EXCEPT !["disk"] = "torn"]
    /\ UNCHANGED <<slot, event, workerVars, flashVars, disable, aborted,
                   rebooting, ejected, msc, uf2, resets, dropped>>

\* Packets of a sector before the last one.
HostSendsPart ==
    /\ msc = "ready"
    /\ buffer' = [buffer EXCEPT !["disk"] = "torn"]
    /\ UNCHANGED <<slot, event, workerVars, flashVars, disable, aborted,
                   rebooting, ejected, uf2Vars>>

\* The last packet of a sector that is a UF2 block (_msc_on_sector_stream_chunk).
HostSendsBlock ==
    /\ msc = "ready"
    /\ mscToken < MaxToken
    /\ mscToken' = mscToken + 1
    /\ \E b \in Block :
          /\ buffer' = [buffer EXCEPT !["disk"] = b.data]
          /\ \/ WriteBlock(b, mscToken')
             \/ IgnoreBlock(b, mscToken')
             \/ RejectBlock(b)
    /\ UNCHANGED <<workerVars, flashVars, disable, aborted, rebooting, ejected,
                   resets, dropped>>

\* The last packet of another sector: vd_write_block leaves it alone.
HostSendsOther ==
    /\ msc = "ready"
    /\ mscToken < MaxToken
    /\ mscToken' = mscToken + 1
    /\ buffer' = [buffer EXCEPT !["disk"] = "torn"]
    /\ ChunkDone
    /\ UNCHANGED <<slot, event, workerVars, flashVars, disable, aborted,
                   rebooting, ejected, uf2, resets, dropped>>

CountReset(kind) ==
    /\ kind \in HostMay
    /\ resets < MaxResets
    /\ resets' = resets + 1

\* _msc_reset with vd_reset; the token is not part of what it resets.
MscReset ==
    /\ msc' = "idle"
    /\ uf2' = [uf2 EXCEPT !.num_blocks = 0]
    /\ ejected' = FALSE

HostResetsMsc ==
    /\ CountReset("msc_reset")
    /\ msc # "off"
    /\ MscReset
    /\ UNCHANGED <<slot, event, workerVars, flashVars, disable, aborted,
                   rebooting, buffer, mscToken, dropped>>

\* Mutant of HostResetsPicoboot: exclusive access stays.
HostResetsPicobootOnly ==
    /\ CountReset("picoboot_reset")
    /\ msc # "off"
    /\ slot' = [q \in Queue |-> NoTask]
    /\ aborted' \in {aborted, TRUE}
    /\ dropped' = (dropped \/ slot["disk"] # NoTask)
    /\ UNCHANGED <<event, workerVars, flashVars, disable, rebooting, ejected,
                   buffer, msc, mscToken, uf2>>

\* PICOBOOT_IF_RESET aborts the flash only if a PICOBOOT command is in progress.
HostResetsPicoboot ==
    /\ CountReset("picoboot_reset")
    /\ msc # "off"
    /\ reset_queues
    /\ aborted' \in {aborted, TRUE}
    /\ dropped' = (dropped \/ slot["disk"] # NoTask)
    /\ UNCHANGED <<event, workerVars, flashVars, rebooting, ejected, buffer,
                   msc, mscToken, uf2>>

\* SET_CONFIGURATION (_usb_boot_on_configure).
HostConfigures ==
    /\ \/ CountReset("set_config")
       \/ msc = "off" /\ UNCHANGED resets
    /\ MscReset
    /\ reset_queues
    /\ aborted' = TRUE
    /\ UNCHANGED <<event, workerVars, flashVars, rebooting, buffer, mscToken,
                   dropped>>

\* A bus reset, or SET_CONFIGURATION with zero: only the flash is aborted.
HostUnconfigures ==
    /\ CountReset("lose_config")
    /\ msc # "off"
    /\ msc' = "off"
    /\ aborted' = TRUE
    /\ UNCHANGED <<slot, event, workerVars, flashVars, disable, rebooting,
                   ejected, buffer, mscToken, uf2, dropped>>

\* PICOBOOT queues a task (usb_boot_device.c).
HostUsesPicoboot ==
    /\ msc # "off"
    /\ HandlerQueuesTask("picoboot")
    /\ UNCHANGED <<buffer, uf2Vars>>

Host ==
    \/ HostStartsWrite \/ HostReadsSector
    \/ HostSendsPart \/ HostSendsBlock \/ HostSendsOther
    \/ HostResetsMsc \/ HostResetsPicoboot
    \/ HostConfigures \/ HostUnconfigures
    \/ HostUsesPicoboot

-----------------------------------------------------------------------------
(***************************************************************************)
(* Completions.                                                            *)
(***************************************************************************)

\* Mutants of ImageComplete: any task's success, and one block too late.
ImageCompleteForAnyTask ==
    /\ result = "OK"
    /\ uf2.valid_block_count = uf2.num_blocks

ImageCompleteTooLate ==
    /\ running.token = uf2.token
    /\ result = "OK"
    /\ uf2.valid_block_count > uf2.num_blocks

\* _write_uf2_page_complete: the image is whole.
ImageComplete ==
    /\ running.token = uf2.token
    /\ result = "OK"
    /\ uf2.valid_block_count = uf2.num_blocks

\* vd_async_complete, for the token of the current sector: an error ends the
\* command with a failed status.  Outside a data phase there is no chunk to be
\* done with.
DiskComplete ==
    /\ source = "disk"
    /\ TaskDone
    /\ rebooting' = (rebooting \/ ImageComplete)
    /\ IF running.token = mscToken /\ msc = "pending"
       THEN IF result = "OK" THEN ChunkDone ELSE msc' = "idle"
       ELSE UNCHANGED msc
    /\ UNCHANGED <<slot, event, flashVars, disable, aborted, ejected, buffer,
                   mscToken, uf2, resets, dropped>>

\* The callbacks of PICOBOOT's tasks do not touch the virtual disk.
PicobootComplete ==
    /\ source = "picoboot"
    /\ TaskDone
    /\ UNCHANGED <<slot, event, flashVars, sharedVars, uf2Vars>>

Uf2Work == (Work /\ UNCHANGED uf2Vars) \/ DiskComplete \/ PicobootComplete

Uf2Next == Host \/ Uf2Work

Uf2Safety == Uf2Init /\ [][Uf2Next]_uf2AllVars

\* The worker's fairness, as in AsyncTask: it need not get past a poll of the
\* flash.
Uf2Spec == Uf2Safety /\ WF_uf2AllVars(Uf2Work /\ GoesOn)

-----------------------------------------------------------------------------
(***************************************************************************)
(* What the last two of the properties about a reboot need of the host:    *)
(* that its images are those a tool makes of a program, and that it leaves *)
(* the flash to the virtual disk meanwhile.                                *)
(***************************************************************************)

\* A block that vd_write_block takes when nothing is wrong with the download.
Proper(b) == ~Garbage(b) /\ b.block_no < b.num_blocks

\* An image has one block of a number.
OneBlockPerNumber ==
    \A b, c \in Block :
        /\ Proper(b) /\ Proper(c)
        /\ b.num_blocks = c.num_blocks /\ b.block_no = c.block_no /\ (IsRam(b) <=> IsRam(c))
        => b = c

\* Its blocks are in order: no two of them are for the same page, and those for
\* one sector are the ones whose numbers have the same page_no.
BlocksInOrder ==
    \A b, c \in Block :
        /\ Proper(b) /\ Proper(c) /\ b.num_blocks = c.num_blocks
        /\ b.target_addr \in Page /\ c.target_addr \in Page
        => /\ b.target_addr = c.target_addr => b = c
           /\ page_no(b) = page_no(c) <=> sectorOf[b.target_addr] = sectorOf[c.target_addr]

\* PICOBOOT's tasks leave the flash, its functions and exclusive access alone.
QuietPicoboot ==
    \A t \in TasksOf["picoboot"] :
        /\ t.type \cap {"FLASH_ERASE", "EXCLUSIVE", "VECTORIZE_FLASH"} = {}
        /\ "WRITE" \in t.type => t.transfer_addr \notin Page

\* And the host resets the mass storage or the whole device, but does not take
\* a task out of the queue or abort one behind the virtual disk's back.
QuietHost ==
    OneBlockPerNumber /\ BlocksInOrder /\ QuietPicoboot
    /\ HostMay \subseteq {"msc_reset", "set_config"}

-----------------------------------------------------------------------------
(***************************************************************************)
(* Properties.                                                             *)
(***************************************************************************)

\* The image the host is downloading: the proper blocks of its size.
ImageBlocks ==
    {b \in Block : /\ b.num_blocks = uf2.num_blocks /\ b.block_no < b.num_blocks
                   /\ ~Garbage(b) /\ IsRam(b) = uf2.ram}

\* valid_block_count says how many blocks are in the bitmap, and these are
\* blocks of the image (_write_uf2_page, _update_current_uf2_info).
CountIsValidBlocks ==
    /\ uf2.valid_block_count = Cardinality(uf2.valid_blocks)
    /\ uf2.num_blocks # 0 => uf2.valid_blocks \subseteq 0..(uf2.num_blocks - 1)

\* The device only leaves for a new image when every block of it has been sent
\* (_write_uf2_page_complete).
RebootsAfterAllBlocks ==
    [][~rebooting /\ rebooting' =>
          uf2.valid_blocks = 0..(uf2.num_blocks - 1)]_<<rebooting, uf2>>

\* And when every block of it is in the flash: no page was left out, written
\* over something not erased, or written while the host was already filling the
\* sector buffer with something else (_write_uf2_page_complete, _write_uf2_page).
RebootOnlyWhenWritten ==
    [][~rebooting /\ rebooting' =>
          \A b \in ImageBlocks :
             b.target_addr \in Page => flash'[b.target_addr] = b.data
      ]_<<rebooting, uf2, flash>>

\* A RAM image that has blocks in SRAM starts at the lowest of those, in
\* whatever order they came (lowest_addr in _write_uf2_page).
StartsAtLowestSram ==
    [][~rebooting /\ rebooting' /\ uf2.ram =>
          LET sram == {b.addr : b \in {c \in ImageBlocks : c.addr >= SramBase}}
          IN  sram # {} => uf2.lowest_addr = Min(sram)
      ]_<<rebooting, uf2>>

\* Every block after the first checks that nobody else has changed the flash
\* since the one before (the comment where _write_uf2_page sets
\* check_last_mutation_source).
LaterBlocksCheckSource ==
    [][source = "disk" /\ pc = "prepare" /\ pc' = "mutate" /\ ~Does("EXIT_XIP")
          => lastMutation = "disk"]_pc

\* A block whose task fails ends the download (the first case of the comment at
\* the head of _write_uf2_page).
FailureResetsDownload ==
    [][source = "disk" /\ pc = "complete" /\ pc' # pc /\ result # "OK"
          /\ running.token = uf2.token => uf2'.num_blocks = 0]_<<pc, uf2>>

NewestComplete == source = "disk" /\ pc = "complete" /\ running.token = uf2.token

\* A WRITE command that waits for the virtual disk gets its answer if the flash
\* does: the tokens of _msc_on_sector_stream_chunk and vd_async_complete do not
\* lose it, also when its task is refused or fails, or the command is given up
\* for another one.  PICOBOOT_IF_RESET is what loses it: it empties both queues.
WriteAnswered == FlashAnswers => (msc = "pending" ~> (msc # "pending" \/ dropped))

\* If the flash answers and the task of no newest block fails, the device reboots
\* once the last block is counted, unless the host gives the download up or
\* PICOBOOT_IF_RESET drops a task of it.  Tasks
\* of earlier blocks may fail or be refused: _write_uf2_page_complete only looks
\* at the newest one.
LastBlockReboots ==
    (FlashAnswers /\ [](NewestComplete => result = "OK"))
        => ((uf2.num_blocks # 0 /\ uf2.valid_block_count = uf2.num_blocks)
               ~> (rebooting \/ uf2.num_blocks = 0 \/ dropped))

=============================================================================
