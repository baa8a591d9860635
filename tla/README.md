# A verification project for the RP2040 boot ROM

The boot ROM starts the chip: it boots from flash, or, when it cannot or must
not, it becomes a USB device with two interfaces. One is a mass storage device
whose contents are made up (a "virtual disk"): a UF2 file copied to it is
programmed into flash or RAM and started. The other is PICOBOOT, a vendor
interface with commands to read, write, erase, execute and reboot.

This directory holds TLA+ models of it, TLC configurations and TLAPS proofs. All
paths below are paths of the repository.

## 1. Inventory

### Components

| Component | Source | State it keeps | Operations |
|---|---|---|---|
| Asynchronous tasks | `src/bootrom/async_task.c`, `.h` | `virtual_disk_queue`, `picoboot_queue` (one task each, `full`, `disable`), `_worker_task`, `_last_mutation_source`, `flash_funcs` | `queue_task`, `reset_queue`, `dequeue_task`, `execute_task`, the worker loop |
| Virtual disk | `src/bootrom/virtual_disk.c` | `_uf2_info` with two bitmaps | `vd_write_block`, `vd_read_block`, `vd_reset`, the completion of a block |
| Mass storage class | `src/usb_device_tiny/usb_msc.c` | `_msc_state`, `_msc_async_token`, CSW, data phase | one handler for each SCSI command, stalls, resets, sector stream |
| Stream helper | `src/usb_device_tiny/usb_stream_helper.c` | position and chunk of a transfer | packet handler, `usb_stream_chunk_done` |
| PICOBOOT | `src/bootrom/usb_boot_device.c` | `_picoboot_stream_transfer`, `_picoboot_current_cmd_status` | command packet, chunk, acknowledgement, reset, status |
| USB device stack | `src/usb_device_tiny/usb_device.c` | endpoints (buffers, toggles, halts, transfers), device state | transfers, stalls, control requests, interrupt handler |
| Flash | `src/bootrom/program_flash_generic.c` | the flash, the SSI, the abort flag (the mode of a pad) | program, erase, read, enter and exit XIP, abort |
| Boot path | `src/bootrom/bootrom_main.c`, `bootrom_rt0.S` | watchdog scratch registers, bootrom state | flash boot, rescue and watchdog boot, launch of core 1 |
| Runtime | `src/usb_device_tiny/runtime.c` | watchdog, GPIO | `watchdog_reboot`, `watchdog_rebooting` |
| Memory, CRC, bit functions | `src/bootrom/bootrom_misc.S`, `bit_functions.S` | none | memcpy, memset, crc32, decompress, popcount, clz, ctz, reverse |
| Floating point | `src/bootrom/mufplib.S`, `mufplib-double.S` | none | arithmetic, transcendental functions |
| Generator | `src/generator/main.c` | none | builds and compresses the welcome page |

### How they interact

There are two contexts on one core. Everything on USB happens in the interrupt
handler: a packet goes from the device stack to the default transfer of an
endpoint, to the mass storage class or PICOBOOT, perhaps through the stream
helper, and may end in `queue_task`. The thread runs `async_task_worker` for
ever: it takes tasks out of the queues, the virtual disk's first, runs them
(only here the flash is touched), and calls their callback with interrupts
disabled. The callback goes back into the endpoint code: it acknowledges, stalls,
or asks the stream for more, and so it may queue the next task.

What is shared: the two queues; the `disable` flag (set by a task, cleared by a
reset); the sector buffer of the mass storage and the chunk buffer of PICOBOOT
(tasks point into them); `_uf2_info` and `_picoboot_current_cmd_status` (handler
and callbacks); the flash abort (set by the handler, read by the worker in the
middle of an operation); the request to reboot (the watchdog).

Nothing stops the host from resetting an interface, taking the configuration
away or resetting the bus while a task is under way. A task cannot be called
back: what is queued is dropped, what runs goes on to its callback, and tokens
tell a callback whether anybody still waits for it.

### What is hard

- **Interleaving.** The handler may run between any two steps of the worker:
  between a look at a queue and `__wfe`, between dequeueing a task and running
  it, between the pages of a WRITE, in the middle of programming, between two accesses to a FIFO of the SSI.
- **Stale completions.** Three different tokens (`uf2.token` and
  `_msc_async_token` against `task->token`, and `picoboot_user_token`) and
  several resets that do not change them.
- **One buffer, one task, one status** for each interface, and a double buffered
  endpoint in front of it.
- **Order.** Blocks come in any order and repeated; the erase of a sector must
  come before the first page in it and never again.
- **Failure.** A flash that does not answer, an abort that leaves the flash in
  any state, tasks refused because of exclusive access, reboot or bad addresses.
- **Two ends, one protocol.** The mass storage protocol has no message for "stop":
  both ends work out from lengths, stalls and resets where in a command they are.
- **Liveness.** Every command needs an answer through a chain of callbacks.

The hazards are listed in `PROJECT.json`, each at the line where it bites and with
the properties that cover it.

### What makes each component correct

- Tasks: no queued task is slept on; no task of the disk runs while exclusive
  access shuts it out; a refused task has touched nothing; after a request to
  reboot the flash comes to rest.
- Virtual disk: the device leaves for a new image only when all of it has
  arrived and all of it is in the flash; every sector is answered; a whole image
  is started, a RAM image at the right address. A host that follows the tables it
  reads finds the files.
- PICOBOOT: one task at a time; nothing is acknowledged that is not done; the
  buffer of a task is left alone; a reset frees the interface; every command is
  answered.
- Endpoints: packets in order and once each, whatever is lost or reset; every
  buffer has one owner; a client has one packet at a time; transfers end.
- Boot path: a boot goes where the last request said, once, and else to the flash
  or USB; core 1 starts one whole image, the one of the call that is answered.
- Mass storage: host and device agree on the phase a command is in, whatever they
  had asked of each other; a status is true, and of the command it answers; the
  sense tells the last failure; every command is answered.
- Control endpoint: the device answers to the address the host uses; a request
  ends.
- Flash: no answer is lost or taken for another; a range is written or erased as
  a whole and nothing else is; an abort ends the call.
- Pure functions: equal to their definitions.

## 2. The modules

`AsyncTask` is the core. It is an *open* specification: its handler may queue any
task of `TasksOf[q]`, fill buffers, reset queues, abort and reboot at any moment.
`Uf2Download` and `Picoboot` extend it with a real producer each. Their
specifications implement AsyncTask's (`AsyncSafety` as a property of their
runs, and as a theorem), so AsyncTask is at once the detailed model of the
worker and the abstract specification of what it promises to its two clients.

| Module | Models | State |
|---|---|---|
| `AsyncTask` | `async_task.c`, the effect of `program_flash_generic.c` on the flash, `watchdog_reboot` | `slot`, `disable`, `event`; `pc`, `source`, `running`, `result`, `todo` (the worker); `lastMutation`, `flashFuncs`, `flash`; `aborted`, `rebooting`, `ejected`, `buffer` |
| `Uf2Download` | the write side of `virtual_disk.c`, the data phase of `usb_msc.c` | `msc`, `mscToken`, `uf2` (= `_uf2_info`); history `dropped` |
| `Picoboot` | the command protocol of `usb_boot_device.c`, over endpoints given by their transfer and halt | `ep`, `stream`, `cmd_status`, `configured`; history `crossed` |
| `UsbPipe` | the abstract endpoint: a pipe that delivers each packet once, in order | `next`, `flight`, `received`, `halted` |
| `UsbEndpoint` | a bulk endpoint of `usb_device.c` with `usb_stream_helper.c`, and the host behind the controller | `ep`, `pending`, `host` |
| `CoreLaunch` | `wait_for_vector` to `core1_launch` of `bootrom_rt0.S`, and core 0's end of the handshake | `core1`, `caller`, `fifo`, `event` |
| `UsbControl` | the control endpoint of `usb_device.c`, and the host's requests | `control`, `device`, `asking` |
| `MassStorage` | `usb_msc.c`: commands, data phases, stalls, status, resets; extends `UsbControl` | `msc`, `disk`, `host` |
| `FlashSerial` | `program_flash_generic.c`: the SSI and its FIFOs, the flash chip, the functions that drive them, the abort | `fifo`, `mode`, `cs`, `aborted`, `chip`, `flash`; `pc`, `call`, `addr`, `todo`, `put`, `count`, `seen`, `stat` |
| `RomWords` | `bit_functions.S`, `crc32_small`, `flash_size_log2` | none |
| `DiskImage` | the read side of `virtual_disk.c`, `poor_mans_text_decompress`, the compression of the generator | none |
| `RomStart` | `_start` of `bootrom_rt0.S`, `bootrom_main.c`, `watchdog_reboot`; composes `CoreLaunch` | `at`, `rescue`, `scratch`, `crystal`, `watchdog`, `attempt`, `flash`, `usb`, `call`; history `asked` |
| `Rom` | composes `RomStart`, `RomWords` and `DiskImage`: what a program and a USB host find | |
| `MCAsyncTask`, `MCUf2Download`, `MCPicoboot`, `MCUsbEndpoint`, `MCMassStorage`, `MCFlashSerial`, `MCRomStart` | instances for TLC | |
| `AsyncTask_proofs`, `Uf2Download_proofs`, `Picoboot_proofs`, `RomStart_proofs` (with `CoreLaunch`), `Rom_proofs`, `MassStorage_proofs`, `FlashSerial_proofs`, `UsbEndpoint_proofs` | theorems | |

**AsyncTask.** The actions named `Handler...` are what an interrupt may do. The
worker's loop is cut where an interrupt can be told to have come between: two
looks at the queues (`PollDisk`, `PollPicoboot`), the sleep (`Wake`), the entry
of `execute_task` (`Refuse`, `Accept`), the part of `_execute_task` before the
erase (`RefuseVectors`, `Prepare`), each sector of the erase (`EraseSector`), the
access (`SkipAccess`, `AccessMemory`, `ReadFlash`, `StartProgram`, `EndProgram`)
and the callback (`Complete`). Two steps for programming are there because the
buffer can be refilled and the flash aborted between them. A page holds a
payload, "erased" or "torn"; "torn" is whatever is left of an aborted or mixed
write. Addresses are kept by what the code tells apart. Code of the host's
(AT_EXEC, flash functions behind AT_VECTORIZE_FLASH) appears by the results it
may return.

**Uf2Download.** One action for each thing the host does to the mass storage,
with `_update_current_uf2_info` and `_write_uf2_page` as the operators `Opened`,
`Accepts`, `Rejected` and `Counted`, and the two completions. A block is counted
when it is queued, as in the code, not when it is written. `dropped` is a history variable:
PICOBOOT_IF_RESET has emptied the queue while a task of the disk was in it.

**Picoboot.** One action for each kind of command packet, for the packets and
acknowledgements of a stream, the halts, the resets, and the two callbacks
`AckCommand` (`_atc_ack`) and `FinishChunk` (`_atc_chunk_task_done`, with
`usb_stream_chunk_done` and `usb_packet_done`). Data goes by whole chunks.
A command is taken whenever OUT waits for one, whatever IN is at, because
`_picoboot_cmd_packet` looks at nothing else; `crossed` is a history variable that
says that one was taken while IN was not idle, which needs the acknowledgement of a task
that outlived a reset, or a halt. `Deferred` is the hold on the packets of a double buffered endpoint.

**UsbEndpoint.** One bulk endpoint, IN or OUT, with two hardware buffers. An
interrupt or a call of the client is one step, made of operators named for the C
functions (`GiveBuffer`, `GiveAsMany`, `StartTransfer`, `CheckCompletion`,
`PacketDone`, `HandleTransfer`, `ResetBuffers`, ...), which take the driver's
record to its next; the driver looks at nothing the controller changes meanwhile,
except the AVAIL bits in `_usb_reset_buffers`. The calls that the C code makes to
itself are unrolled: there are two buffers, and a packet is queued only while
another is held. The flag of an outstanding packet is kept as a count, so that a
second call of the client would show. A client may hold a packet at the boundary
of a chunk and release it later (`ClientDone`), as the stream helper does. The
host sends, repeats, and receives packets with data toggles, and its
acknowledgements get lost. Halts and resets: the endpoint's own stall after a bad
command, `CommandHalts` (mass storage), CLEAR_FEATURE, the reset of an interface,
SET_CONFIGURATION and the bus reset. `InOrderOnce` says that the endpoint
implements `UsbPipe`. `Deferred` and `Streaming` of Picoboot are what this level
looks like from above.

**UsbControl, MassStorage.** The control endpoint is its stages: SETUP, data in,
status, the host's side of each, and a SETUP that overtakes an earlier request.
MassStorage adds the two bulk endpoints by what they are at (`in`, `out`, `halt`),
`_msc_state`, and a host that follows the rules of the bulk-only transport: it
goes to the status after a short packet or a stall, clears halts, and recovers by a
reset and two CLEAR_FEATUREs. It may lose patience at any time. The handlers are
operators that take the record `msc` to its next (`Opened`, `WithData`, `Reply`,
`ReadOrWrite`, `DataPhaseComplete`, `SendCsw`, ...), because the C functions call
each other in the middle of their own changes. A sector is two packets and a
length is counted in halves of a packet, so that a data phase can end inside a
packet and inside a sector. The virtual disk is what `vd_write_block` does to its
caller: done at once, or queued with the token of the sector. A command is kept by what its handler does with it;
the commands that only differ in the content of their answer are one ("reply").
A completion with the current token that finds no packet does what the code does
(`DoneForNobody`): it counts the packet, takes its length from a residue that may
wrap below zero, and at a failure halts the endpoint and makes up a status.
`disk.late` is a history variable: it says that this has happened (`TooLate`) since
the interface was last reset. One that comes before any command since a reset does no harm
and is not counted.

**FlashSerial.** Every access to the SSI is a step of its own: the level of one
FIFO, the level of the other, a put and a get. Between any two the SSI may shift
bytes and take in answers, and the handler may abort. A FIFO is a *number* of
bytes; which byte it is follows from how many were put. An address is counted in
half sectors, so that a range may end inside one. The chip hears a command while it
is selected and acts on it when it is no longer (`Obeyed`, `Changed`): a write needs
a write enable, a chip that is not busy and a whole command, and whatever else it
hears makes a torn page or nothing. AsyncTask's `EraseSector`, `StartProgram`,
`EndProgram` and `ReadFlash` are what this level looks like from above.

**RomWords, DiskImage.** No state: the functions with the instructions or loops of
the source, beside a definition that says what they should be. A word is the set
of its bits, with the arithmetic of a register on top. A sector is a record of the
fields that are not zero; the host that checks the volume follows the partition
table, the boot sector, the FATs and the directory and uses nothing else. The page has
two places for the serial number: the generator looks for them with the bound of its
loop (`OffsetsFound`), and the ROM fills in the two offsets it was given and no other.
A length is counted in letters, where a placeholder and a serial number have 12 bytes each.
`poor_mans_text_decompress` tests for the end at the end of its loop, so
the model gives it texts that are not empty, as the page is. A loop of
the source is a recursive function over its turns. In `Rom` both are invariants of the
state where they are visible: a program finds the functions (`ProgramHasFunctions`), a
USB host the files (`UsbHasDisk`).

**CoreLaunch, RomStart.** A step of core 1 reads or writes a FIFO once; its two
loops of `wfe` are cut between the look at the status and the sleep, with the
event registers. Core 0's end is the code of a program: it drops left-over
answers before it sends a zero, sends 0, 0, 1, VTOR, SP, PC, and starts anew at a
wrong answer. RomStart adds the way of core 0 through the ROM (`CheckRescue`,
`CheckWatchdog`, `SampleStrap`, `TryFlash`, `StartClocks`), `watchdog_reboot`, and the
resets: watchdog, power, rescue, and each core alone. `watchdog_reboot` is cut where a
reset can be told to have come between: the watchdog is stopped, then scratch 4, 5 and 7
are written in this order (`WriteMagic`, `WriteCheck`, `WriteEntry`), then it waits for the
crystal and arms the watchdog. `call` is what it was called with, `asked` a history
variable: the entry asked for and not yet honoured, and whether its writes are
incomplete.

## 3. The runs

| Run | Question | Instance |
|---|---|---|
| `async_safety` | Does any interleaving lose a wakeup, run a disk task under exclusive access, or let a refused task touch the flash? | one page; the first block of an image for the disk, nine tasks of PICOBOOT: exclusive access taken and left, a write that checks its source, three that are refused for their addresses, the host's functions, a read of the flash and a write to memory |
| `uf2_download` | Does the device ever start an image that is not whole, or not in the flash? Does a RAM image start at its lowest SRAM address? | flash images of 1, 2 and 3 blocks over three pages and two sectors, a RAM image of 3 blocks, three blocks no image should have, sent in any order with repeats; one reset of the mass storage or new configuration |
| `uf2_answered` | Is every sector answered, and does the last block start the image? Is the download a run of AsyncTask? | a flash image of 2 blocks and a RAM image of 3, beside PICOBOOT tasks that take exclusive access and write a page, so that sectors are refused or fail; one reset of any kind |
| `picoboot` | Is there one task at a time, is an acknowledged WRITE in the flash, does a reset free the worker, is every command answered, does the flash come to rest before a reboot? | two commands, sent whenever OUT waits for one, out of eight (a WRITE and a READ of two chunks, an erase, commands without data, one that fails, two that are refused), writes of the disk, one reset of any kind |
| `usb_endpoint` | Is every packet delivered once and in order, every buffer accounted for, does every transfer end? | an OUT or an IN endpoint, 7 packets in transfers of up to 4, chunks of 2, two lost acknowledgements, two halts or resets |
| `mass_storage` | Do host and device agree on where in a command they are, is every status true, is every command answered, until a completion comes too late? Does a completion ever end a packet that is not its own? | two commands out of fifteen: every operation, and reads and writes of one or two sectors for which the host wants as much, less, more, nothing, or the other direction; any number of timeouts, stalls, resets and requests |
| `flash_serial` | Is an answer ever lost or taken for another, is a range written whole, does an abort end the call? | FIFOs of 3 bytes, one byte inside the SSI, commands of 2 bytes and pages of 2, three pages, blocks of two; a range that ends in the middle of a page, one with a block and a part of a sector, one with room for a block that begins in the middle of it |
| `rom_start` | Does every boot go where it was asked to, unless a reset cut the request short, does core 1 start whole images only, are the ROM's functions and its disk in order? | two images, FIFOs of two words, two calls, one reset of a core, one power cycle or rescue, any number of watchdog reboots, 4 attempts at the flash; words, messages and texts as below |
| `uf2_interleaved`, `uf2_failure`, `picoboot_reset`, `usb_endpoint_reset` | violations, see section 6 | |

**Bounds, and why they are enough.** One page is enough for AsyncTask, because
its properties speak of one task at a time and the two queues hold one task each.
Two sectors with one of two pages give the case of a page whose sector is already
erased and of one whose sector is not; three image sizes give an image that is
shorter, one that is longer and one of the same size as the image before.
`MaxToken` bounds the sectors and commands of a download at 8, which is enough
for an image, a reset and another whole image with repeats; in `uf2_answered` at 4, a whole
image and a sector or command more. Two PICOBOOT commands
are what it takes for a task of the first to complete into the second, with a
reset between; two chunks are what it takes for a chunk that is not the last.
Seven packets are enough for a transfer of two chunks, a reset in the middle of
it, and a transfer after it, with both buffers in use throughout. FIFOs of two
words become full in either direction with one reset; two images without a
common word make any mixture of two calls visible; 4 attempts are one in each mode
of the flash's bus, where the code makes 128.

Two mass storage commands are one that is given up and one that meets what is left
of it, and a REQUEST SENSE after a failure; two sectors give a sector that is not
the last, a packet received while another is held, and a transfer that ends inside
a sector. One address is enough, because a bus reset takes it away again. A FIFO of
the SSI holds 16 bytes and up to two are inside; with 3 and 1 the thread can put
two bytes ahead of what it has taken, so the limit is reached in every command of
4 bytes, and the proofs cover every depth. Three pages with blocks of two have a
block, a sector behind it, and a block that does not fit where the range begins.

The bit functions are checked on every word with at most two ones, with at most one
zero, and on every run of ones, which puts a one, a zero and an edge at every place
of the tables and masks. The checksum is checked on messages of up to two bytes and
one longer than the sum itself; as it is linear, a wrong tap shows on one bit. The
volume is the real one, 128 MB. The compression has a longest match of 4 and a window of 3 instead of
127 and 255, and is checked on all pages of up to seven letters with two
places for the serial number and repetitive ones of eleven, which reach past both. The proofs of section 4 cover every word, message and text,
and the real bounds of the compression among all others; the run is what shows that
the definitions say what they should, and what the mutants break.

Every bound is a constant (`MaxToken`, `MaxResets`, `MaxCommands`, `MaxPackets`,
`MaxLosses`, `MaxCalls`, `MaxBoots`). The runs with such bounds switch the check for
deadlock off: at the bound the host simply stops. Those of AsyncTask and
FlashSerial, which have none, keep it.

**Fairness.** In the task modules only the worker is fair: weak fairness of its steps
together, because the thread runs whenever no interrupt is being handled and handlers
end. The host is never fair; it need not send anything. The step that waits for the
flash is excluded (`GoesOn`), because a flash, or an empty socket, may never
answer: only an abort ends that wait, and only with the ROM's own functions. This is so
in `AsyncTask`, `Uf2Download` and `Picoboot` alike.
Properties that need the flash to answer say so (`FlashAnswers`), and those about
PICOBOOT also assume that the disk's queue, which goes first, does not stay full for
ever.

FlashSerial shows what `GoesOn` stands for. Only the thread is fair there: the first
half of `CallsEnd` is about a bus and a chip that may have stopped for ever, and only
the second half, about a call without an abort, assumes that they go on.

In UsbEndpoint the interrupt is served, the client releases the packet it holds,
and the host goes on with its transactions, so that `TransferEnds` speaks of the
driver and not of a host that has gone away. In MassStorage the flash answers and a
host that waits for something takes what the device offers; it never has to send a
command or a reset. It may give up a request on the control endpoint by sending
another, so the end of a request has strong fairness: not *every* request is
given up just before its last stage. In RomStart both cores run on, and
an enabled watchdog fires. `LaunchEnds` has an exception in it: with two zeros
the handshake can follow itself for ever if core 0 looks for left-over answers
each time just before core 1 sends one. To send a zero to core 1 at rest even
once ends this, and TLC shows that nothing else keeps a call from its end.

**Mutants.** Each property of a passing run is broken by a change of the model that
a plausible bug in the code would make, defined next to what it changes
("Mutant of ..."): no `__sev`, a full flag not cleared, a wrong queue's flag, a
token compared with nothing or set too early, a count off by one, a reset that
does too little, the levels of two FIFOs read in the other order, a status that does
not wait for the end of a halt, one wrong constant.

## 4. What is proved

The theorems hold for all values of the constants, under the assumptions named in
the modules, which TLC evaluates in every run that uses them:

- `TasksAssumption`, `DiskTasksAssumption`, `DiskWritesAssumption`, `EraseAssumption`: tasks are
  well formed; a task does not both read and write; only PICOBOOT's tasks change
  exclusive access; the disk queues only writes, and none of them checks who changed
  the flash last (section 6); a task that erases goes on to the flash or nowhere
  (section 6 says why).
- `Uf2Assumption`, `PicobootAssumption`, `ChunksAssumption`: the tasks that blocks and commands
  stand for are among those of their queue; the address of a block is not above
  0xffffffff; the chunks of a WRITE are on different pages.
- `LaunchAssumption`, `RomAssumption`: a FIFO of a core has room for a word, an image is
  three words with no 0 or 1 among them.
- `FifoAssumption`, `FlashAssumption`, `AlignmentAssumption`: a FIFO of the SSI is deeper than
  what the SSI has under way and has room for a command with its address; a range of
  the flash begins at a page or a sector ("Setting correct address alignment is the
  caller's responsibility", `program_flash_generic.c:310`).
- `EndpointAssumption`, `ControlAssumption`, `MscAssumption`: the sets and bounds of the USB
  modules are sets and bounds.
- `WordsAssumption`, `MessagesAssumption`, `TextsAssumption`, `CompressionAssumption`: words
  have 32 bits, messages are sequences of bytes, a page fits in a sector (as
  `vd_read_block` takes for granted) and has two places for the serial number, neither of them
  at its very end, and the bounds of the compression are numbers.

Some theorems are about hosts that keep to a rule, and say so:

- The theorems about the endpoint are for `QuietReset`: the host resets an endpoint only when
  no finished buffer waits for the interrupt. Run `usb_endpoint_reset` shows that it
  is needed. Some of those about PICOBOOT are for hosts that send no command across an
  answer (`~crossed`): what an acknowledgement ends is not told from the one that comes
  after it. Those about the two ends of the mass storage speak of the time until a
  completion comes too late (`~disk.late`). Section 6 says what happens then.
- Two theorems about the download are for hosts that send proper images: a file has one
  block of a number (`OneBlockPerNumber`), and its blocks lie in the flash in the order of
  their numbers, so that a sector has the blocks of one `page_no` (`BlocksInOrder`). The code
  takes both for granted, and so does any tool that makes such a file; the images of
  the runs have both (`MCProperImages`).
- For the contents of the flash the host also has to leave it to the virtual disk meanwhile
  (`QuietHost`): PICOBOOT may read anything and write memory, but does not change the flash,
  its functions or exclusive access, and no reset but that of the mass storage and a
  new configuration comes in between. Runs `uf2_interleaved` and `uf2_failure` show what comes
  of a host that does not.

| Theorem | States |
|---|---|
| `AsyncTypeCorrect` | `[]AsyncTypeOK` |
| `WakeupCorrect` | `[]NoLostWakeup` |
| `ExclusiveCorrect` | `[]DiskIdleWhileExclusive` |
| `RefusedCorrect` | `RefusedTaskLeavesFlash`: a task whose address or erase range is not valid has touched no page |
| `Uf2TypeCorrect`, `PicobootTypeCorrect` | the types of the two producers |
| `Uf2Refines`, `PicobootRefines` | both implement `AsyncSafety` |
| `Uf2Inherits`, `PicobootInherits` | so both have the safety properties of AsyncTask |
| `CountCorrect` | `[]CountIsValidBlocks` |
| `RebootCorrect` | `RebootsAfterAllBlocks`: a reboot into an image needs all of its blocks |
| `LowestCorrect` | `StartsAtLowestSram`, if an image has one block of a number |
| `RebootWrittenCorrect` | `RebootOnlyWhenWritten`, for a `QuietHost`: the image is in the flash, whatever the order and repetition of its blocks and whatever was given up before |
| `OneTaskCorrect` | `[]OneTask`: a task belongs to the stream it is of, whatever the host does; and there is one at a time, if `~crossed` |
| `QueuedTaskKeptCorrect` | `QueuedTaskKept`: a queued task is never overwritten, if `~crossed` |
| `AckCorrect` | `[]AckOnIdleEndpoint`: a completion acknowledges on an endpoint that waits for it, if `~crossed` |
| `ProgressCorrect` | `[]StatusTellsProgress`: in progress means that something is still to answer, if `~crossed` |
| `BufferCorrect` | `ChunkKeepsBuffer`: only a READ that a reset has overtaken touches a buffer that is being filled |
| `WrittenCorrect` | `AckMeansWritten`: what was acknowledged is in flash, whatever the disk wrote in between |
| `PacketDoneCorrect` | `[](resets = 0 => PacketDoneHasTransfer)`: only a reset takes the transfer away from a chunk whose task is at work |
| `AddressCorrect` | `[]AddressAgreed`: the device answers to the address the host uses |
| `MscTypeCorrect` | `[]MscTypeOK`, in which a transfer stays within its length, and the residue is not below zero until a completion comes too late |
| `CompletionCorrect` | `[]CompletionEndsOwnSector`: whatever was given up, no completion ends a packet of another sector |
| `PhasesCorrect` | `[]PhasesAgree`: host and device are in the same phase of the same command, until a completion comes too late |
| `StatusCorrect` | `[]StatusIsTrue`: status, tag and residue are those of the command, until then |
| `SenseCorrect` | `[]SenseTellsFailure`: sense data tells why a command failed, until then |
| `FlashTypeCorrect` | `[]FlashTypeOK` |
| `FifoCorrect` | `[]RxNeverOverflows`, for every depth of the FIFOs |
| `AnswersCorrect` | `AnswersMatch`, for every length of a command |
| `RangeCorrect` | `RangeWritten`: a call that erases or programs a range does so to every page of it and to no other, unless it was aborted |
| `EndpointSafe` | `[]EndpointInv`: each buffer is in one place, a packet at most is with the client, one that waits is in the other buffer, and none comes that no transfer expects |
| `EndpointInOrderOnce` | `InOrderOnce`: the endpoint implements `UsbPipe` |
| `HandledCorrect` | `[]HandledIsFull`: an OUT packet is taken from a buffer the controller has filled |
| `LaunchTypeCorrect` | `[]LaunchTypeOK` |
| `StartsWholeCorrect` | `[]StartsWhole`: core 1 starts VTOR, SP and PC of one call, under any resets |
| `LaunchAsCalledCorrect` | `[]LaunchAsCalled`: and core 0 is told that a call is done only if it is |
| `StartLaunches`, `StartStartsWhole` | the chip's start is a run of the launch, so the whole chip has `StartsWhole` |
| `StartTypeCorrect`, `StartCorrect` | `[]StartTypeOK`, `[]StartInv`: the whole chip has `LaunchAsCalled` too |
| `EntryCorrect` | `EntryAsAsked`: a boot goes where the last request for a reboot said, once, unless a reset cut its writes short |
| `OnesCounted`, `Reversed`, `LeadingZeros`, `TrailingZeros` | `popcount32`, `reverse32`, `clz32` and `ctz32` do what they are named for, on every word of 32 bits |
| `ChecksumRight` | `crc32_small` is the remainder by its polynomial, for every message and seed |
| `SizeFound` | a flash size in the parameter table, up to a gigabit, is that of the flash |
| `DecompressInverts` | the ROM gets back every text that the generator compresses, for every longest match and window |
| `HostFinds` | `HostFindsFiles`: a host finds its files, on every page with two places for the serial number |
| `ProgramsHaveFunctions`, `HostsHaveDisk` | `[]ProgramHasFunctions`, `[]UsbHasDisk`: so do the programs and hosts of the whole ROM |

The arguments:

- *NoLostWakeup* is not inductive. A task may be queued between the look at its
  queue and the sleep, so the proof carries that from the look at a queue
  on (`pc` past it and nothing taken) the queue is empty or the event is set.
- *DiskIdleWhileExclusive* holds because the flag is changed by a task only, and
  then the worker is not running one of the disk's; the proof uses that a task of
  the disk changes no exclusive access, and that a reset only clears the flag.
- *RefusedCorrect.* The answer to a task and the checks that decide it are many steps
  of the worker apart, and an abort may come in between. `CheckedInv` says that past
  the preparation of a task the checks of what the worker has in hand were made
  and passed, and `CheckedBeforeFlash` that flash is changed only past it.
- *CountIsValidBlocks* is inductive together with the finiteness of the bitmap,
  without which its cardinality need not grow with a new block. *RebootCorrect*
  then needs that a subset of `0..n-1` with `n` members is all of it.
- *LowestCorrect.* `lowest_addr` begins at 0xffffffff, and no address is above that: it is
  the address of a block sent to SRAM, or nothing lower than the end of memory was
  sent. With all numbers sent, every block of the image was.
- *RebootWrittenCorrect.* The bitmap counts a block when it is queued, and the reboot trusts it
  many tasks later. `ImageInv` says what is true of the flash in between. Between two
  blocks (`AtRest`) those sent are written, and the rest of every sector that was begun is
  erased. Under way (`UnderWay`), the one block that is not yet written is in the queue or in
  the worker's hand, and which of its sector and page is done follows from `pc` and
  `todo`. What makes it inductive is the case of an image that was given up by a reset
  (`First`): its last task may still run while the first block of the next one waits in the
  queue. It may spoil any page, and does no harm, because a first task erases and
  leaves XIP, and because its older token neither completes the sector nor starts the image.
- *OneTask* speaks of the tasks outstanding; its proof of the two places a task can
  be (the queue, the worker). `MatchInv` holds whatever the host does: a current
  task is one of the stream's command, there is no second in the queue, a stream that waits for
  a chunk has none outstanding, and a task with an older token can do nothing to the stream.
  `FreeInv` holds as long as no command is sent across an answer: a queued task keeps both
  endpoints from taking a command, and so does a stream. Both are proved together with the
  types: the type of the stream's position needs that a stream belongs to a READ or WRITE.
- *AckCorrect, ProgressCorrect, BufferCorrect.* `StatusInv` says who has to move next
  while no command was sent across an answer. A task of the stream's command that will
  acknowledge has IN free for it (`EndsInv`), a command in progress has a task or streams
  (`ProgressInv`), and a task that runs either serves the command in progress or was
  overtaken by a reset, which has aborted it if it may hang in the flash (`OvertakenInv`).
  *BufferCorrect* needs `MatchInv` only.
- *PacketDoneCorrect* bounds the finding of run `picoboot_reset`. As long as nothing was
  reset (`CalmInv`), a task that runs is the one of the stream's command, neither endpoint
  takes a command or acknowledges while there is a task or a stream (`Occupied`), and so
  the endpoint of a chunk still has its transfer when the task of the chunk ends.
- *WrittenCorrect* compares the flash with what the host sent many tasks ago.
  `WriteInv` follows the WRITE from chunk to chunk: the task has the page of its chunk, the
  buffer has that chunk's data, and the chunks before it are in flash, *provided* that
  PICOBOOT was the last to change it and no abort is pending. A write of the disk
  makes the proviso false, and the next chunk finds out (`CheckedInv`: it has passed the
  check of the mutation source before it programs); an abort ends only with a task that
  then is the last mutator (`MutatorInv`).
- *AddressCorrect* needs to know what the device and the host may have learnt of a
  request at each stage of it: the invariant relates the request under way, the
  address the device has been given but does not use yet, and the host's stage.
- *MscTypeCorrect, CompletionCorrect.* What a C programmer would argue about here
  are unsigned subtractions and stale tasks. `TransferInv` holds whatever comes too late:
  a transfer stays within its length (`Bounded`), and the tasks are in order
  (`TasksInOrder`): the one queued is later than the one that runs, and none has the current
  token while a transfer runs that waits for no task, because every transfer and
  every sector begins with a new token. `Fit` holds until a completion comes too late: the
  residue is at least what the transfer has still to move, one endpoint at a
  time has something to do, a packet is held or deferred only in a transfer that
  runs (`MscFits`), and between commands the interface rests. `LateKept` says that
  only a reset of the interface makes it hold again.
- *PhasesCorrect, StatusCorrect, SenseCorrect.* None of the three is inductive: they
  look at the ends of a command, and a command is dozens of steps of two actors.
  `Agree` says where both are in the meantime: the host sends or reads data
  packets while the interface does the opposite, or one has stalled and the other
  is about to learn it, or the status is on its way, or the host resets. In each
  case it relates the length asked, what was moved, the packets that lie in
  buffers and the residue to be reported. Once data has moved to the device, no task
  that was given up has the current token; before that one may, and its completion is
  the one that comes too late.
- *FifoCorrect, AnswersCorrect.* `FlashInv` has two parts beside the types. What was
  put and not yet taken is in the two FIFOs or between them (`BytesInv`). And what
  the thread believes of the levels, with room for what is inside the SSI, is
  never less than the truth (`LevelInv`): a byte that moves on between the two
  looks is counted twice and not missed, *because* the transmit level is read first.
  The mutant that reads them in the other order breaks exactly this.
- *RangeCorrect.* A range is several commands, and each is an enable, an alteration and
  polls until the chip is no longer busy, every one of them byte by byte. `ChipInv`
  says that the chip has heard exactly what was put and has left the FIFO; with
  `PollInv`, an answer without the busy bit means a chip that is not busy. `AddrInv`
  is about the addresses: from one whole page or sector to the next, past the goal by
  less than one of them. `ProgressInv` says at each point of the sequence which part of
  the range is done and that the rest of the flash is as it was at the call.
- *EndpointSafe.* `EndpointIInv` is the conjunction of what each part of the driver
  relies on. `Places`: the two buffers are with the driver, the controller or the
  interrupt, and those that are not with the driver come back in the order they were
  given (with one owned, the other is available or pending; with none, the pending
  ones begin with the next to be given). `Toggles`: the toggle of the next buffer
  continues that of the host, with the packet whose acknowledgement was lost counted
  in. `Kinds`: which transfers may be there and be chained. `Work`: at most one packet
  is with the client, and where. `Accounts`: what a transfer has still to handle is
  what it has to submit, what is given and not yet back, and the buffer that is
  queued; without the last one `usb_packet_done` would count it twice. Each C
  function has a lemma that says what it keeps; the loop of
  `_usb_give_as_many_buffers_as_possible`, which calls itself through
  `usb_packet_done`, has one for each turn.
- *EndpointInOrderOnce.* The pipe's `flight` is what the controller holds and the
  host has not taken, or what the host sent and the driver has not handled. A step is
  a stutter of the pipe or one of its moves: it receives, drops for a halt, is reset, or
  sends one packet or two (an interrupt that starts a transfer gives both buffers).
- *HandledCorrect* bounds the finding of run `usb_endpoint_reset` in the same way. The buffers
  that wait for the interrupt are neither the driver's nor the controller's
  (`Places`), and every function of the driver changes only the buffers it gives
  (`Untouched`), so they stay as the controller has filled them.
- *StartsWhole* is about three words that core 1 has heard over many steps, with
  resets of either side and a FIFO in between, so it is not inductive.
  `StreamInv` puts together what core 1 has heard and what is in the FIFO in front
  of it. In this stream, whatever follows a 1 up to the next 0 is the beginning of
  an image, and the end of the stream belongs to the image that core 0 is sending,
  unless core 0 sends a 0 next. A word in the FIFO survives a reset of either core,
  but a new call begins with a 0, which ends what came before.
- *LaunchAsCalled* is about answers. Core 0 compares each answer with the word it
  sent last, and an image may repeat a word, so an answer that is late by one might
  pass for the next. `CallInv` says why the two zeros in front make that impossible.
  Core 1 answers 0 only when it has drained its FIFO (`Flushed`). The first 0 that
  core 0 takes may be older than the call; the second was sent in it, so nothing but
  zeros of the call is left in front of core 1. If one is, core 1 answers yet another 0
  (`ZeroNext`), where core 0 expects a 1. If none is, both are in step (`InStep`)
  from there on, until core 1 is reset, and then its next answer is a 0 that no word of
  an image is equal to (`Overtaken`, `ZeroNext`).
- *EntryAsAsked* follows from `ScratchAsAsked`: the scratch registers hold the last
  request that was not honoured, through every reset; and while the writes of one are
  under way, as much of it as was written (`Half`).
- *OnesCounted* is about a word with every bit unknown, so no enumeration of words would
  do. The word is read in fields: the adder is described by its carries (`AddIs`), and where
  no field overflows the carries into the next are zero and the addition adds the fields
  (`AddSixes`). The masks leave one bit in each field of three; then fields have at most
  3, 6 and 12, each within its width, and the multiplication adds three of the last at bit
  26, where the answer is read.
- *LeadingZeros, TrailingZeros, Reversed* follow one bit. Which shifted half is zero says in
  which interval the first or last one is, and the tables do the rest; an exchange under
  a mask takes each bit from its partner, and four such moves are 31 less the place.
- *ChecksumRight.* The register of `crc32_small` is the remainder of the part of the message
  that was read. Division is linear, so eight turns of `bit_loop` are eight steps of the long
  division of the register, moved up by a byte, with the next byte under it (`DividesByte`),
  and the rest of the message, which lies below, is not touched.
- *SizeFound.* The table gives a number of bits less one. Adding one may carry
  to the top; `CarryMoves` follows the value of the word through the adder, so that the
  highest bit of the sum is the logarithm.
- *DecompressInverts.* A turn of `compress` at a position makes symbols that take the
  decompressor's buffer from what is in front of the position to what is in front of the next
  (`ExpandsFrom`), and the last one to the whole text. A copy is the delicate case: a match may
  reach beyond the position and so overlap with what it writes, and byte by byte each
  is there when it is read, because it lies before the one written.
- *HostFinds.* The numbers of the tables and those in the arithmetic of `vd_read_block` are two
  derivations of one layout; the proof evaluates both (`Places`) and follows the host to its
  two clusters, and shows for every other cluster, of 32731, that either FAT calls it free.
- The loops in these are recursive functions, over which the prover has no induction. Every
  fact about all turns is proved by the least turn at which it would fail (`Least`), which
  exists because the numbers are well founded.
- The refinements need these invariants: that `HostSendsChunk` puts a
  *well formed* task in the queue depends on the stream's command and position.

`CountIsValidBlocks` and `QueuedTaskKept` are proved and not part of a run.

Only model-checked: all liveness, which is out of reach of the prover under
fairness. Every other property of a run that passes is a theorem.

## 5. Limits of the models

- Uf2Download has the mass storage's data phase only; commands, status and stalls
  are in MassStorage, where in turn a sector has no content. PICOBOOT sees endpoints by their transfer and halt; packets
  within a chunk, data toggles and buffers are only in UsbEndpoint.
- A packet of MassStorage goes from one end to the other in one step; buffers, lost
  acknowledgements and toggles are in UsbEndpoint. `PhasesAgree`,
  `StatusIsTrue`, `SenseTellsFailure`, `CommandAnswered` and the residue of `MscTypeOK`
  speak of the time until a completion comes too late; what the interface does from
  then on is only counted as late. In the code such a completion follows a null pointer if there
  is no transfer, and after a READ without a data phase it gives a buffer
  to IN (`stream.ep`). `CommandAnswered` and `WriteAnswered` name their other exception, the
  sector that PICOBOOT_IF_RESET dropped.
- The control endpoint has descriptors of one packet, no halt of its own by the host,
  and no SETUP in the middle of a packet. SET_FEATURE(ENDPOINT_HALT) is in
  UsbEndpoint only.
- UsbEndpoint is one of the double buffered bulk endpoints. Single buffered and isochronous endpoints, which this device does not
  configure or which take other paths, are not there. In the run that passes the
  host resets an endpoint only when no finished buffer waits for its interrupt
  (`QuietReset`); without that, see section 6. That a finished buffer still
  raises its interrupt after its control word is cleared is the controller's
  doing, not this code's.
- RomStart has clocks and pads by their effect, and the second stage by the modes of
  the bus in which it can be read. Core 0's launch code is not in the ROM; it
  is written from the words and the answers the ROM expects. A program calls
  `reset_usb_boot` outside a launch of its own.
- The host of `Picoboot` sets no halt of its own, and asks for no READ or WRITE of
  length zero. The host sets the top bit of `bCmdId` by the direction of the
  command; one that does not, so that the test of it for the acknowledgement
  (`usb_boot_device.c:209`) disagrees with the direction of the data, is not modelled.
  When a transfer is overwritten on an endpoint that has one, the packet of the first is
  forgotten.
- The release build compiles the assertions out (`src/CMakeLists.txt:106`), so the models go on
  after one that fails, as the program does.
- Scratch 6, which holds the stack pointer of a vector, is left out of RomStart: it
  has no part in whether a vector is taken.
- A page with more or fewer than two places for the serial number, or one at its very end,
  is not searched or filled in right, and is outside `TextsAssumption`.
- Tokens do not repeat; the 32 bits do not wrap.
- The properties `RebootOnlyWhenWritten` and `AckMeansWritten` are about a host
  that does not abort the flash under its own write: the first is checked for
  resets of the mass storage and new configurations, the second without resets.
- The flash does not fail; it may not answer. `RangeWritten` is about calls without
  an abort on a chip that was ready at the call (`call.ready`); a chip that an
  aborted call left busy ignores the next write, see section 6. `flash_read_sfdp` and
  the checks of the arguments above the SSI are not there.
- Not modelled, and why: the floating point libraries (3,650 lines of arithmetic
  without state, whose inputs TLC cannot enumerate); `memcpy` and `memset`, which
  move the bytes the other models take as whole payloads; the variants of the bit
  functions that another build would take; the generator's reading and
  writing of files; descriptors, linker script and the page's contents, which are data.

## 6. Where code and comments part

Each of these is a run that TLC refutes:

- `uf2_interleaved`: `virtual_disk.c:230` says that from the second block on the
  source of the last mutation is checked. The flag is set on a task that
  `reset_task` clears before it is used again, so no block ever checks, and a
  PICOBOOT write between two blocks goes unnoticed.
- `uf2_failure`: `virtual_disk.c:183` says that a failing task is noticed on
  completion and the download reset. The completion only skips the reboot: the
  block stays in the bitmap, its retry counts as a duplicate, and the next success
  may start the image without it.
- `picoboot_reset`: `usb_packet_done` asserts that the endpoint has a transfer. A
  chunk that was already being worked on when PICOBOOT was reset, or lost its
  configuration, still matches the token and reports to an endpoint without one.
- `usb_endpoint_reset`: `usb_packet_done` asserts at `usb_device.c:401` that the
  endpoint expects it. The interrupt handler takes a SETUP before the buffers that
  are done, so a reset of the endpoint by a control request leaves a finished
  buffer to be handled after the reset.

Met while modelling, without a run of their own:

- A block that arrives under exclusive access ends the download in progress
  (`virtual_disk.c:436`).
- A RAM image wholly in XIP SRAM starts at 0xffffffff (`virtual_disk.c:410`).
- A download of the same size as the one before continues it.
- PICOBOOT_IF_RESET drops the block of the virtual disk that is queued, and its
  WRITE command is never answered.
- After the configuration is lost a download that goes on counts blocks whose
  programming the pending abort skipped.
- A command without data is acknowledged whatever became of its task; the host has
  to ask for the status.
- `_msc_reset`, the clearing of the OUT halt and the loss of the configuration keep
  `_msc_async_token`, and a task under way cannot be called back. A host that gives up a WRITE
  and goes on at once may see the task of the lost sector complete with the current
  token. It then finds an endpoint without a transfer (the assertion at `usb_device.c:586`) or
  one that waits for a command (`:587`); `csw.residue -= 64` wraps (`usb_msc.c:212`), and
  a sector that failed puts a status on IN that belongs to no command
  (`usb_msc.c:236`). It ends no packet of a later transfer (`CompletionEndsOwnSector`). TLC shows the
  shortest way there as a violation of the invariant `~disk.late`.
- The acknowledgement of a PICOBOOT task that outlived PICOBOOT_IF_RESET is left on IN for a host
  that is owed nothing (`usb_boot_device.c:206`). If the host sends a command all the same,
  the acknowledgement of that command starts a transfer on an endpoint that has one (the
  assertion at `usb_device.c:622`), or OUT is given back while the command is under way, and
  a third command replaces its queued task. Without the `~crossed` in
  `AckOnIdleEndpoint`, TLC finds the first of these in two commands and one reset.
- `watchdog_reboot` writes the magic to scratch 4 first and the rest after it
  (`runtime.c:81-84`), and `check_wdog` clears only scratch 4. A core 0, or chip, that is reset
  between the first two writes enters the vector of an older request, which was
  already taken. Without `~asked.torn` in `EntryAsAsked` TLC finds it.
- A WRITE whose last sector fails halts the OUT endpoint when the host has nothing
  more to send (`usb_msc.c:245`), so the next command is what meets the halt, and
  costs a recovery.
- `send_csw_on_unstall` (`usb_msc.c:361`) survives the loss of the configuration: the
  reset of the endpoint then sends a status to nobody.
- The comment at `usb_msc.c:490` says that the reset of the mass storage does not
  end a stall; `_msc_reset` resets both endpoints, and so does.
- CLEAR_FEATURE on an IN endpoint that is not halted resets it all the same
  (`usb_device.c:934`) and drops a status in flight.
- After `flash_abort` the functions for the flash do nothing and report success until
  a task exits XIP and so resets the pads (`usb_boot_device.c:387`,
  `program_flash_generic.c:262`); and a chip left busy by the abort ignores the
  first write enable.
- `_execute_task` erases before it checks the address of the access
  (`async_task.c`): a task that erases a good range and then accesses a bad address
  would be refused after the erase. No client queues one; `EraseAssumption` says so,
  and `RefusedCorrect` needs it.
- A READ or WRITE of length zero becomes a task without data: the WRITE programs a
  page from a null pointer (`usb_boot_device.c:364`).
- A READ overtaken by PICOBOOT_IF_RESET writes into the chunk buffer of the WRITE
  that follows; with RAM as the target, or after an exit from XIP by the virtual
  disk, that WRITE is acknowledged with the wrong data.
- An AT_EXCLUSIVE task overtaken by a reset takes exclusive access again.
- AT_ENTER_CMD_XIP without another flag does nothing (`async_task.c:209`).
- An endpoint halted from a task's callback may have its other buffer done and not
  yet handled; the assertion at `usb_device.c:554` then sees a buffer of a halted
  endpoint.
- `reset_usb_boot` waits for the crystal (`runtime.c:93`). A program that runs
  without one stops there, with the watchdog disabled.
- The launch handshake may follow itself for ever in lock step (`LaunchEnds`).

## 7. Plan

Done, in this order: the tasks, the download, the PICOBOOT protocol, the endpoint,
the start of the chip; the control endpoint and the mass storage, the serial
interface to the flash, the ROM's functions and the disk's sectors, each with its
runs; and the proofs of section 4. Next, ordered by what matters most to the device:

1. MassStorage over two instances of UsbEndpoint, for transfers with resets and lost
   acknowledgements in the middle of a data phase; `memcpy` and `memset` with their
   alignments.

Not planned: the floating point libraries, the linker script, descriptors and data.
