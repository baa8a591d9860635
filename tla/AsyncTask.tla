------------------------------ MODULE AsyncTask ------------------------------
(***************************************************************************)
(* The asynchronous task mechanism of the USB boot code                    *)
(* (bootrom/async_task.c, async_task.h).                                   *)
(*                                                                         *)
(* Two contexts share one core.  The USB interrupt handler puts tasks into *)
(* two one-place queues, one fed by the virtual disk and one fed by        *)
(* PICOBOOT, and may reset them, abort the flash or ask for a reboot.  The *)
(* thread (async_task_worker) takes tasks out, runs them and calls their   *)
(* completion callback with interrupts disabled.  A step of the worker     *)
(* below is a stretch of thread code that the handler either cannot        *)
(* interrupt or cannot tell apart from one that it does not interrupt.     *)
(*                                                                         *)
(* The module is open: what the handler queues is any task of              *)
(* TasksOf[q].  Uf2Download and Picoboot extend it with the two real       *)
(* producers.                                                              *)
(***************************************************************************)
EXTENDS Naturals, FiniteSets

CONSTANTS
    Page,          \* the flash pages (FLASH_PAGE_SIZE) the tasks address
    Sector,        \* the flash sectors (FLASH_SECTOR_ERASE_SIZE) they lie in
    sectorOf,      \* [Page -> Sector]
    Data,          \* the contents a page of payload may have
    TasksOf,       \* [Queue -> SUBSET Task]: what each producer may queue
    NoTask         \* the content of an empty queue

Queue == {"disk", "picoboot"}

\* The AT_ bits of async_task.h.
TaskFlag == {"EXIT_XIP", "FLASH_ERASE", "READ", "WRITE", "EXCLUSIVE",
             "ENTER_CMD_XIP", "EXEC", "VECTORIZE_FLASH"}

(***************************************************************************)
(* Addresses, by what is_address_ram, is_address_rom, is_address_flash,    *)
(* the alignment masks and _is_address_safe_for_vectoring make of them.    *)
(* "vectors" is RAM that overlaps the flash function table when that table *)
(* is in RAM; "bitmaps" is the RAM that holds the UF2 bitmaps.             *)
(***************************************************************************)
RamAddress   == {"ram", "vectors", "bitmaps", "odd_ram"}
OtherAddress == RamAddress \cup {"rom", "unaligned_flash", "nowhere"}
Address      == Page \cup OtherAddress

\* exclusive_param as the host may set it (PICOBOOT exclusive access).
ExclusiveParam == {"NOT_EXCLUSIVE", "EXCLUSIVE", "EXCLUSIVE_AND_EJECT"}

\* struct async_task, without its callback (one per queue) and with its data
\* pointer replaced by the buffer of the queue it goes to.  erase is the set of
\* sectors of erase_addr and erase_size, erase_check what the tests on the two
\* return.
Task == [type          : SUBSET TaskFlag,
         transfer_addr : Address,
         erase         : SUBSET Sector,
         erase_check   : {"OK", "BAD_ALIGNMENT", "INVALID_ADDRESS"},
         exclusive_param            : ExclusiveParam,
         check_last_mutation_source : BOOLEAN,
         token         : Nat]

ASSUME TasksAssumption ==
    /\ TasksOf \in [Queue -> SUBSET Task]
    /\ NoTask \notin Task
    /\ sectorOf \in [Page -> Sector]
    /\ Page \cap OtherAddress = {}
    /\ \A q \in Queue : \A t \in TasksOf[q] : ~({"READ", "WRITE"} \subseteq t.type)

\* Only PICOBOOT makes tasks that touch exclusive access
\* (_update_current_uf2_info and _write_uf2_page set no such flag).
ASSUME DiskTasksAssumption ==
    \A t \in TasksOf["disk"] : "EXCLUSIVE" \notin t.type

\* A task that erases accesses flash besides, or nothing: _write_uf2_page writes a
\* page of the sector it has erased, and PC_FLASH_ERASE has no data.
ASSUME EraseAssumption ==
    \A q \in Queue : \A t \in TasksOf[q] :
        "FLASH_ERASE" \in t.type /\ t.type \cap {"READ", "WRITE"} # {}
            => t.transfer_addr \in Page

\* What a page of flash or a data buffer may hold: "torn" is anything that is
\* neither a payload nor erased.
Content == Data \cup {"erased", "torn"}

\* task->result: PICOBOOT status codes, the 1 of a disabled queue, and an
\* error of a flash function the host has put in the place of the ROM's.
Result == {"OK", "REBOOTING", "DISABLED", "BAD_ALIGNMENT", "INVALID_ADDRESS",
           "INTERLEAVED_WRITE", "USER_ERROR"}

Pc == {"poll_disk", "poll_picoboot", "wfe", "begin", "prepare", "mutate",
       "program", "complete"}

VARIABLES
    slot,          \* the queues' task; NoTask while full is false
    disable,       \* the queues' disable flag
    event,         \* the core's event register (__sev, __wfe)
    pc,            \* where the worker is
    source,        \* the queue _worker_task was taken from, its task->source
    running,       \* _worker_task
    result,        \* its result
    todo,          \* sectors its erase has still to erase
    lastMutation,  \* _last_mutation_source
    flashFuncs,    \* flash_funcs: the default table, or one in RAM
    aborted,       \* flash_was_aborted()
    rebooting,     \* watchdog_rebooting()
    ejected,       \* _msc_state.ejected
    buffer,        \* the data buffers the tasks point to
    flash          \* the contents of the flash

workerVars == <<pc, source, running, result, todo>>
flashVars  == <<lastMutation, flashFuncs, flash>>
sharedVars == <<disable, aborted, rebooting, ejected, buffer>>
asyncVars  == <<slot, event, workerVars, flashVars, sharedVars>>

AsyncTypeOK ==
    /\ slot \in [Queue -> Task \cup {NoTask}]
    /\ \A q \in Queue : slot[q] # NoTask => slot[q] \in TasksOf[q]
    /\ disable \in [Queue -> BOOLEAN]
    /\ event \in BOOLEAN
    /\ pc \in Pc
    /\ source \in Queue
    /\ running \in TasksOf[source] \cup {NoTask}
    /\ running = NoTask <=> pc \in {"poll_disk", "poll_picoboot", "wfe"}
    /\ result \in Result
    /\ todo \in SUBSET Sector
    /\ lastMutation \in Queue \cup {"none"}
    /\ flashFuncs \in {"rom", "ram"}
    /\ aborted \in BOOLEAN
    /\ rebooting \in BOOLEAN
    /\ ejected \in BOOLEAN
    /\ buffer \in [Queue -> Content]
    /\ flash \in [Page -> Content]

\* usb_device_start handles a bus reset before the worker runs, and the loss of
\* the configuration aborts the flash: so it stays until a task exits XIP.
AsyncInit ==
    /\ slot = [q \in Queue |-> NoTask]
    /\ disable = [q \in Queue |-> FALSE]
    /\ event = FALSE
    /\ pc = "poll_disk"
    /\ source = "disk"
    /\ running = NoTask
    /\ result = "OK"
    /\ todo = {}
    /\ lastMutation = "none"
    /\ flashFuncs = "rom"
    /\ aborted = TRUE
    /\ rebooting = FALSE
    /\ ejected = FALSE
    /\ buffer \in [Queue -> Content]
    /\ flash \in [Page -> Content]

full(q) == slot[q] # NoTask

-----------------------------------------------------------------------------
(***************************************************************************)
(* What the interrupt handler does.                                        *)
(***************************************************************************)

\* Mutant of queue_task: no __sev.
queue_task_silently(q, t) ==
    /\ slot' = [slot EXCEPT ![q] = t]
    /\ event' = event

\* queue_task: a task that is still queued is overwritten; __sev.
queue_task(q, t) ==
    /\ slot' = [slot EXCEPT ![q] = t]
    /\ event' = TRUE

\* reset_queue on both queues, as _picoboot_reset does: what is queued is
\* forgotten and exclusive access ends.
reset_queues ==
    /\ slot' = [q \in Queue |-> NoTask]
    /\ disable' = [q \in Queue |-> FALSE]

\* A packet of the host lands in a data buffer (stream and sector buffers).
fill_buffer(q) ==
    \E d \in Data \cup {"torn"} : buffer' = [buffer EXCEPT ![q] = d]

\* A packet that completes a chunk fills the buffer and queues a task.
HandlerQueuesTask(q) ==
    /\ \E t \in TasksOf[q] : queue_task(q, t)
    /\ UNCHANGED buffer \/ fill_buffer(q)
    /\ UNCHANGED <<workerVars, flashVars, disable, aborted, rebooting, ejected>>

\* One that does not complete a chunk leaves part of it.
HandlerFillsBuffer(q) ==
    /\ fill_buffer(q)
    /\ UNCHANGED <<slot, event, workerVars, flashVars, disable, aborted,
                   rebooting, ejected>>

\* _picoboot_reset, alone or on a change of configuration, which also resets
\* the mass storage and always aborts the flash.
HandlerResetsQueues ==
    /\ reset_queues
    /\ aborted' \in {aborted, TRUE}
    /\ ejected' \in {ejected, FALSE}
    /\ UNCHANGED <<event, workerVars, flashVars, rebooting, buffer>>

\* flash_abort alone, when the configuration is lost.
HandlerAbortsFlash ==
    /\ aborted' = TRUE
    /\ UNCHANGED <<slot, event, workerVars, flashVars, disable, rebooting,
                   ejected, buffer>>

\* safe_reboot -> watchdog_reboot.
HandlerReboots ==
    /\ rebooting' = TRUE
    /\ UNCHANGED <<slot, event, workerVars, flashVars, disable, aborted,
                   ejected, buffer>>

\* The SCSI commands and the reset of the mass storage interface.
HandlerSetsMedium ==
    /\ ejected' \in BOOLEAN
    /\ UNCHANGED <<slot, event, workerVars, flashVars, disable, aborted,
                   rebooting, buffer>>

Handler ==
    \/ \E q \in Queue : HandlerQueuesTask(q) \/ HandlerFillsBuffer(q)
    \/ HandlerResetsQueues
    \/ HandlerAbortsFlash
    \/ HandlerReboots
    \/ HandlerSetsMedium

-----------------------------------------------------------------------------
(***************************************************************************)
(* What the worker does (async_task_worker, in the thread).                *)
(***************************************************************************)

\* dequeue_task, with interrupts disabled: the task is copied out.
dequeue_task(q) ==
    /\ running' = slot[q]
    /\ slot' = [slot EXCEPT ![q] = NoTask]
    /\ source' = q
    /\ pc' = "begin"
    /\ UNCHANGED <<event, result, todo, flashVars, sharedVars>>

\* The virtual disk's queue is looked at first.  An interrupt may fill it
\* between the two looks and between the second look and __wfe.
PollDisk ==
    /\ pc = "poll_disk"
    /\ \/ full("disk") /\ dequeue_task("disk")
       \/ /\ ~full("disk")
          /\ pc' = "poll_picoboot"
          /\ UNCHANGED <<slot, event, source, running, result, todo, flashVars,
                         sharedVars>>

PollPicoboot ==
    /\ pc = "poll_picoboot"
    /\ \/ full("picoboot") /\ dequeue_task("picoboot")
       \/ /\ ~full("picoboot")
          /\ pc' = "wfe"
          /\ UNCHANGED <<slot, event, source, running, result, todo, flashVars,
                         sharedVars>>

\* __wfe: sleep until the event register is set, and clear it.
Wake ==
    /\ pc = "wfe"
    /\ event
    /\ event' = FALSE
    /\ pc' = "poll_disk"
    /\ UNCHANGED <<slot, source, running, result, todo, flashVars, sharedVars>>

Finish(r) ==
    /\ pc' = "complete"
    /\ result' = r
    /\ todo' = {}
    /\ UNCHANGED <<slot, event, source, running>>

\* execute_task and the head of _execute_task: a disabled queue's task and
\* every task after a reboot request are refused.
Refuse ==
    /\ pc = "begin"
    /\ \/ disable[source] /\ Finish("DISABLED")
       \/ ~disable[source] /\ rebooting /\ Finish("REBOOTING")
    /\ UNCHANGED <<flashVars, sharedVars>>

\* Mutants of Accept: the wrong queue's flag, and no watchdog_rebooting.
AcceptByOtherQueue ==
    /\ pc = "begin"
    /\ ~disable["picoboot"]
    /\ ~rebooting
    /\ pc' = "prepare"
    /\ UNCHANGED <<slot, event, source, running, result, todo, flashVars,
                   sharedVars>>

AcceptWhileRebooting ==
    /\ pc = "begin"
    /\ ~disable[source]
    /\ pc' = "prepare"
    /\ UNCHANGED <<slot, event, source, running, result, todo, flashVars,
                   sharedVars>>

Accept ==
    /\ pc = "begin"
    /\ ~disable[source]
    /\ ~rebooting
    /\ pc' = "prepare"
    /\ UNCHANGED <<slot, event, source, running, result, todo, flashVars,
                   sharedVars>>

Does(flag) == flag \in running.type
Mutates    == Does("WRITE") \/ Does("FLASH_ERASE")

\* The last mutation was not the one this task continues.
Interleaved ==
    Mutates /\ running.check_last_mutation_source /\ lastMutation # source

\* A function of the ROM's table returns 0; the host's own may not.
FlashResults(funcs) == IF funcs = "rom" THEN {"OK"} ELSE {"OK", "USER_ERROR"}

VectorizeCheck ==
    IF ~Does("VECTORIZE_FLASH") \/ running.transfer_addr \in {"ram", "vectors"}
    THEN "OK"
    ELSE IF running.transfer_addr = "odd_ram" THEN "BAD_ALIGNMENT"
                                              ELSE "INVALID_ADDRESS"

RefuseVectors ==
    /\ pc = "prepare"
    /\ Does("VECTORIZE_FLASH")
    /\ VectorizeCheck # "OK"
    /\ Finish(VectorizeCheck)
    /\ UNCHANGED <<flashVars, sharedVars>>

\* Mutant of PrepareResult: the erased range is not checked.
PrepareUnchecked(r) ==
    IF r = "OK" /\ Interleaved THEN "INTERLEAVED_WRITE" ELSE r

\* What the checks before the erase leave of a task whose exit from XIP
\* returned r.
PrepareResult(r) ==
    IF r # "OK" THEN r
    ELSE IF Interleaved THEN "INTERLEAVED_WRITE"
    ELSE IF Does("FLASH_ERASE") THEN running.erase_check
    ELSE "OK"

\* _execute_task down to the erase: the vectors, exclusive access, the exit
\* from XIP (connect_internal_flash ends an abort), the mutation source.  An
\* AT_EXEC task runs code of the host's, which is not modelled.
Prepare ==
    /\ pc = "prepare"
    /\ VectorizeCheck = "OK"
    /\ flashFuncs' = IF Does("VECTORIZE_FLASH") THEN "ram" ELSE flashFuncs
    /\ disable' = IF Does("EXCLUSIVE")
                  THEN [disable EXCEPT !["disk"] =
                           running.exclusive_param # "NOT_EXCLUSIVE"]
                  ELSE disable
    /\ ejected' = (ejected \/ (/\ Does("EXCLUSIVE")
                               /\ running.exclusive_param = "EXCLUSIVE_AND_EJECT"))
    /\ \E r \in IF Does("EXIT_XIP") THEN FlashResults(flashFuncs') ELSE {"OK"} :
          /\ aborted' = (aborted /\ ~(Does("EXIT_XIP") /\ r = "OK"))
          /\ lastMutation' = IF r = "OK" /\ Mutates /\ ~Interleaved
                             THEN source ELSE lastMutation
          /\ IF PrepareResult(r) = "OK"
             THEN /\ pc' = "mutate"
                  /\ todo' = IF Does("FLASH_ERASE") THEN running.erase ELSE {}
                  /\ UNCHANGED <<slot, event, source, running, result>>
             ELSE Finish(PrepareResult(r))
    /\ UNCHANGED <<rebooting, buffer, flash>>

WithSector(s, c) == [p \in Page |-> IF sectorOf[p] = s THEN c ELSE flash[p]]

\* One turn of _do_flash_erase_range, its sectors in any order.  After an abort
\* flash_put_get gives up a command as soon as it has to wait, so the erase may
\* or may not have been sent, and nobody waits for it to end.
EraseSector ==
    /\ pc = "mutate"
    /\ \E s \in todo, r \in FlashResults(flashFuncs) :
          IF r = "OK"
          THEN /\ flash' \in IF aborted
                             THEN {flash, WithSector(s, "torn"), WithSector(s, "erased")}
                             ELSE {WithSector(s, "erased")}
               /\ todo' = todo \ {s}
               /\ UNCHANGED <<slot, event, pc, source, running, result>>
          ELSE Finish(r) /\ UNCHANGED flash
    /\ UNCHANGED <<lastMutation, flashFuncs, sharedVars>>

\* Memory the task may access without the flash functions.
DirectAccess ==
    \/ running.transfer_addr \in RamAddress
    \/ running.transfer_addr = "rom" /\ ~Does("WRITE")

ReadsOrWrites == Does("READ") \/ Does("WRITE")

AccessCheck ==
    IF ~ReadsOrWrites \/ running.transfer_addr \in Page \/ DirectAccess THEN "OK"
    ELSE IF running.transfer_addr = "unaligned_flash" THEN "BAD_ALIGNMENT"
    ELSE "INVALID_ADDRESS"

\* Nothing to transfer, or an address that is refused.
SkipAccess ==
    /\ pc = "mutate"
    /\ todo = {}
    /\ ~ReadsOrWrites \/ AccessCheck # "OK"
    /\ Finish(AccessCheck)
    /\ UNCHANGED <<flashVars, sharedVars>>

\* A memcpy to or from RAM or ROM.  One that overwrites the function table
\* puts the ROM's functions back.
AccessMemory ==
    /\ pc = "mutate"
    /\ todo = {}
    /\ ReadsOrWrites
    /\ DirectAccess
    /\ flashFuncs' = IF Does("WRITE") /\ running.transfer_addr = "vectors"
                     THEN "rom" ELSE flashFuncs
    /\ IF Does("READ")
       THEN \E d \in Data : buffer' = [buffer EXCEPT ![source] = d]
       ELSE UNCHANGED buffer
    /\ Finish("OK")
    /\ UNCHANGED <<lastMutation, flash, disable, aborted, rebooting, ejected>>

AccessesFlash == ReadsOrWrites /\ running.transfer_addr \in Page

ReadFlash ==
    /\ pc = "mutate"
    /\ todo = {}
    /\ Does("READ") /\ AccessesFlash
    /\ \E r \in FlashResults(flashFuncs) :
          /\ buffer' = IF r # "OK" THEN buffer
                       ELSE [buffer EXCEPT ![source] =
                                IF aborted THEN "torn" ELSE flash[running.transfer_addr]]
          /\ Finish(r)
    /\ UNCHANGED <<flashVars, disable, aborted, rebooting, ejected>>

\* What programming c over what a page holds gives: bits only go from one to
\* zero, so a page that was not erased ends up torn.
Programmed(old, c) == IF old \in {"erased", c} THEN c ELSE "torn"

WithPage(p, c) == [flash EXCEPT ![p] = c]

\* flash_page_program reads the buffer while it feeds the flash.  After an abort
\* it gives up before all of the page is sent.
StartProgram ==
    LET p == running.transfer_addr IN
    /\ pc = "mutate"
    /\ todo = {}
    /\ Does("WRITE") /\ AccessesFlash
    /\ \E r \in FlashResults(flashFuncs) :
          IF r # "OK" \/ aborted
          THEN /\ Finish(r)
               /\ flash' \in IF r = "OK" THEN {flash, WithPage(p, "torn")} ELSE {flash}
          ELSE /\ pc' = "program"
               /\ flash' = WithPage(p, Programmed(flash[p], buffer[source]))
               /\ UNCHANGED <<slot, event, source, running, result, todo>>
    /\ UNCHANGED <<lastMutation, flashFuncs, sharedVars>>

\* The page is whole if neither an abort nor a change of the buffer came in
\* between.
EndProgram ==
    LET p == running.transfer_addr IN
    /\ pc = "program"
    /\ flash' \in IF flash[p] # buffer[source] THEN {WithPage(p, "torn")}
                  ELSE IF aborted THEN {flash, WithPage(p, "torn")} ELSE {flash}
    /\ Finish("OK")
    /\ UNCHANGED <<lastMutation, flashFuncs, sharedVars>>

\* Mutant of TaskDone: the worker goes on with the same task in hand.
TaskStays ==
    /\ pc = "complete"
    /\ pc' = "poll_disk"
    /\ running' = running
    /\ result' = "OK"
    /\ UNCHANGED <<source, todo>>

\* The end of execute_task and its loop: the task is done with.
TaskDone ==
    /\ pc = "complete"
    /\ pc' = "poll_disk"
    /\ running' = NoTask
    /\ result' = "OK"
    /\ UNCHANGED <<source, todo>>

\* The completion callback, with interrupts disabled.  It may ask the stream
\* for more, which queues the next task, and it may reboot.
Complete ==
    /\ TaskDone
    /\ \/ UNCHANGED <<slot, event>>
       \/ \E t \in TasksOf[source] : queue_task(source, t)
    /\ buffer' \in {buffer} \cup {[buffer EXCEPT ![source] = d] : d \in Data}
    /\ rebooting' \in {rebooting, TRUE}
    /\ UNCHANGED <<flashVars, disable, aborted, ejected>>

\* The worker's steps but for the callback, which the composing modules bind.
Work ==
    \/ PollDisk \/ PollPicoboot \/ Wake
    \/ Refuse \/ Accept
    \/ RefuseVectors \/ Prepare
    \/ EraseSector
    \/ SkipAccess \/ AccessMemory \/ ReadFlash \/ StartProgram \/ EndProgram

AsyncNext == Handler \/ Work \/ Complete

AsyncSafety == AsyncInit /\ [][AsyncNext]_asyncVars

\* Where the worker polls the status of the flash (flash_wait_ready).
WaitsForFlash == (pc = "mutate" /\ todo # {}) \/ pc = "program"

\* The poll ends when the flash is ready, if ever it is, or when an abort makes
\* it look so; a function of the host's need not look at the abort.
GoesOn == ~WaitsForFlash \/ (aborted /\ flashFuncs = "rom")

\* The thread runs whenever no interrupt is being handled, and an interrupt
\* handler ends: the worker takes every step that does not hinge on the flash.
AsyncSpec == AsyncSafety /\ WF_asyncVars((Work \/ Complete) /\ GoesOn)

-----------------------------------------------------------------------------
(***************************************************************************)
(* Properties.                                                             *)
(***************************************************************************)

\* The worker never goes to sleep on a task.  Between a look at a queue and
\* __wfe the handler may fill that queue; the __sev of queue_task is what
\* keeps the worker from sleeping then.
NoLostWakeup ==
    pc = "wfe" /\ (\E q \in Queue : full(q)) => event

Executing(q) == source = q /\ pc \in {"prepare", "mutate", "program"}

\* While the virtual disk is shut out by exclusive access none of its tasks is
\* under way, the reason _execute_task gives for changing exclusive access in
\* a task rather than in the handler.
DiskIdleWhileExclusive == disable["disk"] => ~Executing("disk")

\* A task whose addresses or alignment are refused has not touched the flash:
\* _execute_task makes its checks before it calls the flash functions.
RefusedTaskLeavesFlash ==
    [][flash' # flash => /\ Does("FLASH_ERASE") => running.erase_check = "OK"
                         /\ AccessCheck = "OK"]_flash

\* Once a reboot has been asked for the flash comes to rest: only the task that
\* was under way may still change it (watchdog_rebooting in _execute_task).
RebootQuiesces == (<>rebooting) => <>[][flash' = flash]_flash

\* Every wait for the flash ends.
FlashAnswers == []<>~WaitsForFlash

=============================================================================
