-------------------------- MODULE AsyncTask_proofs --------------------------
(***************************************************************************)
(* Proofs about the task mechanism, for any pages, sectors, contents and   *)
(* sets of tasks the two producers may queue.                              *)
(***************************************************************************)
EXTENDS AsyncTask, TLAPS

(***************************************************************************)
(* Type correctness.  Every step keeps the slots and the running task      *)
(* inside the set of tasks of the queue they belong to, which is what the  *)
(* argument on exclusive access needs.                                     *)
(***************************************************************************)

\* The initial state has the types: empty queues, interrupts not yet enabled.
LEMMA TypeInit == AsyncInit => AsyncTypeOK
  BY TasksAssumption DEF AsyncInit, AsyncTypeOK, Queue, Content, Pc, Result

\* A data buffer keeps its type when the host writes to it.
LEMMA FillType ==
    ASSUME AsyncTypeOK, NEW q \in Queue, fill_buffer(q)
    PROVE  buffer' \in [Queue -> Content]
  BY DEF AsyncTypeOK, fill_buffer, Content

\* The interrupt handler keeps the types.
LEMMA TypeHandler == AsyncTypeOK /\ Handler => AsyncTypeOK'
<1> SUFFICES ASSUME AsyncTypeOK, Handler PROVE AsyncTypeOK'
  OBVIOUS
<1> USE DEF AsyncTypeOK, workerVars, flashVars, sharedVars
<1>1. ASSUME NEW q \in Queue, HandlerQueuesTask(q) PROVE AsyncTypeOK'
  <2>1. PICK t \in TasksOf[q] : queue_task(q, t)
    BY <1>1 DEF HandlerQueuesTask
  <2>2. t \in Task
    BY TasksAssumption
  <2>3. buffer' \in [Queue -> Content]
    BY <1>1, FillType DEF HandlerQueuesTask
  <2>. QED
    BY <1>1, <2>1, <2>2, <2>3 DEF HandlerQueuesTask, queue_task
<1>2. ASSUME NEW q \in Queue, HandlerFillsBuffer(q) PROVE AsyncTypeOK'
  BY <1>2, FillType DEF HandlerFillsBuffer
<1>3. CASE HandlerResetsQueues
  BY <1>3 DEF HandlerResetsQueues, reset_queues
<1>4. CASE HandlerAbortsFlash
  BY <1>4 DEF HandlerAbortsFlash
<1>5. CASE HandlerReboots
  BY <1>5 DEF HandlerReboots
<1>6. CASE HandlerSetsMedium
  BY <1>6 DEF HandlerSetsMedium
<1>. QED
  BY <1>1, <1>2, <1>3, <1>4, <1>5, <1>6 DEF Handler

\* The steps of the worker that end in Finish only move it to its callback.
LEMMA TypeFinish ==
    ASSUME AsyncTypeOK, NEW r \in Result, Finish(r), running # NoTask
    PROVE  /\ pc' \in Pc \ {"poll_disk", "poll_picoboot", "wfe"}
           /\ result' \in Result
           /\ todo' \in SUBSET Sector
           /\ slot' = slot /\ event' = event
           /\ source' = source /\ running' = running
  BY DEF Finish, Pc

\* A worker that is past the dequeue holds a task of its source.
LEMMA RunningIsTask ==
    ASSUME AsyncTypeOK, pc \notin {"poll_disk", "poll_picoboot", "wfe"}
    PROVE  /\ running \in TasksOf[source] /\ running \in Task
           /\ running # NoTask
  BY TasksAssumption DEF AsyncTypeOK

\* The flash keeps its type when a sector is erased or torn.
LEMMA SectorType ==
    ASSUME AsyncTypeOK, NEW s, NEW c \in Content
    PROVE  WithSector(s, c) \in [Page -> Content]
  BY DEF AsyncTypeOK, WithSector

\* The flash keeps its type when a page is programmed or torn.
LEMMA PageType ==
    ASSUME AsyncTypeOK, NEW p, NEW c \in Content
    PROVE  WithPage(p, c) \in [Page -> Content]
  BY DEF AsyncTypeOK, WithPage

\* The worker keeps the types.
LEMMA TypeWork == AsyncTypeOK /\ Work => AsyncTypeOK'
<1> SUFFICES ASSUME AsyncTypeOK, Work PROVE AsyncTypeOK'
  OBVIOUS
<1>a. \A q \in Queue : slot[q] # NoTask =>
         slot[q] \in TasksOf[q] /\ slot[q] \in Task
  BY TasksAssumption DEF AsyncTypeOK
<1>b. "erased" \in Content /\ "torn" \in Content
  BY DEF Content
<1> USE DEF workerVars, flashVars, sharedVars
<1>1. CASE PollDisk
  BY <1>1, <1>a DEF AsyncTypeOK, PollDisk, full, dequeue_task, Pc, Queue
<1>2. CASE PollPicoboot
  BY <1>2, <1>a DEF AsyncTypeOK, PollPicoboot, full, dequeue_task, Pc, Queue
<1>3. CASE Wake
  BY <1>3 DEF AsyncTypeOK, Wake, Pc
<1>4. CASE Refuse
  BY <1>4, RunningIsTask DEF AsyncTypeOK, Refuse, Finish, Pc, Result
<1>5. CASE Accept
  BY <1>5 DEF AsyncTypeOK, Accept, Pc
<1>6. CASE RefuseVectors
  <2>1. VectorizeCheck \in Result
    BY DEF VectorizeCheck, Result
  <2>. QED
    BY <1>6, <2>1, RunningIsTask DEF AsyncTypeOK, RefuseVectors, Finish, Pc
<1>7. CASE Prepare
  <2>1. PICK r \in {"OK", "USER_ERROR"} :
          /\ aborted' = (aborted /\ ~(Does("EXIT_XIP") /\ r = "OK"))
          /\ lastMutation' = IF r = "OK" /\ Mutates /\ ~Interleaved
                             THEN source ELSE lastMutation
          /\ IF PrepareResult(r) = "OK"
             THEN /\ pc' = "mutate"
                  /\ todo' = IF Does("FLASH_ERASE") THEN running.erase ELSE {}
                  /\ UNCHANGED <<slot, event, source, running, result>>
             ELSE Finish(PrepareResult(r))
    BY <1>7 DEF Prepare, FlashResults
  <2>2. running \in TasksOf[source] /\ running \in Task /\ running # NoTask
    BY <1>7, RunningIsTask DEF Prepare
  <2>3. PrepareResult(r) \in Result
    BY <2>2 DEF PrepareResult, Result, Task
  <2>4. running.erase \in SUBSET Sector
    BY <2>2 DEF Task
  <2>5. /\ disable' \in [Queue -> BOOLEAN]
        /\ flashFuncs' \in {"rom", "ram"}
        /\ ejected' \in BOOLEAN
        /\ UNCHANGED <<rebooting, buffer, flash>>
    BY <1>7 DEF Prepare, AsyncTypeOK, Queue
  <2>6. /\ aborted' \in BOOLEAN
        /\ lastMutation' \in Queue \cup {"none"}
    BY <2>1 DEF AsyncTypeOK
  <2>7. CASE PrepareResult(r) = "OK"
    BY <2>1, <2>2, <2>4, <2>5, <2>6, <2>7 DEF AsyncTypeOK, Pc
  <2>8. CASE PrepareResult(r) # "OK"
    BY <2>1, <2>2, <2>3, <2>5, <2>6, <2>8, TypeFinish DEF AsyncTypeOK
  <2>. QED
    BY <2>7, <2>8
<1>8. CASE EraseSector
  <2>1. PICK s \in todo, r \in {"OK", "USER_ERROR"} :
          IF r = "OK"
          THEN /\ flash' \in IF aborted THEN
                             {flash, WithSector(s, "torn"), WithSector(s, "erased")}
                             ELSE {WithSector(s, "erased")}
               /\ todo' = todo \ {s}
               /\ UNCHANGED <<slot, event, pc, source, running, result>>
          ELSE Finish(r) /\ UNCHANGED flash
    BY <1>8 DEF EraseSector, FlashResults
  <2>2. flash' \in [Page -> Content]
    BY <2>1, <1>b, SectorType DEF AsyncTypeOK
  <2>3. running # NoTask
    BY <1>8, RunningIsTask DEF EraseSector
  <2>. QED
    BY <1>8, <2>1, <2>2, <2>3 DEF AsyncTypeOK, EraseSector, Finish, Pc, Result
<1>9. CASE SkipAccess
  <2>1. AccessCheck \in Result
    BY DEF AccessCheck, Result
  <2>. QED
    BY <1>9, <2>1, RunningIsTask DEF AsyncTypeOK, SkipAccess, Finish, Pc
<1>10. CASE AccessMemory
  <2>1. buffer' \in [Queue -> Content]
    BY <1>10 DEF AsyncTypeOK, AccessMemory, Content
  <2>. QED
    BY <1>10, <2>1, RunningIsTask
    DEF AsyncTypeOK, AccessMemory, Finish, Pc, Result
<1>11. CASE ReadFlash
  <2>1. PICK r \in {"OK", "USER_ERROR"} :
          /\ buffer' = IF r # "OK" THEN buffer
                       ELSE [buffer EXCEPT ![source] =
                                IF aborted THEN "torn" ELSE flash[running.transfer_addr]]
          /\ Finish(r)
    BY <1>11 DEF ReadFlash, FlashResults
  <2>2. flash[running.transfer_addr] \in Content
    BY <1>11 DEF ReadFlash, AccessesFlash, AsyncTypeOK
  <2>3. buffer' \in [Queue -> Content]
    BY <2>1, <2>2, <1>b DEF AsyncTypeOK
  <2>. QED
    BY <1>11, <2>1, <2>3, RunningIsTask
    DEF AsyncTypeOK, ReadFlash, Finish, Pc, Result
<1>12. CASE StartProgram
  <2> DEFINE p == running.transfer_addr
  <2>1. PICK r \in {"OK", "USER_ERROR"} :
          IF r # "OK" \/ aborted
          THEN /\ Finish(r)
               /\ flash' \in IF r = "OK" THEN {flash, WithPage(p, "torn")} ELSE {flash}
          ELSE /\ pc' = "program"
               /\ flash' = WithPage(p, Programmed(flash[p], buffer[source]))
               /\ UNCHANGED <<slot, event, source, running, result, todo>>
    BY <1>12 DEF StartProgram, FlashResults
  <2>2. Programmed(flash[p], buffer[source]) \in Content
    BY <1>b DEF AsyncTypeOK, Programmed
  <2>3. flash' \in [Page -> Content]
    BY <2>1, <2>2, <1>b, PageType DEF AsyncTypeOK
  <2>4. running # NoTask
    BY <1>12, RunningIsTask DEF StartProgram
  <2>. QED
    BY <1>12, <2>1, <2>3, <2>4 DEF AsyncTypeOK, StartProgram, Finish, Pc, Result
<1>13. CASE EndProgram
  <2>1. flash' \in [Page -> Content]
    BY <1>13, <1>b, PageType DEF AsyncTypeOK, EndProgram
  <2>. QED
    BY <1>13, <2>1, RunningIsTask DEF AsyncTypeOK, EndProgram, Finish, Pc, Result
<1>. QED
  BY <1>1, <1>2, <1>3, <1>4, <1>5, <1>6, <1>7, <1>8, <1>9, <1>10, <1>11,
     <1>12, <1>13 DEF Work

\* The callback keeps the types.
LEMMA TypeComplete == AsyncTypeOK /\ Complete => AsyncTypeOK'
<1> SUFFICES ASSUME AsyncTypeOK, Complete PROVE AsyncTypeOK'
  OBVIOUS
<1>1. /\ slot' \in [Queue -> Task \cup {NoTask}]
      /\ \A q \in Queue : slot'[q] # NoTask => slot'[q] \in TasksOf[q]
      /\ event' \in BOOLEAN
  <2>1. CASE UNCHANGED <<slot, event>>
    BY <2>1 DEF AsyncTypeOK
  <2>2. ASSUME NEW t \in TasksOf[source], queue_task(source, t)
        PROVE  <1>1!1 /\ <1>1!2 /\ <1>1!3
    <3>1. t \in Task
      BY TasksAssumption DEF AsyncTypeOK
    <3>. QED
      BY <2>2, <3>1 DEF AsyncTypeOK, queue_task
  <2>. QED
    BY <2>1, <2>2 DEF Complete
<1>2. buffer' \in [Queue -> Content]
  BY DEF Complete, AsyncTypeOK, Content
<1>. QED
  BY <1>1, <1>2 DEF Complete, TaskDone, AsyncTypeOK, Pc, Result, flashVars

\* A step of the task mechanism keeps the types.
LEMMA AsyncTypeStep == AsyncTypeOK /\ [AsyncNext]_asyncVars => AsyncTypeOK'
<1>1. AsyncTypeOK /\ UNCHANGED asyncVars => AsyncTypeOK'
  BY DEF AsyncTypeOK, asyncVars, workerVars, flashVars, sharedVars
<1>. QED
  BY <1>1, TypeHandler, TypeWork, TypeComplete DEF AsyncNext

\* Every state of the task mechanism has the types of AsyncTypeOK.
THEOREM AsyncTypeCorrect == AsyncSafety => []AsyncTypeOK
  BY TypeInit, AsyncTypeStep, PTL DEF AsyncSafety

-----------------------------------------------------------------------------
(***************************************************************************)
(* No lost wakeup.  The inductive form says where the event register must  *)
(* be set already: after the worker has looked at a queue and found it     *)
(* empty, only queue_task can have filled it, and queue_task sets the      *)
(* event.                                                                  *)
(***************************************************************************)
WakeupInv ==
    /\ pc \in {"poll_picoboot", "wfe"} /\ full("disk") => event
    /\ pc = "wfe" /\ full("picoboot") => event

LEMMA WakeupStep ==
    AsyncTypeOK /\ WakeupInv /\ [AsyncNext]_asyncVars => WakeupInv'
<1> SUFFICES ASSUME AsyncTypeOK, WakeupInv, [AsyncNext]_asyncVars
             PROVE  WakeupInv'
  OBVIOUS
<1> USE DEF WakeupInv, full, workerVars, flashVars, sharedVars
\* What the handler queues sets the event; nothing else of it fills a queue.
<1>1. CASE Handler
  <2>1. (event' = event /\ \A q \in Queue : slot'[q] \in {slot[q], NoTask})
          \/ event' = TRUE
    BY <1>1 DEF Handler, HandlerQueuesTask, HandlerFillsBuffer,
         HandlerResetsQueues, HandlerAbortsFlash, HandlerReboots,
         HandlerSetsMedium, queue_task, reset_queues
  <2>2. pc' = pc
    BY <1>1 DEF Handler, HandlerQueuesTask, HandlerFillsBuffer,
         HandlerResetsQueues, HandlerAbortsFlash, HandlerReboots,
         HandlerSetsMedium
  <2>. QED
    BY <2>1, <2>2 DEF Queue
\* The worker reaches the second look and __wfe only past an empty queue.
<1>2. CASE PollDisk
  BY <1>2 DEF PollDisk, dequeue_task
<1>3. CASE PollPicoboot
  BY <1>3 DEF PollPicoboot, dequeue_task
<1>4. CASE Wake
  BY <1>4 DEF Wake
\* Every other step of the worker leaves it away from both.
<1>5. CASE (Work /\ ~PollDisk /\ ~PollPicoboot /\ ~Wake) \/ Complete
  <2>1. pc' \notin {"poll_picoboot", "wfe"}
    BY <1>5 DEF Work, Complete, TaskDone, Refuse, Accept, RefuseVectors,
         Prepare, EraseSector, SkipAccess, AccessMemory, ReadFlash,
         StartProgram, EndProgram, Finish
  <2>. QED
    BY <2>1
<1>6. CASE UNCHANGED asyncVars
  BY <1>6 DEF asyncVars
<1>. QED
  BY <1>1, <1>2, <1>3, <1>4, <1>5, <1>6 DEF AsyncNext, Work

\* The worker never sleeps on a queued task.
THEOREM WakeupCorrect == AsyncSafety => []NoLostWakeup
<1>1. AsyncInit => WakeupInv
  BY DEF AsyncInit, WakeupInv
<1>2. WakeupInv => NoLostWakeup
  BY DEF WakeupInv, NoLostWakeup, Queue
<1>. QED
  BY <1>1, <1>2, WakeupStep, AsyncTypeCorrect, PTL DEF AsyncSafety

-----------------------------------------------------------------------------
(***************************************************************************)
(* Exclusive access.  The virtual disk is shut out only by a task of       *)
(* PICOBOOT while that task runs, so never while a task of the disk does;  *)
(* and no task of the disk passes execute_task while it is shut out.       *)
(***************************************************************************)
LEMMA ExclusiveStep ==
    AsyncTypeOK /\ DiskIdleWhileExclusive /\ [AsyncNext]_asyncVars
        => DiskIdleWhileExclusive'
<1> SUFFICES ASSUME AsyncTypeOK, DiskIdleWhileExclusive, [AsyncNext]_asyncVars
             PROVE  DiskIdleWhileExclusive'
  OBVIOUS
<1> USE DEF DiskIdleWhileExclusive, Executing, workerVars, flashVars, sharedVars
<1>1. CASE Handler
  <2>1. disable'["disk"] => disable["disk"]
    BY <1>1 DEF Handler, HandlerQueuesTask, HandlerFillsBuffer,
         HandlerResetsQueues, HandlerAbortsFlash, HandlerReboots,
         HandlerSetsMedium, reset_queues, Queue
  <2>2. source' = source /\ pc' = pc
    BY <1>1 DEF Handler, HandlerQueuesTask, HandlerFillsBuffer,
         HandlerResetsQueues, HandlerAbortsFlash, HandlerReboots,
         HandlerSetsMedium
  <2>. QED
    BY <2>1, <2>2
<1>2. CASE Accept
  BY <1>2 DEF Accept
<1>3. CASE Prepare
  <2>1. CASE source = "disk"
    <3>1. ~Does("EXCLUSIVE")
      BY <1>3, <2>1, RunningIsTask, DiskTasksAssumption DEF Prepare, Does
    <3>2. disable' = disable
      BY <1>3, <3>1 DEF Prepare
    <3>. QED
      BY <1>3, <2>1, <3>2 DEF Prepare
  <2>2. CASE source # "disk"
    <3>1. source' = source
      BY <1>3 DEF Prepare, Finish
    <3>. QED
      BY <2>2, <3>1
  <2>. QED
    BY <2>1, <2>2
<1>4. CASE PollDisk \/ PollPicoboot \/ Wake \/ Refuse \/ RefuseVectors \/ Complete
  BY <1>4 DEF PollDisk, PollPicoboot, Wake, Refuse, RefuseVectors, Complete,
       TaskDone, dequeue_task, Finish
<1>5. CASE EraseSector \/ SkipAccess \/ AccessMemory \/ ReadFlash
             \/ StartProgram \/ EndProgram
  <2>1. disable' = disable /\ source' = source
    BY <1>5 DEF EraseSector, SkipAccess, AccessMemory, ReadFlash, StartProgram,
         EndProgram, Finish
  <2>2. pc \in {"mutate", "program"}
    BY <1>5 DEF EraseSector, SkipAccess, AccessMemory, ReadFlash, StartProgram,
         EndProgram
  <2>. QED
    BY <2>1, <2>2
<1>6. CASE UNCHANGED asyncVars
  BY <1>6 DEF asyncVars
<1>. QED
  BY <1>1, <1>2, <1>3, <1>4, <1>5, <1>6 DEF AsyncNext, Work

\* No task of the virtual disk is under way while it is shut out.
THEOREM ExclusiveCorrect == AsyncSafety => []DiskIdleWhileExclusive
<1>1. AsyncInit => DiskIdleWhileExclusive
  BY DEF AsyncInit, DiskIdleWhileExclusive, Queue
<1>. QED
  BY <1>1, ExclusiveStep, AsyncTypeCorrect, PTL DEF AsyncSafety

-----------------------------------------------------------------------------
(***************************************************************************)
(* Refused tasks.  What a task may do to the flash it does in "mutate" and *)
(* "program", and it gets there past the checks of _execute_task.          *)
(***************************************************************************)
CheckedInv ==
    /\ pc \in {"mutate", "program"} /\ Does("FLASH_ERASE") => running.erase_check = "OK"
    /\ pc = "mutate" /\ todo # {} => Does("FLASH_ERASE")
    /\ pc = "program" => Does("WRITE") /\ running.transfer_addr \in Page

\* What the worker has in hand only changes when it takes or ends a task.
LEMMA CheckedStep ==
    AsyncTypeOK /\ CheckedInv /\ [AsyncNext]_asyncVars => CheckedInv'
<1> SUFFICES ASSUME AsyncTypeOK, CheckedInv, [AsyncNext]_asyncVars
             PROVE  CheckedInv'
  OBVIOUS
<1>1. CASE Handler \/ UNCHANGED asyncVars
  <2>1. UNCHANGED workerVars
    BY <1>1 DEF Handler, HandlerQueuesTask, HandlerFillsBuffer,
         HandlerResetsQueues, HandlerAbortsFlash, HandlerReboots,
         HandlerSetsMedium, asyncVars
  <2>. QED
    BY <2>1 DEF workerVars, CheckedInv, Does
<1>2. CASE Prepare
  <2>1. PICK r \in {"OK", "USER_ERROR"} :
          IF PrepareResult(r) = "OK"
          THEN /\ pc' = "mutate"
               /\ todo' = IF Does("FLASH_ERASE") THEN running.erase ELSE {}
               /\ UNCHANGED <<slot, event, source, running, result>>
          ELSE Finish(PrepareResult(r))
    BY <1>2 DEF Prepare, FlashResults
  <2>2. CASE PrepareResult(r) = "OK"
    <3>1. Does("FLASH_ERASE") => running.erase_check = "OK"
      BY <2>2 DEF PrepareResult
    <3>2. /\ pc' = "mutate" /\ running' = running
          /\ todo' = IF Does("FLASH_ERASE") THEN running.erase ELSE {}
      BY <2>1, <2>2
    <3>. QED
      BY <3>1, <3>2 DEF CheckedInv, Does
  <2>3. CASE PrepareResult(r) # "OK"
    BY <2>1, <2>3 DEF Finish, CheckedInv
  <2>. QED
    BY <2>2, <2>3
<1>3. CASE EraseSector
  <2>1. /\ pc = "mutate" /\ running' = running
        /\ \/ pc' = pc /\ todo' \subseteq todo
           \/ pc' = "complete"
    BY <1>3 DEF EraseSector, Finish
  <2>. QED
    BY <2>1 DEF CheckedInv, Does
<1>4. CASE StartProgram
  <2>1. /\ pc = "mutate" /\ running' = running /\ running.transfer_addr \in Page
        /\ Does("WRITE") /\ pc' \in {"program", "complete"}
    BY <1>4 DEF StartProgram, Finish, AccessesFlash
  <2>. QED
    BY <2>1 DEF CheckedInv, Does
\* No other step ends in "mutate" or "program".
<1>5. CASE \/ PollDisk \/ PollPicoboot \/ Wake \/ Refuse \/ Accept \/ RefuseVectors
           \/ SkipAccess \/ AccessMemory \/ ReadFlash \/ EndProgram \/ Complete
  <2>1. pc' \notin {"mutate", "program"}
    BY <1>5 DEF PollDisk, PollPicoboot, Wake, Refuse, Accept, RefuseVectors,
         SkipAccess, AccessMemory, ReadFlash, EndProgram, Complete, TaskDone,
         dequeue_task, Finish
  <2>. QED
    BY <2>1 DEF CheckedInv
<1>. QED
  BY <1>1, <1>2, <1>3, <1>4, <1>5 DEF AsyncNext, Work

\* The flash changes in three steps of the worker, and each is past the checks.
LEMMA CheckedBeforeFlash ==
    ASSUME AsyncTypeOK, CheckedInv, [AsyncNext]_asyncVars, flash' # flash
    PROVE  /\ Does("FLASH_ERASE") => running.erase_check = "OK"
           /\ AccessCheck = "OK"
<1>1. EraseSector \/ StartProgram \/ EndProgram
  BY DEF asyncVars, flashVars, AsyncNext, Handler, HandlerQueuesTask,
     HandlerFillsBuffer, HandlerResetsQueues, HandlerAbortsFlash, HandlerReboots,
     HandlerSetsMedium, Work, PollDisk, PollPicoboot, Wake, Refuse, Accept,
     RefuseVectors, Prepare, SkipAccess, AccessMemory, ReadFlash, Complete,
     dequeue_task
<1>2. pc \in {"mutate", "program"}
  BY <1>1 DEF EraseSector, StartProgram, EndProgram
<1>3. running \in TasksOf[source] /\ source \in Queue
  BY <1>2, RunningIsTask DEF AsyncTypeOK
<1>4. CASE EraseSector
  <2>1. "FLASH_ERASE" \in running.type
    BY <1>4 DEF EraseSector, CheckedInv, Does
  <2>2. ReadsOrWrites => running.type \cap {"READ", "WRITE"} # {}
    BY DEF ReadsOrWrites, Does
  <2>3. ReadsOrWrites => running.transfer_addr \in Page
    BY <1>3, <2>1, <2>2, EraseAssumption
  <2>. QED
    BY <1>2, <2>3 DEF CheckedInv, AccessCheck
<1>5. CASE StartProgram \/ EndProgram
  <2>1. running.transfer_addr \in Page
    BY <1>5 DEF StartProgram, EndProgram, AccessesFlash, CheckedInv
  <2>. QED
    BY <1>2, <2>1 DEF CheckedInv, AccessCheck
<1>. QED
  BY <1>1, <1>4, <1>5

\* A task that _execute_task refuses, for the range it would erase or the address
\* it would access, has changed nothing in the flash.
THEOREM RefusedCorrect == AsyncSafety => RefusedTaskLeavesFlash
<1>1. AsyncInit => CheckedInv
  BY DEF AsyncInit, CheckedInv
<1>2. AsyncTypeOK /\ CheckedInv /\ [AsyncNext]_asyncVars
        => [flash' # flash => /\ Does("FLASH_ERASE") => running.erase_check = "OK"
                              /\ AccessCheck = "OK"]_flash
  BY CheckedBeforeFlash
<1>. QED
  BY <1>1, <1>2, CheckedStep, AsyncTypeCorrect, PTL
     DEF AsyncSafety, RefusedTaskLeavesFlash

=============================================================================
