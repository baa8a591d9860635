-------------------------- MODULE Uf2Download_proofs --------------------------
(***************************************************************************)
(* Proofs about the UF2 download, for any blocks, sizes of image, resets   *)
(* and tasks of PICOBOOT:                                                  *)
(*   - it is an instance of the task mechanism: every step of it is a step *)
(*     of AsyncTask, whose theorems therefore hold of it;                  *)
(*   - the count of blocks is the number of blocks in the bitmap, and the  *)
(*     device reboots only when the bitmap is full;                        *)
(*   - if the images are proper ones it starts a RAM image at the lowest   *)
(*     block in SRAM, and if nobody else uses the flash it leaves for a    *)
(*     flash image only when all of that is written.                       *)
(***************************************************************************)
EXTENDS Uf2Download, AsyncTask_proofs, FiniteSetTheorems

(***************************************************************************)
(* Types and refinement.  The two are one induction: that a step is one of *)
(* AsyncTask needs the types (the token of a task is within its bound),    *)
(* and the types of the shared variables follow from AsyncTask's steps.    *)
(***************************************************************************)

\* What a step of the host does is a step of the interrupt handler of
\* AsyncTask, or leaves its variables alone.
LEMMA HostIsHandler ==
    ASSUME AsyncTypeOK, Uf2TypeOK, Host
    PROVE  Handler \/ UNCHANGED asyncVars
<1> USE DEF workerVars, flashVars, sharedVars, Queue
<1>1. CASE HostStartsWrite
  BY <1>1 DEF HostStartsWrite
<1>2. CASE HostReadsSector \/ HostSendsPart \/ HostSendsOther
  <2>1. HandlerFillsBuffer("disk")
    BY <1>2 DEF HostReadsSector, HostSendsPart, HostSendsOther,
                HandlerFillsBuffer, fill_buffer
  <2>. QED
    BY <2>1 DEF Handler
<1>3. CASE HostSendsBlock
  <2>1. PICK b \in Block :
           /\ buffer' = [buffer EXCEPT !["disk"] = b.data]
           /\ \/ WriteBlock(b, mscToken')
              \/ IgnoreBlock(b, mscToken')
              \/ RejectBlock(b)
    BY <1>3 DEF HostSendsBlock
  <2>2. b \in UF2Block /\ b.data \in Data
    BY Uf2Assumption DEF UF2Block
  <2>3. fill_buffer("disk")
    BY <2>1, <2>2 DEF fill_buffer
  <2>4. mscToken' \in 0..MaxToken
    BY <1>3, Uf2Assumption DEF HostSendsBlock, Uf2TypeOK
  <2>5. CASE WriteBlock(b, mscToken')
    <3>1. (IsRam(b) /\ ~Erases(b)) \/ b.target_addr \in Page
      BY <2>5 DEF WriteBlock, Accepts, Garbage, IsRam, IsFlash, Erases,
                  RamAddress
    <3>2. ExitsXip(b) \in BOOLEAN /\ Erases(b) \in BOOLEAN
      BY DEF ExitsXip, Opens, Erases
    <3>3. DiskTask(b, mscToken', ExitsXip(b), Erases(b)) \in TasksOf["disk"]
      BY <2>4, <3>1, <3>2, Uf2Assumption
    <3>4. HandlerQueuesTask("disk")
      BY <1>3, <2>3, <2>5, <3>3
      DEF HostSendsBlock, WriteBlock, HandlerQueuesTask
    <3>. QED
      BY <3>4 DEF Handler
  <2>6. CASE IgnoreBlock(b, mscToken') \/ RejectBlock(b)
    <3>1. HandlerFillsBuffer("disk")
      BY <1>3, <2>3, <2>6
      DEF HostSendsBlock, IgnoreBlock, RejectBlock, HandlerFillsBuffer
    <3>. QED
      BY <3>1 DEF Handler
  <2>. QED
    BY <2>1, <2>5, <2>6
<1>4. CASE HostResetsMsc
  <2>1. HandlerSetsMedium
    BY <1>4 DEF HostResetsMsc, MscReset, HandlerSetsMedium
  <2>. QED
    BY <2>1 DEF Handler
<1>5. CASE HostResetsPicoboot \/ HostConfigures
  <2>1. HandlerResetsQueues
    BY <1>5 DEF HostResetsPicoboot, HostConfigures, MscReset,
                HandlerResetsQueues
  <2>. QED
    BY <2>1 DEF Handler
<1>6. CASE HostUnconfigures
  <2>1. HandlerAbortsFlash
    BY <1>6 DEF HostUnconfigures, HandlerAbortsFlash
  <2>. QED
    BY <2>1 DEF Handler
<1>7. CASE HostUsesPicoboot
  <2>1. HandlerQueuesTask("picoboot")
    BY <1>7 DEF HostUsesPicoboot
  <2>. QED
    BY <2>1 DEF Handler
<1>. QED
  BY <1>1, <1>2, <1>3, <1>4, <1>5, <1>6, <1>7 DEF Host

\* Every step of the download is a step of the task mechanism.
LEMMA StepIsAsyncStep ==
    ASSUME AsyncTypeOK, Uf2TypeOK, [Uf2Next]_uf2AllVars
    PROVE  [AsyncNext]_asyncVars
<1>1. CASE Host
  BY <1>1, HostIsHandler DEF AsyncNext
<1>2. CASE Work /\ UNCHANGED uf2Vars
  BY <1>2 DEF AsyncNext
<1>3. CASE DiskComplete
  <2>1. rebooting' \in {rebooting, TRUE}
    BY <1>3 DEF DiskComplete, AsyncTypeOK
  <2>2. Complete
    BY <1>3, <2>1 DEF DiskComplete, Complete, flashVars
  <2>. QED
    BY <2>2 DEF AsyncNext
<1>4. CASE PicobootComplete
  <2>1. Complete
    BY <1>4 DEF PicobootComplete, Complete, flashVars, sharedVars
  <2>. QED
    BY <2>1 DEF AsyncNext
<1>5. CASE UNCHANGED uf2AllVars
  BY <1>5 DEF uf2AllVars
<1>. QED
  BY <1>1, <1>2, <1>3, <1>4, <1>5 DEF Uf2Next, Uf2Work

\* What the bookkeeping of a block leaves has the type of _uf2_info.
LEMMA InfoType ==
    ASSUME Uf2TypeOK, NEW b \in Block, NEW token \in Nat
    PROVE  /\ Opened(b) \in UF2Info /\ Opened(b).token <= mscToken
           /\ Accepts(b) => Counted(b, token) \in UF2Info
           /\ Counted(b, token).token = token
           /\ [Opened(b) EXCEPT !.token = token] \in UF2Info
           /\ [Opened(b) EXCEPT !.token = token].token = token
           /\ Rejected(b) \in UF2Info /\ Rejected(b).token <= mscToken
<1>1. b \in UF2Block
  BY Uf2Assumption
<1>2. /\ b.num_blocks \in Nat /\ b.block_no \in Nat /\ b.addr \in Nat
  BY <1>1 DEF UF2Block
<1>3. IsRam(b) \in BOOLEAN
  BY DEF IsRam
<1>4. /\ ClearedInfo(IsRam(b)) \in UF2Info
      /\ ClearedInfo(IsRam(b)).token = 0
  BY <1>3 DEF ClearedInfo, UF2Info
<1>5. uf2 \in UF2Info /\ uf2.token <= mscToken /\ mscToken \in Nat
  BY Uf2Assumption DEF Uf2TypeOK
<1>6. Opened(b) \in UF2Info /\ Opened(b).token <= mscToken
  <2>1. CASE Opens(b)
    <3>1. Opened(b) = [num_blocks |-> b.num_blocks, token |-> 0,
                       valid_block_count |-> 0, lowest_addr |-> TopAddr,
                       ram |-> IsRam(b), valid_blocks |-> {}, cleared_pages |-> {}]
      BY <2>1 DEF Opened, ClearedInfo
    <3>. QED
      BY <1>2, <1>3, <1>5, <3>1, Uf2Assumption DEF UF2Info
  <2>2. CASE ~Opens(b)
    BY <1>5, <2>2 DEF Opened
  <2>. QED
    BY <2>1, <2>2
<1>7. page_no(b) \in Nat
  BY <1>2, Uf2Assumption DEF page_no
<1>8. LowerAddr(Opened(b).lowest_addr, b.addr) \in Nat
  BY <1>2, <1>6 DEF LowerAddr, UF2Info
<1>9. Counted(b, token) \in UF2Info /\ Counted(b, token).token = token
  <2>1. /\ Opened(b).valid_block_count + 1 \in Nat
        /\ Opened(b).valid_blocks \cup {b.block_no} \in SUBSET Nat
        /\ Opened(b).cleared_pages \cup {page_no(b)} \in SUBSET Nat
        /\ Opened(b).cleared_pages \in SUBSET Nat /\ Opened(b).ram \in BOOLEAN
    BY <1>2, <1>6, <1>7 DEF UF2Info
  <2>. QED
    BY <1>2, <1>8, <2>1 DEF Counted, UF2Info
<1>10. Rejected(b) \in UF2Info /\ Rejected(b).token <= mscToken
  BY <1>4, <1>5, <1>6 DEF Rejected, UF2Info
<1>11. /\ [Opened(b) EXCEPT !.token = token] \in UF2Info
       /\ [Opened(b) EXCEPT !.token = token].token = token
  BY <1>6 DEF UF2Info
<1>. QED
  BY <1>6, <1>9, <1>10, <1>11

\* The variables of the download keep their types.
LEMMA Uf2TypeStep ==
    ASSUME Uf2TypeOK, [Uf2Next]_uf2AllVars
    PROVE  Uf2TypeOK'
<1>a. mscToken \in Nat /\ MaxToken \in Nat /\ MaxResets \in Nat
  BY Uf2Assumption DEF Uf2TypeOK
<1>b. \A kind : CountReset(kind) => resets' \in 0..MaxResets
  BY <1>a DEF Uf2TypeOK, CountReset
<1>1. CASE HostStartsWrite \/ HostReadsSector \/ HostSendsPart
             \/ HostSendsOther \/ HostUsesPicoboot
  BY <1>1, <1>a DEF Uf2TypeOK, HostStartsWrite, HostReadsSector, HostSendsPart,
     HostSendsOther, ChunkDone, HostUsesPicoboot, uf2Vars, UF2Info
<1>2. CASE HostSendsBlock
  <2>1. PICK b \in Block : \/ WriteBlock(b, mscToken')
                           \/ IgnoreBlock(b, mscToken')
                           \/ RejectBlock(b)
    BY <1>2 DEF HostSendsBlock
  <2>2. /\ mscToken' = mscToken + 1 /\ mscToken' \in 0..MaxToken
        /\ mscToken' \in Nat /\ resets' = resets /\ dropped' = dropped
    BY <1>2, <1>a DEF HostSendsBlock
  <2>3. uf2' \in UF2Info /\ uf2'.token <= mscToken'
    <3>1. CASE WriteBlock(b, mscToken')
      <4>1. uf2' \in UF2Info /\ uf2'.token = mscToken'
        BY <2>2, <3>1, InfoType DEF WriteBlock
      <4>. QED
        BY <2>2, <4>1
    <3>2. CASE IgnoreBlock(b, mscToken')
      <4>1. uf2' \in UF2Info /\ uf2'.token = mscToken'
        BY <2>2, <3>2, InfoType DEF IgnoreBlock
      <4>. QED
        BY <2>2, <4>1
    <3>3. CASE RejectBlock(b)
      <4>1. uf2' \in UF2Info /\ uf2'.token <= mscToken
        BY <2>2, <3>3, InfoType DEF RejectBlock
      <4>2. uf2'.token \in Nat
        BY <4>1 DEF UF2Info
      <4>. QED
        BY <1>a, <2>2, <4>1, <4>2
    <3>. QED
      BY <2>1, <3>1, <3>2, <3>3
  <2>4. msc' \in {"off", "idle", "ready", "pending"}
    BY <2>1 DEF WriteBlock, IgnoreBlock, RejectBlock, ChunkDone
  <2>. QED
    BY <2>2, <2>3, <2>4 DEF Uf2TypeOK
<1>3. CASE HostResetsMsc \/ HostConfigures
  <2>1. uf2' \in UF2Info /\ uf2'.token = uf2.token
    BY <1>3 DEF Uf2TypeOK, HostResetsMsc, HostConfigures, MscReset, UF2Info
  <2>2. resets' \in 0..MaxResets
    BY <1>3, <1>b DEF Uf2TypeOK, HostResetsMsc, HostConfigures
  <2>. QED
    BY <1>3, <2>1, <2>2 DEF Uf2TypeOK, HostResetsMsc, HostConfigures, MscReset
<1>4. CASE HostResetsPicoboot \/ HostUnconfigures
  <2>1. resets' \in 0..MaxResets
    BY <1>4, <1>b DEF HostResetsPicoboot, HostUnconfigures
  <2>. QED
    BY <1>4, <2>1 DEF Uf2TypeOK, HostResetsPicoboot, HostUnconfigures
<1>5. CASE DiskComplete
  BY <1>5 DEF Uf2TypeOK, DiskComplete, ChunkDone
<1>6. CASE PicobootComplete \/ (Work /\ UNCHANGED uf2Vars)
             \/ UNCHANGED uf2AllVars
  BY <1>6 DEF Uf2TypeOK, PicobootComplete, uf2AllVars, uf2Vars
<1>. QED
  BY <1>1, <1>2, <1>3, <1>4, <1>5, <1>6 DEF Uf2Next, Uf2Work, Host

\* Every state of a download has the types of both modules, and every download
\* is a run of the task mechanism: the queues, the worker and the flash are
\* used in no way AsyncTask does not allow (queue_task, reset_queue,
\* flash_abort and safe_reboot are all the handlers call).
THEOREM Uf2TypeCorrect == Uf2Safety => [](AsyncTypeOK /\ Uf2TypeOK)
<1>1. ASSUME Uf2Init
      PROVE  AsyncTypeOK /\ Uf2TypeOK
  <2>1. AsyncTypeOK
    BY <1>1, TypeInit DEF Uf2Init
  <2>2. msc = "off" /\ mscToken = 0 /\ resets = 0
    BY <1>1 DEF Uf2Init
  <2>3. dropped \in BOOLEAN
    BY <1>1 DEF Uf2Init
  <2>4. uf2 \in UF2Info /\ uf2.token = 0
    BY <1>1 DEF Uf2Init, ClearedInfo, UF2Info
  <2>5. mscToken \in 0..MaxToken /\ resets \in 0..MaxResets
    BY <2>2, Uf2Assumption
  <2>. QED
    BY <2>1, <2>2, <2>3, <2>4, <2>5 DEF Uf2TypeOK
<1>2. AsyncTypeOK /\ Uf2TypeOK /\ [Uf2Next]_uf2AllVars
         => AsyncTypeOK' /\ Uf2TypeOK'
  BY StepIsAsyncStep, AsyncTypeStep, Uf2TypeStep
<1>. QED
  BY <1>1, <1>2, PTL DEF Uf2Safety

\* A download is a run of the task mechanism.
THEOREM Uf2Refines == Uf2Safety => AsyncSafety
<1>1. Uf2Init => AsyncInit
  BY DEF Uf2Init
<1>2. AsyncTypeOK /\ Uf2TypeOK /\ [Uf2Next]_uf2AllVars => [AsyncNext]_asyncVars
  BY StepIsAsyncStep
<1>. QED
  BY <1>1, <1>2, Uf2TypeCorrect, PTL DEF Uf2Safety, AsyncSafety

\* So a download neither loses the wakeup of the worker nor lets a block be
\* written while exclusive access shuts the virtual disk out.
THEOREM Uf2Inherits == Uf2Safety => [](NoLostWakeup /\ DiskIdleWhileExclusive)
  BY Uf2Refines, WakeupCorrect, ExclusiveCorrect, PTL

(***************************************************************************)
(* The count of blocks.  CountIsValidBlocks needs the bitmap to be finite  *)
(* for its cardinality to grow by one with each new block.                 *)
(***************************************************************************)

CountInv == IsFiniteSet(uf2.valid_blocks) /\ CountIsValidBlocks

\* A block that is accepted and not yet in the bitmap.
LEMMA CountedOnce ==
    ASSUME Uf2TypeOK, CountInv, NEW b \in Block, NEW token,
           Accepts(b), ~IsDuplicate(b), uf2' = Counted(b, token)
    PROVE  CountInv'
<1>1. b.num_blocks \in Nat /\ b.block_no \in 0..(b.num_blocks - 1)
  BY Uf2Assumption DEF UF2Block, Accepts
<1>2. /\ IsFiniteSet(Opened(b).valid_blocks)
      /\ Opened(b).valid_block_count = Cardinality(Opened(b).valid_blocks)
      /\ Opened(b).valid_blocks \subseteq 0..(b.num_blocks - 1)
  <2>1. CASE Opens(b)
    BY <2>1, FS_EmptySet DEF Opened, ClearedInfo
  <2>2. CASE ~Opens(b)
    <3>1. uf2.num_blocks = b.num_blocks /\ b.num_blocks # 0
      BY <2>2 DEF Opens, Accepts, Garbage
    <3>. QED
      BY <2>2, <3>1 DEF Opened, CountInv, CountIsValidBlocks
  <2>. QED
    BY <2>1, <2>2
<1>3. /\ uf2'.valid_blocks = Opened(b).valid_blocks \cup {b.block_no}
      /\ uf2'.valid_block_count = Opened(b).valid_block_count + 1
      /\ uf2'.num_blocks = b.num_blocks
  BY DEF Counted
<1>4. b.block_no \notin Opened(b).valid_blocks
  BY DEF IsDuplicate
<1>5. /\ IsFiniteSet(uf2'.valid_blocks)
      /\ Cardinality(uf2'.valid_blocks) = Cardinality(Opened(b).valid_blocks) + 1
  BY <1>2, <1>3, <1>4, FS_AddElement
<1>. QED
  BY <1>1, <1>2, <1>3, <1>5 DEF CountInv, CountIsValidBlocks

\* What a duplicate, a rejected block or a reset leaves.
LEMMA NotCounted ==
    ASSUME Uf2TypeOK, CountInv, NEW b \in Block, NEW token,
           \/ Accepts(b) /\ uf2' = [Opened(b) EXCEPT !.token = token]
           \/ uf2' = Rejected(b)
    PROVE  CountInv'
<1>a. uf2 \in UF2Info /\ b.num_blocks \in Nat
  BY Uf2Assumption DEF Uf2TypeOK, UF2Block
<1>b. Opened(b) \in UF2Info
  BY Uf2Assumption, InfoType
<1>1. /\ IsFiniteSet(Opened(b).valid_blocks)
      /\ Opened(b).valid_block_count = Cardinality(Opened(b).valid_blocks)
      /\ Opened(b).num_blocks # 0
            => Opened(b).valid_blocks \subseteq 0..(Opened(b).num_blocks - 1)
  <2>1. CASE Opens(b)
    <3>1. Opened(b).valid_blocks = {} /\ Opened(b).valid_block_count = 0
      BY <2>1 DEF Opened, ClearedInfo
    <3>. QED
      BY <3>1, FS_EmptySet
  <2>2. CASE ~Opens(b)
    BY <2>2 DEF Opened, CountInv, CountIsValidBlocks
  <2>. QED
    BY <2>1, <2>2
<1>2. CASE uf2' = [Opened(b) EXCEPT !.token = token]
  <2>1. /\ uf2'.valid_blocks = Opened(b).valid_blocks
        /\ uf2'.valid_block_count = Opened(b).valid_block_count
        /\ uf2'.num_blocks = Opened(b).num_blocks
    BY <1>2, <1>b DEF UF2Info
  <2>. QED
    BY <1>1, <2>1 DEF CountInv, CountIsValidBlocks
<1>3. CASE uf2' = Rejected(b)
  <2>1. CASE Garbage(b) \/ disable["disk"]
    <3>1. uf2' = [uf2 EXCEPT !.num_blocks = 0]
      BY <1>3, <2>1 DEF Rejected
    <3>2. /\ uf2'.valid_blocks = uf2.valid_blocks /\ uf2'.num_blocks = 0
          /\ uf2'.valid_block_count = uf2.valid_block_count
      BY <1>a, <3>1 DEF UF2Info
    <3>. QED
      BY <3>2 DEF CountInv, CountIsValidBlocks
  <2>2. CASE ~(Garbage(b) \/ disable["disk"]) /\ Opens(b) /\ ~Fits(b)
    <3>1. uf2' = ClearedInfo(IsRam(b))
      BY <1>3, <2>2 DEF Rejected
    <3>2. /\ uf2'.valid_blocks = {} /\ uf2'.num_blocks = 0
          /\ uf2'.valid_block_count = 0
      BY <3>1 DEF ClearedInfo
    <3>. QED
      BY <3>2, FS_EmptySet DEF CountInv, CountIsValidBlocks
  <2>3. CASE ~(Garbage(b) \/ disable["disk"]) /\ ~(Opens(b) /\ ~Fits(b))
    <3>1. uf2' = [Opened(b) EXCEPT !.num_blocks = 0]
      BY <1>3, <2>3 DEF Rejected
    <3>2. /\ uf2'.valid_blocks = Opened(b).valid_blocks /\ uf2'.num_blocks = 0
          /\ uf2'.valid_block_count = Opened(b).valid_block_count
      BY <1>b, <3>1 DEF UF2Info
    <3>. QED
      BY <1>1, <3>2 DEF CountInv, CountIsValidBlocks
  <2>. QED
    BY <2>1, <2>2, <2>3
<1>. QED
  BY <1>2, <1>3

\* Every step keeps the count right.
LEMMA CountStep ==
    ASSUME Uf2TypeOK, CountInv, [Uf2Next]_uf2AllVars
    PROVE  CountInv'
<1>1. CASE HostSendsBlock
  <2>1. PICK b \in Block : \/ WriteBlock(b, mscToken')
                           \/ IgnoreBlock(b, mscToken')
                           \/ RejectBlock(b)
    BY <1>1 DEF HostSendsBlock
  <2>2. CASE WriteBlock(b, mscToken')
    BY <2>2, CountedOnce DEF WriteBlock
  <2>3. CASE IgnoreBlock(b, mscToken') \/ RejectBlock(b)
    BY <2>3, NotCounted DEF IgnoreBlock, RejectBlock
  <2>. QED
    BY <2>1, <2>2, <2>3
<1>2. CASE HostResetsMsc \/ HostConfigures
  <2>1. /\ uf2'.valid_blocks = uf2.valid_blocks
        /\ uf2'.valid_block_count = uf2.valid_block_count
        /\ uf2'.num_blocks = 0
    BY <1>2 DEF HostResetsMsc, HostConfigures, MscReset, Uf2TypeOK, UF2Info
  <2>. QED
    BY <2>1 DEF CountInv, CountIsValidBlocks
<1>3. CASE UNCHANGED uf2
  BY <1>3 DEF CountInv, CountIsValidBlocks
<1>4. HostSendsBlock \/ HostResetsMsc \/ HostConfigures \/ UNCHANGED uf2
  BY DEF Uf2Next, Host, Uf2Work, HostStartsWrite, HostReadsSector, HostSendsPart,
     HostSendsOther, HostResetsPicoboot, HostUnconfigures, HostUsesPicoboot,
     DiskComplete, PicobootComplete, uf2Vars, uf2AllVars
<1>. QED
  BY <1>1, <1>2, <1>3, <1>4

\* valid_block_count counts the bitmap, in every state of every download.
THEOREM CountCorrect == Uf2Safety => []CountIsValidBlocks
<1>1. Uf2Init => CountInv
  BY FS_EmptySet DEF Uf2Init, CountInv, CountIsValidBlocks, ClearedInfo
<1>2. CountInv => CountIsValidBlocks
  BY DEF CountInv
<1>. QED
  BY <1>1, <1>2, CountStep, Uf2TypeCorrect, PTL DEF Uf2Safety

\* A bitmap within 0..n-1 whose count is n is full: the device reboots only
\* when every block of the image has been sent.
THEOREM RebootCorrect == Uf2Safety => RebootsAfterAllBlocks
<1>1. Uf2Init => CountInv
  BY FS_EmptySet DEF Uf2Init, CountInv, CountIsValidBlocks, ClearedInfo
<1>2. ASSUME AsyncTypeOK, Uf2TypeOK, CountInv, [Uf2Next]_uf2AllVars
      PROVE  [~rebooting /\ rebooting' =>
                uf2.valid_blocks = 0..(uf2.num_blocks - 1)]_<<rebooting, uf2>>
  <2> SUFFICES ASSUME ~rebooting, rebooting'
               PROVE  uf2.valid_blocks = 0..(uf2.num_blocks - 1)
    OBVIOUS
  <2>1. DiskComplete
    BY <1>2 DEF Uf2Next, Host, Uf2Work, HostStartsWrite, HostReadsSector,
       HostSendsPart, HostSendsBlock, HostSendsOther, HostResetsMsc,
       HostResetsPicoboot, HostConfigures, HostUnconfigures, HostUsesPicoboot,
       HandlerQueuesTask, PicobootComplete, Work, PollDisk, PollPicoboot, Wake,
       Refuse, Accept, RefuseVectors, Prepare, EraseSector, SkipAccess,
       AccessMemory, ReadFlash, StartProgram, EndProgram, dequeue_task,
       uf2AllVars, asyncVars, sharedVars
  <2>2. uf2.valid_block_count = uf2.num_blocks
    BY <2>1 DEF DiskComplete, ImageComplete
  <2>3. uf2.num_blocks \in Nat
    BY <1>2 DEF Uf2TypeOK, UF2Info
  <2>4. CASE uf2.num_blocks = 0
    <3>1. uf2.valid_blocks = {}
      BY <1>2, <2>2, <2>4, FS_EmptySet DEF CountInv, CountIsValidBlocks
    <3>. QED
      BY <2>4, <3>1
  <2>5. CASE uf2.num_blocks # 0
    <3>1. /\ IsFiniteSet(0..(uf2.num_blocks - 1))
          /\ Cardinality(0..(uf2.num_blocks - 1)) = uf2.num_blocks
      <4>1. uf2.num_blocks - 1 \in Int /\ ~(0 > uf2.num_blocks - 1)
        BY <2>3, <2>5
      <4>2. /\ IsFiniteSet(0..(uf2.num_blocks - 1))
            /\ Cardinality(0..(uf2.num_blocks - 1)) = uf2.num_blocks - 1 - 0 + 1
        BY <4>1, FS_Interval
      <4>. QED
        BY <2>3, <4>2
    <3>2. /\ uf2.valid_blocks \in SUBSET (0..(uf2.num_blocks - 1))
          /\ Cardinality(uf2.valid_blocks) = uf2.num_blocks
      BY <1>2, <2>2, <2>5 DEF CountInv, CountIsValidBlocks
    <3>. QED
      BY <3>1, <3>2, FS_Subset, Zenon
  <2>. QED
    BY <2>4, <2>5
<1>. QED
  BY <1>1, <1>2, CountStep, Uf2TypeCorrect, PTL
  DEF Uf2Safety, RebootsAfterAllBlocks

-----------------------------------------------------------------------------
(***************************************************************************)
(* The image in the flash, for a QuietHost.  The invariant follows a block *)
(* from vd_write_block, which counts it, through the queue and the worker  *)
(* to its completion.                                                      *)
(***************************************************************************)

DiskRuns == running # NoTask /\ source = "disk"

IsDiskTask(t) ==
    /\ t.type \subseteq {"WRITE", "EXIT_XIP", "FLASH_ERASE"}
    /\ t.token <= mscToken

\* Only tasks of blocks are in the disk's queue, and nobody has changed the
\* flash functions or shut the disk out.
QuietInv ==
    /\ slot["disk"] # NoTask => IsDiskTask(slot["disk"])
    /\ DiskRuns => IsDiskTask(running)
    /\ flashFuncs = "rom" /\ ~disable["disk"]

Sent(c) == c.block_no \in uf2.valid_blocks

\* But for the block under way, what was sent is in flash, and where a block
\* will go later the sector is erased, or is to be erased by that block.
OthersWritten(b, erases) ==
    \A c \in ImageBlocks :
        /\ Sent(c) => page_no(c) \in uf2.cleared_pages
        /\ Sent(c) /\ c # b => /\ flash[c.target_addr] = c.data
                               /\ ~(erases /\ page_no(c) = page_no(b))
        /\ /\ ~Sent(c) /\ page_no(c) \in uf2.cleared_pages
           /\ ~(erases /\ page_no(c) = page_no(b))
           => flash[c.target_addr] = "erased"

\* All of it is, between two blocks.
AllWritten ==
    \A c \in ImageBlocks :
        /\ Sent(c) => page_no(c) \in uf2.cleared_pages /\ flash[c.target_addr] = c.data
        /\ ~Sent(c) /\ page_no(c) \in uf2.cleared_pages => flash[c.target_addr] = "erased"

AtRest ==
    /\ msc # "pending" /\ slot["disk"] = NoTask /\ ~DiskRuns
    /\ ~aborted
    /\ AllWritten

\* The task of a block that has not begun: an abort is taken back before it
\* writes, and if it has no sector to erase its page is erased.
Waits(b, exits, erases) ==
    /\ aborted => exits
    /\ ~erases => flash[b.target_addr] = "erased"
    /\ OthersWritten(b, erases)

\* The first task of an image, which the task of an abandoned one may precede.
First(b) == uf2.valid_blocks = {b.block_no} /\ uf2.cleared_pages = {page_no(b)}

InSlot(b, exits, erases) ==
    /\ slot["disk"] = DiskTask(b, uf2.token, exits, erases)
    /\ IF DiskRuns THEN running.token # uf2.token /\ First(b) /\ exits /\ erases
       ELSE Waits(b, exits, erases)

InHand(b, exits, erases) ==
    /\ slot["disk"] = NoTask /\ DiskRuns
    /\ running = DiskTask(b, uf2.token, exits, erases)
    /\ \/ pc \in {"begin", "prepare"} /\ Waits(b, exits, erases)
       \/ /\ pc = "mutate" /\ ~aborted
          /\ todo \in {{}, {sectorOf[b.target_addr]}}
          /\ todo = {} => flash[b.target_addr] = "erased"
          /\ OthersWritten(b, todo # {})
       \/ /\ pc \in {"program", "complete"} /\ ~aborted
          /\ pc = "complete" => result = "OK"
          /\ flash[b.target_addr] = b.data
          /\ OthersWritten(b, FALSE)

UnderWay ==
    /\ msc = "pending" /\ uf2.token = mscToken
    /\ \E b \in ImageBlocks, exits, erases \in BOOLEAN :
          /\ Sent(b) /\ page_no(b) \in uf2.cleared_pages
          /\ buffer["disk"] = b.data
          /\ InSlot(b, exits, erases) \/ InHand(b, exits, erases)

\* As long as a flash image is being downloaded.
ImageInv == ~rebooting /\ uf2.num_blocks # 0 /\ ~uf2.ram => AtRest \/ UnderWay

-----------------------------------------------------------------------------
\* The task of a block, field by field.
LEMMA DiskTaskFields ==
    ASSUME NEW b, NEW token, NEW exits \in BOOLEAN, NEW erases \in BOOLEAN,
           NEW t, t = DiskTask(b, token, exits, erases)
    PROVE  /\ "WRITE" \in t.type /\ t.type \subseteq {"WRITE", "EXIT_XIP", "FLASH_ERASE"}
           /\ "EXIT_XIP" \in t.type <=> exits
           /\ "FLASH_ERASE" \in t.type <=> erases
           /\ t.transfer_addr = b.target_addr /\ t.token = token
           /\ t.erase = IF erases THEN {sectorOf[b.target_addr]} ELSE {}
           /\ t.erase_check = "OK" /\ t.check_last_mutation_source = FALSE
BY DEF DiskTask

\* A block of a flash image is for a page.
LEMMA ImageBlock ==
    ASSUME NEW b \in ImageBlocks, ~uf2.ram
    PROVE  /\ b \in Block /\ Proper(b) /\ b.num_blocks = uf2.num_blocks
           /\ b.target_addr \in Page /\ ~IsRam(b)
BY DEF ImageBlocks, Proper, Garbage, IsRam, IsFlash, RamAddress

\* A task that runs is one of its queue.
LEMMA RunsTask ==
    ASSUME AsyncTypeOK, running # NoTask
    PROVE  running \in TasksOf[source] /\ running \in Task
           /\ pc \in {"begin", "prepare", "mutate", "program", "complete"}
BY TasksAssumption DEF AsyncTypeOK, Pc

LEMMA QuietStep ==
    ASSUME AsyncTypeOK, Uf2TypeOK, QuietHost, QuietInv, [Uf2Next]_uf2AllVars
    PROVE  QuietInv'
<1>a. mscToken \in Nat /\ uf2 \in UF2Info
  BY Uf2Assumption DEF Uf2TypeOK
<1>b. /\ slot["disk"] # NoTask => slot["disk"].token \in Nat
      /\ DiskRuns => running.token \in Nat
  BY TasksAssumption DEF AsyncTypeOK, DiskRuns, Task, Queue
<1>c. mscToken' \in Nat /\ mscToken <= mscToken'
  <2>1. mscToken' \in {mscToken, mscToken + 1, mscToken + 2}
    <3>1. CASE Host
      BY <3>1 DEF Host, HostStartsWrite, HostReadsSector, HostSendsPart,
         HostSendsBlock, HostSendsOther, HostResetsMsc, HostResetsPicoboot,
         HostConfigures, HostUnconfigures, HostUsesPicoboot, uf2Vars
    <3>2. CASE Uf2Work \/ UNCHANGED uf2AllVars
      BY <3>2 DEF Uf2Work, DiskComplete, PicobootComplete, uf2Vars, uf2AllVars
    <3>. QED
      BY <3>1, <3>2 DEF Uf2Next
  <2>. QED
    BY <1>a, <2>1
<1>d. \A t : IsDiskTask(t) /\ t.token \in Nat => IsDiskTask(t)'
  BY <1>a, <1>c DEF IsDiskTask
<1>e. slot \in [Queue -> Task \cup {NoTask}] /\ "disk" \in Queue /\ "picoboot" \in Queue
  BY DEF AsyncTypeOK, Queue
<1>1. ASSUME UNCHANGED <<running, source, flashFuncs>>, slot'["disk"] \in {slot["disk"], NoTask},
             ~disable'["disk"]
      PROVE  QuietInv'
  BY <1>1, <1>b, <1>d DEF QuietInv, DiskRuns
<1>2. CASE HostSendsBlock
  <2>1. /\ UNCHANGED <<running, source, flashFuncs, disable>> /\ mscToken' = mscToken + 1
    BY <1>2 DEF HostSendsBlock, workerVars, flashVars
  <2>2. PICK b \in Block : \/ WriteBlock(b, mscToken')
                           \/ slot' = slot
    BY <1>2 DEF HostSendsBlock, IgnoreBlock, RejectBlock
  <2>3. CASE slot' = slot
    BY <1>1, <2>1, <2>3 DEF QuietInv
  <2>4. CASE WriteBlock(b, mscToken')
    <3>1. slot'["disk"] = DiskTask(b, mscToken', ExitsXip(b), Erases(b))
      BY <1>e, <2>4 DEF WriteBlock, queue_task
    <3>2. ExitsXip(b) \in BOOLEAN /\ Erases(b) \in BOOLEAN
      BY DEF ExitsXip, Opens, Erases
    <3>3. IsDiskTask(slot["disk"])'
      <4>1. PICK token \in Nat, exits \in BOOLEAN, erases \in BOOLEAN :
                token = mscToken' /\ slot'["disk"] = DiskTask(b, token, exits, erases)
        BY <1>c, <3>1, <3>2
      <4>2. /\ slot'["disk"].type \subseteq {"WRITE", "EXIT_XIP", "FLASH_ERASE"}
            /\ slot'["disk"].token = token
        BY <4>1 DEF DiskTask
      <4>. QED
        BY <4>1, <4>2 DEF IsDiskTask
    <3>. QED
      BY <1>b, <1>d, <2>1, <3>3 DEF QuietInv, DiskRuns
  <2>. QED
    BY <2>2, <2>3, <2>4
<1>3. CASE HostStartsWrite \/ HostReadsSector \/ HostSendsPart \/ HostSendsOther
           \/ HostResetsMsc \/ HostUnconfigures \/ UNCHANGED uf2AllVars
  BY <1>1, <1>3 DEF HostStartsWrite, HostReadsSector, HostSendsPart, HostSendsOther,
     HostResetsMsc, HostUnconfigures, workerVars, flashVars, sharedVars, asyncVars,
     uf2AllVars, QuietInv
<1>4. CASE HostResetsPicoboot \/ HostConfigures
  <2>1. slot'["disk"] = NoTask /\ ~disable'["disk"]
    BY <1>4, <1>e DEF HostResetsPicoboot, HostConfigures, reset_queues
  <2>. QED
    BY <1>1, <1>4, <2>1 DEF HostResetsPicoboot, HostConfigures, workerVars, flashVars
<1>5. CASE HostUsesPicoboot
  <2>1. slot'["disk"] = slot["disk"]
    BY <1>5, <1>e DEF HostUsesPicoboot, HandlerQueuesTask, queue_task
  <2>. QED
    BY <1>1, <1>5, <2>1 DEF HostUsesPicoboot, HandlerQueuesTask, workerVars, flashVars,
                            QuietInv
<1>6. CASE PollDisk \/ PollPicoboot
  <2>1. CASE full("disk") /\ dequeue_task("disk")
    <3>1. /\ running' = slot["disk"] /\ slot'["disk"] = NoTask /\ source' = "disk"
          /\ UNCHANGED <<flashFuncs, disable>>
      BY <1>e, <2>1 DEF dequeue_task, flashVars, sharedVars
    <3>. QED
      BY <1>b, <1>d, <2>1, <3>1 DEF QuietInv, DiskRuns, full
  <2>2. CASE dequeue_task("picoboot")
    <3>1. /\ slot'["disk"] = slot["disk"] /\ source' = "picoboot"
          /\ UNCHANGED <<flashFuncs, disable>>
      BY <1>e, <2>2 DEF dequeue_task, flashVars, sharedVars
    <3>. QED
      BY <1>b, <1>d, <3>1 DEF QuietInv, DiskRuns
  <2>3. CASE UNCHANGED <<slot, running, source, flashFuncs, disable>>
    BY <1>1, <2>3 DEF QuietInv
  <2>. QED
    BY <1>6, <2>1, <2>2, <2>3 DEF PollDisk, PollPicoboot, flashVars, sharedVars
<1>7. CASE DiskComplete \/ PicobootComplete
  <2>1. running' = NoTask /\ UNCHANGED <<slot, flashFuncs, disable>>
    BY <1>7 DEF DiskComplete, PicobootComplete, TaskDone, flashVars, sharedVars
  <2>. QED
    BY <1>b, <1>d, <2>1 DEF QuietInv, DiskRuns
<1>8. CASE Prepare
  <2>0. pc = "prepare" /\ running # NoTask
    BY <1>8 DEF Prepare, AsyncTypeOK
  <2>1. "EXCLUSIVE" \notin running.type /\ "VECTORIZE_FLASH" \notin running.type
    <3>1. CASE source = "disk"
      BY <2>0, <3>1 DEF QuietInv, DiskRuns, IsDiskTask
    <3>2. CASE source = "picoboot"
      <4>1. running \in TasksOf["picoboot"]
        BY <2>0, <3>2, RunsTask
      <4>. QED
        BY <4>1 DEF QuietHost, QuietPicoboot
    <3>. QED
      BY <3>1, <3>2 DEF AsyncTypeOK, Queue
  <2>2. /\ flashFuncs' = flashFuncs /\ disable' = disable
        /\ UNCHANGED <<slot, running, source>>
    BY <1>8, <2>1 DEF Prepare, Does, Finish
  <2>. QED
    BY <1>1, <2>2 DEF QuietInv
<1>9. CASE AccessMemory
  <2>1. flashFuncs' = "rom" /\ UNCHANGED <<slot, running, source, disable>>
    BY <1>9 DEF AccessMemory, Finish, QuietInv
  <2>. QED
    BY <1>1, <2>1 DEF QuietInv
<1>10. CASE Wake \/ Refuse \/ Accept \/ RefuseVectors \/ EraseSector \/ SkipAccess
            \/ ReadFlash \/ StartProgram \/ EndProgram
  <2>1. UNCHANGED <<slot, running, source, flashFuncs, disable>>
    BY <1>10 DEF Wake, Refuse, Accept, RefuseVectors, EraseSector, SkipAccess,
       ReadFlash, StartProgram, EndProgram, Finish, flashVars, sharedVars
  <2>. QED
    BY <1>1, <2>1 DEF QuietInv
<1>. QED
  BY <1>2, <1>3, <1>4, <1>5, <1>6, <1>7, <1>8, <1>9, <1>10
  DEF Uf2Next, Host, Uf2Work, Work

\* What is said of the image's pages depends on the flash and the bookkeeping.
LEMMA SamePages ==
    ASSUME UNCHANGED <<uf2, flash>>
    PROVE  /\ ImageBlocks' = ImageBlocks
           /\ AllWritten' <=> AllWritten
           /\ \A b, erases : OthersWritten(b, erases)' <=> OthersWritten(b, erases)
           /\ \A b : Sent(b)' <=> Sent(b)
           /\ \A b : First(b)' <=> First(b)
<1>1. ImageBlocks' = ImageBlocks
  BY DEF ImageBlocks
<1>2. \A b : Sent(b)' <=> Sent(b)
  BY DEF Sent
<1>3. AllWritten' <=> AllWritten
  BY <1>1, <1>2 DEF AllWritten
<1>4. \A b, erases : OthersWritten(b, erases)' <=> OthersWritten(b, erases)
  BY <1>1, <1>2 DEF OthersWritten
<1>. QED
  BY <1>1, <1>2, <1>3, <1>4 DEF First

\* A step that leaves the virtual disk and its task alone.
LEMMA SameImage ==
    ASSUME ImageInv, UNCHANGED <<uf2, flash>>, UNCHANGED <<msc, mscToken, rebooting>>,
           buffer'["disk"] = buffer["disk"], slot'["disk"] = slot["disk"],
           aborted' => aborted, DiskRuns' <=> DiskRuns,
           DiskRuns => UNCHANGED <<running, pc, todo, result>>
    PROVE  ImageInv'
<1> SUFFICES ASSUME ~rebooting, uf2.num_blocks # 0, ~uf2.ram
             PROVE  AtRest' \/ UnderWay'
  BY DEF ImageInv
<1>1. CASE AtRest
  BY <1>1, SamePages DEF AtRest
<1>2. CASE UnderWay
  <2>1. PICK b \in ImageBlocks, exits \in BOOLEAN, erases \in BOOLEAN :
          /\ Sent(b) /\ page_no(b) \in uf2.cleared_pages
          /\ buffer["disk"] = b.data
          /\ InSlot(b, exits, erases) \/ InHand(b, exits, erases)
    BY <1>2 DEF UnderWay
  <2>2. Waits(b, exits, erases) => Waits(b, exits, erases)'
    BY SamePages DEF Waits
  <2>3. InSlot(b, exits, erases) => InSlot(b, exits, erases)'
    BY <2>2, SamePages DEF InSlot
  <2>4. ASSUME InHand(b, exits, erases) PROVE InHand(b, exits, erases)'
    <3>1. UNCHANGED <<running, pc, todo, result>> /\ DiskRuns /\ DiskRuns'
      BY <2>4 DEF InHand
    <3>2. \A e : OthersWritten(b, e)' <=> OthersWritten(b, e)
      BY SamePages
    <3>3. /\ slot'["disk"] = NoTask
          /\ running' = DiskTask(b, uf2'.token, exits, erases)
      BY <2>4, <3>1 DEF InHand
    <3>4. CASE pc \in {"begin", "prepare"} /\ Waits(b, exits, erases)
      BY <2>2, <3>1, <3>3, <3>4 DEF InHand
    <3>5. CASE /\ pc = "mutate" /\ ~aborted
               /\ todo \in {{}, {sectorOf[b.target_addr]}}
               /\ todo = {} => flash[b.target_addr] = "erased"
               /\ OthersWritten(b, todo # {})
      <4>1. OthersWritten(b, todo # {})'
        BY <3>1, <3>2, <3>5
      <4>. QED
        BY <3>1, <3>3, <3>5, <4>1 DEF InHand
    <3>6. CASE /\ pc \in {"program", "complete"} /\ ~aborted
               /\ pc = "complete" => result = "OK"
               /\ flash[b.target_addr] = b.data
               /\ OthersWritten(b, FALSE)
      BY <3>1, <3>2, <3>3, <3>6 DEF InHand
    <3>. QED
      BY <2>4, <3>4, <3>5, <3>6 DEF InHand
  <2>5. b \in ImageBlocks' /\ Sent(b)'
    BY <2>1, SamePages
  <2>. QED
    BY <1>2, <2>1, <2>3, <2>4, <2>5 DEF UnderWay
<1>. QED
  BY <1>1, <1>2 DEF ImageInv

\* And one between two blocks.
LEMMA StaysAtRest ==
    ASSUME AtRest, UNCHANGED <<uf2, flash>>, msc' # "pending", slot'["disk"] = NoTask,
           ~DiskRuns', ~aborted'
    PROVE  AtRest'
  BY SamePages DEF AtRest

-----------------------------------------------------------------------------
\* A worker without a task.
LEMMA IdleWork ==
    ASSUME AsyncTypeOK, Work, running = NoTask
    PROVE  /\ UNCHANGED <<flash, rebooting, aborted, buffer>>
           /\ \/ UNCHANGED <<slot, running, source>>
              \/ /\ slot["disk"] # NoTask /\ slot'["disk"] = NoTask
                 /\ running' = slot["disk"] /\ source' = "disk" /\ pc' = "begin"
              \/ /\ slot'["disk"] = slot["disk"] /\ source' = "picoboot"
<1>1. pc \in {"poll_disk", "poll_picoboot", "wfe"}
  BY DEF AsyncTypeOK
<1>2. PollDisk \/ PollPicoboot \/ Wake
  BY <1>1 DEF Work, Refuse, Accept, RefuseVectors, Prepare, EraseSector, SkipAccess,
     AccessMemory, ReadFlash, StartProgram, EndProgram
<1>3. slot \in [Queue -> Task \cup {NoTask}] /\ "disk" \in Queue /\ "picoboot" \in Queue
  BY DEF AsyncTypeOK, Queue
<1>4. CASE full("disk") /\ dequeue_task("disk")
  BY <1>3, <1>4 DEF full, dequeue_task, flashVars, sharedVars
<1>5. CASE full("picoboot") /\ dequeue_task("picoboot")
  BY <1>3, <1>5 DEF full, dequeue_task, flashVars, sharedVars
<1>6. CASE UNCHANGED <<slot, source, running, flashVars, sharedVars>>
  BY <1>6 DEF flashVars, sharedVars
<1>. QED
  BY <1>2, <1>4, <1>5, <1>6 DEF PollDisk, PollPicoboot, Wake

\* One with a task: only the flash, what it knows of it and a buffer it reads
\* into may change.
LEMMA BusyWork ==
    ASSUME AsyncTypeOK, Work, running # NoTask
    PROVE  /\ UNCHANGED <<slot, running, source, rebooting>>
           /\ aborted' => aborted
           /\ buffer' # buffer => Does("READ")
           /\ \A q \in Queue \ {source} : buffer'[q] = buffer[q]
           /\ flash' # flash => EraseSector \/ StartProgram \/ EndProgram
<1>1. pc \notin {"poll_disk", "poll_picoboot", "wfe"}
  BY DEF AsyncTypeOK
<1>2. buffer \in [Queue -> Content] /\ aborted \in BOOLEAN
  BY DEF AsyncTypeOK
<1>3. CASE Prepare
  <2>1. UNCHANGED <<slot, running, source, rebooting, buffer, flash>>
    BY <1>3 DEF Prepare, Finish
  <2>2. aborted' => aborted
    BY <1>3 DEF Prepare
  <2>. QED
    BY <2>1, <2>2
<1>4. CASE AccessMemory \/ ReadFlash
  <2>1. UNCHANGED <<slot, running, source, rebooting, aborted, flash>>
    BY <1>4 DEF AccessMemory, ReadFlash, Finish, flashVars
  <2>2. buffer' = buffer \/ (Does("READ") /\ \E d : buffer' = [buffer EXCEPT ![source] = d])
    BY <1>4 DEF AccessMemory, ReadFlash
  <2>. QED
    BY <1>2, <2>1, <2>2
<1>5. CASE EraseSector \/ StartProgram \/ EndProgram
  BY <1>5 DEF EraseSector, StartProgram, EndProgram, Finish, sharedVars
<1>6. CASE Refuse \/ Accept \/ RefuseVectors \/ SkipAccess
  BY <1>6 DEF Refuse, Accept, RefuseVectors, SkipAccess, Finish, flashVars, sharedVars
<1>. QED
  BY <1>1, <1>3, <1>4, <1>5, <1>6 DEF Work, PollDisk, PollPicoboot, Wake

\* A task of PICOBOOT's leaves the flash as it is.
LEMMA PicobootWork ==
    ASSUME AsyncTypeOK, CheckedInv, QuietHost, Work, running # NoTask, source # "disk"
    PROVE  flash' = flash /\ buffer'["disk"] = buffer["disk"]
<1>1. source = "picoboot" /\ running \in TasksOf["picoboot"]
  BY RunsTask DEF AsyncTypeOK, Queue
<1>2. /\ "FLASH_ERASE" \notin running.type
      /\ "WRITE" \in running.type => running.transfer_addr \notin Page
  BY <1>1 DEF QuietHost, QuietPicoboot
<1>3. ~EraseSector /\ ~StartProgram /\ ~EndProgram
  BY <1>2 DEF CheckedInv, Does, EraseSector, StartProgram, EndProgram, AccessesFlash
<1>. QED
  BY <1>1, <1>3, BusyWork DEF Queue

\* And one of the virtual disk's its buffer.
LEMMA DiskWork ==
    ASSUME AsyncTypeOK, QuietInv, Work, DiskRuns
    PROVE  buffer' = buffer
  BY BusyWork DEF QuietInv, DiskRuns, IsDiskTask, Does

\* The task of a block leaves XIP if it is the first of its image, erases its
\* sector if it is the first in it, and programs its page.
LEMMA BlockWork ==
    ASSUME AsyncTypeOK, QuietHost, QuietInv, ~rebooting, Work, uf2' = uf2, ~uf2.ram,
           NEW b \in ImageBlocks, Sent(b), page_no(b) \in uf2.cleared_pages,
           buffer["disk"] = b.data,
           NEW exits \in BOOLEAN, NEW erases \in BOOLEAN, InHand(b, exits, erases)
    PROVE  InHand(b, exits, erases)'
<1> DEFINE p == b.target_addr
<1>a. /\ b \in Block /\ Proper(b) /\ b.num_blocks = uf2.num_blocks
      /\ p \in Page /\ p \notin RamAddress /\ p # "rom"
  BY ImageBlock, TasksAssumption DEF OtherAddress
<1>b. /\ DiskRuns /\ source = "disk" /\ running # NoTask
      /\ running = DiskTask(b, uf2.token, exits, erases)
      /\ slot["disk"] = NoTask /\ flashFuncs = "rom" /\ ~disable["disk"]
  BY DEF InHand, DiskRuns, QuietInv
<1>c. /\ Does("WRITE") /\ ~Does("READ") /\ ~Does("VECTORIZE_FLASH") /\ ~Does("EXCLUSIVE")
      /\ Does("EXIT_XIP") <=> exits
      /\ Does("FLASH_ERASE") <=> erases
      /\ running.transfer_addr = p
      /\ running.erase = IF erases THEN {sectorOf[p]} ELSE {}
      /\ running.erase_check = "OK" /\ running.check_last_mutation_source = FALSE
  BY <1>b DEF DiskTask, Does
<1>d. \A c \in ImageBlocks :
         /\ c.target_addr \in Page
         /\ c.target_addr = p => c = b
         /\ page_no(c) = page_no(b) <=> sectorOf[c.target_addr] = sectorOf[p]
  <2>1. ASSUME NEW c \in ImageBlocks
        PROVE  /\ c.target_addr \in Page
               /\ c.target_addr = p => c = b
               /\ page_no(c) = page_no(b) <=> sectorOf[c.target_addr] = sectorOf[p]
    <3>1. c \in Block /\ Proper(c) /\ c.num_blocks = uf2.num_blocks /\ c.target_addr \in Page
      BY ImageBlock
    <3>. QED
      BY <1>a, <3>1 DEF QuietHost, BlocksInOrder
  <2>. QED
    BY <2>1
<1>e. flash \in [Page -> Content]
  BY DEF AsyncTypeOK
<1>f. /\ UNCHANGED <<slot, running, source>> /\ DiskRuns'
      /\ running' = DiskTask(b, uf2'.token, exits, erases)
  BY <1>b, BusyWork DEF DiskRuns
<1>g. ImageBlocks' = ImageBlocks /\ \A c : Sent(c)' <=> Sent(c)
  BY DEF ImageBlocks, Sent
<1> HIDE DEF p
<1>1. CASE pc \in {"begin", "prepare"} /\ Waits(b, exits, erases)
  <2>1. CASE Accept
    <3>1. pc' = "prepare" /\ UNCHANGED <<flash, aborted>>
      BY <2>1 DEF Accept, flashVars, sharedVars
    <3>2. Waits(b, exits, erases)'
      BY <1>1, <3>1, SamePages DEF Waits
    <3>. QED
      BY <1>b, <1>f, <3>1, <3>2 DEF InHand
  <2>2. CASE Prepare
    <3>1. ~Interleaved
      BY <1>c DEF Interleaved
    <3>2. flashFuncs' = "rom"
      BY <1>b, <1>c, <2>2 DEF Prepare
    <3>3. PrepareResult("OK") = "OK"
      BY <1>c, <3>1 DEF PrepareResult
    <3>4. /\ aborted' = (aborted /\ ~Does("EXIT_XIP"))
          /\ pc' = "mutate"
          /\ todo' = IF Does("FLASH_ERASE") THEN running.erase ELSE {}
          /\ flash' = flash
      BY <2>2, <3>2, <3>3 DEF Prepare, FlashResults
    <3>5. ~aborted'
      BY <1>1, <1>c, <3>4 DEF Waits
    <3>6. /\ todo' = IF erases THEN {sectorOf[p]} ELSE {}
          /\ todo' # {} <=> erases
      BY <1>c, <3>4
    <3>7. /\ todo' = {} => flash'[p] = "erased"
          /\ OthersWritten(b, todo # {})'
      <4>1. OthersWritten(b, erases)'
        BY <1>1, <3>4, SamePages DEF Waits
      <4>2. CASE erases
        BY <4>1, <4>2, <3>6, <1>g DEF OthersWritten
      <4>3. CASE ~erases
        <5>1. flash'[p] = "erased"
          BY <1>1, <3>4, <4>3 DEF Waits, p
        <5>. QED
          BY <4>1, <4>3, <5>1, <3>6, <1>g DEF OthersWritten
      <4>. QED
        BY <4>2, <4>3
    <3>. QED
      BY <1>b, <1>f, <3>4, <3>5, <3>6, <3>7 DEF InHand, p
  <2>3. CASE Refuse \/ RefuseVectors
    BY <1>b, <1>c, <2>3 DEF Refuse, RefuseVectors
  <2>. QED
    BY <1>1, <2>1, <2>2, <2>3 DEF Work, PollDisk, PollPicoboot, Wake, EraseSector,
       SkipAccess, AccessMemory, ReadFlash, StartProgram, EndProgram
<1>2. CASE /\ pc = "mutate" /\ ~aborted
           /\ todo \in {{}, {sectorOf[b.target_addr]}}
           /\ todo = {} => flash[b.target_addr] = "erased"
           /\ OthersWritten(b, todo # {})
  <2>1. CASE EraseSector
    <3>1. todo = {sectorOf[p]}
      BY <1>2, <2>1 DEF EraseSector, p
    <3>2. /\ flash' = WithSector(sectorOf[p], "erased") /\ todo' = {} /\ pc' = "mutate"
          /\ aborted' = aborted
      BY <1>2, <1>b, <2>1, <3>1 DEF EraseSector, FlashResults, sharedVars
    <3>3. \A c \in ImageBlocks :
             flash'[c.target_addr] = IF page_no(c) = page_no(b) THEN "erased"
                                                               ELSE flash[c.target_addr]
      BY <1>d, <3>2 DEF WithSector
    <3>4. flash'[p] = "erased"
      BY <3>3 DEF p
    <3>5. OthersWritten(b, FALSE)'
      <4>1. ASSUME NEW c \in ImageBlocks
            PROVE  /\ Sent(c) => page_no(c) \in uf2.cleared_pages
                   /\ Sent(c) /\ c # b => flash'[c.target_addr] = c.data
                   /\ ~Sent(c) /\ page_no(c) \in uf2.cleared_pages
                         => flash'[c.target_addr] = "erased"
        BY <1>2, <3>1, <3>3 DEF OthersWritten
      <4>. QED
        BY <1>g, <4>1 DEF OthersWritten
    <3>6. OthersWritten(b, todo # {})'
      BY <1>g, <3>2, <3>5 DEF OthersWritten
    <3>. QED
      BY <1>2, <1>b, <1>f, <3>2, <3>4, <3>6 DEF InHand, p
  <2>2. CASE StartProgram
    <3>1. todo = {} /\ flash[p] = "erased"
      BY <1>2, <2>2 DEF StartProgram, p
    <3>2. /\ flash' = WithPage(p, Programmed(flash[p], b.data)) /\ pc' = "program"
          /\ aborted' = aborted
      BY <1>2, <1>b, <1>c, <2>2 DEF StartProgram, FlashResults, sharedVars
    <3>3. flash' = [flash EXCEPT ![p] = b.data]
      BY <3>1, <3>2 DEF WithPage, Programmed
    <3>4. flash'[p] = b.data
      BY <1>a, <1>e, <3>3
    <3>5. \A c \in ImageBlocks : c # b => flash'[c.target_addr] = flash[c.target_addr]
      BY <1>d, <1>e, <3>3
    <3>6. OthersWritten(b, FALSE)'
      BY <1>2, <1>g, <3>1, <3>5 DEF OthersWritten
    <3>. QED
      BY <1>2, <1>b, <1>f, <3>2, <3>4, <3>6 DEF InHand, p
  <2>3. ~SkipAccess /\ ~AccessMemory /\ ~ReadFlash
    BY <1>a, <1>c DEF SkipAccess, AccessMemory, ReadFlash, DirectAccess, ReadsOrWrites,
                      AccessCheck
  <2>. QED
    BY <1>2, <2>1, <2>2, <2>3 DEF Work, PollDisk, PollPicoboot, Wake, Refuse, Accept,
       RefuseVectors, Prepare, EndProgram
<1>3. CASE /\ pc \in {"program", "complete"} /\ ~aborted
           /\ pc = "complete" => result = "OK"
           /\ flash[b.target_addr] = b.data
           /\ OthersWritten(b, FALSE)
  <2>1. EndProgram
    BY <1>3 DEF Work, PollDisk, PollPicoboot, Wake, Refuse, Accept, RefuseVectors,
       Prepare, EraseSector, SkipAccess, AccessMemory, ReadFlash, StartProgram
  <2>2. flash' = flash /\ pc' = "complete" /\ result' = "OK" /\ aborted' = aborted
    BY <1>3, <1>b, <1>c, <2>1 DEF EndProgram, Finish, sharedVars, p
  <2>3. OthersWritten(b, FALSE)'
    BY <1>3, <2>2, SamePages
  <2>. QED
    BY <1>3, <1>b, <1>f, <2>2, <2>3 DEF InHand
<1>. QED
  BY <1>1, <1>2, <1>3 DEF InHand

\* A step of the worker, whatever it has in hand.
LEMMA ImageWork ==
    ASSUME AsyncTypeOK, Uf2TypeOK, CheckedInv, QuietHost, QuietInv, ImageInv,
           Work, UNCHANGED uf2Vars
    PROVE  ImageInv'
<1>a. uf2' = uf2 /\ msc' = msc /\ mscToken' = mscToken
  BY DEF uf2Vars
<1>1. CASE running # NoTask /\ source # "disk"
  <2>1. /\ UNCHANGED <<slot, running, source, rebooting, flash>>
        /\ aborted' => aborted
        /\ buffer'["disk"] = buffer["disk"]
    BY <1>1, BusyWork, PicobootWork
  <2>2. ~DiskRuns /\ ~DiskRuns'
    BY <1>1, <2>1 DEF DiskRuns
  <2>. QED
    BY <1>a, <2>1, <2>2, SameImage
<1>2. CASE running = NoTask
  <2>1. /\ UNCHANGED <<flash, rebooting, aborted, buffer>>
        /\ \/ UNCHANGED <<slot, running, source>>
           \/ /\ slot["disk"] # NoTask /\ slot'["disk"] = NoTask
              /\ running' = slot["disk"] /\ source' = "disk" /\ pc' = "begin"
           \/ /\ slot'["disk"] = slot["disk"] /\ source' = "picoboot"
    BY <1>2, IdleWork
  <2>2. CASE slot'["disk"] = slot["disk"] /\ (source' = "picoboot" \/ running' = NoTask)
    <3>1. ~DiskRuns /\ ~DiskRuns'
      BY <1>2, <2>2 DEF DiskRuns
    <3>. QED
      BY <1>a, <2>1, <2>2, <3>1, SameImage
  <2>3. CASE /\ slot["disk"] # NoTask /\ slot'["disk"] = NoTask
             /\ running' = slot["disk"] /\ source' = "disk" /\ pc' = "begin"
    <3> SUFFICES ASSUME ~rebooting, uf2.num_blocks # 0, ~uf2.ram
                 PROVE  UnderWay'
      BY <1>a, <2>1 DEF ImageInv
    <3>1. UnderWay
      BY <2>3 DEF ImageInv, AtRest
    <3>2. PICK b \in ImageBlocks, exits \in BOOLEAN, erases \in BOOLEAN :
            /\ Sent(b) /\ page_no(b) \in uf2.cleared_pages
            /\ buffer["disk"] = b.data
            /\ InSlot(b, exits, erases) \/ InHand(b, exits, erases)
      BY <3>1 DEF UnderWay
    <3>3. /\ slot["disk"] = DiskTask(b, uf2.token, exits, erases)
          /\ Waits(b, exits, erases)
      BY <1>2, <2>3, <3>2 DEF InSlot, InHand, DiskRuns
    <3>4. Waits(b, exits, erases)'
      BY <1>a, <2>1, <3>3, SamePages DEF Waits
    <3>5. DiskRuns'
      BY <2>3 DEF DiskRuns
    <3>6. InHand(b, exits, erases)'
      BY <1>a, <2>3, <3>3, <3>4, <3>5 DEF InHand
    <3>7. b \in ImageBlocks' /\ Sent(b)'
      BY <1>a, <2>1, <3>2, SamePages
    <3>. QED
      BY <1>a, <2>1, <3>1, <3>2, <3>6, <3>7 DEF UnderWay
  <2>. QED
    BY <1>2, <2>1, <2>2, <2>3
<1>3. CASE DiskRuns
  <2>1. /\ UNCHANGED <<slot, running, source, rebooting, buffer>>
        /\ aborted' => aborted
        /\ DiskRuns'
    BY <1>3, BusyWork, DiskWork DEF DiskRuns
  <2> SUFFICES ASSUME ~rebooting, uf2.num_blocks # 0, ~uf2.ram
               PROVE  UnderWay'
    BY <1>a, <2>1 DEF ImageInv
  <2>2. UnderWay
    BY <1>3 DEF ImageInv, AtRest
  <2>3. PICK b \in ImageBlocks, exits \in BOOLEAN, erases \in BOOLEAN :
          /\ Sent(b) /\ page_no(b) \in uf2.cleared_pages
          /\ buffer["disk"] = b.data
          /\ InSlot(b, exits, erases) \/ InHand(b, exits, erases)
    BY <2>2 DEF UnderWay
  <2>4. b \in ImageBlocks' /\ Sent(b)' /\ (First(b)' <=> First(b))
    BY <1>a, <2>3 DEF ImageBlocks, Sent, First
  <2>5. CASE InSlot(b, exits, erases)
    <3>1. /\ slot["disk"] = DiskTask(b, uf2.token, exits, erases)
          /\ running.token # uf2.token /\ First(b) /\ exits /\ erases
      BY <1>3, <2>5 DEF InSlot
    <3>2. /\ slot'["disk"] = DiskTask(b, uf2'.token, exits, erases)
          /\ running'.token # uf2'.token /\ First(b)'
      BY <1>a, <2>1, <2>4, <3>1
    <3>3. InSlot(b, exits, erases)'
      BY <2>1, <3>1, <3>2 DEF InSlot
    <3>. QED
      BY <1>a, <2>1, <2>2, <2>3, <2>4, <3>3 DEF UnderWay
  <2>6. CASE InHand(b, exits, erases)
    <3>1. InHand(b, exits, erases)'
      BY <1>a, <2>3, <2>6, BlockWork
    <3>. QED
      BY <1>a, <2>1, <2>2, <2>3, <2>4, <3>1 DEF UnderWay
  <2>. QED
    BY <2>3, <2>5, <2>6
<1>. QED
  BY <1>1, <1>2, <1>3 DEF DiskRuns

\* The first block of an image has nothing to be afraid of: nothing else was sent.
LEMMA FirstWritten ==
    ASSUME OneBlockPerNumber, ~uf2.ram, NEW b \in ImageBlocks, First(b)
    PROVE  OthersWritten(b, TRUE)
<1>1. ASSUME NEW c \in ImageBlocks, Sent(c) PROVE c = b
  <2>1. c.block_no = b.block_no
    BY <1>1 DEF Sent, First
  <2>2. /\ c \in Block /\ Proper(c) /\ c.num_blocks = uf2.num_blocks /\ ~IsRam(c)
        /\ b \in Block /\ Proper(b) /\ b.num_blocks = uf2.num_blocks /\ ~IsRam(b)
    BY <1>1, ImageBlock
  <2>. QED
    BY <2>1, <2>2 DEF OneBlockPerNumber
<1>. QED
  BY <1>1 DEF OthersWritten, First

\* The completion of a task: of the block under way, or of one of an image that
\* was given up, whose token is an older one.
LEMMA ImageDone ==
    ASSUME AsyncTypeOK, Uf2TypeOK, QuietHost, QuietInv, ImageInv,
           DiskComplete \/ PicobootComplete
    PROVE  ImageInv'
<1>a. /\ UNCHANGED <<slot, flash, aborted, buffer, uf2, mscToken>>
      /\ pc = "complete" /\ running' = NoTask /\ running # NoTask /\ ~DiskRuns'
      /\ rebooting => rebooting'
  BY DEF DiskComplete, PicobootComplete, TaskDone, flashVars, sharedVars, uf2Vars,
         AsyncTypeOK, DiskRuns
<1>1. CASE PicobootComplete
  <2>1. ~DiskRuns /\ rebooting' = rebooting /\ msc' = msc
    BY <1>1 DEF PicobootComplete, DiskRuns, sharedVars, uf2Vars
  <2>. QED
    BY <1>a, <2>1, SameImage
<1>2. CASE DiskComplete
  <2> SUFFICES ASSUME ~rebooting, uf2.num_blocks # 0, ~uf2.ram
               PROVE  AtRest' \/ UnderWay'
    BY <1>a DEF ImageInv, AsyncTypeOK
  <2>1. DiskRuns
    BY <1>2, <1>a DEF DiskComplete, DiskRuns
  <2>2. UnderWay
    BY <2>1 DEF ImageInv, AtRest
  <2>3. PICK b \in ImageBlocks, exits \in BOOLEAN, erases \in BOOLEAN :
          /\ Sent(b) /\ page_no(b) \in uf2.cleared_pages
          /\ buffer["disk"] = b.data
          /\ InSlot(b, exits, erases) \/ InHand(b, exits, erases)
    BY <2>2 DEF UnderWay
  <2>4. b \in ImageBlocks' /\ Sent(b)'
    BY <1>a, <2>3, SamePages
  <2>5. CASE InSlot(b, exits, erases)
    <3>1. /\ slot["disk"] = DiskTask(b, uf2.token, exits, erases)
          /\ running.token # uf2.token /\ First(b) /\ exits /\ erases
      BY <2>1, <2>5 DEF InSlot
    <3>2. OthersWritten(b, TRUE)
      BY <3>1, FirstWritten DEF QuietHost
    <3>3. Waits(b, exits, erases)'
      BY <1>a, <3>1, <3>2, SamePages DEF Waits
    <3>4. InSlot(b, exits, erases)'
      BY <1>a, <3>1, <3>3 DEF InSlot
    <3>5. msc' = msc
      BY <1>2, <2>2, <3>1 DEF DiskComplete, UnderWay
    <3>. QED
      BY <1>a, <2>2, <2>3, <2>4, <3>4, <3>5 DEF UnderWay
  <2>6. CASE InHand(b, exits, erases)
    <3>1. /\ slot["disk"] = NoTask /\ running.token = uf2.token
          /\ ~aborted /\ result = "OK" /\ flash[b.target_addr] = b.data
          /\ OthersWritten(b, FALSE)
      BY <1>a, <2>6 DEF InHand, DiskTask
    <3>2. msc' # "pending"
      BY <1>2, <2>2, <3>1 DEF DiskComplete, UnderWay, ChunkDone
    <3>3. AllWritten
      BY <2>3, <3>1 DEF AllWritten, OthersWritten
    <3>. QED
      BY <1>a, <3>1, <3>2, <3>3, SamePages DEF AtRest
  <2>. QED
    BY <2>3, <2>5, <2>6
<1>. QED
  BY <1>1, <1>2

\* vd_write_block counts a block of a flash image and queues its task.
LEMMA ImageGrows ==
    ASSUME AsyncTypeOK, Uf2TypeOK, QuietHost, QuietInv, ImageInv, ~rebooting,
           msc = "ready", mscToken' = mscToken + 1,
           NEW b \in Block, WriteBlock(b, mscToken'), buffer'["disk"] = b.data,
           UNCHANGED <<running, source, flash, aborted>>, ~uf2'.ram
    PROVE  UnderWay'
<1>d. PICK exits \in BOOLEAN, erases \in BOOLEAN : exits = ExitsXip(b) /\ erases = Erases(b)
  BY DEF ExitsXip, Opens, Erases
<1>a. /\ Accepts(b) /\ ~IsDuplicate(b) /\ uf2' = Counted(b, mscToken')
      /\ slot'["disk"] = DiskTask(b, mscToken', exits, erases)
      /\ msc' = "pending"
  BY <1>d DEF WriteBlock, queue_task, AsyncTypeOK, Queue
<1>b. /\ uf2'.num_blocks = b.num_blocks /\ uf2'.token = mscToken'
      /\ uf2'.ram = Opened(b).ram
      /\ uf2'.valid_blocks = Opened(b).valid_blocks \cup {b.block_no}
      /\ uf2'.cleared_pages = IF erases THEN Opened(b).cleared_pages \cup {page_no(b)}
                                        ELSE Opened(b).cleared_pages
  BY <1>a, <1>d DEF Counted
<1>c. /\ ~Opened(b).ram /\ ~IsRam(b) /\ uf2'.ram = IsRam(b) /\ b.target_addr \in Page /\ IsFlash(b)
      /\ Proper(b) /\ b.num_blocks # 0
  BY <1>a, <1>b DEF Accepts, Garbage, IsRam, IsFlash, RamAddress, Proper
<1>e. /\ erases <=> page_no(b) \notin Opened(b).cleared_pages
      /\ page_no(b) \in uf2'.cleared_pages
  BY <1>b, <1>c, <1>d DEF Erases
<1>f. b \in ImageBlocks' /\ Sent(b)'
  BY <1>b, <1>c DEF ImageBlocks, Sent, Proper
<1>g. ASSUME NEW c \in ImageBlocks', c.block_no = b.block_no PROVE c = b
  <2>1. c \in Block /\ Proper(c) /\ c.num_blocks = b.num_blocks /\ ~IsRam(c)
    BY <1>b, <1>c, <1>g DEF ImageBlocks, Proper
  <2>. QED
    BY <1>c, <1>g, <2>1 DEF QuietHost, OneBlockPerNumber
<1>h. DiskRuns' <=> DiskRuns
  BY DEF DiskRuns
<1>1. InSlot(b, exits, erases)'
  <2>1. CASE Opens(b)
    <3>1. exits /\ Opened(b).valid_blocks = {} /\ Opened(b).cleared_pages = {}
      BY <1>c, <1>d, <2>1 DEF ExitsXip, Opened, ClearedInfo
    <3>2. erases /\ First(b)'
      BY <1>b, <1>e, <3>1 DEF First
    <3>3. \A c \in ImageBlocks' : Sent(c)' => c = b
      BY <1>b, <1>g, <3>1 DEF Sent
    <3>4. OthersWritten(b, TRUE)'
      BY <1>e, <3>2, <3>3 DEF OthersWritten, First
    <3>5. Waits(b, exits, erases)'
      BY <3>1, <3>2, <3>4 DEF Waits
    <3>6. DiskRuns => running'.token # uf2'.token
      <4> SUFFICES ASSUME DiskRuns PROVE running'.token # uf2'.token
        OBVIOUS
      <4>1. running.token <= mscToken
        BY DEF QuietInv, IsDiskTask
      <4>2. running.token \in Nat /\ mscToken \in Nat
        BY TasksAssumption, Uf2Assumption DEF AsyncTypeOK, Uf2TypeOK, DiskRuns, Task, Queue
      <4>. QED
        BY <1>b, <4>1, <4>2
    <3>. QED
      BY <1>a, <1>b, <1>h, <3>1, <3>2, <3>5, <3>6 DEF InSlot
  <2>2. CASE ~Opens(b)
    <3>1. uf2.num_blocks = b.num_blocks /\ Opened(b) = uf2
      BY <2>2 DEF Opens, Opened
    <3>2. AtRest
      BY <1>c, <3>1 DEF ImageInv, UnderWay
    <3>3. ImageBlocks' = ImageBlocks
      BY <1>b, <3>1 DEF ImageBlocks
    <3>4. b.block_no \notin uf2.valid_blocks
      BY <1>a, <3>1 DEF IsDuplicate
    <3>5. \A c \in ImageBlocks : Sent(c)' <=> Sent(c) \/ c = b
      BY <1>b, <1>f, <1>g, <3>1, <3>3 DEF Sent
    <3>6. OthersWritten(b, erases)'
      <4>1. ASSUME NEW c \in ImageBlocks
            PROVE  /\ Sent(c)' => page_no(c) \in uf2'.cleared_pages
                   /\ Sent(c)' /\ c # b => /\ flash[c.target_addr] = c.data
                                           /\ ~(erases /\ page_no(c) = page_no(b))
                   /\ /\ ~Sent(c)' /\ page_no(c) \in uf2'.cleared_pages
                      /\ ~(erases /\ page_no(c) = page_no(b))
                      => flash[c.target_addr] = "erased"
        <5>1. /\ Sent(c) => page_no(c) \in uf2.cleared_pages
                            /\ flash[c.target_addr] = c.data
              /\ ~Sent(c) /\ page_no(c) \in uf2.cleared_pages
                    => flash[c.target_addr] = "erased"
          BY <3>2 DEF AtRest, AllWritten
        <5>. QED
          BY <1>b, <1>e, <3>1, <3>5, <5>1
      <4>. QED
        BY <3>3, <4>1 DEF OthersWritten
    <3>7. ~erases => flash[b.target_addr] = "erased"
      BY <1>e, <1>f, <3>1, <3>2, <3>3, <3>4 DEF AtRest, AllWritten, Sent
    <3>8. ~aborted /\ ~DiskRuns
      BY <3>2 DEF AtRest
    <3>9. Waits(b, exits, erases)'
      BY <3>6, <3>7, <3>8 DEF Waits
    <3>. QED
      BY <1>a, <1>b, <1>h, <3>8, <3>9 DEF InSlot
  <2>. QED
    BY <2>1, <2>2
<1>. QED
  BY <1>a, <1>b, <1>d, <1>e, <1>f, <1>1 DEF UnderWay

\* What the host does between two blocks leaves the image as it is, a block that
\* is refused and a reset end the download.
LEMMA ImageHost ==
    ASSUME AsyncTypeOK, Uf2TypeOK, QuietHost, QuietInv, ImageInv, Host
    PROVE  ImageInv'
<1>a. /\ uf2 \in UF2Info /\ slot \in [Queue -> Task \cup {NoTask}]
      /\ "disk" \in Queue /\ "picoboot" \in Queue
  BY DEF AsyncTypeOK, Uf2TypeOK, Queue
<1>b. UNCHANGED <<running, source, pc, todo, result, flash, rebooting>>
  BY DEF Host, HostStartsWrite, HostReadsSector, HostSendsPart, HostSendsBlock,
     HostSendsOther, HostResetsMsc, HostResetsPicoboot, HostConfigures,
     HostUnconfigures, HostUsesPicoboot, HandlerQueuesTask, asyncVars, workerVars,
     flashVars, sharedVars
<1>c. DiskRuns' <=> DiskRuns
  BY <1>b DEF DiskRuns
<1>1. ASSUME msc # "pending", msc' # "pending", uf2' = uf2,
             UNCHANGED <<slot, aborted>>
      PROVE  ImageInv'
  <2>1. UNCHANGED <<uf2, flash>>
    BY <1>1, <1>b
  <2>2. AtRest => AtRest'
    BY <1>1, <1>c, <2>1, StaysAtRest DEF AtRest
  <2>. QED
    BY <1>1, <1>b, <2>2 DEF ImageInv, UnderWay
<1>2. CASE HostStartsWrite \/ HostReadsSector \/ HostSendsPart \/ HostSendsOther
  BY <1>1, <1>2 DEF HostStartsWrite, HostReadsSector, HostSendsPart, HostSendsOther,
     ChunkDone, asyncVars, sharedVars, uf2Vars
<1>3. CASE HostResetsMsc \/ HostConfigures
  <2>1. uf2'.num_blocks = 0
    BY <1>a, <1>3 DEF HostResetsMsc, HostConfigures, MscReset, UF2Info
  <2>. QED
    BY <2>1 DEF ImageInv
<1>4. ~HostResetsPicoboot /\ ~HostUnconfigures
  BY DEF HostResetsPicoboot, HostUnconfigures, CountReset, QuietHost
<1>5. CASE HostUsesPicoboot
  <2>1. slot'["disk"] = slot["disk"] /\ aborted' = aborted
    BY <1>a, <1>5 DEF HostUsesPicoboot, HandlerQueuesTask, queue_task
  <2>2. UNCHANGED <<uf2, msc, mscToken, buffer>>
    BY <1>5 DEF HostUsesPicoboot, uf2Vars
  <2>. QED
    BY <1>b, <1>c, <2>1, <2>2, SameImage
<1>6. CASE HostSendsBlock
  <2>1. PICK b \in Block :
          /\ buffer' = [buffer EXCEPT !["disk"] = b.data]
          /\ WriteBlock(b, mscToken') \/ IgnoreBlock(b, mscToken') \/ RejectBlock(b)
    BY <1>6 DEF HostSendsBlock
  <2>2. msc = "ready" /\ mscToken' = mscToken + 1 /\ aborted' = aborted
    BY <1>6 DEF HostSendsBlock
  <2> SUFFICES ASSUME ~rebooting, uf2'.num_blocks # 0, ~uf2'.ram
               PROVE  AtRest' \/ UnderWay'
    BY <1>b DEF ImageInv
  <2>3. CASE WriteBlock(b, mscToken')
    <3>1. buffer'["disk"] = b.data
      BY <1>a, <2>1 DEF AsyncTypeOK
    <3>. QED
      BY <1>b, <2>2, <2>3, <3>1, ImageGrows
  <2>4. CASE RejectBlock(b)
    <3>1. Opened(b) \in UF2Info
      BY <2>2, InfoType, Uf2Assumption DEF Uf2TypeOK
    <3>2. uf2'.num_blocks = 0
      BY <1>a, <2>4, <3>1 DEF RejectBlock, Rejected, ClearedInfo, UF2Info
    <3>. QED
      BY <3>2
  <2>5. CASE IgnoreBlock(b, mscToken')
    <3>1. ~Opens(b)
      BY <2>5 DEF IgnoreBlock, IsDuplicate, Opened, ClearedInfo
    <3>2. uf2' = [uf2 EXCEPT !.token = mscToken']
      BY <2>5, <3>1 DEF IgnoreBlock, Opened
    <3>3. /\ uf2'.num_blocks = uf2.num_blocks /\ uf2'.ram = uf2.ram
          /\ uf2'.valid_blocks = uf2.valid_blocks
          /\ uf2'.cleared_pages = uf2.cleared_pages
      BY <1>a, <3>2 DEF UF2Info
    <3>4. AtRest
      BY <2>2, <3>3 DEF ImageInv, UnderWay
    <3>5. AllWritten'
      <4>1. ImageBlocks' = ImageBlocks /\ \A c : Sent(c)' <=> Sent(c)
        BY <3>3 DEF ImageBlocks, Sent
      <4>. QED
        BY <1>b, <3>3, <3>4, <4>1 DEF AtRest, AllWritten
    <3>. QED
      BY <1>c, <2>2, <2>5, <3>4, <3>5 DEF IgnoreBlock, ChunkDone, AtRest
  <2>. QED
    BY <2>1, <2>3, <2>4, <2>5
<1>. QED
  BY <1>2, <1>3, <1>4, <1>5, <1>6 DEF Host

\* Only the completion of a block makes the device reboot.
LEMMA OnlyCompletionReboots ==
    ASSUME [Uf2Next]_uf2AllVars, ~rebooting, rebooting'
    PROVE  DiskComplete
  BY DEF Uf2Next, Host, Uf2Work, HostStartsWrite, HostReadsSector,
     HostSendsPart, HostSendsBlock, HostSendsOther, HostResetsMsc,
     HostResetsPicoboot, HostConfigures, HostUnconfigures, HostUsesPicoboot,
     HandlerQueuesTask, PicobootComplete, Work, PollDisk, PollPicoboot, Wake,
     Refuse, Accept, RefuseVectors, Prepare, EraseSector, SkipAccess,
     AccessMemory, ReadFlash, StartProgram, EndProgram, dequeue_task,
     uf2AllVars, asyncVars, sharedVars

\* The worker's reboot finds the image in the flash.
LEMMA RebootFindsImage ==
    ASSUME AsyncTypeOK, Uf2TypeOK, CountInv, QuietHost, ImageInv, DiskComplete,
           ~rebooting, rebooting',
           uf2.valid_blocks = 0..(uf2.num_blocks - 1)
    PROVE  \A b \in ImageBlocks :
              b.target_addr \in Page => flash'[b.target_addr] = b.data
<1> SUFFICES ASSUME NEW b \in ImageBlocks, b.target_addr \in Page
             PROVE  flash'[b.target_addr] = b.data
  OBVIOUS
<1>1. /\ flash' = flash /\ source = "disk" /\ running # NoTask /\ DiskRuns
      /\ pc = "complete" /\ running.token = uf2.token
  BY DEF DiskComplete, TaskDone, ImageComplete, AsyncTypeOK, DiskRuns, flashVars
<1>2. b \in Block /\ b.num_blocks = uf2.num_blocks /\ b.block_no < b.num_blocks
      /\ IsRam(b) = uf2.ram
  BY DEF ImageBlocks
<1>3. b.num_blocks \in Nat /\ b.block_no \in Nat
  BY <1>2, Uf2Assumption DEF UF2Block
<1>4. uf2.num_blocks # 0 /\ Sent(b)
  BY <1>2, <1>3 DEF Sent
<1>5. ~uf2.ram
  BY <1>2, TasksAssumption DEF IsRam, OtherAddress
<1>6. UnderWay
  BY <1>1, <1>4, <1>5 DEF ImageInv, AtRest
<1>7. PICK c \in ImageBlocks, exits \in BOOLEAN, erases \in BOOLEAN :
        InSlot(c, exits, erases) \/ InHand(c, exits, erases)
  BY <1>6 DEF UnderWay
<1>8. flash[c.target_addr] = c.data /\ OthersWritten(c, FALSE)
  BY <1>1, <1>7 DEF InSlot, InHand
<1>. QED
  BY <1>1, <1>4, <1>8 DEF OthersWritten

\* A host that sends proper images and leaves the flash to the virtual disk: all
\* of the image is in the flash when the device leaves for it.
THEOREM RebootWrittenCorrect == QuietHost => (Uf2Safety => RebootOnlyWhenWritten)
<1> SUFFICES ASSUME QuietHost PROVE Uf2Safety => RebootOnlyWhenWritten
  OBVIOUS
<1>1. Uf2Init => CheckedInv /\ CountInv /\ QuietInv /\ ImageInv
  BY FS_EmptySet DEF Uf2Init, AsyncInit, CheckedInv, CountInv, CountIsValidBlocks,
     ClearedInfo, QuietInv, DiskRuns, ImageInv, Queue
<1>2. ASSUME AsyncTypeOK, Uf2TypeOK, CheckedInv, CountInv, QuietInv, ImageInv,
             [Uf2Next]_uf2AllVars
      PROVE  (CheckedInv /\ CountInv /\ QuietInv /\ ImageInv)'
  <2>1. CheckedInv' /\ CountInv' /\ QuietInv'
    BY <1>2, StepIsAsyncStep, CheckedStep, CountStep, QuietStep
  <2>2. ImageInv'
    <3>1. CASE Host
      BY <1>2, <3>1, ImageHost
    <3>2. CASE Work /\ UNCHANGED uf2Vars
      BY <1>2, <3>2, ImageWork
    <3>3. CASE DiskComplete \/ PicobootComplete
      BY <1>2, <3>3, ImageDone
    <3>4. CASE UNCHANGED uf2AllVars
      BY <1>2, <3>4, SameImage DEF uf2AllVars, uf2Vars, asyncVars, workerVars,
         flashVars, sharedVars, DiskRuns
    <3>. QED
      BY <1>2, <3>1, <3>2, <3>3, <3>4 DEF Uf2Next, Uf2Work
  <2>. QED
    BY <2>1, <2>2
<1>3. ASSUME AsyncTypeOK, Uf2TypeOK, CountInv, ImageInv, [Uf2Next]_uf2AllVars,
             [~rebooting /\ rebooting' =>
                 uf2.valid_blocks = 0..(uf2.num_blocks - 1)]_<<rebooting, uf2>>
      PROVE  [~rebooting /\ rebooting' =>
                \A b \in ImageBlocks :
                   b.target_addr \in Page => flash'[b.target_addr] = b.data
             ]_<<rebooting, uf2, flash>>
  <2> SUFFICES ASSUME ~rebooting, rebooting'
               PROVE  \A b \in ImageBlocks :
                         b.target_addr \in Page => flash'[b.target_addr] = b.data
    OBVIOUS
  <2>1. DiskComplete
    BY <1>3, OnlyCompletionReboots
  <2>2. uf2.valid_blocks = 0..(uf2.num_blocks - 1)
    BY <1>3
  <2>. QED
    BY <1>3, <2>1, <2>2, RebootFindsImage
<1>. QED
  BY <1>1, <1>2, <1>3, Uf2TypeCorrect, RebootCorrect, PTL
  DEF Uf2Safety, RebootOnlyWhenWritten, RebootsAfterAllBlocks

-----------------------------------------------------------------------------
(***************************************************************************)
(* Where a RAM image starts.                                               *)
(***************************************************************************)

SramSent == {b \in ImageBlocks : Sent(b) /\ b.addr >= SramBase}

\* lowest_addr is that of a block sent to SRAM and below none of the others, or
\* it is as it was at the beginning.
LowestInv ==
    uf2.num_blocks # 0 /\ uf2.ram =>
       /\ uf2.lowest_addr >= SramBase
       /\ \A b \in SramSent : uf2.lowest_addr <= b.addr
       /\ uf2.lowest_addr = TopAddr \/ \E b \in SramSent : b.addr = uf2.lowest_addr

\* What LowerAddr makes of an address that is not XIP's.
LEMMA LowerAddrs ==
    ASSUME NEW lowest \in Nat, NEW addr \in Nat, lowest >= SramBase
    PROVE  LowerAddr(lowest, addr) = IF addr >= SramBase /\ addr < lowest
                                     THEN addr ELSE lowest
  BY Uf2Assumption DEF LowerAddr

\* A block of a RAM image may lower it.
LEMMA LowestGrows ==
    ASSUME Uf2TypeOK, OneBlockPerNumber, LowestInv, NEW b \in Block, NEW token,
           Accepts(b), ~IsDuplicate(b), uf2' = Counted(b, token)
    PROVE  LowestInv'
<1> SUFFICES ASSUME uf2'.ram
             PROVE  /\ uf2'.lowest_addr >= SramBase
                    /\ \A c \in SramSent' : uf2'.lowest_addr <= c.addr
                    /\ \/ uf2'.lowest_addr = TopAddr
                       \/ \E c \in SramSent' : c.addr = uf2'.lowest_addr
  BY DEF LowestInv
<1>a. /\ uf2'.num_blocks = b.num_blocks
      /\ uf2'.ram = Opened(b).ram
      /\ uf2'.valid_blocks = Opened(b).valid_blocks \cup {b.block_no}
      /\ uf2'.lowest_addr = LowerAddr(Opened(b).lowest_addr, b.addr)
  BY DEF Counted
<1>b. IsRam(b) /\ uf2'.ram = IsRam(b) /\ Proper(b) /\ b.num_blocks # 0
  BY <1>a DEF Accepts, Garbage, Proper
<1>c. b.addr \in Nat /\ b.addr <= TopAddr /\ SramBase \in Nat /\ TopAddr \in Nat
      /\ SramBase <= TopAddr
  BY Uf2Assumption DEF UF2Block
<1>d. b \in ImageBlocks' /\ Sent(b)'
  BY <1>a, <1>b DEF ImageBlocks, Sent, Proper
<1>e. \A c \in ImageBlocks' : c.block_no = b.block_no => c = b
  <2> SUFFICES ASSUME NEW c \in ImageBlocks', c.block_no = b.block_no PROVE c = b
    OBVIOUS
  <2>1. c \in Block /\ Proper(c) /\ c.num_blocks = b.num_blocks /\ (IsRam(c) <=> IsRam(b))
    BY <1>a, <1>b DEF ImageBlocks, Proper
  <2>. QED
    BY <1>b, <2>1 DEF OneBlockPerNumber
<1>f. \A c \in Block : c.addr \in Nat
  BY Uf2Assumption DEF UF2Block
<1>g. Opened(b).lowest_addr \in Nat
  BY Uf2Assumption, InfoType DEF UF2Info
<1>1. CASE Opens(b)
  <2>1. Opened(b).lowest_addr = TopAddr /\ Opened(b).valid_blocks = {}
    BY <1>1 DEF Opened, ClearedInfo
  <2>2. uf2'.lowest_addr = IF b.addr >= SramBase /\ b.addr < TopAddr THEN b.addr ELSE TopAddr
    BY <1>a, <1>c, <2>1, LowerAddrs
  <2>3. \A c \in SramSent' : c = b /\ b.addr >= SramBase
    BY <1>a, <1>e, <2>1 DEF SramSent, Sent
  <2>4. b.addr >= SramBase => b \in SramSent'
    BY <1>d DEF SramSent
  <2>5. uf2'.lowest_addr >= SramBase
    BY <1>c, <2>2
  <2>6. \A c \in SramSent' : uf2'.lowest_addr <= c.addr
    BY <1>c, <2>2, <2>3
  <2>. QED
    BY <2>2, <2>4, <2>5, <2>6
<1>2. CASE ~Opens(b)
  <2>1. uf2.num_blocks = b.num_blocks /\ Opened(b) = uf2 /\ uf2.ram = uf2'.ram
    BY <1>2, <1>a DEF Opens, Opened
  <2>2. /\ uf2.lowest_addr >= SramBase
        /\ \A c \in SramSent : uf2.lowest_addr <= c.addr
        /\ uf2.lowest_addr = TopAddr \/ \E c \in SramSent : c.addr = uf2.lowest_addr
    BY <1>b, <2>1 DEF LowestInv
  <2>3. /\ ImageBlocks' = ImageBlocks
        /\ \A c \in ImageBlocks : Sent(c)' <=> Sent(c) \/ c = b
    <3>1. ImageBlocks' = ImageBlocks
      BY <1>a, <2>1 DEF ImageBlocks
    <3>. QED
      BY <1>a, <1>d, <1>e, <2>1, <3>1 DEF Sent
  <2>4. /\ SramSent \subseteq SramSent'
        /\ \A c \in SramSent' : c \in SramSent \/ (c = b /\ b.addr >= SramBase)
        /\ b.addr >= SramBase => b \in SramSent'
        /\ SramSent' \subseteq Block
    BY <1>d, <2>3 DEF SramSent, ImageBlocks
  <2>5. uf2'.lowest_addr = IF b.addr >= SramBase /\ b.addr < uf2.lowest_addr
                           THEN b.addr ELSE uf2.lowest_addr
    BY <1>a, <1>c, <1>g, <2>1, <2>2, LowerAddrs
  <2>6. uf2'.lowest_addr >= SramBase /\ uf2'.lowest_addr <= uf2.lowest_addr
        /\ (b.addr >= SramBase => uf2'.lowest_addr <= b.addr) /\ uf2'.lowest_addr \in Nat
        /\ uf2.lowest_addr \in Nat
    BY <1>c, <1>g, <2>1, <2>2, <2>5
  <2>7. ASSUME NEW c \in SramSent' PROVE uf2'.lowest_addr <= c.addr
    <3>1. c.addr \in Nat
      BY <1>f, <2>4
    <3>2. CASE c \in SramSent
      <4>1. uf2.lowest_addr <= c.addr
        BY <2>2, <3>2
      <4>. QED
        BY <2>6, <3>1, <4>1
    <3>3. CASE c = b /\ b.addr >= SramBase
      BY <2>6, <3>3
    <3>. QED
      BY <2>4, <3>2, <3>3
  <2>8. \/ uf2'.lowest_addr = TopAddr
        \/ \E c \in SramSent' : c.addr = uf2'.lowest_addr
    BY <2>2, <2>4, <2>5
  <2>. QED
    BY <2>6, <2>7, <2>8
<1>. QED
  BY <1>1, <1>2

\* Any other step leaves it, or ends the image.
LEMMA LowestStep ==
    ASSUME Uf2TypeOK, OneBlockPerNumber, LowestInv, [Uf2Next]_uf2AllVars
    PROVE  LowestInv'
<1>a. uf2 \in UF2Info
  BY DEF Uf2TypeOK
<1>1. ASSUME /\ uf2'.num_blocks = uf2.num_blocks /\ uf2'.ram = uf2.ram
             /\ uf2'.valid_blocks = uf2.valid_blocks
             /\ uf2'.lowest_addr = uf2.lowest_addr
      PROVE  LowestInv'
  <2>1. SramSent' = SramSent
    BY <1>1 DEF SramSent, ImageBlocks, Sent
  <2>. QED
    BY <1>1, <2>1 DEF LowestInv
<1>2. CASE HostSendsBlock
  <2>1. PICK b \in Block : \/ WriteBlock(b, mscToken')
                           \/ IgnoreBlock(b, mscToken')
                           \/ RejectBlock(b)
    BY <1>2 DEF HostSendsBlock
  <2>2. CASE WriteBlock(b, mscToken')
    BY <2>2, LowestGrows DEF WriteBlock
  <2>3. CASE IgnoreBlock(b, mscToken')
    <3>1. ~Opens(b)
      BY <2>3 DEF IgnoreBlock, IsDuplicate, Opened, ClearedInfo
    <3>2. uf2' = [uf2 EXCEPT !.token = mscToken']
      BY <2>3, <3>1 DEF IgnoreBlock, Opened
    <3>. QED
      BY <1>1, <1>a, <3>2 DEF UF2Info
  <2>4. CASE RejectBlock(b)
    <3>1. Opened(b) \in UF2Info
      BY InfoType, Uf2Assumption DEF Uf2TypeOK
    <3>2. uf2'.num_blocks = 0
      BY <1>a, <2>4, <3>1 DEF RejectBlock, Rejected, ClearedInfo, UF2Info
    <3>. QED
      BY <3>2 DEF LowestInv
  <2>. QED
    BY <2>1, <2>2, <2>3, <2>4
<1>3. CASE HostResetsMsc \/ HostConfigures
  <2>1. uf2'.num_blocks = 0
    BY <1>a, <1>3 DEF HostResetsMsc, HostConfigures, MscReset, UF2Info
  <2>. QED
    BY <2>1 DEF LowestInv
<1>4. CASE UNCHANGED uf2
  BY <1>1, <1>4
<1>5. HostSendsBlock \/ HostResetsMsc \/ HostConfigures \/ UNCHANGED uf2
  BY DEF Uf2Next, Host, Uf2Work, HostStartsWrite, HostReadsSector, HostSendsPart,
     HostSendsOther, HostResetsPicoboot, HostUnconfigures, HostUsesPicoboot,
     DiskComplete, PicobootComplete, uf2Vars, uf2AllVars
<1>. QED
  BY <1>2, <1>3, <1>4, <1>5

\* With all blocks sent it is the lowest address of them.
LEMMA LowestIsMin ==
    ASSUME Uf2TypeOK, LowestInv, uf2.ram,
           uf2.valid_blocks = 0..(uf2.num_blocks - 1)
    PROVE  LET sram == {b.addr : b \in {c \in ImageBlocks : c.addr >= SramBase}}
           IN  sram # {} => uf2.lowest_addr = Min(sram)
<1> DEFINE sram == {b.addr : b \in {c \in ImageBlocks : c.addr >= SramBase}}
<1> SUFFICES ASSUME sram # {} PROVE uf2.lowest_addr = Min(sram)
  OBVIOUS
<1>1. \A b \in ImageBlocks :
        /\ b.num_blocks \in Nat /\ b.block_no \in Nat /\ b.addr \in Nat
        /\ b.num_blocks = uf2.num_blocks /\ b.block_no < b.num_blocks
        /\ b.addr <= TopAddr
  BY Uf2Assumption DEF ImageBlocks, UF2Block
<1>2. \A b \in ImageBlocks : Sent(b) /\ uf2.num_blocks # 0
  BY <1>1 DEF Sent
<1>3. SramSent = {c \in ImageBlocks : c.addr >= SramBase}
  BY <1>2 DEF SramSent
<1>4. PICK b \in SramSent : TRUE
  BY <1>3
<1>5. /\ \A c \in SramSent : uf2.lowest_addr <= c.addr
      /\ uf2.lowest_addr = TopAddr \/ \E c \in SramSent : c.addr = uf2.lowest_addr
  BY <1>2, <1>3, <1>4 DEF LowestInv
<1>6. uf2.lowest_addr \in Nat /\ TopAddr \in Nat
  BY Uf2Assumption DEF Uf2TypeOK, UF2Info
<1>7. uf2.lowest_addr \in sram /\ \A a \in sram : a \in Nat /\ uf2.lowest_addr <= a
  <2>1. \A a \in sram : a \in Nat /\ uf2.lowest_addr <= a
    BY <1>1, <1>3, <1>5
  <2>2. uf2.lowest_addr = TopAddr => b.addr = uf2.lowest_addr
    BY <1>1, <1>3, <1>4, <1>5, <1>6
  <2>. QED
    BY <1>3, <1>4, <1>5, <2>1, <2>2
<1> HIDE DEF sram
<1>8. \A a \in sram : (\A x \in sram : a <= x) => a = uf2.lowest_addr
  BY <1>6, <1>7
<1>. QED
  BY <1>7, <1>8 DEF Min

\* In whatever order the blocks of a RAM image come, and whatever the host does to
\* the device in between, it is entered at the lowest one in SRAM.
THEOREM LowestCorrect == OneBlockPerNumber => (Uf2Safety => StartsAtLowestSram)
<1> SUFFICES ASSUME OneBlockPerNumber PROVE Uf2Safety => StartsAtLowestSram
  OBVIOUS
<1>1. Uf2Init => LowestInv
  BY DEF Uf2Init, ClearedInfo, LowestInv
<1>2. ASSUME Uf2TypeOK, LowestInv,
             [~rebooting /\ rebooting' =>
                 uf2.valid_blocks = 0..(uf2.num_blocks - 1)]_<<rebooting, uf2>>
      PROVE  [~rebooting /\ rebooting' /\ uf2.ram =>
                LET sram == {b.addr : b \in {c \in ImageBlocks : c.addr >= SramBase}}
                IN  sram # {} => uf2.lowest_addr = Min(sram)]_<<rebooting, uf2>>
  BY <1>2, LowestIsMin
<1>. QED
  BY <1>1, <1>2, LowestStep, Uf2TypeCorrect, RebootCorrect, PTL
  DEF Uf2Safety, StartsAtLowestSram, RebootsAfterAllBlocks

=============================================================================
