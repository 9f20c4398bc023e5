------------------------------ MODULE Pipeline ------------------------------
(***************************************************************************)
(* The pipeline of demos/rust: one thread per batch takes its sectors      *)
(* through PC1, PC2, C1 and C2 by calls of the sealing API                 *)
(* (sealing/supra_seal.cpp) and, for C2, a process of its own              *)
(* (demos/rust/src/c2.rs).  The threads share mutexes and counters, the    *)
(* library's context, and the drives: PC1 leaves its layers at a block     *)
(* offset, PC2 and C1 read them there, and a later batch uses the blocks   *)
(* again.                                                                  *)
(*                                                                         *)
(* PC1, PC2 and C1 are modelled in detail in Pc1, Pc2 and C1.  Here a page *)
(* of the layers is the pair of its batch and its number; what PC2, C1 and *)
(* C2 make of it is right or wrong according to what they read.  Acquiring *)
(* a mutex is a step; releases are part of the step that ends its use.  A  *)
(* poll that fails changes nothing and is no step.                         *)
(*                                                                         *)
(* A definition whose name has a suffix after _ is the one that follows it *)
(* with a plausible mistake in it: a property must notice its use.         *)
(***************************************************************************)
EXTENDS Integers, Sequences, FiniteSets, FiniteSetsExt

CONSTANTS
    NumBatches,      \* num_batches
    NumSectors,      \* num_sectors
    PagesPerLayer,   \* pages_per_layer of get_slot_size
    NumLayers,       \* params.GetNumLayers()
    Drives,          \* page count of each controller
    Null

NumSlots == 2                                  \* num_slots
Provers  == 1 .. 2                             \* threads of the C2 process
Batches  == 0 .. NumBatches - 1
Sectors  == 0 .. NumSectors - 1
Ctrls    == 0 .. Len(Drives) - 1
Pages    == 0 .. PagesPerLayer * NumLayers - 1

-----------------------------------------------------------------------------
(* Blocks *)

(* get_max_block_offset: the size of the smallest drive. *)
MaxOffset == Min({Drives[i] : i \in 1 .. Len(Drives)})

(* get_slot_size: the blocks that a batch takes on every drive. *)
SlotSize_Short == (PagesPerLayer \div Len(Drives)) * NumLayers
SlotSize == ((PagesPerLayer + Len(Drives) - 1) \div Len(Drives)) * NumLayers

(* nvme_node_indexes and block_offset: where a page of the layers is. *)
Place(page, offset) ==
    LET block == page \div Len(Drives)
    IN  <<page - block * Len(Drives), block + offset>>

(* The next offset wraps when the slot after it would not fit. *)
NextOffset(offset) ==
    IF offset + SlotSize + SlotSize > MaxOffset THEN 0 ELSE offset + SlotSize

(* The demo relies on drives with room for the slots it uses at a time; it *)
(* does not check it.                                                      *)
ASSUME PipelineAssumption ==
    /\ {NumBatches, NumSectors, PagesPerLayer, NumLayers} \subseteq Nat \ {0}
    /\ Drives \in Seq(Nat) /\ Drives # <<>>
    /\ NumSlots * SlotSize <= MaxOffset
    /\ Null \notin Batches

-----------------------------------------------------------------------------
VARIABLES
    main,       \* what run_pipeline is doing
    ctx,        \* sealing_ctx is set
    crashed,    \* a null sealing_ctx was used
    pc,         \* batch -> what its thread is doing
    done1,      \* pc1_counter.0
    offset,     \* pc1_counter.1
    cur,        \* batch -> cur_offset
    written,    \* batch -> pages of its layers that PC1 has written
    disk,       \* <<controller, block>> -> <<batch, page>>
    pc1Lock,    \* who has pc1_counter
    slotLock,   \* slot -> who has it
    gpuLock,    \* who has gpu_lock
    pc2Lock,    \* who has pc2_counter
    gpuCount,   \* who has gpu_counter
    done2,      \* *pc2_counter
    trees,      \* batch -> what is in its output_dir: Null, or whether it is right
    c1,         \* batch -> sectors through C1
    output,     \* batch -> the sectors whose commit-phase1-output is right
    sector,     \* *slots_sector_id of the C2 process, from 0
    prover,     \* thread of the C2 process -> "off", "loop", "prove" or "exit"
    mine,       \* thread of the C2 process -> the sector it proves
    successes,  \* *successes of the C2 process
    status      \* batch -> exit status of its C2 process

lockVars  == <<pc1Lock, slotLock, gpuLock, pc2Lock, gpuCount>>
pc1Vars   == <<done1, offset, cur, written, disk>>
c2Vars    == <<sector, prover, mine, successes, status>>
fileVars  == <<trees, c1, output>>
apiVars   == <<main, ctx, crashed>>
vars == <<apiVars, pc, pc1Vars, lockVars, done2, fileVars, c2Vars>>

Init ==
    /\ main = "offset" /\ ctx = FALSE /\ crashed = FALSE
    /\ pc = [b \in Batches |-> "new"]
    /\ done1 = 0 /\ offset = 0 /\ done2 = 0
    /\ cur = [b \in Batches |-> 0]
    /\ written = [b \in Batches |-> 0]
    /\ disk = [x \in Ctrls \X (0 .. MaxOffset - 1) |-> Null]
    /\ pc1Lock = Null /\ gpuLock = Null /\ pc2Lock = Null /\ gpuCount = Null
    /\ slotLock = [i \in 0 .. NumSlots - 1 |-> Null]
    /\ trees = [b \in Batches |-> Null]
    /\ c1 = [b \in Batches |-> 0]
    /\ output = [b \in Batches |-> {}]
    /\ sector = 0 /\ prover = [p \in Provers |-> "off"]
    /\ mine = [p \in Provers |-> Null]
    /\ successes = 0 /\ status = [b \in Batches |-> 0]

Goto(b, where) == pc' = [pc EXCEPT ![b] = where]
Slot(b) == b % NumSlots

(* All of the batch's layers are where the batch left them. *)
LayersOf(b) == \A page \in Pages : disk[Place(page, cur[b])] = <<b, page>>

-----------------------------------------------------------------------------
(* run_pipeline *)

(* init_ctx, under ctx_mtx *)
InitCtx_Lazy == ctx' = ctx
InitCtx == ctx' = TRUE

(* get_max_block_offset makes the context, if it is the first call. *)
GetMaxBlockOffset ==
    /\ main = "offset" /\ main' = "size"
    /\ InitCtx
    /\ UNCHANGED <<crashed, pc, pc1Vars, lockVars, done2, fileVars, c2Vars>>

(* get_slot_size uses the context without init_ctx; the threads start. *)
GetSlotSize ==
    /\ main = "size" /\ main' = "join"
    /\ crashed' = (crashed \/ ~ctx)
    /\ pc' = [b \in Batches |-> "turn"]
    /\ UNCHANGED <<ctx, pc1Vars, lockVars, done2, fileVars, c2Vars>>

Join ==
    /\ main = "join" /\ \A b \in Batches : pc[b] = "done"
    /\ main' = "end"
    /\ UNCHANGED <<ctx, crashed, pc, pc1Vars, lockVars, done2, fileVars, c2Vars>>

-----------------------------------------------------------------------------
(* PC1 of a batch *)

(* The batches start PC1 in order. *)
PollPc1(b) ==
    /\ pc[b] = "turn" /\ pc1Lock = Null /\ done1 = b
    /\ Goto(b, "slot")
    /\ UNCHANGED <<apiVars, pc1Vars, lockVars, done2, fileVars, c2Vars>>

LockSlot(b) ==
    /\ pc[b] = "slot" /\ slotLock[Slot(b)] = Null
    /\ slotLock' = [slotLock EXCEPT ![Slot(b)] = b]
    /\ Goto(b, "pc1")
    /\ UNCHANGED <<apiVars, pc1Vars, pc1Lock, gpuLock, pc2Lock, gpuCount, done2,
                   fileVars, c2Vars>>

(* The thread keeps pc1_counter while it runs PC1. *)
StartPc1(b) ==
    /\ pc[b] = "pc1" /\ pc1Lock = Null
    /\ pc1Lock' = b
    /\ cur' = [cur EXCEPT ![b] = offset]
    /\ offset' = NextOffset(offset)
    /\ InitCtx
    /\ Goto(b, "write")
    /\ UNCHANGED <<main, crashed, done1, written, disk, slotLock, gpuLock, pc2Lock,
                   gpuCount, done2, fileVars, c2Vars>>

WritePage(b) ==
    /\ pc[b] = "write" /\ written[b] \in Pages
    /\ disk' = [disk EXCEPT ![Place(written[b], cur[b])] = <<b, written[b]>>]
    /\ written' = [written EXCEPT ![b] = @ + 1]
    /\ UNCHANGED <<apiVars, pc, done1, offset, cur, lockVars, done2, fileVars, c2Vars>>

EndPc1(b) ==
    /\ pc[b] = "write" /\ written[b] \notin Pages
    /\ done1' = done1 + 1
    /\ pc1Lock' = Null
    /\ Goto(b, "pc2")
    /\ UNCHANGED <<apiVars, offset, cur, written, disk, slotLock, gpuLock, pc2Lock,
                   gpuCount, done2, fileVars, c2Vars>>

-----------------------------------------------------------------------------
(* PC2 and C1 of a batch *)

Pc2LockGpu(b) ==
    /\ pc[b] = "pc2" /\ gpuLock = Null
    /\ gpuLock' = b
    /\ Goto(b, "pc2_count")
    /\ UNCHANGED <<apiVars, pc1Vars, pc1Lock, slotLock, pc2Lock, gpuCount, done2,
                   fileVars, c2Vars>>

Pc2LockCounters(b) ==
    /\ \/ /\ pc[b] = "pc2_count" /\ pc2Lock = Null
          /\ pc2Lock' = b /\ Goto(b, "pc2_gpu")
          /\ UNCHANGED gpuCount
       \/ /\ pc[b] = "pc2_gpu" /\ gpuCount = Null
          /\ gpuCount' = b /\ Goto(b, "pc2_run")
          /\ UNCHANGED pc2Lock
    /\ UNCHANGED <<apiVars, pc1Vars, pc1Lock, slotLock, gpuLock, done2, fileVars, c2Vars>>

(* PC2 has read the layers and written the trees; the three guards end.    *)
Pc2(b) ==
    /\ pc[b] = "pc2_run"
    /\ InitCtx
    /\ trees' = [trees EXCEPT ![b] = LayersOf(b)]
    /\ done2' = done2 + 1
    /\ gpuLock' = Null /\ pc2Lock' = Null /\ gpuCount' = Null
    /\ Goto(b, "seed")
    /\ UNCHANGED <<main, crashed, pc1Vars, pc1Lock, slotLock, c1, output, c2Vars>>

(* The wait for the seed, which is over at any time. *)
WaitSeed(b) ==
    /\ pc[b] = "seed"
    /\ Goto(b, "c1")
    /\ UNCHANGED <<apiVars, pc1Vars, lockVars, done2, fileVars, c2Vars>>

(* C1 of the next sector: it reads sealing_ctx before its init_ctx, and    *)
(* then the layers and the trees.                                          *)
C1(b) ==
    /\ pc[b] = "c1" /\ c1[b] \in Sectors
    /\ crashed' = (crashed \/ ~ctx)
    /\ InitCtx
    /\ output' = [output EXCEPT ![b] = IF LayersOf(b) /\ trees[b] = TRUE
                                         THEN @ \cup {c1[b]} ELSE @]
    /\ c1' = [c1 EXCEPT ![b] = @ + 1]
    /\ UNCHANGED <<main, pc, pc1Vars, lockVars, done2, trees, c2Vars>>

(* The batch's slot goes to the batch after the next one. *)
MayDropSlot_Early(b) == c1[b] + 1 \notin Sectors
MayDropSlot(b) == c1[b] \notin Sectors

DropSlot(b) ==
    /\ pc[b] = "c1" /\ MayDropSlot(b)
    /\ slotLock' = [slotLock EXCEPT ![Slot(b)] = Null]
    /\ Goto(b, "cleanup")
    /\ UNCHANGED <<apiVars, pc1Vars, pc1Lock, gpuLock, pc2Lock, gpuCount, done2,
                   fileVars, c2Vars>>

(* pc2_cleanup removes the trees, the sealed file and p_aux. *)
Cleanup(b) ==
    /\ pc[b] = "cleanup"
    /\ trees' = [trees EXCEPT ![b] = Null]
    /\ Goto(b, "poll")
    /\ UNCHANGED <<apiVars, pc1Vars, lockVars, done2, c1, output, c2Vars>>

-----------------------------------------------------------------------------
(* C2 of a batch *)

(* All but the last batch wait until one more PC2 is through: for the      *)
(* moment when the count is exactly the batch's number plus two.           *)
PollPc2_Last(b) ==
    /\ pc[b] = "poll" /\ pc2Lock = Null /\ done2 = b + 2
    /\ Goto(b, "c2")
    /\ UNCHANGED <<apiVars, pc1Vars, lockVars, done2, fileVars, c2Vars>>
PollPc2(b) ==
    /\ pc[b] = "poll"
    /\ b < NumBatches - 1 => pc2Lock = Null /\ done2 = b + 2
    /\ Goto(b, "c2")
    /\ UNCHANGED <<apiVars, pc1Vars, lockVars, done2, fileVars, c2Vars>>

(* The GPU, the counters (gpu_counter for a moment only) and the process.  *)
(* Only one thread at a time is here, for it has gpu_lock.                 *)
StartC2(b) ==
    /\ pc[b] = "c2" /\ gpuLock = Null
    /\ gpuLock' = b
    /\ Goto(b, "c2_gpu")
    /\ UNCHANGED <<apiVars, pc1Vars, pc1Lock, slotLock, pc2Lock, gpuCount, done2,
                   fileVars, c2Vars>>

SpawnC2(b) ==
    /\ pc[b] = "c2_gpu" /\ gpuCount = Null
    /\ sector' = 0 /\ successes' = 0
    /\ prover' = [p \in Provers |-> "loop"]
    /\ Goto(b, "c2_run")
    /\ UNCHANGED <<apiVars, pc1Vars, lockVars, done2, fileVars, mine, status>>

(* A thread of the process takes the next sector, or ends. *)
TakeSector(p) ==
    /\ prover[p] = "loop"
    /\ prover' = [prover EXCEPT ![p] = IF sector \in Sectors THEN "prove" ELSE "exit"]
    /\ mine' = [mine EXCEPT ![p] = IF sector \in Sectors THEN sector ELSE Null]
    /\ sector' = sector + 1
    /\ UNCHANGED <<apiVars, pc, pc1Vars, lockVars, done2, fileVars, successes, status>>

(* It proves it from C1's output and verifies the proof. *)
ProveSector(b, p) ==
    /\ pc[b] = "c2_run" /\ prover[p] = "prove"
    /\ successes' = successes + (IF mine[p] \in output[b] THEN 1 ELSE 0)
    /\ prover' = [prover EXCEPT ![p] = "loop"]
    /\ mine' = [mine EXCEPT ![p] = Null]
    /\ UNCHANGED <<apiVars, pc, pc1Vars, lockVars, done2, fileVars, sector, status>>

EndC2(b) ==
    /\ pc[b] = "c2_run" /\ \A p \in Provers : prover[p] = "exit"
    /\ status' = [status EXCEPT ![b] = NumSectors - successes]
    /\ prover' = [p \in Provers |-> "off"]
    /\ gpuLock' = Null
    /\ Goto(b, "done")
    /\ UNCHANGED <<apiVars, pc1Vars, pc1Lock, slotLock, pc2Lock, gpuCount, done2,
                   fileVars, sector, mine, successes>>

-----------------------------------------------------------------------------
Main == GetMaxBlockOffset \/ GetSlotSize \/ Join

Batch(b) ==
    \/ PollPc1(b) \/ LockSlot(b) \/ StartPc1(b) \/ WritePage(b) \/ EndPc1(b)
    \/ Pc2LockGpu(b) \/ Pc2LockCounters(b) \/ Pc2(b) \/ WaitSeed(b)
    \/ C1(b) \/ DropSlot(b) \/ Cleanup(b)
    \/ PollPc2(b) \/ StartC2(b) \/ SpawnC2(b) \/ EndC2(b)

Prover(p) == TakeSector(p) \/ \E b \in Batches : ProveSector(b, p)

Next == Main \/ (\E b \in Batches : Batch(b)) \/ (\E p \in Provers : Prover(p))

Spec == Init /\ [][Next]_vars

(* All threads run, and an operation that is started ends.                 *)
FairSpec ==
    /\ Spec
    /\ WF_vars(Main)
    /\ \A b \in Batches : WF_vars(Batch(b))
    /\ \A p \in Provers : WF_vars(Prover(p))

-----------------------------------------------------------------------------
(* Properties *)

(* Counters, offsets, the blocks of the drives and who has which mutex are *)
(* within their bounds: no page is written beyond the end of a drive.      *)
TypeOK ==
    /\ main \in {"offset", "size", "join", "end"} /\ {ctx, crashed} \subseteq BOOLEAN
    /\ pc \in [Batches -> {"new", "turn", "slot", "pc1", "write", "pc2", "pc2_count",
                           "pc2_gpu", "pc2_run", "seed", "c1", "cleanup", "poll", "c2",
                           "c2_gpu", "c2_run", "done"}]
    /\ {done1, done2} \subseteq 0 .. NumBatches
    /\ offset \in 0 .. MaxOffset
    /\ cur \in [Batches -> 0 .. MaxOffset - SlotSize]
    /\ written \in [Batches -> 0 .. Cardinality(Pages)]
    /\ disk \in [Ctrls \X (0 .. MaxOffset - 1) -> (Batches \X Pages) \cup {Null}]
    /\ {pc1Lock, gpuLock, pc2Lock, gpuCount} \subseteq Batches \cup {Null}
    /\ slotLock \in [0 .. NumSlots - 1 -> Batches \cup {Null}]
    /\ trees \in [Batches -> {TRUE, FALSE, Null}]
    /\ c1 \in [Batches -> 0 .. NumSectors] /\ output \in [Batches -> SUBSET Sectors]
    /\ sector \in 0 .. NumSectors + Cardinality(Provers)
    /\ prover \in [Provers -> {"off", "loop", "prove", "exit"}]
    /\ mine \in [Provers -> Sectors \cup {Null}]
    /\ successes \in 0 .. NumSectors
    /\ status \in [Batches -> 0 .. NumSectors]

(* No batch's PC1 overwrites a page that another one, or itself, still     *)
(* needs: what PC1 has written stays in place until its C1 is through,     *)
(* although offsets wrap by free space and slots by the batch's number,    *)
(* and no page is beyond the end of a drive.                               *)
LayersAreKept ==
    /\ TypeOK
    /\ \A b \in Batches : pc[b] \in {"write", "pc2", "pc2_count", "pc2_gpu", "pc2_run", "seed", "c1"} =>
           \A page \in 0 .. written[b] - 1 : disk[Place(page, cur[b])] = <<b, page>>

(* The C2 process of a batch ends with status 0: every sector has been     *)
(* proved, once, from the output of a C1 that read the batch's layers and  *)
(* trees.                                                                  *)
EverySectorIsProved == \A b \in Batches : pc[b] = "done" => status[b] = 0

(* Nobody uses the null sealing_ctx, though get_slot_size() and c1() read  *)
(* it without, or before, the call that creates it.                        *)
ContextIsReady == ~crashed

(* A batch polls for a count that has gone by. *)
Missed(b) == pc[b] = "poll" /\ b < NumBatches - 1 /\ done2 > b + 2

(* Every batch gets through all its stages and the pipeline ends, unless   *)
(* two PC2s end between two polls of a batch: that batch, and the          *)
(* pipeline with it, never end.  There is no other way to wait for ever.   *)
EveryBatchEnds == <>((\A b \in Batches : pc[b] = "done" \/ Missed(b)))
=============================================================================
