----------------------------- MODULE Coordinator -----------------------------
(***************************************************************************)
(* One coordinator of PC1 and its hasher threads (pc1/coordinator_t.hpp).  *)
(*                                                                         *)
(* The coordinator walks the parent buffer, gathers the parents of each    *)
(* node into the local ring coord_ring and publishes them to the hashers   *)
(* in batches of BatchSize nodes.  Every hasher thread walks the same      *)
(* batches in order, and the coordinator recycles a slot of the ring when  *)
(* coord_done_count of that slot says that every hasher has left it.       *)
(*                                                                         *)
(* The three monotone counters of the handshake (coord_next_valid,         *)
(* completed_node and the value stored in system.coordinator_node) only    *)
(* ever hold multiples of COORD_BATCH_SIZE: they are counted in batches    *)
(* here.  node counts nodes, as in the code.  node_start is 0, as in       *)
(* do_pc1.                                                                 *)
(***************************************************************************)
EXTENDS Integers, FiniteSets

CONSTANTS
    Hashers,         \* the hasher threads of this coordinator
    BatchSize,       \* COORD_BATCH_SIZE, nodes per batch
    BatchCount,      \* COORD_BATCH_COUNT, slots of coord_ring
    UpdateInterval,  \* NODE_COUNT_UPDATE_INTERVAL, batches between reports
    NodeStop,        \* node_stop
    NodesPerPage,    \* granularity in which the orchestrator reserves entries
    ParentCapacity,  \* usable entries of system.parent_buffer
    Coord, Free, NoNode

ASSUME CoordinatorAssumption ==
    /\ IsFiniteSet(Hashers) /\ Hashers # {}
    /\ BatchSize \in Nat \ {0}
    /\ BatchCount \in Nat /\ BatchCount >= 3
    /\ UpdateInterval \in Nat \ {0}
    /\ NodeStop \in Nat \ {0}
    /\ NodesPerPage \in Nat \ {0}
    /\ ParentCapacity \in Nat
    /\ Coord \notin Hashers /\ Free \notin Hashers /\ Coord # Free
    /\ NoNode \notin Nat

VARIABLES
    avail,       \* parent buffer entries that have become valid so far
    cpc,         \* where the coordinator thread is in run()
    node,        \* next node whose parents are gathered
    batchCount,  \* coord_batch_count: nodes gathered in the current batch
    batchIdx,    \* coord_batch_idx: slot being filled
    tail,        \* coord_ring tail
    size,        \* coord_ring cur_size
    completed,   \* completed_node, in batches
    updates,     \* node_update_batch_count
    published,   \* coord_next_valid, in batches
    doneCount,   \* coord_done_count
    mtx,         \* coord_ready_mtx: the owner of each mutex, or Free
    ring,        \* per slot and position: the node whose parents are there
    reported,    \* system.coordinator_node[id], in batches
    hpc,         \* where each hasher is in run_thread()
    hashed,      \* batches a hasher has counted in coord_done_count
    off,         \* nodes hashed of the hasher's current batch
    seen,        \* valid_nodes as last loaded by the hasher, in batches
    idx          \* coord_idx of the hasher

coordVars  == <<cpc, node, batchCount, batchIdx, tail, size, completed, updates>>
hasherVars == <<hpc, hashed, off, seen, idx>>
sharedVars == <<published, doneCount, mtx, ring, reported>>
vars       == <<avail, coordVars, sharedVars, hasherVars>>

Slots      == 0 .. BatchCount - 1
Positions  == 0 .. BatchSize - 1
(* Here and below, a definition whose name ends in _Wrong is the next one    *)
(* with a plausible mistake in it: a property must notice its use.           *)
NumThreads_Wrong == Cardinality(Hashers) - 1
NumThreads == Cardinality(Hashers)

(* ring_buffer_t: capacity is one less than the number of slots. *)
Incr(i)    == IF i = BatchCount - 1 THEN 0 ELSE i + 1
Add(i, d)  == IF i + d >= BatchCount THEN i + d - BatchCount ELSE i + d
IsFull     == size = BatchCount - 1
Head       == Add(tail, size)

(* thr_node of a hasher: it hashes batch after batch from node 0. *)
ThrNode(h) == hashed[h] * BatchSize + off[h]

(* The loop tests thr_node < node_stop and valid_nodes <= thr_node.id(), at *)
(* a batch boundary, where thr_node = hashed[h] * BatchSize.                *)
AtEnd_Wrong(h) == (hashed[h] + 1) * BatchSize >= NodeStop
AtEnd(h)   == hashed[h] * BatchSize >= NodeStop

Init ==
    /\ avail = 0
    /\ cpc = "fill" /\ node = 0
    /\ batchCount = 0 /\ batchIdx = 0
    /\ tail = 0 /\ size = 1             \* run() reserves the first slot
    /\ completed = 0 /\ updates = 0
    /\ published = 0 /\ reported = 0
    /\ doneCount = [s \in Slots |-> 0]
    /\ mtx = [s \in Slots |-> Coord]    \* locked by the constructor
    /\ ring = [s \in Slots |-> [p \in Positions |-> NoNode]]
    /\ hpc = [h \in Hashers |-> "check"]
    /\ hashed = [h \in Hashers |-> 0]
    /\ off = [h \in Hashers |-> 0]
    /\ seen = [h \in Hashers |-> 0]
    /\ idx = [h \in Hashers |-> 0]

-----------------------------------------------------------------------------
(* Environment: the orchestrator reserves parent buffer entries, whole pages *)
(* of nodes at a time, as long as the buffer has room for them, and their    *)
(* reads complete.  An entry is released only after this coordinator has     *)
(* reported its node, so at most ParentCapacity entries follow reported.     *)
ParentsReady ==
    /\ avail < NodeStop
    /\ avail < NodesPerPage * ((reported * BatchSize + ParentCapacity)
                                 \div NodesPerPage)
    /\ avail' = avail + 1
    /\ UNCHANGED <<coordVars, sharedVars, hasherVars>>

-----------------------------------------------------------------------------
(* The coordinator thread, run() *)

(* Gather the parents of one valid node into the current slot. *)
Gather ==
    /\ cpc = "fill" /\ node < NodeStop /\ node < avail
    /\ ring' = [ring EXCEPT ![batchIdx][batchCount] = node]
    /\ batchCount' = batchCount + 1
    /\ IF batchCount' = BatchSize
         THEN cpc' = "unlock" /\ UNCHANGED node
         ELSE cpc' = "fill" /\ node' = node + 1
    /\ UNCHANGED <<avail, batchIdx, tail, size, completed, updates, published,
                   doneCount, mtx, reported, hasherVars>>

Unlock ==
    /\ cpc = "unlock"
    /\ mtx' = [mtx EXCEPT ![batchIdx] = Free]
    /\ cpc' = "publish"
    /\ UNCHANGED <<avail, node, batchCount, batchIdx, tail, size, completed,
                   updates, published, doneCount, ring, reported, hasherVars>>

Publish ==
    /\ cpc = "publish"
    /\ published' = published + 1
    /\ cpc' = IF IsFull THEN "recover" ELSE "reserve"
    /\ UNCHANGED <<avail, node, batchCount, batchIdx, tail, size, completed,
                   updates, doneCount, mtx, ring, reported, hasherVars>>

Recover_Wrong ==   \* keeps the count
    /\ cpc = "recover"
    /\ doneCount[tail] = NumThreads
    /\ cpc' = "relock"
    /\ UNCHANGED <<avail, node, batchCount, batchIdx, tail, size, completed,
                   updates, published, doneCount, mtx, ring, reported, hasherVars>>

(* Spin until every hasher has left the oldest slot, then clear its count. *)
Recover ==
    /\ cpc = "recover"
    /\ doneCount[tail] = NumThreads
    /\ doneCount' = [doneCount EXCEPT ![tail] = 0]
    /\ cpc' = "relock"
    /\ UNCHANGED <<avail, node, batchCount, batchIdx, tail, size, completed,
                   updates, published, mtx, ring, reported, hasherVars>>

(* Take the oldest slot's mutex back and release the slot. *)
Relock ==
    /\ cpc = "relock"
    /\ mtx[tail] = Free
    /\ mtx' = [mtx EXCEPT ![tail] = Coord]
    /\ tail' = Incr(tail) /\ size' = size - 1
    /\ completed' = completed + 1
    /\ cpc' = "reserve"
    /\ UNCHANGED <<avail, node, batchCount, batchIdx, updates, published,
                   doneCount, ring, reported, hasherVars>>

(* Reserve the next slot, step to the next node and, every UpdateInterval *)
(* batches, report the completed nodes to the orchestrator.               *)
Reserve ==
    /\ cpc = "reserve"
    /\ batchIdx' = Head /\ size' = size + 1
    /\ batchCount' = 0
    /\ node' = node + 1
    /\ IF updates + 1 = UpdateInterval
         THEN updates' = 0 /\ reported' = completed
         ELSE updates' = updates + 1 /\ UNCHANGED reported
    /\ cpc' = "fill"
    /\ UNCHANGED <<avail, tail, completed, published, doneCount, mtx, ring,
                   hasherVars>>

(* All nodes gathered: wait for the remaining batches, oldest first. *)
Drain ==
    /\ cpc = "fill" /\ node >= NodeStop
    /\ completed * BatchSize < NodeStop
    /\ doneCount[tail] >= NumThreads
    /\ doneCount' = [doneCount EXCEPT ![tail] = 0]
    /\ tail' = Incr(tail) /\ size' = size - 1
    /\ completed' = completed + 1
    /\ UNCHANGED <<avail, cpc, node, batchCount, batchIdx, updates, published,
                   mtx, ring, reported, hasherVars>>

(* The last report, after which run() returns. *)
Finish ==
    /\ cpc = "fill" /\ node >= NodeStop
    /\ completed * BatchSize >= NodeStop
    /\ reported' = completed
    /\ cpc' = "done"
    /\ UNCHANGED <<avail, node, batchCount, batchIdx, tail, size, completed,
                   updates, published, doneCount, mtx, ring, hasherVars>>

CoordinatorNext ==
    \/ Gather \/ Unlock \/ Publish \/ Recover
    \/ Relock \/ Reserve \/ Drain \/ Finish

-----------------------------------------------------------------------------
(* A hasher thread, run_thread() *)

Check_Wrong(h) ==   \* < for <=
    /\ hpc[h] = "check" /\ ~AtEnd(h)
    /\ seen' = [seen EXCEPT ![h] = published]
    /\ hpc' = [hpc EXCEPT ![h] = IF published < hashed[h] THEN "lock"
                                                          ELSE "hash"]
    /\ UNCHANGED <<avail, coordVars, sharedVars, hashed, off, idx>>

(* Look at coord_next_valid; with nothing to hash go through the mutex. *)
Check(h) ==
    /\ hpc[h] = "check" /\ ~AtEnd(h)
    /\ seen' = [seen EXCEPT ![h] = published]
    /\ hpc' = [hpc EXCEPT ![h] = IF published <= hashed[h] THEN "lock"
                                                           ELSE "hash"]
    /\ UNCHANGED <<avail, coordVars, sharedVars, hashed, off, idx>>

LockReady(h) ==
    /\ hpc[h] = "lock"
    /\ mtx[idx[h]] = Free
    /\ mtx' = [mtx EXCEPT ![idx[h]] = h]
    /\ hpc' = [hpc EXCEPT ![h] = "locked"]
    /\ UNCHANGED <<avail, coordVars, published, doneCount, ring, reported,
                   hashed, off, seen, idx>>

UnlockReady(h) ==
    /\ hpc[h] = "locked"
    /\ mtx' = [mtx EXCEPT ![idx[h]] = Free]
    /\ hpc' = [hpc EXCEPT ![h] = "spin"]
    /\ UNCHANGED <<avail, coordVars, published, doneCount, ring, reported,
                   hashed, off, seen, idx>>

(* Spin on coord_next_valid. *)
Spin(h) ==
    /\ hpc[h] = "spin"
    /\ published > hashed[h]
    /\ seen' = [seen EXCEPT ![h] = published]
    /\ hpc' = [hpc EXCEPT ![h] = "hash"]
    /\ UNCHANGED <<avail, coordVars, sharedVars, hashed, off, idx>>

(* Hash one node of the batch in slot idx[h]. *)
Hash(h) ==
    /\ hpc[h] = "hash"
    /\ off' = [off EXCEPT ![h] = @ + 1]
    /\ hpc' = [hpc EXCEPT ![h] = IF off[h] + 1 = BatchSize THEN "mark"
                                                           ELSE "hash"]
    /\ UNCHANGED <<avail, coordVars, sharedVars, hashed, seen, idx>>

(* Count the batch as done and go on, to the next batch already seen or to *)
(* the loop's test.                                                        *)
Mark(h) ==
    /\ hpc[h] = "mark"
    /\ doneCount' = [doneCount EXCEPT ![idx[h]] = @ + 1]
    /\ idx' = [idx EXCEPT ![h] = Incr(@)]
    /\ hashed' = [hashed EXCEPT ![h] = @ + 1]
    /\ off' = [off EXCEPT ![h] = 0]
    /\ hpc' = [hpc EXCEPT ![h] = IF hashed[h] + 1 < seen[h] THEN "hash"
                                                            ELSE "check"]
    /\ UNCHANGED <<avail, coordVars, published, mtx, ring, reported, seen>>

HasherNext(h) ==
    \/ Check(h) \/ LockReady(h) \/ UnlockReady(h)
    \/ Spin(h) \/ Hash(h) \/ Mark(h)

-----------------------------------------------------------------------------
(* Every thread has returned. *)
Done == cpc = "done" /\ \A h \in Hashers : hpc[h] = "check" /\ AtEnd(h)

Terminated == Done /\ UNCHANGED vars

Next ==
    \/ ParentsReady
    \/ CoordinatorNext
    \/ \E h \in Hashers : HasherNext(h)
    \/ Terminated

Spec == Init /\ [][Next]_vars

(* Each thread runs on a core of its own and spins or blocks on a mutex; the *)
(* reads of a reserved entry complete.  No fairness of the mutexes is needed *)
(* beyond that: a hasher takes a mutex once per batch.                       *)
Fairness ==
    /\ WF_vars(ParentsReady)
    /\ WF_vars(CoordinatorNext)
    /\ \A h \in Hashers : WF_vars(HasherNext(h))

FairSpec == Spec /\ Fairness

-----------------------------------------------------------------------------
TypeOK ==
    /\ avail \in Nat /\ node \in Nat
    /\ cpc \in {"fill", "unlock", "publish", "recover", "relock", "reserve",
                "done"}
    /\ batchCount \in 0 .. BatchSize
    /\ batchIdx \in Slots /\ tail \in Slots /\ size \in 0 .. BatchCount - 1
    /\ completed \in Nat /\ updates \in 0 .. UpdateInterval - 1
    /\ published \in Nat /\ reported \in Nat
    /\ doneCount \in [Slots -> Nat]
    /\ mtx \in [Slots -> Hashers \cup {Coord, Free}]
    /\ ring \in [Slots -> [Positions -> Nat \cup {NoNode}]]
    /\ hpc \in [Hashers -> {"check", "lock", "locked", "spin", "hash", "mark"}]
    /\ hashed \in [Hashers -> Nat]
    /\ off \in [Hashers -> 0 .. BatchSize]
    /\ seen \in [Hashers -> Nat]
    /\ idx \in [Hashers -> Slots]

(* A hasher that is hashing finds in its slot the complete batch it is at:  *)
(* the coordinator neither recycles nor overwrites a slot of coord_ring     *)
(* (the memcpy into current_batch->parents) before the last hasher left it, *)
(* and publishes it only when it is whole.                                  *)
BatchIntact ==
    \A h \in Hashers : hpc[h] = "hash" =>
        \A p \in Positions : ring[idx[h]][p] = hashed[h] * BatchSize + p

(* The nodes reported in system.coordinator_node have been hashed by every   *)
(* hasher: the orchestrator writes them to disk, releases their parent       *)
(* entries and reuses their node buffer pages on the strength of this value. *)
ReportedAreHashed ==
    \A h \in Hashers : reported <= hashed[h]

(* sealing/constants.hpp *)
CoordBatchNodeCount_Wrong == BatchSize * (BatchCount - 2)
CoordBatchNodeCount == BatchSize * BatchCount

(* When the coordinator copies the parents of a node, a parent at a distance *)
(* of at least COORD_BATCH_NODE_COUNT has been hashed by every hasher of the *)
(* coordinator; only nearer parents are left to the hashers (is_local in     *)
(* orchestrator_t::read_batch).                                              *)
CopiedParentsAreHashed ==
    cpc = "fill" /\ node < NodeStop =>
        \A h \in Hashers : node - CoordBatchNodeCount < ThrNode(h)

(* Every node gets hashed and every thread returns. *)
Termination == <>Done

-----------------------------------------------------------------------------
(* The coordinator is a SectorWorker.  While the last node of a batch is      *)
(* being published it is already gathered, though node still points at it.    *)
Gathered == IF cpc \in {"unlock", "publish", "recover", "relock", "reserve"}
              THEN node + 1 ELSE node

Worker == INSTANCE SectorWorker WITH
            Workers  <- Hashers,
            Stop     <- NodeStop,
            Window   <- CoordBatchNodeCount,
            Lag      <- (UpdateInterval + BatchCount - 2) * BatchSize,
            taken    <- Gathered,
            done     <- [h \in Hashers |-> ThrNode(h)],
            reported <- reported * BatchSize

(* Taking, hashing and reporting nodes happen as SectorWorker allows. *)
ImplementsWorker == Worker!Spec

(* With Lag entries valid beyond the last report another report follows: the *)
(* coordinator never waits for entries that the orchestrator can only        *)
(* reserve once it has reported.                                             *)
ReportsProgress == Worker!Progress

=============================================================================
