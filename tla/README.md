# supra_seal in TLA+

A verification project for supra_seal, the batch sealing library for Filecoin
sectors: TLA+ modules translated from the C++ under `src/`, TLC configurations
that check them on small instances, and TLAPS proofs of what matters most for
every value of the constants. `PROJECT.json` lists components, runs, mutants,
hazards and findings, and maps every modelling definition to its source lines.

Contents: 1 the system, 2 the modules and the code, 3 the runs, 4 the proofs,
5 findings and remarks, 6 what is not modelled, 7 the plan.

## 1. The system

Sealing a batch of sectors has four phases.

| component | state | operations | hard because |
|---|---|---|---|
| PC1 coordinator and hashers (`pc1/coordinator_t.hpp`) | `coord_ring`, `coord_next_valid`, `coord_done_count`, `coord_ready_mtx` | gather parents, publish a batch, recover a slot, hash, report | one writer and several readers per slot; three words per hand-off; counters reused lap after lap |
| PC1 orchestrator (`pc1/orchestrator_t.hpp`, `parent_iter_t.hpp`) | cursors of the node buffer, the parent buffer and the writes; reference counts | `read_batch`, `write_nodes`, release parents, advance the written tail, retire nodes | decides, without locks, where each parent's label will be when it is needed |
| PC1 reader and writer (`pc1/node_rw_t.hpp`) | FIFO, operations in flight | issue, complete | completions in any order |
| buffers (`pc1/system_buffers_t.hpp`, `nvme/ring_t.hpp`) | ring buffers with valid counters, lock-free FIFOs | reserve, release, enqueue, dequeue | sizes read while the other side moves; one slot is kept empty |
| NVMe access (`nvme/`) | queue pairs, outstanding operations | read, write, process completions, sequential I/O | bounded queues |
| streaming reader (`nvme/streaming_node_reader_nvme.*`) | slots of pages, FIFO | `load_layers`, `load_nodes`, `get_node` | full FIFO, waits for counts |
| PC2 (`pc2/`) | GPU streams, host buffers in three pools, tree files | columns hashed to trees C and R, bundles written, tops built on the CPU | buffers between streams, callbacks, writers and a CPU thread; a mutex unlocked by another thread |
| tree builders (`pc1/tree_*.hpp`) | tree files, a pool of threads | trees C, R and D on the CPU | chunks in any order, discarded rows |
| C1 (`c1/`) | challenges, tree paths, proof files | build, split and combine the vanilla proofs | index arithmetic over several tree files with missing rows |
| C2 prover (`c2/cuda/groth16_cuda.cu`) | provers, GPUs | Groth16 proofs | barrier between a preparation thread and the GPU threads, exceptions |
| SRS cache (`c2/cuda/groth16_srs.cuh`, `c2/src/lib.rs`) | counted objects, LRU list, reader threads | create, clone, evict, drop, get points | handed out before it is loaded; constructors that throw; deletion under the cache's mutex |
| API (`sealing/supra_seal.cpp`) | one global context | `pc1`, `pc2`, `c1`, ... | order of calls |
| pipeline demo (`demos/rust/src/main.rs`, `c2.rs`) | slot, PC1, PC2 and GPU locks, counters, drive offset | batches through all phases | polling, slot and offset reuse |
| kernels (`poseidon/`, `sha/`, NTT, MSM) | none | arithmetic | not a matter of state |

PC1 dominates: it labels 2 to 11 layers of up to 2^31 nodes per sector, for up
to 128 sectors at once, with one orchestrator thread, two I/O threads and a set
of coordinators with one to several hashers each, all spinning on cores of
their own. A node's label is the hash of its parents' labels, so a label
that is used too early, or after its page was given to another node, gives a
wrong sector and no error. The same holds for the phases after it: a tree node at the wrong
offset, a path with the wrong sibling or points used before they are read are noticed, if at all,
when the finished proof is rejected.

How PC1's parts interact. The orchestrator walks the nodes in order. For each it
reserves an entry of the parent buffer and decides for every parent whether its
label is in the node buffer (a pointer) or must be read from disk (a request to
the reader through `parent_read_fifo`). An entry whose `valid` counter has
reached the number of parents is gathered by each coordinator: it copies the
labels of far parents, and passes pointers to near ("local") ones on to its
hashers, which read them from the node buffer when they hash. Labels go to the
node buffer. Coordinators report their progress from time to time; the orchestrator
takes the minimum and sends hashed pages to the writer, releases parent entries and
gives back pages that are written and no longer referred to.

What makes each part correct:
- coordinator: no slot of the ring changes under a hasher; no report ahead of a
  hasher; the distance between gathering and hashing is bounded (on it rests which
  parents may be copied); it always reports in time for the orchestrator to go on;
- orchestrator: every label gathered or hashed is that of the right parent; a page
  reaches the disk before it is reused; a read never overtakes the write it
  needs; references balance; everything gets labelled;
- FIFO: a bounded queue, in spite of stale sizes;
- C2: split vectors are complete before a GPU thread uses them; proofs are made only of
  results computed once each; an error is returned and nobody stays at the barrier; splitting
  an MSM does not change its value;
- streaming reader: a load returns, and what it returns are the nodes asked for;
- PC2 and tree builders: every node of the files is written once, with its value, and the call
  ends only then; a buffer has one owner; the pools never run dry; the call ends;
- C1: every path and label proof is one a verifier accepts; the files are as long as announced;
- SRS cache: counts equal references, one owner deletes, nothing is used before it is loaded or
  after it is freed, nothing leaks, the mutex is given back;
- pipeline: the layers of a batch stay on the drives until its C1 is through; every sector is
  proved; every batch ends.

## 2. The modules and the code

| module | what it is |
|---|---|
| `Coordinator` | `coordinator_t`: `run()` and `run_thread()`, one action per shared access or wait |
| `SectorWorker` | abstract: what a coordinator with its hashers promises PC1 |
| `CoordinatorProofs` | inductive invariant and refinement of `SectorWorker` |
| `Pc1` | orchestrator, reader, writer, drives and the buffers, around coordinators that behave as `SectorWorker` |
| `Pc1Proofs` | inductive invariant of the cursors and of the parent reader's FIFO |
| `Pc1LabelProofs` | on top of it: pages on their way to disk, entries of the parent buffer, reference counts |
| `MCPc1` | small parent graphs and symmetry for TLC |
| `MtFifo` | `mt_fifo_t`, one load or store per step |
| `BoundedFifo` | abstract: a queue of bounded length |
| `MtFifoProofs` | inductive invariant and refinement of `BoundedFifo` |
| `TreeFiles` | names and places of tree nodes (`tree_address_t`), hashing as an operator on names |
| `SectorTrees` | abstract: what building the trees of a sector promises, on GPUs or on the CPU |
| `Planner` | `scheduler_t` and `buffers_t`: the order of PC2's work items and their device buffers |
| `StreamingReader` | FIFO, reader thread and counters between the drives and PC2 or C1 |
| `Pc2` | `pc2_t`: main thread, streams, callbacks, batcher, writers, CPU thread; `MCPc2` gives its calls |
| `Pc2Proofs` | inductive invariants of the batcher: buffers out and places in empty bundles; where each bundle and each buffer is |
| `TreeBuilder` | `TreeBuilder`, with and without a pool, and `TreeD`, as operators |
| `C1` | `cpu_single_pc2` of the tools step by step (`do_pc2_cpu` without data), then C1's challenges, proofs and files; `MCC1` gives its sectors |
| `Groth16` | the threads of `generate_groth16_proofs_c` (C2), the barrier and the exception path |
| `Groth16Proofs` | two inductive invariants: split vectors before use, no lost error, complete proofs |
| `SplitMsm` | the passes of its preparation thread: marks, merged mask, bitmaps and tail |
| `SrsCache` | SRS objects, their references, the cache, constructors and reader threads |
| `SrsCacheProofs` | inductive invariant: references, owners, loaded points, the cache |
| `Pipeline` | the demo's batch threads, the sealing context, the drives and the C2 process; `MCPipeline` gives the drives |
| `PipelineProofs` | inductive invariant: order of the batches, their slots and offsets, files and proofs |

Composition. `Coordinator` and `Pc1` compose through `SectorWorker`: `Coordinator` is shown to
implement it (`ImplementsWorker`, proved; `ReportsProgress`, checked), and the
actions `Take`, `HashNode` and `Report` of `Pc1` are its actions, with labels
added. `Window` and `Lag` are the two numbers of the contract. In the code the
window is below `COORD_BATCH_NODE_COUNT`, which is what `is_local` compares with.
`Pc2` and `C1` extend `StreamingReader` and both implement `SectorTrees`, each with
the layout of its own files: what C1 relies on is stated once for both builders. `Pipeline` takes the phases as whole
operations that read and write the drives and files.

**Coordinator.** `cpc` and `hpc` are the places of the threads between two accesses
to shared state. `ring[s][p]` is the node whose parents are at position `p` of slot
`s`; `published`, `completed` and `reported` are `coord_next_valid`,
`completed_node` and `coordinator_node`, counted in batches because the code only
ever adds `COORD_BATCH_SIZE` to them. `Gather` is the body of the loop for a node
that is not the last of its batch, and up to the unlock for one that is; `Unlock`,
`Publish`, `Recover`, `Relock` and `Reserve` are the rest of the body. The mutexes are
those of `MUTEX_THREAD_SYNC`, which the header defines. The environment, `ParentsReady`,
makes entries valid in page steps as long as the parent buffer has room after the
last report.

**Pc1.** The loop of `process()` is a cycle of `opc`: `sample` (one step per
coordinator: the loads are not atomic), `read` and `prepare` (`read_batch`, one step
per node), `write` (one step per call of `write_nodes`), `release`, `written`,
`retire` (one step each: these loops only touch what no other thread writes, except
valid counters that only grow). Rings are kept by absolute cursors, slots are cursors
modulo the number of slots. Labels are represented by the node they belong to, so
that the memory and the disk say whose label each place holds, for every
coordinator: "the label is right" is an equation. A reservation clears the valid
counter of the slot after the reserved one, as `ring_buffer_t` does. The descriptors of
parents that `read_batch` skips keep their old value, as in the code. In-flight
reads and writes complete in any order; a write takes the page's content when it
completes, a read the disk's.

**MtFifo.** Producer: `free_count()` or `is_full()`, then at most that many times the
two stores of `enqueue`. Consumer: `size()`, then at most that many `dequeue()`s with
their own load of the size, the load of the slot and the store of `tail`. Atomics are
sequentially consistent (the default order).

**Groth16.** `ppc`, `gpc` and `mpc` are the places of the preparation thread, of the GPU
threads and of the caller. An operation and the test of `caught_exception` after it are
one step, since a result is looked at only after the threads are joined; where the code has
no test after an operation (a skipped batch addition) the step has none. Every GPU operation may
throw (`Throw`); the catch block is three actions, as another thread may run
between the exchange, the notifications and the assignment of `ret`. A result is the number of
times it was computed. The static mutex admits one call at a time and all state is the call's:
one call is modelled, with at least one GPU (otherwise it returns ENODEV at once).

**SplitMsm.** `l`, `a` and `b` go through the same passes with vectors of their own; one query is
modelled, with any density on inputs and auxiliaries, which covers all three. `MarkCircuit`
and `PopulateCircuit` are the bodies of the two `par_map`s, a step per circuit, because
circuits share only the merged mask (which no circuit writes then) and the bases (which only
circuit 0 writes). A chunk is the set of its bits, never-written memory is `Garbage`, and the mask
read past its end, which the code does when the points fill their chunks, gives `Garbage`
too: `SplitMsmIsMsm` holds all the same because that chunk is not used.

**StreamingReader, Pc2.** A page is named by its request, so memory says what was read into it.
`Pc2` has one action per state of the resource state machine in `hash_gpu` (`Idle`, `ReadData`,
`WaitData`, `HashColumn`, `HashColumnLeaves`, `HashLeaf`, `HashWait`), taken round robin by the main
thread; a visit that returns early is `Pass`. `load_layers` is one step per page (`LoadPage`), as its wait for
room can last. A stream carries out what it was asked in order (`GpuColumn`, `GpuLeaves`,
`GpuInner`) and then queues its callback, which one thread runs (`RunCallback`). The batcher is
`Dequeue`, `Bundle` and `Flush` on the three pools, with the indices of the code, the doubled increment in
`flush` included. Writers take a bundle and write its buffers; the CPU thread copies the results,
unlocks, builds the top rows and sends its message. Values are names of nodes
(`TreeFiles`): hashing the right children gives their parent's name, hashing anything else
`Garbage`, so "the tree is right" is an equation for every place in every file. Sectors of a batch go through
the same steps together: one is modelled.

**TreeBuilder, C1.** A builder returns what it writes by offset. With a pool a file is built chunk by
chunk in any order (`BuildChunk`) and merged (`FinishFile`). C1 is `Derive`, and per proof file
`Open`, then per challenge `WriteChallenge`, with `StartLoad`, `LoadNode` and `NodesLoaded` around the
streaming reader, and `Close`; `Combine` interleaves a tree and a node file. A proof file is
the sequence of its pieces and its length in bytes, counted field by field as the writers do;
`ProofSize` is the length the code computes beforehand.

**SrsCache.** A client is a thread of the Rust program with at most one `SRS`. Taking the cache's mutex is the
guard `lock = Null`; it stays with the client while it constructs or deletes. `Map`, `Spawn` and `Made` are the
constructor, `MapFails` and `CheckFails` its exceptions; `Reader_*` the thread that
reads the points with the object's mutex; `Release` is `~SRS`, and `Delete` its last act. Objects are reused like
addresses. `Get` is a getter, which waits for the reader; `Use` goes on without the mutex.

**Pipeline.** A thread per batch, a step per mutex acquired and per phase; a poll that fails is no
step. A page of the layers is `<<batch, number>>` at a block of a drive (`Place`: striping plus
offset). PC2 and C1 look at what is there at that moment; the C2 process takes sectors
with two threads from a shared counter and ends with the number of failures.

A definition whose name has a suffix after an underscore (`_Wrong`, `_Early`, `_NoCount`, ...) is the definition after it
with a plausible mistake; `PROJECT.json` pairs each property with one that TLC must find.

## 3. The runs

`tlc -config X.cfg Module` in this directory; sizes are distinct states.

| run | cfg | shows |
|---|---|---|
| `coordinator` | `Coordinator.cfg`, 39,512 | `BatchIntact`, `ReportedAreHashed`, `CopiedParentsAreHashed`; `Termination` (so no deadlock), `ReportsProgress`, refinement of `SectorWorker` |
| `pc1` | `MCPc1.cfg`, 1.95 million | one node per page, two graphs: `LabelsAreParents`, `WrittenLabelsAreOnDisk`, `RequestsAreDistinct`, `ReferencesBalance`, `CursorsAreSane` |
| `pc1_pages` | `MCPc1Pages.cfg`, 776,875 | `LabelsAreRight` with two coordinators and two nodes per page |
| `pc1_live` | `MCPc1Live.cfg`, 84,063 | `Completion` |
| `pc1_stall` | `MCPc1Stall.cfg` | the finding of section 5 |
| `mt_fifo` | `MtFifo.cfg`, 4,346 | `NeverNull`, refinement of `BoundedFifo` |
| `pc2` | `MCPc2.cfg`, 43,353 | `BundlesSuffice`, `BuffersHaveOneOwner`, `PAuxIsRight`, bounds of FIFO and device memory in `TypeOK`; refinement of `SectorTrees`; `Completes` |
| `c1` | `MCC1.cfg`, 148,756 | `ProofsAreRight`, `SizesAgree`, refinement of `SectorTrees`; `LoadReturns` |
| `groth16` | `Groth16.cfg`, 141,792 | `PreparedBeforeUse`, `ProofsAreComplete`, `ErrorsAreReturned`; `Returns` |
| `split_msm` | `SplitMsm.cfg`, 944,784 | `SplitMsmIsMsm`, `VectorsAreFilled` |
| `srs_cache` | `SrsCache.cfg`, 55,107 | `RefsCountHolders`, `OneOwner`, `PointsAreLoaded`, `CacheIsRight`; `CacheIsReleased` |
| `pipeline` | `MCPipeline.cfg`, 33,365 | `LayersAreKept`, `EverySectorIsProved`, `ContextIsReady`; `EveryBatchEnds` |

The type invariant of a module is a conjunct of one of its invariants (`CursorsAreSane`, `ProofsAreComplete`,
`VectorsAreFilled`, `ProofsAreRight`, `CacheIsRight`, `LayersAreKept`) or, in `Pc2`, stands by itself; those of
`Coordinator` and `MtFifo` are proved.

Bounds. Two hashers, since each synchronises with the coordinator only; four slots, three
usable, and seven batches, so that every slot is reused at least once and the drain at the end
starts from a full ring; the parent buffer is the smallest the contract allows, so the
coordinator is starved as often as possible. `Pc1`: two layers so that the previous
layer is both in the node buffer and on disk; the node buffer is six pages for eight
nodes, so slots are reused; the FIFO, the queue and the parent buffer are smaller than
what would be in flight, so each of them fills up; sync batches have two pages, so
the tail is both at and past the start of one; the graphs have a base parent at distance one,
one that is always node 0 and an expander that mirrors the layer. `CountMod` stands
for 2^16. Three slots in the FIFO are enough for it to be empty, partly filled,
full and wrapped. `Groth16`: two GPUs and three circuits, so that the shares are unequal
and one thread can fail while the other is anywhere. `SplitMsm`: two circuits, so
that a scalar can be 1 in one and significant in the other; one input and three auxiliaries with
chunks of two bits, so that there are none to two chunks, full and not, with the inputs ending
inside a chunk; 0, 1 and one significant value are all the code tells apart. `Pc2`: arity 2, two leaf items of four
nodes per stream, so that items have inputs from two others; both trees in two partitions on one stream, tree R on
two streams, bundles of two to four buffers, with a last bundle full and not; one writer and one empty bundle
more than are needed at a time, so the pools do run low. `C1`: arity 2 and sectors of two, five and six levels
(as 2 KiB, 8 or 512 MiB and 32 GiB have with arity 8), with one or two discarded rows, one file or two, with and without a pool, with and
without data (the small sector both ways); two challenges in two partitions, the first of them every leaf in turn. `SrsCache`: two clients, two files,
three objects and a cache of one entry, so that entries are dropped, evicted while used and made twice.
`Pipeline`: four batches in two slots on unequal drives with room for three slots, so that offsets and slots
wrap at different batches; two sectors; three pages a layer on two drives, so that a layer's last row is not full.

Assumptions about the environment, named in the modules:
- `BoundedLatency` (`Pc1`): when entries of the parent buffer are cleared and reserved, no read is in flight to one of
  them or to the entry after them, which is cleared for the next batch. The stale reads of node 0 (section 5) are not
  waited for by anybody, so nothing in the code excludes it; a lap of the buffer takes seconds, a read well under a
  millisecond. The proof showed that the reserved entries alone are not enough: a stale read that ends after
  `read_batch` cleared the next entry's counter and before it reserves the entry makes it valid one read too early.
  TLC finds a wrong label that way with two layers of six nodes and a parent buffer of three entries;
- `Pc1Assumption`: besides sizes, that parents in the same layer come before their node in every graph, as in the
  parent files the code is given, and that a local parent (`is_local`) is less than a lap of the node buffer away;
- `HashAhead` (`Pc1`): how far hashing may run ahead of the written tail. Only
  `pc1_live` assumes something (the others use a value beyond the last node); see section 5;
- `Pc2Assumption`: the reader's FIFO holds a batch of nodes, else `load_layers` never starts; there is a writer thread and a
  leaf item per stream; `Null` is neither a buffer nor an order to a stream;
- `C1Assumption`: the FIFO holds the nodes of a challenge, else `load_nodes` never returns; sectors other than 16 KiB;
  chunks of a pooled build at least as large as what is discarded (section 5);
- `PipelineAssumption`: the smallest drive has room for two slots;
- `SrsAssumption`: enough addresses for all objects alive at a time (a bound of the model, not of the code).
`ReaderAssumption` and `ArityAssumption` only exclude empty queues and an arity below two.

Fairness. Every thread is pinned to a core and spins: weak fairness of the
coordinator's next step and of each hasher's (`Coordinator`), of the orchestrator's and of
issuing reads and writes (`Pc1`). Drives complete what they are given: weak fairness of
completions. A mutex of `coord_ready_mtx` needs no more, because a hasher takes it at most
once per batch. In `Pc1` a coordinator is only obliged to move when `SectorWorker`
says so (`Obliged`): with less than `Lag` valid entries after its last report it may wait,
as the real one does while its batch is incomplete. `Groth16`: the threads are the operating
system's, so each that can go on does (`WF` of its next step); throwing is one of the ways to go
on, so nothing is forced to throw or to succeed. `Pc2`: each thread and each stream that can go on
does. `C1`: the thread in `load_nodes` and the reader. `SrsCache`: threads inside the library and reader
threads run; no client is forced to ask for anything, and who gets a mutex is not fair. `Pipeline`: every thread
and process that can go on does; `EveryBatchEnds` leaves out the batches of which two PC2s ended between two polls
(`Missed`), which no scheduling rules out.

## 4. The proofs

`tlapm` on each `*Proofs.tla`. The constants are arbitrary within the assumptions named in the component's module:
`CoordinatorAssumption` (at least one hasher, a ring of at least three slots, positive sizes),
`MtFifoAssumption` (at least two slots), `Groth16Assumption` (at least one GPU and one circuit), `Pc1Assumption`,
`Pc2Assumption`, `SrsAssumption` and `PipelineAssumption` (section 3). Every theorem about `Pc1` also has `BoundedLatency` as a hypothesis.

**Coordinator.** `BatchIntact` alone is not inductive: nothing in it says why a hasher is at
most a ring's length behind. `IInv` adds, named in the module: `CursorsOK`, where `tail`,
`size` and `batchIdx` stand relative to `completed` and `published`; `HashersOK`, that
`completed <= hashed <= published` for every hasher and that its index is the slot of the
batch it is at; `CountsOK`, that `doneCount` of a slot is exactly the number of hashers beyond
the batch in it; and `RingOK`, that the slot of a published batch holds all of it. The batch of
a slot is `BatchAt(s)`, counted from the tail, so that no modulo enters the arithmetic.
From `IInv`: `TypeCorrect`, `BatchIntactAlways`,
`ReportedAreHashedAlways`, `CopiedParentsAreHashedAlways` (a full ring less the slot kept
empty bounds the distance) and `Refinement`: every step is a step of `SectorWorker` or
leaves its variables unchanged.

**MtFifo.** `IInv` relates the producer's `free` and the consumer's `available` to the
present size: sizes seen earlier are on the safe side, because the other thread only
makes more room, or more requests. `Refinement` maps the slots between `tail` and `head`
to the abstract queue; storing into a slot is invisible, moving an index is the operation.

**Groth16.** `PreparedBeforeUse` is not inductive: a failing thread's notifications raise the
semaphore before the preparation is done. `IInv` says that without an exception the
semaphore is raised only by the preparation thread, which has set `prepared` by then, so a woken
thread either sees `caught` or finds the vectors complete; and, for `ErrorsAreReturned`,
that `caught` is set by a thread that threw, that a thread that threw is in its catch block or
has set `caught`, and that the one thread that told the others sets `ret` before it ends.

For `ProofsAreComplete`, `WInv` adds where each thread is in its share (`PlaceOK`), that what is behind it has been
computed once and what is before it not at all (`WorkOK`), and the same of the split queries' tails (`TailOK`). The
shares of unequal threads cover the circuits without overlap: a lemma about quotient and remainder.

**Pc1, the cursors** (`Pc1Proofs`). `CInv` is the order of the eleven cursors and of the three counters of each
coordinator (`OrderOK`), the sampled minimum as a bound that may be old (`SampleOK`), the room in both rings in whole
pages (`SpaceOK`), the reader's FIFO as the slots of the last nodes prepared (`FifoOK`), and the entries not yet
prepared as clear, with nothing on its way to them (`FreshOK`). It gives `CursorsAreSane` (`process` never exits with
"Unexpected tail/parent node values") and `RequestsAreDistinct`.

**Pc1, the labels** (`Pc1LabelProofs`). `WInv` follows a page from the moment the writer gets it until the written tail
passes it, and says that a label stays in its place for a lap of the node buffer; it gives
`WrittenLabelsAreOnDisk`. `EInv` says that every pointer of an entry in use leads to the right label, in the node buffer
less than a lap back or in a page read from disk that was below the written tail when the read was set up, and that the
valid counter is short by exactly the reads that are out (in the FIFO or at the drive); it gives `LabelsAreParents`, and both
give `LabelsAreRight`. The reference counts are not needed for this: what overwrites a label is the
same coordinator's hashing one lap later, and it reads before it writes. What they count is right all the same:
`RInv` says that they differ by what the entries in use hold, up to a multiple of the modulus, which stays true
when they are cleared because they are cleared only when equal; it gives `ReferencesBalance`.

**Pc2** (`Pc2Proofs`). `size()` is asked before a stream starts and says nothing of the buffers other streams will bring
back, so `BundlesSuffice` needs a balance: places in empty bundles plus buffers used of the bundle at hand equal the places of
the empty bundles at the start plus the buffers that are out (`DiskOK`). A buffer is out while its stream or its callback has it
(`Out`, `StreamsOK`), which only a resource that waits can own (`MainOK`), and bundles are neither lost nor doubled
among pools, batcher and writers (`WritersOK`). Fewer buffers of the bundle at hand are used than a bundle has, and there is at
least one empty bundle at the start: so there is always a place more than buffers that are out. When all resources are done the balance leaves
one solution, both bundles used alike. `BundlesSufficeAlways` assumes `FlushesInBounds`: a flush before the last partition
has at most one place to fill. With more it takes buffers of the next bundle (section 5) and the balance is lost. The
sizes of `do_pc2` give it (the sectors of several files that it builds on GPUs, 16 MiB and up, have 64 streams (`pc2.hpp:98`), bundles
have 64 buffers, and streams use equally many buffers, so nothing is left to fill), and so do those of the run, whose call with two
partitions has bundles of two buffers; that they do follows from the plan of all work items, which is induction over data. For a
16 MiB sector, which has two files, `tools/pc2.cu:64` takes 8 streams: this reason is not one for it, and the theorem says nothing unless the
condition holds. `OneFileSuffices` needs no such condition.

The balance counts and does not say which buffer is where, so `BuffersHaveOneOwner` needs `Own` on top of it. Every bundle has one
spot, one of the three pools, the batcher's two bundles and the writers, and pools name no bundle twice (`Located`); no two writers have the same bundle
(`WritersApart`). `Kept` are the slots in use with their buffers: all slots of a full bundle, of one that waits for the disk or is
being written, those of the bundle at hand not yet taken, those of the one being filled already used. `OutMap` gives each place in `Out`
its buffer: for a stream the one it was given, for a callback the one its operation returns, both counted from the callback's
end, so that nothing moves when a stream becomes a callback. `Owned` says that the two functions are injective, have no buffer in common and miss none.
`Dequeue` moves a place from `Kept` to `OutMap` and `Bundle` one back; a writer's steps and the start of a partition change the spot
of a bundle but not what it keeps; a flush with one place to fill takes the last buffer of the bundle at hand, where the balance says
that both bundles are used alike; after the last flush the property asks nothing. From there `BuffersHaveOneOwnerAlways`, under `FlushesInBounds`, and `OneFileOneOwner`, without it.

**SrsCache.** The counts are inductive only together with who owns an object (`OwnerOK`, `ObjectOK`), what each
place of a client promises (`ClientOK`) and with the cache not changing behind the client that has its mutex (`CacheOK`). That
a constructor always finds a free address is a pigeonhole argument over clients and entries.

**Pipeline.** Slots go by a batch's number and blocks by free space, and nothing in the code connects the two. What does is
that batches start PC1 in order (`OrderOK`): while a batch has its slot, no batch two or more after it has one (`SlotOK`),
so that only neighbours are on the drives together, and a batch's offset is a slot away from its neighbour's,
wrapped or not (`OffsetOK`). From there `DiskOK` gives `LayersAreKept`, and `FilesOK` and `C2OK` give `EverySectorIsProved`.

The inductive invariants were checked by TLC on the runs' instances first. Only model-checked:
- all liveness (`Termination`, `ReportsProgress`, `Completion`, `Completes`, `LoadReturns`, `Returns`, `CacheIsReleased`,
  `EveryBatchEnds`), which this prover does not do;
- `Pc2`: its `TypeOK` (the bound of device buffers is about the planner's order and powers of the arity), `PAuxIsRight`,
  and that it implements `SectorTrees`;
- `C1` and `SplitMsm`: what they promise is the value of folds and of the recursive functions of `TreeFiles` and `TreeBuilder`
  for every size, which needs induction over data. So do `PAuxIsRight` and the contents of the files in `Pc2`.

## 5. Findings and remarks

One run is expected to be violated; the quote is in `PROJECT.json`.
- `pc1_stall`: with slow writes, references to unwritten pages hold the tail of the node buffer and
  stop PC1. `pc1_live` shows that it completes when hashing stays close to the written tail.

Seen while modelling, without a run; the models follow the code, or an assumption named above excludes the case.

PC1:
- an incomplete last batch is never published, and the coordinator waits for it
  (`coordinator_t.hpp:601`): a 2 KiB sector has 128 nodes and batches of 256;
- the entry of node 0 of a later layer becomes valid through reads of stale descriptors
  (`orchestrator_t.hpp:311`; "A valid bit indicates when the data is ready for consumption",
  `pc1/README.md:82`); no label is affected, since `hash()` uses no parent of a node 0;
- references keep a sync batch only if taken before the tail enters it (`orchestrator_t.hpp:710`); no wrong
  label results (`LabelsAreParents`);
- pages are released as early as possible, though the comment at `orchestrator_t.hpp:702` says only when the buffer
  is full: the limit is the buffer's size.

PC2, trees and C1:
- `flush` advances its index twice per buffer and ends with a bundle in the pool of full ones
  (`pc2.cu:503-515`): harmless with the sizes of the code, and part of the model;
- `gpu_results_in_use` is a mutex that a callback or the CPU thread unlocks after the main thread locked it;
- `assert`s with side effects do nothing under `NDEBUG`; two assertions of `p_aux_write` contradict each other
  (`supra_seal.cpp:326-328`);
- C1's re-hashing of three levels does not fit 16 KiB sectors, with three levels and one discarded row
  (`tree_proof.hpp:139`); `get_comm_from_tree` indexes by arity whatever the number of files;
- a pooled build with more than 128 threads of an 8 or 16 MiB sector has chunks smaller than the discarded rows;
- `do_pc2_cpu` writes no sealed file and does not use `data_filenames`: its tree-r is over the last layer even if there is
  data (`pc2.hpp:39-41`). `C1` has the encoding of `BuildTreeR` (`tree_r.hpp:121-153`), as `tools/pc2.cu` calls it, and so stands for
  `do_pc2_cpu` without data only; `SECTOR_CALL_TABLE` does nothing
  for one sector, nor for any number that is not a power of two up to 128.

C2 and pipeline:
- the layout check of an SRS file counts the points of `b_g2` with the size of a G1 point
  (`groth16_srs.cuh:251`), so a file cut short may pass; a failed lookup of a full cache has dropped an entry by then;
- a batch waits for `pc2_counter` being equal to its number plus two and looks every 100 ms (`main.rs:424`):
  if another PC2 ends in between it waits for ever (`Missed`);
- two batches may be in C1 at once, on the same queue pairs, though `nvme_controller_t.hpp:107` wants one
  thread per pair; return codes of the phases are ignored; nothing checks that the drives have room for two slots.

## 6. Not modelled

Hash, field and curve arithmetic and CUDA kernels: one step each. Parsing of configuration and SRS files,
command lines, printing and statistics. SPDK itself, probing and set-up; drive errors end the process
in the code and are left out. `sequential_io_t`, which only `node_read()` uses, keeps one loop's state. The file-based node reader of C1
has no concurrency. The encoding of single proof fields. The lifetime of the coordinator object against its hasher threads, and what happens inside
SPDK when two threads share a queue pair, are listed as hazards without a property.

## 7. The plan

Done: `Coordinator`, `Pc1`, `MtFifo`, `Groth16`, `SplitMsm`; then `StreamingReader`, `Planner`, `Pc2`, `TreeBuilder`, `C1`,
`SrsCache` and `Pipeline`, with `SectorTrees` as the contract between the builders and C1; then the proofs of all
safety invariants of `Coordinator`, `MtFifo`, `Groth16`, `Pc1`, `SrsCache` and `Pipeline`, and of both invariants of `Pc2`'s
batcher. Left: a module `RingBuffer` in which `ring_buffer_t` and `ring_counter_t` refine the absolute cursors of `Pc1`.
