--------------------------------- MODULE Pc2 ---------------------------------
(* PC2 on the GPUs: pc2_t::hash, hash_gpu, hash_cpu, process_writes and the     *)
(* batcher of disk buffers.  One main thread walks round robin over the       *)
(* resources (GPU streams), the streams work on their own, one thread runs    *)
(* their callbacks, writer threads empty the queue of bundles, and one thread *)
(* builds the top of the last partition's trees while the GPUs work on the    *)
(* next.  Sectors are sealed in lockstep: one is modelled.                    *)
EXTENDS Planner, StreamingReader, FiniteSets

CONSTANTS BatchSize,      \* nodes per work item
          LeafItems,      \* leaf items per stream and partition, a power of Arity
          DiscardRows,    \* GetNumTreeRDiscardRows
          NodesPerPage,
          NumLayers,      \* layers of labels
          Writers,        \* writer threads
          Configs,        \* the calls: see ConfigType
          Null            \* nullptr

\* A call.  streams: stream_count; parts: GetNumTreeRCFiles; rOnly: tree_r_only;
\* nonCC: some sector has data; bundle: disk_io_batch_size; full, empty:
\* num_host_batches, num_host_empty_batches
ConfigType == [streams : Nat \ {0}, parts : Nat \ {0}, rOnly : BOOLEAN, nonCC : BOOLEAN,
               bundle : Nat \ {0}, full : Nat \ {0}, empty : Nat \ {0}]

StreamNodes == LeafItems * BatchSize               \* nodes_per_stream
GroupSize == BatchSize \div Arity                  \* nodes an item produces

ASSUME Pc2Assumption ==
    /\ GroupSize > 0 /\ GroupSize % Arity = 0
    /\ DiscardRows > 0
    /\ LeafItems \in Nat \ {0}
    /\ Writers # {} /\ IsFiniteSet(Writers)
    /\ BatchSize % NodesPerPage = 0
    /\ BatchSize <= ReadFifo      \* else load_layers waits for ever
    /\ Configs \subseteq ConfigType
    /\ \A c \in Configs : 0 .. c.streams - 1 \subseteq Slots
    /\ Null \notin Nat
    /\ Null \notin [kind : {"column", "leaves", "inner"}, c : Nat \cup {Null}, r : Nat \cup {Null}]

VARIABLES cfg,       \* the call
          part,      \* partition the main thread is at
          mpc,       \* its place
          cur,       \* resource it looks at
          load,      \* progress of load_layers
          res,       \* the resources
          gpu,       \* device memory: node buffers of each resource
          stream,    \* what a stream has been asked to do
          jobs,      \* callbacks waiting for, or in, the notify thread
          bufs,      \* host buffers: destination, size and data
          bundles,   \* batch objects: the buffers they hold
          pools,     \* host_buf_pool_full, host_buf_pool_empty, host_buf_to_disk
          batcher,   \* pc2_batcher_t
          writer,    \* bundle each writer holds, or its state
          terminate,
          locked,    \* gpu_results_in_use
          results,   \* gpu_results_c and gpu_results_r
          cpu,       \* the CPU hashing thread
          channel,   \* messages in the channel
          files,     \* what is at each place of each file
          roots,     \* partition roots of each tree
          pAux       \* roots written to p_aux

mainVars == <<part, mpc, cur, load>>
gpuVars  == <<gpu, stream>>
diskVars == <<bufs, bundles, pools, batcher>>
cpuVars  == <<cpu, channel, roots, pAux>>
vars == <<cfg, mainVars, res, gpuVars, jobs, diskVars, writer, terminate, locked,
          results, cpuVars, files, readerVars>>

Trees == {"c", "r"}
StreamCount == cfg.streams
Streams == 0 .. StreamCount - 1                    \* resources, by id
PartNodes == StreamCount * StreamNodes             \* nodes_to_read

-----------------------------------------------------------------------------
(* Places in the files, and the values that belong there.                     *)

RSkip == DiscardRows + 1
NodesOf(call, tree) ==
    LET n == call.streams * StreamNodes
    IN  IF tree = "c" THEN n ELSE LayerSize(n, RSkip)
TreeNodes(tree) == NodesOf(cfg, tree)
TopNodes == GroupSize * StreamCount      \* results of all streams
TopCount == TopNodes \div Arity          \* nodes_to_hash

\* final_gpu_offset_c and final_gpu_offset_r
FinalGpuOffset(tree) == DataSize(TreeNodes(tree)) - DataSize(TopCount)

\* layer_offsets_c and layer_offsets_r: nodes of a stream in a file layer
StreamLayer(tree, layer) ==
    StreamNodes \div (Arity ^ (IF tree = "c" THEN layer ELSE layer + RSkip))

Place(file, p, offset) == <<file, p, offset>>
PlacesOf(call) ==
    UNION {{Place(tree, p, o) : p \in 0 .. call.parts - 1,
                                o \in 0 .. DataSize(NodesOf(call, tree)) - 1} : tree \in Trees}
    \cup {Place("sealed", 0, o) : o \in 0 .. call.parts * call.streams * StreamNodes - 1}
Blank == <<"blank", 0, 0>>

\* What the leaves of tree-r are: labels of the last layer, or encoded data
LeafName(call) == IF call.nonCC THEN "encoded" ELSE "label"
ReplicaLeaf == LeafName(cfg)

\* The value a place must end up with
RightValue(call, place) ==
    IF place[1] = "sealed" THEN Node(LeafName(call), 0, place[3])
    ELSE FileNode(place[1], NodesOf(call, place[1]), IF place[1] = "c" THEN 0 ELSE RSkip,
                  place[2], place[3])

\* Places PC2 fills: building tree-r alone leaves tree-c out
Wanted(call) == {p \in PlacesOf(call) : call.rOnly => p[1] # "c"}

-----------------------------------------------------------------------------
(* Host buffers, bundles and the batcher.  Bundle objects are numbered as in   *)
(* host_batches, which is contiguous.                                         *)

Objects == 0 .. cfg.full + cfg.empty - 1
BufferIds == 0 .. cfg.full * cfg.bundle - 1
Slot == 0 .. cfg.bundle - 1                        \* places in a bundle

\* A writer thread: looking for a bundle, writing one, or at its end
Polling == [running |-> TRUE, object |-> Null]
Holding(object) == [running |-> TRUE, object |-> object]
Stopped == [running |-> FALSE, object |-> Null]

\* pc2_batcher_t::size
BatcherSize ==
    LET side(object, idx, pool) ==
            (IF object = Null THEN 0 ELSE cfg.bundle - idx) + Len(pool) * cfg.bundle
        a == side(batcher.unbundle, batcher.iu, pools.full)
        b == side(batcher.bundle, batcher.ib, pools.empty)
    IN  IF a < b THEN a ELSE b

\* A state of the disk side, so that calls can follow each other in a step
Disk == [bundles |-> bundles, pools |-> pools, batcher |-> batcher]

\* The emptied bundle is not handed over
Dequeue_Lose(d) ==
    LET used == d.batcher.iu + 1 = cfg.bundle
    IN  [buf  |-> d.bundles[d.batcher.unbundle][d.batcher.iu],
         disk |-> [d EXCEPT
            !.pools.full = IF used THEN Tail(@) ELSE @,
            !.batcher.unbundle = IF used THEN Head(d.pools.full) ELSE @,
            !.batcher.iu = IF used THEN 0 ELSE @ + 1]]

\* pc2_batcher_t::dequeue: the buffer, Null if there is none
Dequeue(d) ==
    LET fresh  == d.batcher.unbundle = Null
        none   == fresh /\ d.pools.full = <<>>
        object == IF fresh THEN Head(d.pools.full) ELSE d.batcher.unbundle
        full   == IF fresh THEN Tail(d.pools.full) ELSE d.pools.full
        used   == d.batcher.iu + 1 = cfg.bundle
    IN  IF none THEN [buf |-> Null, disk |-> d]
        ELSE [buf  |-> d.bundles[object][d.batcher.iu],
              disk |-> [d EXCEPT
                 !.pools.full = full,
                 !.pools.empty = IF used THEN Append(@, object) ELSE @,
                 !.batcher.unbundle = IF used THEN Null ELSE object,
                 !.batcher.iu = IF used THEN 0 ELSE @ + 1]]

\* pc2_batcher_t::enqueue; without an empty bundle the assertion fails
CanBundle(d) == d.batcher.bundle # Null \/ d.pools.empty # <<>>
Bundle_Twice(d, buf) ==
    LET object == IF d.batcher.bundle = Null THEN Head(d.pools.empty) ELSE d.batcher.bundle
    IN  [d EXCEPT !.bundles[object] = [j \in 0 .. cfg.bundle - 1 |-> buf],
                  !.pools.empty = IF d.batcher.bundle = Null THEN Tail(@) ELSE @,
                  !.pools.disk = Append(@, object),
                  !.batcher.bundle = Null]
Bundle(d, buf) ==
    LET fresh  == d.batcher.bundle = Null
        object == IF fresh THEN Head(d.pools.empty) ELSE d.batcher.bundle
        full   == d.batcher.ib + 1 = cfg.bundle
    IN  [d EXCEPT
           !.bundles[object][d.batcher.ib] = buf,
           !.pools.empty = IF fresh THEN Tail(@) ELSE @,
           !.pools.disk = IF full THEN Append(@, object) ELSE @,
           !.batcher.bundle = IF full THEN Null ELSE object,
           !.batcher.ib = IF full THEN 0 ELSE @ + 1]

SetDisk(d) ==
    /\ bundles' = d.bundles
    /\ pools' = d.pools
    /\ batcher' = d.batcher

\* Flushing a partial bundle: slot i of an object, running on into the objects
\* after it as the array index of the code does
ElementAt(object, i) == bundles[object + i \div cfg.bundle][i % cfg.bundle]

\* pc2_batcher_t::flush.  The rest of the bundle is filled with unused buffers of
\* size 0; both increments of idx_unbundle are in the code, so every other
\* buffer is taken, from the next object too.
Flush ==
    /\ mpc = "flush"
    /\ \A r \in Streams : stream[r] = Null                  \* stream.sync
    /\ LET b == batcher
           taken == [j \in b.ib .. cfg.bundle - 1 |->
                        ElementAt(b.unbundle, b.iu + 2 * (j - b.ib))]
       IN  IF b.ib > 0
           THEN /\ bufs' = [x \in BufferIds |->
                       IF \E j \in DOMAIN taken : taken[j] = x
                       THEN [bufs[x] EXCEPT !.size = 0] ELSE bufs[x]]
                /\ bundles' = [bundles EXCEPT ![b.bundle] =
                       [j \in 0 .. cfg.bundle - 1 |->
                           IF j \in DOMAIN taken THEN taken[j] ELSE @[j]]]
                /\ pools' = [pools EXCEPT !.disk = Append(@, b.bundle),
                                          !.empty = Append(@, b.unbundle)]
           ELSE /\ pools' = [pools EXCEPT
                       !.empty = IF b.bundle # Null THEN Append(@, b.bundle) ELSE @,
                       !.full = IF b.unbundle # Null THEN Append(@, b.bundle) ELSE @]
                /\ UNCHANGED <<bufs, bundles>>
    /\ batcher' = [unbundle |-> Null, bundle |-> Null, iu |-> 0, ib |-> 0]
    /\ terminate' = TRUE
    /\ mpc' = "writers"
    /\ UNCHANGED <<cfg, part, cur, load, res, gpuVars, jobs, writer, locked, results,
                   cpuVars, files, readerVars>>

-----------------------------------------------------------------------------
(* The resources: the cases of the switch in hash_gpu.                        *)

\* gpu_resource_t::reset; column and replica are its device and host copies
Reset(r) == [res[r] EXCEPT !.state = "IDLE", !.last = FALSE, !.done = TRUE,
                           !.sc = ResetScheduler(LeafItems),
                           !.sr = ResetScheduler(LeafItems)]

\* hash_gpu up to its loop: reset, start the writers, make the batcher
StartPartition ==
    /\ mpc = "start"
    /\ res' = [r \in Streams |-> Reset(r)]
    /\ terminate' = FALSE
    /\ writer' = [w \in Writers |-> Polling]
    /\ pools' = [pools EXCEPT !.full = Tail(@), !.empty = Tail(@)]
    /\ batcher' = [unbundle |-> Head(pools.full), bundle |-> Head(pools.empty),
                   iu |-> 0, ib |-> 0]
    /\ mpc' = "loop"
    /\ cur' = 0
    /\ UNCHANGED <<cfg, part, load, gpuVars, jobs, bufs, bundles, locked, results,
                   cpuVars, files, readerVars>>

At(r, state) == mpc = "loop" /\ cur = r /\ res[r].state = state
NextResource == cur' = (cur + 1) % StreamCount

\* What a visit of the main thread leaves alone unless it says otherwise
VisitFrame == UNCHANGED <<cfg, part, jobs, writer, terminate, results, cpuVars, files>>

Idle(r) ==
    LET c == SchedulerNext(res[r].sc, res[r].pool)
        t == SchedulerNext(res[r].sr, c.bufs)
    IN  /\ At(r, "IDLE")
        /\ res' = [res EXCEPT ![r].sc = c.sched, ![r].sr = t.sched, ![r].pool = t.bufs,
                              ![r].wc = c.work, ![r].wr = t.work, ![r].last = ~c.more,
                              ![r].state = IF c.work.leaf THEN "DATA_READ" ELSE "HASH_LEAF"]
        /\ NextResource
        /\ VisitFrame
        /\ UNCHANGED <<mpc, load, gpuVars, diskVars, locked, readerVars>>

\* load_layers starts: the counter of the slot is cleared
ReadData(r) ==
    /\ At(r, "DATA_READ")
    /\ res' = [res EXCEPT ![r].start = res[r].wc.node * BatchSize + StreamNodes * r
                                       + part * PartNodes]
    /\ valid' = [valid EXCEPT ![r] = 0]
    /\ load' = [layer |-> 0, page |-> 0]
    /\ mpc' = "load"
    /\ VisitFrame
    /\ UNCHANGED <<cur, gpuVars, diskVars, locked, rfifo, reading, pages>>

LoadedLayers == IF cfg.rOnly THEN 1 ELSE NumLayers
FirstLayer == IF cfg.rOnly THEN NumLayers - 1 ELSE 0
PagesPerLayer == BatchSize \div NodesPerPage

\* Before the first request of a layer load_layers waits for as many free places in
\* the FIFO as the layer has nodes
RoomToLoad == load.page = 0 => ReadFifo - Len(rfifo) >= BatchSize

\* One request of load_layers
LoadPage ==
    LET r == cur
        lastPage == load.page = PagesPerLayer - 1
        finished == lastPage /\ load.layer = LoadedLayers - 1
    IN  /\ mpc = "load"
        /\ RoomToLoad
        /\ Enqueue(Request(r, load.layer * PagesPerLayer + load.page,
                           <<FirstLayer + load.layer,
                             res[r].start + load.page * NodesPerPage>>))
        /\ load' = IF lastPage THEN [layer |-> load.layer + 1, page |-> 0]
                               ELSE [load EXCEPT !.page = @ + 1]
        /\ IF finished
           THEN /\ res' = [res EXCEPT ![r].state = "DATA_WAIT"]
                /\ mpc' = "loop"
                /\ NextResource
           ELSE UNCHANGED <<res, mpc, cur>>
        /\ VisitFrame
        /\ UNCHANGED <<gpuVars, diskVars, locked, reading, valid, pages>>

\* Labels of the nodes in a slot: right where all layers loaded hold the same node
HostColumn(r) ==
    [i \in 1 .. BatchSize |->
        LET p  == (i - 1) \div NodesPerPage
            at(k) == pages[r][k * PagesPerLayer + p]
        IN  IF /\ \A k \in 0 .. LoadedLayers - 1 : k * PagesPerLayer + p \in DOMAIN pages[r]
               /\ \A k \in 0 .. LoadedLayers - 1 : at(k) = <<FirstLayer + k, at(0)[2]>>
            THEN Node("label", 0, at(0)[2] + ((i - 1) % NodesPerPage))
            ELSE Garbage]

\* Encoding: only labels of the last layer can be encoded
Encode(block) == [i \in DOMAIN block |->
    IF block[i][1] = "label" THEN Node(ReplicaLeaf, 0, block[i][3]) ELSE Garbage]

\* DATA_WAIT: encode the last layer and send it to the sealed file
DataReady(r) == valid[r] = LoadedLayers * PagesPerLayer /\ BatcherSize >= 1
WaitData(r) ==
    LET got == Dequeue(Disk)
        replica == Encode(HostColumn(r))
    IN  /\ At(r, "DATA_WAIT")
        /\ DataReady(r)
        /\ CanBundle(got.disk)
        /\ bufs' = [bufs EXCEPT ![got.buf] =
               [file |-> "sealed", part |-> 0, offset |-> res[r].start,
                size |-> BatchSize, data |-> replica]]
        /\ SetDisk(Bundle(got.disk, got.buf))
        /\ res' = [res EXCEPT ![r].replica = replica,
               ![r].state = IF cfg.rOnly THEN "HASH_COLUMN_LEAVES" ELSE "HASH_COLUMN"]
        /\ NextResource
        /\ VisitFrame
        /\ UNCHANGED <<mpc, load, gpuVars, locked, readerVars>>

\* A disk buffer for `size' nodes of a layer of a tree's file, to be filled by the stream
TreeBuffer(r, tree, layer, item, size) ==
    [file |-> tree, part |-> part, size |-> size, data |-> <<>>,
     offset |-> Address(TreeNodes(tree), layer, item * size + StreamLayer(tree, layer) * r)]

\* HASH_COLUMN: column hashes, layer 0 of tree-c
HashColumn(r) ==
    LET got == Dequeue(Disk)
    IN  /\ At(r, "HASH_COLUMN")
        /\ BatcherSize >= 1
        /\ SetDisk(got.disk)
        /\ bufs' = [bufs EXCEPT ![got.buf] =
               TreeBuffer(r, "c", res[r].wc.layer - 1, res[r].wc.node, BatchSize)]
        /\ stream' = [stream EXCEPT ![r] = [kind |-> "column", c |-> got.buf, r |-> Null]]
        /\ res' = [res EXCEPT ![r].done = FALSE, ![r].state = "HASH_COLUMN_LEAVES"]
        /\ NextResource
        /\ VisitFrame
        /\ UNCHANGED <<mpc, load, gpu, locked, readerVars>>

\* HASH_COLUMN_LEAVES: layer 1 of both trees; that of tree-r is never written
LeavesReady(r) == res[r].done /\ (cfg.rOnly \/ BatcherSize >= 1)
HashColumnLeaves(r) ==
    LET got == IF cfg.rOnly THEN [buf |-> Null, disk |-> Disk] ELSE Dequeue(Disk)
    IN  /\ At(r, "HASH_COLUMN_LEAVES")
        /\ LeavesReady(r)
        /\ SetDisk(got.disk)
        /\ bufs' = IF cfg.rOnly THEN bufs ELSE
               [bufs EXCEPT ![got.buf] =
                   TreeBuffer(r, "c", res[r].wc.layer, res[r].wc.node, GroupSize)]
        /\ stream' = [stream EXCEPT ![r] = [kind |-> "leaves", c |-> got.buf, r |-> Null]]
        /\ res' = [res EXCEPT ![r].done = FALSE, ![r].state = "HASH_WAIT"]
        /\ NextResource
        /\ VisitFrame
        /\ UNCHANGED <<mpc, load, gpu, locked, readerVars>>

\* HASH_LEAF: an inner item of both trees.  The last one of a resource needs the
\* place its results go to, until its callback.
WritesR(r) == res[r].wr.layer > DiscardRows
LeafBuffers(r) == (IF cfg.rOnly THEN 0 ELSE 1) + (IF WritesR(r) THEN 1 ELSE 0)
LeafReady(r) == BatcherSize >= LeafBuffers(r) /\ (res[r].last => ~locked)
HashLeaf(r) ==
    LET none  == [buf |-> Null, disk |-> Disk]
        gotC  == IF cfg.rOnly THEN none ELSE Dequeue(Disk)
        gotR  == IF WritesR(r) THEN Dequeue(gotC.disk) ELSE [none EXCEPT !.disk = gotC.disk]
        w     == res[r].wc
    IN  /\ At(r, "HASH_LEAF")
        /\ LeafReady(r)
        /\ locked' = (locked \/ res[r].last)
        /\ SetDisk(gotR.disk)
        /\ bufs' = [x \in BufferIds |->
               CASE x = gotC.buf -> TreeBuffer(r, "c", w.layer, w.node, GroupSize)
                 [] x = gotR.buf -> TreeBuffer(r, "r", w.layer - RSkip, w.node, GroupSize)
                 [] OTHER -> bufs[x]]
        /\ stream' = [stream EXCEPT ![r] = [kind |-> "inner", c |-> gotC.buf, r |-> gotR.buf]]
        /\ res' = [res EXCEPT ![r].done = FALSE, ![r].state = "HASH_WAIT"]
        /\ NextResource
        /\ VisitFrame
        /\ UNCHANGED <<mpc, load, gpu, readerVars>>

HashWait(r) ==
    /\ At(r, "HASH_WAIT")
    /\ res[r].done
    /\ res' = [res EXCEPT ![r].state = IF res[r].last THEN "DONE" ELSE "IDLE"]
    /\ NextResource
    /\ VisitFrame
    /\ UNCHANGED <<mpc, load, gpuVars, diskVars, locked, readerVars>>

\* A visit that finds nothing to do goes on to the next resource
Pass(r) ==
    /\ mpc = "loop" /\ cur = r
    /\ CASE res[r].state = "DATA_WAIT" -> ~DataReady(r)
         [] res[r].state = "HASH_COLUMN" -> BatcherSize < 1
         [] res[r].state = "HASH_COLUMN_LEAVES" -> ~LeavesReady(r)
         [] res[r].state = "HASH_LEAF" -> ~LeafReady(r)
         [] res[r].state = "HASH_WAIT" -> ~res[r].done
         [] res[r].state = "DONE" -> \E s \in Streams : res[s].state # "DONE"
         [] OTHER -> FALSE
    /\ NextResource
    /\ VisitFrame
    /\ UNCHANGED <<mpc, load, res, gpuVars, diskVars, locked, readerVars>>

\* A pass over the resources that finds all of them done ends the loop
AllDone ==
    /\ mpc = "loop"
    /\ \A r \in Streams : res[r].state = "DONE"
    /\ mpc' = "flush"
    /\ VisitFrame
    /\ UNCHANGED <<cur, load, res, gpuVars, diskVars, locked, readerVars>>

-----------------------------------------------------------------------------
(* The GPUs and the thread that runs their callbacks.                         *)

Put(memory, buf, block) == (buf :> block) @@ memory

Inputs(memory, item) ==
    FoldLeft(\o, <<>>, [i \in 1 .. Arity |-> memory[item.inputs[i - 1]]])

Fill(b, buf, block) == [x \in BufferIds |-> IF x = buf THEN [b[x] EXCEPT !.data = block] ELSE b[x]]

Callback_NoUnlock(r, s) ==
    [res |-> r,
     ops |-> (IF s.c # Null THEN <<[op |-> "bundle", buf |-> s.c]>> ELSE <<>>)
             \o (IF s.r # Null THEN <<[op |-> "bundle", buf |-> s.r]>> ELSE <<>>)
             \o <<[op |-> "done"]>>]

\* The callback of an operation: what it does, in order
Callback(r, s) ==
    [res |-> r,
     ops |-> (IF s.kind = "inner" /\ res[r].last THEN <<[op |-> "unlock"]>> ELSE <<>>)
             \o (IF s.c # Null THEN <<[op |-> "bundle", buf |-> s.c]>> ELSE <<>>)
             \o (IF s.r # Null THEN <<[op |-> "bundle", buf |-> s.r]>> ELSE <<>>)
             \o <<[op |-> "done"]>>]

\* A stream does what it was asked to, copies the results to the host, and hands
\* the callback to the notify thread
GpuFrame == UNCHANGED <<cfg, mainVars, bundles, pools, batcher, writer, terminate, locked,
                        cpuVars, files, readerVars>>

Notify(r) ==
    /\ jobs' = Append(jobs, Callback(r, stream[r]))
    /\ stream' = [stream EXCEPT ![r] = Null]

GpuColumn(r) ==
    LET device == HostColumn(r)
        hashed == [i \in DOMAIN device |->
                      IF device[i][1] = "label" THEN Node("c", 0, device[i][3]) ELSE Garbage]
    IN  /\ stream[r] # Null
        /\ stream[r].kind = "column"
        /\ res' = [res EXCEPT ![r].column = device]
        /\ gpu' = [gpu EXCEPT ![r] = Put(@, res[r].wc.buf, hashed)]
        /\ bufs' = Fill(bufs, stream[r].c, hashed)
        /\ Notify(r)
        /\ GpuFrame
        /\ UNCHANGED results

GpuLeaves(r) ==
    LET c == res[r].wc.buf
        memory == IF cfg.rOnly THEN gpu[r] ELSE Put(gpu[r], c, HashBatch("c", "c", gpu[r][c]))
        leaves == IF cfg.nonCC \/ cfg.rOnly THEN res[r].replica ELSE res[r].column
    IN  /\ stream[r] # Null
        /\ stream[r].kind = "leaves"
        /\ gpu' = [gpu EXCEPT ![r] =
               Put(memory, res[r].wr.buf, HashBatch("r", ReplicaLeaf, leaves))]
        /\ bufs' = IF cfg.rOnly THEN bufs ELSE Fill(bufs, stream[r].c, memory[c])
        /\ Notify(r)
        /\ GpuFrame
        /\ UNCHANGED <<res, results>>

\* tree-c is hashed first: tree-r's output may be in a buffer of tree-c's inputs
GpuInner(r) ==
    LET c == res[r].wc
        t == res[r].wr
        first  == IF cfg.rOnly THEN gpu[r]
                  ELSE Put(gpu[r], c.buf, HashBatch("c", "c", Inputs(gpu[r], c)))
        memory == Put(first, t.buf, HashBatch("r", "r", Inputs(first, t)))
        stash(tree, item) == IF res[r].last /\ ~(tree = "c" /\ cfg.rOnly)
                             THEN [results[tree] EXCEPT ![r] = memory[item.buf]]
                             ELSE results[tree]
        withC  == IF cfg.rOnly THEN bufs ELSE Fill(bufs, stream[r].c, first[c.buf])
    IN  /\ stream[r] # Null
        /\ stream[r].kind = "inner"
        /\ gpu' = [gpu EXCEPT ![r] = memory]
        /\ bufs' = IF stream[r].r = Null THEN withC ELSE Fill(withC, stream[r].r, memory[t.buf])
        /\ results' = [c |-> stash("c", c), r |-> stash("r", t)]
        /\ Notify(r)
        /\ GpuFrame
        /\ UNCHANGED res

\* One step of the callback at the head of the notify thread's queue
RunCallback ==
    LET job == Head(jobs)
        op  == Head(job.ops)
    IN  /\ jobs # <<>>
        /\ jobs' = IF Len(job.ops) = 1 THEN Tail(jobs)
                   ELSE [jobs EXCEPT ![1].ops = Tail(@)]
        /\ \/ /\ op.op = "unlock"
              /\ locked' = FALSE
              /\ UNCHANGED <<res, bundles, pools, batcher>>
           \/ /\ op.op = "bundle"
              /\ CanBundle(Disk)
              /\ SetDisk(Bundle(Disk, op.buf))
              /\ UNCHANGED <<res, locked>>
           \/ /\ op.op = "done"
              /\ res' = [res EXCEPT ![job.res].done = TRUE]
              /\ UNCHANGED <<locked, bundles, pools, batcher>>
        /\ UNCHANGED <<cfg, mainVars, gpuVars, bufs, writer, terminate, results, cpuVars,
                       files, readerVars>>

-----------------------------------------------------------------------------
(* process_writes: the writer threads of a partition.                         *)

\* The data of a buffer, by place; a buffer of size 0 fills up a flushed bundle
Written(b) ==
    [p \in {Place(b.file, b.part, b.offset + i) : i \in 0 .. b.size - 1} |->
        LET i == p[3] - b.offset + 1
        IN  IF i \in DOMAIN b.data THEN b.data[i] ELSE Garbage]

WriteAll(object) ==
    FoldLeft(LAMBDA f, j : LET b == bundles[object][j]
                           IN  IF b = Null THEN f ELSE Written(bufs[b]) @@ f,
             files, [j \in 1 .. cfg.bundle |-> j - 1])

TakeBundle(w) ==
    /\ writer[w] = Polling
    /\ Len(pools.full) < cfg.full + cfg.empty
    /\ pools.disk # <<>>
    /\ writer' = [writer EXCEPT ![w] = Holding(Head(pools.disk))]
    /\ pools' = [pools EXCEPT !.disk = Tail(@)]
    /\ UNCHANGED <<cfg, mainVars, res, gpuVars, jobs, bufs, bundles, batcher, terminate,
                   locked, results, cpuVars, files, readerVars>>

WriteBundle(w) ==
    /\ writer[w].object # Null
    /\ files' = WriteAll(writer[w].object)
    /\ pools' = [pools EXCEPT !.full = Append(@, writer[w].object)]
    /\ writer' = [writer EXCEPT ![w] = Polling]
    /\ UNCHANGED <<cfg, mainVars, res, gpuVars, jobs, bufs, bundles, batcher, terminate,
                   locked, results, cpuVars, readerVars>>

\* while (!terminate || to_disk_fifo.size() > 0)
WriterMayStop_Early == terminate
WriterMayStop == terminate /\ pools.disk = <<>>

StopWriter(w) ==
    /\ writer[w] = Polling
    /\ WriterMayStop
    /\ writer' = [writer EXCEPT ![w] = Stopped]
    /\ UNCHANGED <<cfg, mainVars, res, gpuVars, jobs, diskVars, terminate, locked, results,
                   cpuVars, files, readerVars>>

-----------------------------------------------------------------------------
(* hash after hash_gpu, and the CPU thread: the top of the trees.             *)

HashFrame == UNCHANGED <<cfg, cur, load, res, gpuVars, jobs, diskVars, writer, terminate,
                         results, files, readerVars>>

\* while (disk_writer_done > 0)
WritersDone ==
    /\ mpc = "writers"
    /\ \A w \in Writers : writer[w] = Stopped
    /\ mpc' = "lock"
    /\ HashFrame
    /\ UNCHANGED <<part, locked, cpuVars>>

LockResults ==
    /\ mpc = "lock"
    /\ ~locked
    /\ locked' = TRUE
    /\ mpc' = "recv"
    /\ HashFrame
    /\ UNCHANGED <<part, cpuVars>>

\* ch.recv keeps the GPUs at most one partition ahead of the CPU
SpawnCpu ==
    /\ mpc = "recv"
    /\ channel > 0
    /\ channel' = channel - 1
    /\ cpu' = [cpu EXCEPT !.queue = Append(@, part)]
    /\ part' = part + 1
    /\ mpc' = IF part + 1 < cfg.parts THEN "start" ELSE "join"
    /\ HashFrame
    /\ UNCHANGED <<locked, roots, pAux>>

\* The copy of the results; gpu_results_in_use is released
CpuCopy ==
    /\ cpu.part = Null
    /\ cpu.queue # <<>>
    /\ cpu' = [part |-> Head(cpu.queue), queue |-> Tail(cpu.queue), input |-> results]
    /\ locked' = FALSE
    /\ UNCHANGED <<cfg, mainVars, res, gpuVars, jobs, diskVars, writer, terminate, results,
                   channel, files, roots, pAux, readerVars>>

\* hash_cpu: layer k of the tree over all streams' results of one tree
TopLayer(tree) ==
    LET base == FoldLeft(\o, <<>>, [r \in 1 .. StreamCount |-> cpu.input[tree][r - 1]])
        layer[k \in Nat] == IF k = 0 THEN base ELSE HashBatch(tree, tree, layer[k - 1])
    IN  layer

TopFile(tree) ==
    LET tops == TopLayer(tree)
        n    == LayerCount(TopCount)
        flat == FoldLeft(\o, <<>>, [k \in 1 .. n |-> tops[k]])
    IN  [p \in {Place(tree, cpu.part, FinalGpuOffset(tree) + i) : i \in 0 .. DataSize(TopCount) - 1} |->
            flat[p[3] - FinalGpuOffset(tree) + 1]]

BuiltTrees == IF cfg.rOnly THEN {"r"} ELSE Trees

CpuHash ==
    /\ cpu.part # Null
    /\ files' = TopFile("r") @@ (IF cfg.rOnly THEN files ELSE TopFile("c") @@ files)
    /\ roots' = [t \in Trees |->
           IF t \in BuiltTrees THEN [roots[t] EXCEPT ![cpu.part] = TopLayer(t)[LayerCount(TopCount)][1]]
           ELSE roots[t]]
    /\ cpu' = [cpu EXCEPT !.part = Null]
    /\ channel' = channel + 1
    /\ UNCHANGED <<cfg, mainVars, res, gpuVars, jobs, diskVars, writer, terminate, locked,
                   results, pAux, readerVars>>

WriteRoots_NoRecv ==
    /\ mpc = "join"
    /\ pAux' = [t \in Trees |-> IF t \in BuiltTrees THEN roots[t] ELSE "zero"]
    /\ mpc' = "done"
    /\ HashFrame
    /\ UNCHANGED <<part, locked, cpu, channel, roots>>

\* The last ch.recv, then write_roots: the hash of the partition roots, kept here
\* as their sequence; a tree-c that was not built is written as zero
WriteRoots ==
    /\ mpc = "join"
    /\ channel > 0
    /\ channel' = channel - 1
    /\ pAux' = [t \in Trees |-> IF t \in BuiltTrees THEN roots[t] ELSE "zero"]
    /\ mpc' = "done"
    /\ HashFrame
    /\ UNCHANGED <<part, locked, cpu, roots>>

-----------------------------------------------------------------------------
Init ==
    /\ cfg \in Configs
    /\ part = 0
    /\ mpc = "start"
    /\ cur = 0
    /\ load = [layer |-> 0, page |-> 0]
    /\ LET none == WorkItem(0, 0, FALSE)
       IN  res = [r \in Streams |->
               [state |-> "IDLE", wc |-> none, wr |-> none, sc |-> ResetScheduler(LeafItems),
                sr |-> ResetScheduler(LeafItems), pool |-> NoBuffers, last |-> FALSE,
                done |-> TRUE, start |-> 0, replica |-> <<>>, column |-> <<>>]]
    /\ gpu = [r \in Streams |-> <<>>]
    /\ stream = [r \in Streams |-> Null]
    /\ jobs = <<>>
    /\ bufs = [x \in BufferIds |-> [file |-> "sealed", part |-> 0, offset |-> 0, size |-> 0,
                                    data |-> <<>>]]
    /\ bundles = [o \in Objects |-> [j \in 0 .. cfg.bundle - 1 |->
                     IF o < cfg.full THEN o * cfg.bundle + j ELSE Null]]
    /\ pools = [full |-> [i \in 1 .. cfg.full |-> i - 1],
                empty |-> [i \in 1 .. cfg.empty |-> cfg.full + i - 1], disk |-> <<>>]
    /\ batcher = [unbundle |-> Null, bundle |-> Null, iu |-> 0, ib |-> 0]
    /\ writer = [w \in Writers |-> Stopped]
    /\ terminate = FALSE
    /\ locked = FALSE
    /\ results = [t \in Trees |-> [r \in Streams |-> <<>>]]
    /\ cpu = [part |-> Null, queue |-> <<>>, input |-> results]
    /\ channel = 1                                       \* ch.send(-1)
    /\ files = [p \in Wanted(cfg) |-> Blank]
    /\ roots = [t \in Trees |-> [p \in 0 .. cfg.parts - 1 |-> Garbage]]
    /\ pAux = [t \in Trees |-> <<>>]
    /\ ReaderInit

Visit(r) == Idle(r) \/ ReadData(r) \/ WaitData(r) \/ HashColumn(r) \/ HashColumnLeaves(r)
            \/ HashLeaf(r) \/ HashWait(r) \/ Pass(r)

Main == \/ StartPartition \/ LoadPage \/ AllDone \/ Flush \/ WritersDone \/ LockResults
        \/ SpawnCpu \/ WriteRoots
        \/ \E r \in Streams : Visit(r)

Gpu(r) == GpuColumn(r) \/ GpuLeaves(r) \/ GpuInner(r)

ReaderFrame == UNCHANGED <<cfg, mainVars, res, gpuVars, jobs, diskVars, writer, terminate,
                           locked, results, cpuVars, files>>
Reader == (IssueRead \/ \E q \in reading : CompleteRead(q)) /\ ReaderFrame

Writer(w) == TakeBundle(w) \/ WriteBundle(w) \/ StopWriter(w)

Cpu == CpuCopy \/ CpuHash

Next == \/ Main \/ RunCallback \/ Reader \/ Cpu
        \/ \E r \in Streams : Gpu(r)
        \/ \E w \in Writers : Writer(w)

Spec == Init /\ [][Next]_vars

\* Every thread and every stream goes on as long as it can
FairSpec ==
    /\ Spec
    /\ WF_vars(Main) /\ WF_vars(RunCallback) /\ WF_vars(Reader) /\ WF_vars(Cpu)
    /\ \A r \in Slots : WF_vars(r \in Streams /\ Gpu(r))
    /\ \A w \in Writers : WF_vars(Writer(w))

-----------------------------------------------------------------------------
(* Properties.                                                                *)

\* Every variable keeps to its domain, whatever runs ahead of what: the FIFO of the
\* reader never overflows, since load_layers waited for room, and device buffers
\* are recycled (besides the two roots that each reset forgets, a resource never
\* has more than Arity - 1 waiting per level of its trees and two for the item in
\* work).
TypeOK ==
    /\ cfg \in Configs
    /\ part \in 0 .. cfg.parts
    /\ mpc \in {"start", "loop", "load", "flush", "writers", "lock", "recv", "join", "done"}
    /\ cur \in Streams
    /\ \A r \in Streams :
           /\ res[r].state \in {"IDLE", "DATA_READ", "DATA_WAIT", "HASH_COLUMN",
                                "HASH_COLUMN_LEAVES", "HASH_LEAF", "HASH_WAIT", "DONE"}
           /\ stream[r] # Null => ~res[r].done
           /\ res[r].pool.made <=
                  2 * part + 2 * ((Arity - 1) * (LayerCount(LeafItems) - 1) + 2)
    /\ \A q \in {"full", "empty", "disk"} : \A i \in DOMAIN pools[q] : pools[q][i] \in Objects
    /\ {batcher.unbundle, batcher.bundle} \subseteq Objects \cup {Null}
    /\ batcher.iu \in 0 .. cfg.bundle - 1 /\ batcher.ib \in 0 .. cfg.bundle - 1
    /\ \A w \in Writers : writer[w].object \in Objects \cup {Null}
    /\ channel \in 0 .. 1
    /\ Len(rfifo) <= ReadFifo

\* Every node of the trees' files and of the sealed file is written once, by the
\* GPUs' buffers or by the CPU, with the value that belongs there, and hash()
\* ends only when all of them are written.
Promise == INSTANCE SectorTrees WITH
    Right <- RightValue, call <- cfg, have <- files, finished <- mpc = "done"
ImplementsSectorTrees == Promise!Spec

\* Buffers taken from the batcher and not yet back in it: a stream or a callback
\* has them
AtStreams ==
    UNION {IF stream[r] = Null THEN {} ELSE {stream[r].c, stream[r].r} \ {Null} : r \in Streams}
InCallbacks ==
    UNION {{op.buf : op \in {x \in Range(jobs[i].ops) : x.op = "bundle"}} : i \in DOMAIN jobs}
Outstanding == AtStreams \cup InCallbacks

Working == mpc \in {"loop", "load"}

\* The assertions of the batcher hold.  Whatever the order of callbacks, there is
\* a place in an empty bundle for every buffer the streams and the callbacks hold,
\* though the size check of the main thread asks for the buffers of one item only.
\* When it is flushed, as many buffers of one bundle have been used as of the
\* other, and the next partition finds a bundle in both pools.
BundlesSuffice ==
    /\ Working =>
          (IF batcher.bundle = Null THEN 0 ELSE cfg.bundle - batcher.ib)
              + Len(pools.empty) * cfg.bundle >= Cardinality(Outstanding)
    /\ mpc = "flush" => batcher.ib = batcher.iu
    /\ mpc = "start" => pools.full # <<>> /\ pools.empty # <<>>

\* Where a bundle is, and the slots of bundles with buffers: all of a bundle that is
\* full, waits for the disk or is being written, the rest of the one being emptied
\* and the used part of the one being filled
BundlePlaces(o) ==
    {p \in UNION {{q} \X (1 .. Len(pools[q])) : q \in {"full", "empty", "disk"}} :
        pools[p[1]][p[2]] = o}
    \cup {p \in {"unbundle", "bundle"} \X {1} : batcher[p[1]] = o}
    \cup {p \in {"writer"} \X Writers : writer[p[2]].object = o}
InUse(o, j) ==
    \/ \E q \in {"full", "disk"} : o \in Range(pools[q])
    \/ \E w \in Writers : writer[w].object = o
    \/ batcher.unbundle = o /\ j >= batcher.iu
    \/ batcher.bundle = o /\ j < batcher.ib

\* Where a buffer is: in a bundle, at a stream or in a callback
BufferPlaces(x) ==
    {p \in {"bundle"} \X Objects \X Slot : InUse(p[2], p[3]) /\ bundles[p[2]][p[3]] = x}
    \cup {p \in {"stream"} \X Streams \X Trees : stream[p[2]] # Null /\ stream[p[2]][p[3]] = x}
    \cup {p \in {"callback"} \X (1 .. Len(jobs)) \X (1 .. 4) :
             /\ p[3] \in DOMAIN jobs[p[2]].ops
             /\ jobs[p[2]].ops[p[3]] = [op |-> "bundle", buf |-> x]}

\* Bundles and buffers are neither lost nor doubled: each bundle is in one pool, with
\* the batcher or with one writer, and each host buffer free in one bundle, on its
\* way to the disk in one, at one stream or in one callback.  (A flush that fills
\* up a bundle may share buffers of size 0.)
BuffersHaveOneOwner ==
    mpc \in {"start", "loop", "load", "flush"} =>
        /\ \A o \in Objects : Cardinality(BundlePlaces(o)) = 1
        /\ \A x \in BufferIds : Cardinality(BufferPlaces(x)) = 1

\* p_aux gets the roots of all partitions, in order.
PAuxIsRight ==
    mpc = "done" => \A t \in BuiltTrees : \A p \in 0 .. cfg.parts - 1 :
        pAux[t][p] = Node(t, LayerCount(PartNodes) - 1, p)

\* Every call ends: nobody waits for ever for data, for a buffer, for the results
\* or for a message.
Completes == <>(mpc = "done")

=============================================================================
