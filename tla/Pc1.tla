--------------------------------- MODULE Pc1 ---------------------------------
(***************************************************************************)
(* PC1, the labelling of all sectors sealed in parallel (pc1/): the        *)
(* orchestrator thread (orchestrator_t.hpp), the parent reader and the     *)
(* node writer (node_rw_t.hpp) with their drives, and the coordinators,    *)
(* around the buffers of system_buffers_t.hpp.                             *)
(*                                                                         *)
(* A ring buffer is modelled by its absolute cursors: an entry's slot is   *)
(* the cursor modulo the number of slots, as ring_buffer_t and             *)
(* ring_counter_t keep it.  A coordinator with its hashers is the abstract *)
(* SectorWorker that module Coordinator implements; each one owns some     *)
(* sectors of every node.                                                  *)
(*                                                                         *)
(* A label is represented by the node it is the label of, so the memory    *)
(* and disk variables say whose label each place holds, per coordinator.   *)
(*                                                                         *)
(* A definition whose name ends in _Wrong is the one after it with a       *)
(* plausible mistake in it: a property must notice its use.                *)
(***************************************************************************)
EXTENDS Integers, Sequences, FiniteSets, FiniteSetsExt

CONSTANTS
    Coordinators,
    NodesPerPage,    \* C::NODES_PER_PAGE
    LayerNodes,      \* C::GetNumNodes(), nodes of a layer
    Layers,          \* C::GetNumLayers()
    PageBatch,       \* PAGE_BATCH_SIZE, parents that may be read from disk
    BaseCount,       \* PARENT_COUNT_BASE
    Graphs,          \* contents of the parents file: node -> j -> parent
    NodeSlots,       \* NODE_BUFFER_BATCHES, pages
    ParentSlots,     \* PARENT_BUFFER_BATCHES, also the cache skid
    SyncPages,       \* NODE_BUFFER_SYNC_BATCH_SIZE
    CountMod,        \* the counts of node_sync_t are modulo this
    LocalDistance,   \* COORD_BATCH_NODE_COUNT
    ActionBatch,     \* ACTION_BATCH of process()
    RetireLimit,     \* nvme_controller_t::queue_size * 512
    FifoDepth,       \* capacity of parent_read_fifo and node_write_fifo
    QueueSize,       \* nvme_controller_t::queue_size
    Window,          \* bound on nodes gathered but not hashed (SectorWorker)
    ReportGrain,     \* a coordinator reports multiples of this
    Lag,             \* entries that always let a coordinator report more
    BoundedLatency,  \* a slot has no read in flight when it is cleared and reserved
    HashAhead,       \* how far hashing gets ahead of the written tail
    NoNode

NodeStop == LayerNodes * Layers
Pages    == 0 .. (NodeStop \div NodesPerPage) - 1
Places   == 0 .. NodesPerPage - 1
Reads    == 0 .. PageBatch - 1

ASSUME Pc1Assumption ==
    /\ Coordinators # {} /\ IsFiniteSet(Coordinators)
    /\ {NodesPerPage, LayerNodes, Layers, PageBatch, BaseCount, NodeSlots,
        ParentSlots, SyncPages, CountMod, LocalDistance, ActionBatch,
        RetireLimit, FifoDepth, QueueSize, Window, ReportGrain, Lag,
        HashAhead} \subseteq Nat \ {0}
    /\ LayerNodes % NodesPerPage = 0 /\ NodeStop % ReportGrain = 0
    /\ NodeSlots % SyncPages = 0
    /\ BaseCount <= PageBatch
    /\ QueueSize >= PageBatch
    /\ Window <= LocalDistance
    /\ Lag + NodesPerPage <= ParentSlots
    /\ FifoDepth < ParentSlots
    /\ BoundedLatency \in BOOLEAN
    /\ LocalDistance <= NodeSlots * NodesPerPage
    /\ \A g \in Graphs :
          /\ g \in [0 .. LayerNodes - 1 -> [Reads -> 0 .. LayerNodes - 1]]
          /\ \A v \in 1 .. LayerNodes - 1, j \in 0 .. BaseCount - 2 : g[v][j] < v
    /\ NoNode \notin Nat

VARIABLES
    graph,        \* the parents file
    (* orchestrator *)
    opc,          \* step of the process() loop
    unsampled,    \* coordinators not yet looked at in this iteration
    rem,          \* actions_remaining, or nodes left of a read batch
    minHash,      \* min_node_hash
    minNode,      \* min_node
    lastNode,     \* node of process(): the head one iteration ago
    nextNode,     \* next_node
    headNode,     \* parent_iter: next node to look up the parents of
    reservedTo,   \* first node with no parent entry reserved
    cacheMin,     \* cache_min_node
    cacheable,    \* cache_min_cacheable_node
    tailNode, tailParents, tailWrite, headWrite,
    outstanding,  \* outstanding_writes
    (* buffers *)
    parentValid,  \* valid counters of parent_buffer
    parentIo,     \* parent_buffer_io
    parentPtrs,   \* parent_ptrs and parent_ptr_syncs
    parentBuf,    \* labels in parent_buffer
    nodeValid,    \* valid counters of node_buffer
    nodeIo,       \* node_buffer_io: the first node of the page to write
    nodeBuf,      \* labels in node_buffer
    refCount, consumedCount,
    (* drives *)
    readFifo, reading, writeFifo, writing, disk,
    (* coordinators *)
    taken, hashed, pending, reported

orchVars   == <<opc, unsampled, rem, minHash, minNode, lastNode, nextNode,
                headNode, reservedTo, cacheMin, cacheable, tailNode,
                tailParents, tailWrite, headWrite, outstanding>>
parentVars == <<parentValid, parentIo, parentPtrs, parentBuf>>
nodeVars   == <<nodeValid, nodeIo, nodeBuf, refCount, consumedCount>>
ioVars     == <<readFifo, reading, writeFifo, writing, disk>>
workerVars == <<taken, hashed, pending, reported>>
vars       == <<graph, orchVars, parentVars, nodeVars, ioVars, workerVars>>

-----------------------------------------------------------------------------
(* node_id_t and the ring buffers' slots *)
NodeOf(n)     == n % LayerNodes
LayerOf(n)    == n \div LayerNodes
PageOf(n)     == n \div NodesPerPage
PlaceOf(n)    == n % NodesPerPage
ParentSlot(n) == n % ParentSlots
NodeSlot(n)   == PageOf(n) % NodeSlots
SyncOf(s)     == s \div SyncPages

ParentFree == (ParentSlots - 1) - (reservedTo - tailParents)
NodeFree_Wrong == NodeSlots - (PageOf(reservedTo) - PageOf(tailNode))
NodeFree   == (NodeSlots - 1) - (PageOf(reservedTo) - PageOf(tailNode))
FifoFree_Wrong == FifoDepth + 1 - Len(readFifo)
FifoFree   == FifoDepth - Len(readFifo)

(* parent_iter_t: the parent number j + 1 of node n, as read_batch takes it. *)
PrevLayer(j) == j + 1 >= BaseCount
Parent(n, j) ==
    IF LayerOf(n) = 0 /\ PrevLayer(j)
      THEN n - 1
      ELSE (IF PrevLayer(j) THEN LayerOf(n) - 1 ELSE LayerOf(n)) * LayerNodes
             + graph[NodeOf(n)][j]

(* A label of every sector, for each node of a page *)
Content == [Coordinators -> [Places -> (0 .. NodeStop - 1) \cup {NoNode}]]
Blank   == [c \in Coordinators |-> [k \in Places |-> NoNode]]

NullPtr               == [to |-> "null"]
ParentPtr(k)          == [to |-> "parent", place |-> k]
NodePtr(s, k, local)  == [to |-> "node", slot |-> s, place |-> k, local |-> local]
IsLocalPtr(ptr)       == ptr.to = "node" /\ ptr.local
IsRefPtr(ptr)         == ptr.to = "node" /\ ~ptr.local   \* is_node_buffer()
Nop                   == [type |-> "nop", node |-> 0]
Read(p)               == [type |-> "read", node |-> p]

Init ==
    /\ graph \in Graphs
    /\ opc = "sample" /\ unsampled = Coordinators /\ rem = 0
    /\ minHash = 0 /\ minNode = 0 /\ lastNode = 0 /\ nextNode = 0
    /\ headNode = 0 /\ reservedTo = 0 /\ cacheMin = 0 /\ cacheable = 0
    /\ tailNode = 0 /\ tailParents = 0 /\ tailWrite = 0 /\ headWrite = 0
    /\ outstanding = 0
    /\ parentValid = [s \in 0 .. ParentSlots - 1 |-> 0]
    /\ parentIo = [s \in 0 .. ParentSlots - 1 |-> [j \in Reads |-> Read(0)]]
    /\ parentPtrs = [s \in 0 .. ParentSlots - 1 |->
                        [j \in 0 .. PageBatch |-> NullPtr]]
    /\ parentBuf = [s \in 0 .. ParentSlots - 1 |-> [j \in Reads |-> Blank]]
    /\ nodeValid = [s \in 0 .. NodeSlots - 1 |-> 0]
    /\ nodeIo = [s \in 0 .. NodeSlots - 1 |-> 0]
    /\ nodeBuf = [s \in 0 .. NodeSlots - 1 |-> Blank]
    /\ refCount = [g \in 0 .. SyncOf(NodeSlots) - 1 |-> 0]
    /\ consumedCount = [g \in 0 .. SyncOf(NodeSlots) - 1 |-> 0]
    /\ readFifo = <<>> /\ reading = {} /\ writeFifo = <<>> /\ writing = {}
    /\ disk = [p \in Pages |-> Blank]
    /\ taken = [c \in Coordinators |-> 0]
    /\ hashed = [c \in Coordinators |-> 0]
    /\ pending = [c \in Coordinators |-> <<>>]
    /\ reported = [c \in Coordinators |-> 0]

-----------------------------------------------------------------------------
(* The orchestrator: process() *)

OldestHashed_Wrong(c) == reported[c]   \* the coordinator looked at last
OldestHashed(c) == IF unsampled = Coordinators THEN reported[c]
                                               ELSE Min({minHash, reported[c]})

(* The oldest node hashed: one load of coordinator_node per coordinator. *)
Sample(c) ==
    /\ opc = "sample" /\ c \in unsampled
    /\ minHash' = OldestHashed(c)
    /\ unsampled' = unsampled \ {c}
    /\ IF unsampled' = {}
         THEN minNode' = Min({minHash', tailWrite}) /\ opc' = "read"
         ELSE UNCHANGED <<minNode, opc>>
    /\ UNCHANGED <<graph, rem, lastNode, nextNode, headNode, reservedTo,
                   cacheMin, cacheable, tailNode, tailParents,
                   tailWrite, headWrite, outstanding, parentVars, nodeVars,
                   ioVars, workerVars>>

(* read_batch(): how many nodes to read, in whole pages *)
RoundDown(n) == n - (n % NodesPerPage)
MaxBatch == RoundDown(Min({FifoFree, NodeFree * NodesPerPage, ParentFree,
                           NodeStop - headNode, 2 * NodesPerPage}))

(* read_batch(): reserve the entries, which clears the valid counter of the *)
(* slot after each of them, and fix the bounds of the cache.                *)
ReserveBatch ==
    /\ opc = "read" /\ headNode < NodeStop /\ MaxBatch > 0
    /\ LET new      == headNode + 1 .. headNode + MaxBatch
           newPages == PageOf(headNode) + 1 .. PageOf(headNode + MaxBatch)
           buffered == (PageOf(headNode + MaxBatch) - PageOf(tailNode))
                         * NodesPerPage - MaxBatch
       IN /\ BoundedLatency =>
                \A r \in reading : \A n \in headNode .. headNode + MaxBatch :
                    r.slot # ParentSlot(n)
          /\ parentValid' = [s \in DOMAIN parentValid |->
                               IF s \in {ParentSlot(n) : n \in new}
                                 THEN 0 ELSE parentValid[s]]
          /\ nodeValid' = [s \in DOMAIN nodeValid |->
                             IF s \in {p % NodeSlots : p \in newPages}
                               THEN 0 ELSE nodeValid[s]]
          /\ cacheMin' = headNode - buffered
    /\ cacheable' = Min({cacheMin' + ParentSlots, tailWrite})
    /\ reservedTo' = headNode + MaxBatch
    /\ opc' = "prepare"
    /\ UNCHANGED <<graph, unsampled, rem, minHash, minNode, lastNode, nextNode,
                   headNode, tailNode, tailParents, tailWrite,
                   headWrite, outstanding, parentIo, parentPtrs, parentBuf,
                   nodeIo, nodeBuf, refCount, consumedCount, ioVars, workerVars>>

NoReadBatch ==
    /\ opc = "read" /\ (headNode >= NodeStop \/ MaxBatch = 0)
    /\ opc' = "write" /\ rem' = ActionBatch
    /\ UNCHANGED <<graph, unsampled, minHash, minNode, lastNode, nextNode,
                   headNode, reservedTo, cacheMin, cacheable,
                   tailNode, tailParents, tailWrite, headWrite, outstanding,
                   parentVars, nodeVars, ioVars, workerVars>>

(* The first parent read_batch looks up; those before it get null pointers. *)
FirstRead(n) == IF n = 0 THEN PageBatch
                ELSE IF NodeOf(n) = 0 THEN BaseCount ELSE 0

UseCache_Wrong(p) == p > cacheable
UseCache(p)    == p >= cacheable
IsLocal(n, p)  == n - p < LocalDistance
CacheSlot(p)   == (PageOf(tailNode) + (p - cacheMin) \div NodesPerPage) % NodeSlots

PtrFor(n, i) ==   \* entry i of parent_ptrs, i = 0 is the previous node
    IF i = 0
      THEN IF NodeOf(n) = 0 THEN NullPtr
           ELSE NodePtr(NodeSlot(n - 1), PlaceOf(n - 1), TRUE)
      ELSE IF i - 1 < FirstRead(n) THEN NullPtr
      ELSE LET p == Parent(n, i - 1) IN
           IF UseCache(p) THEN NodePtr(CacheSlot(p), PlaceOf(p), IsLocal(n, p))
                          ELSE ParentPtr(PlaceOf(p))

(* One node of the batch: its parent pointers, its IO descriptors (those of  *)
(* the parents that are skipped keep their old value), the references it     *)
(* takes on the node buffer, the part of the valid counter that needs no IO, *)
(* and the request to the parent reader.  Node 0 sends no request.           *)
PrepareNode ==
    /\ opc = "prepare"
    /\ LET n     == headNode
           slot  == ParentSlot(n)
           ptrs  == [i \in 0 .. PageBatch |-> PtrFor(n, i)]
           used  == FirstRead(n) .. PageBatch - 1
           reads == {j \in used : ptrs[j + 1].to = "parent"}
       IN /\ parentPtrs' = [parentPtrs EXCEPT ![slot] = ptrs]
          /\ parentIo' = [parentIo EXCEPT ![slot] =
                [j \in Reads |->
                   IF j \notin used THEN parentIo[slot][j]
                   ELSE IF j \in reads THEN Read(Parent(n, j)) ELSE Nop]]
          /\ refCount' = [g \in DOMAIN refCount |->
                (refCount[g]
                  + Cardinality({i \in DOMAIN ptrs : /\ IsRefPtr(ptrs[i])
                                                     /\ SyncOf(ptrs[i].slot) = g}))
                % CountMod]
          /\ parentValid' = [parentValid EXCEPT ![slot] =
                                @ + PageBatch - Cardinality(reads)]
          /\ readFifo' = IF n = 0 THEN readFifo ELSE Append(readFifo, slot)
    /\ headNode' = headNode + 1
    /\ IF headNode' = reservedTo THEN opc' = "write" /\ rem' = ActionBatch
                                 ELSE UNCHANGED <<opc, rem>>
    /\ UNCHANGED <<graph, unsampled, minHash, minNode, lastNode, nextNode,
                   reservedTo, cacheMin, cacheable, tailNode,
                   tailParents, tailWrite, headWrite, outstanding, parentBuf,
                   nodeValid, nodeIo, nodeBuf, consumedCount, reading,
                   writeFifo, writing, disk, workerVars>>

CanWrite_Wrong == /\ PageOf(headWrite) + 1 < PageOf(minHash)
                  /\ Len(writeFifo) # FifoDepth

(* write_nodes(): send a page to the writer once all of it is hashed. *)
CanWrite == /\ PageOf(headWrite) < PageOf(minHash)
            /\ Len(writeFifo) # FifoDepth

WriteNodes ==
    /\ opc = "write" /\ rem > 0 /\ headWrite < minHash
    /\ rem' = rem - 1
    /\ IF CanWrite
         THEN /\ nodeIo' = [nodeIo EXCEPT ![NodeSlot(headWrite)] = headWrite]
              /\ writeFifo' = Append(writeFifo, NodeSlot(headWrite))
              /\ headWrite' = headWrite + NodesPerPage
              /\ outstanding' = outstanding + 1
         ELSE UNCHANGED <<nodeIo, writeFifo, headWrite, outstanding>>
    /\ UNCHANGED <<graph, opc, unsampled, minHash, minNode, lastNode, nextNode,
                   headNode, reservedTo, cacheMin, cacheable,
                   tailNode, tailParents, tailWrite, parentVars, nodeValid,
                   nodeBuf, refCount, consumedCount, readFifo, reading, writing,
                   disk, workerVars>>

WriteDone ==
    /\ opc = "write" /\ (rem = 0 \/ headWrite >= minHash)
    /\ opc' = "release"
    /\ UNCHANGED <<graph, unsampled, rem, minHash, minNode, lastNode, nextNode,
                   headNode, reservedTo, cacheMin, cacheable, tailNode,
                   tailParents, tailWrite, headWrite, outstanding, parentVars,
                   nodeVars, ioVars, workerVars>>

(* The remaining loops of an iteration touch nothing that other threads      *)
(* write, except the valid counters of written pages, which only grow: each  *)
(* loop is one step.  Repeat(k, P) says that it runs k times, until P fails  *)
(* or the actions are spent.                                                 *)
Repeat(k, P(_)) ==
    /\ \A i \in 0 .. k - 1 : P(i)
    /\ k = ActionBatch \/ ~P(k)

(* Release the parent entries whose nodes are hashed: the references their *)
(* pointers hold on the node buffer are consumed.                          *)
RefsOf(n, g) ==
    LET ptrs == parentPtrs[ParentSlot(n)]
    IN {i \in DOMAIN ptrs : IsRefPtr(ptrs[i]) /\ SyncOf(ptrs[i].slot) = g}

ReleaseParents ==
    /\ opc = "release"
    /\ \E k \in 0 .. ActionBatch :
         /\ Repeat(k, LAMBDA i : tailParents + i < minHash)
         /\ tailParents' = tailParents + k
         /\ consumedCount' = [g \in DOMAIN consumedCount |->
              (consumedCount[g]
                + Cardinality(UNION {{n} \X RefsOf(n, g) :
                                  n \in tailParents .. tailParents + k - 1}))
              % CountMod]
    /\ opc' = "written"
    /\ UNCHANGED <<graph, unsampled, rem, minHash, minNode, lastNode, nextNode,
                   headNode, reservedTo, cacheMin, cacheable, tailNode,
                   tailWrite, headWrite, outstanding, parentVars, nodeValid,
                   nodeIo, nodeBuf, refCount, ioVars, workerVars>>

IsWritten_Wrong(n) == NodeSlot(n) # NodeSlot(headWrite)
(* Advance the written tail over the pages whose writes have completed. *)
IsWritten(n) == /\ NodeSlot(n) # NodeSlot(headWrite)
                /\ nodeValid[NodeSlot(n)] # 0

AdvanceWritten ==
    /\ opc = "written"
    /\ \E k \in 0 .. ActionBatch :
         /\ Repeat(k, LAMBDA i : IsWritten(tailWrite + i * NodesPerPage))
         /\ tailWrite' = tailWrite + k * NodesPerPage
         /\ outstanding' = outstanding - k
    /\ opc' = "retire"
    /\ UNCHANGED <<graph, unsampled, rem, minHash, minNode, lastNode, nextNode,
                   headNode, reservedTo, cacheMin, cacheable, tailNode,
                   tailParents, headWrite, parentVars, nodeVars, ioVars,
                   workerVars>>

(* Give back node buffer pages, node by node.  The references are looked at  *)
(* only while the tail is in the first page of a sync batch, which also      *)
(* clears the counts.                                                        *)
FirstOfSync(n) == NodeSlot(n) % SyncPages = 0
Retirable_Wrong(n) ==   \* does not wait for the consumers
    /\ n < minNode /\ n < tailWrite
    /\ NodeFree < RetireLimit
Retirable(n) ==
    /\ n < minNode /\ n < tailWrite
    /\ NodeFree < RetireLimit
    /\ FirstOfSync(n) => refCount[SyncOf(NodeSlot(n))]
                           = consumedCount[SyncOf(NodeSlot(n))]

(* process() goes on while there are nodes to look up or pages to write. *)
GoOn(last) == last < NodeStop \/ tailWrite < NodeStop \/ outstanding > 0

RetireNodes ==
    /\ opc = "retire"
    /\ \E k \in 0 .. ActionBatch :
         LET cleared == {SyncOf(NodeSlot(n)) :
                           n \in {m \in tailNode .. tailNode + k - 1 : FirstOfSync(m)}}
             Clear(count) == [g \in DOMAIN count |-> IF g \in cleared THEN 0 ELSE count[g]]
         IN /\ Repeat(k, LAMBDA i : Retirable(tailNode + i))
            /\ tailNode' = tailNode + k
            /\ refCount' = Clear(refCount)
            /\ consumedCount' = Clear(consumedCount)
    /\ lastNode' = nextNode
    /\ opc' = IF headNode - tailNode' >= NodeSlots * NodesPerPage THEN "exit"
              ELSE IF GoOn(lastNode') THEN "sample" ELSE "done"
    /\ unsampled' = Coordinators
    /\ nextNode' = headNode
    /\ UNCHANGED <<graph, rem, minHash, minNode, headNode, reservedTo, cacheMin,
                   cacheable, tailParents, tailWrite, headWrite, outstanding,
                   parentVars, nodeValid, nodeIo, nodeBuf, ioVars, workerVars>>

OrchestratorNext ==
    \/ (\E c \in Coordinators : Sample(c))
    \/ ReserveBatch \/ NoReadBatch \/ PrepareNode \/ WriteNodes \/ WriteDone
    \/ ReleaseParents \/ AdvanceWritten \/ RetireNodes

-----------------------------------------------------------------------------
(* The parent reader and the node writer: node_rw_t::process() *)

(* Take a request from the FIFO when the queue has room for all its reads, *)
(* and submit the ones that are not NOPs.                                  *)
IssueReads ==
    /\ readFifo # <<>> /\ QueueSize - Cardinality(reading) >= PageBatch
    /\ LET slot == Head(readFifo) IN
       reading' = reading \cup
         {[slot |-> slot, j |-> j, node |-> parentIo[slot][j].node] :
            j \in {i \in Reads : parentIo[slot][i].type = "read"}}
    /\ readFifo' = Tail(readFifo)
    /\ UNCHANGED <<graph, orchVars, parentVars, nodeVars, writeFifo, writing,
                   disk, workerVars>>

(* Reads complete in any order; completion_cb counts them. *)
ReadComplete(r) ==
    /\ r \in reading
    /\ reading' = reading \ {r}
    /\ parentBuf' = [parentBuf EXCEPT ![r.slot][r.j] = disk[PageOf(r.node)]]
    /\ parentValid' = [parentValid EXCEPT ![r.slot] = @ + 1]
    /\ UNCHANGED <<graph, orchVars, parentIo, parentPtrs, nodeVars, readFifo,
                   writeFifo, writing, disk, workerVars>>

IssueWrite ==
    /\ writeFifo # <<>> /\ Cardinality(writing) < QueueSize
    /\ writing' = writing \cup {Head(writeFifo)}
    /\ writeFifo' = Tail(writeFifo)
    /\ UNCHANGED <<graph, orchVars, parentVars, nodeVars, readFifo, reading,
                   disk, workerVars>>

WriteComplete(s) ==
    /\ s \in writing
    /\ writing' = writing \ {s}
    /\ disk' = [disk EXCEPT ![PageOf(nodeIo[s])] = nodeBuf[s]]
    /\ nodeValid' = [nodeValid EXCEPT ![s] = @ + 1]
    /\ UNCHANGED <<graph, orchVars, parentVars, nodeIo, nodeBuf, refCount,
                   consumedCount, readFifo, reading, writeFifo, workerVars>>

IoNext ==
    \/ IssueReads \/ (\E r \in reading : ReadComplete(r))
    \/ IssueWrite \/ (\E s \in writing : WriteComplete(s))

-----------------------------------------------------------------------------
(* A coordinator and its hashers, as SectorWorker describes them *)

IsValid(n) == parentValid[ParentSlot(n)] >= PageBatch

CanTake(c) == /\ taken[c] < NodeStop /\ IsValid(taken[c])
              /\ taken[c] - hashed[c] < Window

(* Gather a node: its far parents are copied, its local ones passed on. *)
Take(c) ==
    /\ CanTake(c)
    /\ pending' = [pending EXCEPT ![c] =
                     Append(@, parentPtrs[ParentSlot(taken[c])])]
    /\ taken' = [taken EXCEPT ![c] = @ + 1]
    /\ UNCHANGED <<graph, orchVars, parentVars, nodeVars, ioVars, hashed, reported>>

(* Hash a node: its label goes to its place in the node buffer.  HashAhead   *)
(* says how slow the drives' writes may be compared with the hashers; with   *)
(* HashAhead = NodeStop nothing is assumed.                                  *)
HashNode(c) ==
    /\ hashed[c] < taken[c]
    /\ hashed[c] < tailWrite + HashAhead
    /\ nodeBuf' = [nodeBuf EXCEPT
                     ![NodeSlot(hashed[c])][c][PlaceOf(hashed[c])] = hashed[c]]
    /\ pending' = [pending EXCEPT ![c] = Tail(@)]
    /\ hashed' = [hashed EXCEPT ![c] = @ + 1]
    /\ UNCHANGED <<graph, orchVars, parentVars, nodeValid, nodeIo, refCount,
                   consumedCount, ioVars, taken, reported>>

Report(c) ==
    /\ \E n \in reported[c] + 1 .. hashed[c] :
          n % ReportGrain = 0 /\ reported' = [reported EXCEPT ![c] = n]
    /\ UNCHANGED <<graph, orchVars, parentVars, nodeVars, ioVars, taken, hashed,
                   pending>>

WorkerNext(c) == Take(c) \/ HashNode(c) \/ Report(c)

(* Enough entries are valid for the coordinator to report more: see Lag. *)
Obliged(c) ==
    \A n \in taken[c] .. Min({NodeStop, reported[c] + Lag}) - 1 :
        n < headNode /\ IsValid(n)

-----------------------------------------------------------------------------
Done == opc = "done" /\ \A c \in Coordinators : reported[c] = NodeStop
Terminated == Done /\ UNCHANGED vars

Next == OrchestratorNext \/ IoNext \/ (\E c \in Coordinators : WorkerNext(c))
        \/ Terminated

Spec == Init /\ [][Next]_vars

(* Every thread has a core to itself; drives complete what they are given; *)
(* a coordinator makes progress when SectorWorker says it must.            *)
Fairness ==
    /\ WF_vars(OrchestratorNext)
    /\ WF_vars(IssueReads) /\ WF_vars(\E r \in reading : ReadComplete(r))
    /\ WF_vars(IssueWrite) /\ WF_vars(\E s \in writing : WriteComplete(s))
    /\ \A c \in Coordinators : WF_vars(Obliged(c) /\ WorkerNext(c))

FairSpec == Spec /\ Fairness

-----------------------------------------------------------------------------
TypeOK ==
    /\ graph \in Graphs
    /\ opc \in {"sample", "read", "prepare", "write", "release",
                "written", "retire", "done", "exit"}
    /\ unsampled \subseteq Coordinators /\ rem \in 0 .. ActionBatch
    /\ {minHash, minNode, lastNode, nextNode, headNode, reservedTo, cacheMin,
        tailNode, tailParents, tailWrite, headWrite} \subseteq 0 .. NodeStop
    /\ {cacheable, outstanding} \subseteq Nat
    /\ \A s \in DOMAIN parentValid : parentValid[s] \in Nat
    /\ \A s \in DOMAIN nodeValid : nodeValid[s] \in Nat /\ nodeBuf[s] \in Content
    /\ \A g \in DOMAIN refCount :
          refCount[g] \in 0 .. CountMod - 1 /\ consumedCount[g] \in 0 .. CountMod - 1
    /\ \A p \in Pages : disk[p] \in Content
    /\ \A c \in Coordinators :
          {taken[c], hashed[c], reported[c]} \subseteq 0 .. NodeStop

(* The label of parent p for the sectors of coordinator c, through pointer i *)
(* of the parent entry in the given slot.                                    *)
LabelAt(c, slot, i, ptr) ==
    IF ptr.to = "parent" THEN parentBuf[slot][i - 1][c][ptr.place]
                         ELSE nodeBuf[ptr.slot][c][ptr.place]

(* When a coordinator gathers a node, every parent it copies is the label of  *)
(* that node's parent: read from disk after it was written there, or still in *)
(* the page of the node buffer that the orchestrator took it from.            *)
(* Node 0 of a layer is left out: hash() uses none of its parents.            *)
CopiedLabelsAreParents ==
    \A c \in Coordinators : CanTake(c) /\ NodeOf(taken[c]) # 0 =>
        LET n == taken[c]  ptrs == parentPtrs[ParentSlot(n)] IN
        \A j \in Reads :
            /\ ptrs[j + 1].to # "null"
            /\ ~IsLocalPtr(ptrs[j + 1]) =>
                  LabelAt(c, ParentSlot(n), j + 1, ptrs[j + 1]) = Parent(n, j)

(* When a hasher hashes a node, a parent it reads straight from the node     *)
(* buffer is that parent's label, although its page may have been released:  *)
(* read_batch counts no reference for local parents.                         *)
LocalLabelsAreParents ==
    \A c \in Coordinators : hashed[c] < taken[c] /\ NodeOf(hashed[c]) # 0 =>
        LET n == hashed[c]  ptrs == Head(pending[c]) IN
        \A i \in 0 .. PageBatch : IsLocalPtr(ptrs[i]) =>
            nodeBuf[ptrs[i].slot][c][ptrs[i].place] =
                IF i = 0 THEN n - 1 ELSE Parent(n, i - 1)

(* No node is labelled from anything but the labels of its parents, be they *)
(* copied by the coordinator or left to the hashers: reads follow the       *)
(* writes, and no page is reused while somebody may look at it.             *)
LabelsAreParents == CopiedLabelsAreParents /\ LocalLabelsAreParents

(* Everything below the written tail is on disk, every sector of it: the     *)
(* node buffer page is not overwritten between write_nodes() and the drive's *)
(* completion.                                                               *)
WrittenLabelsAreOnDisk ==
    \A n \in 0 .. tailWrite - 1, c \in Coordinators :
        disk[PageOf(n)][c][PlaceOf(n)] = n

(* Both, for coordinators that share pages and lag behind one another. *)
LabelsAreRight == LabelsAreParents /\ WrittenLabelsAreOnDisk

(* The requests in the FIFO are of different entries and fit: a request that *)
(* needs no read is valid at once, and its entry could be used again while   *)
(* the reader has not even seen it.                                          *)
RequestsAreDistinct ==
    /\ Len(readFifo) <= FifoDepth
    /\ \A i, k \in 1 .. Len(readFifo) : i # k => readFifo[i] # readFifo[k]

(* The references and consumed counts of a sync batch differ by exactly the  *)
(* references that parent entries still hold on it, across the resets.       *)
Outstanding(g) ==
    Cardinality(UNION {{n} \X RefsOf(n, g) : n \in tailParents .. headNode - 1})
ReferencesBalance ==
    \A g \in DOMAIN refCount :
        (refCount[g] - consumedCount[g]) % CountMod = Outstanding(g) % CountMod

(* Cursors that move in nodes and in pages, counts and buffers stay within   *)
(* their bounds, and the cursors never stop the process ("Unexpected         *)
(* tail/parent node values").                                                *)
CursorsAreSane == TypeOK /\ opc # "exit"

(* All layers are labelled and the orchestrator leaves its loop. *)
Completion == <>Done

=============================================================================
