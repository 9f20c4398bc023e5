------------------------------ MODULE Pc1Proofs ------------------------------
(*****************************************************************************)
(* The cursors of PC1's orchestrator, for every size of the two buffers, of  *)
(* the FIFO, of the queue and of the batches, every graph and any number of  *)
(* coordinators: they keep their order, no ring is overrun, process() never  *)
(* gives up, and the parent reader never holds two requests for one entry.   *)
(*                                                                           *)
(* CursorsAreSane is far from inductive.  CInv says in addition how the      *)
(* cursors are ordered and which of them stand at the start of a page        *)
(* (OrderOK, SpaceOK), how far the sampled minimum may lag behind the        *)
(* counters it was taken from (SampleOK), that the reader's FIFO holds the   *)
(* slots of the last nodes prepared, one after another (FifoOK), and that    *)
(* entries not yet prepared are clear, with no read on its way to them       *)
(* (FreshOK), which is where BoundedLatency is needed.                       *)
(*****************************************************************************)
EXTENDS Pc1, TLAPS, FiniteSetTheorems

(* Slots of the two rings, sync batches, nodes of all layers; what an entry of *)
(* the parent buffer holds, and what the drive is asked for                    *)
ParentRing == 0 .. ParentSlots - 1
NodeRing   == 0 .. NodeSlots - 1
Syncs      == 0 .. SyncOf(NodeSlots) - 1
Nodes      == 0 .. NodeStop - 1
Descriptors == [type : {"read", "nop"}, node : Nodes]
Requests    == [slot : ParentRing, j : Reads, node : Nodes]

Ptrs == [0 .. PageBatch -> {NullPtr} \cup {ParentPtr(k) : k \in Places}
            \cup {NodePtr(s, k, b) : s \in NodeRing, k \in Places, b \in BOOLEAN}]

(* The first node of a page *)
First(page) == page * NodesPerPage
IsFirst(n)  == n = First(PageOf(n))

(* The contents of the buffers and of the queues of the I/O threads *)
BufferTypes ==
    /\ graph \in Graphs
    /\ parentValid \in [ParentRing -> Nat]
    /\ parentIo \in [ParentRing -> [Reads -> Descriptors]]
    /\ parentPtrs \in [ParentRing -> Ptrs]
    /\ parentBuf \in [ParentRing -> [Reads -> Content]]
    /\ nodeValid \in [NodeRing -> Nat]
    /\ nodeIo \in [NodeRing -> Nodes]
    /\ nodeBuf \in [NodeRing -> Content]
    /\ refCount \in [Syncs -> 0 .. CountMod - 1]
    /\ consumedCount \in [Syncs -> 0 .. CountMod - 1]
    /\ readFifo \in Seq(ParentRing) /\ reading \subseteq Requests
    /\ writeFifo \in Seq(NodeRing) /\ writing \subseteq NodeRing
    /\ disk \in [Pages -> Content]

(* The cursors of the orchestrator, and what each coordinator took, hashed and *)
(* reported                                                                    *)
CursorTypes ==
    /\ opc \in {"sample", "read", "prepare", "write", "release", "written", "retire", "done"}
    /\ unsampled \subseteq Coordinators /\ rem \in 0 .. ActionBatch
    /\ minHash \in 0 .. NodeStop /\ minNode \in 0 .. NodeStop
    /\ lastNode \in 0 .. NodeStop /\ nextNode \in 0 .. NodeStop
    /\ headNode \in 0 .. NodeStop /\ reservedTo \in 0 .. NodeStop
    /\ cacheMin \in 0 .. NodeStop /\ cacheable \in Nat /\ outstanding \in Nat
    /\ tailNode \in 0 .. NodeStop /\ tailParents \in 0 .. NodeStop
    /\ tailWrite \in 0 .. NodeStop /\ headWrite \in 0 .. NodeStop
    /\ taken \in [Coordinators -> 0 .. NodeStop]
    /\ hashed \in [Coordinators -> 0 .. NodeStop]
    /\ reported \in [Coordinators -> 0 .. NodeStop]

(* The order of the cursors: retired, written, being written, reported, hashed, *)
(* taken, prepared, reserved                                                    *)
OrderOK ==
    /\ tailNode <= tailWrite /\ tailWrite <= headWrite
    /\ tailParents <= headNode /\ headNode <= reservedTo
    /\ opc = "prepare" => headNode < reservedTo
    /\ opc # "prepare" => headNode = reservedTo
    /\ \A c \in Coordinators :
          /\ headWrite <= reported[c] /\ tailParents <= reported[c]
          /\ reported[c] <= hashed[c] /\ hashed[c] <= taken[c] /\ taken[c] <= headNode

(* The minimum is a lower bound of the counters sampled so far, and of all of *)
(* them once the sampling is over.                                            *)
SampleOK ==
    /\ opc = "sample" => unsampled # {}
    /\ \A c \in Coordinators :
          opc # "sample" \/ c \notin unsampled => minHash <= reported[c]
    /\ opc # "sample" \/ unsampled # Coordinators => tailParents <= minHash

(* What is written and reserved is whole pages, and neither ring is overrun. *)
SpaceOK ==
    /\ IsFirst(tailWrite) /\ IsFirst(headWrite) /\ IsFirst(reservedTo)
    /\ PageOf(reservedTo) - PageOf(tailNode) <= NodeSlots - 1
    /\ reservedTo - tailParents <= ParentSlots - 1
    /\ outstanding = PageOf(headWrite) - PageOf(tailWrite)
    /\ opc = "prepare" => cacheMin = First(PageOf(tailNode)) /\ cacheMin <= cacheable
                          /\ cacheable <= tailWrite

(* The node whose request is the oldest in the reader's FIFO; the later ones *)
(* follow it.                                                                *)
OldestRequest == headNode - Len(readFifo)
FifoOK ==
    /\ OldestRequest >= 0 /\ (headNode > 0 => OldestRequest > 0)
    /\ reservedTo - OldestRequest <= FifoDepth
    /\ \A i \in 1 .. Len(readFifo) : readFifo[i] = ParentSlot(OldestRequest + i - 1)

(* Entries that are reserved or next to be reserved are clear. *)
FreshOK ==
    \A n \in headNode .. reservedTo :
       /\ parentValid[ParentSlot(n)] = 0
       /\ \A r \in reading : r.slot # ParentSlot(n)

(* The inductive invariant *)
CInv == BufferTypes /\ CursorTypes /\ OrderOK /\ SampleOK /\ SpaceOK /\ FifoOK /\ FreshOK

-----------------------------------------------------------------------------
(* Arithmetic *)

(* Quotient and remainder *)
LEMMA Division ==
    ASSUME NEW a \in Nat, NEW b \in Nat, b > 0
    PROVE  /\ a \div b \in Nat /\ a % b \in 0 .. b - 1
           /\ a = (a \div b) * b + (a % b) /\ (a \div b) * b \in Nat
<1>1. a \div b \in Nat
  OBVIOUS
<1>2. a % b \in 0 .. b - 1
  OBVIOUS
<1>3. a = (a \div b) * b + (a % b)
  OBVIOUS
<1> QED BY <1>1, <1>2, <1>3

(* The quotient and the remainder are the only ones. *)
LEMMA DivisionUnique ==
    ASSUME NEW a \in Nat, NEW b \in Nat, b > 0, NEW q \in Nat, NEW r \in 0 .. b - 1,
           a = q * b + r
    PROVE  a \div b = q /\ a % b = r
OBVIOUS

(* Multiples of b are at least b apart. *)
LEMMA Multiples ==
    ASSUME NEW b \in Nat, NEW p \in Nat, NEW q \in Nat
    PROVE  /\ p * b \in Nat /\ (p + 1) * b = p * b + b
           /\ p < q => p * b + b <= q * b
OBVIOUS

(* Two numbers less than a lap of the ring apart are in different slots. *)
LEMMA SlotsApart ==
    ASSUME NEW a \in Nat, NEW b \in Nat, NEW n \in Nat, n > 0,
           a < b, b < a + n
    PROVE  a % n # b % n
<1> SUFFICES ASSUME a % n = b % n PROVE FALSE
  OBVIOUS
<1>1. PICK p \in Nat, r \in 0 .. n - 1 : a = p * n + r /\ r = a % n /\ p * n \in Nat
  BY Division
<1>2. PICK q \in Nat : b = q * n + r /\ q * n \in Nat
  BY <1>1, Division
<1>3. CASE p < q
  BY <1>1, <1>2, <1>3, Multiples
<1>4. CASE q < p
  BY <1>1, <1>2, <1>4, Multiples
<1>5. CASE p = q
  BY <1>1, <1>2, <1>5
<1> QED BY <1>3, <1>4, <1>5

(* The parameters are positive, and a layer is made of whole pages. *)
LEMMA Parameters ==
    /\ NodesPerPage \in Nat /\ NodesPerPage > 0
    /\ NodeSlots \in Nat /\ NodeSlots > 0 /\ ParentSlots \in Nat /\ ParentSlots > 0
    /\ LayerNodes \in Nat /\ LayerNodes > 0 /\ Layers \in Nat /\ Layers > 0
    /\ PageBatch \in Nat /\ PageBatch > 0 /\ BaseCount \in Nat /\ BaseCount > 0
    /\ FifoDepth \in Nat /\ FifoDepth < ParentSlots
    /\ ActionBatch \in Nat /\ ActionBatch > 0 /\ CountMod \in Nat /\ CountMod > 0
    /\ SyncPages \in Nat /\ SyncPages > 0 /\ Window \in Nat /\ LocalDistance \in Nat
    /\ NodeStop \in Nat /\ NodeStop > 0
    /\ Coordinators # {}
<1>1. {NodesPerPage, LayerNodes, Layers, PageBatch, BaseCount, NodeSlots, ParentSlots,
       SyncPages, CountMod, LocalDistance, ActionBatch, FifoDepth, Window} \subseteq Nat \ {0}
      /\ FifoDepth < ParentSlots /\ Coordinators # {}
  BY Pc1Assumption
<1>2. LayerNodes \in Nat /\ LayerNodes > 0 /\ Layers \in Nat /\ Layers > 0
  BY <1>1
<1>3. NodeStop \in Nat /\ NodeStop > 0
  BY <1>2 DEF NodeStop
<1> QED BY <1>1, <1>2, <1>3

(* A node is the first of its page plus its place in the page. *)
LEMMA PageFacts ==
    ASSUME NEW n \in Nat
    PROVE  /\ PageOf(n) \in Nat /\ PlaceOf(n) \in Places /\ PlaceOf(n) \in 0 .. NodesPerPage - 1
           /\ First(PageOf(n)) \in Nat /\ n = First(PageOf(n)) + PlaceOf(n)
BY Parameters, Division DEF PageOf, PlaceOf, Places, First

(* That page and place are the only ones. *)
LEMMA PageUnique ==
    ASSUME NEW p \in Nat, NEW k \in 0 .. NodesPerPage - 1
    PROVE  /\ First(p) \in Nat /\ PageOf(First(p) + k) = p /\ PlaceOf(First(p) + k) = k
BY Parameters, DivisionUnique, Multiples DEF PageOf, PlaceOf, First

(* First is a bijection between pages and their first nodes, in order. *)
LEMMA FirstFacts ==
    ASSUME NEW p \in Nat, NEW q \in Nat
    PROVE  /\ First(p) \in Nat /\ First(p + 1) = First(p) + NodesPerPage
           /\ p < q => First(p) + NodesPerPage <= First(q)
           /\ First(p) < First(q) => p < q
           /\ PageOf(First(p)) = p /\ IsFirst(First(p))
<1>1. /\ First(p) \in Nat /\ First(q) \in Nat /\ First(p + 1) = First(p) + NodesPerPage
      /\ p < q => First(p) + NodesPerPage <= First(q)
      /\ q < p => First(q) + NodesPerPage <= First(p)
  BY Parameters, Multiples DEF First
<1>2. First(p) < First(q) => p < q
  BY <1>1, Parameters
<1>3. PageOf(First(p)) = p
  <2>1. First(p) + 0 = First(p) /\ 0 \in 0 .. NodesPerPage - 1
    BY <1>1, Parameters
  <2> QED BY <2>1, PageUnique
<1> QED BY <1>1, <1>2, <1>3 DEF IsFirst

(* The first node of a page is not beyond any of its nodes. *)
LEMMA FirstBelow ==
    ASSUME NEW n \in Nat
    PROVE  PageOf(n) \in Nat /\ First(PageOf(n)) \in Nat /\ First(PageOf(n)) <= n
BY PageFacts

(* Pages are in the order of their nodes. *)
LEMMA PageOrder ==
    ASSUME NEW m \in Nat, NEW n \in Nat
    PROVE  /\ m <= n => PageOf(m) <= PageOf(n)
           /\ PageOf(m) < PageOf(n) => m < n
           /\ IsFirst(n) /\ m < n => PageOf(m) < PageOf(n)
           /\ m < First(PageOf(m)) + NodesPerPage
<1>1. /\ PageOf(m) \in Nat /\ PageOf(n) \in Nat
      /\ PageOf(n) < PageOf(m) => First(PageOf(n)) + NodesPerPage <= First(PageOf(m))
      /\ PageOf(m) < PageOf(n) => First(PageOf(m)) + NodesPerPage <= First(PageOf(n))
  BY PageFacts, FirstFacts
<1>2. /\ First(PageOf(m)) \in Nat /\ First(PageOf(n)) \in Nat /\ NodesPerPage \in Nat
      /\ First(PageOf(m)) <= m /\ m < First(PageOf(m)) + NodesPerPage
      /\ First(PageOf(n)) <= n /\ n < First(PageOf(n)) + NodesPerPage
  <2>1. ASSUME NEW k \in Nat
        PROVE  /\ First(PageOf(k)) \in Nat /\ First(PageOf(k)) <= k
               /\ k < First(PageOf(k)) + NodesPerPage
    BY PageFacts, Parameters
  <2> QED BY <2>1, Parameters
<1> QED BY <1>1, <1>2 DEF IsFirst

(* The last node of all layers ends a page. *)
LEMMA NodeStopIsFirst == IsFirst(NodeStop)
<1>1. LayerNodes % NodesPerPage = 0
  BY Pc1Assumption
<1>2. PICK q \in Nat : LayerNodes = q * NodesPerPage
  <2>1. /\ LayerNodes \div NodesPerPage \in Nat
        /\ LayerNodes = (LayerNodes \div NodesPerPage) * NodesPerPage + (LayerNodes % NodesPerPage)
        /\ (LayerNodes \div NodesPerPage) * NodesPerPage \in Nat
    BY Parameters, Division
  <2> QED BY <1>1, <2>1
<1>3. NodeStop = (q * Layers) * NodesPerPage /\ q * Layers \in Nat
  BY <1>2, Parameters DEF NodeStop
<1> QED BY <1>3, FirstFacts DEF First

(* The slots of a node are in the rings. *)
LEMMA SlotFacts ==
    ASSUME NEW n \in Nat
    PROVE  /\ ParentSlot(n) \in ParentRing /\ n % NodeSlots \in NodeRing
           /\ NodeSlot(n) = PageOf(n) % NodeSlots /\ NodeSlot(n) \in NodeRing
BY Parameters, Division, PageFacts DEF ParentSlot, ParentRing, NodeRing, NodeSlot

(* Entries less than a lap apart are in different slots, *)
LEMMA ParentSlotsApart ==
    ASSUME NEW m \in Nat, NEW n \in Nat, m # n, m < n + ParentSlots, n < m + ParentSlots
    PROVE  ParentSlot(m) # ParentSlot(n)
BY Parameters, SlotsApart DEF ParentSlot

(* and so are pages. *)
LEMMA NodeSlotsApart ==
    ASSUME NEW p \in Nat, NEW q \in Nat, p # q, p < q + NodeSlots, q < p + NodeSlots
    PROVE  p % NodeSlots # q % NodeSlots
BY Parameters, SlotsApart

(* The minimum of two *)
LEMMA MinTwo ==
    ASSUME NEW a \in Int, NEW b \in Int
    PROVE  Min({a, b}) \in {a, b} /\ Min({a, b}) <= a /\ Min({a, b}) <= b
<1>1. \E x \in {a, b} : \A y \in {a, b} : x <= y
  OBVIOUS
<1> QED BY <1>1 DEF Min

(* The minimum of the five bounds on a batch *)
LEMMA MinFive ==
    ASSUME NEW a \in Int, NEW b \in Int, NEW c \in Int, NEW d \in Int, NEW e \in Int
    PROVE  /\ Min({a, b, c, d, e}) \in Int
           /\ Min({a, b, c, d, e}) <= a /\ Min({a, b, c, d, e}) <= b
           /\ Min({a, b, c, d, e}) <= c /\ Min({a, b, c, d, e}) <= d
           /\ Min({a, b, c, d, e}) <= e
<1>1. \E x \in {a, b, c, d, e} : \A y \in {a, b, c, d, e} : x <= y
  <2>1. \E x \in {a, b, c} : x <= a /\ x <= b /\ x <= c
    OBVIOUS
  <2>2. PICK x \in {a, b, c} : x <= a /\ x <= b /\ x <= c
    BY <2>1
  <2>3. CASE d <= x /\ d <= e
    BY <2>2, <2>3
  <2>4. CASE e <= x /\ e <= d
    BY <2>2, <2>4
  <2>5. CASE x <= d /\ x <= e
    BY <2>2, <2>5
  <2> QED BY <2>2, <2>3, <2>4, <2>5
<1> QED BY <1>1 DEF Min

(* First nodes add up with their pages. *)
LEMMA FirstAdds ==
    ASSUME NEW p \in Nat, NEW q \in Nat
    PROVE  First(p + q) = First(p) + First(q)
BY Parameters DEF First

(* A lap of the node buffer, in nodes *)
Lap == NodeSlots * NodesPerPage

(* A lap is a positive number of whole pages. *)
LEMMA LapFacts ==
    ASSUME NEW p \in Nat, NEW q \in Nat
    PROVE  /\ Lap \in Nat /\ Lap > 0
           /\ p - q <= NodeSlots - 1 => First(p) + NodesPerPage <= First(q) + Lap
<1>1. First(q + NodeSlots) = First(q) + Lap
  BY Parameters, FirstAdds DEF First, Lap
<1>2. p - q <= NodeSlots - 1 => First(p) + NodesPerPage <= First(q + NodeSlots)
  BY Parameters, FirstFacts
<1>3. Lap \in Nat /\ Lap > 0
  BY Parameters DEF Lap
<1> QED BY <1>1, <1>2, <1>3

(* A set of indices is finite and no larger than its range. *)
LEMMA SubsetCard ==
    ASSUME NEW n \in Nat, NEW S, S \subseteq 0 .. n - 1
    PROVE  IsFiniteSet(S) /\ Cardinality(S) \in Nat /\ Cardinality(S) <= n
<1>1. IsFiniteSet(0 .. n - 1) /\ Cardinality(0 .. n - 1) = n
  <2>1. 0 \in Int /\ n - 1 \in Int
    OBVIOUS
  <2>2. IsFiniteSet(0 .. n - 1)
        /\ Cardinality(0 .. n - 1) = IF 0 > n - 1 THEN 0 ELSE (n - 1) - 0 + 1
    BY <2>1, FS_Interval
  <2> QED BY <2>2
<1> QED BY <1>1, FS_Subset, FS_CardinalityType

(* The parents that are looked up come before their node. *)
LEMMA ParentBefore ==
    ASSUME graph \in Graphs, NEW n \in Nodes, NEW j \in Reads,
           NodeOf(n) # 0 \/ (n > 0 /\ j >= BaseCount)
    PROVE  Parent(n, j) \in 0 .. n - 1
<1> DEFINE l == LayerOf(n)
           v == NodeOf(n)
<1>1. /\ l \in Nat /\ v \in 0 .. LayerNodes - 1 /\ l * LayerNodes \in Nat
      /\ n = l * LayerNodes + v /\ n \in Nat /\ j \in Nat
  BY Parameters, Division DEF Nodes, LayerOf, NodeOf, Reads
<1>2. n > 0
  <2>1. NodeOf(0) = 0
    BY Parameters DEF NodeOf
  <2> QED BY <1>1, <2>1
<1>3. graph[v][j] \in 0 .. LayerNodes - 1
  <2>1. graph \in [0 .. LayerNodes - 1 -> [Reads -> 0 .. LayerNodes - 1]]
    BY Pc1Assumption
  <2>2. graph[v] \in [Reads -> 0 .. LayerNodes - 1]
    BY <1>1, <2>1
  <2> QED BY <2>2
<1>4. CASE l = 0 /\ PrevLayer(j)
  BY <1>1, <1>2, <1>4 DEF Parent
<1>5. CASE l # 0 /\ PrevLayer(j)
  <2>1. Parent(n, j) = (l - 1) * LayerNodes + graph[v][j]
    BY <1>5 DEF Parent
  <2> HIDE DEF l, v
  <2>2. PICK k \in Nat : k = l - 1 /\ l = k + 1
    BY <1>1, <1>5
  <2>3. k * LayerNodes \in Nat /\ l * LayerNodes = k * LayerNodes + LayerNodes
    BY <2>2, Parameters, Multiples
  <2>4. Parent(n, j) = k * LayerNodes + graph[v][j]
    BY <2>1, <2>2
  <2> QED BY <1>1, <1>3, <2>3, <2>4, Parameters
<1>6. CASE ~PrevLayer(j)
  <2>1. Parent(n, j) = l * LayerNodes + graph[v][j]
    BY <1>6 DEF Parent
  <2>2. j \in 0 .. BaseCount - 2
    BY <1>1, <1>6, Parameters DEF PrevLayer
  <2>3. v \in 1 .. LayerNodes - 1
    BY <1>1, <2>2, Parameters
  <2>4. graph[v][j] < v
    BY <2>2, <2>3, Pc1Assumption
  <2> HIDE DEF l, v
  <2> QED BY <1>1, <1>3, <2>1, <2>4, Parameters
<1> QED BY <1>4, <1>5, <1>6

-----------------------------------------------------------------------------
(* The orchestrator's steps keep CInv. *)

(* Everything is empty at the start. *)
LEMMA InitC == Init => CInv
<1> SUFFICES ASSUME Init PROVE CInv
  OBVIOUS
<1> USE Parameters
<1>1. BufferTypes
  <2>1. Blank \in Content
    BY DEF Blank, Content
  <2>2. Read(0) \in Descriptors
    BY DEF Read, Descriptors, Nodes
  <2>3. <<>> \in Seq(ParentRing) /\ <<>> \in Seq(NodeRing)
    OBVIOUS
  <2>4. 0 \in Nodes /\ 0 \in 0 .. CountMod - 1
    BY DEF Nodes
  <2>5. [j \in 0 .. PageBatch |-> NullPtr] \in Ptrs
    BY DEF Ptrs
  <2> QED BY <2>1, <2>2, <2>3, <2>4, <2>5 DEF Init, BufferTypes, ParentRing, NodeRing, Syncs
<1>2. CursorTypes
  BY DEF Init, CursorTypes
<1>3. OrderOK /\ SampleOK
  BY DEF Init, OrderOK, SampleOK
<1>4. SpaceOK
  <2>1. First(0) = 0
    BY DEF First
  <2>2. IsFirst(0) /\ PageOf(0) = 0
    BY <2>1, FirstFacts
  <2> QED BY <2>2 DEF Init, SpaceOK
<1>5. FifoOK
  BY DEF Init, FifoOK, OldestRequest
<1>6. FreshOK
  BY SlotFacts DEF Init, FreshOK, ParentRing
<1> QED BY <1>1, <1>2, <1>3, <1>4, <1>5, <1>6 DEF CInv

(* One counter more is sampled: the minimum stays below it. *)
LEMMA SampleKeepsC == ASSUME CInv, NEW c \in Coordinators, Sample(c) PROVE CInv'
<1> USE Parameters DEF CInv, orchVars, parentVars, nodeVars, ioVars, workerVars
<1>0. /\ minHash' \in 0 .. NodeStop
      /\ minHash' <= reported[c]
      /\ unsampled # Coordinators => minHash' <= minHash
      /\ unsampled = Coordinators => minHash' = reported[c]
      /\ minHash' \in {minHash, reported[c]}
  <2>1. minHash \in Int /\ reported[c] \in Int /\ minHash \in 0 .. NodeStop
        /\ reported[c] \in 0 .. NodeStop
    BY DEF CursorTypes
  <2> QED BY <2>1, MinTwo DEF Sample, OldestHashed
<1>1. BufferTypes'
  BY DEF Sample, BufferTypes, CursorTypes
<1>2. CursorTypes'
  <2>1. minNode' \in 0 .. NodeStop
    <3>1. Min({minHash', tailWrite}) \in {minHash', tailWrite}
      <4>1. minHash' \in Int /\ tailWrite \in Int
        BY <1>0 DEF CursorTypes
      <4> QED BY <4>1, MinTwo
    <3> QED BY <1>0, <3>1 DEF Sample, CursorTypes
  <2> QED BY <1>0, <2>1 DEF Sample, CursorTypes
<1>3. OrderOK'
  BY DEF Sample, OrderOK, CursorTypes, SampleOK
<1>4. SampleOK'
  <2>1. tailParents <= minHash'
    BY <1>0 DEF Sample, SampleOK, OrderOK, CursorTypes
  <2>2. \A d \in Coordinators : d \notin unsampled' => minHash' <= reported[d]
    BY <1>0 DEF Sample, SampleOK, OrderOK, CursorTypes
  <2>3. opc' = "sample" => unsampled' # {}
    BY DEF Sample
  <2>4. opc' # "sample" => unsampled' = {}
    BY DEF Sample
  <2>5. UNCHANGED <<reported, tailParents>>
    BY DEF Sample
  <2> QED BY <2>1, <2>2, <2>3, <2>4, <2>5 DEF SampleOK
<1>5. SpaceOK'
  BY DEF Sample, SpaceOK, CursorTypes, OrderOK
<1>6. FifoOK'
  BY DEF Sample, FifoOK, BufferTypes, CursorTypes, OrderOK, OldestRequest
<1>7. FreshOK'
  BY DEF Sample, FreshOK, CursorTypes, OrderOK
<1> QED BY <1>1, <1>2, <1>3, <1>4, <1>5, <1>6, <1>7

(* How many nodes read_batch reserves: whole pages that fit everywhere *)
LEMMA BatchFits ==
    ASSUME CInv, opc = "read", MaxBatch > 0
    PROVE  \E b \in Nat \ {0} :
              /\ MaxBatch = First(b) /\ MaxBatch \in Nat
              /\ headNode + MaxBatch \in 0 .. NodeStop
              /\ IsFirst(headNode + MaxBatch)
              /\ PageOf(headNode + MaxBatch) = PageOf(headNode) + b
              /\ headNode + MaxBatch + Len(readFifo) <= headNode + FifoDepth
              /\ (headNode + MaxBatch) - tailParents <= ParentSlots - 1
              /\ PageOf(headNode + MaxBatch) - PageOf(tailNode) <= NodeSlots - 1
<1> USE Parameters
<1> DEFINE m == Min({FifoFree, NodeFree * NodesPerPage, ParentFree, NodeStop - headNode,
                     2 * NodesPerPage})
           h == PageOf(headNode)
           t == PageOf(tailNode)
<1>1. /\ headNode \in Nat /\ headNode = First(h) /\ reservedTo = headNode /\ h \in Nat
      /\ tailNode \in Nat /\ t \in Nat /\ tailParents \in Nat /\ headNode <= NodeStop
      /\ Len(readFifo) \in Nat
  BY PageFacts DEF CInv, CursorTypes, OrderOK, SpaceOK, IsFirst, BufferTypes
<1>2. NodeFree = (NodeSlots - 1) - (h - t) /\ NodeFree \in Nat
  BY <1>1 DEF NodeFree, CInv, SpaceOK
<1>3. ParentFree \in Int /\ ParentFree = (ParentSlots - 1) - (headNode - tailParents)
      /\ FifoFree \in Int /\ FifoFree = FifoDepth - Len(readFifo)
  BY <1>1 DEF ParentFree, FifoFree
<1>4. NodeFree * NodesPerPage = First(NodeFree) /\ First(NodeFree) \in Nat
  BY <1>2, FirstFacts DEF First
<1>5. m \in Int /\ m <= FifoFree /\ m <= First(NodeFree) /\ m <= ParentFree
      /\ m <= NodeStop - headNode
  <2>1. NodeFree * NodesPerPage \in Int /\ NodeStop - headNode \in Int /\ 2 * NodesPerPage \in Int
    BY <1>1, <1>4
  <2>2. m \in Int /\ m <= FifoFree /\ m <= NodeFree * NodesPerPage /\ m <= ParentFree
        /\ m <= NodeStop - headNode
    BY <1>3, <2>1, MinFive
  <2> QED BY <1>4, <2>2
<1>6. MaxBatch = m - (m % NodesPerPage)
  BY DEF MaxBatch, RoundDown
<1> HIDE DEF m
<1>7. m \in Nat
  <2>1. m % NodesPerPage \in 0 .. NodesPerPage - 1
    BY <1>5
  <2> QED BY <1>5, <1>6, <2>1
<1> DEFINE b == PageOf(m)
<1>8. b \in Nat /\ MaxBatch = First(b) /\ First(b) \in Nat /\ First(b) <= m
  <2>1. b \in Nat /\ First(b) \in Nat /\ m = First(b) + PlaceOf(m) /\ PlaceOf(m) \in 0 .. NodesPerPage - 1
    BY <1>7, PageFacts
  <2>2. MaxBatch = m - PlaceOf(m)
    BY <1>6 DEF PlaceOf
  <2> HIDE DEF b
  <2> QED BY <2>1, <2>2
<1>9. b > 0
  <2>1. First(0) = 0
    BY DEF First
  <2> QED BY <1>8, <2>1
<1>10. headNode + MaxBatch = First(h + b)
  BY <1>1, <1>8, FirstAdds
<1>11. PageOf(headNode + MaxBatch) = h + b /\ IsFirst(headNode + MaxBatch)
  <2>1. h + b \in Nat
    BY <1>1, <1>8
  <2> QED BY <1>10, <2>1, FirstFacts
<1>12. b <= NodeFree
  <2>1. First(b) <= First(NodeFree)
    BY <1>4, <1>5, <1>8
  <2>2. NodeFree < b => First(NodeFree) + NodesPerPage <= First(b)
    BY <1>2, <1>8, FirstFacts
  <2> QED BY <1>2, <1>4, <1>8, <2>1, <2>2
<1> HIDE DEF b, h, t
<1>13. h + b - t <= NodeSlots - 1
  BY <1>1, <1>2, <1>8, <1>12
<1>14. /\ headNode + MaxBatch \in 0 .. NodeStop
       /\ headNode + MaxBatch + Len(readFifo) <= headNode + FifoDepth
       /\ (headNode + MaxBatch) - tailParents <= ParentSlots - 1
  <2>1. MaxBatch \in Nat /\ MaxBatch <= m
    BY <1>8
  <2>2. MaxBatch <= FifoDepth - Len(readFifo)
    BY <1>1, <1>3, <1>5, <2>1
  <2>3. MaxBatch <= (ParentSlots - 1) - (headNode - tailParents)
    BY <1>1, <1>3, <1>5, <2>1
  <2>4. MaxBatch <= NodeStop - headNode
    BY <1>1, <1>5, <2>1
  <2>5. /\ headNode \in Nat /\ tailParents \in Nat /\ Len(readFifo) \in Nat
    BY <1>1
  <2>6. headNode + MaxBatch \in 0 .. NodeStop
    BY <2>1, <2>4, <2>5
  <2>7. headNode + MaxBatch + Len(readFifo) <= headNode + FifoDepth
    BY <2>1, <2>2, <2>5
  <2>8. (headNode + MaxBatch) - tailParents <= ParentSlots - 1
    BY <2>1, <2>3, <2>5
  <2> QED BY <2>6, <2>7, <2>8
<1> QED BY <1>1, <1>8, <1>9, <1>11, <1>13, <1>14 DEF h, t

(* The batch fits, its entries are cleared, and no read is on its way to them. *)
LEMMA ReserveBatchKeepsC == ASSUME CInv, BoundedLatency, ReserveBatch PROVE CInv'
<1> DEFINE to == headNode + MaxBatch
<1>a. PICK b \in Nat \ {0} :
         /\ MaxBatch = First(b) /\ MaxBatch \in Nat
         /\ to \in 0 .. NodeStop /\ IsFirst(to) /\ PageOf(to) = PageOf(headNode) + b
         /\ to + Len(readFifo) <= headNode + FifoDepth
         /\ to - tailParents <= ParentSlots - 1
         /\ PageOf(to) - PageOf(tailNode) <= NodeSlots - 1
  <2>1. opc = "read" /\ MaxBatch > 0
    BY DEF ReserveBatch
  <2> QED BY <2>1, BatchFits
<1> USE Parameters DEF CInv, orchVars, parentVars, nodeVars, ioVars, workerVars
<1>0. /\ opc = "read" /\ opc' = "prepare" /\ MaxBatch > 0 /\ reservedTo' = to
      /\ headNode = reservedTo
      /\ UNCHANGED <<unsampled, rem, minHash, minNode, lastNode, nextNode,
                     headNode, tailNode, tailParents, tailWrite, headWrite, outstanding>>
      /\ UNCHANGED <<readFifo, reading, taken, hashed, reported>>
  BY DEF ReserveBatch, OrderOK
<1>b. cacheMin' = First(PageOf(tailNode)) /\ cacheMin' \in 0 .. NodeStop
      /\ cacheMin' <= tailWrite
  <2> DEFINE h == PageOf(headNode)
             t == PageOf(tailNode)
  <2>1. /\ h \in Nat /\ t \in Nat /\ headNode = First(h) /\ tailNode \in Nat
        /\ t <= h /\ headNode \in Nat
    BY <1>0, PageFacts, PageOrder DEF CursorTypes, SpaceOK, OrderOK, IsFirst
  <2>2. cacheMin' = headNode - (First(PageOf(to) - t) - MaxBatch)
    BY DEF ReserveBatch, First
  <2>3. PageOf(to) = h + b
    BY <1>a
  <2> HIDE DEF h, t, to
  <2>4. PICK d \in Nat : d = PageOf(to) - t /\ t + d = h + b
    BY <2>1, <2>3
  <2>5. First(t) + First(d) = First(h) + First(b)
    BY <2>1, <2>4, FirstAdds
  <2>6. First(t) \in Nat /\ First(h) \in Nat /\ First(b) \in Nat /\ First(d) \in Nat
    BY <2>1, FirstFacts
  <2>7. cacheMin' = First(t)
    <3>1. cacheMin' = First(h) - (First(d) - First(b))
      BY <1>a, <2>1, <2>2, <2>4
    <3> QED BY <2>5, <2>6, <3>1
  <2>8. First(t) <= tailNode
    BY <2>1, PageFacts DEF t
  <2> QED BY <2>1, <2>6, <2>7, <2>8 DEF t, CursorTypes, OrderOK
<1>c. cacheable' \in Nat /\ cacheMin' <= cacheable' /\ cacheable' <= tailWrite
  <2>1. cacheMin' + ParentSlots \in Int /\ tailWrite \in Int /\ tailWrite \in Nat
    BY <1>b DEF CursorTypes
  <2>2. cacheable' = Min({cacheMin' + ParentSlots, tailWrite})
    BY DEF ReserveBatch
  <2>3. cacheable' \in {cacheMin' + ParentSlots, tailWrite} /\ cacheable' <= tailWrite
    BY <2>1, <2>2, MinTwo
  <2> QED BY <1>b, <2>1, <2>3
<1> HIDE DEF to
<1>1. BufferTypes'
  <2>1. parentValid' \in [ParentRing -> Nat]
    BY DEF ReserveBatch, BufferTypes
  <2>2. nodeValid' \in [NodeRing -> Nat]
    BY DEF ReserveBatch, BufferTypes
  <2> QED BY <2>1, <2>2 DEF ReserveBatch, BufferTypes
<1>2. CursorTypes'
  BY <1>0, <1>a, <1>b, <1>c DEF CursorTypes
<1>3. OrderOK'
  <2>1. headNode < to
    BY <1>0, <1>a DEF CursorTypes, to
  <2> QED BY <1>0, <2>1, <1>a DEF CursorTypes, OrderOK
<1>4. SampleOK'
  BY <1>0 DEF SampleOK
<1>5. SpaceOK'
  BY <1>0, <1>a, <1>b, <1>c DEF SpaceOK
<1>6. FifoOK'
  <2>1. Len(readFifo) \in Nat /\ headNode \in Nat /\ to \in Nat
    BY <1>a DEF BufferTypes, CursorTypes
  <2> QED BY <1>0, <1>a, <2>1 DEF FifoOK, OldestRequest
<1>7. FreshOK'
  <2> SUFFICES ASSUME NEW n \in headNode .. to
               PROVE  /\ parentValid'[ParentSlot(n)] = 0
                      /\ \A r \in reading : r.slot # ParentSlot(n)
    BY <1>0 DEF FreshOK
  <2>0. n \in Nat /\ ParentSlot(n) \in ParentRing /\ headNode \in Nat /\ to \in Nat
    BY <1>a, SlotFacts DEF CursorTypes
  <2>1. \A r \in reading : r.slot # ParentSlot(n)
    BY DEF ReserveBatch, to
  <2>2. parentValid' = [s \in DOMAIN parentValid |->
                          IF s \in {ParentSlot(k) : k \in headNode + 1 .. to}
                            THEN 0 ELSE parentValid[s]]
    BY DEF ReserveBatch, to
  <2>5. parentValid'[ParentSlot(n)] = IF ParentSlot(n) \in {ParentSlot(k) : k \in headNode + 1 .. to}
                                        THEN 0 ELSE parentValid[ParentSlot(n)]
    BY <2>0, <2>2 DEF BufferTypes
  <2>3. CASE n = headNode
    <3>1. parentValid[ParentSlot(n)] = 0
      BY <1>0, <2>0, <2>3 DEF FreshOK
    <3> QED BY <2>1, <2>5, <3>1
  <2>4. CASE n \in headNode + 1 .. to
    BY <2>1, <2>4, <2>5
  <2> QED BY <2>0, <2>1, <2>3, <2>4
<1> QED BY <1>1, <1>2, <1>3, <1>4, <1>5, <1>6, <1>7

(* No room for a page: only the place in process() changes. *)
LEMMA NoReadBatchKeepsC == ASSUME CInv, NoReadBatch PROVE CInv'
<1> USE Parameters DEF CInv, orchVars, parentVars, nodeVars, ioVars, workerVars
<1>1. BufferTypes'
  BY DEF NoReadBatch, BufferTypes, CursorTypes
<1>2. CursorTypes'
  BY DEF NoReadBatch, CursorTypes
<1>3. OrderOK'
  BY DEF NoReadBatch, OrderOK, CursorTypes, SampleOK
<1>4. SampleOK'
  BY DEF NoReadBatch, OrderOK, CursorTypes, SampleOK
<1>5. SpaceOK'
  BY DEF NoReadBatch, SpaceOK, CursorTypes, OrderOK
<1>6. FifoOK'
  BY DEF NoReadBatch, FifoOK, BufferTypes, CursorTypes, OrderOK, OldestRequest
<1>7. FreshOK'
  BY DEF NoReadBatch, FreshOK, CursorTypes, OrderOK
<1> QED BY <1>1, <1>2, <1>3, <1>4, <1>5, <1>6, <1>7

(* Nothing more to write in this iteration *)
LEMMA WriteDoneKeepsC == ASSUME CInv, WriteDone PROVE CInv'
<1> USE Parameters DEF CInv, orchVars, parentVars, nodeVars, ioVars, workerVars
<1>1. BufferTypes'
  BY DEF WriteDone, BufferTypes, CursorTypes
<1>2. CursorTypes'
  BY DEF WriteDone, CursorTypes
<1>3. OrderOK'
  BY DEF WriteDone, OrderOK, CursorTypes, SampleOK
<1>4. SampleOK'
  BY DEF WriteDone, OrderOK, CursorTypes, SampleOK
<1>5. SpaceOK'
  BY DEF WriteDone, SpaceOK, CursorTypes, OrderOK
<1>6. FifoOK'
  BY DEF WriteDone, FifoOK, BufferTypes, CursorTypes, OrderOK, OldestRequest
<1>7. FreshOK'
  BY DEF WriteDone, FreshOK, CursorTypes, OrderOK
<1> QED BY <1>1, <1>2, <1>3, <1>4, <1>5, <1>6, <1>7

(* What read_batch writes for the next node: its pointers, and which of its *)
(* parents are to be read from disk                                         *)
NewPtrs   == [i \in 0 .. PageBatch |-> PtrFor(headNode, i)]
Used(n)   == FirstRead(n) .. PageBatch - 1
NewReads  == {j \in Used(headNode) : NewPtrs[j + 1].to = "parent"}
NewRefs(g) == {i \in 0 .. PageBatch : IsRefPtr(NewPtrs[i]) /\ SyncOf(NewPtrs[i].slot) = g}

(* PrepareNode, with the pointers written out once *)
LEMMA PrepareEffect ==
    ASSUME PrepareNode
    PROVE  /\ parentPtrs' = [parentPtrs EXCEPT ![ParentSlot(headNode)] = NewPtrs]
           /\ parentIo' = [parentIo EXCEPT ![ParentSlot(headNode)] =
                [j \in Reads |->
                   IF j \notin Used(headNode) THEN parentIo[ParentSlot(headNode)][j]
                   ELSE IF j \in NewReads THEN Read(Parent(headNode, j)) ELSE Nop]]
           /\ refCount' = [g \in DOMAIN refCount |->
                             (refCount[g] + Cardinality(NewRefs(g))) % CountMod]
           /\ parentValid' = [parentValid EXCEPT ![ParentSlot(headNode)] =
                                @ + PageBatch - Cardinality(NewReads)]
           /\ readFifo' = IF headNode = 0 THEN readFifo
                          ELSE Append(readFifo, ParentSlot(headNode))
           /\ headNode' = headNode + 1
           /\ opc = "prepare"
           /\ opc' = IF headNode + 1 = reservedTo THEN "write" ELSE opc
           /\ rem' = IF headNode + 1 = reservedTo THEN ActionBatch ELSE rem
           /\ UNCHANGED <<graph, unsampled, minHash, minNode, lastNode, nextNode,
                   reservedTo, cacheMin, cacheable, tailNode,
                   tailParents, tailWrite, headWrite, outstanding, parentBuf,
                   nodeValid, nodeIo, nodeBuf, consumedCount, reading,
                   writeFifo, writing, disk, workerVars>>
<1>1. DOMAIN NewPtrs = 0 .. PageBatch
  BY DEF NewPtrs
<1> QED BY <1>1 DEF PrepareNode, NewPtrs, NewReads, NewRefs, Used

(* The reads that are looked up are reads of an entry. *)
LEMMA UsedFacts ==
    ASSUME NEW n \in Nodes, NEW j \in Used(n)
    PROVE  j \in Reads /\ (NodeOf(n) # 0 \/ (n > 0 /\ j >= BaseCount))
BY Parameters DEF Nodes, Used, FirstRead, Reads

(* While a batch is prepared, a parent taken from the cache is in the page of *)
(* the node buffer that its number says.                                      *)
LEMMA CacheSlotIsNodeSlot ==
    ASSUME CInv, opc = "prepare", NEW p \in Nat, UseCache(p)
    PROVE  CacheSlot(p) = NodeSlot(p) /\ cacheMin <= p
<1> DEFINE t == PageOf(tailNode)
<1>1. /\ cacheMin = First(t) /\ First(t) \in Nat /\ t \in Nat /\ First(t) <= p
  BY PageFacts DEF CInv, SpaceOK, CursorTypes, UseCache
<1>2. PICK q \in Nat, k \in 0 .. NodesPerPage - 1 :
         /\ p - First(t) = First(q) + k /\ First(q) \in Nat
         /\ (p - First(t)) \div NodesPerPage = q
  <2>1. PICK d \in Nat : d = p - First(t)
    BY <1>1
  <2>2. /\ PageOf(d) \in Nat /\ PlaceOf(d) \in 0 .. NodesPerPage - 1
        /\ First(PageOf(d)) \in Nat /\ d = First(PageOf(d)) + PlaceOf(d)
    BY PageFacts
  <2> QED BY <2>1, <2>2 DEF PageOf
<1>3. p = First(t + q) + k
  <2>1. First(t + q) = First(t) + First(q)
    BY <1>1, FirstAdds
  <2> HIDE DEF t
  <2> QED BY <1>1, <1>2, <2>1, Parameters
<1>4. PageOf(p) = t + q
  <2>1. t + q \in Nat
    BY <1>1
  <2> QED BY <1>3, <2>1, PageUnique
<1> QED BY <1>1, <1>2, <1>4 DEF CacheSlot, NodeSlot

(* The pointers of a prepared entry are pointers. *)
LEMMA NewPtrsType == ASSUME CInv, opc = "prepare" PROVE NewPtrs \in Ptrs
<1> DEFINE n == headNode
           Target == {NullPtr} \cup {ParentPtr(k) : k \in Places}
                     \cup {NodePtr(s, k, b) : s \in NodeRing, k \in Places, b \in BOOLEAN}
<1>0. n \in Nodes /\ n \in Nat
  <2>1. n \in Nat /\ n < reservedTo /\ reservedTo \in 0 .. NodeStop
    BY DEF CInv, OrderOK, CursorTypes
  <2> QED BY <2>1, Parameters DEF Nodes
<1> SUFFICES ASSUME NEW i \in 0 .. PageBatch PROVE PtrFor(n, i) \in Target
  BY DEF NewPtrs, Ptrs
<1>1. CASE i = 0
  <2>1. NodeOf(0) = 0
    BY Parameters DEF NodeOf
  <2>2. NodeOf(n) # 0 => n - 1 \in Nat
    BY <1>0, <2>1
  <2>3. NodeOf(n) # 0 => NodeSlot(n - 1) \in NodeRing /\ PlaceOf(n - 1) \in Places
    BY <2>2, SlotFacts, PageFacts
  <2>4. NodeOf(n) # 0 => NodePtr(NodeSlot(n - 1), PlaceOf(n - 1), TRUE) \in Target
    <3>1. \A s \in NodeRing, k \in Places, b \in BOOLEAN : NodePtr(s, k, b) \in Target
      OBVIOUS
    <3> HIDE DEF Target, n
    <3> QED BY <2>3, <3>1, Zenon
  <2>5. NullPtr \in Target
    OBVIOUS
  <2>6. PtrFor(n, i) = IF NodeOf(n) = 0 THEN NullPtr
                       ELSE NodePtr(NodeSlot(n - 1), PlaceOf(n - 1), TRUE)
    BY <1>1 DEF PtrFor
  <2> HIDE DEF Target, n
  <2> QED BY <2>4, <2>5, <2>6
<1>2. CASE i # 0 /\ ~(i - 1 < FirstRead(n))
  <2> DEFINE p == Parent(n, i - 1)
  <2>1. i - 1 \in Used(n)
    BY <1>2, Parameters DEF Used, FirstRead
  <2>2. p \in Nat
    BY <1>0, <2>1, UsedFacts, ParentBefore DEF CInv, BufferTypes
  <2>3. PtrFor(n, i) = IF UseCache(p) THEN NodePtr(CacheSlot(p), PlaceOf(p), IsLocal(n, p))
                                      ELSE ParentPtr(PlaceOf(p))
    BY <1>2 DEF PtrFor
  <2>4. PlaceOf(p) \in Places /\ NodeSlot(p) \in NodeRing
    BY <2>2, PageFacts, SlotFacts
  <2>5. UseCache(p) => CacheSlot(p) \in NodeRing
    BY <2>2, <2>4, CacheSlotIsNodeSlot
  <2>6. IsLocal(n, p) \in BOOLEAN
    BY DEF IsLocal
  <2> HIDE DEF p
  <2> QED BY <2>3, <2>4, <2>5, <2>6
<1>3. CASE i # 0 /\ i - 1 < FirstRead(n)
  BY <1>3 DEF PtrFor
<1> QED BY <1>1, <1>2, <1>3

(* The next node of the batch is prepared: its request joins the FIFO. *)
LEMMA PrepareNodeKeepsC == ASSUME CInv, PrepareNode PROVE CInv'
<1> USE Parameters DEF CInv, workerVars
<1> DEFINE n == headNode
           slot == ParentSlot(n)
<1>e. /\ opc = "prepare" /\ headNode' = n + 1
      /\ opc' = IF n + 1 = reservedTo THEN "write" ELSE opc
      /\ rem' = IF n + 1 = reservedTo THEN ActionBatch ELSE rem
      /\ UNCHANGED <<unsampled, minHash, minNode, lastNode, nextNode, reservedTo, cacheMin,
                     cacheable, tailNode, tailParents, tailWrite, headWrite, outstanding>>
      /\ UNCHANGED <<taken, hashed, reported, reading>>
  BY PrepareEffect
<1>f. readFifo' = IF n = 0 THEN readFifo ELSE Append(readFifo, slot)
  BY PrepareEffect
<1>0. n \in Nodes /\ n \in Nat /\ n < reservedTo /\ reservedTo \in Nat /\ slot \in ParentRing
  <2>1. n \in Nat /\ n < reservedTo /\ reservedTo \in 0 .. NodeStop
    BY <1>e DEF OrderOK, CursorTypes
  <2> QED BY <2>1, SlotFacts DEF Nodes
<1>a. NewReads \subseteq Reads /\ Cardinality(NewReads) \in 0 .. PageBatch
  <2>1. NewReads \subseteq 0 .. PageBatch - 1
    BY <1>0, UsedFacts DEF NewReads, Reads
  <2>2. Cardinality(NewReads) \in Nat /\ Cardinality(NewReads) <= PageBatch
    BY <2>1, SubsetCard
  <2> QED BY <2>1, <2>2 DEF Reads
<1>1. BufferTypes'
  <2>1. parentValid' \in [ParentRing -> Nat]
    <3>1. parentValid[slot] + PageBatch - Cardinality(NewReads) \in Nat
      BY <1>0, <1>a DEF BufferTypes
    <3> QED BY <1>0, <3>1, PrepareEffect DEF BufferTypes
  <2>2. parentIo' \in [ParentRing -> [Reads -> Descriptors]]
    <3> DEFINE io == [j \in Reads |->
                   IF j \notin Used(n) THEN parentIo[slot][j]
                   ELSE IF j \in NewReads THEN Read(Parent(n, j)) ELSE Nop]
    <3>1. \A j \in Used(n) : Parent(n, j) \in Nodes
      BY <1>0, UsedFacts, ParentBefore DEF BufferTypes, Nodes
    <3>2. \A p \in Nodes : Read(p) \in Descriptors
      BY DEF Read, Descriptors
    <3>3. Nop \in Descriptors
      BY DEF Nop, Descriptors, Nodes
    <3>4. \A j \in Reads : parentIo[slot][j] \in Descriptors
      BY <1>0 DEF BufferTypes
    <3>5. io \in [Reads -> Descriptors]
      BY <3>1, <3>2, <3>3, <3>4
    <3>6. parentIo' = [parentIo EXCEPT ![slot] = io]
      BY PrepareEffect
    <3> HIDE DEF io
    <3> QED BY <1>0, <3>5, <3>6 DEF BufferTypes
  <2>3. refCount' \in [Syncs -> 0 .. CountMod - 1]
    <3>1. \A g : Cardinality(NewRefs(g)) \in Nat
      <4>1. \A g : NewRefs(g) \subseteq 0 .. (PageBatch + 1) - 1
        BY DEF NewRefs
      <4> QED BY <4>1, SubsetCard
    <3>2. \A g \in Syncs : (refCount[g] + Cardinality(NewRefs(g))) % CountMod \in 0 .. CountMod - 1
      BY <3>1, Division DEF BufferTypes
    <3> QED BY <3>2, PrepareEffect DEF BufferTypes
  <2>4. readFifo' \in Seq(ParentRing)
    BY <1>0, <1>f DEF BufferTypes
  <2>5. parentPtrs' \in [ParentRing -> Ptrs]
    <3>1. NewPtrs \in Ptrs
      BY <1>e, NewPtrsType
    <3>2. parentPtrs' = [parentPtrs EXCEPT ![slot] = NewPtrs]
      BY PrepareEffect
    <3> QED BY <1>0, <3>1, <3>2 DEF BufferTypes
  <2> QED BY <2>1, <2>2, <2>3, <2>4, <2>5, PrepareEffect DEF BufferTypes
<1>2. CursorTypes'
  BY <1>0, <1>e DEF CursorTypes
<1>3. OrderOK'
  BY <1>0, <1>e DEF CursorTypes, OrderOK
<1>4. SampleOK'
  BY PrepareEffect DEF SampleOK
<1>5. SpaceOK'
  BY PrepareEffect DEF SpaceOK
<1>6. FifoOK'
  <2>1. CASE n = 0
    <3>1. Len(readFifo) = 0 /\ readFifo' = readFifo
      BY <2>1, PrepareEffect DEF FifoOK, OldestRequest, BufferTypes
    <3> QED BY <1>0, <1>e, <2>1, <3>1 DEF FifoOK, OldestRequest, CursorTypes
  <2>2. CASE n # 0
    <3>1. /\ readFifo' = Append(readFifo, slot) /\ Len(readFifo) \in Nat
          /\ Len(readFifo') = Len(readFifo) + 1
          /\ \A i \in 1 .. Len(readFifo) : readFifo'[i] = readFifo[i]
          /\ readFifo'[Len(readFifo) + 1] = slot
      <4>1. readFifo' = Append(readFifo, slot) /\ readFifo \in Seq(ParentRing)
        BY <1>f, <2>2 DEF BufferTypes
      <4> HIDE DEF slot, n
      <4> QED BY <1>0, <4>1
    <3>2. OldestRequest' = OldestRequest /\ OldestRequest \in Int
          /\ OldestRequest + Len(readFifo) = n
      BY <1>0, <1>e, <3>1 DEF OldestRequest
    <3>3. \A i \in 1 .. Len(readFifo') : readFifo'[i] = ParentSlot(OldestRequest + i - 1)
      <4> SUFFICES ASSUME NEW i \in 1 .. Len(readFifo')
                   PROVE  readFifo'[i] = ParentSlot(OldestRequest + i - 1)
        OBVIOUS
      <4>1. CASE i <= Len(readFifo)
        BY <3>1, <4>1 DEF FifoOK
      <4>2. CASE i = Len(readFifo) + 1
        <5>1. OldestRequest + i - 1 = n
          BY <3>1, <3>2, <4>2
        <5> QED BY <3>1, <4>2, <5>1
      <4> QED BY <3>1, <4>1, <4>2
    <3>4. OldestRequest >= 0 /\ OldestRequest > 0 /\ reservedTo - OldestRequest <= FifoDepth
      BY <1>0, <2>2 DEF FifoOK
    <3>5. reservedTo' = reservedTo
      BY PrepareEffect
    <3> QED BY <3>2, <3>3, <3>4, <3>5 DEF FifoOK
  <2> QED BY <2>1, <2>2
<1>7. FreshOK'
  <2> SUFFICES ASSUME NEW k \in n + 1 .. reservedTo
               PROVE  /\ parentValid'[ParentSlot(k)] = 0
                      /\ \A r \in reading : r.slot # ParentSlot(k)
    BY PrepareEffect DEF FreshOK
  <2>1. /\ k \in Nat /\ k \in n .. reservedTo /\ k # n /\ k < n + ParentSlots
    BY <1>0 DEF SpaceOK, OrderOK, CursorTypes
  <2>2. ParentSlot(k) # slot /\ ParentSlot(k) \in ParentRing
    BY <1>0, <2>1, ParentSlotsApart, SlotFacts
  <2>3. parentValid'[ParentSlot(k)] = parentValid[ParentSlot(k)]
    BY <1>0, <2>2, PrepareEffect DEF BufferTypes
  <2> QED BY <2>1, <2>3 DEF FreshOK
<1> QED BY <1>1, <1>2, <1>3, <1>4, <1>5, <1>6, <1>7

(* Pages that all coordinators have reported go to the writer. *)
LEMMA WriteNodesKeepsC == ASSUME CInv, WriteNodes PROVE CInv'
<1> USE Parameters DEF CInv, orchVars, parentVars, nodeVars, ioVars, workerVars
<1>0. /\ headWrite \in Nodes /\ headWrite \in Nat /\ NodeSlot(headWrite) \in NodeRing
      /\ headWrite < minHash /\ minHash \in 0 .. NodeStop /\ minHash \in Nat
      /\ headWrite = First(PageOf(headWrite)) /\ PageOf(headWrite) \in Nat
      /\ opc = "write" /\ opc' = opc
  BY SlotFacts, PageFacts DEF WriteNodes, CursorTypes, SpaceOK, IsFirst, Nodes
<1>a. CanWrite => headWrite + NodesPerPage <= minHash
  <2>1. PageOf(minHash) \in Nat /\ First(PageOf(minHash)) \in Nat /\ First(PageOf(minHash)) <= minHash
    BY <1>0, FirstBelow
  <2>2. PageOf(headWrite) < PageOf(minHash) =>
          First(PageOf(headWrite)) + NodesPerPage <= First(PageOf(minHash))
    BY <1>0, <2>1, FirstFacts
  <2> QED BY <1>0, <2>1, <2>2 DEF CanWrite
<1>b. IsFirst(headWrite + NodesPerPage) /\ PageOf(headWrite + NodesPerPage) = PageOf(headWrite) + 1
  <2>1. headWrite + NodesPerPage = First(PageOf(headWrite) + 1) /\ PageOf(headWrite) + 1 \in Nat
    BY <1>0, FirstFacts
  <2> QED BY <2>1, FirstFacts
<1>1. BufferTypes'
  <2>1. nodeIo' \in [NodeRing -> Nodes] /\ writeFifo' \in Seq(NodeRing)
    <3>1. /\ nodeIo' \in {nodeIo, [nodeIo EXCEPT ![NodeSlot(headWrite)] = headWrite]}
          /\ writeFifo' \in {writeFifo, Append(writeFifo, NodeSlot(headWrite))}
      BY DEF WriteNodes
    <3>2. nodeIo \in [NodeRing -> Nodes] /\ writeFifo \in Seq(NodeRing)
      BY DEF BufferTypes
    <3>3. nodeIo' \in [NodeRing -> Nodes]
      BY <1>0, <3>1, <3>2
    <3>4. Append(writeFifo, NodeSlot(headWrite)) \in Seq(NodeRing)
      BY <1>0, <3>2
    <3> QED BY <3>1, <3>2, <3>3, <3>4
  <2> QED BY <2>1 DEF WriteNodes, BufferTypes
<1>2. CursorTypes'
  <2>1. headWrite' \in 0 .. NodeStop /\ rem' \in 0 .. ActionBatch /\ outstanding' \in Nat
    BY <1>0, <1>a DEF WriteNodes, CursorTypes
  <2> QED BY <2>1 DEF WriteNodes, CursorTypes
<1>3. OrderOK'
  <2>1. headWrite' \in Nat /\ headWrite <= headWrite' /\ headWrite' <= minHash
    BY <1>0, <1>a DEF WriteNodes
  <2>2. \A c \in Coordinators : minHash <= reported[c] /\ reported[c] \in Nat
    BY <1>0 DEF SampleOK, CursorTypes
  <2> QED BY <1>0, <2>1, <2>2 DEF WriteNodes, OrderOK, CursorTypes
<1>4. SampleOK'
  BY DEF WriteNodes, OrderOK, CursorTypes, SampleOK
<1>5. SpaceOK'
  <2>1. IsFirst(headWrite') /\ outstanding' = PageOf(headWrite') - PageOf(tailWrite)
    <3>1. PageOf(tailWrite) \in Nat
      <4>1. tailWrite \in Nat
        BY DEF CursorTypes
      <4> QED BY <4>1, PageFacts
    <3> QED BY <1>0, <1>b, <3>1 DEF WriteNodes, SpaceOK
  <2> QED BY <1>0, <2>1 DEF WriteNodes, SpaceOK
<1>6. FifoOK'
  BY DEF WriteNodes, FifoOK, BufferTypes, CursorTypes, OrderOK, OldestRequest
<1>7. FreshOK'
  BY DEF WriteNodes, FreshOK, CursorTypes, OrderOK
<1> QED BY <1>1, <1>2, <1>3, <1>4, <1>5, <1>6, <1>7

(* The references that a range of entries holds are finitely many. *)
RefsIn(a, b, g) == UNION {{n} \X RefsOf(n, g) : n \in a .. b - 1}

(* The references of a range of entries are finitely many. *)
LEMMA RefsFinite ==
    ASSUME CInv, NEW a \in Nat, NEW b \in Nat, NEW g
    PROVE  IsFiniteSet(RefsIn(a, b, g)) /\ Cardinality(RefsIn(a, b, g)) \in Nat
<1> DEFINE S == RefsIn(a, b, g)
<1>1. \A n \in a .. b - 1 : RefsOf(n, g) \subseteq 0 .. PageBatch
  <2>1. \A n \in a .. b - 1 : n \in Nat /\ parentPtrs[ParentSlot(n)] \in Ptrs
    BY SlotFacts DEF CInv, BufferTypes
  <2>2. \A n \in a .. b - 1 : DOMAIN parentPtrs[ParentSlot(n)] = 0 .. PageBatch
    BY <2>1 DEF Ptrs
  <2> QED BY <2>2 DEF RefsOf
<1>2. S \subseteq (a .. b - 1) \X (0 .. PageBatch)
  BY <1>1 DEF RefsIn
<1>3. IsFiniteSet(a .. b - 1) /\ IsFiniteSet(0 .. PageBatch)
  <2>1. a \in Int /\ b - 1 \in Int /\ 0 \in Int /\ PageBatch \in Int
    BY Parameters
  <2> QED BY <2>1, FS_Interval
<1>4. IsFiniteSet((a .. b - 1) \X (0 .. PageBatch))
  BY <1>3, FS_Product
<1>5. IsFiniteSet(S)
  BY <1>2, <1>4, FS_Subset
<1> QED BY <1>5, FS_CardinalityType

(* Entries below the sampled minimum are released. *)
LEMMA ReleaseParentsKeepsC == ASSUME CInv, ReleaseParents PROVE CInv'
<1>0. PICK k \in 0 .. ActionBatch :
         /\ \A i \in 0 .. k - 1 : tailParents + i < minHash
         /\ tailParents' = tailParents + k
         /\ consumedCount' = [g \in DOMAIN consumedCount |->
              (consumedCount[g]
                + Cardinality(UNION {{n} \X RefsOf(n, g) :
                                  n \in tailParents .. tailParents + k - 1}))
              % CountMod]
  BY DEF ReleaseParents, Repeat
<1>1. consumedCount' \in [Syncs -> 0 .. CountMod - 1]
  <2> DEFINE R(g) == Cardinality(RefsIn(tailParents, tailParents + k, g))
  <2>1. tailParents \in Nat /\ tailParents + k \in Nat
    BY <1>0 DEF CInv, CursorTypes
  <2>2. tailParents + k - 1 = (tailParents + k) - 1
    BY <2>1
  <2>3. \A g : R(g) \in Nat
    BY <2>1, RefsFinite
  <2>4. consumedCount' = [g \in DOMAIN consumedCount |-> (consumedCount[g] + R(g)) % CountMod]
    BY <1>0, <2>2 DEF RefsIn
  <2> HIDE DEF R
  <2>5. \A g \in Syncs : consumedCount[g] + R(g) \in Nat
    BY <2>3 DEF CInv, BufferTypes
  <2>6. \A g \in Syncs : (consumedCount[g] + R(g)) % CountMod \in 0 .. CountMod - 1
    BY <2>5, Division, Parameters
  <2>7. DOMAIN consumedCount = Syncs
    BY DEF CInv, BufferTypes
  <2> QED BY <2>4, <2>6, <2>7
<1> USE Parameters DEF CInv, orchVars, parentVars, nodeVars, ioVars, workerVars
<1>a. /\ opc = "release" /\ opc' = "written"
      /\ tailParents' \in 0 .. NodeStop /\ tailParents <= tailParents' /\ tailParents' <= minHash
      /\ minHash \in Nat
  <2>1. opc = "release" /\ tailParents <= minHash /\ tailParents \in Nat /\ minHash \in 0 .. NodeStop
    BY DEF ReleaseParents, SampleOK, CursorTypes
  <2>2. k # 0 => tailParents + (k - 1) < minHash
    BY <1>0
  <2> QED BY <1>0, <2>1, <2>2 DEF ReleaseParents
<1>2. BufferTypes'
  BY <1>1 DEF ReleaseParents, BufferTypes
<1>3. CursorTypes'
  BY <1>a DEF ReleaseParents, CursorTypes
<1>4. SampleOK'
  BY <1>a DEF ReleaseParents, SampleOK
<1>5. OrderOK'
  <2>1. \A c \in Coordinators : minHash <= reported[c] /\ reported[c] \in Nat /\ reported[c] <= headNode
    BY <1>a DEF SampleOK, OrderOK, CursorTypes
  <2>2. minHash <= headNode
    BY <1>a, <2>1 DEF CursorTypes
  <2> QED BY <1>a, <2>1, <2>2 DEF ReleaseParents, OrderOK, CursorTypes
<1>6. SpaceOK'
  BY <1>a DEF ReleaseParents, SpaceOK, CursorTypes
<1>7. FifoOK'
  BY DEF ReleaseParents, FifoOK, OldestRequest
<1>8. FreshOK'
  BY DEF ReleaseParents, FreshOK
<1> QED BY <1>2, <1>3, <1>4, <1>5, <1>6, <1>7, <1>8

(* The written tail moves over pages whose write has completed. *)
LEMMA AdvanceWrittenKeepsC == ASSUME CInv, AdvanceWritten PROVE CInv'
<1> DEFINE t == PageOf(tailWrite)
           h == PageOf(headWrite)
<1>0. PICK k \in 0 .. ActionBatch :
         /\ \A i \in 0 .. k - 1 : IsWritten(tailWrite + i * NodesPerPage)
         /\ tailWrite' = tailWrite + k * NodesPerPage
         /\ outstanding' = outstanding - k
  BY DEF AdvanceWritten, Repeat
<1>1. /\ tailWrite \in Nat /\ headWrite \in Nat /\ tailWrite = First(t) /\ headWrite = First(h)
      /\ t \in Nat /\ h \in Nat /\ t <= h /\ outstanding = h - t /\ k \in Nat
  <2>1. tailWrite \in Nat /\ headWrite \in Nat /\ tailWrite <= headWrite /\ outstanding = h - t
        /\ IsFirst(tailWrite) /\ IsFirst(headWrite)
    BY DEF CInv, CursorTypes, OrderOK, SpaceOK
  <2>2. t \in Nat /\ h \in Nat /\ t <= h
    BY <2>1, PageFacts, PageOrder
  <2> QED BY <2>1, <2>2, Parameters DEF IsFirst
<1>2. \A i \in Nat : tailWrite + i * NodesPerPage = First(t + i) /\ t + i \in Nat
  <2> SUFFICES ASSUME NEW i \in Nat
               PROVE  tailWrite + i * NodesPerPage = First(t + i) /\ t + i \in Nat
    OBVIOUS
  <2>1. First(t + i) = First(t) + First(i)
    BY <1>1, FirstAdds
  <2>2. i * NodesPerPage = First(i)
    BY DEF First
  <2> QED BY <1>1, <2>1, <2>2
<1> HIDE DEF t, h
<1>3. k <= h - t
  <2> SUFFICES ASSUME k > h - t PROVE FALSE
    BY <1>1
  <2>1. h - t \in Nat /\ h - t \in 0 .. k - 1 /\ t + (h - t) = h
    BY <1>1
  <2>2. tailWrite + (h - t) * NodesPerPage = headWrite
    BY <1>1, <1>2, <2>1
  <2>3. IsWritten(headWrite)
    BY <1>0, <2>1, <2>2
  <2> QED BY <2>3 DEF IsWritten
<1>4. tailWrite' = First(t + k) /\ IsFirst(tailWrite') /\ PageOf(tailWrite') = t + k
      /\ tailWrite' \in Nat
  <2>1. t + k \in Nat /\ tailWrite' = First(t + k)
    BY <1>0, <1>1, <1>2
  <2> QED BY <2>1, FirstFacts
<1>5. tailWrite <= tailWrite' /\ tailWrite' <= headWrite
  <2>1. First(t + k) + First(h - (t + k)) = First(h) /\ First(h - (t + k)) \in Nat
    <3>1. PICK d \in Nat : d = h - (t + k) /\ (t + k) + d = h /\ t + k \in Nat
      BY <1>1, <1>3
    <3> QED BY <3>1, FirstAdds, FirstFacts
  <2>2. First(t + k) = First(t) + First(k) /\ First(k) \in Nat /\ First(t) \in Nat
    BY <1>1, FirstAdds, FirstFacts
  <2> QED BY <1>1, <1>4, <2>1, <2>2
<1>6. outstanding' \in Nat /\ outstanding' = h - (t + k)
  BY <1>0, <1>1, <1>3
<1> USE Parameters DEF CInv, orchVars, parentVars, nodeVars, ioVars, workerVars
<1>a. opc = "written" /\ opc' = "retire"
  BY DEF AdvanceWritten
<1>b. BufferTypes'
  BY DEF AdvanceWritten, BufferTypes
<1>c. CursorTypes'
  <2>1. tailWrite' \in 0 .. NodeStop
    BY <1>1, <1>4, <1>5 DEF CursorTypes
  <2> QED BY <1>a, <1>6, <2>1 DEF AdvanceWritten, CursorTypes
<1>d. OrderOK'
  <2>1. tailNode <= tailWrite'
    BY <1>1, <1>4, <1>5 DEF OrderOK, CursorTypes
  <2> QED BY <1>a, <1>5, <2>1 DEF AdvanceWritten, OrderOK
<1>e. SampleOK'
  BY <1>a DEF AdvanceWritten, SampleOK
<1>f. SpaceOK'
  <2>1. outstanding' = PageOf(headWrite) - PageOf(tailWrite')
    BY <1>4, <1>6 DEF h
  <2> QED BY <1>a, <1>4, <2>1 DEF AdvanceWritten, SpaceOK
<1>g. FifoOK'
  BY DEF AdvanceWritten, FifoOK, OldestRequest
<1>h. FreshOK'
  BY DEF AdvanceWritten, FreshOK
<1> QED BY <1>b, <1>c, <1>d, <1>e, <1>f, <1>g, <1>h

(* The orchestrator never finds its cursors a lap apart. *)
LEMMA RetireNodesKeepsC == ASSUME CInv, RetireNodes PROVE CInv'
<1>0. PICK k \in 0 .. ActionBatch :
         /\ \A i \in 0 .. k - 1 : Retirable(tailNode + i)
         /\ tailNode' = tailNode + k
         /\ \E cleared :
              /\ refCount' = [g \in DOMAIN refCount |-> IF g \in cleared THEN 0 ELSE refCount[g]]
              /\ consumedCount' = [g \in DOMAIN consumedCount |->
                                     IF g \in cleared THEN 0 ELSE consumedCount[g]]
  BY DEF RetireNodes, Repeat
<1>1. tailNode \in Nat /\ tailNode' \in Nat /\ tailNode <= tailNode' /\ tailNode' <= tailWrite
      /\ tailWrite \in 0 .. NodeStop
  <2>1. tailNode \in Nat /\ tailWrite \in 0 .. NodeStop /\ tailNode <= tailWrite
    BY DEF CInv, CursorTypes, OrderOK
  <2>2. k # 0 => tailNode + (k - 1) < tailWrite
    BY <1>0 DEF Retirable
  <2> QED BY <1>0, <2>1, <2>2, Parameters
<1>2. headNode = reservedTo /\ headNode = First(PageOf(reservedTo)) /\ headNode \in Nat
      /\ PageOf(reservedTo) \in Nat /\ opc = "retire"
  <2>1. headNode = reservedTo /\ IsFirst(reservedTo) /\ headNode \in Nat /\ opc = "retire"
    BY DEF RetireNodes, CInv, OrderOK, SpaceOK, CursorTypes
  <2> QED BY <2>1, PageFacts DEF IsFirst
<1>i. headNode \in Nat
  BY DEF CInv, CursorTypes
<1>p. PageOf(reservedTo) \in Nat
  BY <1>2
<1>3. PageOf(reservedTo) - PageOf(tailNode') <= NodeSlots - 1
  <2>0. PICK t \in Nat : t = tailNode' /\ tailNode <= t /\ tailNode \in Nat
    BY <1>1
  <2>1. PageOf(tailNode) <= PageOf(t) /\ PageOf(tailNode) \in Nat /\ PageOf(t) \in Nat
    BY <2>0, PageOrder, PageFacts
  <2>2. PageOf(reservedTo) - PageOf(tailNode) <= NodeSlots - 1
    BY DEF CInv, SpaceOK
  <2>3. PageOf(reservedTo) - PageOf(t) <= NodeSlots - 1
    <3> HIDE <2>0
    <3> QED BY <1>p, <2>1, <2>2, Parameters
  <2> QED BY <2>0, <2>3
<1>4. headNode - tailNode' < NodeSlots * NodesPerPage
  <2>1. First(PageOf(reservedTo)) + NodesPerPage <= First(PageOf(tailNode')) + Lap
        /\ Lap \in Nat
    BY <1>1, <1>2, <1>3, LapFacts, PageFacts
  <2>2. First(PageOf(tailNode')) <= tailNode' /\ First(PageOf(tailNode')) \in Nat
    BY <1>1, FirstBelow
  <2>3. headNode - tailNode' < Lap
    <3>1. PICK t \in Nat, f \in Nat : t = tailNode' /\ f = First(PageOf(tailNode')) /\ f <= t
      BY <1>1, <2>2
    <3>2. headNode + NodesPerPage <= f + Lap
      BY <1>2, <2>1, <3>1
    <3>3. headNode - t < Lap
      <4>1. f <= t /\ Lap \in Nat
        BY <2>1, <3>1
      <4> QED BY <1>i, <3>2, <4>1, Parameters
    <3> QED BY <3>1, <3>3
  <2> QED BY <2>3 DEF Lap
<1>5. opc' \in {"sample", "done"} /\ unsampled' = Coordinators
  <2>1. opc' = IF headNode - tailNode' >= NodeSlots * NodesPerPage THEN "exit"
               ELSE IF GoOn(lastNode') THEN "sample" ELSE "done"
    BY DEF RetireNodes
  <2>2. NodeSlots * NodesPerPage \in Nat /\ headNode - tailNode' \in Int
    <3>1. NodeSlots * NodesPerPage \in Nat
      BY Parameters
    <3>2. headNode \in Int /\ tailNode' \in Int
      BY <1>1, <1>i
    <3> QED BY <3>1, <3>2
  <2>3. ~(headNode - tailNode' >= NodeSlots * NodesPerPage)
    BY <1>4, <2>2
  <2> QED BY <2>1, <2>3 DEF RetireNodes
<1>6. refCount' \in [Syncs -> 0 .. CountMod - 1] /\ consumedCount' \in [Syncs -> 0 .. CountMod - 1]
  BY <1>0, Parameters DEF CInv, BufferTypes
<1> USE Parameters DEF CInv, orchVars, parentVars, nodeVars, ioVars, workerVars
<1>b. BufferTypes'
  BY <1>6 DEF RetireNodes, BufferTypes
<1>c. CursorTypes'
  <2>1. tailNode' \in 0 .. NodeStop
    BY <1>1
  <2>2. lastNode' = nextNode /\ nextNode' = headNode /\ unsampled' = Coordinators
    BY DEF RetireNodes
  <2>3. UNCHANGED <<rem, minHash, minNode, headNode, reservedTo, cacheMin, cacheable,
                    tailParents, tailWrite, headWrite, outstanding, taken, hashed, reported>>
    BY DEF RetireNodes
  <2> QED BY <1>5, <2>1, <2>2, <2>3 DEF CursorTypes
<1>d. OrderOK'
  BY <1>1, <1>2, <1>5 DEF RetireNodes, OrderOK
<1>e. SampleOK'
  <2>1. UNCHANGED <<minHash, reported, tailParents>>
    BY DEF RetireNodes
  <2> QED BY <1>2, <1>5, <2>1 DEF SampleOK
<1>f. SpaceOK'
  <2>1. UNCHANGED <<tailWrite, headWrite, reservedTo, tailParents, outstanding>>
    BY DEF RetireNodes
  <2> QED BY <1>3, <1>5, <2>1 DEF SpaceOK
<1>g. FifoOK'
  BY DEF RetireNodes, FifoOK, OldestRequest
<1>h. FreshOK'
  BY DEF RetireNodes, FreshOK
<1> QED BY <1>b, <1>c, <1>d, <1>e, <1>f, <1>g, <1>h

-----------------------------------------------------------------------------
(* The drives and the coordinators keep CInv. *)

(* The reader takes the oldest request. *)
LEMMA IssueReadsKeepsC == ASSUME CInv, IssueReads PROVE CInv'
<1> DEFINE slot == Head(readFifo)
<1>0. /\ readFifo \in Seq(ParentRing) /\ readFifo # <<>> /\ readFifo' = Tail(readFifo)
      /\ reading' = reading \cup
           {[slot |-> slot, j |-> j, node |-> parentIo[slot][j].node] :
              j \in {i \in Reads : parentIo[slot][i].type = "read"}}
  BY DEF IssueReads, CInv, BufferTypes
<1>1. /\ slot \in ParentRing /\ readFifo' \in Seq(ParentRing) /\ Len(readFifo) \in Nat
      /\ Len(readFifo) > 0 /\ Len(readFifo') = Len(readFifo) - 1 /\ slot = readFifo[1]
      /\ \A i \in 1 .. Len(readFifo') : readFifo'[i] = readFifo[i + 1]
  BY <1>0
<1>2. /\ OldestRequest \in Nat /\ headNode \in Nat /\ reservedTo \in Nat
      /\ OldestRequest + Len(readFifo) = headNode
      /\ slot = ParentSlot(OldestRequest) /\ reservedTo - OldestRequest <= FifoDepth
  <2>1. headNode \in Nat /\ OldestRequest = headNode - Len(readFifo) /\ OldestRequest >= 0
        /\ reservedTo \in Nat /\ reservedTo - OldestRequest <= FifoDepth
    BY DEF CInv, FifoOK, CursorTypes, OldestRequest
  <2>2. slot = ParentSlot(OldestRequest + 1 - 1)
    BY <1>1 DEF CInv, FifoOK
  <2>3. OldestRequest + 1 - 1 = OldestRequest /\ OldestRequest \in Nat
    BY <1>1, <2>1
  <2> QED BY <1>1, <2>1, <2>2, <2>3
<1>u. /\ UNCHANGED <<graph, opc, unsampled, rem, minHash, minNode, lastNode, nextNode,
                headNode, reservedTo, cacheMin, cacheable, tailNode,
                tailParents, tailWrite, headWrite, outstanding>>
      /\ UNCHANGED <<parentValid, parentIo, parentPtrs, parentBuf, nodeValid, nodeIo, nodeBuf,
                     refCount, consumedCount>>
      /\ UNCHANGED <<writeFifo, writing, disk, taken, hashed, reported>>
  BY DEF IssueReads, orchVars, parentVars, nodeVars, workerVars
<1>3. BufferTypes'
  <2>1. reading' \subseteq Requests
    <3>1. \A j \in Reads : parentIo[slot][j].node \in Nodes
      <4>1. parentIo[slot] \in [Reads -> Descriptors]
        BY <1>1 DEF CInv, BufferTypes
      <4> QED BY <4>1 DEF Descriptors
    <3> HIDE DEF slot
    <3>2. \A j \in Reads : [slot |-> slot, j |-> j, node |-> parentIo[slot][j].node] \in Requests
      BY <1>1, <3>1 DEF Requests
    <3> QED BY <1>0, <3>2 DEF CInv, BufferTypes
  <2> QED BY <1>1, <1>u, <2>1 DEF CInv, BufferTypes
<1>4. CursorTypes'
  BY <1>u DEF CInv, CursorTypes
<1>5. OrderOK'
  BY <1>u DEF CInv, OrderOK
<1>6. SampleOK'
  BY <1>u DEF CInv, SampleOK
<1>7. SpaceOK'
  BY <1>u DEF CInv, SpaceOK
<1>8. FifoOK'
  <2>1. OldestRequest' = OldestRequest + 1
    BY <1>1, <1>2, <1>u DEF OldestRequest
  <2>2. \A i \in 1 .. Len(readFifo') : readFifo'[i] = ParentSlot((OldestRequest + 1) + i - 1)
    <3> SUFFICES ASSUME NEW i \in 1 .. Len(readFifo')
                 PROVE  readFifo'[i] = ParentSlot((OldestRequest + 1) + i - 1)
      OBVIOUS
    <3>1. i + 1 \in 1 .. Len(readFifo) /\ readFifo'[i] = readFifo[i + 1] /\ i \in Nat
      BY <1>1
    <3>2. readFifo[i + 1] = ParentSlot(OldestRequest + (i + 1) - 1)
      BY <3>1 DEF CInv, FifoOK
    <3>3. OldestRequest + (i + 1) - 1 = (OldestRequest + 1) + i - 1
      BY <1>2, <3>1
    <3> QED BY <3>1, <3>2, <3>3
  <2> HIDE DEF slot
  <2>3. /\ OldestRequest + 1 >= 0 /\ OldestRequest + 1 > 0
        /\ reservedTo - (OldestRequest + 1) <= FifoDepth
    BY <1>2, Parameters
  <2> QED BY <1>u, <2>1, <2>2, <2>3 DEF FifoOK
<1>9. FreshOK'
  <2> SUFFICES ASSUME NEW n \in headNode .. reservedTo
               PROVE  slot # ParentSlot(n)
    BY <1>0, <1>u DEF CInv, FreshOK
  <2> HIDE DEF slot
  <2>1. n \in Nat /\ OldestRequest # n /\ n < OldestRequest + ParentSlots /\ OldestRequest < n + ParentSlots
    BY <1>1, <1>2, Parameters
  <2> QED BY <1>2, <2>1, ParentSlotsApart
<1> QED BY <1>3, <1>4, <1>5, <1>6, <1>7, <1>8, <1>9 DEF CInv

(* The page of a node is a page of the disk. *)
LEMMA NodePageIsPage ==
    ASSUME NEW n \in Nodes
    PROVE  PageOf(n) \in Pages /\ n \in Nat
<1>1. n \in Nat /\ n < NodeStop /\ NodeStop \in Nat
  BY Parameters DEF Nodes
<1>2. PageOf(n) < PageOf(NodeStop) /\ PageOf(n) \in Nat /\ PageOf(NodeStop) \in Nat
  BY <1>1, NodeStopIsFirst, PageOrder, PageFacts
<1> QED BY <1>1, <1>2 DEF Pages, PageOf

(* The drive delivers a page of parents, and the entry counts it. *)
LEMMA ReadCompleteKeepsC == ASSUME CInv, NEW r \in reading, ReadComplete(r) PROVE CInv'
<1> USE Parameters DEF CInv, orchVars, parentVars, nodeVars, ioVars, workerVars
<1>0. r.slot \in ParentRing /\ r.j \in Reads /\ r.node \in Nodes
  BY DEF BufferTypes, Requests
<1>1. BufferTypes'
  <2>1. parentValid' \in [ParentRing -> Nat]
    BY <1>0 DEF ReadComplete, BufferTypes
  <2>2. parentBuf' \in [ParentRing -> [Reads -> Content]]
    <3>1. PageOf(r.node) \in Pages
      BY <1>0, NodePageIsPage
    <3>2. disk[PageOf(r.node)] \in Content
      BY <3>1 DEF BufferTypes
    <3>3. parentBuf' = [parentBuf EXCEPT ![r.slot][r.j] = disk[PageOf(r.node)]]
      BY DEF ReadComplete
    <3>4. parentBuf \in [ParentRing -> [Reads -> Content]]
      BY DEF BufferTypes
    <3> HIDE Parameters
    <3> QED BY <1>0, <3>2, <3>3, <3>4
  <2>3. reading' \subseteq Requests
    BY DEF ReadComplete, BufferTypes
  <2> QED BY <2>1, <2>2, <2>3 DEF ReadComplete, BufferTypes
<1>2. CursorTypes'
  BY DEF ReadComplete, CursorTypes
<1>3. OrderOK'
  BY DEF ReadComplete, OrderOK, CursorTypes, SampleOK
<1>4. SampleOK'
  BY DEF ReadComplete, OrderOK, CursorTypes, SampleOK
<1>5. SpaceOK'
  BY DEF ReadComplete, SpaceOK, CursorTypes, OrderOK
<1>6. FifoOK'
  BY DEF ReadComplete, FifoOK, BufferTypes, CursorTypes, OrderOK, OldestRequest
<1>7. FreshOK'
  BY DEF ReadComplete, FreshOK, CursorTypes, OrderOK
<1> QED BY <1>1, <1>2, <1>3, <1>4, <1>5, <1>6, <1>7

(* The drive has written a page. *)
LEMMA WriteCompleteKeepsC == ASSUME CInv, NEW s \in writing, WriteComplete(s) PROVE CInv'
<1> USE Parameters DEF CInv, orchVars, parentVars, nodeVars, ioVars, workerVars
<1>0. s \in NodeRing
  BY DEF BufferTypes
<1>1. BufferTypes'
  <2>1. nodeValid' \in [NodeRing -> Nat]
    BY <1>0 DEF WriteComplete, BufferTypes
  <2>2. disk' \in [Pages -> Content]
    BY <1>0 DEF WriteComplete, BufferTypes
  <2>3. writing' \subseteq NodeRing
    BY DEF WriteComplete, BufferTypes
  <2> QED BY <2>1, <2>2, <2>3 DEF WriteComplete, BufferTypes
<1>2. CursorTypes'
  BY DEF WriteComplete, CursorTypes
<1>3. OrderOK'
  BY DEF WriteComplete, OrderOK, CursorTypes, SampleOK
<1>4. SampleOK'
  BY DEF WriteComplete, OrderOK, CursorTypes, SampleOK
<1>5. SpaceOK'
  BY DEF WriteComplete, SpaceOK, CursorTypes, OrderOK
<1>6. FifoOK'
  BY DEF WriteComplete, FifoOK, BufferTypes, CursorTypes, OrderOK, OldestRequest
<1>7. FreshOK'
  BY DEF WriteComplete, FreshOK, CursorTypes, OrderOK
<1> QED BY <1>1, <1>2, <1>3, <1>4, <1>5, <1>6, <1>7

(* The entry after the last prepared one is never valid: a coordinator does *)
(* not get ahead of the orchestrator.                                       *)
LEMMA TakenBelowHead ==
    ASSUME CInv, NEW c \in Coordinators, CanTake(c)
    PROVE  taken[c] \in Nat /\ taken[c] < headNode
<1>1. taken[c] \in Nat /\ headNode \in Nat /\ reservedTo \in Nat /\ taken[c] <= headNode /\ headNode <= reservedTo
  BY DEF CInv, CursorTypes, OrderOK
<1>2. taken[c] # headNode
  <2> SUFFICES ASSUME taken[c] = headNode PROVE FALSE
    OBVIOUS
  <2>1. parentValid[ParentSlot(headNode)] = 0
    <3>1. headNode \in headNode .. reservedTo
      BY <1>1
    <3> QED BY <3>1 DEF CInv, FreshOK
  <2>2. parentValid[ParentSlot(headNode)] >= PageBatch
    BY DEF CanTake, IsValid
  <2> QED BY <2>1, <2>2, Parameters
<1> QED BY <1>1, <1>2

(* A coordinator takes an entry that is valid and so prepared. *)
LEMMA TakeKeepsC == ASSUME CInv, NEW c \in Coordinators, Take(c) PROVE CInv'
<1>0. taken[c] \in Nat /\ taken[c] < headNode /\ headNode \in 0 .. NodeStop
  BY TakenBelowHead DEF Take, CInv, CursorTypes
<1> USE Parameters DEF CInv, orchVars, parentVars, nodeVars, ioVars, workerVars
<1>1. BufferTypes'
  BY DEF Take, BufferTypes, CursorTypes
<1>a. taken' \in [Coordinators -> 0 .. NodeStop]
  <2>1. taken \in [Coordinators -> 0 .. NodeStop] /\ taken' = [taken EXCEPT ![c] = @ + 1]
    BY DEF CursorTypes, Take
  <2>2. taken[c] + 1 \in 0 .. NodeStop
    BY <1>0
  <2> QED BY <2>1, <2>2
<1>2. CursorTypes'
  BY <1>a DEF Take, CursorTypes
<1>3. OrderOK'
  <2>1. \A d \in Coordinators : hashed[d] <= taken'[d] /\ taken'[d] <= headNode
    <3> SUFFICES ASSUME NEW d \in Coordinators
                 PROVE  hashed[d] <= taken'[d] /\ taken'[d] <= headNode
      OBVIOUS
    <3>1. taken'[d] = IF d = c THEN taken[c] + 1 ELSE taken[d]
      BY DEF Take, CursorTypes
    <3>2. hashed[d] \in Nat /\ taken[d] \in Nat /\ headNode \in Nat
          /\ hashed[d] <= taken[d] /\ taken[d] <= headNode
      BY DEF CursorTypes, OrderOK
    <3> QED BY <1>0, <3>1, <3>2
  <2> QED BY <2>1 DEF Take, OrderOK
<1>4. SampleOK'
  BY DEF Take, OrderOK, CursorTypes, SampleOK
<1>5. SpaceOK'
  BY DEF Take, SpaceOK, CursorTypes, OrderOK
<1>6. FifoOK'
  BY DEF Take, FifoOK, BufferTypes, CursorTypes, OrderOK, OldestRequest
<1>7. FreshOK'
  BY DEF Take, FreshOK, CursorTypes, OrderOK
<1> QED BY <1>1, <1>2, <1>3, <1>4, <1>5, <1>6, <1>7

(* A coordinator's hashers finish a node. *)
LEMMA HashNodeKeepsC == ASSUME CInv, NEW c \in Coordinators, HashNode(c) PROVE CInv'
<1> USE Parameters DEF CInv, orchVars, parentVars, nodeVars, ioVars, workerVars
<1>0. hashed[c] \in Nat /\ hashed[c] < taken[c] /\ taken[c] \in 0 .. NodeStop
      /\ NodeSlot(hashed[c]) \in NodeRing /\ PlaceOf(hashed[c]) \in Places
  <2>1. hashed[c] \in Nat /\ hashed[c] < taken[c] /\ taken[c] \in 0 .. NodeStop
    BY DEF HashNode, CursorTypes
  <2> QED BY <2>1, SlotFacts, PageFacts
<1>1. BufferTypes'
  <2>1. nodeBuf' \in [NodeRing -> Content]
    <3>1. nodeBuf \in [NodeRing -> Content]
      BY DEF BufferTypes
    <3>2. nodeBuf' = [nodeBuf EXCEPT
                        ![NodeSlot(hashed[c])][c][PlaceOf(hashed[c])] = hashed[c]]
      BY DEF HashNode
    <3>3. hashed[c] \in 0 .. NodeStop - 1
      BY <1>0
    <3> HIDE Parameters
    <3> QED BY <1>0, <3>1, <3>2, <3>3 DEF Content
  <2> QED BY <2>1 DEF HashNode, BufferTypes
<1>a. hashed' \in [Coordinators -> 0 .. NodeStop]
  <2>1. hashed \in [Coordinators -> 0 .. NodeStop] /\ hashed' = [hashed EXCEPT ![c] = @ + 1]
    BY DEF CursorTypes, HashNode
  <2>2. hashed[c] + 1 \in 0 .. NodeStop
    BY <1>0
  <2> QED BY <2>1, <2>2
<1>2. CursorTypes'
  BY <1>a DEF HashNode, CursorTypes
<1>3. OrderOK'
  <2>1. \A d \in Coordinators : reported[d] <= hashed'[d] /\ hashed'[d] <= taken[d]
    <3> SUFFICES ASSUME NEW d \in Coordinators
                 PROVE  reported[d] <= hashed'[d] /\ hashed'[d] <= taken[d]
      OBVIOUS
    <3>1. hashed'[d] = IF d = c THEN hashed[c] + 1 ELSE hashed[d]
      BY DEF HashNode, CursorTypes
    <3>2. hashed[d] \in Nat /\ taken[d] \in Nat /\ reported[d] \in Nat
          /\ hashed[d] <= taken[d] /\ reported[d] <= hashed[d]
      BY DEF CursorTypes, OrderOK
    <3> QED BY <1>0, <3>1, <3>2
  <2> QED BY <2>1 DEF HashNode, OrderOK
<1>4. SampleOK'
  BY DEF HashNode, OrderOK, CursorTypes, SampleOK
<1>5. SpaceOK'
  BY DEF HashNode, SpaceOK, CursorTypes, OrderOK
<1>6. FifoOK'
  BY DEF HashNode, FifoOK, BufferTypes, CursorTypes, OrderOK, OldestRequest
<1>7. FreshOK'
  BY DEF HashNode, FreshOK, CursorTypes, OrderOK
<1> QED BY <1>1, <1>2, <1>3, <1>4, <1>5, <1>6, <1>7

(* The writer takes the oldest page. *)
LEMMA IssueWriteKeepsC == ASSUME CInv, IssueWrite PROVE CInv'
<1> USE Parameters DEF CInv, orchVars, parentVars, nodeVars, ioVars, workerVars
<1>1. BufferTypes'
  BY DEF IssueWrite, BufferTypes, CursorTypes
<1>2. CursorTypes'
  BY DEF IssueWrite, CursorTypes
<1>3. OrderOK'
  BY DEF IssueWrite, OrderOK, CursorTypes, SampleOK
<1>4. SampleOK'
  BY DEF IssueWrite, OrderOK, CursorTypes, SampleOK
<1>5. SpaceOK'
  BY DEF IssueWrite, SpaceOK, CursorTypes, OrderOK
<1>6. FifoOK'
  BY DEF IssueWrite, FifoOK, BufferTypes, CursorTypes, OrderOK, OldestRequest
<1>7. FreshOK'
  BY DEF IssueWrite, FreshOK, CursorTypes, OrderOK
<1> QED BY <1>1, <1>2, <1>3, <1>4, <1>5, <1>6, <1>7

(* A coordinator reports what was hashed. *)
LEMMA ReportKeepsC == ASSUME CInv, NEW c \in Coordinators, Report(c) PROVE CInv'
<1> USE Parameters DEF CInv, orchVars, parentVars, nodeVars, ioVars, workerVars
<1>1. BufferTypes'
  BY DEF Report, BufferTypes, CursorTypes
<1>2. CursorTypes'
  BY DEF Report, CursorTypes
<1>3. OrderOK'
  BY DEF Report, OrderOK, CursorTypes, SampleOK
<1>4. SampleOK'
  BY DEF Report, OrderOK, CursorTypes, SampleOK
<1>5. SpaceOK'
  BY DEF Report, SpaceOK, CursorTypes, OrderOK
<1>6. FifoOK'
  BY DEF Report, FifoOK, BufferTypes, CursorTypes, OrderOK, OldestRequest
<1>7. FreshOK'
  BY DEF Report, FreshOK, CursorTypes, OrderOK
<1> QED BY <1>1, <1>2, <1>3, <1>4, <1>5, <1>6, <1>7

-----------------------------------------------------------------------------
(* CInv is about these variables only. *)
LEMMA StutterKeepsC == ASSUME CInv, UNCHANGED vars PROVE CInv'
<1>1. /\ UNCHANGED <<graph, opc, unsampled, rem, minHash, minNode, lastNode, nextNode,
                headNode, reservedTo, cacheMin, cacheable, tailNode,
                tailParents, tailWrite, headWrite, outstanding>>
      /\ UNCHANGED <<parentValid, parentIo, parentPtrs, parentBuf, nodeValid, nodeIo, nodeBuf,
                     refCount, consumedCount>>
      /\ UNCHANGED <<readFifo, reading, writeFifo, writing, disk, taken, hashed, reported>>
  BY DEF vars, orchVars, parentVars, nodeVars, ioVars, workerVars
<1>2. BufferTypes'
  BY <1>1 DEF CInv, BufferTypes
<1>3. CursorTypes'
  BY <1>1 DEF CInv, CursorTypes
<1>4. OrderOK' /\ SampleOK'
  BY <1>1 DEF CInv, OrderOK, SampleOK
<1>5. SpaceOK'
  BY <1>1 DEF CInv, SpaceOK
<1>6. FifoOK' /\ FreshOK'
  BY <1>1 DEF CInv, FifoOK, OldestRequest, FreshOK
<1> QED BY <1>2, <1>3, <1>4, <1>5, <1>6 DEF CInv

(* CInv is inductive. *)
LEMMA NextKeepsC == ASSUME CInv, BoundedLatency, [Next]_vars PROVE CInv'
<1>1. CASE OrchestratorNext
  BY <1>1, SampleKeepsC, ReserveBatchKeepsC, NoReadBatchKeepsC, PrepareNodeKeepsC,
     WriteNodesKeepsC, WriteDoneKeepsC, ReleaseParentsKeepsC, AdvanceWrittenKeepsC,
     RetireNodesKeepsC DEF OrchestratorNext
<1>2. CASE IoNext
  BY <1>2, IssueReadsKeepsC, ReadCompleteKeepsC, IssueWriteKeepsC, WriteCompleteKeepsC DEF IoNext
<1>3. CASE \E c \in Coordinators : WorkerNext(c)
  BY <1>3, TakeKeepsC, HashNodeKeepsC, ReportKeepsC DEF WorkerNext
<1>4. CASE Terminated
  BY <1>4, StutterKeepsC DEF Terminated
<1> QED BY <1>1, <1>2, <1>3, <1>4, StutterKeepsC DEF Next

(* CInv is an inductive invariant of process(), for every size of the buffers, *)
(* FIFOs and queues, every graph and any number of coordinators, provided that *)
(* no read is in flight to an entry that is cleared for reuse.                 *)
THEOREM CInvAlways == BoundedLatency => (Spec => []CInv)
<1> SUFFICES ASSUME BoundedLatency PROVE Spec => []CInv
  OBVIOUS
<1>1. CInv /\ [Next]_vars => CInv'
  BY NextKeepsC
<1> QED BY InitC, <1>1, PTL DEF Spec

(* The cursors of the orchestrator stay within their bounds and never make *)
(* process() exit with "Unexpected tail/parent node values".               *)
THEOREM CursorsAreSaneAlways == BoundedLatency => (Spec => []CursorsAreSane)
<1> SUFFICES ASSUME BoundedLatency PROVE Spec => []CursorsAreSane
  OBVIOUS
<1>1. CInv => CursorsAreSane
  <2> SUFFICES ASSUME CInv PROVE CursorsAreSane
    OBVIOUS
  <2>1. opc # "exit"
    BY DEF CInv, CursorTypes
  <2>2. \A s \in DOMAIN nodeValid : nodeValid[s] \in Nat /\ nodeBuf[s] \in Content
    BY DEF CInv, BufferTypes
  <2>3. \A s \in DOMAIN parentValid : parentValid[s] \in Nat
    BY DEF CInv, BufferTypes
  <2>4. \A g \in DOMAIN refCount :
          refCount[g] \in 0 .. CountMod - 1 /\ consumedCount[g] \in 0 .. CountMod - 1
    BY DEF CInv, BufferTypes
  <2>5. graph \in Graphs /\ \A p \in Pages : disk[p] \in Content
    BY DEF CInv, BufferTypes
  <2>6. {minHash, minNode, lastNode, nextNode, headNode, reservedTo, cacheMin,
         tailNode, tailParents, tailWrite, headWrite} \subseteq 0 .. NodeStop
    BY DEF CInv, CursorTypes
  <2>7. \A c \in Coordinators : {taken[c], hashed[c], reported[c]} \subseteq 0 .. NodeStop
    BY DEF CInv, CursorTypes
  <2>8. /\ opc \in {"sample", "read", "prepare", "write", "release",
                    "written", "retire", "done", "exit"}
        /\ unsampled \subseteq Coordinators /\ rem \in 0 .. ActionBatch
        /\ {cacheable, outstanding} \subseteq Nat
    BY DEF CInv, CursorTypes
  <2> QED BY <2>1, <2>2, <2>3, <2>4, <2>5, <2>6, <2>7, <2>8 DEF CursorsAreSane, TypeOK
<1> QED BY CInvAlways, <1>1, PTL

(* The parent reader's FIFO never overflows, and never holds two requests for *)
(* one entry of the parent buffer.                                            *)
THEOREM RequestsAreDistinctAlways == BoundedLatency => (Spec => []RequestsAreDistinct)
<1> SUFFICES ASSUME BoundedLatency PROVE Spec => []RequestsAreDistinct
  OBVIOUS
<1>1. CInv => RequestsAreDistinct
  <2> SUFFICES ASSUME CInv PROVE RequestsAreDistinct
    OBVIOUS
  <2>0. /\ Len(readFifo) \in Nat /\ headNode \in Nat /\ reservedTo \in Nat
        /\ headNode <= reservedTo
    BY DEF CInv, BufferTypes, CursorTypes, OrderOK
  <2>1. /\ OldestRequest \in Nat /\ OldestRequest + Len(readFifo) = headNode
        /\ reservedTo - OldestRequest <= FifoDepth
    BY <2>0 DEF CInv, FifoOK, OldestRequest
  <2>2. Len(readFifo) <= FifoDepth
    BY <2>0, <2>1, Parameters
  <2>3. ASSUME NEW i \in 1 .. Len(readFifo), NEW k \in 1 .. Len(readFifo), i # k
        PROVE  readFifo[i] # readFifo[k]
    <3>1. /\ OldestRequest + i - 1 \in Nat /\ OldestRequest + k - 1 \in Nat
          /\ OldestRequest + i - 1 # OldestRequest + k - 1
          /\ OldestRequest + i - 1 < (OldestRequest + k - 1) + ParentSlots
          /\ OldestRequest + k - 1 < (OldestRequest + i - 1) + ParentSlots
      BY <2>0, <2>1, <2>2, <2>3, Parameters
    <3>2. ParentSlot(OldestRequest + i - 1) # ParentSlot(OldestRequest + k - 1)
      BY <3>1, ParentSlotsApart
    <3> QED BY <3>2 DEF CInv, FifoOK
  <2> QED BY <2>2, <2>3 DEF RequestsAreDistinct
<1> QED BY CInvAlways, <1>1, PTL

=============================================================================
