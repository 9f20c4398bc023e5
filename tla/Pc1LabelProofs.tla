--------------------------- MODULE Pc1LabelProofs ----------------------------
(*****************************************************************************)
(* The labels of PC1, under the same parameters as Pc1Proofs, in three       *)
(* layers on top of CInv.                                                    *)
(*                                                                           *)
(* WInv is about the node buffer and the writer: a page between the written  *)
(* tail and the write head is unwritten, or with the writer, or on disk,     *)
(* and a label stays in its place for a lap of the buffer.  From it:         *)
(* whatever is below the written tail is on disk.                            *)
(*                                                                           *)
(* EInv is about the parent buffer: every pointer of an entry in use leads   *)
(* to the label of the right parent, in the node buffer less than a lap      *)
(* behind or in a page read from disk after it was written; and the valid    *)
(* counter of an entry is short by exactly the reads that are out, so a      *)
(* coordinator that sees it complete sees the data.  From both: every parent *)
(* copied or read in place is the right label.  The reference counts play no *)
(* part in this: a coordinator reads a parent before it overwrites the       *)
(* place itself, since it does so a lap later.                               *)
(*                                                                           *)
(* RInv is about the reference counts: for each sync batch, references minus *)
(* consumed ones are what the entries in use hold on it, up to multiples of  *)
(* the counters' modulus.                                                    *)
(*****************************************************************************)
EXTENDS Pc1Proofs

(* Pages *)
TailPage == PageOf(tailWrite)
HeadPage == PageOf(headWrite)
LastPage == PageOf(reservedTo)
Unwritten == TailPage .. HeadPage - 1
SlotOfPage(page) == page % NodeSlots

(* The page's slot is with the node writer. *)
InWrite(s) == s \in writing \/ \E i \in 1 .. Len(writeFifo) : writeFifo[i] = s

(* The disk has all labels of the page, of every coordinator's sectors. *)
OnDisk(page) == \A c \in Coordinators : \A k \in Places : disk[page][c][k] = First(page) + k

(* A slot is with the writer at most once. *)
QueueOK ==
    /\ \A i \in 1 .. Len(writeFifo) : writeFifo[i] \notin writing
    /\ \A i, k \in 1 .. Len(writeFifo) : writeFifo[i] = writeFifo[k] => i = k

(* The writer has only pages that are not known to be written. *)
WritesOK == \A s \in NodeRing : InWrite(s) => \E page \in Unwritten : s = SlotOfPage(page)

(* The slot of an unwritten page names its node, and is valid only when the *)
(* page is on disk.                                                         *)
PageOK(page) ==
    /\ nodeIo[SlotOfPage(page)] = First(page)
    /\ nodeValid[SlotOfPage(page)] # 0 => ~InWrite(SlotOfPage(page)) /\ OnDisk(page)

PagesOK == \A page \in Unwritten : PageOK(page)

(* Slots of pages that are not handed to the writer are not valid. *)
ClearOK == \A page \in HeadPage .. LastPage : nodeValid[SlotOfPage(page)] = 0

(* What is below the written tail is on disk. *)
DiskOK == \A page \in 0 .. TailPage - 1 : OnDisk(page)

(* A label stays in its place for a lap. *)
LabelsKept ==
    \A c \in Coordinators, n \in Nodes :
       n < hashed[c] /\ hashed[c] <= n + Lap => nodeBuf[NodeSlot(n)][c][PlaceOf(n)] = n

(* The inductive invariant of the node buffer, relative to CInv *)
WInv == QueueOK /\ WritesOK /\ PagesOK /\ ClearOK /\ DiskOK /\ LabelsKept

-----------------------------------------------------------------------------
(* The order of the pages *)
LEMMA PageCursors ==
    ASSUME CInv
    PROVE  /\ TailPage \in Nat /\ HeadPage \in Nat /\ LastPage \in Nat /\ PageOf(tailNode) \in Nat
           /\ TailPage <= HeadPage /\ HeadPage <= LastPage /\ PageOf(tailNode) <= TailPage
           /\ LastPage - PageOf(tailNode) <= NodeSlots - 1
           /\ tailWrite = First(TailPage) /\ headWrite = First(HeadPage) /\ reservedTo = First(LastPage)
<1>1. tailNode \in Nat /\ tailWrite \in Nat /\ headWrite \in Nat /\ reservedTo \in Nat
      /\ tailNode <= tailWrite /\ tailWrite <= headWrite
  BY DEF CInv, CursorTypes, OrderOK
<1>2. headWrite <= reservedTo
  <2>1. PICK c \in Coordinators : TRUE
    BY Parameters
  <2>2. /\ headWrite <= reported[c] /\ reported[c] <= hashed[c] /\ hashed[c] <= taken[c]
        /\ taken[c] <= headNode /\ headNode <= reservedTo
    BY DEF CInv, OrderOK
  <2>3. reported[c] \in Nat /\ hashed[c] \in Nat /\ taken[c] \in Nat /\ headNode \in Nat
    BY DEF CInv, CursorTypes
  <2> QED BY <1>1, <2>2, <2>3
<1>3. IsFirst(tailWrite) /\ IsFirst(headWrite) /\ IsFirst(reservedTo)
      /\ PageOf(reservedTo) - PageOf(tailNode) <= NodeSlots - 1
  BY DEF CInv, SpaceOK
<1>4. /\ PageOf(tailNode) \in Nat /\ PageOf(tailWrite) \in Nat /\ PageOf(headWrite) \in Nat
      /\ PageOf(reservedTo) \in Nat
  BY <1>1, PageFacts
<1>5. /\ PageOf(tailNode) <= PageOf(tailWrite) /\ PageOf(tailWrite) <= PageOf(headWrite)
      /\ PageOf(headWrite) <= PageOf(reservedTo)
  BY <1>1, <1>2, PageOrder
<1> QED BY <1>3, <1>4, <1>5 DEF TailPage, HeadPage, LastPage, IsFirst

(* Pages between the written tail and the last one reserved have slots of *)
(* their own.                                                             *)
LEMMA PagesApart ==
    ASSUME CInv, NEW p \in TailPage .. LastPage, NEW q \in TailPage .. LastPage, p # q
    PROVE  SlotOfPage(p) # SlotOfPage(q)
<1>1. p \in Nat /\ q \in Nat /\ p < q + NodeSlots /\ q < p + NodeSlots
  BY PageCursors, Parameters
<1> QED BY <1>1, NodeSlotsApart DEF SlotOfPage

(* The pages of the cursors have slots in the ring. *)
LEMMA PageSlots ==
    ASSUME CInv
    PROVE  /\ \A page \in TailPage .. LastPage : page \in Nat /\ SlotOfPage(page) \in NodeRing
           /\ \A page \in Unwritten : page \in TailPage .. LastPage
           /\ HeadPage \in TailPage .. LastPage /\ HeadPage \notin Unwritten
           /\ \A page \in HeadPage .. LastPage : page \in TailPage .. LastPage /\ page \notin Unwritten
<1>1. \A page \in TailPage .. LastPage : page \in Nat
  BY PageCursors
<1> QED BY <1>1, PageCursors, SlotFacts DEF Unwritten, SlotOfPage

(* Two nodes less than a lap of the node buffer apart are in different places. *)
LEMMA PlacesApart ==
    ASSUME NEW m \in Nat, NEW n \in Nat, m < n, n < m + Lap,
           NodeSlot(m) = NodeSlot(n), PlaceOf(m) = PlaceOf(n)
    PROVE  FALSE
<1> DEFINE p == PageOf(m)
           q == PageOf(n)
           k == PlaceOf(m)
<1>1. /\ p \in Nat /\ q \in Nat /\ First(p) \in Nat /\ First(q) \in Nat /\ k \in 0 .. NodesPerPage - 1
      /\ m = First(p) + k /\ n = First(q) + k
  BY PageFacts
<1>2. p % NodeSlots = q % NodeSlots
  BY SlotFacts
<1>3. Lap \in Nat
  BY <1>1, LapFacts
<1> HIDE DEF p, q, k
<1>4. k \in Int
  BY <1>1, Parameters
<1>5. First(p) < First(q) /\ First(q) < First(p) + Lap
  BY <1>1, <1>3, <1>4
<1>6. p < q
  BY <1>1, <1>5, FirstFacts
<1>7. q < p + NodeSlots
  <2> SUFFICES ASSUME p + NodeSlots <= q PROVE FALSE
    BY <1>1, Parameters
  <2>1. First(p + NodeSlots) = First(p) + Lap
    BY <1>1, Parameters, FirstAdds DEF First, Lap
  <2>2. p + NodeSlots \in Nat
    BY <1>1, Parameters
  <2>3. p + NodeSlots < q => First(p + NodeSlots) + NodesPerPage <= First(q)
    BY <1>1, <2>2, FirstFacts
  <2> QED BY <1>1, <1>3, <1>5, <2>1, <2>2, <2>3, Parameters
<1>8. p % NodeSlots # q % NodeSlots
  <2>1. p # q /\ p < q + NodeSlots
    BY <1>1, <1>6, Parameters
  <2> QED BY <1>1, <1>7, <2>1, NodeSlotsApart
<1> QED BY <1>2, <1>8

(* Nothing is hashed or written at the start. *)
LEMMA InitW == ASSUME Init PROVE WInv
<1> USE Parameters
<1>1. writeFifo = <<>> /\ writing = {}
  BY DEF Init
<1>2. First(0) = 0 /\ PageOf(0) = 0
  <2>1. First(0) = 0
    BY DEF First
  <2> QED BY <2>1, FirstFacts
<1>3. TailPage = 0 /\ HeadPage = 0 /\ LastPage = 0 /\ Unwritten = {}
  <2>1. TailPage = 0 /\ HeadPage = 0 /\ LastPage = 0
    BY <1>2 DEF Init, TailPage, HeadPage, LastPage
  <2>2. 0 .. 0 - 1 = {}
    OBVIOUS
  <2> QED BY <2>1, <2>2 DEF Unwritten
<1>4. QueueOK
  BY <1>1 DEF QueueOK
<1>5. WritesOK
  BY <1>1 DEF WritesOK, InWrite
<1>6. PagesOK
  BY <1>3 DEF PagesOK
<1>7. ClearOK
  <2>1. SlotOfPage(0) \in NodeRing
    BY SlotFacts DEF SlotOfPage
  <2>2. \A page \in 0 .. 0 : page = 0
    OBVIOUS
  <2> QED BY <1>3, <2>1, <2>2 DEF Init, ClearOK, NodeRing
<1>8. DiskOK
  <2>1. 0 .. 0 - 1 = {}
    OBVIOUS
  <2> QED BY <1>3, <2>1 DEF DiskOK
<1>9. LabelsKept
  BY DEF Init, LabelsKept, Nodes
<1> QED BY <1>4, <1>5, <1>6, <1>7, <1>8, <1>9 DEF WInv

(* A step that leaves the node buffer, its cursors and the writer alone *)
LEMMA FrameW ==
    ASSUME WInv, UNCHANGED <<tailWrite, headWrite, reservedTo, nodeValid, nodeIo, nodeBuf,
                             writeFifo, writing, disk, hashed>>
    PROVE  WInv'
<1>1. TailPage' = TailPage /\ HeadPage' = HeadPage /\ LastPage' = LastPage /\ Unwritten' = Unwritten
  BY DEF TailPage, HeadPage, LastPage, Unwritten
<1>2. \A s : InWrite(s)' = InWrite(s)
  BY DEF InWrite
<1>3. \A page : OnDisk(page)' = OnDisk(page)
  BY DEF OnDisk
<1>4. \A page : PageOK(page) => PageOK(page)'
  BY <1>2, <1>3 DEF PageOK
<1>5. QueueOK' /\ WritesOK'
  BY <1>1, <1>2 DEF WInv, QueueOK, WritesOK
<1>6. PagesOK'
  BY <1>1, <1>4 DEF WInv, PagesOK
<1>7. ClearOK' /\ DiskOK'
  BY <1>1, <1>3 DEF WInv, ClearOK, DiskOK
<1>8. LabelsKept'
  BY DEF WInv, LabelsKept
<1> QED BY <1>5, <1>6, <1>7, <1>8 DEF WInv

-----------------------------------------------------------------------------
(* The steps that matter keep WInv. *)

(* The slots of the reserved pages are free, and are cleared. *)
LEMMA ReserveBatchKeepsW == ASSUME CInv, WInv, ReserveBatch, CInv' PROVE WInv'
<1> DEFINE to == headNode + MaxBatch
           newPages == PageOf(headNode) + 1 .. PageOf(to)
<1>1. /\ reservedTo' = to /\ headNode = reservedTo
      /\ UNCHANGED <<tailWrite, headWrite, tailNode, nodeIo, nodeBuf, writeFifo, writing, disk, hashed>>
      /\ nodeValid' = [s \in DOMAIN nodeValid |->
                         IF s \in {p % NodeSlots : p \in newPages} THEN 0 ELSE nodeValid[s]]
  BY DEF ReserveBatch, CInv, OrderOK, ioVars, workerVars
<1>2. TailPage' = TailPage /\ HeadPage' = HeadPage /\ Unwritten' = Unwritten /\ LastPage' = PageOf(to)
      /\ PageOf(headNode) = LastPage
  BY <1>1 DEF TailPage, HeadPage, LastPage, Unwritten
<1>3. \A s \in NodeRing : nodeValid'[s] = IF \E p \in LastPage + 1 .. LastPage' : s = SlotOfPage(p)
                                            THEN 0 ELSE nodeValid[s]
  BY <1>1, <1>2 DEF CInv, BufferTypes, SlotOfPage
<1>4. /\ TailPage \in Nat /\ HeadPage \in Nat /\ LastPage \in Nat /\ LastPage' \in Nat
      /\ TailPage <= HeadPage /\ HeadPage <= LastPage /\ LastPage' <= TailPage + NodeSlots - 1
  <2>1. reservedTo' \in Nat /\ PageOf(reservedTo') - PageOf(tailNode') <= NodeSlots - 1
    BY DEF CInv, CursorTypes, SpaceOK
  <2>2. LastPage' \in Nat /\ LastPage' - PageOf(tailNode) <= NodeSlots - 1
    BY <1>1, <2>1, PageFacts DEF LastPage
  <2>3. /\ TailPage \in Nat /\ HeadPage \in Nat /\ LastPage \in Nat /\ PageOf(tailNode) \in Nat
        /\ TailPage <= HeadPage /\ HeadPage <= LastPage /\ PageOf(tailNode) <= TailPage
    BY PageCursors
  <2> QED BY <2>2, <2>3, Parameters
<1> HIDE DEF to, newPages
<1>5. \A p \in TailPage .. LastPage : SlotOfPage(p) \in NodeRing
  BY PageSlots
<1>6. \A page \in Unwritten : nodeValid'[SlotOfPage(page)] = nodeValid[SlotOfPage(page)]
  <2> SUFFICES ASSUME NEW page \in Unwritten, NEW p \in LastPage + 1 .. LastPage'
               PROVE  SlotOfPage(page) # SlotOfPage(p)
    BY <1>3, <1>5, PageSlots
  <2>1. page \in Nat /\ p \in Nat /\ page # p /\ p < page + NodeSlots /\ page < p + NodeSlots
    BY <1>4, Parameters DEF Unwritten
  <2> QED BY <2>1, NodeSlotsApart DEF SlotOfPage
<1>7. QueueOK' /\ DiskOK' /\ LabelsKept'
  BY <1>1, <1>2 DEF WInv, QueueOK, DiskOK, OnDisk, LabelsKept
<1>8. WritesOK'
  BY <1>1, <1>2 DEF WInv, WritesOK, InWrite
<1>9. PagesOK'
  <2> SUFFICES ASSUME NEW page \in Unwritten PROVE PageOK(page)'
    BY <1>2 DEF PagesOK
  <2>1. PageOK(page)
    BY DEF WInv, PagesOK
  <2>2. OnDisk(page)' = OnDisk(page) /\ InWrite(SlotOfPage(page))' = InWrite(SlotOfPage(page))
    BY <1>1 DEF OnDisk, InWrite
  <2> QED BY <1>1, <1>6, <2>1, <2>2 DEF PageOK
<1>10. ClearOK'
  <2> SUFFICES ASSUME NEW page \in HeadPage .. LastPage' PROVE nodeValid'[SlotOfPage(page)] = 0
    BY <1>2 DEF ClearOK
  <2>1. page \in Nat /\ SlotOfPage(page) \in NodeRing
    BY <1>4, SlotFacts DEF SlotOfPage
  <2>2. CASE page \in HeadPage .. LastPage
    BY <1>3, <2>1, <2>2 DEF WInv, ClearOK
  <2>3. CASE page \in LastPage + 1 .. LastPage'
    BY <1>3, <2>1, <2>3
  <2> QED BY <1>4, <2>1, <2>2, <2>3
<1> QED BY <1>7, <1>8, <1>9, <1>10 DEF WInv

(* Pages handed to the writer become unwritten ones. *)
LEMMA WriteNodesKeepsW == ASSUME CInv, WInv, WriteNodes PROVE WInv'
<1> DEFINE h == HeadPage
           s == NodeSlot(headWrite)
<1>0. UNCHANGED <<tailWrite, reservedTo, nodeValid, nodeBuf, writing, disk, hashed>>
  BY DEF WriteNodes, workerVars
<1>1. CASE ~CanWrite
  <2>1. UNCHANGED <<nodeIo, writeFifo, headWrite>>
    BY <1>1 DEF WriteNodes
  <2> QED BY <1>0, <2>1, FrameW
<1>2. CASE CanWrite
  <2>1. /\ nodeIo' = [nodeIo EXCEPT ![s] = headWrite] /\ writeFifo' = Append(writeFifo, s)
        /\ headWrite' = headWrite + NodesPerPage
    BY <1>2 DEF WriteNodes
  <2>2. /\ TailPage \in Nat /\ h \in Nat /\ LastPage \in Nat /\ TailPage <= h /\ h <= LastPage
        /\ headWrite = First(h) /\ headWrite \in Nat
    BY PageCursors DEF CInv, CursorTypes
  <2>3. s = SlotOfPage(h) /\ s \in NodeRing
    BY <2>2, SlotFacts DEF HeadPage, SlotOfPage
  <2>4. HeadPage' = h + 1 /\ TailPage' = TailPage /\ LastPage' = LastPage
    <3>1. headWrite' = First(h + 1) /\ h + 1 \in Nat
      BY <2>1, <2>2, FirstFacts
    <3> QED BY <1>0, <3>1, FirstFacts DEF HeadPage, TailPage, LastPage
  <2>5. \A page \in Unwritten' : page \in Unwritten \/ page = h
    BY <2>2, <2>4 DEF Unwritten
  <2>6. Unwritten \subseteq Unwritten' /\ h \in Unwritten'
    BY <2>2, <2>4 DEF Unwritten
  <2>7. \A page \in Unwritten : SlotOfPage(page) # s
    BY <2>3, PagesApart, PageSlots
  <2>8. ~InWrite(s)
    BY <2>3, <2>7 DEF WInv, WritesOK
  <2> HIDE DEF s, h
  <2>9. /\ Len(writeFifo) \in Nat /\ Len(writeFifo') = Len(writeFifo) + 1
        /\ \A i \in 1 .. Len(writeFifo) : writeFifo'[i] = writeFifo[i]
        /\ writeFifo'[Len(writeFifo) + 1] = s
    <3>1. writeFifo \in Seq(NodeRing)
      BY DEF CInv, BufferTypes
    <3> QED BY <2>1, <2>3, <3>1
  <2>10. \A i \in 1 .. Len(writeFifo') : i \in 1 .. Len(writeFifo) \/ i = Len(writeFifo) + 1
    BY <2>9
  <2>11. \A i \in 1 .. Len(writeFifo) : writeFifo[i] # s
    BY <2>8 DEF InWrite
  <2>12. \A x : InWrite(x)' => InWrite(x) \/ x = s
    BY <1>0, <2>9, <2>10 DEF InWrite
  <2>13. QueueOK'
    <3>1. s \notin writing
      BY <2>8 DEF InWrite
    <3>2. \A i \in 1 .. Len(writeFifo') : writeFifo'[i] \notin writing
      BY <2>9, <2>10, <3>1 DEF WInv, QueueOK
    <3>3. \A i, k \in 1 .. Len(writeFifo') : writeFifo'[i] = writeFifo'[k] => i = k
      BY <2>9, <2>10, <2>11 DEF WInv, QueueOK
    <3> QED BY <1>0, <3>2, <3>3 DEF QueueOK
  <2>14. WritesOK'
    BY <2>3, <2>6, <2>12 DEF WInv, WritesOK
  <2>15. PagesOK'
    <3> SUFFICES ASSUME NEW page \in Unwritten' PROVE PageOK(page)'
      BY DEF PagesOK
    <3>1. CASE page = h
      <4>1. nodeValid[s] = 0
        <5>1. h \in HeadPage .. LastPage
          BY <2>2 DEF h
        <5> QED BY <2>3, <5>1 DEF WInv, ClearOK
      <4>2. nodeIo'[s] = First(h)
        BY <2>1, <2>2, <2>3 DEF CInv, BufferTypes
      <4> QED BY <1>0, <2>3, <3>1, <4>1, <4>2 DEF PageOK
    <3>2. CASE page \in Unwritten
      <4>1. PageOK(page) /\ SlotOfPage(page) # s /\ SlotOfPage(page) \in NodeRing
        BY <2>7, <3>2, PageSlots DEF WInv, PagesOK
      <4>2. nodeIo'[SlotOfPage(page)] = nodeIo[SlotOfPage(page)]
        BY <2>1, <4>1 DEF CInv, BufferTypes
      <4>3. OnDisk(page)' = OnDisk(page)
        BY <1>0 DEF OnDisk
      <4> QED BY <1>0, <2>12, <4>1, <4>2, <4>3 DEF PageOK
    <3> QED BY <2>5, <3>1, <3>2
  <2>16. ClearOK'
    <3>1. \A page \in h + 1 .. LastPage : page \in h .. LastPage
      BY <2>2
    <3> QED BY <1>0, <2>4, <3>1 DEF WInv, ClearOK, h
  <2>17. DiskOK' /\ LabelsKept'
    BY <1>0, <2>4 DEF WInv, DiskOK, OnDisk, LabelsKept
  <2> QED BY <2>13, <2>14, <2>15, <2>16, <2>17 DEF WInv
<1> QED BY <1>1, <1>2

(* A page that the tail passes is valid, and so on disk. *)
LEMMA AdvanceWrittenKeepsW == ASSUME CInv, WInv, AdvanceWritten, CInv' PROVE WInv'
<1>0. PICK k \in 0 .. ActionBatch :
         /\ \A i \in 0 .. k - 1 : IsWritten(tailWrite + i * NodesPerPage)
         /\ tailWrite' = tailWrite + k * NodesPerPage
  BY DEF AdvanceWritten, Repeat
<1>1. UNCHANGED <<headWrite, reservedTo, nodeValid, nodeIo, nodeBuf, writeFifo, writing, disk, hashed>>
  BY DEF AdvanceWritten, nodeVars, ioVars, workerVars
<1>2. /\ TailPage \in Nat /\ HeadPage \in Nat /\ tailWrite = First(TailPage) /\ k \in Nat
  BY PageCursors, Parameters
<1>3. \A i \in Nat : /\ TailPage + i \in Nat /\ PageOf(tailWrite + i * NodesPerPage) = TailPage + i
                     /\ tailWrite + i * NodesPerPage \in Nat
  <2> SUFFICES ASSUME NEW i \in Nat
               PROVE  /\ TailPage + i \in Nat /\ PageOf(tailWrite + i * NodesPerPage) = TailPage + i
                      /\ tailWrite + i * NodesPerPage \in Nat
    OBVIOUS
  <2>1. First(TailPage + i) = First(TailPage) + First(i)
    BY <1>2, FirstAdds
  <2>2. i * NodesPerPage = First(i)
    BY DEF First
  <2>3. TailPage + i \in Nat
    BY <1>2
  <2>4. First(TailPage + i) \in Nat /\ PageOf(First(TailPage + i)) = TailPage + i
    BY <2>3, FirstFacts
  <2> QED BY <1>2, <2>1, <2>2, <2>3, <2>4
<1>4. TailPage' = TailPage + k /\ HeadPage' = HeadPage /\ LastPage' = LastPage
  BY <1>0, <1>1, <1>2, <1>3 DEF TailPage, HeadPage, LastPage
<1>5. TailPage + k <= HeadPage
  <2>1. tailWrite' \in Nat /\ headWrite' \in Nat /\ tailWrite' <= headWrite'
    BY DEF CInv, CursorTypes, OrderOK
  <2>2. PageOf(tailWrite') <= PageOf(headWrite')
    BY <2>1, PageOrder
  <2> QED BY <1>4, <2>2 DEF TailPage, HeadPage
<1>6. \A page \in TailPage .. TailPage + k - 1 :
         page \in Unwritten /\ nodeValid[SlotOfPage(page)] # 0
  <2> SUFFICES ASSUME NEW page \in TailPage .. TailPage + k - 1
               PROVE  page \in Unwritten /\ nodeValid[SlotOfPage(page)] # 0
    OBVIOUS
  <2>1. page - TailPage \in 0 .. k - 1 /\ page - TailPage \in Nat /\ TailPage + (page - TailPage) = page
    BY <1>2
  <2>2. IsWritten(tailWrite + (page - TailPage) * NodesPerPage)
    BY <1>0, <2>1
  <2>3. NodeSlot(tailWrite + (page - TailPage) * NodesPerPage) = SlotOfPage(page)
    BY <1>3, <2>1 DEF NodeSlot, SlotOfPage
  <2>4. page \in Unwritten
    BY <1>2, <1>5 DEF Unwritten
  <2> QED BY <2>2, <2>3, <2>4 DEF IsWritten
<1>7. \A page \in Unwritten : page \in TailPage .. TailPage + k - 1 \/ page \in Unwritten'
  BY <1>2, <1>4, <1>5 DEF Unwritten
<1>8. \A page \in Unwritten' : page \in Unwritten
  BY <1>2, <1>4, <1>5 DEF Unwritten
<1>9. QueueOK' /\ LabelsKept' /\ ClearOK'
  BY <1>1, <1>4 DEF WInv, QueueOK, LabelsKept, ClearOK
<1>10. WritesOK'
  <2> SUFFICES ASSUME NEW s \in NodeRing, InWrite(s) PROVE \E page \in Unwritten' : s = SlotOfPage(page)
    BY <1>1 DEF WritesOK, InWrite
  <2>1. PICK page \in Unwritten : s = SlotOfPage(page)
    BY DEF WInv, WritesOK
  <2>2. page \notin TailPage .. TailPage + k - 1
    BY <1>6, <2>1 DEF WInv, PagesOK, PageOK
  <2> QED BY <1>7, <2>1, <2>2
<1>11. \A page : OnDisk(page)' = OnDisk(page)
  BY <1>1 DEF OnDisk
<1>12. PagesOK'
  BY <1>1, <1>8, <1>11 DEF WInv, PagesOK, PageOK, InWrite
<1>13. DiskOK'
  <2> SUFFICES ASSUME NEW page \in 0 .. (TailPage + k) - 1 PROVE OnDisk(page)
    BY <1>4, <1>11 DEF DiskOK
  <2>1. CASE page \in 0 .. TailPage - 1
    BY <2>1 DEF WInv, DiskOK
  <2>2. CASE page \in TailPage .. TailPage + k - 1
    BY <1>6, <2>2 DEF WInv, PagesOK, PageOK
  <2> QED BY <1>2, <2>1, <2>2
<1> QED BY <1>9, <1>10, <1>12, <1>13 DEF WInv

(* A page moves from the writer's FIFO to the drive. *)
LEMMA IssueWriteKeepsW == ASSUME CInv, WInv, IssueWrite PROVE WInv'
<1>0. /\ UNCHANGED <<tailWrite, headWrite, reservedTo, nodeValid, nodeIo, nodeBuf, disk, hashed>>
      /\ writeFifo # <<>> /\ writing' = writing \cup {Head(writeFifo)} /\ writeFifo' = Tail(writeFifo)
      /\ writeFifo \in Seq(NodeRing)
  BY DEF IssueWrite, orchVars, nodeVars, workerVars, CInv, BufferTypes
<1>1. /\ Len(writeFifo) \in Nat /\ Len(writeFifo) > 0 /\ Len(writeFifo') = Len(writeFifo) - 1
      /\ Head(writeFifo) = writeFifo[1]
      /\ \A i \in 1 .. Len(writeFifo') : writeFifo'[i] = writeFifo[i + 1]
  BY <1>0
<1>2. \A i \in 1 .. Len(writeFifo') : i + 1 \in 1 .. Len(writeFifo) /\ i + 1 # 1
  BY <1>1
<1>3. 1 \in 1 .. Len(writeFifo)
  BY <1>1
<1>4. QueueOK'
  <2>1. \A i \in 1 .. Len(writeFifo') : writeFifo'[i] \notin writing'
    BY <1>0, <1>1, <1>2, <1>3 DEF WInv, QueueOK
  <2>2. \A i, k \in 1 .. Len(writeFifo') : writeFifo'[i] = writeFifo'[k] => i = k
    <3> SUFFICES ASSUME NEW i \in 1 .. Len(writeFifo'), NEW k \in 1 .. Len(writeFifo'),
                        writeFifo'[i] = writeFifo'[k]
                 PROVE  i = k
      OBVIOUS
    <3>1. i + 1 = k + 1
      BY <1>1, <1>2 DEF WInv, QueueOK
    <3> QED BY <1>1, <3>1
  <2> QED BY <2>1, <2>2 DEF QueueOK
<1>5. \A s : InWrite(s)' => InWrite(s)
  BY <1>0, <1>1, <1>2, <1>3 DEF InWrite
<1>6. TailPage' = TailPage /\ HeadPage' = HeadPage /\ LastPage' = LastPage /\ Unwritten' = Unwritten
  BY <1>0 DEF TailPage, HeadPage, LastPage, Unwritten
<1>7. \A page : OnDisk(page)' = OnDisk(page)
  BY <1>0 DEF OnDisk
<1>8. WritesOK'
  BY <1>5, <1>6 DEF WInv, WritesOK
<1>9. PagesOK'
  <2>1. \A page : PageOK(page) => PageOK(page)'
    BY <1>0, <1>5, <1>7 DEF PageOK
  <2> QED BY <1>6, <2>1 DEF WInv, PagesOK
<1>10. ClearOK' /\ DiskOK' /\ LabelsKept'
  BY <1>0, <1>6, <1>7 DEF WInv, ClearOK, DiskOK, LabelsKept
<1> QED BY <1>4, <1>8, <1>9, <1>10 DEF WInv

(* A page below the write head that is still unwritten holds all its labels. *)
LEMMA UnwrittenIsHashed ==
    ASSUME CInv, WInv, NEW p \in Unwritten, NEW c \in Coordinators, NEW k \in Places
    PROVE  nodeBuf[SlotOfPage(p)][c][k] = First(p) + k
<1> DEFINE n == First(p) + k
<1>0. p \in Nat /\ HeadPage \in Nat /\ LastPage \in Nat /\ p < HeadPage /\ k \in 0 .. NodesPerPage - 1
      /\ LastPage - p <= NodeSlots - 1
  BY PageCursors, Parameters DEF Unwritten, Places
<1>1. First(p) \in Nat /\ PageOf(n) = p /\ PlaceOf(n) = k /\ n \in Nat
  <2>1. First(p) \in Nat /\ PageOf(n) = p /\ PlaceOf(n) = k
    BY <1>0, PageUnique
  <2>2. n \in Nat
    BY <1>0, <2>1, Parameters
  <2> QED BY <2>1, <2>2
<1>2. First(p) + NodesPerPage <= headWrite
  BY <1>0, FirstFacts, PageCursors
<1>3. reservedTo + NodesPerPage <= First(p) + Lap /\ Lap \in Nat
  BY <1>0, LapFacts, PageCursors
<1>4. /\ hashed[c] \in Nat /\ headWrite \in Nat /\ reservedTo \in 0 .. NodeStop
      /\ headWrite <= hashed[c] /\ hashed[c] <= reservedTo
  <2>1. /\ headWrite <= reported[c] /\ reported[c] <= hashed[c] /\ hashed[c] <= taken[c]
        /\ taken[c] <= headNode /\ headNode <= reservedTo
    BY DEF CInv, OrderOK
  <2>2. /\ reported[c] \in Nat /\ hashed[c] \in Nat /\ taken[c] \in Nat /\ headNode \in Nat
        /\ headWrite \in Nat /\ reservedTo \in 0 .. NodeStop
    BY DEF CInv, CursorTypes
  <2> QED BY <2>1, <2>2, Parameters
<1>5. n \in Nodes /\ n < hashed[c] /\ hashed[c] <= n + Lap
  BY <1>0, <1>1, <1>2, <1>3, <1>4, Parameters DEF Nodes
<1>6. NodeSlot(n) = SlotOfPage(p)
  BY <1>1 DEF NodeSlot, SlotOfPage
<1> HIDE DEF n
<1>7. nodeBuf[NodeSlot(n)][c][PlaceOf(n)] = n
  BY <1>5 DEF WInv, LabelsKept
<1> QED BY <1>1, <1>6, <1>7 DEF n

(* What the drive wrote are the labels, since the page was complete. *)
LEMMA WriteCompleteKeepsW == ASSUME CInv, WInv, NEW s \in writing, WriteComplete(s) PROVE WInv'
<1>0. /\ UNCHANGED <<tailWrite, headWrite, reservedTo, nodeIo, nodeBuf, writeFifo, hashed>>
      /\ writing' = writing \ {s}
      /\ disk' = [disk EXCEPT ![PageOf(nodeIo[s])] = nodeBuf[s]]
      /\ nodeValid' = [nodeValid EXCEPT ![s] = @ + 1]
      /\ s \in NodeRing
  BY DEF WriteComplete, orchVars, workerVars, CInv, BufferTypes
<1>1. PICK p \in Unwritten : s = SlotOfPage(p)
  BY <1>0 DEF WInv, WritesOK, InWrite
<1>2. p \in Nat /\ nodeIo[s] = First(p) /\ PageOf(nodeIo[s]) = p /\ p \in Pages
  <2>1. nodeIo[s] = First(p) /\ p \in Nat
    BY <1>1, PageSlots DEF WInv, PagesOK, PageOK
  <2>2. nodeIo[s] \in Nodes
    BY <1>0 DEF CInv, BufferTypes
  <2> QED BY <2>1, <2>2, FirstFacts, NodePageIsPage
<1>3. /\ \A q \in Pages : q # p => disk'[q] = disk[q]
      /\ disk'[p] = nodeBuf[s]
  BY <1>0, <1>2 DEF CInv, BufferTypes
<1>4. \A q \in 0 .. LastPage : q # p /\ OnDisk(q) => OnDisk(q)'
  <2> SUFFICES ASSUME NEW q \in 0 .. LastPage, q # p PROVE disk'[q] = disk[q]
    BY DEF OnDisk
  <2>1. CASE q \in Pages
    BY <1>3, <2>1
  <2>2. CASE q \notin Pages
    BY <1>0, <1>2, <2>2 DEF CInv, BufferTypes
  <2> QED BY <2>1, <2>2
<1>5. OnDisk(p)'
  BY <1>1, <1>3, UnwrittenIsHashed DEF OnDisk
<1>6. TailPage' = TailPage /\ HeadPage' = HeadPage /\ LastPage' = LastPage /\ Unwritten' = Unwritten
  BY <1>0 DEF TailPage, HeadPage, LastPage, Unwritten
<1>7. ~InWrite(s)' /\ \A x : InWrite(x)' => InWrite(x)
  BY <1>0 DEF WInv, QueueOK, InWrite
<1>8. \A x \in NodeRing : x # s => nodeValid'[x] = nodeValid[x]
  BY <1>0 DEF CInv, BufferTypes
<1>9. \A q \in TailPage .. LastPage : q # p => SlotOfPage(q) # s /\ SlotOfPage(q) \in NodeRing
  BY <1>1, PagesApart, PageSlots
<1>10. TailPage \in Nat /\ HeadPage \in Nat /\ LastPage \in Nat /\ TailPage <= HeadPage /\ HeadPage <= LastPage
  BY PageCursors
<1>11. QueueOK'
  BY <1>0 DEF WInv, QueueOK
<1>12. WritesOK'
  BY <1>6, <1>7 DEF WInv, WritesOK
<1>13. PagesOK'
  <2> SUFFICES ASSUME NEW q \in Unwritten PROVE PageOK(q)'
    BY <1>6 DEF PagesOK
  <2>0. PageOK(q)
    BY DEF WInv, PagesOK
  <2>1. CASE q = p
    BY <1>0, <1>1, <1>5, <1>7, <2>0, <2>1 DEF PageOK
  <2>2. CASE q # p
    <3>1. SlotOfPage(q) # s /\ SlotOfPage(q) \in NodeRing
      BY <1>9, <2>2, PageSlots
    <3>2. nodeValid'[SlotOfPage(q)] = nodeValid[SlotOfPage(q)]
      BY <1>8, <3>1
    <3>3. OnDisk(q) => OnDisk(q)'
      <4>1. q \in 0 .. LastPage
        BY <1>10 DEF Unwritten
      <4> QED BY <1>4, <2>2, <4>1
    <3> QED BY <1>0, <1>7, <2>0, <3>2, <3>3 DEF PageOK
  <2> QED BY <2>1, <2>2
<1>14. ClearOK'
  <2>1. \A q \in HeadPage .. LastPage : q # p /\ q \in TailPage .. LastPage
    BY <1>1, PageSlots
  <2> QED BY <1>6, <1>8, <1>9, <2>1 DEF WInv, ClearOK
<1>15. DiskOK'
  <2>1. \A q \in 0 .. TailPage - 1 : q # p /\ q \in 0 .. LastPage
    BY <1>1, <1>10 DEF Unwritten
  <2> QED BY <1>4, <1>6, <2>1 DEF WInv, DiskOK
<1>16. LabelsKept'
  BY <1>0 DEF WInv, LabelsKept
<1> QED BY <1>11, <1>12, <1>13, <1>14, <1>15, <1>16 DEF WInv

(* A new label overwrites one that is a lap old. *)
LEMMA HashNodeKeepsW == ASSUME CInv, WInv, NEW c \in Coordinators, HashNode(c) PROVE WInv'
<1> DEFINE m == hashed[c]
<1>0. /\ UNCHANGED <<tailWrite, headWrite, reservedTo, nodeIo, nodeValid, disk, writeFifo, writing>>
      /\ nodeBuf' = [nodeBuf EXCEPT ![NodeSlot(m)][c][PlaceOf(m)] = m]
      /\ hashed' = [hashed EXCEPT ![c] = @ + 1] /\ hashed[c] < taken[c]
  BY DEF HashNode, orchVars, ioVars
<1>1. m \in Nat /\ m \in Nodes /\ NodeSlot(m) \in NodeRing /\ PlaceOf(m) \in Places
  <2>1. m \in Nat /\ taken[c] \in 0 .. NodeStop
    BY DEF CInv, CursorTypes
  <2>2. m \in Nodes
    BY <1>0, <2>1, Parameters DEF Nodes
  <2> QED BY <2>1, <2>2, SlotFacts, PageFacts
<1>2. TailPage' = TailPage /\ HeadPage' = HeadPage /\ LastPage' = LastPage /\ Unwritten' = Unwritten
  BY <1>0 DEF TailPage, HeadPage, LastPage, Unwritten
<1>3. \A page : OnDisk(page)' = OnDisk(page)
  BY <1>0 DEF OnDisk
<1>4. \A s : InWrite(s)' = InWrite(s)
  BY <1>0 DEF InWrite
<1>5. QueueOK' /\ WritesOK'
  BY <1>0, <1>2, <1>4 DEF WInv, QueueOK, WritesOK
<1>6. PagesOK'
  <2>1. \A page : PageOK(page) => PageOK(page)'
    BY <1>0, <1>3, <1>4 DEF PageOK
  <2> QED BY <1>2, <2>1 DEF WInv, PagesOK
<1>7. ClearOK' /\ DiskOK'
  BY <1>0, <1>2, <1>3 DEF WInv, ClearOK, DiskOK
<1>8. LabelsKept'
  <2> SUFFICES ASSUME NEW d \in Coordinators, NEW n \in Nodes,
                      n < hashed'[d], hashed'[d] <= n + Lap
               PROVE  nodeBuf'[NodeSlot(n)][d][PlaceOf(n)] = n
    BY DEF LabelsKept
  <2>1. n \in Nat /\ NodeSlot(n) \in NodeRing /\ PlaceOf(n) \in Places
    BY SlotFacts, PageFacts, Parameters DEF Nodes
  <2>2. nodeBuf'[NodeSlot(n)][d][PlaceOf(n)] =
          IF NodeSlot(n) = NodeSlot(m) /\ d = c /\ PlaceOf(n) = PlaceOf(m)
            THEN m ELSE nodeBuf[NodeSlot(n)][d][PlaceOf(n)]
    <3>1. nodeBuf \in [NodeRing -> [Coordinators -> [Places -> (0 .. NodeStop - 1) \cup {NoNode}]]]
      BY DEF CInv, BufferTypes, Content
    <3> HIDE DEF m
    <3> QED BY <1>0, <1>1, <2>1, <3>1
  <2>3. CASE d # c
    <3>1. hashed'[d] = hashed[d]
      BY <1>0, <2>3 DEF CInv, CursorTypes
    <3> QED BY <2>2, <2>3, <3>1 DEF WInv, LabelsKept
  <2>4. CASE d = c
    <3>1. hashed'[d] = m + 1 /\ Lap \in Nat
      BY <1>0, <2>1, <2>4, LapFacts DEF CInv, CursorTypes
    <3>2. CASE n = m
      BY <2>2, <2>4, <3>2
    <3>3. CASE n # m
      <4>1. n < m /\ m < n + Lap /\ m <= n + Lap
        BY <1>1, <2>1, <3>1, <3>3
      <4>2. ~(NodeSlot(n) = NodeSlot(m) /\ PlaceOf(n) = PlaceOf(m))
        BY <1>1, <2>1, <4>1, PlacesApart
      <4>3. nodeBuf[NodeSlot(n)][d][PlaceOf(n)] = n
        BY <2>4, <4>1 DEF WInv, LabelsKept
      <4> QED BY <2>2, <4>2, <4>3
    <3> QED BY <3>2, <3>3
  <2> QED BY <2>3, <2>4
<1> QED BY <1>5, <1>6, <1>7, <1>8 DEF WInv

(* The other actions leave all this alone. *)
LEMMA OtherStepsKeepW ==
    ASSUME WInv,
           \/ \E c \in Coordinators : Sample(c) \/ Take(c) \/ Report(c)
           \/ NoReadBatch \/ PrepareNode \/ WriteDone \/ ReleaseParents \/ RetireNodes
           \/ IssueReads \/ (\E r \in reading : ReadComplete(r)) \/ UNCHANGED vars
    PROVE  WInv'
<1>1. UNCHANGED <<tailWrite, headWrite, reservedTo, nodeValid, nodeIo, nodeBuf,
                  writeFifo, writing, disk, hashed>>
  BY DEF Sample, Take, Report, NoReadBatch, PrepareNode, WriteDone, ReleaseParents, RetireNodes,
         IssueReads, ReadComplete, vars, orchVars, nodeVars, ioVars, workerVars
<1> QED BY <1>1, FrameW

(* WInv is inductive relative to CInv. *)
LEMMA NextKeepsW == ASSUME CInv, CInv', WInv, [Next]_vars PROVE WInv'
<1>1. CASE OrchestratorNext
  BY <1>1, OtherStepsKeepW, ReserveBatchKeepsW, WriteNodesKeepsW, AdvanceWrittenKeepsW
     DEF OrchestratorNext
<1>2. CASE IoNext
  BY <1>2, OtherStepsKeepW, IssueWriteKeepsW, WriteCompleteKeepsW DEF IoNext
<1>3. CASE \E c \in Coordinators : WorkerNext(c)
  BY <1>3, OtherStepsKeepW, HashNodeKeepsW DEF WorkerNext
<1>4. CASE Terminated \/ UNCHANGED vars
  BY <1>4, OtherStepsKeepW DEF Terminated
<1> QED BY <1>1, <1>2, <1>3, <1>4 DEF Next

(* The page of a node on its way to the drive keeps its labels until the write *)
(* has completed.                                                              *)
THEOREM WInvAlways == BoundedLatency => (Spec => []WInv)
<1> SUFFICES ASSUME BoundedLatency PROVE Spec => []WInv
  OBVIOUS
<1>1. Init => WInv
  BY InitW
<1>2. CInv /\ CInv' /\ WInv /\ [Next]_vars => WInv'
  BY NextKeepsW
<1> QED BY <1>1, <1>2, CInvAlways, PTL DEF Spec

(* A label below the written tail is on disk. *)
LEMMA WrittenIsOnDisk ==
    ASSUME CInv, WInv, NEW n \in Nat, n < tailWrite, NEW c \in Coordinators
    PROVE  disk[PageOf(n)][c][PlaceOf(n)] = n
<1>1. tailWrite \in Nat /\ IsFirst(tailWrite)
  BY DEF CInv, CursorTypes, SpaceOK
<1>2. PageOf(n) \in 0 .. TailPage - 1
  <2>1. PageOf(n) < PageOf(tailWrite) /\ PageOf(n) \in Nat /\ PageOf(tailWrite) \in Nat
    BY <1>1, PageOrder, PageFacts
  <2> QED BY <2>1 DEF TailPage
<1>3. PlaceOf(n) \in Places /\ n = First(PageOf(n)) + PlaceOf(n)
  BY PageFacts
<1> QED BY <1>2, <1>3 DEF WInv, DiskOK, OnDisk

(* Every label below the written tail is on disk, for every sector: no page of *)
(* the node buffer is overwritten before the drive has it.                     *)
THEOREM WrittenLabelsAreOnDiskAlways == BoundedLatency => (Spec => []WrittenLabelsAreOnDisk)
<1> SUFFICES ASSUME BoundedLatency PROVE Spec => []WrittenLabelsAreOnDisk
  OBVIOUS
<1>1. CInv /\ WInv => WrittenLabelsAreOnDisk
  <2>1. CInv => \A n \in 0 .. tailWrite - 1 : n \in Nat /\ n < tailWrite
    BY DEF CInv, CursorTypes
  <2> QED BY <2>1, WrittenIsOnDisk DEF WrittenLabelsAreOnDisk
<1> QED BY <1>1, CInvAlways, WInvAlways, PTL

-----------------------------------------------------------------------------
(* The parent entries *)

(* Pointer ptr of node n's entry leads to the label of p: in the page of the *)
(* node buffer that p was hashed into, less than a lap ago, or read from a   *)
(* page that is on disk.                                                     *)
GoodPtr(n, p, ptr) ==
    \/ ptr = NodePtr(NodeSlot(p), PlaceOf(p), IsLocal(n, p)) /\ n <= p + Lap
    \/ ptr = ParentPtr(PlaceOf(p)) /\ p < tailWrite

(* The pointers of node n lead to its previous node and to its parents. Those *)
(* of a layer's node 0 are not used.                                          *)
GoodPtrs(n, ptrs) ==
    NodeOf(n) # 0 =>
       /\ ptrs[0] = NodePtr(NodeSlot(n - 1), PlaceOf(n - 1), TRUE)
       /\ \A j \in Reads : GoodPtr(n, Parent(n, j), ptrs[j + 1])

(* What a coordinator took and has not hashed: the pointers of the nodes that *)
(* follow, with the right label behind each                                   *)
PendingOK ==
    \A c \in Coordinators :
       /\ Len(pending[c]) = taken[c] - hashed[c]
       /\ \A i \in 1 .. Len(pending[c]) : GoodPtrs(hashed[c] + (i - 1), pending[c][i])

(* The reads of node n's entry that have not completed: its request is in the *)
(* FIFO, or the read is with the drive.                                       *)
InDrive(n, j) == \E r \in reading : r.slot = ParentSlot(n) /\ r.j = j
InFlight(n) ==
    {j \in Reads : /\ parentIo[ParentSlot(n)][j].type = "read"
                   /\ n >= OldestRequest \/ InDrive(n, j)}

(* Read j of entry n is for the page of that parent, and unless it is out, the *)
(* parent's label is in the buffer.                                            *)
ReadOK(n, j) ==
    IF parentPtrs[ParentSlot(n)][j + 1].to = "parent"
      THEN /\ parentIo[ParentSlot(n)][j] = Read(Parent(n, j))
           /\ j \notin InFlight(n) =>
                 \A c \in Coordinators :
                    parentBuf[ParentSlot(n)][j][c][PlaceOf(Parent(n, j))] = Parent(n, j)
      ELSE parentIo[ParentSlot(n)][j] = Nop

(* An entry in use *)
EntryOK(n) ==
    /\ GoodPtrs(n, parentPtrs[ParentSlot(n)])
    /\ NodeOf(n) # 0 =>
          /\ parentValid[ParentSlot(n)] = PageBatch - Cardinality(InFlight(n))
          /\ \A r \in reading : r.slot = ParentSlot(n) =>
                n < OldestRequest /\ parentIo[ParentSlot(n)][r.j] = Read(r.node)
          /\ \A j \in Reads : ReadOK(n, j)

(* The entries in use: prepared and not released *)
Entries   == tailParents .. headNode - 1
EntriesOK == \A n \in Entries : EntryOK(n)

(* The inductive invariant of the parent buffer, relative to CInv and WInv *)
EInv == pending \in [Coordinators -> Seq(Ptrs)] /\ PendingOK /\ EntriesOK

(* The fields of the pointers *)
LEMMA PtrFields ==
    ASSUME NEW s, NEW k, NEW b
    PROVE  /\ NodePtr(s, k, b).to = "node" /\ NodePtr(s, k, b).slot = s
           /\ NodePtr(s, k, b).place = k /\ NodePtr(s, k, b).local = b
           /\ ParentPtr(k).to = "parent" /\ ParentPtr(k).place = k
           /\ Read(k).type = "read" /\ Read(k).node = k /\ Nop.type = "nop"
           /\ NullPtr.to = "null"
BY DEF NodePtr, ParentPtr, Read, Nop, NullPtr

(* The cursors around the entries in use *)
LEMMA EntryFacts ==
    ASSUME CInv
    PROVE  /\ headNode \in Nat /\ tailParents \in Nat /\ reservedTo \in Nat
           /\ headNode <= reservedTo /\ reservedTo - tailParents <= ParentSlots - 1
           /\ OldestRequest \in Nat /\ OldestRequest <= headNode
           /\ \A n \in Entries : n \in Nat /\ n \in Nodes /\ ParentSlot(n) \in ParentRing
<1>1. /\ headNode \in Nat /\ tailParents \in Nat /\ reservedTo \in Nat /\ headNode <= NodeStop
      /\ headNode <= reservedTo /\ reservedTo - tailParents <= ParentSlots - 1
  BY DEF CInv, CursorTypes, OrderOK, SpaceOK
<1>2. OldestRequest \in Nat /\ OldestRequest <= headNode
  <2>1. Len(readFifo) \in Nat /\ OldestRequest >= 0
    BY DEF CInv, FifoOK, BufferTypes
  <2> QED BY <1>1, <2>1 DEF OldestRequest
<1>3. \A n \in Entries : n \in Nat /\ n \in Nodes
  BY <1>1, Parameters DEF Entries, Nodes
<1> QED BY <1>1, <1>2, <1>3, SlotFacts

(* Entries in use, and those that are being reserved, have slots of their own. *)
LEMMA EntriesApart ==
    ASSUME CInv, NEW m \in tailParents .. reservedTo, NEW n \in tailParents .. reservedTo, m # n
    PROVE  ParentSlot(m) # ParentSlot(n)
<1>1. m \in Nat /\ n \in Nat /\ m < n + ParentSlots /\ n < m + ParentSlots
  BY EntryFacts, Parameters
<1> QED BY <1>1, ParentSlotsApart

(* Good pointers stay good when the written tail moves on. *)
LEMMA GoodPtrsGrow ==
    ASSUME tailWrite \in Nat, tailWrite' \in Nat, tailWrite <= tailWrite', graph' = graph,
           graph \in Graphs, NEW n \in Nodes, NEW ptrs, GoodPtrs(n, ptrs)
    PROVE  GoodPtrs(n, ptrs)'
<1>1. \A j : Parent(n, j)' = Parent(n, j)
  BY DEF Parent
<1>2. ASSUME NodeOf(n) # 0, NEW j \in Reads PROVE GoodPtr(n, Parent(n, j), ptrs[j + 1])'
  <2> DEFINE p == Parent(n, j)
  <2>1. p \in Nat
    BY <1>2, ParentBefore, Parameters DEF Nodes
  <2>2. GoodPtr(n, p, ptrs[j + 1])
    BY <1>2 DEF GoodPtrs
  <2>3. p' = p
    BY <1>1
  <2> HIDE DEF p
  <2>4. GoodPtr(n, p, ptrs[j + 1])'
    BY <2>1, <2>2, <2>3 DEF GoodPtr
  <2> QED BY <2>4 DEF p
<1> QED BY <1>2 DEF GoodPtrs

(* A step that leaves an entry and its reads alone *)
LEMMA FrameEntry ==
    ASSUME CInv, NEW n \in Entries, EntryOK(n),
           GoodPtrs(n, parentPtrs[ParentSlot(n)])',
           graph' = graph,
           parentValid'[ParentSlot(n)] = parentValid[ParentSlot(n)],
           parentIo'[ParentSlot(n)] = parentIo[ParentSlot(n)],
           parentPtrs'[ParentSlot(n)] = parentPtrs[ParentSlot(n)],
           parentBuf'[ParentSlot(n)] = parentBuf[ParentSlot(n)],
           \A r : r.slot = ParentSlot(n) => (r \in reading <=> r \in reading'),
           OldestRequest' \in Nat, n < OldestRequest <=> n < OldestRequest'
    PROVE  EntryOK(n)'
<1>0. OldestRequest \in Nat /\ n \in Nat
  BY EntryFacts
<1>1. \A j : InDrive(n, j)' = InDrive(n, j)
  BY DEF InDrive
<1>2. InFlight(n)' = InFlight(n)
  <2>1. n >= OldestRequest <=> n >= OldestRequest'
    BY <1>0
  <2> QED BY <1>1, <2>1 DEF InFlight
<1>3. \A j : Parent(n, j)' = Parent(n, j)
  BY DEF Parent
<1>4. \A j \in Reads : ReadOK(n, j) => ReadOK(n, j)'
  BY <1>2, <1>3 DEF ReadOK
<1>5. ASSUME NodeOf(n) # 0
      PROVE  parentValid'[ParentSlot(n)] = PageBatch - Cardinality(InFlight(n)')
  BY <1>2, <1>5 DEF EntryOK
<1>6. ASSUME NodeOf(n) # 0
      PROVE  \A r \in reading' : r.slot = ParentSlot(n) =>
                n < OldestRequest' /\ parentIo'[ParentSlot(n)][r.j] = Read(r.node)
  BY <1>6 DEF EntryOK
<1> QED BY <1>4, <1>5, <1>6 DEF EntryOK

(* There are no entries at the start. *)
LEMMA InitE == ASSUME Init PROVE EInv
<1> USE Parameters
<1>1. pending \in [Coordinators -> Seq(Ptrs)]
  BY DEF Init
<1>2. PendingOK
  BY DEF Init, PendingOK
<1>3. EntriesOK
  <2>1. 0 .. 0 - 1 = {}
    OBVIOUS
  <2> QED BY <2>1 DEF Init, EntriesOK, Entries
<1> QED BY <1>1, <1>2, <1>3 DEF EInv

(* What is taken and not hashed is a sequence of pointers of entries. *)
LEMMA PendingTypes ==
    ASSUME CInv, EInv, NEW c \in Coordinators
    PROVE  /\ hashed[c] \in Nat /\ taken[c] \in 0 .. NodeStop /\ hashed[c] <= taken[c]
           /\ pending[c] \in Seq(Ptrs) /\ Len(pending[c]) \in Nat /\ Len(pending[c]) = taken[c] - hashed[c]
           /\ \A i \in 1 .. Len(pending[c]) : hashed[c] + (i - 1) \in Nodes
<1>1. /\ hashed[c] \in Nat /\ taken[c] \in 0 .. NodeStop /\ hashed[c] <= taken[c]
      /\ pending[c] \in Seq(Ptrs) /\ Len(pending[c]) = taken[c] - hashed[c]
  BY DEF CInv, CursorTypes, OrderOK, EInv, PendingOK
<1>2. Len(pending[c]) \in Nat
  BY <1>1
<1>3. \A i \in 1 .. Len(pending[c]) : hashed[c] + (i - 1) \in Nodes
  BY <1>1, <1>2, Parameters DEF Nodes
<1> QED BY <1>1, <1>2, <1>3

(* A step that leaves what was taken alone *)
LEMMA FramePending ==
    ASSUME CInv, EInv, UNCHANGED <<graph, pending, taken, hashed>>, tailWrite' \in Nat,
           tailWrite <= tailWrite'
    PROVE  pending' \in [Coordinators -> Seq(Ptrs)] /\ PendingOK'
<1>1. graph \in Graphs /\ tailWrite \in Nat
  BY DEF CInv, BufferTypes, CursorTypes
<1>2. ASSUME NEW c \in Coordinators, NEW i \in 1 .. Len(pending[c])
      PROVE  GoodPtrs(hashed[c] + (i - 1), pending[c][i])'
  <2> DEFINE n == hashed[c] + (i - 1)
             ptrs == pending[c][i]
  <2>1. n \in Nodes
    BY PendingTypes
  <2>2. GoodPtrs(n, ptrs)
    BY DEF EInv, PendingOK
  <2>3. n' = n /\ ptrs' = ptrs
    OBVIOUS
  <2> HIDE DEF n, ptrs
  <2>4. PICK m, q : m = n /\ q = ptrs /\ m \in Nodes
    BY <2>1
  <2>5. GoodPtrs(m, q)'
    BY <1>1, <2>2, <2>4, GoodPtrsGrow
  <2>6. GoodPtrs(n, ptrs)'
    BY <2>3, <2>4, <2>5 DEF GoodPtrs, GoodPtr
  <2> QED BY <2>6 DEF n, ptrs
<1>3. PendingOK'
  BY <1>2 DEF EInv, PendingOK
<1> QED BY <1>3 DEF EInv

(* A step that leaves the entries alone, or the ones that stay in use *)
LEMMA FrameE ==
    ASSUME CInv, CInv', EInv, tailWrite <= tailWrite',
           UNCHANGED <<graph, parentIo, parentPtrs, parentBuf, readFifo, reading, headNode,
                       pending, taken, hashed>>,
           tailParents <= tailParents',
           \A n \in Entries : parentValid'[ParentSlot(n)] = parentValid[ParentSlot(n)]
    PROVE  EInv'
<1>0. graph \in Graphs /\ tailWrite \in Nat /\ tailWrite' \in Nat /\ tailParents \in Nat
      /\ tailParents' \in Nat /\ headNode \in Nat
  BY DEF CInv, BufferTypes, CursorTypes
<1>1. pending' \in [Coordinators -> Seq(Ptrs)] /\ PendingOK'
  BY <1>0, FramePending
<1>2. \A n \in Entries' : n \in Entries
  BY <1>0 DEF Entries
<1>3. OldestRequest' = OldestRequest /\ OldestRequest \in Nat
  BY EntryFacts DEF OldestRequest
<1>4. ASSUME NEW n \in Entries PROVE EntryOK(n)'
  <2>1. n \in Nodes /\ EntryOK(n)
    BY EntryFacts DEF EInv, EntriesOK
  <2>2. GoodPtrs(n, parentPtrs[ParentSlot(n)])'
    <3>1. PICK q : q = parentPtrs[ParentSlot(n)]
      OBVIOUS
    <3>2. GoodPtrs(n, q)
      BY <2>1, <3>1 DEF EntryOK
    <3>3. GoodPtrs(n, q)'
      BY <1>0, <2>1, <3>2, GoodPtrsGrow
    <3>4. parentPtrs'[ParentSlot(n)] = q
      BY <3>1
    <3> QED BY <3>3, <3>4 DEF GoodPtrs, GoodPtr
  <2> QED BY <1>3, <2>1, <2>2, FrameEntry
<1> QED BY <1>1, <1>2, <1>4 DEF EInv, EntriesOK

(* The actions that touch no entry *)
LEMMA OtherStepsKeepE ==
    ASSUME CInv, CInv', EInv,
           \/ \E c \in Coordinators : Sample(c) \/ Report(c)
           \/ NoReadBatch \/ WriteNodes \/ WriteDone \/ RetireNodes
           \/ IssueWrite \/ (\E s \in writing : WriteComplete(s)) \/ UNCHANGED vars
    PROVE  EInv'
<1>1. /\ UNCHANGED <<graph, parentIo, parentPtrs, parentBuf, readFifo, reading, headNode,
                     pending, taken, hashed>>
      /\ UNCHANGED <<tailWrite, tailParents, parentValid>>
  BY DEF Sample, Report, NoReadBatch, WriteNodes, WriteDone, RetireNodes,
         IssueWrite, WriteComplete, vars, orchVars, parentVars, ioVars, workerVars
<1>2. tailWrite \in Nat /\ tailParents \in Nat
  BY DEF CInv, CursorTypes
<1>3. tailWrite <= tailWrite' /\ tailParents <= tailParents'
  BY <1>1, <1>2
<1> QED BY <1>1, <1>3, FrameE

(* The slots reserved are those of no entry in use. *)
LEMMA ReserveBatchKeepsE == ASSUME CInv, CInv', EInv, ReserveBatch PROVE EInv'
<1>1. /\ UNCHANGED <<graph, parentIo, parentPtrs, parentBuf, readFifo, reading, headNode,
                     pending, taken, hashed, tailWrite, tailParents>>
      /\ headNode = reservedTo /\ reservedTo' = headNode + MaxBatch
      /\ parentValid' = [s \in DOMAIN parentValid |->
                           IF s \in {ParentSlot(n) : n \in headNode + 1 .. headNode + MaxBatch}
                             THEN 0 ELSE parentValid[s]]
  BY DEF ReserveBatch, ioVars, workerVars, CInv, OrderOK
<1>2. tailWrite \in Nat /\ tailParents \in Nat /\ headNode \in Nat /\ reservedTo' \in Nat
      /\ reservedTo' - tailParents <= ParentSlots - 1
  BY <1>1 DEF CInv, CursorTypes, SpaceOK
<1>3. ASSUME NEW n \in Entries PROVE parentValid'[ParentSlot(n)] = parentValid[ParentSlot(n)]
  <2>1. n \in Nat /\ ParentSlot(n) \in ParentRing
    BY EntryFacts
  <2>2. ASSUME NEW k \in headNode + 1 .. reservedTo' PROVE ParentSlot(n) # ParentSlot(k)
    <3>0. PICK to \in Nat : to = reservedTo' /\ to - tailParents <= ParentSlots - 1
      BY <1>2
    <3>2. k \in headNode + 1 .. to /\ n \in tailParents .. headNode - 1
      BY <2>2, <3>0 DEF Entries
    <3>3. k \in Nat /\ headNode < k /\ k <= to /\ tailParents <= n /\ n < headNode
      BY <1>2, <2>1, <3>2
    <3>1. k \in Nat /\ k # n /\ n < k + ParentSlots /\ k < n + ParentSlots
      <4>1. tailParents \in Nat /\ headNode \in Nat /\ to - tailParents <= ParentSlots - 1
        BY <1>2, <3>0
      <4> QED BY <2>1, <3>3, <4>1, Parameters
    <3> QED BY <2>1, <3>1, ParentSlotsApart
  <2> QED BY <1>1, <2>1, <2>2 DEF CInv, BufferTypes
<1>4. tailWrite <= tailWrite' /\ tailParents <= tailParents'
  BY <1>1, <1>2
<1> QED BY <1>1, <1>3, <1>4, FrameE

(* Fewer entries are in use. *)
LEMMA ReleaseParentsKeepsE == ASSUME CInv, CInv', EInv, ReleaseParents PROVE EInv'
<1>1. /\ UNCHANGED <<graph, parentIo, parentPtrs, parentBuf, parentValid, readFifo, reading, headNode,
                     pending, taken, hashed, tailWrite>>
      /\ \E k \in 0 .. ActionBatch : tailParents' = tailParents + k
  BY DEF ReleaseParents, parentVars, ioVars, workerVars
<1>2. tailWrite \in Nat /\ tailParents \in Nat
  BY DEF CInv, CursorTypes
<1>3. tailWrite <= tailWrite' /\ tailParents <= tailParents'
  BY <1>1, <1>2, Parameters
<1> QED BY <1>1, <1>3, FrameE

(* More is on disk. *)
LEMMA AdvanceWrittenKeepsE == ASSUME CInv, CInv', EInv, AdvanceWritten PROVE EInv'
<1>1. /\ UNCHANGED <<graph, parentIo, parentPtrs, parentBuf, parentValid, readFifo, reading, headNode,
                     pending, taken, hashed, tailParents>>
      /\ \E k \in 0 .. ActionBatch : tailWrite' = tailWrite + k * NodesPerPage
  BY DEF AdvanceWritten, parentVars, ioVars, workerVars
<1>2. tailWrite \in Nat /\ tailParents \in Nat
  BY DEF CInv, CursorTypes
<1>3. \A k \in 0 .. ActionBatch : k * NodesPerPage \in Nat
  BY Parameters, Multiples
<1>4. tailWrite <= tailWrite' /\ tailParents <= tailParents'
  BY <1>1, <1>2, <1>3
<1> QED BY <1>1, <1>4, FrameE

(* Good pointers do not depend on the other variables. *)
LEMMA SameGoodPtrs ==
    ASSUME graph' = graph, tailWrite' = tailWrite, NEW m, NEW q, GoodPtrs(m, q)
    PROVE  GoodPtrs(m, q)'
<1>1. \A j : Parent(m, j)' = Parent(m, j)
  BY DEF Parent
<1>2. \A p, x : GoodPtr(m, p, x)' = GoodPtr(m, p, x)
  BY DEF GoodPtr
<1>3. ASSUME NodeOf(m) # 0, NEW j \in Reads PROVE GoodPtr(m, Parent(m, j), q[j + 1])'
  <2>1. PICK p : p = Parent(m, j)
    OBVIOUS
  <2>2. GoodPtr(m, p, q[j + 1])'
    BY <1>2, <1>3, <2>1 DEF GoodPtrs
  <2> QED BY <1>1, <2>1, <2>2 DEF GoodPtr
<1> QED BY <1>3 DEF GoodPtrs

(* A step that leaves all entries alone *)
LEMMA FrameEntries ==
    ASSUME EInv,
           UNCHANGED <<graph, parentIo, parentPtrs, parentBuf, parentValid, readFifo, reading,
                       headNode, tailWrite, tailParents>>
    PROVE  EntriesOK'
<1>1. Entries' = Entries /\ OldestRequest' = OldestRequest
  BY DEF Entries, OldestRequest
<1>2. ASSUME NEW m \in Entries PROVE EntryOK(m)'
  <2>1. EntryOK(m)
    BY DEF EInv, EntriesOK
  <2>2. InFlight(m)' = InFlight(m)
    BY <1>1 DEF InFlight, InDrive
  <2>3. \A j : ReadOK(m, j) => ReadOK(m, j)'
    BY <2>2 DEF ReadOK, Parent
  <2>4. GoodPtrs(m, parentPtrs[ParentSlot(m)])'
    <3>1. PICK q : q = parentPtrs[ParentSlot(m)]
      OBVIOUS
    <3>2. GoodPtrs(m, q)'
      BY <2>1, <3>1, SameGoodPtrs DEF EntryOK
    <3> QED BY <3>1, <3>2 DEF GoodPtrs, GoodPtr
  <2> QED BY <1>1, <2>1, <2>2, <2>3, <2>4 DEF EntryOK
<1> QED BY <1>1, <1>2 DEF EntriesOK

(* The entry taken is the next one, and its pointers are good. *)
LEMMA TakeKeepsE == ASSUME CInv, CInv', EInv, NEW c \in Coordinators, Take(c) PROVE EInv'
<1> DEFINE n == taken[c]
           ptrs == parentPtrs[ParentSlot(n)]
<1>0. /\ UNCHANGED <<graph, parentIo, parentPtrs, parentBuf, parentValid, readFifo, reading, headNode,
                     hashed, tailWrite, tailParents>>
      /\ pending' = [pending EXCEPT ![c] = Append(@, ptrs)]
      /\ taken' = [taken EXCEPT ![c] = @ + 1] /\ CanTake(c)
  BY DEF Take, orchVars, parentVars, ioVars
<1>1. n \in Entries /\ n \in Nat /\ ParentSlot(n) \in ParentRing
  <2>1. n \in Nat /\ n < headNode
    BY <1>0, TakenBelowHead
  <2>2. /\ tailParents <= reported[c] /\ reported[c] <= hashed[c] /\ hashed[c] <= n
        /\ tailParents \in Nat /\ reported[c] \in Nat /\ hashed[c] \in Nat /\ headNode \in Nat
    BY DEF CInv, CursorTypes, OrderOK
  <2> HIDE DEF n
  <2> QED BY <2>1, <2>2, SlotFacts DEF Entries
<1>2. GoodPtrs(n, ptrs) /\ ptrs \in Ptrs
  BY <1>1 DEF EInv, EntriesOK, EntryOK, CInv, BufferTypes
<1> HIDE DEF ptrs
<1>3. \A m, q : GoodPtrs(m, q) => GoodPtrs(m, q)'
  BY <1>0, SameGoodPtrs
<1>4. /\ pending[c] \in Seq(Ptrs) /\ Len(pending[c]) \in Nat /\ pending'[c] = Append(pending[c], ptrs)
      /\ Len(pending[c]) = taken[c] - hashed[c] /\ taken'[c] = taken[c] + 1
      /\ taken[c] \in Nat /\ hashed[c] \in Nat
  <2>1. /\ pending \in [Coordinators -> Seq(Ptrs)] /\ taken \in [Coordinators -> 0 .. NodeStop]
        /\ hashed[c] \in Nat
    <3>1. taken \in [Coordinators -> 0 .. NodeStop] /\ hashed \in [Coordinators -> 0 .. NodeStop]
      BY DEF CInv, CursorTypes
    <3>2. hashed[c] \in Nat
      BY <3>1, Parameters
    <3> QED BY <3>1, <3>2 DEF EInv
  <2>2. pending[c] \in Seq(Ptrs) /\ pending'[c] = Append(pending[c], ptrs)
    BY <1>0, <2>1
  <2>3. taken'[c] = taken[c] + 1 /\ taken[c] \in Nat
    BY <1>0, <2>1
  <2>4. Len(pending[c]) \in Nat /\ Len(pending[c]) = taken[c] - hashed[c]
    BY PendingTypes
  <2> QED BY <2>1, <2>2, <2>3, <2>4
<1>5. /\ pending'[c] \in Seq(Ptrs) /\ Len(pending'[c]) = Len(pending[c]) + 1
      /\ \A i \in 1 .. Len(pending[c]) : pending'[c][i] = pending[c][i]
      /\ pending'[c][Len(pending[c]) + 1] = ptrs
  <2>1. PICK q \in Seq(Ptrs) : q = pending[c]
    BY <1>4
  <2>2. /\ Append(q, ptrs) \in Seq(Ptrs) /\ Len(Append(q, ptrs)) = Len(q) + 1
        /\ \A i \in 1 .. Len(q) : Append(q, ptrs)[i] = q[i]
        /\ Append(q, ptrs)[Len(q) + 1] = ptrs
    BY <1>2
  <2> QED BY <1>4, <2>1, <2>2
<1>6. pending' \in [Coordinators -> Seq(Ptrs)]
  BY <1>0, <1>4, <1>5 DEF EInv
<1>7. ASSUME NEW d \in Coordinators
      PROVE  /\ Len(pending'[d]) = taken'[d] - hashed[d]
             /\ \A i \in 1 .. Len(pending'[d]) : GoodPtrs(hashed[d] + (i - 1), pending'[d][i])
  <2>1. CASE d # c
    <3>1. pending'[d] = pending[d] /\ taken'[d] = taken[d]
      BY <1>0, <2>1 DEF EInv, CInv, CursorTypes
    <3> QED BY <3>1 DEF EInv, PendingOK
  <2>2. CASE d = c
    <3>1. Len(pending'[c]) = taken'[c] - hashed[c]
      <4> HIDE DEF n
      <4> QED BY <1>4, <1>5
    <3>2. ASSUME NEW i \in 1 .. Len(pending'[c])
          PROVE  GoodPtrs(hashed[c] + (i - 1), pending'[c][i])
      <4>1. CASE i \in 1 .. Len(pending[c])
        BY <1>5, <4>1 DEF EInv, PendingOK
      <4>2. CASE i = Len(pending[c]) + 1
        <5>1. hashed[c] + (i - 1) = n
          BY <1>4, <4>2
        <5> QED BY <1>2, <1>5, <4>2, <5>1
      <4>3. i \in 1 .. Len(pending[c]) \/ i = Len(pending[c]) + 1
        BY <1>4, <1>5
      <4> QED BY <4>1, <4>2, <4>3
    <3> QED BY <2>2, <3>1, <3>2
  <2> QED BY <2>1, <2>2
<1>8. PendingOK'
  <2> SUFFICES ASSUME NEW d \in Coordinators
               PROVE  /\ Len(pending'[d]) = taken'[d] - hashed'[d]
                      /\ \A i \in 1 .. Len(pending'[d]) :
                            GoodPtrs(hashed[d] + (i - 1), pending[d][i])'
    BY DEF PendingOK
  <2>1. ASSUME NEW i \in 1 .. Len(pending'[d])
        PROVE  GoodPtrs(hashed[d] + (i - 1), pending[d][i])'
    <3>1. PICK m, q : m = hashed[d] + (i - 1) /\ q = pending'[d][i]
      OBVIOUS
    <3>2. GoodPtrs(m, q)
      BY <1>7, <3>1
    <3>3. GoodPtrs(m, q)'
      BY <1>3, <3>2
    <3>4. hashed'[d] + (i - 1) = m
      BY <1>0, <3>1
    <3> QED BY <3>1, <3>3, <3>4 DEF GoodPtrs, GoodPtr
  <2> QED BY <1>0, <1>7, <2>1
<1>9. EntriesOK'
  BY <1>0, FrameEntries
<1> QED BY <1>6, <1>8, <1>9 DEF EInv

(* The node hashed is the first of those taken. *)
LEMMA HashNodeKeepsE == ASSUME CInv, CInv', EInv, NEW c \in Coordinators, HashNode(c) PROVE EInv'
<1>0. /\ UNCHANGED <<graph, parentIo, parentPtrs, parentBuf, parentValid, readFifo, reading, headNode,
                     taken, tailWrite, tailParents>>
      /\ pending' = [pending EXCEPT ![c] = Tail(@)]
      /\ hashed' = [hashed EXCEPT ![c] = @ + 1] /\ hashed[c] < taken[c]
  BY DEF HashNode, orchVars, parentVars, ioVars
<1>1. /\ pending[c] \in Seq(Ptrs) /\ Len(pending[c]) \in Nat /\ pending'[c] = Tail(pending[c])
      /\ Len(pending[c]) = taken[c] - hashed[c] /\ hashed'[c] = hashed[c] + 1
      /\ taken[c] \in Nat /\ hashed[c] \in Nat /\ Len(pending[c]) > 0
  <2>1. /\ pending \in [Coordinators -> Seq(Ptrs)] /\ hashed \in [Coordinators -> 0 .. NodeStop]
        /\ taken[c] \in Nat
    <3>1. hashed \in [Coordinators -> 0 .. NodeStop] /\ taken \in [Coordinators -> 0 .. NodeStop]
      BY DEF CInv, CursorTypes
    <3>2. taken[c] \in Nat
      BY <3>1, Parameters
    <3> QED BY <3>1, <3>2 DEF EInv
  <2>2. pending[c] \in Seq(Ptrs) /\ pending'[c] = Tail(pending[c])
    BY <1>0, <2>1
  <2>3. hashed'[c] = hashed[c] + 1 /\ hashed[c] \in Nat
    BY <1>0, <2>1
  <2>4. Len(pending[c]) \in Nat /\ Len(pending[c]) = taken[c] - hashed[c]
    BY PendingTypes
  <2>5. Len(pending[c]) > 0
    BY <1>0, <2>1, <2>3, <2>4
  <2> QED BY <2>1, <2>2, <2>3, <2>4, <2>5
<1>2. /\ pending'[c] \in Seq(Ptrs) /\ Len(pending'[c]) = Len(pending[c]) - 1
      /\ \A i \in 1 .. Len(pending'[c]) : pending'[c][i] = pending[c][i + 1]
  <2>1. PICK q \in Seq(Ptrs) : q = pending[c] /\ Len(q) > 0
    BY <1>1
  <2>2. /\ Tail(q) \in Seq(Ptrs) /\ Len(Tail(q)) = Len(q) - 1
        /\ \A i \in 1 .. Len(Tail(q)) : Tail(q)[i] = q[i + 1]
    BY <2>1
  <2> QED BY <1>1, <2>1, <2>2
<1>3. pending' \in [Coordinators -> Seq(Ptrs)]
  BY <1>0, <1>1, <1>2 DEF EInv
<1>4. \A m, q : GoodPtrs(m, q) => GoodPtrs(m, q)'
  BY <1>0, SameGoodPtrs
<1>5. ASSUME NEW d \in Coordinators
      PROVE  /\ Len(pending'[d]) = taken[d] - hashed'[d]
             /\ \A i \in 1 .. Len(pending'[d]) : GoodPtrs(hashed'[d] + (i - 1), pending'[d][i])
  <2>1. CASE d # c
    <3>1. pending'[d] = pending[d] /\ hashed'[d] = hashed[d]
      BY <1>0, <2>1 DEF EInv, CInv, CursorTypes
    <3> QED BY <3>1 DEF EInv, PendingOK
  <2>2. CASE d = c
    <3>1. Len(pending'[c]) = taken[c] - hashed'[c]
      BY <1>1, <1>2
    <3>2. ASSUME NEW i \in 1 .. Len(pending'[c])
          PROVE  GoodPtrs(hashed'[c] + (i - 1), pending'[c][i])
      <4>1. i \in Nat /\ i + 1 \in 1 .. Len(pending[c]) /\ pending'[c][i] = pending[c][i + 1]
        BY <1>1, <1>2
      <4>2. GoodPtrs(hashed[c] + ((i + 1) - 1), pending[c][i + 1])
        BY <4>1 DEF EInv, PendingOK
      <4>3. hashed[c] + ((i + 1) - 1) = hashed'[c] + (i - 1)
        BY <1>1, <4>1
      <4> QED BY <4>1, <4>2, <4>3
    <3> QED BY <2>2, <3>1, <3>2
  <2> QED BY <2>1, <2>2
<1>8. PendingOK'
  <2> SUFFICES ASSUME NEW d \in Coordinators
               PROVE  /\ Len(pending'[d]) = taken'[d] - hashed'[d]
                      /\ \A i \in 1 .. Len(pending'[d]) :
                            GoodPtrs(hashed[d] + (i - 1), pending[d][i])'
    BY DEF PendingOK
  <2>1. ASSUME NEW i \in 1 .. Len(pending'[d])
        PROVE  GoodPtrs(hashed[d] + (i - 1), pending[d][i])'
    <3>1. PICK m, q : m = hashed'[d] + (i - 1) /\ q = pending'[d][i]
      OBVIOUS
    <3>2. GoodPtrs(m, q)
      BY <1>5, <3>1
    <3>3. GoodPtrs(m, q)'
      BY <1>4, <3>2
    <3> QED BY <3>1, <3>3 DEF GoodPtrs, GoodPtr
  <2> QED BY <1>0, <1>5, <2>1
<1>9. EntriesOK'
  BY <1>0, FrameEntries
<1> QED BY <1>3, <1>8, <1>9 DEF EInv

(* The reads of the oldest request are now with the drive. *)
LEMMA IssueReadsKeepsE == ASSUME CInv, CInv', EInv, IssueReads PROVE EInv'
<1>a. PICK o \in Nat : o = OldestRequest
  BY EntryFacts
<1>b. PICK slot : slot = Head(readFifo)
  OBVIOUS
<1>0. /\ UNCHANGED <<graph, parentIo, parentPtrs, parentBuf, parentValid, headNode,
                     pending, taken, hashed, tailWrite, tailParents>>
      /\ reading' = reading \cup
           {[slot |-> slot, j |-> j, node |-> parentIo[slot][j].node] :
              j \in {i \in Reads : parentIo[slot][i].type = "read"}}
      /\ readFifo \in Seq(ParentRing) /\ readFifo # <<>> /\ readFifo' = Tail(readFifo)
  BY <1>b DEF IssueReads, orchVars, parentVars, workerVars, CInv, BufferTypes
<1>1. /\ OldestRequest' = o + 1 /\ o < headNode /\ slot = ParentSlot(o)
      /\ headNode \in Nat /\ tailParents \in Nat /\ reservedTo \in Nat /\ headNode <= reservedTo
      /\ reservedTo - o <= FifoDepth
  <2>1. Len(readFifo) \in Nat /\ Len(readFifo) > 0 /\ Len(readFifo') = Len(readFifo) - 1
        /\ slot = readFifo[1]
    BY <1>0, <1>b
  <2>2. /\ headNode \in Nat /\ tailParents \in Nat /\ reservedTo \in Nat /\ headNode <= reservedTo
    BY EntryFacts
  <2>3. o = headNode - Len(readFifo)
    BY <1>a DEF OldestRequest
  <2>4. OldestRequest' = headNode - Len(readFifo')
    BY <1>0 DEF OldestRequest
  <2>5. reservedTo - o <= FifoDepth /\ readFifo[1] = ParentSlot(o + 1 - 1)
    BY <1>a, <2>1 DEF CInv, FifoOK
  <2>6. o + 1 - 1 = o
    OBVIOUS
  <2> QED BY <2>1, <2>2, <2>3, <2>4, <2>5, <2>6
<1>2. pending' \in [Coordinators -> Seq(Ptrs)] /\ PendingOK'
  <2>1. tailWrite \in Nat
    BY DEF CInv, CursorTypes
  <2>2. tailWrite' \in Nat /\ tailWrite <= tailWrite'
    BY <1>0, <2>1
  <2> QED BY <1>0, <2>2, FramePending
<1>c. ASSUME NEW n \in Entries PROVE GoodPtrs(n, parentPtrs[ParentSlot(n)])'
  <2>1. PICK q : q = parentPtrs[ParentSlot(n)]
    OBVIOUS
  <2>2. GoodPtrs(n, q)
    BY <2>1 DEF EInv, EntriesOK, EntryOK
  <2>3. GoodPtrs(n, q)'
    BY <1>0, <2>2, SameGoodPtrs
  <2> QED BY <1>0, <2>1, <2>3 DEF GoodPtrs, GoodPtr
<1>3. ASSUME NEW n \in Entries, n # o PROVE EntryOK(n)'
  <2>1. n \in Nat /\ ParentSlot(n) # slot
    <3>1. n \in Nat /\ tailParents <= n /\ n < headNode
      BY <1>1, EntryFacts DEF Entries
    <3>2. reservedTo - tailParents <= ParentSlots - 1
      BY EntryFacts
    <3>3. n < o + ParentSlots /\ o < n + ParentSlots
      BY <1>1, <3>1, <3>2, Parameters
    <3> QED BY <1>1, <1>3, <3>1, <3>3, ParentSlotsApart
  <2>2. \A r : r.slot = ParentSlot(n) => (r \in reading <=> r \in reading')
    BY <1>0, <2>1
  <2>3. n < OldestRequest <=> n < OldestRequest'
    <3>1. n < o <=> n < o + 1
      BY <1>3, <2>1
    <3> QED BY <1>a, <1>1, <3>1
  <2>4. OldestRequest' \in Nat
    BY <1>1
  <2>5. EntryOK(n)
    BY DEF EInv, EntriesOK
  <2> QED BY <1>0, <1>c, <2>2, <2>3, <2>4, <2>5, FrameEntry
<1>4. ASSUME o \in Entries PROVE EntryOK(o)'
  <2>0. EntryOK(o) /\ o \in Nodes /\ slot \in ParentRing
    BY <1>1, <1>4, EntryFacts DEF EInv, EntriesOK
  <2>1. GoodPtrs(o, parentPtrs[ParentSlot(o)])'
    BY <1>4, <1>c
  <2>2. SUFFICES ASSUME NodeOf(o) # 0
                 PROVE  /\ parentValid'[slot] = PageBatch - Cardinality(InFlight(o)')
                        /\ \A r \in reading' : r.slot = slot =>
                              o < OldestRequest' /\ parentIo'[slot][r.j] = Read(r.node)
                        /\ \A j \in Reads : ReadOK(o, j)'
    BY <1>1, <2>1 DEF EntryOK
  <2>3. \A j \in Reads : parentIo[slot][j].type = "read" => InDrive(o, j)'
    <3> SUFFICES ASSUME NEW j \in Reads, parentIo[slot][j].type = "read" PROVE InDrive(o, j)'
      OBVIOUS
    <3>1. PICK r : r = [slot |-> slot, j |-> j, node |-> parentIo[slot][j].node]
      OBVIOUS
    <3>2. r \in reading'
      BY <1>0, <3>1
    <3>3. r.slot = slot /\ r.j = j
      BY <3>1
    <3> QED BY <1>1, <3>2, <3>3 DEF InDrive
  <2>4. InFlight(o)' = InFlight(o)
    <3>1. o >= OldestRequest
      BY <1>a
    <3> QED BY <1>0, <1>1, <2>3, <3>1 DEF InFlight
  <2>5. \A j : Parent(o, j)' = Parent(o, j)
    BY <1>0 DEF Parent
  <2>6. \A j \in Reads : ReadOK(o, j)'
    BY <1>0, <2>0, <2>2, <2>4, <2>5 DEF EntryOK, ReadOK
  <2>7. ASSUME NEW r \in reading', r.slot = slot
        PROVE  o < OldestRequest' /\ parentIo'[slot][r.j] = Read(r.node)
    <3>1. o < OldestRequest'
      BY <1>1
    <3>2. CASE r \in reading
      <4>1. o < OldestRequest
        BY <1>1, <2>0, <2>2, <2>7, <3>2 DEF EntryOK
      <4> QED BY <1>a, <4>1
    <3>3. CASE r \notin reading
      <4>1. PICK j \in Reads : /\ parentIo[slot][j].type = "read"
                               /\ r = [slot |-> slot, j |-> j, node |-> parentIo[slot][j].node]
        BY <1>0, <3>3
      <4>2. parentIo[slot][j] \in Descriptors
        BY <2>0 DEF CInv, BufferTypes
      <4>3. parentIo[slot][j] = [type |-> "read", node |-> parentIo[slot][j].node]
        BY <4>1, <4>2 DEF Descriptors
      <4>4. r.j = j /\ r.node = parentIo[slot][j].node
        BY <4>1
      <4> QED BY <1>0, <3>1, <4>3, <4>4 DEF Read
    <3> QED BY <3>2, <3>3
  <2>8. parentValid'[slot] = PageBatch - Cardinality(InFlight(o)')
    BY <1>0, <1>1, <2>0, <2>2, <2>4 DEF EntryOK
  <2> QED BY <2>6, <2>7, <2>8
<1>5. EntriesOK'
  <2>1. Entries' = Entries
    BY <1>0 DEF Entries
  <2> QED BY <1>3, <1>4, <2>1 DEF EntriesOK
<1> QED BY <1>2, <1>5 DEF EInv

(* The page read was written before, so the parent's label arrives with it; one *)
(* read less is out.                                                            *)
LEMMA ReadCompleteKeepsE ==
    ASSUME CInv, CInv', WInv, EInv, NEW r \in reading, ReadComplete(r) PROVE EInv'
<1>0. /\ UNCHANGED <<graph, parentIo, parentPtrs, readFifo, headNode,
                     pending, taken, hashed, tailWrite, tailParents>>
      /\ reading' = reading \ {r}
      /\ parentBuf' = [parentBuf EXCEPT ![r.slot][r.j] = disk[PageOf(r.node)]]
      /\ parentValid' = [parentValid EXCEPT ![r.slot] = @ + 1]
  BY DEF ReadComplete, orchVars, workerVars
<1>1. reading \subseteq Requests /\ r.slot \in ParentRing /\ r.j \in Reads /\ r.node \in Nodes
  BY DEF CInv, BufferTypes, Requests
<1>2. pending' \in [Coordinators -> Seq(Ptrs)] /\ PendingOK'
  <2>1. tailWrite \in Nat
    BY DEF CInv, CursorTypes
  <2>2. tailWrite' \in Nat /\ tailWrite <= tailWrite'
    BY <1>0, <2>1
  <2> QED BY <1>0, <2>2, FramePending
<1>c. ASSUME NEW n \in Entries PROVE GoodPtrs(n, parentPtrs[ParentSlot(n)])'
  <2>1. PICK q : q = parentPtrs[ParentSlot(n)]
    OBVIOUS
  <2>2. GoodPtrs(n, q)
    BY <2>1 DEF EInv, EntriesOK, EntryOK
  <2>3. GoodPtrs(n, q)'
    BY <1>0, <2>2, SameGoodPtrs
  <2> QED BY <1>0, <2>1, <2>3 DEF GoodPtrs, GoodPtr
<1>d. OldestRequest' = OldestRequest /\ OldestRequest \in Nat
  BY <1>0, EntryFacts DEF OldestRequest
<1>3. ASSUME NEW n \in Entries, ParentSlot(n) # r.slot PROVE EntryOK(n)'
  <2>1. \A x : x.slot = ParentSlot(n) => (x \in reading <=> x \in reading')
    BY <1>0, <1>3
  <2>2. ParentSlot(n) \in ParentRing /\ EntryOK(n)
    BY EntryFacts DEF EInv, EntriesOK
  <2>3. parentValid'[ParentSlot(n)] = parentValid[ParentSlot(n)]
    BY <1>0, <1>3, <2>2 DEF CInv, BufferTypes
  <2>4. parentBuf'[ParentSlot(n)] = parentBuf[ParentSlot(n)]
    BY <1>0, <1>3, <2>2 DEF CInv, BufferTypes
  <2> QED BY <1>0, <1>c, <1>d, <2>1, <2>2, <2>3, <2>4, FrameEntry
<1>4. ASSUME NEW n \in Entries, ParentSlot(n) = r.slot PROVE EntryOK(n)'
  <2> DEFINE s == ParentSlot(n)
  <2>0. EntryOK(n) /\ n \in Nodes /\ n \in Nat /\ s \in ParentRing
    BY EntryFacts DEF EInv, EntriesOK
  <2>1. GoodPtrs(n, parentPtrs[s])'
    BY <1>4, <1>c
  <2>2. SUFFICES ASSUME NodeOf(n) # 0
                 PROVE  /\ parentValid'[s] = PageBatch - Cardinality(InFlight(n)')
                        /\ \A x \in reading' : x.slot = s =>
                              n < OldestRequest' /\ parentIo'[s][x.j] = Read(x.node)
                        /\ \A j \in Reads : ReadOK(n, j)'
    BY <2>1 DEF EntryOK
  <2>3. n < OldestRequest /\ parentIo[s][r.j] = Read(r.node)
    BY <1>4, <2>0, <2>2 DEF EntryOK
  <2>4. /\ parentPtrs[s][r.j + 1].to = "parent" /\ r.node = Parent(n, r.j)
        /\ parentIo[s][r.j].type = "read"
    <3>1. ReadOK(n, r.j)
      BY <1>1, <2>0, <2>2 DEF EntryOK
    <3>2. parentIo[s][r.j].type = "read" /\ parentIo[s][r.j].node = r.node
      BY <2>3, PtrFields
    <3>3. parentIo[s][r.j] # Nop
      BY <3>2, PtrFields
    <3>4. parentPtrs[s][r.j + 1].to = "parent" /\ parentIo[s][r.j] = Read(Parent(n, r.j))
      BY <3>1, <3>3 DEF ReadOK
    <3> QED BY <3>2, <3>4, PtrFields
  <2>5. r.node < tailWrite
    <3>1. GoodPtr(n, Parent(n, r.j), parentPtrs[s][r.j + 1])
      BY <1>1, <2>0, <2>2 DEF EntryOK, GoodPtrs
    <3> QED BY <2>4, <3>1, PtrFields DEF GoodPtr
  <2>6. \A c \in Coordinators : disk[PageOf(r.node)][c][PlaceOf(r.node)] = r.node
    <3>1. r.node \in Nat
      BY <1>1, Parameters DEF Nodes
    <3> QED BY <2>5, <3>1, WrittenIsOnDisk
  <2>7. \A x \in reading : x.slot = s /\ x.j = r.j => x = r
    <3> SUFFICES ASSUME NEW x \in reading, x.slot = s, x.j = r.j PROVE x = r
      OBVIOUS
    <3>1. parentIo[s][x.j] = Read(x.node)
      BY <2>0, <2>2 DEF EntryOK
    <3>2. x.node = r.node
      BY <2>3, <3>1, PtrFields
    <3>3. x \in Requests /\ r \in Requests
      BY <1>1
    <3> QED BY <1>4, <3>2, <3>3 DEF Requests
  <2>8. InFlight(n)' = InFlight(n) \ {r.j} /\ r.j \in InFlight(n)
    <3>1. \A j \in Reads : InDrive(n, j)' <=> InDrive(n, j) /\ j # r.j
      BY <1>0, <1>4, <2>7 DEF InDrive
    <3>2. InDrive(n, r.j)
      BY <1>4 DEF InDrive
    <3>3. ~(n >= OldestRequest) /\ ~(n >= OldestRequest')
      BY <1>d, <2>0, <2>3
    <3>4. InFlight(n)' = {j \in Reads : parentIo[s][j].type = "read" /\ InDrive(n, j)'}
      BY <1>0, <3>3 DEF InFlight
    <3>5. InFlight(n) = {j \in Reads : parentIo[s][j].type = "read" /\ InDrive(n, j)}
      BY <3>3 DEF InFlight
    <3> QED BY <1>1, <2>4, <3>1, <3>2, <3>4, <3>5
  <2>9. Cardinality(InFlight(n)') = Cardinality(InFlight(n)) - 1 /\ Cardinality(InFlight(n)) \in Nat
    <3>1. InFlight(n) \subseteq 0 .. PageBatch - 1
      BY DEF InFlight, Reads
    <3>2. IsFiniteSet(InFlight(n)) /\ Cardinality(InFlight(n)) \in Nat
      BY <3>1, SubsetCard, Parameters
    <3> QED BY <2>8, <3>2, FS_RemoveElement
  <2>10. parentValid'[s] = PageBatch - Cardinality(InFlight(n)')
    <3>1. parentValid'[s] = parentValid[s] + 1
      BY <1>0, <1>4, <2>0 DEF CInv, BufferTypes
    <3>2. parentValid[s] = PageBatch - Cardinality(InFlight(n))
      BY <2>0, <2>2 DEF EntryOK
    <3> HIDE DEF s
    <3> QED BY <2>9, <3>1, <3>2, Parameters
  <2>11. ASSUME NEW x \in reading', x.slot = s
         PROVE  n < OldestRequest' /\ parentIo'[s][x.j] = Read(x.node)
    BY <1>0, <1>d, <2>0, <2>2, <2>11 DEF EntryOK
  <2>12. ASSUME NEW j \in Reads PROVE ReadOK(n, j)'
    <3>0. ReadOK(n, j)
      BY <2>0, <2>2 DEF EntryOK
    <3>1. Parent(n, j)' = Parent(n, j)
      BY <1>0 DEF Parent
    <3>2. parentBuf \in [ParentRing -> [Reads -> Content]]
      BY DEF CInv, BufferTypes
    <3>3. CASE j = r.j
      <4>1. parentBuf'[s][j] = disk[PageOf(r.node)]
        BY <1>0, <1>1, <1>4, <3>2, <3>3
      <4>2. parentPtrs'[s][j + 1].to = "parent" /\ parentIo'[s][j] = Read(Parent(n, j))
        BY <1>0, <2>3, <2>4, <3>3
      <4>3. \A c \in Coordinators : parentBuf'[s][j][c][PlaceOf(Parent(n, j))] = Parent(n, j)
        BY <2>4, <2>6, <3>3, <4>1
      <4> QED BY <3>1, <4>2, <4>3 DEF ReadOK
    <3>4. CASE j # r.j
      <4>1. parentBuf'[s][j] = parentBuf[s][j]
        BY <1>0, <1>1, <1>4, <3>2, <3>4
      <4>2. j \in InFlight(n)' <=> j \in InFlight(n)
        BY <2>8, <3>4
      <4> QED BY <1>0, <3>0, <3>1, <4>1, <4>2 DEF ReadOK
    <3> QED BY <3>3, <3>4
  <2> QED BY <2>10, <2>11, <2>12
<1>5. EntriesOK'
  <2>1. Entries' = Entries
    BY <1>0 DEF Entries
  <2> QED BY <1>3, <1>4, <2>1 DEF EntriesOK
<1> QED BY <1>2, <1>5 DEF EInv

(* The pointers that read_batch sets up for a node lead to its parents. *)
LEMMA NewPtrsAreGood ==
    ASSUME CInv, opc = "prepare", NEW n \in Nodes, n = headNode
    PROVE  GoodPtrs(n, NewPtrs)
<1> SUFFICES ASSUME NodeOf(n) # 0
             PROVE  /\ NewPtrs[0] = NodePtr(NodeSlot(n - 1), PlaceOf(n - 1), TRUE)
                    /\ \A j \in Reads : GoodPtr(n, Parent(n, j), NewPtrs[j + 1])
  BY DEF GoodPtrs
<1>1. n \in Nat /\ n # 0 /\ FirstRead(n) = 0
  <2>1. NodeOf(0) = 0
    BY Parameters DEF NodeOf
  <2> QED BY <2>1, Parameters DEF Nodes, FirstRead
<1>2. NewPtrs[0] = NodePtr(NodeSlot(n - 1), PlaceOf(n - 1), TRUE)
  <2>1. 0 \in 0 .. PageBatch
    BY Parameters
  <2> QED BY <2>1 DEF NewPtrs, PtrFor
<1>3. ASSUME NEW j \in Reads PROVE GoodPtr(n, Parent(n, j), NewPtrs[j + 1])
  <2>0. PICK p \in 0 .. n - 1 : p = Parent(n, j)
    BY ParentBefore DEF CInv, BufferTypes
  <2>1. p \in Nat /\ p < n /\ j \in Nat /\ j + 1 \in 0 .. PageBatch /\ j + 1 # 0 /\ (j + 1) - 1 = j
        /\ ~(j < 0)
    BY <1>1, Parameters DEF Reads
  <2>2. NewPtrs[j + 1] = IF UseCache(p) THEN NodePtr(CacheSlot(p), PlaceOf(p), IsLocal(n, p))
                                        ELSE ParentPtr(PlaceOf(p))
    <3>1. NewPtrs[j + 1] = PtrFor(n, j + 1)
      BY <2>1 DEF NewPtrs
    <3>2. ~((j + 1) - 1 < FirstRead(n)) /\ Parent(n, (j + 1) - 1) = p
      BY <1>1, <2>0, <2>1
    <3> QED BY <2>1, <3>1, <3>2 DEF PtrFor
  <2>3. CASE UseCache(p)
    <3>1. CacheSlot(p) = NodeSlot(p) /\ cacheMin <= p
      BY <2>1, <2>3, CacheSlotIsNodeSlot
    <3>2. n <= p + Lap
      <4>1. cacheMin = First(PageOf(tailNode)) /\ n < reservedTo /\ cacheMin \in Nat /\ reservedTo \in Nat
        BY DEF CInv, SpaceOK, OrderOK, CursorTypes
      <4>2. /\ LastPage \in Nat /\ PageOf(tailNode) \in Nat
            /\ LastPage - PageOf(tailNode) <= NodeSlots - 1 /\ reservedTo = First(LastPage)
        BY PageCursors
      <4>3. reservedTo + NodesPerPage <= cacheMin + Lap /\ Lap \in Nat
        BY <4>1, <4>2, LapFacts
      <4> QED BY <1>1, <2>1, <3>1, <4>1, <4>3, Parameters
    <3> QED BY <2>0, <2>2, <2>3, <3>1, <3>2 DEF GoodPtr
  <2>4. CASE ~UseCache(p)
    <3>1. p < tailWrite
      <4>1. cacheable \in Nat /\ cacheable <= tailWrite /\ tailWrite \in Nat
        BY DEF CInv, SpaceOK, CursorTypes
      <4> QED BY <2>1, <2>4, <4>1 DEF UseCache
    <3> QED BY <2>0, <2>2, <2>4, <3>1 DEF GoodPtr
  <2> QED BY <2>3, <2>4
<1> QED BY <1>2, <1>3

(* A new entry: all its reads are out. *)
LEMMA PrepareNodeKeepsE == ASSUME CInv, CInv', EInv, PrepareNode PROVE EInv'
<1>a. PICK n \in Nat : n = headNode
  BY EntryFacts
<1>b. PICK slot : slot = ParentSlot(n)
  OBVIOUS
<1>0. /\ UNCHANGED <<graph, parentBuf, reading, pending, taken, hashed, tailWrite, tailParents, reservedTo>>
      /\ opc = "prepare" /\ headNode' = n + 1
      /\ parentPtrs' = [parentPtrs EXCEPT ![slot] = NewPtrs]
      /\ parentIo' = [parentIo EXCEPT ![slot] =
           [j \in Reads |->
              IF j \notin Used(n) THEN parentIo[slot][j]
              ELSE IF j \in NewReads THEN Read(Parent(n, j)) ELSE Nop]]
      /\ parentValid' = [parentValid EXCEPT ![slot] = @ + PageBatch - Cardinality(NewReads)]
      /\ readFifo' = IF n = 0 THEN readFifo ELSE Append(readFifo, slot)
  BY <1>a, <1>b, PrepareEffect DEF workerVars
<1>1. n \in Nodes /\ slot \in ParentRing /\ n < reservedTo
  <2>1. n < reservedTo /\ reservedTo \in 0 .. NodeStop
    BY <1>0, <1>a DEF CInv, OrderOK, CursorTypes
  <2> QED BY <1>b, <2>1, SlotFacts, Parameters DEF Nodes
<1>2. pending' \in [Coordinators -> Seq(Ptrs)] /\ PendingOK'
  <2>1. tailWrite \in Nat
    BY DEF CInv, CursorTypes
  <2>2. tailWrite' \in Nat /\ tailWrite <= tailWrite'
    BY <1>0, <2>1
  <2> QED BY <1>0, <2>2, FramePending
<1>d. n # 0 => OldestRequest' = OldestRequest
  <2> SUFFICES ASSUME n # 0 PROVE OldestRequest' = OldestRequest
    OBVIOUS
  <2>1. readFifo \in Seq(ParentRing) /\ readFifo' = Append(readFifo, slot)
    BY <1>0 DEF CInv, BufferTypes
  <2>2. Len(readFifo') = Len(readFifo) + 1 /\ Len(readFifo) \in Nat
    BY <1>1, <2>1
  <2> QED BY <1>0, <1>a, <2>2 DEF OldestRequest
<1>e. OldestRequest \in Nat /\ OldestRequest <= n
  BY <1>a, EntryFacts
<1>3. ASSUME NEW k \in Entries PROVE EntryOK(k)'
  <2>1. k \in Nat /\ k \in Nodes /\ ParentSlot(k) \in ParentRing /\ EntryOK(k) /\ n # 0
        /\ tailParents <= k /\ k < n
    <3>1. k \in Nat /\ k \in Nodes /\ ParentSlot(k) \in ParentRing /\ EntryOK(k)
      BY EntryFacts DEF EInv, EntriesOK
    <3>2. tailParents <= k /\ k < n
      <4>1. tailParents \in Nat /\ headNode \in Nat
        BY EntryFacts
      <4> QED BY <1>3, <1>a, <3>1, <4>1 DEF Entries
    <3> QED BY <3>1, <3>2
  <2>2. ParentSlot(k) # slot
    <3>1. k \in tailParents .. reservedTo /\ n \in tailParents .. reservedTo /\ k # n
      <4>1. tailParents \in Nat /\ reservedTo \in Nat
        BY EntryFacts
      <4> QED BY <1>1, <2>1, <4>1
    <3> QED BY <1>b, <3>1, EntriesApart
  <2>3. parentValid'[ParentSlot(k)] = parentValid[ParentSlot(k)]
    BY <1>0, <1>1, <2>1, <2>2 DEF CInv, BufferTypes
  <2>4. parentPtrs'[ParentSlot(k)] = parentPtrs[ParentSlot(k)]
    BY <1>0, <1>1, <2>1, <2>2 DEF CInv, BufferTypes
  <2>5. parentIo'[ParentSlot(k)] = parentIo[ParentSlot(k)]
    BY <1>0, <1>1, <2>1, <2>2 DEF CInv, BufferTypes
  <2>6. GoodPtrs(k, parentPtrs[ParentSlot(k)])'
    <3>1. PICK q : q = parentPtrs[ParentSlot(k)]
      OBVIOUS
    <3>2. GoodPtrs(k, q)'
      BY <1>0, <2>1, <3>1, SameGoodPtrs DEF EntryOK
    <3> QED BY <2>4, <3>1, <3>2 DEF GoodPtrs, GoodPtr
  <2>7. OldestRequest' = OldestRequest
    BY <1>d, <2>1
  <2> QED BY <1>0, <1>e, <2>1, <2>3, <2>4, <2>5, <2>6, <2>7, FrameEntry
<1>4. EntryOK(n)'
  <2>1. GoodPtrs(n, parentPtrs[ParentSlot(n)])'
    <3>1. PICK q : q = NewPtrs
      OBVIOUS
    <3>2. GoodPtrs(n, q)
      BY <1>0, <1>1, <1>a, <3>1, NewPtrsAreGood
    <3>3. GoodPtrs(n, q)'
      BY <1>0, <3>2, SameGoodPtrs
    <3>4. parentPtrs'[ParentSlot(n)] = q
      BY <1>0, <1>1, <1>b, <3>1 DEF CInv, BufferTypes
    <3> QED BY <3>3, <3>4 DEF GoodPtrs, GoodPtr
  <2>2. SUFFICES ASSUME NodeOf(n) # 0
                 PROVE  /\ parentValid'[slot] = PageBatch - Cardinality(InFlight(n)')
                        /\ \A r \in reading' : r.slot # slot
                        /\ \A j \in Reads : ReadOK(n, j)'
    BY <1>b, <2>1 DEF EntryOK
  <2>3. n # 0 /\ Used(n) = Reads
    <3>1. NodeOf(0) = 0
      BY Parameters DEF NodeOf
    <3> QED BY <2>2, <3>1 DEF Used, FirstRead, Reads
  <2>4. parentValid[slot] = 0 /\ \A r \in reading : r.slot # slot
    <3>1. n \in headNode .. reservedTo
      BY <1>1, <1>a, EntryFacts
    <3> QED BY <1>b, <3>1 DEF CInv, FreshOK
  <2>5. NewReads = {j \in Reads : NewPtrs[j + 1].to = "parent"}
    BY <1>a, <2>3 DEF NewReads
  <2>6. \A j \in Reads : parentIo'[slot][j] = IF j \in NewReads THEN Read(Parent(n, j)) ELSE Nop
    BY <1>0, <1>1, <2>3 DEF CInv, BufferTypes
  <2>7. InFlight(n)' = NewReads
    <3>1. n >= OldestRequest'
      BY <1>d, <1>e, <2>3
    <3>2. \A j \in Reads : parentIo'[slot][j].type = "read" <=> j \in NewReads
      BY <2>6, PtrFields
    <3>3. InFlight(n)' = {j \in Reads : parentIo'[slot][j].type = "read"}
      BY <1>b, <3>1 DEF InFlight
    <3> QED BY <2>5, <3>2, <3>3
  <2>8. parentValid'[slot] = PageBatch - Cardinality(InFlight(n)')
    <3>1. NewReads \subseteq 0 .. PageBatch - 1
      BY <2>5 DEF Reads
    <3>2. Cardinality(NewReads) \in Nat
      BY <3>1, SubsetCard, Parameters
    <3>3. parentValid'[slot] = parentValid[slot] + PageBatch - Cardinality(NewReads)
      BY <1>0, <1>1 DEF CInv, BufferTypes
    <3> QED BY <2>4, <2>7, <3>2, <3>3, Parameters
  <2>9. ASSUME NEW j \in Reads PROVE ReadOK(n, j)'
    <3>1. Parent(n, j)' = Parent(n, j)
      BY <1>0 DEF Parent
    <3>2. parentPtrs'[slot] = NewPtrs
      BY <1>0, <1>1 DEF CInv, BufferTypes
    <3>3. CASE j \in NewReads
      BY <1>b, <2>5, <2>6, <2>7, <3>1, <3>2, <3>3 DEF ReadOK
    <3>4. CASE j \notin NewReads
      BY <1>b, <2>5, <2>6, <3>1, <3>2, <3>4 DEF ReadOK
    <3> QED BY <3>3, <3>4
  <2> QED BY <1>0, <2>4, <2>8, <2>9
<1>5. EntriesOK'
  <2>1. \A k \in Entries' : k \in Entries \/ k = n
    <3>1. tailParents \in Nat
      BY EntryFacts
    <3>2. Entries' = tailParents .. (n + 1) - 1
      BY <1>0 DEF Entries
    <3>3. Entries = tailParents .. n - 1
      BY <1>a DEF Entries
    <3>4. \A k \in tailParents .. (n + 1) - 1 : k \in tailParents .. n - 1 \/ k = n
      BY <3>1
    <3> QED BY <3>2, <3>3, <3>4
  <2> QED BY <1>3, <1>4, <2>1 DEF EntriesOK
<1> QED BY <1>2, <1>5 DEF EInv

(* EInv is inductive relative to CInv and WInv. *)
LEMMA NextKeepsE == ASSUME CInv, CInv', WInv, EInv, [Next]_vars PROVE EInv'
<1>1. CASE OrchestratorNext
  BY <1>1, OtherStepsKeepE, ReserveBatchKeepsE, PrepareNodeKeepsE, ReleaseParentsKeepsE,
     AdvanceWrittenKeepsE DEF OrchestratorNext
<1>2. CASE IoNext
  BY <1>2, OtherStepsKeepE, IssueReadsKeepsE, ReadCompleteKeepsE DEF IoNext
<1>3. CASE \E c \in Coordinators : WorkerNext(c)
  BY <1>3, OtherStepsKeepE, TakeKeepsE, HashNodeKeepsE DEF WorkerNext
<1>4. CASE Terminated \/ UNCHANGED vars
  BY <1>4, OtherStepsKeepE DEF Terminated
<1> QED BY <1>1, <1>2, <1>3, <1>4 DEF Next

(* Every entry of the parent buffer that is in use points at its parents'     *)
(* labels, and its valid counter counts the reads that have not come back.    *)
THEOREM EInvAlways == BoundedLatency => (Spec => []EInv)
<1> SUFFICES ASSUME BoundedLatency PROVE Spec => []EInv
  OBVIOUS
<1>1. Init => EInv
  BY InitE
<1>2. CInv /\ CInv' /\ WInv /\ EInv /\ [Next]_vars => EInv'
  BY NextKeepsE
<1> QED BY <1>1, <1>2, CInvAlways, WInvAlways, PTL DEF Spec

(* A label less than a lap behind is in its place. *)
LEMMA LabelInBuffer ==
    ASSUME CInv, WInv, NEW c \in Coordinators, NEW p \in Nat, p < hashed[c], hashed[c] <= p + Lap
    PROVE  nodeBuf[NodeSlot(p)][c][PlaceOf(p)] = p
<1>1. p \in Nodes
  <2>1. hashed[c] \in 0 .. NodeStop
    BY DEF CInv, CursorTypes
  <2> QED BY <2>1, Parameters DEF Nodes
<1> QED BY <1>1 DEF WInv, LabelsKept

(* What a coordinator copies from a valid entry *)
LEMMA CopiedLabels == ASSUME CInv, WInv, EInv PROVE CopiedLabelsAreParents
<1> SUFFICES ASSUME NEW c \in Coordinators, CanTake(c), NodeOf(taken[c]) # 0, NEW j \in Reads
             PROVE  LET n == taken[c]  ptrs == parentPtrs[ParentSlot(n)] IN
                    /\ ptrs[j + 1].to # "null"
                    /\ ~IsLocalPtr(ptrs[j + 1]) =>
                          LabelAt(c, ParentSlot(n), j + 1, ptrs[j + 1]) = Parent(n, j)
  BY DEF CopiedLabelsAreParents
<1>a. PICK n \in Nat : n = taken[c] /\ n < headNode
  BY TakenBelowHead
<1>b. PICK ptr : ptr = parentPtrs[ParentSlot(n)][j + 1]
  OBVIOUS
<1>0. hashed[c] \in Nat /\ hashed[c] <= n /\ n - hashed[c] < Window
      /\ n \in Entries /\ EntryOK(n)
  <2>1. /\ tailParents <= reported[c] /\ reported[c] <= hashed[c] /\ hashed[c] <= n
        /\ tailParents \in Nat /\ reported[c] \in Nat /\ hashed[c] \in Nat /\ headNode \in Nat
    BY <1>a DEF CInv, CursorTypes, OrderOK
  <2>2. n \in Entries
    BY <1>a, <2>1 DEF Entries
  <2> QED BY <1>a, <2>1, <2>2 DEF EInv, EntriesOK, CanTake
<1>1. PICK p \in 0 .. n - 1 : p = Parent(n, j)
  <2>1. n \in Nodes /\ NodeOf(n) # 0 /\ graph \in Graphs
    BY <1>0, <1>a, EntryFacts DEF CInv, BufferTypes
  <2> QED BY <2>1, ParentBefore
<1>2. GoodPtr(n, p, ptr) /\ p \in Nat /\ p < n
  BY <1>0, <1>1, <1>a, <1>b DEF EntryOK, GoodPtrs
<1>3. CASE ptr = ParentPtr(PlaceOf(p))
  <2>1. ptr.to = "parent" /\ ptr.place = PlaceOf(p)
    BY <1>3, PtrFields
  <2>2. InFlight(n) = {}
    <3>1. InFlight(n) \subseteq 0 .. PageBatch - 1
      BY DEF InFlight, Reads
    <3>2. IsFiniteSet(InFlight(n)) /\ Cardinality(InFlight(n)) \in Nat
      BY <3>1, SubsetCard, Parameters
    <3>3. parentValid[ParentSlot(n)] = PageBatch - Cardinality(InFlight(n))
      BY <1>0, <1>a DEF EntryOK
    <3>4. parentValid[ParentSlot(n)] >= PageBatch
      BY <1>a DEF CanTake, IsValid
    <3>5. Cardinality(InFlight(n)) = 0
      BY <3>2, <3>3, <3>4, Parameters
    <3> QED BY <3>2, <3>5, FS_EmptySet
  <2>3. ReadOK(n, j)
    BY <1>0, <1>a DEF EntryOK
  <2>4. parentBuf[ParentSlot(n)][j][c][PlaceOf(p)] = p
    BY <1>1, <1>b, <2>1, <2>2, <2>3 DEF ReadOK
  <2>5. (j + 1) - 1 = j
    BY Parameters DEF Reads
  <2>6. LabelAt(c, ParentSlot(n), j + 1, ptr) = p
    BY <2>1, <2>4, <2>5 DEF LabelAt
  <2> QED BY <1>1, <1>a, <1>b, <2>1, <2>6
<1>4. CASE ptr = NodePtr(NodeSlot(p), PlaceOf(p), IsLocal(n, p)) /\ n <= p + Lap
  <2>1. /\ ptr.to = "node" /\ ptr.place = PlaceOf(p) /\ ptr.slot = NodeSlot(p)
        /\ ptr.local = IsLocal(n, p)
    BY <1>4, PtrFields
  <2>2. ASSUME ~IsLocalPtr(ptr) PROVE LabelAt(c, ParentSlot(n), j + 1, ptr) = p
    <3>1. ~(n - p < LocalDistance)
      BY <2>1, <2>2 DEF IsLocalPtr, IsLocal
    <3>2. Window <= LocalDistance
      BY Pc1Assumption
    <3>3. p < hashed[c]
      BY <1>0, <1>2, <3>1, <3>2, Parameters
    <3>4. hashed[c] <= p + Lap
      <4>1. Lap \in Nat
        BY <1>2, LapFacts
      <4> QED BY <1>0, <1>2, <1>4, <4>1
    <3>5. nodeBuf[NodeSlot(p)][c][PlaceOf(p)] = p
      BY <1>2, <3>3, <3>4, LabelInBuffer
    <3> QED BY <2>1, <3>5 DEF LabelAt
  <2> QED BY <1>1, <1>a, <1>b, <2>1, <2>2
<1> QED BY <1>2, <1>3, <1>4 DEF GoodPtr

(* What its hashers read straight from the node buffer *)
LEMMA LocalLabels == ASSUME CInv, WInv, EInv PROVE LocalLabelsAreParents
<1> SUFFICES ASSUME NEW c \in Coordinators, hashed[c] < taken[c], NodeOf(hashed[c]) # 0,
                    NEW i \in 0 .. PageBatch, IsLocalPtr(Head(pending[c])[i])
             PROVE  nodeBuf[Head(pending[c])[i].slot][c][Head(pending[c])[i].place] =
                      IF i = 0 THEN hashed[c] - 1 ELSE Parent(hashed[c], i - 1)
  BY DEF LocalLabelsAreParents
<1>a. PICK n \in Nat : n = hashed[c] /\ n \in Nodes /\ n # 0
  <2>1. hashed[c] \in Nat /\ taken[c] \in 0 .. NodeStop
    BY DEF CInv, CursorTypes
  <2>2. NodeOf(0) = 0
    BY Parameters DEF NodeOf
  <2> QED BY <2>1, <2>2, Parameters DEF Nodes
<1>b. PICK ptrs : ptrs = Head(pending[c])
  OBVIOUS
<1>c. Lap \in Nat /\ Lap > 0
  BY <1>a, LapFacts
<1>0. GoodPtrs(n, ptrs)
  <2>1. pending[c] \in Seq(Ptrs) /\ Len(pending[c]) \in Nat /\ Len(pending[c]) = taken[c] - hashed[c]
        /\ taken[c] \in 0 .. NodeStop /\ hashed[c] \in Nat
    BY PendingTypes
  <2>2. 1 \in 1 .. Len(pending[c])
    BY <2>1, Parameters
  <2>3. ptrs = pending[c][1]
    BY <1>b, <2>1, <2>2
  <2>4. GoodPtrs(hashed[c] + (1 - 1), pending[c][1])
    BY <2>2 DEF EInv, PendingOK
  <2>5. hashed[c] + (1 - 1) = n
    BY <1>a
  <2> QED BY <2>3, <2>4, <2>5
<1>1. CASE i = 0
  <2>1. ptrs[i] = NodePtr(NodeSlot(n - 1), PlaceOf(n - 1), TRUE)
    BY <1>0, <1>1, <1>a DEF GoodPtrs
  <2>2. ptrs[i].slot = NodeSlot(n - 1) /\ ptrs[i].place = PlaceOf(n - 1)
    BY <2>1 DEF NodePtr
  <2>3. n - 1 \in Nat /\ n - 1 < hashed[c] /\ hashed[c] <= (n - 1) + Lap
    BY <1>a, <1>c
  <2>4. nodeBuf[NodeSlot(n - 1)][c][PlaceOf(n - 1)] = n - 1
    BY <2>3, LabelInBuffer
  <2> QED BY <1>1, <1>a, <1>b, <2>2, <2>4
<1>2. CASE i # 0
  <2>0. PICK j \in Reads : i = j + 1 /\ i - 1 = j
    <3>1. i - 1 \in Reads /\ i = (i - 1) + 1
      BY <1>2, Parameters DEF Reads
    <3> QED BY <3>1
  <2>1. PICK p \in 0 .. n - 1 : p = Parent(n, j)
    BY <1>a, ParentBefore DEF CInv, BufferTypes
  <2>2. GoodPtr(n, p, ptrs[i]) /\ p \in Nat /\ p < n
    BY <1>0, <1>a, <2>0, <2>1 DEF GoodPtrs
  <2>3. ptrs[i] # ParentPtr(PlaceOf(p))
    BY <1>b, PtrFields DEF IsLocalPtr
  <2>4. ptrs[i] = NodePtr(NodeSlot(p), PlaceOf(p), IsLocal(n, p)) /\ n <= p + Lap
    BY <2>2, <2>3 DEF GoodPtr
  <2>5. ptrs[i].slot = NodeSlot(p) /\ ptrs[i].place = PlaceOf(p)
    BY <2>4, PtrFields
  <2>6. nodeBuf[NodeSlot(p)][c][PlaceOf(p)] = p
    BY <1>a, <2>2, <2>4, LabelInBuffer
  <2> QED BY <1>2, <1>a, <1>b, <2>0, <2>1, <2>5, <2>6
<1> QED BY <1>1, <1>2

(* Every parent a coordinator copies, and every one a hasher reads straight    *)
(* from the node buffer, is that parent's label: a read from disk follows the  *)
(* write, and no page is reused while somebody may look at it.                 *)
THEOREM LabelsAreParentsAlways == BoundedLatency => (Spec => []LabelsAreParents)
<1> SUFFICES ASSUME BoundedLatency PROVE Spec => []LabelsAreParents
  OBVIOUS
<1>1. CInv /\ WInv /\ EInv => LabelsAreParents
  BY CopiedLabels, LocalLabels DEF LabelsAreParents
<1> QED BY <1>1, CInvAlways, WInvAlways, EInvAlways, PTL

(* Both, for any number of coordinators that share pages and lag behind one *)
(* another.                                                                 *)
THEOREM LabelsAreRightAlways == BoundedLatency => (Spec => []LabelsAreRight)
<1> SUFFICES ASSUME BoundedLatency PROVE Spec => []LabelsAreRight
  OBVIOUS
<1>1. LabelsAreParents /\ WrittenLabelsAreOnDisk => LabelsAreRight
  BY DEF LabelsAreRight
<1> QED BY <1>1, LabelsAreParentsAlways, WrittenLabelsAreOnDiskAlways, PTL

-----------------------------------------------------------------------------
(* The references *)

(* Division of integers *)
LEMMA IntDivision ==
    ASSUME NEW a \in Int, NEW m \in Nat, m > 0
    PROVE  \E q \in Int : a % m \in 0 .. m - 1 /\ a = q * m + (a % m)
<1>1. a % m \in 0 .. m - 1
  OBVIOUS
<1>2. a \div m \in Int
  OBVIOUS
<1>3. a = (a \div m) * m + (a % m)
  OBVIOUS
<1> QED BY <1>1, <1>2, <1>3

(* The remainder is the only one. *)
LEMMA IntRemainder ==
    ASSUME NEW a \in Int, NEW m \in Nat, m > 0, NEW q \in Int, NEW r \in 0 .. m - 1, a = q * m + r
    PROVE  a % m = r
OBVIOUS

(* Numbers that differ by a multiple of m have the same remainder. *)
LEMMA Congruent ==
    ASSUME NEW a \in Int, NEW b \in Int, NEW z \in Int, NEW m \in Nat, m > 0, a = b + z * m
    PROVE  a % m = b % m
<1>1. PICK q \in Int : b % m \in 0 .. m - 1 /\ b = q * m + (b % m)
  BY IntDivision
<1>2. PICK r \in 0 .. m - 1 : r = b % m /\ b = q * m + r
  BY <1>1
<1>3. a = (q + z) * m + r /\ q + z \in Int
  BY <1>2
<1>4. a % m = r
  BY <1>3, IntRemainder
<1> QED BY <1>2, <1>4

(* The counts of sync batch g, whatever was taken off them when they wrapped *)
(* or were cleared                                                           *)
Held(g)     == Cardinality(RefsIn(tailParents, headNode, g))
Balanced(g) == \E z \in Int : refCount[g] - consumedCount[g] = Held(g) + z * CountMod
RInv        == \A g \in Syncs : Balanced(g)

(* The property's count of references is Held. *)
LEMMA HeldIsOutstanding == ASSUME NEW g PROVE Held(g) = Outstanding(g)
BY DEF Held, Outstanding, RefsIn

(* The counts are numbers. *)
LEMMA CountTypes ==
    ASSUME CInv
    PROVE  /\ \A g \in Syncs : refCount[g] \in Nat /\ consumedCount[g] \in Nat /\ Held(g) \in Nat
           /\ DOMAIN refCount = Syncs /\ DOMAIN consumedCount = Syncs
<1>1. \A g \in Syncs : Held(g) \in Nat
  BY EntryFacts, RefsFinite DEF Held
<1> QED BY <1>1, Parameters DEF CInv, BufferTypes

(* No references at the start *)
LEMMA InitR == ASSUME Init, CInv PROVE RInv
<1> SUFFICES ASSUME NEW g \in Syncs PROVE Balanced(g)
  BY DEF RInv
<1>1. refCount[g] = 0 /\ consumedCount[g] = 0
  BY DEF Init, Syncs
<1>2. Held(g) = 0
  <2>1. 0 .. 0 - 1 = {}
    OBVIOUS
  <2>2. RefsIn(0, 0, g) = {}
    BY <2>1 DEF RefsIn
  <2> QED BY <2>2, FS_EmptySet DEF Init, Held
<1>3. refCount[g] - consumedCount[g] = Held(g) + 0 * CountMod
  BY <1>1, <1>2, Parameters
<1> QED BY <1>3 DEF Balanced

(* What a range of entries holds is what its two parts hold. *)
LEMMA RefsSplit ==
    ASSUME CInv, NEW a \in Nat, NEW b \in Nat, NEW d \in Nat, a <= b, b <= d, NEW g
    PROVE  Cardinality(RefsIn(a, d, g)) = Cardinality(RefsIn(a, b, g)) + Cardinality(RefsIn(b, d, g))
<1>1. RefsIn(a, d, g) = RefsIn(a, b, g) \cup RefsIn(b, d, g)
  <2>1. a .. d - 1 = (a .. b - 1) \cup (b .. d - 1)
    OBVIOUS
  <2> QED BY <2>1 DEF RefsIn
<1>2. RefsIn(a, b, g) \cap RefsIn(b, d, g) = {}
  <2> SUFFICES ASSUME NEW x \in RefsIn(a, b, g), NEW y \in RefsIn(b, d, g) PROVE x # y
    OBVIOUS
  <2>1. PICK m \in a .. b - 1 : x \in {m} \X RefsOf(m, g)
    BY DEF RefsIn
  <2>2. PICK n \in b .. d - 1 : y \in {n} \X RefsOf(n, g)
    BY DEF RefsIn
  <2>3. x[1] = m /\ y[1] = n
    BY <2>1, <2>2
  <2>4. m # n
    OBVIOUS
  <2> QED BY <2>3, <2>4
<1>3. IsFiniteSet(RefsIn(a, b, g)) /\ IsFiniteSet(RefsIn(b, d, g))
      /\ Cardinality(RefsIn(a, b, g)) \in Nat /\ Cardinality(RefsIn(b, d, g)) \in Nat
  BY RefsFinite
<1>4. Cardinality(RefsIn(a, b, g) \cup RefsIn(b, d, g)) =
        Cardinality(RefsIn(a, b, g)) + Cardinality(RefsIn(b, d, g))
          - Cardinality(RefsIn(a, b, g) \cap RefsIn(b, d, g))
  BY <1>3, FS_Union
<1> QED BY <1>1, <1>2, <1>3, <1>4, FS_EmptySet

(* A step that leaves the entries and the counts alone *)
LEMMA FrameR ==
    ASSUME RInv, UNCHANGED <<parentPtrs, tailParents, headNode, refCount, consumedCount>>
    PROVE  RInv'
<1>1. \A g : Held(g)' = Held(g)
  BY DEF Held, RefsIn, RefsOf
<1> QED BY <1>1 DEF RInv, Balanced

(* The actions that do so *)
LEMMA OtherStepsKeepR ==
    ASSUME RInv,
           \/ \E c \in Coordinators : Sample(c) \/ WorkerNext(c)
           \/ ReserveBatch \/ NoReadBatch \/ WriteNodes \/ WriteDone \/ AdvanceWritten
           \/ IoNext \/ UNCHANGED vars
    PROVE  RInv'
<1>1. UNCHANGED <<parentPtrs, tailParents, headNode, refCount, consumedCount>>
  BY DEF Sample, WorkerNext, Take, HashNode, Report, ReserveBatch, NoReadBatch, WriteNodes, WriteDone,
         AdvanceWritten, IoNext, IssueReads, ReadComplete, IssueWrite, WriteComplete,
         vars, orchVars, parentVars, nodeVars
<1> QED BY <1>1, FrameR

(* A new entry adds its references to the counts and to what is held. *)
LEMMA PrepareNodeKeepsR == ASSUME CInv, CInv', RInv, PrepareNode PROVE RInv'
<1> SUFFICES ASSUME NEW g \in Syncs PROVE Balanced(g)'
  BY DEF RInv
<1>a. PICK n \in Nat : n = headNode
  BY EntryFacts
<1>b. PICK w : w = Cardinality(NewRefs(g))
  OBVIOUS
<1>0. /\ opc = "prepare" /\ headNode' = n + 1 /\ UNCHANGED <<tailParents, consumedCount>>
      /\ parentPtrs' = [parentPtrs EXCEPT ![ParentSlot(n)] = NewPtrs]
      /\ refCount'[g] = (refCount[g] + w) % CountMod
  BY <1>a, <1>b, PrepareEffect, CountTypes
<1>1. NewRefs(g) \subseteq 0 .. PageBatch /\ IsFiniteSet(NewRefs(g)) /\ w \in Nat
  <2>1. NewRefs(g) \subseteq 0 .. (PageBatch + 1) - 1
    BY Parameters DEF NewRefs
  <2>2. PageBatch + 1 \in Nat /\ (PageBatch + 1) - 1 = PageBatch
    BY Parameters
  <2> QED BY <1>b, <2>1, <2>2, SubsetCard
<1>2. tailParents \in Nat /\ reservedTo \in Nat /\ tailParents <= n /\ n < reservedTo
      /\ ParentSlot(n) \in ParentRing
  BY <1>0, <1>a, EntryFacts, SlotFacts DEF CInv, OrderOK
<1>3. ASSUME NEW k \in tailParents .. n - 1 PROVE RefsOf(k, g)' = RefsOf(k, g)
  <2>1. k \in Nat /\ ParentSlot(k) # ParentSlot(n) /\ ParentSlot(k) \in ParentRing
    <3>1. k \in tailParents .. reservedTo /\ n \in tailParents .. reservedTo /\ k # n /\ k \in Nat
      BY <1>2
    <3> QED BY <3>1, EntriesApart, SlotFacts
  <2>2. parentPtrs'[ParentSlot(k)] = parentPtrs[ParentSlot(k)]
    BY <1>0, <1>2, <2>1 DEF CInv, BufferTypes
  <2> QED BY <2>2 DEF RefsOf
<1>4. RefsOf(n, g)' = NewRefs(g)
  <2>1. parentPtrs'[ParentSlot(n)] = NewPtrs
    BY <1>0, <1>2 DEF CInv, BufferTypes
  <2>2. DOMAIN NewPtrs = 0 .. PageBatch
    BY DEF NewPtrs
  <2> QED BY <2>1, <2>2 DEF RefsOf, NewRefs
<1>5. Held(g)' = Held(g) + w
  <2>1. Held(g)' = Cardinality(UNION {{k} \X RefsOf(k, g)' : k \in tailParents .. (n + 1) - 1})
    BY <1>0 DEF Held, RefsIn
  <2>2. UNION {{k} \X RefsOf(k, g)' : k \in tailParents .. (n + 1) - 1}
          = RefsIn(tailParents, n, g) \cup ({n} \X NewRefs(g))
    <3>1. tailParents .. (n + 1) - 1 = (tailParents .. n - 1) \cup {n}
      BY <1>2
    <3>2. UNION {{k} \X RefsOf(k, g)' : k \in tailParents .. n - 1} = RefsIn(tailParents, n, g)
      BY <1>3 DEF RefsIn
    <3> QED BY <1>4, <3>1, <3>2
  <2>3. IsFiniteSet({n} \X NewRefs(g)) /\ Cardinality({n} \X NewRefs(g)) = w
    <3>1. IsFiniteSet({n}) /\ Cardinality({n}) = 1
      BY FS_Singleton
    <3>2. IsFiniteSet({n} \X NewRefs(g))
          /\ Cardinality({n} \X NewRefs(g)) = Cardinality({n}) * Cardinality(NewRefs(g))
      BY <1>1, <3>1, FS_Product
    <3> QED BY <1>1, <1>b, <3>1, <3>2
  <2>4. RefsIn(tailParents, n, g) \cap ({n} \X NewRefs(g)) = {}
    <3> SUFFICES ASSUME NEW x \in RefsIn(tailParents, n, g), NEW y \in {n} \X NewRefs(g) PROVE x # y
      OBVIOUS
    <3>1. PICK m \in tailParents .. n - 1 : x \in {m} \X RefsOf(m, g)
      BY DEF RefsIn
    <3>2. x[1] = m /\ y[1] = n /\ m # n
      BY <1>2, <3>1
    <3> QED BY <3>2
  <2>5. IsFiniteSet(RefsIn(tailParents, n, g)) /\ Cardinality(RefsIn(tailParents, n, g)) \in Nat
    BY <1>2, RefsFinite
  <2>6. Cardinality(RefsIn(tailParents, n, g) \cup ({n} \X NewRefs(g))) =
          Cardinality(RefsIn(tailParents, n, g)) + Cardinality({n} \X NewRefs(g))
            - Cardinality(RefsIn(tailParents, n, g) \cap ({n} \X NewRefs(g)))
    BY <2>3, <2>5, FS_Union
  <2>7. Held(g) = Cardinality(RefsIn(tailParents, n, g))
    BY <1>a DEF Held
  <2>8. Cardinality(RefsIn(tailParents, n, g) \cap ({n} \X NewRefs(g))) = 0
    BY <2>4, FS_EmptySet
  <2>9. Held(g)' = Cardinality(RefsIn(tailParents, n, g)) + w - 0
    BY <2>1, <2>2, <2>3, <2>6, <2>8
  <2> QED BY <1>1, <2>5, <2>7, <2>9
<1>6. PICK q \in Int, a \in Nat : refCount[g] + w = q * CountMod + a /\ a = refCount'[g]
  <2>1. PICK x \in Int : x = refCount[g] + w
    <3>1. refCount[g] \in Nat
      BY CountTypes
    <3> QED BY <1>1, <3>1
  <2>2. CountMod \in Nat /\ CountMod > 0
    BY Parameters
  <2>3. PICK q \in Int : x % CountMod \in 0 .. CountMod - 1 /\ x = q * CountMod + (x % CountMod)
    BY <2>2, IntDivision
  <2>4. x % CountMod \in Nat
    BY <2>2, <2>3
  <2>5. refCount'[g] = x % CountMod
    BY <1>0, <2>1
  <2> QED BY <2>1, <2>3, <2>4, <2>5
<1>7. PICK z \in Int : refCount[g] - consumedCount[g] = Held(g) + z * CountMod
  BY DEF RInv, Balanced
<1>8. a - consumedCount[g] = (Held(g) + w) + (z - q) * CountMod
  <2>1. PICK r \in Int, d \in Int, h \in Int, m \in Int :
           r = refCount[g] /\ d = consumedCount[g] /\ h = Held(g) /\ m = CountMod
    BY CountTypes, Parameters
  <2>2. (z - q) * m = z * m - q * m /\ z * m \in Int /\ q * m \in Int
    OBVIOUS
  <2>3. PICK y \in Int, u \in Int : y = z * m /\ u = q * m /\ (z - q) * m = y - u
    BY <2>2
  <2>4. r + w = u + a /\ r - d = h + y
    BY <1>6, <1>7, <2>1, <2>3
  <2>5. a - d = (h + w) + (y - u)
    BY <1>1, <2>4
  <2> QED BY <2>1, <2>3, <2>5
<1>9. refCount'[g] - consumedCount'[g] = Held(g)' + (z - q) * CountMod
  BY <1>0, <1>5, <1>6, <1>8
<1> QED BY <1>9 DEF Balanced

(* Released entries add theirs to the consumed counts. *)
LEMMA ReleaseParentsKeepsR == ASSUME CInv, CInv', RInv, ReleaseParents PROVE RInv'
<1> SUFFICES ASSUME NEW g \in Syncs PROVE Balanced(g)'
  BY DEF RInv
<1>0. PICK k \in 0 .. ActionBatch :
         /\ tailParents' = tailParents + k
         /\ consumedCount' = [h \in DOMAIN consumedCount |->
              (consumedCount[h]
                + Cardinality(UNION {{n} \X RefsOf(n, h) :
                                  n \in tailParents .. tailParents + k - 1}))
              % CountMod]
  BY DEF ReleaseParents, Repeat
<1>u. UNCHANGED <<parentPtrs, headNode, refCount>>
  BY DEF ReleaseParents, parentVars
<1>1. PICK t \in Nat : t = tailParents + k /\ tailParents \in Nat /\ tailParents <= t /\ t <= headNode
                       /\ headNode \in Nat /\ tailParents' = t
  <2>1. tailParents \in Nat /\ headNode \in Nat
    BY EntryFacts
  <2>2. tailParents' <= headNode'
    BY DEF CInv, OrderOK
  <2>3. tailParents + k \in Nat /\ tailParents <= tailParents + k
    BY <2>1, Parameters
  <2> QED BY <1>0, <1>u, <2>1, <2>2, <2>3
<1>b. PICK w : w = Cardinality(RefsIn(tailParents, t, g))
  OBVIOUS
<1>2. consumedCount'[g] = (consumedCount[g] + w) % CountMod
  <2>1. tailParents + k - 1 = t - 1
    BY <1>1, Parameters
  <2>2. DOMAIN consumedCount = Syncs
    BY CountTypes
  <2> QED BY <1>0, <1>b, <2>1, <2>2 DEF RefsIn
<1>3. w \in Nat
  BY <1>1, <1>b, RefsFinite
<1>5. PICK h \in Nat : h = Held(g)' /\ Held(g) = w + h
  <2>1. \A n : RefsOf(n, g)' = RefsOf(n, g)
    BY <1>u DEF RefsOf
  <2>2. Held(g)' = Cardinality(RefsIn(t, headNode, g))
    BY <1>1, <1>u, <2>1 DEF Held, RefsIn
  <2>3. Cardinality(RefsIn(t, headNode, g)) \in Nat
    BY <1>1, RefsFinite
  <2>4. Held(g) = w + Cardinality(RefsIn(t, headNode, g))
    BY <1>1, <1>b, RefsSplit DEF Held
  <2> QED BY <2>2, <2>3, <2>4
<1>6. PICK q \in Int, a \in Nat : consumedCount[g] + w = q * CountMod + a /\ a = consumedCount'[g]
  <2>1. PICK x \in Int : x = consumedCount[g] + w
    <3>1. consumedCount[g] \in Nat
      BY CountTypes
    <3> QED BY <1>3, <3>1
  <2>2. CountMod \in Nat /\ CountMod > 0
    BY Parameters
  <2>3. PICK q \in Int : x % CountMod \in 0 .. CountMod - 1 /\ x = q * CountMod + (x % CountMod)
    BY <2>2, IntDivision
  <2>4. x % CountMod \in Nat
    BY <2>2, <2>3
  <2>5. consumedCount'[g] = x % CountMod
    BY <1>2, <2>1
  <2> QED BY <2>1, <2>3, <2>4, <2>5
<1>7. PICK z \in Int : refCount[g] - consumedCount[g] = Held(g) + z * CountMod
  BY DEF RInv, Balanced
<1>8. refCount[g] - a = h + (z + q) * CountMod
  <2>1. refCount[g] \in Nat /\ consumedCount[g] \in Nat /\ Held(g) \in Nat /\ CountMod \in Nat
    BY CountTypes, Parameters
  <2>2. (z + q) * CountMod = z * CountMod + q * CountMod /\ z * CountMod \in Int /\ q * CountMod \in Int
    BY <2>1
  <2> QED BY <1>3, <1>5, <1>6, <1>7, <2>1, <2>2
<1>9. refCount'[g] - consumedCount'[g] = Held(g)' + (z + q) * CountMod
  BY <1>u, <1>5, <1>6, <1>8
<1> QED BY <1>9 DEF Balanced

(* The counts of a sync batch are cleared only when they agree, that is when *)
(* the references held on it are a multiple of the modulus.                  *)
LEMMA RetireNodesKeepsR == ASSUME CInv, RInv, RetireNodes PROVE RInv'
<1> SUFFICES ASSUME NEW g \in Syncs PROVE Balanced(g)'
  BY DEF RInv
<1>0. PICK k \in 0 .. ActionBatch :
        LET cleared == {SyncOf(NodeSlot(n)) :
                          n \in {m \in tailNode .. tailNode + k - 1 : FirstOfSync(m)}}
            Clear(count) == [h \in DOMAIN count |-> IF h \in cleared THEN 0 ELSE count[h]]
        IN /\ \A i \in 0 .. k - 1 : Retirable(tailNode + i)
           /\ refCount' = Clear(refCount)
           /\ consumedCount' = Clear(consumedCount)
  BY DEF RetireNodes, Repeat
<1>1. DOMAIN refCount = Syncs /\ DOMAIN consumedCount = Syncs
  BY CountTypes
<1>2. Held(g)' = Held(g)
  BY DEF RetireNodes, parentVars, Held, RefsIn, RefsOf
<1>3. PICK z \in Int : refCount[g] - consumedCount[g] = Held(g) + z * CountMod
  BY DEF RInv, Balanced
<1>4. CASE g \notin {SyncOf(NodeSlot(n)) : n \in {m \in tailNode .. tailNode + k - 1 : FirstOfSync(m)}}
  <2>1. refCount'[g] = refCount[g] /\ consumedCount'[g] = consumedCount[g]
    BY <1>0, <1>1, <1>4
  <2> QED BY <1>2, <1>3, <2>1 DEF Balanced
<1>5. CASE g \in {SyncOf(NodeSlot(n)) : n \in {m \in tailNode .. tailNode + k - 1 : FirstOfSync(m)}}
  <2>1. refCount'[g] = 0 /\ consumedCount'[g] = 0
    BY <1>0, <1>1, <1>5
  <2>2. PICK n \in tailNode .. tailNode + k - 1 : FirstOfSync(n) /\ g = SyncOf(NodeSlot(n))
    BY <1>5
  <2>3. tailNode \in Nat /\ n - tailNode \in 0 .. k - 1 /\ tailNode + (n - tailNode) = n
    <3>1. tailNode \in Nat /\ k \in Nat
      BY Parameters DEF CInv, CursorTypes
    <3> QED BY <3>1
  <2>4. refCount[g] = consumedCount[g]
    BY <1>0, <2>2, <2>3 DEF Retirable
  <2>5. refCount[g] - consumedCount[g] = 0
    BY <2>4, CountTypes
  <2>6. refCount'[g] - consumedCount'[g] = 0
    BY <2>1
  <2> QED BY <1>2, <1>3, <2>5, <2>6 DEF Balanced
<1> QED BY <1>4, <1>5

(* RInv is inductive relative to CInv. *)
LEMMA NextKeepsR == ASSUME CInv, CInv', RInv, [Next]_vars PROVE RInv'
<1>1. CASE OrchestratorNext
  BY <1>1, OtherStepsKeepR, PrepareNodeKeepsR, ReleaseParentsKeepsR, RetireNodesKeepsR
     DEF OrchestratorNext
<1>2. CASE Terminated \/ UNCHANGED vars
  BY <1>2, OtherStepsKeepR DEF Terminated
<1> QED BY <1>1, <1>2, OtherStepsKeepR DEF Next

(* The references and the consumed counts of a sync batch differ by what the *)
(* parent entries in use still hold on it, however often the counts wrap or  *)
(* are cleared.                                                              *)
THEOREM ReferencesBalanceAlways == BoundedLatency => (Spec => []ReferencesBalance)
<1> SUFFICES ASSUME BoundedLatency PROVE Spec => []ReferencesBalance
  OBVIOUS
<1>1. Init => RInv
  BY InitR, InitC
<1>2. CInv /\ CInv' /\ RInv /\ [Next]_vars => RInv'
  BY NextKeepsR
<1>3. CInv /\ RInv => ReferencesBalance
  <2> SUFFICES ASSUME CInv, RInv, NEW g \in Syncs
               PROVE  (refCount[g] - consumedCount[g]) % CountMod = Outstanding(g) % CountMod
    BY CountTypes DEF ReferencesBalance
  <2>1. PICK z \in Int : refCount[g] - consumedCount[g] = Held(g) + z * CountMod
    BY DEF RInv, Balanced
  <2>2. PICK a \in Int, b \in Int : a = refCount[g] - consumedCount[g] /\ b = Held(g)
    BY CountTypes
  <2>3. a % CountMod = b % CountMod
    BY <2>1, <2>2, Congruent, Parameters
  <2> QED BY <2>2, <2>3, HeldIsOutstanding
<1> QED BY <1>1, <1>2, <1>3, CInvAlways, PTL DEF Spec

=============================================================================
