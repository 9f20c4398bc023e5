--------------------------- MODULE PipelineProofs ---------------------------
(***************************************************************************)
(* For any number of batches, sectors, layers and drives of any sizes that *)
(* have room for two slots: no PC1 overwrites layers that are still        *)
(* needed, every C2 process proves all of its batch's sectors, and nobody  *)
(* uses the null sealing_ctx.                                              *)
(*                                                                         *)
(* Slots are given by a batch's number and blocks by the free space, and   *)
(* nothing in the code connects the two.  What does is that batches start  *)
(* PC1 in order (OrderOK): while a batch has its slot, no batch two or     *)
(* more after it has one (SlotOK), so that only neighbours are on the      *)
(* drives at the same time, and the offset of a batch is the one after its *)
(* neighbour's (OffsetOK), which is a slot away from it even when it wraps *)
(* (NextOffsetApart).                                                      *)
(***************************************************************************)
EXTENDS Pipeline, TLAPS, FiniteSetTheorems, WellFoundedInduction

(* Where a batch is. *)
Before1  == {"new", "turn", "slot"}
Holding  == {"pc1", "write", "pc2", "pc2_count", "pc2_gpu", "pc2_run", "seed", "c1"}
OnDrives == Holding \ {"pc1"}
Past2    == {"seed", "c1", "cleanup", "poll", "c2", "c2_gpu", "c2_run", "done"}
UsesGpu  == {"pc2_count", "pc2_gpu", "pc2_run", "c2_gpu", "c2_run"}

Started(b) == pc[b] \notin {"new", "turn", "slot", "pc1"}

(* The threads start after the context is there. *)
CtxOK ==
    /\ ~crashed
    /\ main = "offset" \/ ctx
    /\ main \in {"offset", "size"} => \A b \in Batches : pc[b] = "new"

(* done1 is the number of the batch whose turn it is. *)
OrderOK ==
    \A b \in Batches :
        /\ pc[b] \in {"new", "turn"} => b >= done1
        /\ pc[b] \in {"slot", "pc1", "write"} => b = done1
        /\ pc[b] \notin {"new", "turn", "slot", "pc1", "write"} => b < done1

(* A batch with its slot keeps all but the next one from theirs. *)
SlotOK ==
    \A b \in Batches : pc[b] \in Holding =>
        /\ slotLock[Slot(b)] = b
        /\ \A d \in Batches : d >= b + 2 => pc[d] \in Before1

(* An offset at which a slot fits, the first or beyond the first slot. *)
Fits(o) == o \in 0 .. MaxOffset - SlotSize /\ (o = 0 \/ o >= SlotSize)

(* Batches take their offsets in order. *)
OffsetOK ==
    /\ Fits(offset)
    /\ \A b \in Batches :
          /\ Fits(cur[b])
          /\ Started(b) =>
                IF b + 1 \in Batches /\ Started(b + 1)
                  THEN cur[b + 1] = NextOffset(cur[b])
                  ELSE offset = NextOffset(cur[b])

(* What PC1 has written is in place while it is needed. *)
DiskOK ==
    \A b \in Batches :
        /\ ~Started(b) => written[b] = 0
        /\ Started(b) /\ pc[b] # "write" => written[b] = PagesPerLayer * NumLayers
        /\ pc[b] \in OnDrives =>
               \A page \in 0 .. written[b] - 1 : disk[Place(page, cur[b])] = <<b, page>>

(* done2 counts the PC2s, which have the GPU to themselves. *)
GpuOK ==
    /\ done2 = Cardinality({b \in Batches : pc[b] \in Past2})
    /\ \A b \in Batches : pc[b] \in UsesGpu => gpuLock = b

(* The trees and C1's outputs are right as far as they go. *)
FilesOK ==
    \A b \in Batches :
        /\ pc[b] \in {"seed", "c1"} => trees[b] = TRUE
        /\ pc[b] \notin Past2 \/ pc[b] = "seed" => c1[b] = 0
        /\ pc[b] \in Past2 \ {"seed", "c1"} => c1[b] = NumSectors
        /\ output[b] = 0 .. c1[b] - 1

(* The C2 process: all sectors taken so far are proved, or being proved. *)
Proving(p) == IF prover[p] = "prove" THEN 1 ELSE 0
Exited(p)  == IF prover[p] = "exit" THEN 1 ELSE 0

C2OK ==
    /\ \A p \in Provers :
          /\ prover[p] # "off" => \E b \in Batches : pc[b] = "c2_run"
          /\ prover[p] = "prove" => mine[p] \in Sectors
    /\ \A b \in Batches : pc[b] = "c2_run" =>
          /\ \A p \in Provers : prover[p] # "off"
          /\ successes + Proving(1) + Proving(2)
                = (IF sector < NumSectors THEN sector ELSE NumSectors)
          /\ sector <= NumSectors + Exited(1) + Exited(2)
          /\ Exited(1) + Exited(2) > 0 => sector >= NumSectors
    /\ \A b \in Batches : pc[b] = "done" => status[b] = 0

IInv == TypeOK /\ CtxOK /\ OrderOK /\ SlotOK /\ OffsetOK /\ DiskOK /\ GpuOK /\ FilesOK /\ C2OK

-----------------------------------------------------------------------------
(* Arithmetic of blocks *)

NatLess == {ss \in Nat \X Nat : ss[1] < ss[2]}

LEMMA NatLessWellFounded == IsWellFoundedOn(NatLess, Nat)
BY NatLessThanWellFounded DEF OpToRel, NatLess

(* A set of naturals has a minimum. *)
LEMMA NatMinimum == ASSUME NEW T, T \subseteq Nat, T # {} PROVE \E x \in T : \A y \in T : x <= y
<1>1. PICK x \in T : \A y \in T : ~(<<y, x>> \in NatLess)
  BY NatLessWellFounded, WFMin
<1>2. ASSUME NEW y \in T PROVE x <= y
  <2>1. <<y, x>> \in Nat \X Nat /\ <<y, x>>[1] = y /\ <<y, x>>[2] = x
    OBVIOUS
  <2>2. ~(y < x)
    BY <1>1, <2>1 DEF NatLess
  <2> QED BY <2>2
<1> QED BY <1>2

NumPages == PagesPerLayer * NumLayers

(* What the parameters of the demo come to. *)
LEMMA Parameters ==
    /\ NumBatches \in Nat \ {0} /\ NumSectors \in Nat \ {0}
    /\ PagesPerLayer \in Nat \ {0} /\ NumLayers \in Nat \ {0}
    /\ NumPages \in Nat \ {0} /\ Pages = 0 .. NumPages - 1 /\ Cardinality(Pages) = NumPages
    /\ Len(Drives) \in Nat \ {0}
    /\ SlotSize \in Nat /\ MaxOffset \in Nat /\ SlotSize + SlotSize <= MaxOffset
    /\ Null \notin Batches
<1>1. /\ NumBatches \in Nat \ {0} /\ NumSectors \in Nat \ {0}
      /\ PagesPerLayer \in Nat \ {0} /\ NumLayers \in Nat \ {0} /\ Null \notin Batches
  BY PipelineAssumption
<1>2. NumPages \in Nat \ {0} /\ Pages = 0 .. NumPages - 1
  BY <1>1 DEF NumPages, Pages
<1>3. Cardinality(Pages) = NumPages
  BY <1>2, FS_Interval
<1>4. Drives \in Seq(Nat) /\ Len(Drives) \in Nat \ {0}
  BY PipelineAssumption
<1>5. SlotSize \in Nat
  BY <1>1, <1>4 DEF SlotSize
<1>6. MaxOffset \in Nat
  <2> DEFINE T == {Drives[i] : i \in 1 .. Len(Drives)}
  <2>1. T \subseteq Nat
    BY <1>4
  <2>2. Drives[1] \in T
    BY <1>4
  <2>3. \E x \in T : \A y \in T : x <= y
    <3> HIDE DEF T
    <3> QED BY <2>1, <2>2, NatMinimum
  <2>4. MaxOffset \in T
    BY <2>3 DEF MaxOffset, Min
  <2> QED BY <2>1, <2>4
<1>7. SlotSize + SlotSize <= MaxOffset
  BY <1>5, <1>6, PipelineAssumption DEF NumSlots
<1> QED BY <1>1, <1>2, <1>3, <1>4, <1>5, <1>6, <1>7

LEMMA Quotient ==
    ASSUME NEW p \in Nat, NEW n \in Nat \ {0}
    PROVE  p \div n \in Nat /\ 0 <= p - (p \div n) * n /\ p - (p \div n) * n < n
OBVIOUS

LEMMA Cancel ==
    ASSUME NEW a \in Nat, NEW b \in Nat, NEW n \in Nat \ {0}, a * n < b * n
    PROVE  a < b
OBVIOUS

(* get_slot_size rounds the blocks of a layer up, which is enough for all *)
(* pages wherever a layer begins on the drives.                           *)
LEMMA PageFits ==
    ASSUME NEW page \in Pages
    PROVE  /\ page \div Len(Drives) \in 0 .. SlotSize - 1
           /\ page - (page \div Len(Drives)) * Len(Drives) \in Ctrls
<1> DEFINE n == Len(Drives)
<1> DEFINE k == (PagesPerLayer + n - 1) \div n
<1>0. n \in Nat \ {0} /\ page \in Nat /\ page < NumPages /\ NumPages \in Nat
      /\ PagesPerLayer \in Nat \ {0} /\ NumLayers \in Nat \ {0}
  BY Parameters
<1> HIDE DEF n
<1>1. k \in Nat /\ PagesPerLayer + n - 1 - k * n < n
  BY <1>0, Quotient
<1> HIDE DEF k
<1>2. PagesPerLayer <= k * n /\ k * n \in Nat
  BY <1>0, <1>1
<1>3. NumPages <= (k * n) * NumLayers
  BY <1>0, <1>2 DEF NumPages
<1>4. (k * n) * NumLayers = (k * NumLayers) * n /\ k * NumLayers \in Nat
  BY <1>0, <1>1
<1>5. page \div n \in Nat /\ 0 <= page - (page \div n) * n /\ page - (page \div n) * n < n
  BY <1>0, Quotient
<1>6. (page \div n) * n < (k * NumLayers) * n
  <2> DEFINE q == page \div n
  <2> HIDE DEF q
  <2>1. q \in Nat /\ 0 <= page - q * n /\ q * n \in Nat
    BY <1>0, <1>5 DEF q
  <2>2. q * n < (k * NumLayers) * n
    BY <1>0, <1>3, <1>4, <2>1
  <2> QED BY <2>2 DEF q
<1>7. page \div n < k * NumLayers
  <2> DEFINE q == page \div n
  <2> HIDE DEF q
  <2>1. q \in Nat
    BY <1>5 DEF q
  <2>2. q * n < (k * NumLayers) * n
    BY <1>6 DEF q
  <2>3. q < k * NumLayers
    BY <1>0, <1>4, <2>1, <2>2, Cancel
  <2> QED BY <2>3 DEF q
<1>8. SlotSize = k * NumLayers
  BY DEF SlotSize, k, n
<1>9. page - (page \div n) * n \in 0 .. n - 1
  <2> DEFINE r == (page \div n) * n
  <2> HIDE DEF r
  <2>1. r \in Nat
    BY <1>0, <1>5 DEF r
  <2>2. 0 <= page - r /\ page - r < n
    BY <1>5 DEF r
  <2> QED BY <2>1, <2>2, <1>0 DEF r
<1>10. page \div n \in 0 .. SlotSize - 1
  BY <1>4, <1>5, <1>7, <1>8
<1> QED BY <1>9, <1>10 DEF n, Ctrls

(* Every page has its place within the slot, *)
LEMMA PlaceInSlot ==
    ASSUME NEW page \in Pages, NEW o \in 0 .. MaxOffset - SlotSize
    PROVE  /\ Place(page, o) \in Ctrls \X (0 .. MaxOffset - 1)
           /\ Place(page, o)[2] \in o .. o + SlotSize - 1
<1> DEFINE q == page \div Len(Drives)
<1> DEFINE r == page - q * Len(Drives)
<1>1. q \in 0 .. SlotSize - 1 /\ r \in Ctrls
  BY PageFits
<1>2. Place(page, o) = <<r, q + o>>
  BY DEF Place
<1> HIDE DEF q, r
<1>3. q + o \in 0 .. MaxOffset - 1 /\ q + o \in o .. o + SlotSize - 1
  BY <1>1, Parameters
<1> QED BY <1>1, <1>2, <1>3

(* of its own, *)
LEMMA PlaceIsOwn ==
    ASSUME NEW p \in Pages, NEW q \in Pages, NEW o \in 0 .. MaxOffset - SlotSize,
           Place(p, o) = Place(q, o)
    PROVE  p = q
<1> DEFINE n == Len(Drives)
<1>0. n \in Nat \ {0} /\ p \in Nat /\ q \in Nat
  BY Parameters
<1>1. p - (p \div n) * n = q - (q \div n) * n /\ p \div n + o = q \div n + o
  BY DEF Place
<1>2. p \div n \in Int /\ q \div n \in Int
  BY PageFits, Parameters
<1>3. p \div n = q \div n
  BY <1>1, <1>2, Parameters
<1> DEFINE r == (p \div n) * n
<1>4. r \in Int
  BY <1>0, <1>2
<1>5. p - r = q - r
  BY <1>1, <1>3
<1> HIDE DEF r
<1> QED BY <1>0, <1>4, <1>5

(* and not in a slot that is apart. *)
Apart(o, x) == o + SlotSize <= x \/ x + SlotSize <= o

LEMMA PlaceApart ==
    ASSUME NEW p \in Pages, NEW q \in Pages,
           NEW o \in 0 .. MaxOffset - SlotSize, NEW x \in 0 .. MaxOffset - SlotSize, Apart(o, x)
    PROVE  Place(p, o) # Place(q, x)
<1>1. Place(p, o)[2] \in o .. o + SlotSize - 1 /\ Place(q, x)[2] \in x .. x + SlotSize - 1
  BY PlaceInSlot
<1> QED BY <1>1, Parameters DEF Apart

(* The next offset fits, and is apart from the last, also when it wraps. *)
LEMMA NextOffsetApart ==
    ASSUME NEW o, Fits(o)
    PROVE  Fits(NextOffset(o)) /\ Apart(o, NextOffset(o))
BY Parameters DEF Fits, NextOffset, Apart

-----------------------------------------------------------------------------
(* What the invariant says of two batches *)

LEMMA SlotType == ASSUME NEW b \in Batches PROVE Slot(b) \in 0 .. NumSlots - 1
BY Parameters DEF Batches, Slot, NumSlots

(* Nobody gets a slot, and nobody leaves the batches that wait for one. *)
LEMMA SlotStays ==
    ASSUME SlotOK, slotLock' = slotLock,
           \A d \in Batches : /\ pc'[d] \in Holding => pc[d] \in Holding
                              /\ pc[d] \in Before1 => pc'[d] \in Before1
    PROVE  SlotOK'
BY DEF SlotOK

(* Two batches whose layers are needed are neighbours, and apart on the drives. *)
LEMMA NeedsAreApart ==
    ASSUME IInv, NEW b \in Batches, NEW d \in Batches, b # d,
           pc[b] \in OnDrives, pc[d] \in OnDrives
    PROVE  Apart(cur[b], cur[d])
<1>0. pc[b] \in Holding /\ pc[d] \in Holding /\ pc[b] \notin Before1 /\ pc[d] \notin Before1
      /\ Started(b) /\ Started(d)
  BY DEF OnDrives, Holding, Before1, Started
<1>1. d = b + 1 \/ b = d + 1
  <2>1. ~(d >= b + 2) /\ ~(b >= d + 2)
    BY <1>0 DEF IInv, SlotOK
  <2> QED BY <2>1, Parameters DEF Batches
<1>2. ASSUME NEW x \in Batches, NEW y \in Batches, y = x + 1, Started(x), Started(y)
      PROVE  Apart(cur[x], cur[y])
  <2>1. cur[y] = NextOffset(cur[x]) /\ Fits(cur[x])
    BY <1>2 DEF IInv, OffsetOK
  <2> QED BY <2>1, NextOffsetApart
<1>3. CASE d = b + 1
  BY <1>0, <1>2, <1>3
<1>4. CASE b = d + 1
  <2>1. Apart(cur[d], cur[b])
    BY <1>0, <1>2, <1>4
  <2> QED BY <2>1 DEF Apart
<1> QED BY <1>1, <1>3, <1>4

(* After PC1, all of a batch's layers are in place. *)
LEMMA LayersAreThere ==
    ASSUME IInv, NEW b \in Batches, pc[b] \in OnDrives, pc[b] # "write"
    PROVE  LayersOf(b)
<1>1. Started(b)
  BY DEF OnDrives, Holding, Started
<1>2. written[b] = NumPages
  BY <1>1 DEF IInv, DiskOK, NumPages
<1> QED BY <1>2, Parameters DEF IInv, DiskOK, LayersOf

-----------------------------------------------------------------------------
(* One lemma for each operation *)

LEMMA GetMaxBlockOffsetKeeps == ASSUME IInv, GetMaxBlockOffset PROVE IInv'
<1> USE DEF IInv, GetMaxBlockOffset, InitCtx, pc1Vars, lockVars, fileVars, c2Vars
<1>1. TypeOK' /\ CtxOK' /\ OrderOK'
  BY DEF TypeOK, CtxOK, OrderOK
<1>2. SlotOK' /\ OffsetOK' /\ DiskOK'
  BY DEF SlotOK, OffsetOK, Started, DiskOK
<1>3. GpuOK' /\ FilesOK' /\ C2OK'
  BY DEF GpuOK, FilesOK, C2OK, Proving, Exited
<1> QED BY <1>1, <1>2, <1>3

(* The threads start, all at "turn". *)
LEMMA GetSlotSizeKeeps == ASSUME IInv, GetSlotSize PROVE IInv'
<1> USE DEF IInv, GetSlotSize, pc1Vars, lockVars, fileVars, c2Vars
<1>0. /\ \A b \in Batches : pc[b] = "new" /\ pc'[b] = "turn"
      /\ ctx /\ ~crashed
  BY DEF CtxOK
<1>1. TypeOK' /\ CtxOK' /\ OrderOK'
  BY <1>0 DEF TypeOK, CtxOK, OrderOK
<1>2. SlotOK' /\ OffsetOK' /\ DiskOK'
  BY <1>0 DEF SlotOK, Holding, OffsetOK, Started, DiskOK, OnDrives
<1>3. GpuOK'
  <2>1. {b \in Batches : pc'[b] \in Past2} = {b \in Batches : pc[b] \in Past2}
    BY <1>0 DEF Past2
  <2> QED BY <1>0, <2>1 DEF GpuOK, UsesGpu
<1>4. FilesOK'
  BY <1>0 DEF FilesOK, Past2
<1>5. C2OK'
  BY <1>0 DEF C2OK, Proving, Exited
<1> QED BY <1>1, <1>2, <1>3, <1>4, <1>5

LEMMA JoinKeeps == ASSUME IInv, Join PROVE IInv'
<1> USE DEF IInv, Join, pc1Vars, lockVars, fileVars, c2Vars
<1>1. TypeOK' /\ CtxOK' /\ OrderOK'
  BY DEF TypeOK, CtxOK, OrderOK
<1>2. SlotOK' /\ OffsetOK' /\ DiskOK'
  BY DEF SlotOK, OffsetOK, Started, DiskOK
<1>3. GpuOK' /\ FilesOK' /\ C2OK'
  BY DEF GpuOK, FilesOK, C2OK, Proving, Exited
<1> QED BY <1>1, <1>2, <1>3

(* The steps that only take a mutex, wait or remove files. *)
Moves == {<<"turn", "slot">>, <<"pc2", "pc2_count">>, <<"pc2_count", "pc2_gpu">>,
          <<"pc2_gpu", "pc2_run">>, <<"seed", "c1">>, <<"cleanup", "poll">>,
          <<"poll", "c2">>, <<"c2", "c2_gpu">>}

LEMMA MoveKeeps ==
    ASSUME IInv, NEW b \in Batches, NEW w, <<pc[b], w>> \in Moves,
           pc' = [pc EXCEPT ![b] = w],
           pc[b] = "turn" => done1 = b,
           w \in UsesGpu => gpuLock' = b,
           gpuLock' = gpuLock \/ (gpuLock = Null /\ gpuLock' = b),
           {pc2Lock', gpuCount'} \subseteq Batches \cup {Null},
           trees' = trees \/ (trees' = [trees EXCEPT ![b] = Null] /\ w = "poll"),
           UNCHANGED <<apiVars, pc1Vars, pc1Lock, slotLock, done2, c1, output, c2Vars>>
    PROVE  IInv'
<1> USE DEF IInv, apiVars, pc1Vars, c2Vars
<1>0. /\ pc[b] \in {"turn", "pc2", "pc2_count", "pc2_gpu", "seed", "cleanup", "poll", "c2"}
      /\ w \in {"slot", "pc2_count", "pc2_gpu", "pc2_run", "c1", "poll", "c2", "c2_gpu"}
      /\ pc'[b] = w /\ \A d \in Batches \ {b} : pc'[d] = pc[d]
      /\ pc[b] = "turn" <=> w = "slot"
      /\ pc[b] = "seed" <=> w = "c1"
      /\ pc[b] \in Past2 <=> w \in Past2
      /\ pc[b] \in Holding <=> w \in Holding
      /\ pc[b] \in OnDrives <=> w \in OnDrives
      /\ pc[b] \in Before1 <=> w \in Before1
  BY DEF Moves, TypeOK, Past2, Holding, OnDrives, Before1
<1>1. TypeOK'
  BY <1>0 DEF TypeOK
<1>2. CtxOK'
  BY <1>0 DEF CtxOK
<1>3. OrderOK'
  BY <1>0 DEF OrderOK
<1>4. SlotOK'
  BY <1>0, SlotStays
<1>5. \A d \in Batches : Started(d)' = Started(d)
  BY <1>0 DEF Started
<1>6. OffsetOK'
  BY <1>5 DEF OffsetOK
<1>7. DiskOK'
  BY <1>0, <1>5 DEF DiskOK
<1>8. GpuOK'
  <2>1. {d \in Batches : pc'[d] \in Past2} = {d \in Batches : pc[d] \in Past2}
    BY <1>0
  <2> QED BY <1>0, <2>1, Parameters DEF GpuOK
<1>9. FilesOK'
  BY <1>0 DEF FilesOK, TypeOK
<1>10. C2OK'
  BY <1>0 DEF C2OK, Proving, Exited
<1> QED BY <1>1, <1>2, <1>3, <1>4, <1>6, <1>7, <1>8, <1>9, <1>10

LEMMA WaitKeeps ==
    ASSUME IInv, NEW b \in Batches,
           \/ PollPc1(b) \/ Pc2LockGpu(b) \/ Pc2LockCounters(b) \/ WaitSeed(b)
           \/ Cleanup(b) \/ PollPc2(b) \/ StartC2(b)
    PROVE  IInv'
<1> USE DEF Goto, apiVars, pc1Vars, lockVars, fileVars, c2Vars
<1>0. {pc1Lock, gpuLock, pc2Lock, gpuCount} \subseteq Batches \cup {Null}
  BY DEF IInv, TypeOK
<1>1. CASE PollPc1(b)
  <2>1. /\ <<pc[b], "slot">> \in Moves
        /\ "slot" \in UsesGpu => gpuLock' = b
    BY <1>1 DEF PollPc1, Moves, UsesGpu
  <2> QED BY <1>0, <1>1, <2>1, MoveKeeps DEF PollPc1
<1>2. CASE Pc2LockGpu(b)
  <2>1. /\ <<pc[b], "pc2_count">> \in Moves
        /\ "pc2_count" \in UsesGpu => gpuLock' = b
    BY <1>2 DEF Pc2LockGpu, Moves, UsesGpu
  <2> QED BY <1>0, <1>2, <2>1, MoveKeeps DEF Pc2LockGpu
<1>3. CASE Pc2LockCounters(b)
  <2>1. gpuLock = b
    BY <1>3 DEF Pc2LockCounters, IInv, GpuOK, UsesGpu
  <2> QED BY <1>0, <1>3, <2>1, MoveKeeps DEF Pc2LockCounters, Moves, UsesGpu
<1>4. CASE WaitSeed(b)
  <2>1. /\ <<pc[b], "c1">> \in Moves
        /\ "c1" \in UsesGpu => gpuLock' = b
    BY <1>4 DEF WaitSeed, Moves, UsesGpu
  <2> QED BY <1>0, <1>4, <2>1, MoveKeeps DEF WaitSeed
<1>5. CASE Cleanup(b)
  <2>1. /\ <<pc[b], "poll">> \in Moves
        /\ "poll" \in UsesGpu => gpuLock' = b
    BY <1>5 DEF Cleanup, Moves, UsesGpu
  <2> QED BY <1>0, <1>5, <2>1, MoveKeeps DEF Cleanup
<1>6. CASE PollPc2(b)
  <2>1. /\ <<pc[b], "c2">> \in Moves
        /\ "c2" \in UsesGpu => gpuLock' = b
    BY <1>6 DEF PollPc2, Moves, UsesGpu
  <2> QED BY <1>0, <1>6, <2>1, MoveKeeps DEF PollPc2
<1>7. CASE StartC2(b)
  <2>1. /\ <<pc[b], "c2_gpu">> \in Moves
        /\ "c2_gpu" \in UsesGpu => gpuLock' = b
    BY <1>7 DEF StartC2, Moves, UsesGpu
  <2> QED BY <1>0, <1>7, <2>1, MoveKeeps DEF StartC2
<1> QED BY <1>1, <1>2, <1>3, <1>4, <1>5, <1>6, <1>7

(* The slot of the batch before the last is free, so that batch is through C1. *)
LEMMA LockSlotKeeps == ASSUME IInv, NEW b \in Batches, LockSlot(b) PROVE IInv'
<1> USE DEF IInv
<1>0. /\ pc[b] = "slot" /\ slotLock[Slot(b)] = Null
      /\ slotLock' = [slotLock EXCEPT ![Slot(b)] = b]
      /\ pc' = [pc EXCEPT ![b] = "pc1"]
      /\ UNCHANGED <<apiVars, pc1Vars, pc1Lock, gpuLock, pc2Lock, gpuCount, done2, fileVars, c2Vars>>
  BY DEF LockSlot, Goto
<1>A. pc'[b] = "pc1" /\ \A d \in Batches \ {b} : pc'[d] = pc[d]
  BY <1>0 DEF TypeOK
<1> USE DEF apiVars, pc1Vars, fileVars, c2Vars
<1>1. TypeOK'
  BY <1>0, SlotType DEF TypeOK
<1>2. CtxOK' /\ OrderOK'
  BY <1>0, <1>A DEF CtxOK, OrderOK
<1>3. SlotOK'
  <2>0. b = done1 /\ Batches \subseteq Nat
    BY <1>0, Parameters DEF OrderOK, Batches
  <2>1. ASSUME NEW d \in Batches, d # b, pc[d] \in Holding
        PROVE  /\ Slot(d) # Slot(b) /\ slotLock'[Slot(d)] = d
               /\ b < d + 2
    <3>1. slotLock[Slot(d)] = d /\ d # Null
      BY <2>1, Parameters DEF SlotOK
    <3>2. Slot(d) # Slot(b)
      BY <3>1, <1>0
    <3>3. slotLock'[Slot(d)] = d
      BY <3>1, <3>2, <1>0, SlotType DEF TypeOK
    <3>4. b # d + 2
      BY <3>2, <2>0 DEF Slot, NumSlots
    <3>5. ~(b > d + 2)
      <4> SUFFICES ASSUME b > d + 2 PROVE FALSE
        OBVIOUS
      <4>1. d + 2 \in Batches
        BY <2>0, Parameters DEF Batches
      <4>2. pc[d + 2] \in Before1
        BY <2>0, <2>1, <4>1 DEF SlotOK
      <4>3. d + 2 >= done1
        BY <4>1, <4>2, <2>0 DEF OrderOK, Before1
      <4> QED BY <4>3, <2>0
    <3> QED BY <3>2, <3>3, <3>4, <3>5, <2>0
  <2>2. slotLock'[Slot(b)] = b
    BY <1>0, SlotType DEF TypeOK
  <2>3. \A d \in Batches : d >= b + 2 => pc[d] \in Before1 /\ d # b
    BY <2>0 DEF OrderOK, Before1, TypeOK
  <2> QED BY <1>A, <2>0, <2>1, <2>2, <2>3 DEF SlotOK, Holding
<1>4. \A d \in Batches : Started(d)' = Started(d)
  BY <1>0, <1>A DEF Started
<1>5. OffsetOK'
  BY <1>0, <1>4 DEF OffsetOK
<1>6. DiskOK'
  BY <1>0, <1>A, <1>4 DEF DiskOK, OnDrives
<1>7. GpuOK'
  <2>1. {d \in Batches : pc'[d] \in Past2} = {d \in Batches : pc[d] \in Past2}
    BY <1>0, <1>A DEF Past2
  <2> QED BY <1>0, <1>A, <2>1 DEF GpuOK, UsesGpu
<1>8. FilesOK'
  BY <1>0, <1>A DEF FilesOK, Past2
<1>9. C2OK'
  BY <1>0, <1>A DEF C2OK, Proving, Exited
<1> QED BY <1>1, <1>2, <1>3, <1>5, <1>6, <1>7, <1>8, <1>9

(* The batch takes its offset, the one after its neighbour's. *)
LEMMA StartPc1Keeps == ASSUME IInv, NEW b \in Batches, StartPc1(b) PROVE IInv'
<1> USE DEF IInv
<1>0. /\ pc[b] = "pc1" /\ pc1Lock' = b
      /\ cur' = [cur EXCEPT ![b] = offset]
      /\ offset' = NextOffset(offset)
      /\ ctx' = TRUE
      /\ pc' = [pc EXCEPT ![b] = "write"]
      /\ UNCHANGED <<main, crashed, done1, written, disk, slotLock, gpuLock, pc2Lock,
                     gpuCount, done2, fileVars, c2Vars>>
  BY DEF StartPc1, Goto, InitCtx
<1>A. pc'[b] = "write" /\ \A d \in Batches \ {b} : pc'[d] = pc[d]
  BY <1>0 DEF TypeOK
<1>B. b = done1 /\ Batches \subseteq Nat
  BY <1>0, Parameters DEF OrderOK, Batches
<1>C. Fits(offset) /\ Fits(NextOffset(offset))
  BY NextOffsetApart DEF OffsetOK
<1>D. cur'[b] = offset /\ \A d \in Batches \ {b} : cur'[d] = cur[d]
  BY <1>0 DEF TypeOK
<1> USE DEF fileVars, c2Vars
<1>1. TypeOK'
  <2>1. offset' \in 0 .. MaxOffset
    <3>1. NextOffset(offset) \in 0 .. MaxOffset - SlotSize
      BY <1>C DEF Fits
    <3> QED BY <3>1, <1>0, Parameters
  <2>2. cur' \in [Batches -> 0 .. MaxOffset - SlotSize]
    <3>1. offset \in 0 .. MaxOffset - SlotSize
      BY <1>C DEF Fits
    <3> QED BY <3>1, <1>0 DEF TypeOK
  <2> QED BY <1>0, <2>1, <2>2 DEF TypeOK
<1>2. CtxOK' /\ OrderOK'
  BY <1>0, <1>A DEF CtxOK, OrderOK
<1>3. SlotOK'
  <2>1. pc[b] \in Holding /\ pc[b] \notin Before1
    BY <1>0 DEF Holding, Before1
  <2> QED BY <1>0, <1>A, <2>1, SlotStays
<1>4. ~Started(b) /\ Started(b)' /\ \A d \in Batches \ {b} : Started(d)' = Started(d)
  BY <1>0, <1>A DEF Started
<1>5. OffsetOK'
  <2>1. \A d \in Batches : Started(d) <=> d < b
    <3> SUFFICES ASSUME NEW d \in Batches PROVE Started(d) <=> d < b
      OBVIOUS
    <3>1. d \in Nat /\ b \in Nat /\ b = done1
      BY <1>B
    <3>2. CASE d = b
      BY <1>4, <3>1, <3>2
    <3>3. CASE d # b
      <4>1. /\ pc[d] \in {"new", "turn"} => d >= b
            /\ pc[d] \in {"slot", "pc1", "write"} => d = b
            /\ pc[d] \notin {"new", "turn", "slot", "pc1", "write"} => d < b
        BY <1>0, <3>1 DEF OrderOK
      <4>2. CASE pc[d] \in {"new", "turn"}
        BY <3>1, <4>1, <4>2 DEF Started
      <4>3. CASE pc[d] \notin {"new", "turn", "slot", "pc1", "write"}
        BY <3>1, <4>1, <4>3 DEF Started
      <4> QED BY <3>3, <4>1, <4>2, <4>3
    <3> QED BY <3>2, <3>3
  <2>2. \A d \in Batches : Fits(cur[d])'
    BY <1>C, <1>D DEF OffsetOK, Fits
  <2>3. ASSUME NEW d \in Batches, Started(d)'
        PROVE  IF d + 1 \in Batches /\ Started(d + 1)'
                 THEN cur'[d + 1] = NextOffset(cur'[d])
                 ELSE offset' = NextOffset(cur'[d])
    <3>1. CASE d = b
      <4>1. ~(d + 1 \in Batches /\ Started(d + 1)')
        BY <1>4, <1>B, <2>1, <3>1
      <4> QED BY <4>1, <3>1, <1>0, <1>D
    <3>2. CASE d # b /\ d + 1 = b
      <4>1. Started(d) /\ ~(d + 1 \in Batches /\ Started(d + 1))
        BY <1>4, <3>2, <2>3
      <4>2. offset = NextOffset(cur[d])
        BY <4>1 DEF OffsetOK
      <4> QED BY <4>2, <3>2, <1>4, <1>D
    <3>3. CASE d # b /\ d + 1 # b
      <4>1. Started(d) /\ d < b /\ d + 1 \in Batches /\ d + 1 < b
        <5>1. Started(d) /\ d < b /\ d \in Nat /\ b \in Nat
          BY <1>4, <3>3, <2>1, <2>3, <1>B
        <5> QED BY <5>1, <3>3, Parameters DEF Batches
      <4>2. Started(d + 1) /\ Started(d + 1)'
        BY <4>1, <2>1, <1>4, <3>3
      <4>3. cur[d + 1] = NextOffset(cur[d])
        BY <4>1, <4>2 DEF OffsetOK
      <4> QED BY <4>1, <4>2, <4>3, <3>3, <1>D
    <3> QED BY <3>1, <3>2, <3>3
  <2>4. Fits(offset)'
    BY <1>0, <1>C DEF Fits
  <2>5. \A d \in Batches : (Started(d) =>
            IF d + 1 \in Batches /\ Started(d + 1)
              THEN cur[d + 1] = NextOffset(cur[d])
              ELSE offset = NextOffset(cur[d]))'
    BY <2>3 DEF NextOffset
  <2> QED BY <2>2, <2>4, <2>5 DEF OffsetOK
<1>6. DiskOK'
  <2>1. written[b] = 0
    BY <1>4 DEF DiskOK
  <2> QED BY <1>0, <1>A, <1>4, <1>D, <2>1 DEF DiskOK
<1>7. GpuOK'
  <2>1. {d \in Batches : pc'[d] \in Past2} = {d \in Batches : pc[d] \in Past2}
    BY <1>0, <1>A DEF Past2
  <2> QED BY <1>0, <1>A, <2>1 DEF GpuOK, UsesGpu
<1>8. FilesOK'
  BY <1>0, <1>A DEF FilesOK, Past2
<1>9. C2OK'
  BY <1>0, <1>A DEF C2OK, Proving, Exited
<1> QED BY <1>1, <1>2, <1>3, <1>5, <1>6, <1>7, <1>8, <1>9

(* A page goes to a block that no needed page is in. *)
LEMMA WritePageKeeps == ASSUME IInv, NEW b \in Batches, WritePage(b) PROVE IInv'
<1> USE DEF IInv
<1>0. /\ pc[b] = "write" /\ written[b] \in Pages
      /\ disk' = [disk EXCEPT ![Place(written[b], cur[b])] = <<b, written[b]>>]
      /\ written' = [written EXCEPT ![b] = @ + 1]
      /\ UNCHANGED <<apiVars, pc, done1, offset, cur, lockVars, done2, fileVars, c2Vars>>
  BY DEF WritePage
<1>A. \A d \in Batches : cur[d] \in 0 .. MaxOffset - SlotSize
  BY DEF TypeOK
<1>B. \A d \in Batches : \A page \in Pages :
          Place(page, cur[d]) \in Ctrls \X (0 .. MaxOffset - 1)
  BY <1>A, PlaceInSlot
<1>C. written'[b] = written[b] + 1 /\ \A d \in Batches \ {b} : written'[d] = written[d]
  BY <1>0 DEF TypeOK
<1>D. written \in [Batches -> 0 .. NumPages] /\ Pages = 0 .. NumPages - 1 /\ NumPages \in Nat
  BY Parameters DEF TypeOK
<1>E. \A d \in Batches : \A page \in Pages : ~(d = b /\ page = written[b]) /\ pc[d] \in OnDrives
          => disk'[Place(page, cur[d])] = disk[Place(page, cur[d])]
  <2> SUFFICES ASSUME NEW d \in Batches, NEW page \in Pages, ~(d = b /\ page = written[b]),
                      pc[d] \in OnDrives
               PROVE  Place(page, cur[d]) # Place(written[b], cur[b])
    BY <1>0, <1>B DEF TypeOK
  <2>1. CASE d = b
    BY <2>1, <1>0, <1>A, PlaceIsOwn
  <2>2. CASE d # b
    <3>1. Apart(cur[d], cur[b])
      BY <1>0, <2>2, NeedsAreApart DEF OnDrives, Holding
    <3> QED BY <3>1, <1>0, <1>A, PlaceApart
  <2> QED BY <2>1, <2>2
<1> USE DEF apiVars, lockVars, fileVars, c2Vars
<1>1. TypeOK'
  <2>1. written' \in [Batches -> 0 .. NumPages]
    BY <1>0, <1>D
  <2>2. disk' \in [Ctrls \X (0 .. MaxOffset - 1) -> (Batches \X Pages) \cup {Null}]
    <3>1. <<b, written[b]>> \in Batches \X Pages
      BY <1>0
    <3> QED BY <1>0, <1>B, <3>1 DEF TypeOK
  <2> QED BY <1>0, <2>1, <2>2, Parameters DEF TypeOK
<1>2. CtxOK' /\ OrderOK'
  BY <1>0 DEF CtxOK, OrderOK
<1>3. SlotOK'
  BY <1>0, SlotStays
<1>4. OffsetOK'
  BY <1>0 DEF OffsetOK, Started
<1>5. DiskOK'
  <2>1. \A d \in Batches : Started(d)' = Started(d) /\ Started(b)
    BY <1>0 DEF Started
  <2>2. ASSUME NEW d \in Batches, pc[d] \in OnDrives, NEW page \in 0 .. written'[d] - 1
        PROVE  disk'[Place(page, cur[d])] = <<d, page>>
    <3>1. page \in Pages
      BY <2>2, <1>0, <1>C, <1>D
    <3>2. CASE d = b /\ page = written[b]
      BY <3>1, <3>2, <1>0, <1>B DEF TypeOK
    <3>3. CASE ~(d = b /\ page = written[b])
      <4>1. page \in 0 .. written[d] - 1
        BY <3>3, <2>2, <1>C, <1>D
      <4>2. disk[Place(page, cur[d])] = <<d, page>>
        BY <4>1, <2>2 DEF DiskOK
      <4> QED BY <4>2, <3>1, <3>3, <2>2, <1>E
    <3> QED BY <3>2, <3>3
  <2>3. \A d \in Batches : d # b => written'[d] = written[d]
    BY <1>C
  <2> QED BY <1>0, <2>1, <2>2, <2>3 DEF DiskOK
<1>6. GpuOK'
  BY <1>0 DEF GpuOK
<1>7. FilesOK'
  BY <1>0 DEF FilesOK
<1>8. C2OK'
  BY <1>0 DEF C2OK, Proving, Exited
<1> QED BY <1>1, <1>2, <1>3, <1>4, <1>5, <1>6, <1>7, <1>8

LEMMA EndPc1Keeps == ASSUME IInv, NEW b \in Batches, EndPc1(b) PROVE IInv'
<1> USE DEF IInv
<1>0. /\ pc[b] = "write" /\ written[b] \notin Pages
      /\ done1' = done1 + 1 /\ pc1Lock' = Null
      /\ pc' = [pc EXCEPT ![b] = "pc2"]
      /\ UNCHANGED <<apiVars, offset, cur, written, disk, slotLock, gpuLock, pc2Lock,
                     gpuCount, done2, fileVars, c2Vars>>
  BY DEF EndPc1, Goto
<1>A. pc'[b] = "pc2" /\ \A d \in Batches \ {b} : pc'[d] = pc[d]
  BY <1>0 DEF TypeOK
<1>B. b = done1 /\ b \in Nat /\ b < NumBatches /\ Batches \subseteq Nat
  BY <1>0, Parameters DEF OrderOK, Batches
<1>C. written[b] = NumPages
  <2>1. written[b] \in 0 .. NumPages /\ Pages = 0 .. NumPages - 1 /\ NumPages \in Nat
    BY Parameters DEF TypeOK
  <2> QED BY <1>0, <2>1
<1> USE DEF apiVars, fileVars, c2Vars
<1>1. TypeOK'
  <2>1. done1' \in 0 .. NumBatches
    BY <1>0, <1>B, Parameters
  <2> QED BY <1>0, <2>1 DEF TypeOK
<1>2. CtxOK'
  BY <1>0, <1>A DEF CtxOK
<1>3. OrderOK'
  BY <1>0, <1>A, <1>B DEF OrderOK
<1>4. SlotOK'
  <2>1. pc[b] \in Holding /\ pc[b] \notin Before1
    BY <1>0 DEF Holding, Before1
  <2> QED BY <1>0, <1>A, <2>1, SlotStays
<1>5. Started(b) /\ \A d \in Batches : Started(d)' = Started(d)
  BY <1>0, <1>A DEF Started
<1>6. OffsetOK'
  BY <1>0, <1>5 DEF OffsetOK
<1>7. DiskOK'
  <2>1. pc[b] \in OnDrives
    BY <1>0 DEF OnDrives, Holding
  <2> QED BY <1>0, <1>A, <1>C, <1>5, <2>1 DEF DiskOK, NumPages
<1>8. GpuOK'
  <2>1. {d \in Batches : pc'[d] \in Past2} = {d \in Batches : pc[d] \in Past2}
    BY <1>0, <1>A DEF Past2
  <2> QED BY <1>0, <1>A, <2>1 DEF GpuOK, UsesGpu
<1>9. FilesOK'
  BY <1>0, <1>A DEF FilesOK, Past2
<1>10. C2OK'
  BY <1>0, <1>A DEF C2OK, Proving, Exited
<1> QED BY <1>1, <1>2, <1>3, <1>4, <1>6, <1>7, <1>8, <1>9, <1>10

(* PC2 reads layers that are all in place, and is counted. *)
LEMMA Pc2Keeps == ASSUME IInv, NEW b \in Batches, Pc2(b) PROVE IInv'
<1> USE DEF IInv
<1>0. /\ pc[b] = "pc2_run" /\ ctx' = TRUE
      /\ trees' = [trees EXCEPT ![b] = LayersOf(b)]
      /\ done2' = done2 + 1
      /\ gpuLock' = Null /\ pc2Lock' = Null /\ gpuCount' = Null
      /\ pc' = [pc EXCEPT ![b] = "seed"]
      /\ UNCHANGED <<main, crashed, pc1Vars, pc1Lock, slotLock, c1, output, c2Vars>>
  BY DEF Pc2, Goto, InitCtx
<1>A. pc'[b] = "seed" /\ \A d \in Batches \ {b} : pc'[d] = pc[d]
  BY <1>0 DEF TypeOK
<1>B. LayersOf(b) = TRUE
  BY <1>0, LayersAreThere DEF OnDrives, Holding, LayersOf
<1>C. trees' = [trees EXCEPT ![b] = TRUE]
  BY <1>0, <1>B
<1> DEFINE Past == {d \in Batches : pc[d] \in Past2}
<1>D. /\ {d \in Batches : pc'[d] \in Past2} = Past \cup {b} /\ b \notin Past
      /\ Past \in SUBSET Batches /\ Past \cup {b} \in SUBSET Batches
  BY <1>0, <1>A DEF Past2
<1>E. IsFiniteSet(Batches) /\ Cardinality(Batches) = NumBatches
  <2>1. /\ 0 \in Int /\ NumBatches - 1 \in Int /\ ~(0 > NumBatches - 1)
        /\ (NumBatches - 1) - 0 + 1 = NumBatches
    BY Parameters
  <2> QED BY <2>1, FS_Interval DEF Batches
<1>F. /\ done2 = Cardinality(Past) /\ Cardinality(Past \cup {b}) = done2 + 1
      /\ done2 + 1 \in 0 .. NumBatches
  <2> HIDE DEF Past
  <2>1. done2 = Cardinality(Past)
    BY DEF GpuOK, Past
  <2>2. IsFiniteSet(Past)
    BY <1>D, <1>E, FS_Subset
  <2>3. Cardinality(Past \cup {b}) = done2 + 1
    BY <1>D, <2>1, <2>2, FS_AddElement
  <2>4. Cardinality(Past \cup {b}) <= NumBatches /\ done2 \in Nat
    BY <1>D, <1>E, <2>1, <2>2, FS_Subset, FS_CardinalityType
  <2> QED BY <2>1, <2>3, <2>4, Parameters
<1>G. \A d \in Batches : d # b => pc[d] \notin UsesGpu
  BY <1>0 DEF GpuOK, UsesGpu
<1> HIDE DEF Past
<1> USE DEF pc1Vars, c2Vars
<1>1. TypeOK'
  BY <1>0, <1>C, <1>F DEF TypeOK
<1>2. CtxOK' /\ OrderOK'
  BY <1>0, <1>A DEF CtxOK, OrderOK
<1>3. SlotOK'
  <2>1. pc[b] \in Holding /\ pc[b] \notin Before1
    BY <1>0 DEF Holding, Before1
  <2> QED BY <1>0, <1>A, <2>1, SlotStays
<1>4. Started(b) /\ \A d \in Batches : Started(d)' = Started(d)
  BY <1>0, <1>A DEF Started
<1>5. OffsetOK'
  BY <1>0, <1>4 DEF OffsetOK
<1>6. DiskOK'
  <2>1. pc[b] \in OnDrives
    BY <1>0 DEF OnDrives, Holding
  <2> QED BY <1>0, <1>A, <1>4, <2>1 DEF DiskOK
<1>7. GpuOK'
  BY <1>0, <1>A, <1>D, <1>F, <1>G DEF GpuOK, UsesGpu
<1>8. FilesOK'
  BY <1>0, <1>A, <1>C DEF FilesOK, Past2, TypeOK
<1>9. C2OK'
  BY <1>0, <1>A DEF C2OK, Proving, Exited
<1> QED BY <1>1, <1>2, <1>3, <1>5, <1>6, <1>7, <1>8, <1>9

(* C1 of a sector reads layers and trees that are right. *)
LEMMA C1Keeps == ASSUME IInv, NEW b \in Batches, C1(b) PROVE IInv'
<1> USE DEF IInv
<1>A. LayersOf(b) /\ trees[b] = TRUE
  BY LayersAreThere DEF C1, OnDrives, Holding, FilesOK
<1>0. /\ pc[b] = "c1" /\ c1[b] \in Sectors
      /\ crashed' = (crashed \/ ~ctx) /\ ctx' = TRUE
      /\ output' = [output EXCEPT ![b] = output[b] \cup {c1[b]}]
      /\ c1' = [c1 EXCEPT ![b] = c1[b] + 1]
      /\ UNCHANGED <<main, pc, pc1Vars, lockVars, done2, trees, c2Vars>>
  BY <1>A DEF C1, InitCtx, TypeOK
<1>B. main \notin {"offset", "size"} /\ ctx /\ ~crashed
  BY <1>0 DEF CtxOK
<1>C. c1[b] \in Nat /\ c1[b] < NumSectors /\ NumSectors \in Nat
  BY <1>0, Parameters DEF Sectors
<1> USE DEF pc1Vars, lockVars, c2Vars
<1>1. TypeOK'
  <2>1. c1' \in [Batches -> 0 .. NumSectors]
    <3>1. c1[b] + 1 \in 0 .. NumSectors
      BY <1>C
    <3> QED BY <3>1, <1>0 DEF TypeOK
  <2>2. output' \in [Batches -> SUBSET Sectors]
    BY <1>0 DEF TypeOK
  <2> QED BY <1>0, <1>B, <2>1, <2>2 DEF TypeOK
<1>2. CtxOK' /\ OrderOK'
  BY <1>0, <1>B DEF CtxOK, OrderOK
<1>3. SlotOK'
  BY <1>0, SlotStays
<1>4. OffsetOK' /\ DiskOK'
  BY <1>0 DEF OffsetOK, Started, DiskOK
<1>5. GpuOK'
  BY <1>0 DEF GpuOK
<1>6. FilesOK'
  <2>1. output'[b] = 0 .. c1'[b] - 1
    <3>1. output[b] = 0 .. c1[b] - 1
      BY DEF FilesOK
    <3>2. output'[b] = (0 .. c1[b] - 1) \cup {c1[b]} /\ c1'[b] = c1[b] + 1
      BY <3>1, <1>0 DEF TypeOK
    <3> QED BY <3>2, <1>C
  <2>2. \A d \in Batches \ {b} : output'[d] = output[d] /\ c1'[d] = c1[d]
    BY <1>0 DEF TypeOK
  <2> QED BY <1>0, <2>1, <2>2 DEF FilesOK, Past2
<1>7. C2OK'
  BY <1>0 DEF C2OK, Proving, Exited
<1> QED BY <1>1, <1>2, <1>3, <1>4, <1>5, <1>6, <1>7

LEMMA DropSlotKeeps == ASSUME IInv, NEW b \in Batches, DropSlot(b) PROVE IInv'
<1> USE DEF IInv
<1>0. /\ pc[b] = "c1" /\ c1[b] \notin Sectors
      /\ slotLock' = [slotLock EXCEPT ![Slot(b)] = Null]
      /\ pc' = [pc EXCEPT ![b] = "cleanup"]
      /\ UNCHANGED <<apiVars, pc1Vars, pc1Lock, gpuLock, pc2Lock, gpuCount, done2, fileVars, c2Vars>>
  BY DEF DropSlot, MayDropSlot, Goto
<1>A. pc'[b] = "cleanup" /\ \A d \in Batches \ {b} : pc'[d] = pc[d]
  BY <1>0 DEF TypeOK
<1>B. c1[b] = NumSectors
  <2>1. c1[b] \in 0 .. NumSectors
    BY DEF TypeOK
  <2> QED BY <1>0, <2>1, Parameters DEF Sectors
<1> USE DEF apiVars, pc1Vars, fileVars, c2Vars
<1>1. TypeOK'
  BY <1>0 DEF TypeOK
<1>2. CtxOK' /\ OrderOK'
  BY <1>0, <1>A DEF CtxOK, OrderOK
<1>3. SlotOK'
  <2>1. pc[b] \in Holding /\ pc[b] \notin Before1 /\ pc'[b] \notin Holding
    BY <1>0, <1>A DEF Holding, Before1
  <2>2. ASSUME NEW d \in Batches, pc'[d] \in Holding PROVE slotLock'[Slot(d)] = d
    <3>1. d # b /\ pc[d] \in Holding
      BY <2>1, <2>2, <1>A
    <3>2. slotLock[Slot(d)] = d /\ slotLock[Slot(b)] = b
      BY <3>1, <2>1 DEF SlotOK
    <3>3. Slot(d) # Slot(b)
      BY <3>1, <3>2
    <3> QED BY <3>2, <3>3, <1>0, SlotType DEF TypeOK
  <2> QED BY <2>1, <2>2, <1>A DEF SlotOK
<1>4. Started(b) /\ \A d \in Batches : Started(d)' = Started(d)
  BY <1>0, <1>A DEF Started
<1>5. OffsetOK'
  BY <1>0, <1>4 DEF OffsetOK
<1>6. DiskOK'
  BY <1>0, <1>A, <1>4 DEF DiskOK, OnDrives, Holding
<1>7. GpuOK'
  <2>1. {d \in Batches : pc'[d] \in Past2} = {d \in Batches : pc[d] \in Past2}
    BY <1>0, <1>A DEF Past2
  <2> QED BY <1>0, <1>A, <2>1 DEF GpuOK, UsesGpu
<1>8. FilesOK'
  BY <1>0, <1>A, <1>B DEF FilesOK, Past2
<1>9. C2OK'
  BY <1>0, <1>A DEF C2OK, Proving, Exited
<1> QED BY <1>1, <1>2, <1>3, <1>5, <1>6, <1>7, <1>8, <1>9

(* The C2 process is the only one: its thread has gpu_lock. *)
LEMMA OneC2 ==
    ASSUME IInv, NEW b \in Batches, pc[b] \in UsesGpu, NEW d \in Batches, pc[d] \in UsesGpu
    PROVE  b = d
BY DEF IInv, GpuOK

LEMMA TwoProvers == Cardinality(Provers) = 2
<1>1. Provers = {1} \cup {2} /\ 2 \notin {1}
  BY DEF Provers
<1>2. IsFiniteSet({1}) /\ Cardinality({1}) = 1
  BY FS_Singleton
<1> QED BY <1>1, <1>2, FS_AddElement

LEMMA SpawnC2Keeps == ASSUME IInv, NEW b \in Batches, SpawnC2(b) PROVE IInv'
<1> USE DEF IInv
<1>0. /\ pc[b] = "c2_gpu" /\ sector' = 0 /\ successes' = 0
      /\ prover' = [p \in Provers |-> "loop"]
      /\ pc' = [pc EXCEPT ![b] = "c2_run"]
      /\ UNCHANGED <<apiVars, pc1Vars, lockVars, done2, fileVars, mine, status>>
  BY DEF SpawnC2, Goto
<1>A. pc'[b] = "c2_run" /\ \A d \in Batches \ {b} : pc'[d] = pc[d]
  BY <1>0 DEF TypeOK
<1> USE DEF apiVars, pc1Vars, lockVars, fileVars
<1>1. TypeOK'
  <2>2. sector' \in 0 .. NumSectors + Cardinality(Provers) /\ successes' \in 0 .. NumSectors
    BY <1>0, TwoProvers, Parameters
  <2>3. prover' \in [Provers -> {"off", "loop", "prove", "exit"}]
    BY <1>0
  <2> QED BY <1>0, <2>2, <2>3 DEF TypeOK
<1>2. CtxOK' /\ OrderOK'
  BY <1>0, <1>A DEF CtxOK, OrderOK
<1>3. SlotOK'
  <2>1. pc'[b] \notin Holding /\ pc[b] \notin Before1
    BY <1>0, <1>A DEF Holding, Before1
  <2> QED BY <1>0, <1>A, <2>1, SlotStays
<1>4. Started(b) /\ \A d \in Batches : Started(d)' = Started(d)
  BY <1>0, <1>A DEF Started
<1>5. OffsetOK'
  BY <1>0, <1>4 DEF OffsetOK
<1>6. DiskOK'
  BY <1>0, <1>A, <1>4 DEF DiskOK, OnDrives, Holding
<1>7. GpuOK'
  <2>1. {d \in Batches : pc'[d] \in Past2} = {d \in Batches : pc[d] \in Past2}
    BY <1>0, <1>A DEF Past2
  <2> QED BY <1>0, <1>A, <2>1 DEF GpuOK, UsesGpu
<1>8. FilesOK'
  BY <1>0, <1>A DEF FilesOK, Past2
<1>9. C2OK'
  <2>1. \A p \in Provers : prover'[p] = "loop"
    BY <1>0
  <2>2. Proving(1)' = 0 /\ Proving(2)' = 0 /\ Exited(1)' = 0 /\ Exited(2)' = 0
    BY <2>1 DEF Proving, Exited, Provers
  <2> QED BY <1>0, <1>A, <2>1, <2>2, Parameters DEF C2OK
<1> QED BY <1>1, <1>2, <1>3, <1>5, <1>6, <1>7, <1>8, <1>9

(* What the threads of a C2 process leave alone. *)
LEMMA ProverStays ==
    ASSUME IInv, UNCHANGED <<apiVars, pc, pc1Vars, lockVars, done2, fileVars>>
    PROVE  CtxOK' /\ OrderOK' /\ SlotOK' /\ OffsetOK' /\ DiskOK' /\ GpuOK' /\ FilesOK'
<1> USE DEF IInv, apiVars, pc1Vars, lockVars, fileVars
<1>1. CtxOK' /\ OrderOK' /\ SlotOK'
  BY SlotStays DEF CtxOK, OrderOK
<1>2. OffsetOK' /\ DiskOK'
  BY DEF OffsetOK, DiskOK, Started
<1>3. GpuOK' /\ FilesOK'
  BY DEF GpuOK, FilesOK
<1> QED BY <1>1, <1>2, <1>3

(* The other thread of the process *)
Other(p) == 3 - p

(* The counts of the process, as one thread sees them. *)
LEMMA Counts ==
    ASSUME IInv, NEW p \in Provers, NEW b \in Batches, pc[b] = "c2_run"
    PROVE  /\ p \in Nat /\ Other(p) \in Provers /\ Other(p) # p /\ Provers = {p, Other(p)}
           /\ sector \in Nat /\ successes \in Nat
           /\ successes + Proving(p) + Proving(Other(p))
                 = (IF sector < NumSectors THEN sector ELSE NumSectors)
           /\ sector <= NumSectors + Exited(p) + Exited(Other(p))
           /\ Exited(p) + Exited(Other(p)) > 0 => sector >= NumSectors
<1>0. /\ sector \in Nat /\ successes \in Nat
      /\ successes + Proving(1) + Proving(2)
            = (IF sector < NumSectors THEN sector ELSE NumSectors)
      /\ sector <= NumSectors + Exited(1) + Exited(2)
      /\ Exited(1) + Exited(2) > 0 => sector >= NumSectors
  BY DEF IInv, TypeOK, C2OK
<1>1. \A x \in Provers : Proving(x) \in Nat /\ Exited(x) \in Nat
  BY DEF Proving, Exited
<1>2. Provers = {1, 2}
  BY DEF Provers
<1>3. CASE p = 1
  <2>1. Other(p) = 2
    BY <1>3 DEF Other
  <2> QED BY <1>0, <1>2, <1>3, <2>1
<1>4. CASE p = 2
  <2>1. Other(p) = 1
    BY <1>4 DEF Other
  <2> QED BY <1>0, <1>1, <1>2, <1>4, <2>1, Parameters
<1> QED BY <1>2, <1>3, <1>4

(* A thread takes the next sector, or ends when there is none. *)
LEMMA TakeSectorKeeps == ASSUME IInv, NEW p \in Provers, TakeSector(p) PROVE IInv'
<1> USE DEF IInv
<1>0. /\ prover[p] = "loop"
      /\ prover' = [prover EXCEPT ![p] = IF sector \in Sectors THEN "prove" ELSE "exit"]
      /\ mine' = [mine EXCEPT ![p] = IF sector \in Sectors THEN sector ELSE Null]
      /\ sector' = sector + 1
      /\ UNCHANGED <<apiVars, pc, pc1Vars, lockVars, done2, fileVars, successes, status>>
  BY DEF TakeSector
<1>1. PICK b \in Batches : pc[b] = "c2_run"
  BY <1>0 DEF C2OK
<1> DEFINE o == Other(p)
<1>2. /\ o \in Provers /\ o # p /\ Provers = {p, o} /\ sector \in Nat /\ successes \in Nat
      /\ successes + Proving(p) + Proving(o)
            = (IF sector < NumSectors THEN sector ELSE NumSectors)
      /\ sector <= NumSectors + Exited(p) + Exited(o)
      /\ Exited(p) + Exited(o) > 0 => sector >= NumSectors
  BY <1>1, Counts
<1> HIDE DEF o
<1>3. /\ Proving(p) = 0 /\ Exited(p) = 0 /\ Proving(o)' = Proving(o) /\ Exited(o)' = Exited(o)
      /\ Proving(p)' = (IF sector \in Sectors THEN 1 ELSE 0)
      /\ Exited(p)' = (IF sector \in Sectors THEN 0 ELSE 1)
      /\ Proving(o) \in {0, 1} /\ Exited(o) \in {0, 1}
  BY <1>0, <1>2 DEF Proving, Exited, TypeOK
<1>4. sector \in Sectors <=> sector < NumSectors
  BY <1>2, Parameters DEF Sectors
<1>5. /\ successes + Proving(p)' + Proving(o)'
            = (IF sector' < NumSectors THEN sector' ELSE NumSectors)
      /\ sector' <= NumSectors + Exited(p)' + Exited(o)'
      /\ Exited(p)' + Exited(o)' > 0 => sector' >= NumSectors
  BY <1>0, <1>2, <1>3, <1>4, Parameters
<1>6. C2OK'
  <2>1. \A x \in Provers : prover'[x] # "off" /\ (prover'[x] = "prove" => mine'[x] \in Sectors)
    BY <1>0, <1>1, <1>2 DEF TypeOK, C2OK
  <2>2. \/ p = 1 /\ o = 2
        \/ p = 2 /\ o = 1
    BY DEF o, Other, Provers
  <2>3. /\ (successes + Proving(1) + Proving(2)
              = (IF sector < NumSectors THEN sector ELSE NumSectors))'
        /\ (sector <= NumSectors + Exited(1) + Exited(2))'
        /\ (Exited(1) + Exited(2) > 0 => sector >= NumSectors)'
    BY <1>0, <1>2, <1>3, <1>5, <2>2, Parameters
  <2> QED BY <1>0, <1>1, <2>1, <2>3 DEF C2OK
<1>7. TypeOK'
  <2>1. sector' \in 0 .. NumSectors + Cardinality(Provers)
    BY <1>0, <1>2, <1>3, <1>5, TwoProvers, Parameters
  <2>2. prover' \in [Provers -> {"off", "loop", "prove", "exit"}]
        /\ mine' \in [Provers -> Sectors \cup {Null}]
    BY <1>0 DEF TypeOK
  <2> QED BY <1>0, <2>1, <2>2 DEF TypeOK, apiVars, pc1Vars, lockVars, fileVars
<1> QED BY <1>0, <1>6, <1>7, ProverStays

(* A sector is proved from the output of a C1 that was right. *)
LEMMA ProveSectorKeeps ==
    ASSUME IInv, NEW b \in Batches, NEW p \in Provers, ProveSector(b, p)
    PROVE  IInv'
<1> USE DEF IInv
<1>0. /\ pc[b] = "c2_run" /\ prover[p] = "prove"
      /\ successes' = successes + (IF mine[p] \in output[b] THEN 1 ELSE 0)
      /\ prover' = [prover EXCEPT ![p] = "loop"]
      /\ mine' = [mine EXCEPT ![p] = Null]
      /\ UNCHANGED <<apiVars, pc, pc1Vars, lockVars, done2, fileVars, sector, status>>
  BY DEF ProveSector
<1>1. mine[p] \in output[b]
  BY <1>0 DEF C2OK, FilesOK, Past2, Sectors
<1> DEFINE o == Other(p)
<1>2. /\ o \in Provers /\ o # p /\ Provers = {p, o} /\ sector \in Nat /\ successes \in Nat
      /\ successes + Proving(p) + Proving(o)
            = (IF sector < NumSectors THEN sector ELSE NumSectors)
      /\ sector <= NumSectors + Exited(p) + Exited(o)
      /\ Exited(p) + Exited(o) > 0 => sector >= NumSectors
  BY <1>0, Counts
<1> HIDE DEF o
<1>3. /\ Proving(p) = 1 /\ Exited(p) = 0 /\ Proving(o)' = Proving(o) /\ Exited(o)' = Exited(o)
      /\ Proving(p)' = 0 /\ Exited(p)' = 0
      /\ Proving(o) \in {0, 1} /\ Exited(o) \in {0, 1}
  BY <1>0, <1>2 DEF Proving, Exited, TypeOK
<1>5. /\ successes' + Proving(p)' + Proving(o)'
            = (IF sector' < NumSectors THEN sector' ELSE NumSectors)
      /\ sector' <= NumSectors + Exited(p)' + Exited(o)'
      /\ Exited(p)' + Exited(o)' > 0 => sector' >= NumSectors
      /\ successes' \in 0 .. NumSectors
  BY <1>0, <1>1, <1>2, <1>3, Parameters
<1>6. C2OK'
  <2>1. \A x \in Provers : prover'[x] # "off" /\ (prover'[x] = "prove" => mine'[x] \in Sectors)
    BY <1>0, <1>2 DEF TypeOK, C2OK
  <2>2. \/ p = 1 /\ o = 2
        \/ p = 2 /\ o = 1
    BY DEF o, Other, Provers
  <2>3. /\ (successes + Proving(1) + Proving(2)
              = (IF sector < NumSectors THEN sector ELSE NumSectors))'
        /\ (sector <= NumSectors + Exited(1) + Exited(2))'
        /\ (Exited(1) + Exited(2) > 0 => sector >= NumSectors)'
    BY <1>0, <1>2, <1>3, <1>5, <2>2, Parameters
  <2> QED BY <1>0, <2>1, <2>3 DEF C2OK
<1>7. TypeOK'
  <2>1. prover' \in [Provers -> {"off", "loop", "prove", "exit"}]
        /\ mine' \in [Provers -> Sectors \cup {Null}]
    BY <1>0 DEF TypeOK
  <2> QED BY <1>0, <1>5, <2>1 DEF TypeOK, apiVars, pc1Vars, lockVars, fileVars
<1> QED BY <1>0, <1>6, <1>7, ProverStays

(* Both threads have ended, so all sectors were taken and proved. *)
LEMMA EndC2Keeps == ASSUME IInv, NEW b \in Batches, EndC2(b) PROVE IInv'
<1> USE DEF IInv
<1>0. /\ pc[b] = "c2_run" /\ \A p \in Provers : prover[p] = "exit"
      /\ status' = [status EXCEPT ![b] = NumSectors - successes]
      /\ prover' = [p \in Provers |-> "off"]
      /\ gpuLock' = Null
      /\ pc' = [pc EXCEPT ![b] = "done"]
      /\ UNCHANGED <<apiVars, pc1Vars, pc1Lock, slotLock, pc2Lock, gpuCount, done2,
                     fileVars, sector, mine, successes>>
  BY DEF EndC2, Goto
<1>A. pc'[b] = "done" /\ \A d \in Batches \ {b} : pc'[d] = pc[d]
  BY <1>0 DEF TypeOK
<1>B. NumSectors - successes = 0
  <2>1. Proving(1) = 0 /\ Proving(2) = 0 /\ Exited(1) = 1 /\ Exited(2) = 1
    BY <1>0 DEF Proving, Exited, Provers
  <2>2. /\ successes + Proving(1) + Proving(2)
              = (IF sector < NumSectors THEN sector ELSE NumSectors)
        /\ Exited(1) + Exited(2) > 0 => sector >= NumSectors
        /\ successes \in Nat /\ sector \in Nat
    BY <1>0 DEF C2OK, TypeOK
  <2> QED BY <2>1, <2>2, Parameters
<1>C. \A d \in Batches : d # b => pc[d] \notin UsesGpu
  BY <1>0, OneC2 DEF UsesGpu
<1> USE DEF apiVars, pc1Vars, fileVars
<1>1. TypeOK'
  <2>1. status' \in [Batches -> 0 .. NumSectors]
    BY <1>0, <1>B, Parameters DEF TypeOK
  <2>2. prover' \in [Provers -> {"off", "loop", "prove", "exit"}]
    BY <1>0
  <2> QED BY <1>0, <2>1, <2>2 DEF TypeOK
<1>2. CtxOK' /\ OrderOK'
  BY <1>0, <1>A DEF CtxOK, OrderOK
<1>3. SlotOK'
  <2>1. pc'[b] \notin Holding /\ pc[b] \notin Before1
    BY <1>0, <1>A DEF Holding, Before1
  <2> QED BY <1>0, <1>A, <2>1, SlotStays
<1>4. Started(b) /\ \A d \in Batches : Started(d)' = Started(d)
  BY <1>0, <1>A DEF Started
<1>5. OffsetOK'
  BY <1>0, <1>4 DEF OffsetOK
<1>6. DiskOK'
  BY <1>0, <1>A, <1>4 DEF DiskOK, OnDrives, Holding
<1>7. GpuOK'
  <2>1. {d \in Batches : pc'[d] \in Past2} = {d \in Batches : pc[d] \in Past2}
    BY <1>0, <1>A DEF Past2
  <2> QED BY <1>0, <1>A, <1>C, <2>1 DEF GpuOK, UsesGpu
<1>8. FilesOK'
  BY <1>0, <1>A DEF FilesOK, Past2
<1>9. C2OK'
  <2>1. \A p \in Provers : prover'[p] = "off"
    BY <1>0
  <2>2. \A d \in Batches : pc'[d] # "c2_run"
    BY <1>A, <1>C DEF UsesGpu
  <2>3. status'[b] = 0 /\ \A d \in Batches \ {b} : status'[d] = status[d]
    BY <1>0, <1>B DEF TypeOK
  <2> QED BY <1>A, <2>1, <2>2, <2>3 DEF C2OK
<1> QED BY <1>1, <1>2, <1>3, <1>5, <1>6, <1>7, <1>8, <1>9

-----------------------------------------------------------------------------
(* The invariant, and what follows from it *)

LEMMA InitIInv == Init => IInv
<1> SUFFICES ASSUME Init PROVE IInv
  OBVIOUS
<1> USE Parameters DEF Init
<1>1. TypeOK
  <2>1. 0 \in 0 .. NumSectors + Cardinality(Provers) /\ 0 \in 0 .. MaxOffset - SlotSize
        /\ 0 \in 0 .. Cardinality(Pages) /\ 0 \in 0 .. NumSectors
        /\ 0 \in 0 .. NumBatches /\ 0 \in 0 .. MaxOffset
    BY TwoProvers
  <2>2. /\ cur \in [Batches -> 0 .. MaxOffset - SlotSize]
        /\ written \in [Batches -> 0 .. Cardinality(Pages)]
        /\ disk \in [Ctrls \X (0 .. MaxOffset - 1) -> (Batches \X Pages) \cup {Null}]
        /\ c1 \in [Batches -> 0 .. NumSectors] /\ output \in [Batches -> SUBSET Sectors]
        /\ status \in [Batches -> 0 .. NumSectors]
    BY <2>1
  <2>3. /\ slotLock \in [0 .. NumSlots - 1 -> Batches \cup {Null}]
        /\ trees \in [Batches -> {TRUE, FALSE, Null}]
        /\ mine \in [Provers -> Sectors \cup {Null}]
        /\ prover \in [Provers -> {"off", "loop", "prove", "exit"}]
    OBVIOUS
  <2> QED BY <2>1, <2>2, <2>3 DEF TypeOK
<1>2. CtxOK /\ SlotOK
  BY DEF CtxOK, SlotOK, Holding
<1>3. OrderOK
  BY DEF OrderOK, Batches
<1>4. OffsetOK /\ DiskOK
  BY DEF OffsetOK, Fits, DiskOK, Started, OnDrives, Holding
<1>5. GpuOK
  <2>1. {b \in Batches : pc[b] \in Past2} = {}
    BY DEF Past2
  <2> QED BY <2>1, FS_EmptySet DEF GpuOK, UsesGpu
<1>6. FilesOK
  BY DEF FilesOK, Past2
<1>7. C2OK
  BY DEF C2OK
<1> QED BY <1>1, <1>2, <1>3, <1>4, <1>5, <1>6, <1>7 DEF IInv

LEMMA NextIInv == IInv /\ [Next]_vars => IInv'
<1> SUFFICES ASSUME IInv, [Next]_vars PROVE IInv'
  OBVIOUS
<1>1. CASE UNCHANGED vars
  <2>1. UNCHANGED <<apiVars, pc, pc1Vars, lockVars, done2, fileVars>> /\ UNCHANGED c2Vars
    BY <1>1 DEF vars
  <2>2. TypeOK' /\ C2OK'
    BY <2>1 DEF IInv, TypeOK, C2OK, Proving, Exited, apiVars, pc1Vars, lockVars, fileVars, c2Vars
  <2> QED BY <2>1, <2>2, ProverStays DEF IInv
<1>2. CASE Main
  BY <1>2, GetMaxBlockOffsetKeeps, GetSlotSizeKeeps, JoinKeeps DEF Main
<1>3. ASSUME NEW b \in Batches, Batch(b) PROVE IInv'
  BY <1>3, WaitKeeps, LockSlotKeeps, StartPc1Keeps, WritePageKeeps, EndPc1Keeps, Pc2Keeps,
     C1Keeps, DropSlotKeeps, SpawnC2Keeps, EndC2Keeps DEF Batch
<1>4. ASSUME NEW p \in Provers, Prover(p) PROVE IInv'
  BY <1>4, TakeSectorKeeps, ProveSectorKeeps DEF Prover
<1> QED BY <1>1, <1>2, <1>3, <1>4 DEF Next

(* The invariant holds in every reachable state. *)
THEOREM IInvAlways == Spec => []IInv
BY InitIInv, NextIInv, PTL DEF Spec

(* What PC1 has written of a batch's layers stays in place until its C1 is   *)
(* through, however many batches follow it and however the drives wrap, and  *)
(* no page is beyond the end of a drive; every variable has its type.        *)
THEOREM LayersAreKeptAlways == Spec => []LayersAreKept
<1>1. IInv => LayersAreKept
  BY DEF IInv, DiskOK, LayersAreKept, OnDrives, Holding
<1> QED BY <1>1, IInvAlways, PTL

(* Every C2 process ends with status 0: all sectors of its batch are proved, *)
(* for any number of batches and sectors.                                    *)
THEOREM EverySectorIsProvedAlways == Spec => []EverySectorIsProved
<1>1. IInv => EverySectorIsProved
  BY DEF IInv, C2OK, EverySectorIsProved
<1> QED BY <1>1, IInvAlways, PTL

(* Nobody uses sealing_ctx before init_ctx has made it. *)
THEOREM ContextIsReadyAlways == Spec => []ContextIsReady
<1>1. IInv => ContextIsReady
  BY DEF IInv, CtxOK, ContextIsReady
<1> QED BY <1>1, IInvAlways, PTL
=============================================================================
