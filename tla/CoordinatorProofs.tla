-------------------------- MODULE CoordinatorProofs --------------------------
(***************************************************************************)
(* For any number of hashers, any batch size, ring size and node count:    *)
(* the slots of coord_ring are never overwritten under a hasher, and what  *)
(* the coordinator reports has been hashed.                                *)
(*                                                                         *)
(* The inductive invariant names, for each slot, the batch it holds or     *)
(* will hold next (BatchAt), and says that all the counters of the         *)
(* handshake agree on it: a hasher's index is the slot of the batch it is  *)
(* at, coord_done_count counts the hashers beyond the slot's batch, and    *)
(* the data of a published batch is in place.                              *)
(***************************************************************************)
EXTENDS Coordinator, FiniteSetTheorems, TLAPS

(* The batch in slot s: the slots hold consecutive batches from the tail on. *)
BatchAt(s) == completed + (IF s >= tail THEN s - tail ELSE s - tail + BatchCount)
Beyond(b)  == {h \in Hashers : hashed[h] > b}

(* The ring and the coordinator's place in it *)
CursorsOK ==
    /\ completed <= published
    /\ cpc \in {"fill", "unlock", "publish", "done"} =>
          size = published - completed + 1 /\ BatchAt(batchIdx) = published
    /\ cpc \in {"recover", "relock"} =>
          size = published - completed /\ size = BatchCount - 1
    /\ cpc = "reserve" =>
          size = published - completed /\ size < BatchCount - 1
    /\ reported <= completed

(* Each hasher, between what is recycled and what is published *)
HashersOK ==
    \A h \in Hashers :
        /\ completed <= hashed[h] /\ hashed[h] <= published
        /\ seen[h] <= published
        /\ hpc[h] \in {"hash", "mark"} => hashed[h] < seen[h]
        /\ hpc[h] = "hash" => off[h] < BatchSize
        /\ hpc[h] = "mark" => off[h] = BatchSize
        /\ hpc[h] \in {"check", "lock", "locked", "spin"} => off[h] = 0
        /\ BatchAt(idx[h]) = hashed[h]

(* coord_done_count counts the hashers beyond the slot's batch *)
CountsOK ==
    /\ \A s \in Slots : ~(cpc = "relock" /\ s = tail) =>
                            doneCount[s] = Cardinality(Beyond(BatchAt(s)))
    /\ cpc = "relock" => /\ doneCount[tail] = 0
                         /\ \A h \in Hashers : hashed[h] > completed

(* The parents of every published batch, and of the gathered part of the *)
(* current one, are in their slots.                                      *)
RingOK ==
    /\ \A s \in Slots : BatchAt(s) < published =>
          \A p \in Positions : ring[s][p] = BatchAt(s) * BatchSize + p
    /\ cpc \in {"fill", "unlock", "publish"} =>
          \A p \in Positions : p < batchCount =>
              ring[batchIdx][p] = published * BatchSize + p
    /\ cpc = "fill" => /\ node = published * BatchSize + batchCount
                       /\ batchCount < BatchSize
    /\ cpc \in {"unlock", "publish"} => /\ batchCount = BatchSize
                                        /\ node + 1 = published * BatchSize + BatchSize
    /\ cpc \in {"recover", "relock", "reserve"} =>
          node + 1 = published * BatchSize

IInv == TypeOK /\ CursorsOK /\ HashersOK /\ CountsOK /\ RingOK

-----------------------------------------------------------------------------
(* Facts about the slots of the ring *)

(* The slots hold different batches, all less than BatchCount from the tail. *)
LEMMA BatchAtFacts ==
    ASSUME TypeOK
    PROVE  /\ \A s \in Slots : /\ BatchAt(s) \in Nat
                               /\ completed <= BatchAt(s)
                               /\ BatchAt(s) < completed + BatchCount
           /\ \A s, t \in Slots : BatchAt(s) = BatchAt(t) => s = t
           /\ BatchAt(tail) = completed
<1>1. /\ tail \in Int /\ 0 <= tail /\ tail < BatchCount
      /\ completed \in Nat /\ BatchCount \in Nat
  BY CoordinatorAssumption DEF TypeOK, Slots
<1>2. ASSUME NEW s \in Slots
      PROVE  /\ BatchAt(s) \in Nat
             /\ completed <= BatchAt(s)
             /\ BatchAt(s) < completed + BatchCount
  BY <1>1 DEF BatchAt, Slots
<1>3. ASSUME NEW s \in Slots, NEW t \in Slots, BatchAt(s) = BatchAt(t)
      PROVE  s = t
  BY <1>1, <1>3 DEF BatchAt, Slots
<1>4. BatchAt(tail) = completed
  BY <1>1 DEF BatchAt
<1> QED BY <1>2, <1>3, <1>4

(* The next slot holds the next batch, except that the tail follows the last. *)
LEMMA BatchAtIncr ==
    ASSUME TypeOK, NEW s \in Slots, BatchAt(s) + 1 < completed + BatchCount
    PROVE  Incr(s) \in Slots /\ BatchAt(Incr(s)) = BatchAt(s) + 1
BY CoordinatorAssumption DEF TypeOK, BatchAt, Slots, Incr

(* Releasing the tail gives its slot to the batch one lap later. *)
LEMMA BatchAtRelease ==
    ASSUME TypeOK, tail' = Incr(tail), completed' = completed + 1
    PROVE  \A s \in Slots : BatchAt(s)' = IF s = tail THEN BatchAt(s) + BatchCount
                                                      ELSE BatchAt(s)
BY CoordinatorAssumption DEF TypeOK, BatchAt, Slots, Incr

(* The head slot is the one of the batch size after the tail's. *)
LEMMA BatchAtHead ==
    ASSUME TypeOK
    PROVE  Head \in Slots /\ BatchAt(Head) = completed + size
BY CoordinatorAssumption DEF TypeOK, BatchAt, Slots, Head, Add

(* A count of all hashers means that each of them is beyond the batch. *)
LEMMA AllBeyond ==
    ASSUME TypeOK, NEW b \in Nat, Cardinality(Beyond(b)) >= NumThreads
    PROVE  \A h \in Hashers : hashed[h] > b
<1>1. IsFiniteSet(Hashers) BY CoordinatorAssumption
<1>2. Beyond(b) \subseteq Hashers BY DEF Beyond
<1>3. /\ IsFiniteSet(Beyond(b))
      /\ Cardinality(Beyond(b)) <= Cardinality(Hashers)
      /\ Cardinality(Hashers) = Cardinality(Beyond(b)) => Hashers = Beyond(b)
  BY <1>1, <1>2, FS_Subset
<1>4. Cardinality(Beyond(b)) \in Nat /\ Cardinality(Hashers) \in Nat
  BY <1>1, <1>3, FS_CardinalityType
<1>5. Cardinality(Hashers) = Cardinality(Beyond(b))
  BY <1>3, <1>4 DEF NumThreads
<1> QED BY <1>3, <1>5 DEF Beyond

(* A batch no hasher is beyond has count 0. *)
LEMMA NoneBeyond ==
    ASSUME NEW b, \A h \in Hashers : ~(hashed[h] > b)
    PROVE  Cardinality(Beyond(b)) = 0
<1>1. Beyond(b) = {} BY DEF Beyond
<1> QED BY <1>1, FS_EmptySet

(* The counts stay when neither the tail nor a hasher moves. *)
LEMMA Unmoved ==
    ASSUME completed' = completed, tail' = tail, hashed' = hashed
    PROVE  /\ \A s : BatchAt(s)' = BatchAt(s)
           /\ \A s : Beyond(BatchAt(s))' = Beyond(BatchAt(s))
BY DEF BatchAt, Beyond

(* Every hasher, and the published batches, are less than a lap from the tail. *)
LEMMA WithinLap ==
    ASSUME IInv
    PROVE  /\ published < completed + BatchCount
           /\ cpc \in {"fill", "unlock", "publish", "done"} =>
                published + 1 < completed + BatchCount
           /\ \A h \in Hashers : hashed[h] < completed + BatchCount
<1>1. /\ published \in Nat /\ completed \in Nat /\ size \in Nat
      /\ BatchCount \in Nat /\ size <= BatchCount - 1
      /\ \A h \in Hashers : hashed[h] \in Nat /\ hashed[h] <= published
  BY CoordinatorAssumption DEF IInv, TypeOK, HashersOK
<1>2. /\ cpc \in {"fill", "unlock", "publish", "done"} =>
            size = published - completed + 1
      /\ cpc \in {"recover", "relock", "reserve"} =>
            size = published - completed
      /\ cpc \in {"fill", "unlock", "publish", "done"}
           \/ cpc \in {"recover", "relock", "reserve"}
  BY DEF IInv, TypeOK, CursorsOK
<1> QED BY <1>1, <1>2

-----------------------------------------------------------------------------
(* The inductive invariant holds initially. *)
LEMMA InitIInv == Init => IInv
<1> SUFFICES ASSUME Init PROVE IInv OBVIOUS
<1> USE CoordinatorAssumption
<1>1. TypeOK BY DEF Init, TypeOK, Slots, Positions
<1>2. \A s \in Slots : BatchAt(s) = s
  BY <1>1 DEF Init, BatchAt, Slots
<1>3. CursorsOK BY <1>2 DEF Init, CursorsOK, Slots
<1>4. HashersOK BY <1>2 DEF Init, HashersOK, Slots
<1>5. CountsOK
  <2>1. ASSUME NEW s \in Slots PROVE doneCount[s] = Cardinality(Beyond(BatchAt(s)))
    <3>1. \A h \in Hashers : ~(hashed[h] > BatchAt(s)) BY <1>2 DEF Init, Slots
    <3>2. Cardinality(Beyond(BatchAt(s))) = 0 BY <3>1, NoneBeyond
    <3> QED BY <3>2 DEF Init
  <2> QED BY <2>1 DEF CountsOK, Init
<1>6. RingOK BY <1>2 DEF Init, RingOK, Slots, Positions
<1> QED BY <1>1, <1>3, <1>4, <1>5, <1>6 DEF IInv

(* Every step of the coordinator preserves it: one step per action, and under *)
(* it one per conjunct.                                                       *)
LEMMA CoordinatorIInv == IInv /\ CoordinatorNext => IInv'
<1> SUFFICES ASSUME IInv, CoordinatorNext PROVE IInv' OBVIOUS
<1> USE CoordinatorAssumption DEF IInv, coordVars, sharedVars, hasherVars
<1>1. CASE Gather
  <2> USE <1>1 DEF Gather
  <2>0. batchCount \in Positions /\ batchIdx \in Slots /\ BatchAt(batchIdx) = published
    BY DEF TypeOK, RingOK, CursorsOK, Positions
  <2>1. TypeOK' BY <2>0 DEF TypeOK, RingOK
  <2>2. CursorsOK' BY Unmoved DEF CursorsOK
  <2>3. HashersOK' BY Unmoved DEF HashersOK
  <2>4. CountsOK' BY Unmoved DEF CountsOK
  <2>5. RingOK'
    <3>1. \A s \in Slots : BatchAt(s) < published => ring'[s] = ring[s]
      BY <2>0 DEF TypeOK
    <3>2. \A p \in Positions : ring'[batchIdx][p] =
                                  IF p = batchCount THEN node ELSE ring[batchIdx][p]
      BY <2>0 DEF TypeOK
    <3>3. \A p \in Positions : p < batchCount' =>
                                  ring'[batchIdx][p] = published * BatchSize + p
      BY <3>2 DEF RingOK, Positions, TypeOK
    <3>4. /\ cpc' = "fill" => /\ node' = published * BatchSize + batchCount'
                              /\ batchCount' < BatchSize
          /\ cpc' = "unlock" => /\ batchCount' = BatchSize
                                /\ node' + 1 = published * BatchSize + BatchSize
      BY DEF RingOK, TypeOK
    <3> QED BY <3>1, <3>3, <3>4, Unmoved DEF RingOK
  <2> QED BY <2>1, <2>2, <2>3, <2>4, <2>5
<1>2. CASE Unlock
  <2> USE <1>2 DEF Unlock
  <2>1. TypeOK' BY DEF TypeOK
  <2>2. CursorsOK' BY Unmoved DEF CursorsOK
  <2>3. HashersOK' BY Unmoved DEF HashersOK
  <2>4. CountsOK' BY Unmoved DEF CountsOK
  <2>5. RingOK' BY Unmoved DEF RingOK
  <2> QED BY <2>1, <2>2, <2>3, <2>4, <2>5
<1>3. CASE Publish
  <2> USE <1>3 DEF Publish
  <2>1. TypeOK' BY DEF TypeOK
  <2>2. CursorsOK'
    <3>1. /\ size = published - completed + 1 /\ completed <= published
          /\ reported <= completed /\ size <= BatchCount - 1
          /\ size \in Nat /\ published \in Nat /\ completed \in Nat
      BY DEF CursorsOK, TypeOK
    <3>2. /\ size' = published' - completed' /\ completed' <= published'
          /\ reported' <= completed'
          /\ \/ cpc' = "recover" /\ size' = BatchCount - 1
             \/ cpc' = "reserve" /\ size' < BatchCount - 1
      BY <3>1 DEF IsFull
    <3> QED BY <3>2 DEF CursorsOK
  <2>3. HashersOK' BY Unmoved DEF HashersOK, TypeOK
  <2>4. CountsOK' BY Unmoved DEF CountsOK
  <2>5. RingOK'
    <3>1. ASSUME NEW s \in Slots, BatchAt(s) < published + 1, NEW p \in Positions
          PROVE  ring[s][p] = BatchAt(s) * BatchSize + p
      <4>1. CASE BatchAt(s) < published BY <4>1 DEF RingOK
      <4>2. CASE BatchAt(s) = published
        <5>1. s = batchIdx BY <4>2, BatchAtFacts DEF TypeOK, CursorsOK
        <5>2. p < batchCount BY DEF RingOK, Positions
        <5> QED BY <5>1, <5>2, <4>2 DEF RingOK
      <4>3. BatchAt(s) \in Nat /\ published \in Nat BY BatchAtFacts DEF TypeOK
      <4> QED BY <3>1, <4>1, <4>2, <4>3
    <3>2. node + 1 = (published + 1) * BatchSize
      <4>1. published \in Int /\ BatchSize \in Int BY DEF TypeOK
      <4>2. (published + 1) * BatchSize = published * BatchSize + BatchSize
        BY <4>1
      <4> QED BY <4>2 DEF RingOK
    <3> QED BY <3>1, <3>2, Unmoved DEF RingOK, TypeOK
  <2> QED BY <2>1, <2>2, <2>3, <2>4, <2>5
<1>4. CASE Recover
  <2> USE <1>4 DEF Recover
  <2>0. \A h \in Hashers : hashed[h] > completed
    <3>1. doneCount[tail] = Cardinality(Beyond(completed))
      BY BatchAtFacts DEF CountsOK, TypeOK
    <3>2. completed \in Nat BY DEF TypeOK
    <3>3. NumThreads \in Nat BY FS_CardinalityType DEF NumThreads
    <3> QED BY <3>1, <3>2, <3>3, AllBeyond
  <2>1. TypeOK' BY DEF TypeOK
  <2>2. CursorsOK' BY Unmoved DEF CursorsOK
  <2>3. HashersOK' BY Unmoved DEF HashersOK
  <2>4. CountsOK' BY Unmoved, <2>0 DEF CountsOK, TypeOK
  <2>5. RingOK' BY Unmoved DEF RingOK
  <2> QED BY <2>1, <2>2, <2>3, <2>4, <2>5
<1>5. CASE Relock
  <2> USE <1>5 DEF Relock
  <2>0. \A h \in Hashers : hashed[h] > completed BY DEF CountsOK
  <2>r. \A s \in Slots : BatchAt(s)' = IF s = tail THEN BatchAt(s) + BatchCount
                                                  ELSE BatchAt(s)
    BY BatchAtRelease
  <2>a. completed + 1 <= published
    BY <2>0 DEF HashersOK, TypeOK
  <2>1. TypeOK'
    <3>1. tail' \in Slots BY DEF TypeOK, Incr, Slots
    <3>2. size' \in 0 .. BatchCount - 1 BY <2>a DEF TypeOK, CursorsOK
    <3> QED BY <3>1, <3>2 DEF TypeOK
  <2>2. CursorsOK'
    <3>1. cpc = "fill" => batchIdx # tail BY <2>a, BatchAtFacts DEF CursorsOK, TypeOK
    <3> QED BY <3>1, <2>r, <2>a DEF CursorsOK, TypeOK
  <2>3. HashersOK'
    <3>1. \A h \in Hashers : idx[h] # tail
      BY <2>0, BatchAtFacts DEF HashersOK, TypeOK
    <3> QED BY <3>1, <2>r, <2>0 DEF HashersOK, TypeOK
  <2>4. CountsOK'
    <3>1. ASSUME NEW s \in Slots
          PROVE  doneCount'[s] = Cardinality(Beyond(BatchAt(s)))'
      <4>1. CASE s = tail
        <5>1. BatchAt(s)' = completed + BatchCount BY <2>r, <4>1, BatchAtFacts DEF TypeOK
        <5>2. \A h \in Hashers : ~(hashed[h] > completed + BatchCount)
          BY WithinLap DEF TypeOK
        <5>3. Cardinality(Beyond(completed + BatchCount)) = 0
          BY <5>2, NoneBeyond
        <5>4. Beyond(BatchAt(s))' = Beyond(completed + BatchCount)
          BY <5>1 DEF Beyond
        <5>5. doneCount'[s] = 0 BY <4>1 DEF TypeOK, CountsOK
        <5> QED BY <5>3, <5>4, <5>5
      <4>2. CASE s # tail
        <5>1. Beyond(BatchAt(s))' = Beyond(BatchAt(s)) BY <2>r, <4>2 DEF Beyond
        <5>2. doneCount'[s] = doneCount[s] BY <4>2 DEF TypeOK
        <5> QED BY <5>1, <5>2, <4>2 DEF CountsOK
      <4> QED BY <4>1, <4>2
    <3> QED BY <3>1 DEF CountsOK
  <2>5. RingOK'
    <3>1. \A s \in Slots : BatchAt(s)' < published => s # tail /\ BatchAt(s)' = BatchAt(s)
      BY <2>r, WithinLap, BatchAtFacts DEF TypeOK
    <3> QED BY <3>1 DEF RingOK
  <2> QED BY <2>1, <2>2, <2>3, <2>4, <2>5
<1>6. CASE Reserve
  <2> USE <1>6 DEF Reserve
  <2>h. Head \in Slots /\ BatchAt(Head) = completed + size BY BatchAtHead
  <2>1. TypeOK'
    <3>1. size' \in 0 .. BatchCount - 1 BY DEF TypeOK, CursorsOK
    <3>2. updates' \in 0 .. UpdateInterval - 1 /\ reported' \in Nat BY DEF TypeOK
    <3> QED BY <2>h, <3>1, <3>2 DEF TypeOK
  <2>2. CursorsOK'
    <3>1. /\ BatchAt(Head) = published /\ size + 1 = published - completed + 1
          /\ reported' <= completed /\ completed <= published
      BY <2>h DEF CursorsOK, TypeOK
    <3> QED BY <3>1, Unmoved DEF CursorsOK
  <2>3. HashersOK' BY Unmoved DEF HashersOK
  <2>4. CountsOK' BY Unmoved DEF CountsOK
  <2>5. RingOK'
    <3>1. \A p \in Positions : ~(p < batchCount') BY DEF Positions
    <3>2. node' = published * BatchSize + batchCount' BY DEF RingOK, TypeOK
    <3> QED BY <3>1, <3>2, Unmoved DEF RingOK
  <2> QED BY <2>1, <2>2, <2>3, <2>4, <2>5
<1>7. CASE Drain
  <2> USE <1>7 DEF Drain
  <2>0. \A h \in Hashers : hashed[h] > completed
    <3>1. doneCount[tail] = Cardinality(Beyond(completed))
      BY BatchAtFacts DEF CountsOK, TypeOK
    <3>2. completed \in Nat BY DEF TypeOK
    <3> QED BY <3>1, <3>2, AllBeyond
  <2>r. \A s \in Slots : BatchAt(s)' = IF s = tail THEN BatchAt(s) + BatchCount
                                                  ELSE BatchAt(s)
    BY BatchAtRelease
  <2>a. completed + 1 <= published
    BY <2>0 DEF HashersOK, TypeOK
  <2>1. TypeOK'
    <3>1. tail' \in Slots BY DEF TypeOK, Incr, Slots
    <3>2. size' \in 0 .. BatchCount - 1 BY <2>a DEF TypeOK, CursorsOK
    <3> QED BY <3>1, <3>2 DEF TypeOK
  <2>2. CursorsOK'
    <3>1. cpc = "fill" => batchIdx # tail BY <2>a, BatchAtFacts DEF CursorsOK, TypeOK
    <3> QED BY <3>1, <2>r, <2>a DEF CursorsOK, TypeOK
  <2>3. HashersOK'
    <3>1. \A h \in Hashers : idx[h] # tail
      BY <2>0, BatchAtFacts DEF HashersOK, TypeOK
    <3> QED BY <3>1, <2>r, <2>0 DEF HashersOK, TypeOK
  <2>4. CountsOK'
    <3>1. ASSUME NEW s \in Slots
          PROVE  doneCount'[s] = Cardinality(Beyond(BatchAt(s)))'
      <4>1. CASE s = tail
        <5>1. BatchAt(s)' = completed + BatchCount BY <2>r, <4>1, BatchAtFacts DEF TypeOK
        <5>2. \A h \in Hashers : ~(hashed[h] > completed + BatchCount)
          BY WithinLap DEF TypeOK
        <5>3. Cardinality(Beyond(completed + BatchCount)) = 0
          BY <5>2, NoneBeyond
        <5>4. Beyond(BatchAt(s))' = Beyond(completed + BatchCount)
          BY <5>1 DEF Beyond
        <5>5. doneCount'[s] = 0 BY <4>1 DEF TypeOK, CountsOK
        <5> QED BY <5>3, <5>4, <5>5
      <4>2. CASE s # tail
        <5>1. Beyond(BatchAt(s))' = Beyond(BatchAt(s)) BY <2>r, <4>2 DEF Beyond
        <5>2. doneCount'[s] = doneCount[s] BY <4>2 DEF TypeOK
        <5> QED BY <5>1, <5>2, <4>2 DEF CountsOK
      <4> QED BY <4>1, <4>2
    <3> QED BY <3>1 DEF CountsOK
  <2>5. RingOK'
    <3>1. \A s \in Slots : BatchAt(s)' < published => s # tail /\ BatchAt(s)' = BatchAt(s)
      BY <2>r, WithinLap, BatchAtFacts DEF TypeOK
    <3> QED BY <3>1 DEF RingOK
  <2> QED BY <2>1, <2>2, <2>3, <2>4, <2>5
<1>8. CASE Finish
  <2> USE <1>8 DEF Finish
  <2>1. TypeOK' BY DEF TypeOK
  <2>2. CursorsOK' BY Unmoved DEF CursorsOK, TypeOK
  <2>3. HashersOK' BY Unmoved DEF HashersOK
  <2>4. CountsOK' BY Unmoved DEF CountsOK
  <2>5. RingOK' BY Unmoved DEF RingOK
  <2> QED BY <2>1, <2>2, <2>3, <2>4, <2>5
<1> QED BY <1>1, <1>2, <1>3, <1>4, <1>5, <1>6, <1>7, <1>8 DEF CoordinatorNext

(* Every step of a hasher preserves it. *)
LEMMA HasherIInv == ASSUME NEW h \in Hashers PROVE IInv /\ HasherNext(h) => IInv'
<1> SUFFICES ASSUME IInv, HasherNext(h) PROVE IInv' OBVIOUS
<1> USE CoordinatorAssumption DEF IInv, coordVars, sharedVars
<1>1. CASE Check(h)
  <2> USE <1>1 DEF Check
  <2>1. TypeOK' BY DEF TypeOK
  <2>2. CursorsOK' BY Unmoved DEF CursorsOK
  <2>3. HashersOK' BY Unmoved DEF HashersOK, TypeOK
  <2>4. CountsOK' BY Unmoved DEF CountsOK
  <2>5. RingOK' BY Unmoved DEF RingOK
  <2> QED BY <2>1, <2>2, <2>3, <2>4, <2>5
<1>2. CASE LockReady(h)
  <2> USE <1>2 DEF LockReady
  <2>1. TypeOK' BY DEF TypeOK
  <2>2. CursorsOK' BY Unmoved DEF CursorsOK
  <2>3. HashersOK' BY Unmoved DEF HashersOK, TypeOK
  <2>4. CountsOK' BY Unmoved DEF CountsOK
  <2>5. RingOK' BY Unmoved DEF RingOK
  <2> QED BY <2>1, <2>2, <2>3, <2>4, <2>5
<1>3. CASE UnlockReady(h)
  <2> USE <1>3 DEF UnlockReady
  <2>1. TypeOK' BY DEF TypeOK
  <2>2. CursorsOK' BY Unmoved DEF CursorsOK
  <2>3. HashersOK' BY Unmoved DEF HashersOK, TypeOK
  <2>4. CountsOK' BY Unmoved DEF CountsOK
  <2>5. RingOK' BY Unmoved DEF RingOK
  <2> QED BY <2>1, <2>2, <2>3, <2>4, <2>5
<1>4. CASE Spin(h)
  <2> USE <1>4 DEF Spin
  <2>1. TypeOK' BY DEF TypeOK
  <2>2. CursorsOK' BY Unmoved DEF CursorsOK
  <2>3. HashersOK' BY Unmoved DEF HashersOK, TypeOK
  <2>4. CountsOK' BY Unmoved DEF CountsOK
  <2>5. RingOK' BY Unmoved DEF RingOK
  <2> QED BY <2>1, <2>2, <2>3, <2>4, <2>5
<1>5. CASE Hash(h)
  <2> USE <1>5 DEF Hash
  <2>1. TypeOK' BY DEF HashersOK, TypeOK
  <2>2. CursorsOK' BY Unmoved DEF CursorsOK
  <2>3. HashersOK'
    <3>1. ASSUME NEW g \in Hashers, g # h
          PROVE  hpc'[g] = hpc[g] /\ off'[g] = off[g]
      BY <3>1 DEF TypeOK
    <3>2. /\ off'[h] = off[h] + 1 /\ off[h] < BatchSize /\ off[h] \in Nat
          /\ hpc'[h] = IF off[h] + 1 = BatchSize THEN "mark" ELSE "hash"
      BY DEF TypeOK, HashersOK
    <3>3. /\ hpc'[h] \in {"hash", "mark"}
          /\ hpc'[h] = "hash" => off'[h] < BatchSize
          /\ hpc'[h] = "mark" => off'[h] = BatchSize
      BY <3>2
    <3> QED BY <3>1, <3>3, Unmoved DEF HashersOK
  <2>4. CountsOK' BY Unmoved DEF CountsOK
  <2>5. RingOK' BY Unmoved DEF RingOK
  <2> QED BY <2>1, <2>2, <2>3, <2>4, <2>5
<1>6. CASE Mark(h)
  <2> USE <1>6 DEF Mark
  <2>0. \A s : BatchAt(s)' = BatchAt(s) BY DEF BatchAt
  <2>a. /\ idx[h] \in Slots /\ BatchAt(idx[h]) = hashed[h]
        /\ hashed[h] \in Nat /\ hashed[h] < published
    BY DEF HashersOK, TypeOK
  <2>b. Incr(idx[h]) \in Slots /\ BatchAt(Incr(idx[h])) = hashed[h] + 1
    <3>1. hashed[h] + 1 < completed + BatchCount BY <2>a, WithinLap DEF TypeOK
    <3> QED BY <2>a, <3>1, BatchAtIncr
  <2>1. TypeOK' BY <2>a, <2>b DEF TypeOK
  <2>2. CursorsOK' BY <2>0 DEF CursorsOK
  <2>3. HashersOK'
    <3>1. ASSUME NEW g \in Hashers, g # h
          PROVE  /\ hashed'[g] = hashed[g] /\ seen'[g] = seen[g]
                 /\ hpc'[g] = hpc[g] /\ off'[g] = off[g] /\ idx'[g] = idx[g]
      BY <3>1 DEF TypeOK
    <3>2. /\ hashed'[h] = hashed[h] + 1 /\ seen'[h] = seen[h] /\ off'[h] = 0
          /\ hpc'[h] = IF hashed[h] + 1 < seen[h] THEN "hash" ELSE "check"
          /\ idx'[h] = Incr(idx[h])
      BY DEF TypeOK
    <3>3. /\ completed <= hashed[h] + 1 /\ hashed[h] + 1 <= published
          /\ seen[h] <= published /\ 0 < BatchSize
      BY <2>a DEF HashersOK, TypeOK
    <3> QED BY <2>0, <2>b, <3>1, <3>2, <3>3 DEF HashersOK
  <2>4. CountsOK'
    <3>1. ASSUME NEW s \in Slots, ~(cpc = "relock" /\ s = tail)
          PROVE  doneCount'[s] = Cardinality(Beyond(BatchAt(s)))'
      <4>1. CASE s = idx[h]
        <5>1. Beyond(BatchAt(s))' = Beyond(BatchAt(s)) \cup {h}
          BY <2>0, <2>a, <4>1 DEF Beyond, TypeOK
        <5>2. h \notin Beyond(BatchAt(s)) BY <2>a, <4>1 DEF Beyond
        <5>3. IsFiniteSet(Beyond(BatchAt(s)))
          <6>1. Beyond(BatchAt(s)) \subseteq Hashers BY DEF Beyond
          <6> QED BY <6>1, FS_Subset
        <5>4. Cardinality(Beyond(BatchAt(s)) \cup {h})
                = Cardinality(Beyond(BatchAt(s))) + 1
          BY <5>2, <5>3, FS_AddElement
        <5>5. doneCount'[s] = doneCount[s] + 1 BY <4>1 DEF TypeOK
        <5> QED BY <3>1, <5>1, <5>4, <5>5 DEF CountsOK
      <4>2. CASE s # idx[h]
        <5>1. BatchAt(s) # hashed[h] /\ BatchAt(s) \in Nat
          BY <2>a, <4>2, BatchAtFacts
        <5>2. Beyond(BatchAt(s))' = Beyond(BatchAt(s))
          <6>1. ASSUME NEW g \in Hashers
                PROVE  hashed'[g] > BatchAt(s) <=> hashed[g] > BatchAt(s)
            <7>1. hashed'[g] = IF g = h THEN hashed[h] + 1 ELSE hashed[g]
              BY DEF TypeOK
            <7> QED BY <2>a, <5>1, <7>1
          <6> QED BY <2>0, <6>1 DEF Beyond
        <5>3. doneCount'[s] = doneCount[s] BY <4>2 DEF TypeOK
        <5> QED BY <3>1, <5>2, <5>3 DEF CountsOK
      <4> QED BY <4>1, <4>2
    <3>2. ASSUME cpc = "relock"
          PROVE  doneCount'[tail] = 0 /\ \A g \in Hashers : hashed'[g] > completed
      <4>1. idx[h] # tail
        BY <3>2, <2>a, BatchAtFacts DEF CountsOK, TypeOK
      <4> QED BY <3>2, <4>1 DEF CountsOK, TypeOK
    <3> QED BY <3>1, <3>2 DEF CountsOK
  <2>5. RingOK' BY <2>0 DEF RingOK
  <2> QED BY <2>1, <2>2, <2>3, <2>4, <2>5
<1> QED BY <1>1, <1>2, <1>3, <1>4, <1>5, <1>6 DEF HasherNext

(* The invariant is inductive. *)
LEMMA NextIInv == IInv /\ [Next]_vars => IInv'
<1> SUFFICES ASSUME IInv, [Next]_vars PROVE IInv' OBVIOUS
<1>1. CASE UNCHANGED <<coordVars, sharedVars, hasherVars>> /\ avail' \in Nat
  <2> USE <1>1 DEF IInv, coordVars, sharedVars, hasherVars
  <2>1. TypeOK' BY DEF TypeOK
  <2>2. CursorsOK' BY Unmoved DEF CursorsOK
  <2>3. HashersOK' BY Unmoved DEF HashersOK
  <2>4. CountsOK' BY Unmoved DEF CountsOK
  <2>5. RingOK' BY Unmoved DEF RingOK
  <2> QED BY <2>1, <2>2, <2>3, <2>4, <2>5
<1>2. ParentsReady => UNCHANGED <<coordVars, sharedVars, hasherVars>> /\ avail' \in Nat
  BY DEF ParentsReady, IInv, TypeOK
<1>3. UNCHANGED vars => UNCHANGED <<coordVars, sharedVars, hasherVars>> /\ avail' \in Nat
  BY DEF vars, IInv, TypeOK
<1> QED BY <1>1, <1>2, <1>3, CoordinatorIInv, HasherIInv DEF Next, Terminated

-----------------------------------------------------------------------------
(* In every reachable state the handshake's counters agree. *)
THEOREM IInvAlways == Spec => []IInv
BY InitIInv, NextIInv, PTL DEF Spec

(* Type correctness. *)
THEOREM TypeCorrect == Spec => []TypeOK
<1>1. IInv => TypeOK BY DEF IInv
<1> QED BY <1>1, IInvAlways, PTL

(* No slot of coord_ring is overwritten under a hasher, nor published before  *)
(* it is whole, whatever the number of hashers and the sizes of the ring: the *)
(* slot of the batch a hasher is at is one of the published ones.             *)
THEOREM BatchIntactAlways == Spec => []BatchIntact
<1>1. IInv => BatchIntact
  <2> SUFFICES ASSUME IInv, NEW h \in Hashers, hpc[h] = "hash", NEW p \in Positions
               PROVE  ring[idx[h]][p] = hashed[h] * BatchSize + p
    BY DEF BatchIntact
  <2>1. /\ idx[h] \in Slots /\ BatchAt(idx[h]) = hashed[h]
        /\ hashed[h] < seen[h] /\ seen[h] <= published
        /\ hashed[h] \in Nat /\ seen[h] \in Nat /\ published \in Nat
    BY DEF IInv, HashersOK, TypeOK
  <2>2. BatchAt(idx[h]) < published BY <2>1
  <2>3. ring[idx[h]][p] = BatchAt(idx[h]) * BatchSize + p
    BY <2>1, <2>2 DEF IInv, RingOK
  <2> QED BY <2>1, <2>3
<1> QED BY <1>1, IInvAlways, PTL

(* The orchestrator may rely on coordinator_node: every hasher has hashed the *)
(* nodes reported there.                                                      *)
THEOREM ReportedAreHashedAlways == Spec => []ReportedAreHashed
<1>1. IInv => ReportedAreHashed
  BY DEF IInv, CursorsOK, HashersOK, ReportedAreHashed, TypeOK
<1> QED BY <1>1, IInvAlways, PTL

(* The ring's capacity keeps the gathered batches within COORD_BATCH_COUNT of *)
(* every hasher's.                                                            *)
LEMMA CopiedWithinWindow ==
    ASSUME IInv, cpc = "fill", NEW h \in Hashers
    PROVE  node - CoordBatchNodeCount < ThrNode(h)
<1>1. /\ published + 1 < completed + BatchCount
      /\ completed <= hashed[h]
      /\ {published, completed, hashed[h], off[h]} \subseteq Nat
      /\ BatchSize \in Nat /\ BatchCount \in Nat
  BY WithinLap, CoordinatorAssumption DEF IInv, HashersOK, TypeOK
<1>2. /\ node = published * BatchSize + batchCount
      /\ batchCount \in Nat /\ batchCount < BatchSize
  BY DEF IInv, RingOK, TypeOK
<1>3. published + 1 <= hashed[h] + BatchCount BY <1>1
<1>4. (published + 1) * BatchSize <= (hashed[h] + BatchCount) * BatchSize
  BY <1>1, <1>3
<1>5. /\ (published + 1) * BatchSize = published * BatchSize + BatchSize
      /\ (hashed[h] + BatchCount) * BatchSize
           = hashed[h] * BatchSize + BatchSize * BatchCount
      /\ {published * BatchSize, hashed[h] * BatchSize,
          BatchSize * BatchCount} \subseteq Nat
  BY <1>1
<1> QED BY <1>1, <1>2, <1>4, <1>5 DEF ThrNode, CoordBatchNodeCount

(* A parent at COORD_BATCH_NODE_COUNT or more is hashed when the coordinator *)
(* copies it.                                                                *)
THEOREM CopiedParentsAreHashedAlways == Spec => []CopiedParentsAreHashed
<1>1. IInv => CopiedParentsAreHashed
  BY CopiedWithinWindow DEF CopiedParentsAreHashed
<1> QED BY <1>1, IInvAlways, PTL

-----------------------------------------------------------------------------
(* The coordinator implements SectorWorker. *)

(* No node beyond NodeStop is gathered or published. *)
Busy == {"unlock", "publish", "recover", "relock", "reserve"}
StopOK ==
    /\ published * BatchSize <= NodeStop
    /\ cpc = "fill" => node <= NodeStop
    /\ cpc \in Busy => node < NodeStop
    /\ cpc = "done" => published * BatchSize <= node

(* Together with IInv this is inductive. *)
LEMMA NextStopOK == IInv /\ IInv' /\ StopOK /\ [Next]_vars => StopOK'
<1> SUFFICES ASSUME IInv, IInv', StopOK, [Next]_vars PROVE StopOK' OBVIOUS
<1>0. NodeStop \in Nat /\ node \in Nat /\ BatchSize \in Nat /\ published \in Nat
      /\ batchCount \in Nat /\ published * BatchSize \in Nat
  BY CoordinatorAssumption DEF IInv, TypeOK
<1>1. CASE Gather
  BY <1>0, <1>1 DEF Gather, StopOK, Busy
<1>2. CASE Publish
  <2>1. cpc' \in {"recover", "reserve"} /\ node' = node /\ node < NodeStop
    BY <1>2 DEF Publish, StopOK, Busy
  <2>2. published' * BatchSize = node + 1
    BY <2>1 DEF IInv, RingOK
  <2> QED BY <1>0, <2>1, <2>2 DEF StopOK, Busy
<1>3. CASE Unlock \/ Recover \/ Relock
  BY <1>3 DEF Unlock, Recover, Relock, StopOK, Busy
<1>4. CASE Reserve
  BY <1>0, <1>4 DEF Reserve, StopOK, Busy
<1>5. CASE Drain
  BY <1>5 DEF Drain, StopOK, Busy
<1>6. CASE Finish
  <2>1. published * BatchSize <= node
    BY <1>0, <1>6 DEF Finish, IInv, RingOK
  <2> QED BY <1>6, <2>1 DEF Finish, StopOK, Busy
<1>7. CASE UNCHANGED <<cpc, node, published>>
  BY <1>7 DEF StopOK
<1>8. ASSUME NEW h \in Hashers, HasherNext(h) PROVE UNCHANGED <<cpc, node, published>>
  BY <1>8 DEF HasherNext, Check, LockReady, UnlockReady, Spin, Hash, Mark,
              coordVars, sharedVars
<1>9. ParentsReady \/ UNCHANGED vars => UNCHANGED <<cpc, node, published>>
  BY DEF ParentsReady, vars, coordVars, sharedVars
<1> QED BY <1>1, <1>2, <1>3, <1>4, <1>5, <1>6, <1>7, <1>8, <1>9
        DEF Next, CoordinatorNext, Terminated

(* Products with BatchSize are monotone. *)
LEMMA Scaled ==
    ASSUME NEW a \in Nat, NEW b \in Nat, a <= b
    PROVE  /\ a * BatchSize \in Nat /\ b * BatchSize \in Nat
           /\ a * BatchSize <= b * BatchSize
           /\ (a + 1) * BatchSize = a * BatchSize + BatchSize
BY CoordinatorAssumption

(* Gathering a node takes it: it is less than Window ahead of every hasher. *)
LEMMA GatherTakes ==
    ASSUME IInv, Gather PROVE Worker!Take
<1>1. /\ Gathered = node /\ Gathered' = node + 1
      /\ UNCHANGED <<avail, hashed, off, reported>>
  BY DEF Gather, Gathered, hasherVars
<1>2. \A h \in Hashers : node - CoordBatchNodeCount < ThrNode(h)
  BY CopiedWithinWindow DEF Gather
<1>3. node \in Nat /\ CoordBatchNodeCount \in Nat
  BY CoordinatorAssumption DEF IInv, TypeOK, CoordBatchNodeCount
<1>4. ASSUME NEW h \in Hashers PROVE ThrNode(h) \in Nat
  <2>1. hashed[h] \in Nat /\ off[h] \in Nat
    BY CoordinatorAssumption DEF IInv, TypeOK
  <2>2. hashed[h] * BatchSize \in Nat BY <2>1, Scaled
  <2> QED BY <2>1, <2>2 DEF ThrNode
<1>5. \A h \in Hashers : node - ThrNode(h) < CoordBatchNodeCount
  BY <1>2, <1>3, <1>4
<1>6. UNCHANGED [h \in Hashers |-> ThrNode(h)] BY <1>1 DEF ThrNode
<1> QED BY <1>1, <1>5, <1>6 DEF Worker!Take, Gather

(* Hashing a node is the hasher's step: the node has been gathered. *)
LEMMA HashHashes ==
    ASSUME IInv, StopOK, NEW h \in Hashers, Hash(h) PROVE Worker!HashNode(h)
<1> USE DEF Hash, coordVars, sharedVars
<1>1. UNCHANGED <<avail, Gathered, reported, hashed>> BY DEF Gathered
<1>2. /\ hashed[h] \in Nat /\ published \in Nat /\ hashed[h] + 1 <= published
      /\ off[h] \in Nat /\ off[h] < BatchSize /\ BatchSize \in Nat
  BY CoordinatorAssumption DEF IInv, TypeOK, HashersOK
<1>3. /\ hashed[h] * BatchSize \in Nat /\ published * BatchSize \in Nat
      /\ hashed[h] * BatchSize + BatchSize <= published * BatchSize
  <2>1. hashed[h] + 1 \in Nat /\ hashed[h] <= published BY <1>2
  <2>2. (hashed[h] + 1) * BatchSize <= published * BatchSize
    BY <1>2, <2>1, Scaled
  <2>3. /\ hashed[h] * BatchSize \in Nat /\ published * BatchSize \in Nat
        /\ (hashed[h] + 1) * BatchSize = hashed[h] * BatchSize + BatchSize
    BY <1>2, <2>1, Scaled
  <2> QED BY <2>2, <2>3
<1>4. published * BatchSize <= Gathered /\ Gathered \in Nat
  <2>1. node \in Nat /\ batchCount \in Nat BY DEF IInv, TypeOK
  <2>2. CASE cpc = "fill" BY <1>2, <1>3, <2>1, <2>2 DEF IInv, RingOK, Gathered
  <2>3. CASE cpc \in {"unlock", "publish"}
    BY <1>2, <1>3, <2>1, <2>3 DEF IInv, RingOK, Gathered
  <2>4. CASE cpc \in {"recover", "relock", "reserve"}
    BY <1>2, <1>3, <2>1, <2>4 DEF IInv, RingOK, Gathered
  <2>5. CASE cpc = "done"
    BY <1>3, <2>1, <2>5 DEF StopOK, Gathered
  <2> QED BY <2>2, <2>3, <2>4, <2>5 DEF IInv, TypeOK
<1> DEFINE done == [w \in Hashers |-> ThrNode(w)]
<1>5. done[h] < Gathered BY <1>2, <1>3, <1>4 DEF ThrNode
<1>6. done' = [done EXCEPT ![h] = @ + 1]
  <2>1. /\ off' = [off EXCEPT ![h] = @ + 1] /\ off \in [Hashers -> 0 .. BatchSize]
    BY DEF IInv, TypeOK
  <2>2. \A w \in Hashers : off'[w] = IF w = h THEN off[h] + 1 ELSE off[w]
    BY <2>1
  <2>3. \A w \in Hashers : ThrNode(w)' = IF w = h THEN ThrNode(h) + 1 ELSE ThrNode(w)
    BY <1>1, <1>2, <1>3, <2>2 DEF ThrNode
  <2> QED BY <2>3
<1> QED BY <1>1, <1>5, <1>6 DEF Worker!HashNode

(* Counting a batch as done moves no hasher. *)
LEMMA MarkStutters ==
    ASSUME IInv, NEW h \in Hashers, Mark(h) PROVE UNCHANGED Worker!vars
<1> USE DEF Mark, coordVars
<1>1. UNCHANGED <<avail, Gathered, reported>> BY DEF Gathered
<1>2. /\ hashed[h] \in Nat /\ off[h] = BatchSize /\ BatchSize \in Nat
      /\ hashed \in [Hashers -> Nat] /\ off \in [Hashers -> 0 .. BatchSize]
  BY CoordinatorAssumption DEF IInv, TypeOK, HashersOK
<1>3. /\ (hashed[h] + 1) * BatchSize = hashed[h] * BatchSize + BatchSize
      /\ hashed[h] * BatchSize \in Nat
  BY <1>2, Scaled
<1>4. \A w \in Hashers : /\ hashed'[w] = IF w = h THEN hashed[h] + 1 ELSE hashed[w]
                         /\ off'[w] = IF w = h THEN 0 ELSE off[w]
  BY <1>2
<1>5. \A w \in Hashers : ThrNode(w)' = ThrNode(w)
  BY <1>2, <1>3, <1>4 DEF ThrNode
<1>6. UNCHANGED [w \in Hashers |-> ThrNode(w)] BY <1>5
<1> QED BY <1>1, <1>6 DEF Worker!vars

(* A report, when it says more than the last one, is of hashed nodes. *)
LEMMA ReportReports ==
    ASSUME IInv, IInv', StopOK, reported' = completed,
           UNCHANGED <<avail, Gathered, hashed, off, published>>
    PROVE  [Worker!Next]_Worker!vars
<1>1. /\ {completed, published, reported} \subseteq Nat
      /\ reported <= completed /\ completed <= published
      /\ BatchSize \in Nat \ {0} /\ NodeStop \in Nat
  BY CoordinatorAssumption DEF IInv, TypeOK, CursorsOK
<1>2. UNCHANGED [w \in Hashers |-> ThrNode(w)] BY DEF ThrNode
<1>3. CASE reported = completed
  BY <1>2, <1>3 DEF Worker!vars
<1>4. CASE reported < completed
  <2>1. /\ completed * BatchSize \in Nat /\ reported * BatchSize \in Nat
        /\ completed * BatchSize <= NodeStop
    BY <1>1, Scaled DEF StopOK
  <2>2. reported * BatchSize < completed * BatchSize
    <3>1. (reported + 1) * BatchSize <= completed * BatchSize
      BY <1>1, <1>4, Scaled
    <3>2. (reported + 1) * BatchSize = reported * BatchSize + BatchSize
      BY <1>1, Scaled
    <3> QED BY <1>1, <2>1, <3>1, <3>2
  <2>3. reported' * BatchSize \in reported * BatchSize + 1 .. NodeStop
    BY <2>1, <2>2
  <2>4. ASSUME NEW w \in Hashers PROVE completed * BatchSize <= ThrNode(w)
    <3>1. /\ completed <= hashed[w] /\ hashed[w] \in Nat /\ off[w] \in Nat
      BY CoordinatorAssumption DEF IInv, TypeOK, HashersOK
    <3>2. /\ hashed[w] * BatchSize \in Nat
          /\ completed * BatchSize <= hashed[w] * BatchSize
      BY <1>1, <3>1, Scaled
    <3> QED BY <2>1, <3>1, <3>2 DEF ThrNode
  <2>5. Worker!Report
    BY <1>2, <2>3, <2>4 DEF Worker!Report
  <2> QED BY <2>5 DEF Worker!Next
<1> QED BY <1>1, <1>3, <1>4

(* Every step is one of SectorWorker's or leaves its state alone. *)
LEMMA StepImplements ==
    IInv /\ IInv' /\ StopOK /\ [Next]_vars => [Worker!Next]_Worker!vars
<1> SUFFICES ASSUME IInv, IInv', StopOK, [Next]_vars
             PROVE  [Worker!Next]_Worker!vars
  OBVIOUS
<1>0. ASSUME UNCHANGED <<avail, Gathered, hashed, off, reported>>
      PROVE  UNCHANGED Worker!vars
  <2>1. UNCHANGED [w \in Hashers |-> ThrNode(w)] BY <1>0 DEF ThrNode
  <2> QED BY <1>0, <2>1 DEF Worker!vars
<1>1. CASE ParentsReady
  <2>1. UNCHANGED <<Gathered, hashed, off, reported>>
    BY <1>1 DEF ParentsReady, Gathered, coordVars, sharedVars, hasherVars
  <2>2. UNCHANGED [w \in Hashers |-> ThrNode(w)] BY <2>1 DEF ThrNode
  <2>3. avail' \in avail + 1 .. NodeStop
    BY <1>1, CoordinatorAssumption DEF ParentsReady, IInv, TypeOK
  <2>4. Worker!Provide BY <2>1, <2>2, <2>3 DEF Worker!Provide
  <2> QED BY <2>4 DEF Worker!Next
<1>2. CASE Gather
  BY <1>2, GatherTakes DEF Worker!Next
<1>3. CASE Unlock \/ Publish \/ Recover \/ Relock \/ Drain
  <2>1. UNCHANGED <<avail, Gathered, hashed, off, reported>>
    BY <1>3 DEF Unlock, Publish, Recover, Relock, Drain, Gathered, hasherVars
  <2> QED BY <1>0, <2>1
<1>4. CASE Reserve
  <2>1. UNCHANGED <<avail, Gathered, hashed, off, published>>
    BY <1>4 DEF Reserve, Gathered, hasherVars
  <2>2. CASE reported' = completed BY <2>1, <2>2, ReportReports
  <2>3. CASE reported' = reported BY <1>0, <2>1, <2>3
  <2> QED BY <1>4, <2>2, <2>3 DEF Reserve
<1>5. CASE Finish
  <2>1. UNCHANGED <<avail, Gathered, hashed, off, published>> /\ reported' = completed
    BY <1>5 DEF Finish, Gathered, hasherVars
  <2> QED BY <2>1, ReportReports
<1>6. ASSUME NEW h \in Hashers, HasherNext(h)
      PROVE  [Worker!Next]_Worker!vars
  <2>1. CASE Check(h) \/ LockReady(h) \/ UnlockReady(h) \/ Spin(h)
    <3>1. UNCHANGED <<avail, Gathered, hashed, off, reported>>
      BY <2>1 DEF Check, LockReady, UnlockReady, Spin, Gathered, coordVars, sharedVars
    <3> QED BY <1>0, <3>1
  <2>2. CASE Hash(h)
    BY <2>2, HashHashes DEF Worker!Next
  <2>3. CASE Mark(h)
    BY <2>3, MarkStutters
  <2> QED BY <1>6, <2>1, <2>2, <2>3 DEF HasherNext
<1>7. CASE UNCHANGED vars
  <2>1. UNCHANGED <<avail, Gathered, hashed, off, reported>>
    BY <1>7 DEF vars, Gathered, coordVars, sharedVars, hasherVars
  <2> QED BY <1>0, <2>1
<1> QED BY <1>1, <1>2, <1>3, <1>4, <1>5, <1>6, <1>7
        DEF Next, CoordinatorNext, Terminated

(* The threads, mutexes and counters of coordinator_t do what SectorWorker     *)
(* says, for any number of hashers and any sizes: nodes are hashed in order    *)
(* after they are gathered, gathered less than COORD_BATCH_NODE_COUNT ahead of *)
(* every hasher, and reported after all hashers are through.                   *)
THEOREM Refinement == Spec => ImplementsWorker
<1>1. Init => StopOK
  <2>1. Init => published * BatchSize = 0 BY CoordinatorAssumption DEF Init
  <2> QED BY <2>1, CoordinatorAssumption DEF Init, StopOK, Busy
<1>2. Init => Worker!Init
  <2> SUFFICES ASSUME Init PROVE Worker!Init OBVIOUS
  <2>1. Gathered = 0 /\ reported * BatchSize = 0
    BY CoordinatorAssumption DEF Init, Gathered
  <2>2. \A h \in Hashers : ThrNode(h) = 0
    BY CoordinatorAssumption DEF Init, ThrNode
  <2> QED BY <2>1, <2>2 DEF Worker!Init, Init
<1> QED BY <1>1, <1>2, IInvAlways, NextStopOK, StepImplements, PTL
        DEF Spec, ImplementsWorker, Worker!Spec

=============================================================================
