---------------------------- MODULE MtFifoProofs ----------------------------
(***************************************************************************)
(* For a FIFO of any size and any set of requests: mt_fifo_t implements    *)
(* BoundedFifo, and dequeue() never comes back empty-handed.               *)
(*                                                                         *)
(* The invariant says that what each side has counted stays true: only the *)
(* consumer makes room and only the producer makes requests available, so  *)
(* a stale count is too small and never too large.                         *)
(***************************************************************************)
EXTENDS MtFifo, SequenceTheorems, TLAPS

IInv ==
    /\ TypeOK
    /\ free + Size(head, tail) <= Capacity
    /\ available <= Size(head, tail)
    /\ ppc = "filled" => free > 0 /\ store[head] \in Items
    /\ cpc \in {"read", "advance"} => available > 0
    /\ cpc = "advance" => obj = store[tail]
    /\ NeverNull

-----------------------------------------------------------------------------
(* Sizes are those of a ring with one slot left empty. *)
LEMMA SizeFacts ==
    ASSUME NEW h \in Index, NEW t \in Index
    PROVE  /\ Size(h, t) \in 0 .. Capacity
           /\ Succ(h) \in Index
           /\ Size(h, t) < Capacity => Size(Succ(h), t) = Size(h, t) + 1
           /\ Size(h, t) > 0 => Size(h, Succ(t)) = Size(h, t) - 1
BY MtFifoAssumption DEF Index, Capacity, Size, Succ

(* The slots that wait are not the one that is filled next. *)
LEMMA SlotFacts ==
    ASSUME TypeOK, NEW i \in 1 .. Size(head, tail)
    PROVE  Slot(i) \in Index /\ Slot(i) # head
BY MtFifoAssumption DEF TypeOK, Index, Size, Slot

(* Waiting is a sequence of Size(head, tail) requests. *)
WaitingOK ==
    /\ Waiting \in Seq(Items \cup {None})
    /\ Len(Waiting) = Size(head, tail)
    /\ \A i \in 1 .. Size(head, tail) : Waiting[i] = store[Slot(i)]

LEMMA WaitingFacts == TypeOK => WaitingOK
<1> SUFFICES ASSUME TypeOK PROVE WaitingOK OBVIOUS
<1>1. Size(head, tail) \in Nat BY SizeFacts, MtFifoAssumption DEF TypeOK, Capacity
<1>2. \A i \in 1 .. Size(head, tail) : store[Slot(i)] \in Items \cup {None}
  BY SlotFacts DEF TypeOK
<1>3. Waiting \in [1 .. Size(head, tail) -> Items \cup {None}]
  BY <1>2 DEF Waiting
<1> QED BY <1>1, <1>3 DEF Waiting, WaitingOK

LEMMA WaitingFactsNext == TypeOK' => WaitingOK'
BY WaitingFacts, PTL

-----------------------------------------------------------------------------
(* The counts hold initially. *)
LEMMA InitIInv == Init => IInv
BY MtFifoAssumption
   DEF Init, IInv, TypeOK, Index, Capacity, Size, NeverNull

(* Every step keeps them. *)
LEMMA NextIInv == IInv /\ [Next]_vars => IInv'
<1> SUFFICES ASSUME IInv, [Next]_vars PROVE IInv' OBVIOUS
<1> USE MtFifoAssumption
<1>0. /\ Size(head, tail) \in 0 .. Capacity /\ Capacity \in Nat
      /\ Succ(head) \in Index /\ Succ(tail) \in Index
      /\ Size(head, tail) < Capacity => Size(Succ(head), tail) = Size(head, tail) + 1
      /\ Size(head, tail) > 0 => Size(head, Succ(tail)) = Size(head, tail) - 1
  BY SizeFacts DEF IInv, TypeOK, Capacity
<1>1. CASE FreeCount
  BY <1>0, <1>1 DEF FreeCount, consumerVars, IInv, TypeOK, NeverNull
<1>2. CASE SendNoMore
  BY <1>0, <1>2 DEF SendNoMore, consumerVars, IInv, TypeOK, NeverNull
<1>3. ASSUME NEW x \in Items, FillSlot(x) PROVE IInv'
  <2> USE <1>3 DEF FillSlot, consumerVars
  <2>1. TypeOK' BY DEF IInv, TypeOK
  <2>2. store'[head] \in Items BY DEF IInv, TypeOK
  <2>3. cpc = "advance" => tail # head
    BY <1>0 DEF IInv, Size, TypeOK, Index
  <2>4. cpc' = "advance" => obj' = store'[tail']
    BY <2>3 DEF IInv, TypeOK
  <2> QED BY <2>1, <2>2, <2>4 DEF IInv, NeverNull
<1>4. CASE AdvanceHead
  <2> USE <1>4 DEF AdvanceHead, consumerVars
  <2>1. TypeOK' BY <1>0 DEF IInv, TypeOK
  <2>2. Size(head', tail') = Size(head, tail) + 1 BY <1>0 DEF IInv, TypeOK
  <2> QED BY <1>0, <2>1, <2>2 DEF IInv, TypeOK, NeverNull
<1>5. CASE Available
  BY <1>0, <1>5 DEF Available, producerVars, IInv, TypeOK, NeverNull
<1>6. CASE LookAgain
  BY <1>0, <1>6 DEF LookAgain, producerVars, IInv, TypeOK, NeverNull
<1>7. CASE ReadSlot
  BY <1>0, <1>7 DEF ReadSlot, producerVars, IInv, TypeOK, NeverNull
<1>8. CASE AdvanceTail
  <2> USE <1>8 DEF AdvanceTail, producerVars
  <2>1. TypeOK' BY <1>0 DEF IInv, TypeOK
  <2>2. Size(head', tail') = Size(head, tail) - 1 BY <1>0 DEF IInv, TypeOK
  <2> QED BY <1>0, <2>1, <2>2 DEF IInv, TypeOK, NeverNull
<1>9. CASE UNCHANGED vars
  BY <1>9 DEF vars, producerVars, consumerVars, IInv, TypeOK, NeverNull
<1> QED BY <1>1, <1>2, <1>3, <1>4, <1>5, <1>6, <1>7, <1>8, <1>9 DEF Next

(* What each side has counted stays true. *)
THEOREM IInvAlways == Spec => []IInv
BY InitIInv, NextIInv, PTL DEF Spec

(* node_rw_t never fails its assertion that a request is there. *)
THEOREM NeverNullAlways == Spec => []NeverNull
<1>1. IInv => NeverNull BY DEF IInv
<1> QED BY <1>1, IInvAlways, PTL

-----------------------------------------------------------------------------
(* Nothing changes for BoundedFifo while head, tail, the waiting slots and *)
(* out stay as they are.                                                   *)
LEMMA WaitingUnchanged ==
    ASSUME TypeOK, TypeOK', head' = head, tail' = tail,
           \A i \in 1 .. Size(head, tail) : store'[Slot(i)] = store[Slot(i)]
    PROVE  Waiting' = Waiting
<1>1. \A i : Slot(i)' = Slot(i) BY DEF Slot
<1> QED BY <1>1 DEF Waiting

(* Moving head appends the slot that was filled. *)
LEMMA HeadAppends ==
    ASSUME IInv, IInv', AdvanceHead
    PROVE  Waiting' = Append(Waiting, store[head])
<1> USE DEF AdvanceHead, consumerVars
<1> DEFINE S == Items \cup {None}
<1>1. /\ Waiting \in Seq(S) /\ Len(Waiting) = Size(head, tail)
      /\ \A i \in 1 .. Size(head, tail) : Waiting[i] = store[Slot(i)]
  BY WaitingFacts DEF IInv, WaitingOK
<1>2. /\ Waiting' \in Seq(S) /\ Len(Waiting') = Size(head', tail')
      /\ \A i \in 1 .. Size(head', tail') : Waiting'[i] = store[Slot(i)]
  <2>1. \A i : Slot(i)' = Slot(i) BY DEF Slot
  <2>2. /\ Waiting' \in Seq(S) /\ Len(Waiting') = Size(head', tail')
        /\ \A i \in 1 .. Size(head', tail') : Waiting'[i] = store'[Slot(i)']
    BY WaitingFactsNext DEF IInv, WaitingOK
  <2> QED BY <2>1, <2>2
<1>3. Size(head', tail') = Size(head, tail) + 1 /\ Size(head, tail) \in Nat
  BY SizeFacts, MtFifoAssumption DEF IInv, TypeOK, Capacity
<1>4. Slot(Size(head, tail) + 1) = head
  BY MtFifoAssumption DEF IInv, TypeOK, Size, Slot, Index
<1>5. store[head] \in S BY DEF IInv, TypeOK
<1> DEFINE A == Append(Waiting, store[head])
<1>6. /\ A \in Seq(S) /\ Len(A) = Size(head, tail) + 1
      /\ \A i \in 1 .. Size(head, tail) : A[i] = store[Slot(i)]
      /\ A[Size(head, tail) + 1] = store[head]
  BY <1>1, <1>5, AppendProperties
<1>7. \A i \in 1 .. Len(Waiting') : Waiting'[i] = A[i]
  BY <1>2, <1>3, <1>4, <1>6
<1> QED BY <1>2, <1>3, <1>6, <1>7, SeqEqual

(* Moving tail removes the first one, which dequeue() returns. *)
LEMMA TailRemoves ==
    ASSUME IInv, IInv', AdvanceTail
    PROVE  Waiting # <<>> /\ out' = Head(Waiting) /\ Waiting' = Tail(Waiting)
<1> USE DEF AdvanceTail, producerVars
<1> DEFINE S == Items \cup {None}
<1>1. /\ Waiting \in Seq(S) /\ Len(Waiting) = Size(head, tail)
      /\ \A i \in 1 .. Size(head, tail) : Waiting[i] = store[Slot(i)]
  BY WaitingFacts DEF IInv, WaitingOK
<1>2. /\ Waiting' \in Seq(S) /\ Len(Waiting') = Size(head', tail')
      /\ \A i \in 1 .. Size(head', tail') : Waiting'[i] = store[Slot(i)']
  BY WaitingFactsNext DEF IInv, WaitingOK
<1>3. /\ Size(head, tail) \in Nat /\ Size(head, tail) > 0
      /\ Size(head', tail') = Size(head, tail) - 1
  <2>1. Size(head, tail) \in 0 .. Capacity /\ Capacity \in Nat
    BY SizeFacts, MtFifoAssumption DEF IInv, TypeOK, Capacity
  <2>2. Size(head, tail) > 0 BY <2>1 DEF IInv, TypeOK
  <2>3. Size(head, Succ(tail)) = Size(head, tail) - 1
    BY <2>2, SizeFacts DEF IInv, TypeOK
  <2> QED BY <2>1, <2>2, <2>3
<1>4. \A i \in 1 .. Size(head', tail') : Slot(i)' = Slot(i + 1)
  <2>1. /\ tail \in Int /\ 0 <= tail /\ tail <= Slots - 1 /\ Slots \in Int
        /\ Size(head, tail) <= Slots - 1
    BY SizeFacts, MtFifoAssumption DEF IInv, TypeOK, Index, Capacity
  <2>2. tail' = IF tail = Slots - 1 THEN 0 ELSE tail + 1 BY DEF Succ
  <2>3. ASSUME NEW i \in 1 .. Size(head, tail) - 1 PROVE Slot(i)' = Slot(i + 1)
    BY <1>3, <2>1, <2>2 DEF Slot
  <2> QED BY <1>3, <2>3
<1>5. Waiting # <<>> BY <1>1, <1>3
<1>6. Head(Waiting) = Waiting[1] BY <1>1, <1>5
<1>7. Slot(1) = tail BY MtFifoAssumption DEF IInv, TypeOK, Index, Slot
<1>8. out' = Head(Waiting) BY <1>1, <1>3, <1>6, <1>7 DEF IInv
<1> DEFINE T == Tail(Waiting)
<1>9. /\ T \in Seq(S) /\ Len(T) = Size(head, tail) - 1
      /\ \A i \in 1 .. Size(head, tail) - 1 : T[i] = store[Slot(i + 1)]
  <2>1. /\ T \in Seq(S) /\ Len(T) = Len(Waiting) - 1
        /\ \A i \in 1 .. Len(T) : T[i] = Waiting[i + 1]
    BY <1>1, <1>5, HeadTailProperties
  <2> QED BY <1>1, <1>3, <2>1
<1>10. \A i \in 1 .. Len(Waiting') : Waiting'[i] = T[i]
  BY <1>2, <1>3, <1>4, <1>9
<1> QED BY <1>2, <1>3, <1>5, <1>8, <1>9, <1>10, SeqEqual

(* The lock-free FIFO is a bounded FIFO, for every size. *)
THEOREM Refinement == Spec => ImplementsFifo
<1>1. Init => Fifo!Init
  <2> SUFFICES ASSUME Init PROVE Waiting = <<>> /\ out = None
    BY DEF Fifo!Init
  <2>1. TypeOK BY InitIInv DEF IInv
  <2>2. Size(head, tail) = 0 BY DEF Init, Size
  <2>3. Waiting \in Seq(Items \cup {None}) /\ Len(Waiting) = 0
    BY <2>1, <2>2, WaitingFacts DEF WaitingOK
  <2> QED BY <2>3 DEF Init
<1>2. IInv /\ IInv' /\ [Next]_vars => [Fifo!Next]_Fifo!vars
  <2> SUFFICES ASSUME IInv, IInv', [Next]_vars
               PROVE  Fifo!Next \/ UNCHANGED <<Waiting, out>>
    BY DEF Fifo!vars
  <2>0. TypeOK /\ TypeOK' BY DEF IInv
  <2>1. CASE FreeCount \/ SendNoMore \/ Available \/ LookAgain \/ ReadSlot
             \/ UNCHANGED vars
    <3>1. head' = head /\ tail' = tail /\ store' = store /\ out' = out
      BY <2>1 DEF FreeCount, SendNoMore, Available, LookAgain, ReadSlot, vars,
                  producerVars, consumerVars
    <3> QED BY <2>0, <3>1, WaitingUnchanged
  <2>2. ASSUME NEW x \in Items, FillSlot(x) PROVE UNCHANGED <<Waiting, out>>
    <3>1. head' = head /\ tail' = tail /\ out' = out
      BY <2>2 DEF FillSlot, consumerVars
    <3>2. \A i \in 1 .. Size(head, tail) : store'[Slot(i)] = store[Slot(i)]
      BY <2>0, <2>2, SlotFacts DEF FillSlot, TypeOK
    <3> QED BY <2>0, <3>1, <3>2, WaitingUnchanged
  <2>3. CASE AdvanceHead
    <3>1. Waiting' = Append(Waiting, store[head]) /\ out' = out
      BY <2>3, HeadAppends DEF AdvanceHead, consumerVars
    <3>2. Len(Waiting) < Capacity /\ store[head] \in Items
      <4>1. Len(Waiting) = Size(head, tail) /\ Size(head, tail) \in Nat
        BY <2>0, WaitingFacts, SizeFacts DEF TypeOK, WaitingOK
      <4> QED BY <2>3, <4>1, MtFifoAssumption DEF IInv, TypeOK, AdvanceHead, Capacity
    <3> QED BY <3>1, <3>2 DEF Fifo!Next, Fifo!Enqueue
  <2>4. CASE AdvanceTail
    BY <2>4, TailRemoves DEF Fifo!Next, Fifo!Dequeue
  <2> QED BY <2>1, <2>2, <2>3, <2>4 DEF Next
<1> QED BY <1>1, <1>2, IInvAlways, PTL DEF Spec, ImplementsFifo, Fifo!Spec

=============================================================================
