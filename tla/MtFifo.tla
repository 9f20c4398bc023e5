------------------------------- MODULE MtFifo -------------------------------
(***************************************************************************)
(* mt_fifo_t, the lock-free FIFO of nvme/ring_t.hpp, between the thread    *)
(* that sends requests (the orchestrator, or a streaming reader's client)  *)
(* and the node_rw_t thread that serves them.                              *)
(*                                                                         *)
(* Every load and store of a shared word is a step of its own.  A thread's *)
(* loads of the index that only it writes are part of its other steps.     *)
(* The atomics use the default order, sequentially consistent; the stores  *)
(* to the slots are published by the store to head.                        *)
(*                                                                         *)
(* A definition whose name ends in _Wrong is the one after it with a       *)
(* plausible mistake in it: a property must notice its use.                *)
(***************************************************************************)
EXTENDS Integers, Sequences

CONSTANTS Items,   \* the requests
          Slots,   \* store.size(), one more than the capacity
          None

ASSUME MtFifoAssumption ==
    /\ Slots \in Nat /\ Slots >= 2
    /\ None \notin Items

VARIABLES
    head, tail,   \* the atomic indexes
    store,        \* the slots
    ppc,          \* where the producer is
    free,         \* entries the producer may still send without a check
    cpc,          \* where the consumer is
    available,    \* requests the consumer still takes in this round
    obj,          \* the request it has read
    out           \* the request dequeue() returned last

producerVars == <<ppc, free, head>>
consumerVars == <<cpc, available, obj, out, tail>>
vars         == <<producerVars, consumerVars, store>>

Index    == 0 .. Slots - 1
Capacity_Wrong == Slots
Capacity == Slots - 1
Succ(i)  == IF i = Slots - 1 THEN 0 ELSE i + 1
Size(h, t) == IF h >= t THEN h - t ELSE Slots + h - t

Init ==
    /\ head = 0 /\ tail = 0
    /\ store = [i \in Index |-> None]
    /\ ppc = "idle" /\ free = 0
    /\ cpc = "idle" /\ available = 0 /\ obj = None /\ out = None

-----------------------------------------------------------------------------
(* The producer *)

(* free_count() or is_full(), before a number of requests is sent: loads tail. *)
FreeCount ==
    /\ ppc = "idle" /\ free = 0
    /\ free' = Capacity - Size(head, tail)
    /\ UNCHANGED <<ppc, head, consumerVars, store>>

(* The producer sends fewer requests than there was room for. *)
SendNoMore ==
    /\ ppc = "idle" /\ free > 0
    /\ free' = 0
    /\ UNCHANGED <<ppc, head, consumerVars, store>>

(* enqueue_nocheck(): fill the slot, then move head. *)
FillSlot(x) ==
    /\ ppc = "idle" /\ free > 0
    /\ store' = [store EXCEPT ![head] = x]
    /\ ppc' = "filled"
    /\ UNCHANGED <<free, head, consumerVars>>

AdvanceHead ==
    /\ ppc = "filled"
    /\ head' = Succ(head)
    /\ free' = free - 1
    /\ ppc' = "idle"
    /\ UNCHANGED <<consumerVars, store>>

-----------------------------------------------------------------------------
(* The consumer: node_rw_t::process() takes as many requests as it saw,     *)
(* or fewer when the drives' queues have no room for all of them.           *)

Available ==
    /\ cpc = "idle" /\ available = 0
    /\ available' \in 0 .. Size(head, tail)
    /\ UNCHANGED <<cpc, obj, out, tail, producerVars, store>>

(* dequeue(): look at the size again, read the slot, then move tail. *)
LookAgain ==
    /\ cpc = "idle" /\ available > 0
    /\ cpc' = IF Size(head, tail) # 0 THEN "read" ELSE "null"
    /\ UNCHANGED <<available, obj, out, tail, producerVars, store>>

ReadSlot ==
    /\ cpc = "read"
    /\ obj' = store[tail]
    /\ cpc' = "advance"
    /\ UNCHANGED <<available, out, tail, producerVars, store>>

AdvanceTail ==
    /\ cpc = "advance"
    /\ tail' = Succ(tail)
    /\ out' = obj
    /\ available' = available - 1
    /\ cpc' = "idle"
    /\ UNCHANGED <<obj, producerVars, store>>

Next ==
    \/ FreeCount \/ SendNoMore \/ (\E x \in Items : FillSlot(x)) \/ AdvanceHead
    \/ Available \/ LookAgain \/ ReadSlot \/ AdvanceTail

Spec == Init /\ [][Next]_vars

-----------------------------------------------------------------------------
TypeOK ==
    /\ head \in Index /\ tail \in Index
    /\ store \in [Index -> Items \cup {None}]
    /\ ppc \in {"idle", "filled"} /\ free \in 0 .. Capacity
    /\ cpc \in {"idle", "read", "advance", "null"} /\ available \in 0 .. Capacity
    /\ obj \in Items \cup {None} /\ out \in Items \cup {None}

(* dequeue() finds a request whenever process() counted one before: the *)
(* assertion req_batch != nullptr holds.                                *)
NeverNull == cpc # "null"

(* The slots from tail to head, in order, are a bounded FIFO. *)
Slot(i) == IF tail + i - 1 >= Slots THEN tail + i - 1 - Slots ELSE tail + i - 1
Waiting == [i \in 1 .. Size(head, tail) |-> store[Slot(i)]]

Fifo == INSTANCE BoundedFifo WITH queue <- Waiting

(* Requests come out in order, none twice, lost or overwritten. *)
ImplementsFifo == Fifo!Spec

=============================================================================
