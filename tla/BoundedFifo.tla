----------------------------- MODULE BoundedFifo -----------------------------
(* What a request FIFO between two PC1 threads promises: the requests come *)
(* out in the order they went in, each once, and at most Capacity wait.    *)
EXTENDS Integers, Sequences

CONSTANTS Items, Capacity, None

VARIABLES queue,  \* the requests that wait
          out     \* the request taken last

vars == <<queue, out>>

Init == queue = <<>> /\ out = None

Enqueue(x) ==
    /\ Len(queue) < Capacity
    /\ queue' = Append(queue, x)
    /\ UNCHANGED out

Dequeue ==
    /\ queue # <<>>
    /\ out' = Head(queue)
    /\ queue' = Tail(queue)

Next == (\E x \in Items : Enqueue(x)) \/ Dequeue

Spec == Init /\ [][Next]_vars

=============================================================================
