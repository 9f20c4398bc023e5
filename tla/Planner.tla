------------------------------- MODULE Planner -------------------------------
(* scheduler_t and buffers_t of pc2/planner.cpp: the order in which the       *)
(* items of a tree are hashed and the buffers their results live in.  An item *)
(* is a group of sibling nodes; its inputs are the buffers of its children.   *)
EXTENDS TreeFiles, SequencesExt, TLC

NoBuffer == "none"

\* work_item_t
WorkItem(layer, node, leaf) ==
    [layer |-> layer, node |-> node, leaf |-> leaf, deps |-> 0, buf |-> NoBuffer,
     inputs |-> [i \in 0 .. Arity - 1 |-> NoBuffer]]

\* scheduler_t::reset: all leaves on the stack, node 0 on top.  The buffer in
\* wip, the one of the last tree's root, is forgotten.
ResetScheduler(count) ==
    [stack |-> [i \in 1 .. count |-> WorkItem(1, count - i, TRUE)], wip |-> <<>>]

\* buffers_t: free buffers and the number made so far
NoBuffers == [free |-> <<>>, made |-> 0]

GetBuffer(bufs) ==
    IF bufs.free = <<>>
    THEN [buf |-> bufs.made, bufs |-> [bufs EXCEPT !.made = @ + 1]]
    ELSE [buf |-> Last(bufs.free), bufs |-> [bufs EXCEPT !.free = Front(@)]]

PutInputs_Leak(bufs, item) == bufs
PutInputs(bufs, item) ==
    [bufs EXCEPT !.free = @ \o [i \in 1 .. Arity |-> item.inputs[i - 1]]]

\* scheduler_t::next on a non-empty stack: the item to hash, the scheduler and
\* the buffers after it, and whether there is more to do.  The inputs go back to
\* the pool at once; the item still refers to them.
SchedulerNext(s, bufs) ==
    LET top   == Last(s.stack)
        got   == GetBuffer(bufs)
        up    == <<top.layer + 1, top.node \div Arity>>
        old   == IF up \in DOMAIN s.wip THEN s.wip[up] ELSE WorkItem(up[1], up[2], FALSE)
        dep   == [old EXCEPT !.inputs[top.node % Arity] = got.buf, !.deps = @ + 1]
        ready == dep.deps = Arity
        stack == IF ready THEN Append(Front(s.stack), dep) ELSE Front(s.stack)
    IN  [work  |-> [top EXCEPT !.buf = got.buf],
         bufs  |-> IF top.leaf THEN got.bufs ELSE PutInputs(got.bufs, top),
         sched |-> [stack |-> stack,
                    wip   |-> IF ready THEN [u \in DOMAIN s.wip \ {up} |-> s.wip[u]]
                                       ELSE (up :> dep) @@ s.wip],
         more  |-> stack # <<>>]

=============================================================================
