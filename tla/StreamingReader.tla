--------------------------- MODULE StreamingReader ---------------------------
(* streaming_node_reader_t over NVMe: clients put page reads into a FIFO, a    *)
(* reader thread (node_rw_t) issues them and counts their completions in the  *)
(* valid counter they name.  PC2 loads runs of nodes of several layers into a *)
(* slot; C1 loads single nodes.  A page on disk is named by its request.      *)
EXTENDS Naturals, Sequences, FiniteSets

CONSTANTS Slots,          \* slots given to alloc_slots
          ReadFifo,       \* places of node_read_fifo that can be used
          ReadQueue       \* operations in flight, queue_size

ASSUME ReaderAssumption == ReadFifo \in Nat \ {0} /\ ReadQueue \in Nat \ {0}

VARIABLES rfifo,          \* requests in node_read_fifo
          reading,        \* requests in flight
          valid,          \* the valid counter of each slot's client
          pages           \* what the pages of a slot hold, by position

readerVars == <<rfifo, reading, valid, pages>>

\* A read of what the disk has at `at' into page `page' of a slot
Request(slot, page, at) == [slot |-> slot, page |-> page, at |-> at]

ReaderInit ==
    /\ rfifo = <<>>
    /\ reading = {}
    /\ valid = [s \in Slots |-> 0]
    /\ pages = [s \in Slots |-> <<>>]

Enqueue(request) == rfifo' = Append(rfifo, request)

\* node_rw_t::process: dequeue and issue while the drives' queues have room
IssueRead ==
    /\ rfifo # <<>>
    /\ Cardinality(reading) < ReadQueue
    /\ reading' = reading \cup {Head(rfifo)}
    /\ rfifo' = Tail(rfifo)
    /\ UNCHANGED <<valid, pages>>

\* A completion, in any order: the data is in memory, the client's counter grows
CompleteRead(request) ==
    /\ request \in reading
    /\ reading' = reading \ {request}
    /\ valid' = [valid EXCEPT ![request.slot] = @ + 1]
    /\ pages' = [pages EXCEPT ![request.slot] =
                    [p \in DOMAIN @ \cup {request.page} |->
                        IF p = request.page THEN request.at ELSE @[p]]]
    /\ UNCHANGED rfifo

=============================================================================
