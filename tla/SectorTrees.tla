----------------------------- MODULE SectorTrees -----------------------------
(* What building the trees of a sector promises, on GPUs or on the CPU: every  *)
(* node that is kept is written once, with its right value, in any order and   *)
(* by anyone, and the call ends only when all are.                            *)

CONSTANTS Wanted(_),      \* the places of the files of a call
          Right(_, _)     \* the value that belongs to a place

VARIABLES call,
          have,           \* what is at each place
          finished

Blank == <<"blank", 0, 0>>

Init ==
    /\ have = [p \in Wanted(call) |-> Blank]
    /\ finished = FALSE

\* Some blank places get their values
Store ==
    /\ ~finished
    /\ DOMAIN have' = DOMAIN have
    /\ \A p \in DOMAIN have :
           have'[p] # have[p] => have[p] = Blank /\ have'[p] = Right(call, p)
    /\ UNCHANGED <<call, finished>>

Finish ==
    /\ ~finished
    /\ \A p \in DOMAIN have : have[p] = Right(call, p)
    /\ finished' = TRUE
    /\ UNCHANGED <<call, have>>

Spec == Init /\ [][Store \/ Finish]_<<call, have, finished>>

=============================================================================
