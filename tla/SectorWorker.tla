---------------------------- MODULE SectorWorker ----------------------------
(***************************************************************************)
(* What a coordinator with its hashers promises the rest of PC1, whatever  *)
(* its batches, mutexes and counters look like inside.                     *)
(*                                                                         *)
(* It takes nodes in order as their parents become valid, its hashers hash *)
(* every node in order, and it reports a prefix of what all of them have   *)
(* hashed.  A node is never taken Window or more nodes ahead of a hasher,  *)
(* so that a parent further away than that has been hashed; and once Lag   *)
(* entries after the last report are valid it reports more.                *)
(***************************************************************************)
EXTENDS Integers

CONSTANTS Workers,     \* the hashers of the coordinator
          Stop,        \* number of nodes
          Window, Lag

VARIABLES avail,       \* nodes whose parents are valid
          taken,       \* nodes gathered
          done,        \* nodes hashed, per hasher
          reported     \* nodes reported

vars == <<avail, taken, done, reported>>

Init ==
    /\ avail = 0 /\ taken = 0 /\ reported = 0
    /\ done = [w \in Workers |-> 0]

(* The orchestrator and the reader provide entries, in order. *)
Provide ==
    /\ avail' \in avail + 1 .. Stop
    /\ UNCHANGED <<taken, done, reported>>

Take ==
    /\ taken < avail
    /\ \A w \in Workers : taken - done[w] < Window
    /\ taken' = taken + 1
    /\ UNCHANGED <<avail, done, reported>>

HashNode(w) ==
    /\ done[w] < taken
    /\ done' = [done EXCEPT ![w] = @ + 1]
    /\ UNCHANGED <<avail, taken, reported>>

Report ==
    /\ reported' \in reported + 1 .. Stop
    /\ \A w \in Workers : reported' <= done[w]
    /\ UNCHANGED <<avail, taken, done>>

Next == Provide \/ Take \/ (\E w \in Workers : HashNode(w)) \/ Report

Spec == Init /\ [][Next]_vars

(* Lag entries beyond the last report, or all there will be, are enough for *)
(* the next report.                                                         *)
Obliged == avail >= reported + Lag \/ avail = Stop
Progress == \A r \in 0 .. Stop - 1 : (reported = r /\ Obliged) ~> reported > r

=============================================================================
