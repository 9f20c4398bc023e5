-------------------------------- MODULE MCPc1 --------------------------------
(* Pc1 for TLC.  The parents files are regular graphs: a base parent is the *)
(* previous node or the layer's first one; the expander                     *)
(* parents are spread over the whole previous layer, or all its first node. *)
EXTENDS Pc1, TLC

Graph(Base(_), Expander(_)) ==
    [v \in 0 .. LayerNodes - 1 |->
        [j \in Reads |-> IF v > 0 /\ ~PrevLayer(j) THEN Base(v) ELSE Expander(v)]]

Previous(v) == v - 1
First(v)    == 0
Mirror(v)   == LayerNodes - 1 - v

MCGraphs   == {Graph(Previous, Mirror), Graph(First, Mirror)}
CoordinatorSymmetry == Permutations(Coordinators)

MCFirst    == {Graph(First, First)}

=============================================================================
