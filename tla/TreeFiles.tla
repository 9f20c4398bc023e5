------------------------------ MODULE TreeFiles ------------------------------
(* Where the nodes of a tree are in a file, and what a node's value is.  A      *)
(* value is the name of the node it belongs to, <<tree, layer, index>>, so     *)
(* that hashing the right children, in order, gives the name of their parent  *)
(* and hashing anything else gives Garbage.                                   *)
EXTENDS Naturals, Sequences

CONSTANT Arity                  \* GetNumTreeRCArity, GetNumTreeDArity

ASSUME ArityAssumption == Arity \in Nat \ {0, 1}

Node(tree, layer, index) == <<tree, layer, index>>
Garbage == <<"garbage", 0, 0>>

\* Poseidon over the children of a node.  Nodes of layer 0 may come from
\* another source than the tree they are hashed into: `leaf' is its name.
HashNodes(tree, leaf, children) ==
    LET first == children[1]
    IN  IF /\ first[1] = (IF first[2] = 0 THEN leaf ELSE tree)
           /\ first[3] % Arity = 0
           /\ \A i \in 1 .. Arity : children[i] = Node(first[1], first[2], first[3] + i - 1)
        THEN Node(tree, first[2] + 1, first[3] \div Arity)
        ELSE Garbage

\* hash_batch_device: consecutive groups of Arity elements.  (The empty sequence in
\* front makes TLC compute the result once.)
HashBatch(tree, leaf, block) ==
    <<>> \o [k \in 1 .. Len(block) \div Arity |->
        HashNodes(tree, leaf, SubSeq(block, (k - 1) * Arity + 1, k * Arity))]

-----------------------------------------------------------------------------
(* tree_address_t: the layers of a tree one after the other, in nodes.        *)

\* Nodes of a layer of a tree over count leaves
LayerSize(count, layer) == count \div (Arity ^ layer)

\* Number of layers of a tree over count leaves, the root's included
LayerCount(count) == 1 + CHOOSE h \in 0 .. count : Arity ^ h = count

LayerOffset(count, layer) ==
    LET offset[k \in Nat] == IF k = 0 THEN 0 ELSE offset[k - 1] + LayerSize(count, k - 1)
    IN  offset[layer]

Address(count, layer, node) == LayerOffset(count, layer) + node

DataSize(count) == LayerOffset(count, LayerCount(count) - 1) + 1

\* The node at an offset of the file of a part of a tree: n nodes in the lowest layer
\* of the file, which is layer `skip' of the tree
FileNode(tree, n, skip, part, offset) ==
    LET l == CHOOSE k \in 0 .. LayerCount(n) - 1 :
                 offset >= LayerOffset(n, k) /\ offset < LayerOffset(n, k) + LayerSize(n, k)
    IN  Node(tree, l + skip, part * LayerSize(n, l) + offset - LayerOffset(n, l))

=============================================================================
