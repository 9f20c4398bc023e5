----------------------------- MODULE TreeBuilder -----------------------------
(* The tree builders on the CPU: TreeBuilder of pc1/tree_builder.hpp, alone    *)
(* and with a pool of threads, and TreeD of pc1/tree_d.hpp.  Everything is     *)
(* counted in nodes; a file is a function from offsets to values.             *)
EXTENDS TreeFiles, Integers, FiniteSets, SequencesExt, TLC

CONSTANT NumLayers        \* GetNumLayers, the arity of the column hash

Levels(n) == LayerCount(n) - 1

\* TreeBuilder::size: nodes kept of a tree over n leaves or columns
TreeSize(n, cols, discards) ==
    (IF cols THEN n ELSE 0)
    + LayerOffset(n, LayerCount(n)) - LayerOffset(n, (IF cols THEN 0 ELSE discards) + 1)

\* ColHashNode over the labels of a node, layer by layer
ColumnHash(labels) ==
    IF \A k \in 1 .. NumLayers : labels[k] = Node("label", k - 1, labels[1][3])
    THEN Node("c", 0, labels[1][3])
    ELSE Garbage

HashColumns(leaves) ==
    <<>> \o [i \in 1 .. Len(leaves) \div NumLayers |->
        ColumnHash(SubSeq(leaves, (i - 1) * NumLayers + 1, i * NumLayers))]

\* Where a row goes: into the file at an offset, or into memory that is dropped
Scratch == [file |-> FALSE, at |-> 0]
InFile(at) == [file |-> TRUE, at |-> at]

PutRow(writes, to, row) ==
    IF ~to.file THEN writes
    ELSE [o \in to.at .. to.at + Len(row) - 1 |-> row[o - to.at + 1]] @@ writes

\* The discards counter: -1 for a tree that keeps all its rows
Discards(cols, noDiscard, rows) == IF cols \/ noDiscard THEN 0 - 1 ELSE rows

\* TreeBuilder::BuildTree in the calling thread: the values written by offset, and
\* the root.  Rows are written one after the other from `out' on.
BuildTree(tree, leaf, in, out, cols, noDiscard, rows) ==
    LET columns == HashColumns(in)
        base  == IF cols THEN columns ELSE in
        disc  == Discards(cols, noDiscard, rows)
        start == [in |-> base, disc |-> disc,
                  to |-> IF disc > 0 THEN Scratch ELSE InFile(out + IF cols THEN Len(base) ELSE 0),
                  writes |-> IF cols THEN PutRow(<<>>, InFile(out), columns) ELSE <<>>]
        after[k \in Nat] == IF k = 0 THEN start ELSE
            LET s   == after[k - 1]
                row == HashBatch(tree, leaf, s.in)
                d   == s.disc - 1
            IN  [in |-> row, disc |-> d, writes |-> PutRow(s.writes, s.to, row),
                 to |-> CASE d = 1 -> Scratch
                          [] d = 0 -> InFile(out)
                          [] OTHER -> [s.to EXCEPT !.at = @ + Len(row)]]
        end == after[Levels(Len(base))]
    IN  [writes |-> end.writes, root |-> end.in[1]]

\* Number of chunks for a pool of threads: the first power of the arity that is
\* four times its size
NumChunks(threads) ==
    Arity ^ (CHOOSE k \in 1 .. 4 * threads :
                /\ Arity ^ k >= 4 * threads
                /\ \A j \in 1 .. k - 1 : Arity ^ j < 4 * threads)

\* One chunk of the threaded BuildTree: rows go to the chunk's part of each layer
\* of a tree over n nodes
Chunk_Packed(tree, leaf, in, n, chunk, cols, rows) ==
    BuildTree(tree, leaf, in, chunk * Len(in), cols, FALSE, rows).writes
Chunk(tree, leaf, in, n, chunk, cols, rows) ==
    LET columns == HashColumns(in)
        base  == IF cols THEN columns ELSE in
        part(size) == (chunk * size) \div Arity
        disc  == Discards(cols, FALSE, rows)
        first == IF cols THEN n ELSE 0
        start == [in |-> base, disc |-> disc, size |-> n, layer |-> first,
                  to |-> IF disc > 0 THEN Scratch ELSE InFile(first + part(Len(base))),
                  writes |-> IF cols THEN PutRow(<<>>, InFile(chunk * Len(base)), columns)
                             ELSE <<>>]
        after[k \in Nat] == IF k = 0 THEN start ELSE
            LET s     == after[k - 1]
                row   == HashBatch(tree, leaf, s.in)
                d     == s.disc - 1
                size  == s.size \div Arity
                layer == IF d \in {0, 1} THEN s.layer ELSE s.layer + size
            IN  [in |-> row, disc |-> d, size |-> size, layer |-> layer,
                 writes |-> PutRow(s.writes, s.to, row),
                 to |-> CASE d = 1 -> Scratch
                          [] d = 0 -> InFile(part(Len(row)))
                          [] OTHER -> InFile(layer + part(Len(row)))]
    IN  after[Levels(Len(base))].writes

\* The merge of the threaded BuildTree: the chunks' roots are in the file, the rest
\* of the tree goes behind them
Merge(tree, file, n, chunks, cols, rows) ==
    LET top  == TreeSize(n, cols, rows) - TreeSize(chunks * Arity, FALSE, 0)
        row  == [i \in 1 .. chunks |->
                    IF top + i - 1 \in DOMAIN file THEN file[top + i - 1] ELSE Garbage]
    IN  BuildTree(tree, tree, row, top + chunks, FALSE, TRUE, 0)

-----------------------------------------------------------------------------
(* TreeD: binary, over the data of the sector.                                *)

D == INSTANCE TreeFiles WITH Arity <- 2

\* TreeD::BuildTree with copy: the data, then the rows
BuildTreeD(n) ==
    LET row[k \in Nat] == IF k = 0 THEN [i \in 1 .. n |-> Node("data", 0, i - 1)]
                          ELSE D!HashBatch("d", "data", row[k - 1])
    IN  [o \in 0 .. 2 * n - 2 |->
            LET k == CHOOSE k \in 0 .. n :
                        o >= D!LayerOffset(n, k) /\ o < D!LayerOffset(n, k + 1)
            IN  row[k][o - D!LayerOffset(n, k) + 1]]

\* BuildCCTree, and CC_TREE_D_NODE_VALUES: one value per level
CCNode(level) == Node("cc", level, 0)

=============================================================================
