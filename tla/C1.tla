---------------------------------- MODULE C1 ----------------------------------
(* From labels to vanilla proofs on the CPU: cpu_single_pc2 of tools/pc2.cu    *)
(* and the tree-d builder make the files, then C1 reads them, and the labels   *)
(* of the challenged nodes and of their parents, and writes the proofs: in one *)
(* go, or trees and nodes apart and combined.  A written file is a sequence of *)
(* pieces and a length in bytes.  One sector is modelled.                      *)
(*                                                                             *)
(* do_pc2_cpu of pc2/pc2.hpp takes the same steps for the sectors without data *)
(* that it builds, up to 32 KiB (threads = 0 and cc).  It never encodes: given *)
(* data, it builds tree-r over the last layer all the same, which is not       *)
(* modelled.                                                                   *)
EXTENDS TreeBuilder, StreamingReader

CONSTANTS NodesPerPage,
          BaseParents, ExpParents,      \* PARENT_COUNT_BASE, PARENT_COUNT_EXP
          LabelParents,                 \* LABEL_PARENTS
          LayerOneRepeat, LayerNRepeat, \* LAYER_ONE_REPEAT_SEQ, LAYER_N_REPEAT_SEQ
          NumChallenges, NumPartitions,
          Hashes,                       \* the hashes a seed may give its challenges
          ParentsBuf(_, _),             \* (leaves, i): the parents file
          Shapes                        \* sectors and calls: see ShapeType

\* levels: GetNumTreeRCLevels; discard: GetNumTreeRDiscardRows; files:
\* GetNumTreeRCFiles; threads: size of the pool, 0 for sectors up to 32 KiB, built
\* by the calling thread; cc: no data file; split: tree and node proofs apart
ShapeType == [levels : Nat, discard : {1, 2}, files : {1, Arity}, threads : Nat,
              cc : BOOLEAN, split : BOOLEAN]

ParentCount == BaseParents + ExpParents
NodesPerChallenge == NumLayers * (ParentCount + 1)
SliceOf(s) == (Arity ^ s.levels) \div s.files        \* leaves of a file

ASSUME C1Assumption ==
    /\ Shapes \subseteq ShapeType
    /\ 0 \in Slots
    /\ NumChallenges % NumPartitions = 0
    /\ LabelParents % (LayerOneRepeat * BaseParents) <= BaseParents
    /\ LabelParents % (LayerNRepeat * ParentCount) <= ParentCount
    /\ LabelParents \div (LayerOneRepeat * BaseParents) = 1
    /\ LabelParents \div (LayerNRepeat * ParentCount) = 1
    /\ NodesPerChallenge <= ReadFifo         \* else load_nodes never returns
    /\ \A s \in Shapes :
           /\ s.levels = s.discard + 1 \/ s.discard = 2    \* not so for 16 KiB
           /\ s.threads > 0 => SliceOf(s) \div NumChunks(s.threads) >= Arity ^ (s.discard + 1)

VARIABLES shape,     \* the sector and the call
          pc,        \* "build", "d", "aux", "derive", "open", "challenge", "load",
                     \* "wait", "write", "close", "combine", "done"
          job,       \* tree and file being built, chunks left
          files,     \* contents of the tree files, by <<tree, file, offset>>
          finals,    \* final_row of each tree
          pAux,      \* the roots in p_aux
          challenges,
          writing,   \* the proof file being written
          proofs     \* the proof files, by name

buildVars == <<job, files, finals, pAux>>
proofVars == <<challenges, writing, proofs>>
vars == <<shape, pc, buildVars, proofVars, readerVars>>

Trees == {"c", "r"}
Leaves == Arity ^ shape.levels
Slice == SliceOf(shape)
FileNumbers == 0 .. shape.files - 1

-----------------------------------------------------------------------------
(* Building: cpu_single_pc2, BuildTreeC, BuildTreeR.                          *)

\* Labels of a slice of the sector, merged by node
MergedLabels(file) == <<>> \o [i \in 1 .. Slice * NumLayers |->
    Node("label", (i - 1) % NumLayers, file * Slice + (i - 1) \div NumLayers)]

\* What tree-r is built over: the last layer with the data added to it, or the last
\* layer itself if there is no data file
Replica == <<>> \o [i \in 1 .. Leaves |-> Node("replica", 0, i - 1)]

LeavesOf(tree, file) ==
    IF tree = "c" THEN MergedLabels(file)
    ELSE SubSeq(Replica, file * Slice + 1, (file + 1) * Slice)
LeafName(tree) == IF tree = "c" THEN "c" ELSE "replica"

Chunks == NumChunks(shape.threads)
ChunkIn(tree, file, chunk) ==
    LET leaves == LeavesOf(tree, file)
        size   == Len(leaves) \div Chunks
    IN  SubSeq(leaves, chunk * size + 1, (chunk + 1) * size)

\* Places of the files that are kept, which are as long as size() says
NodesOf(s, tree) == IF tree = "c" THEN SliceOf(s) ELSE LayerSize(SliceOf(s), s.discard + 1)
Wanted(s) ==
    UNION {{t} \X (0 .. s.files - 1) \X (0 .. TreeSize(SliceOf(s), t = "c", s.discard) - 1) : t \in Trees}
    \cup (IF s.cc THEN {} ELSE {"d"} \X {0} \X (0 .. 2 * (Arity ^ s.levels) - 2))
Blank == <<"blank", 0, 0>>

WriteFile(tree, file, writes) ==
    files' = [p \in {<<tree, file, o>> : o \in DOMAIN writes} |-> writes[p[3]]] @@ files
Content(tree, file) ==
    [o \in {p[3] : p \in {p \in DOMAIN files : p[1] = tree /\ p[2] = file}} |->
        files[<<tree, file, o>>]]

\* The job after this one: all files of tree-c, then those of tree-r
NextJob ==
    LET fresh(tree, file) ==
            [tree |-> tree, file |-> file,
             left |-> IF shape.threads = 0 THEN {} ELSE 0 .. Chunks - 1]
    IN  IF job.file + 1 < shape.files
        THEN job' = fresh(job.tree, job.file + 1) /\ pc' = "build"
        ELSE IF job.tree = "c" THEN job' = fresh("r", 0) /\ pc' = "build"
        ELSE job' = job /\ pc' = "d"

\* A pool thread does a chunk: any chunk, in any order
BuildChunk(chunk) ==
    /\ pc = "build"
    /\ chunk \in job.left
    /\ LET t == job.tree
           f == job.file
       IN  WriteFile(t, f, Chunk(t, LeafName(t), ChunkIn(t, f, chunk), Slice, chunk, t = "c",
                                 shape.discard))
    /\ job' = [job EXCEPT !.left = @ \ {chunk}]
    /\ UNCHANGED <<shape, pc, finals, pAux, proofVars, readerVars>>

\* The rest of a file's tree: all of it without a pool, else the merge
FinishFile ==
    /\ pc = "build"
    /\ job.left = {}
    /\ LET t == job.tree
           f == job.file
           built == IF shape.threads = 0
                    THEN BuildTree(t, LeafName(t), LeavesOf(t, f), 0, t = "c", FALSE, shape.discard)
                    ELSE Merge(t, Content(t, f), Slice, Chunks, t = "c", shape.discard)
       IN  /\ WriteFile(t, f, built.writes)
           /\ finals' = [finals EXCEPT ![t][f] = built.root]
    /\ NextJob
    /\ UNCHANGED <<shape, pAux, proofVars, readerVars>>

\* TreeD::BuildTree if there is data
BuildD ==
    /\ pc = "d"
    /\ IF shape.cc THEN UNCHANGED files ELSE WriteFile("d", 0, BuildTreeD(Leaves))
    /\ pc' = "aux"
    /\ UNCHANGED <<shape, job, finals, pAux, proofVars, readerVars>>

\* p_aux: the roots of both trees, over those of their files
WritePAux ==
    /\ pc = "aux"
    /\ pAux' = [t \in Trees |->
           IF shape.files = 1 THEN finals[t][0]
           ELSE HashNodes(t, t, [i \in 1 .. shape.files |-> finals[t][i - 1]])]
    /\ pc' = "derive"
    /\ UNCHANGED <<shape, job, files, finals, proofVars, readerVars>>

-----------------------------------------------------------------------------
(* Inclusion paths: TreeProof.                                                *)

\* GetTreePaths
Index(arity, challenge, l) == (challenge \div (arity ^ l)) % arity

\* PathElement: the children of a node without the one at the index
Element(index, children) == [index |-> index, hashes |-> RemoveAt(children, index + 1)]

\* GetTreeRNodes: the replica around the challenge; GetNumTreeRLabels nodes
RLabels == Arity ^ (shape.discard + 1)
GetTreeRNodes(challenge) ==
    LET start == challenge - (challenge % RLabels)
    IN  SubSeq(Replica, start + 1, start + RLabels)

\* PerformFirstLevels: the levels whose rows were discarded are hashed again
PerformFirstLevels(challenge, first) ==
    LET index(l) == Index(Arity, challenge, l)
        in   == challenge % RLabels
        one(at) == HashNodes("r", "replica", SubSeq(first, at + 1, at + Arity))
        two(at) == HashNodes("r", "replica",
                             [i \in 1 .. Arity |-> one(at + (i - 1) * Arity)])
        s0   == in - (in % Arity)
        s1   == s0 - (s0 % (Arity * Arity))
        skip == s1 \div (Arity * Arity)
        e0   == Element(index(0), SubSeq(first, s0 + 1, s0 + Arity))
        e1   == Element(index(1), [a \in 1 .. Arity |-> one(s1 + (a - 1) * Arity)])
        e2   == [Element(skip, [a \in 1 .. Arity |-> two((a - 1) * Arity * Arity)])
                    EXCEPT !.index = index(2)]
    IN  [leaf |-> first[s0 + index(0) + 1],
         path |-> IF shape.levels = 2 THEN <<e0, e1>> ELSE <<e0, e1, e2>>]

At(tree, file, offset) ==
    IF <<tree, file, offset>> \in DOMAIN files THEN files[<<tree, file, offset>>] ELSE Garbage

\* GenInclusionPath above those levels, in the files of a tree
FilePath(tree, arity, levels, count, from, size, challenge) ==
    LET fileLeaves == (arity ^ levels) \div count
        buf    == challenge \div fileLeaves
        finish == IF count = 1 THEN levels ELSE levels - 1
        \* add_level_size: the levels of the file below l
        added[l \in Nat] == IF l <= from THEN 0
                            ELSE added[l - 1] + size \div (arity ^ (l - 1 - from))
        row(l) == (challenge % fileLeaves) \div (arity ^ l)
        start(l) == (row(l) - (row(l) % arity)) + added[l]
    IN  [k \in 1 .. finish - from |->
            Element(Index(arity, challenge, from + k - 1),
                    [a \in 1 .. arity |-> At(tree, buf, start(from + k - 1) + a - 1)])]
        \o (IF count = 1 THEN <<>>
            ELSE <<Element(Index(arity, challenge, levels - 1),
                           [a \in 1 .. arity |-> At(tree, a - 1, added[finish])])>>)

\* GenInclusionPath without and with discarded rows
TreePath(tree, arity, levels, count, root, challenge) ==
    LET slice == (arity ^ levels) \div count
    IN  [root |-> root,
         leaf |-> At(tree, challenge \div slice, challenge % slice),
         path |-> FilePath(tree, arity, levels, count, 0, slice, challenge)]

TreeRPath(challenge) ==
    LET first == PerformFirstLevels(challenge, GetTreeRNodes(challenge))
        done  == shape.levels \in {2, 3}
        size  == (Arity ^ (shape.levels - (shape.discard + 1))) \div shape.files
    IN  [root |-> pAux["r"], leaf |-> first.leaf,
         path |-> first.path \o
             (IF done THEN <<>>
              ELSE FilePath("r", Arity, shape.levels, shape.files, 3, size, challenge))]

\* TreeD's root is the last node of its file; a CC sector has no file
DLevels == CHOOSE l \in 0 .. Leaves : 2 ^ l = Leaves
CommD == IF shape.cc THEN CCNode(DLevels) ELSE files[<<"d", 0, 2 * Leaves - 2>>]
TreeDPath(challenge) ==
    IF shape.cc
    THEN [root |-> CCNode(DLevels), leaf |-> CCNode(0),
          path |-> [l \in 1 .. DLevels |->
                       Element(Index(2, challenge, l - 1), <<CCNode(l - 1), CCNode(l - 1)>>)]]
    ELSE TreePath("d", 2, DLevels, 1, CommD, challenge)

-----------------------------------------------------------------------------
(* Sizes in bytes: what is written, and what ProofSize expects.               *)

NodeBytes == 32
ProofType == IF shape.files = 1 THEN 0 ELSE 1         \* GetNumTreeRCConfig

\* TreeProof::WriteProof, PathElement::Write
ElementBytes_NoIndex(e) == 8 + NodeBytes * Len(e.hashes)
ElementBytes(e) == 8 + NodeBytes * Len(e.hashes) + 8
PathBytes(p, type) ==
    4 + 8 + (IF type = 1 THEN 8 ELSE 0) + 2 * NodeBytes
    + FoldLeft(LAMBDA sum, e : sum + ElementBytes(e), 0, p.path)

\* TreeProof::ProofSize
TreeProofSize(arity, levels, type) ==
    4 + 2 * NodeBytes + 8 + (NodeBytes * (arity - 1) + 16) * levels
    + (IF type = 1 THEN 8 ELSE 0)

\* ColumnProof: number, vector of labels, path
ColumnBytes(c) == 4 + 8 + NodeBytes * Len(c.labels) + PathBytes(c.tree, ProofType)
ColumnProofSize == 4 + 8 + NodeBytes * NumLayers + TreeProofSize(Arity, shape.levels, ProofType)

\* LabelProof::WriteProof: per layer the parents, the layer and the node
LabelBytes(proof, enc) ==
    (IF enc THEN 0 ELSE 8)
    + FoldLeft(LAMBDA sum, l : sum + 8 + NodeBytes * Len(l.parents) + 4 + 8, 0, proof)

LayerOneFinal == LabelParents % (LayerOneRepeat * BaseParents)
LayerNFinal == LabelParents % (LayerNRepeat * ParentCount)

\* LabelProof::ProofSize
LabelProofSize(enc) ==
    LET one   == ~enc \/ NumLayers = 1
        rest  == IF one THEN NumLayers - 1 ELSE NumLayers
        left  == IF enc /\ rest > 1 THEN 1 ELSE rest
    IN  8 + (IF one THEN (IF enc THEN 0 ELSE NumLayers * 8)
                         + NodeBytes * (LayerOneRepeat * BaseParents + LayerOneFinal) + 12
             ELSE 0)
        + left * (NodeBytes * (LayerNRepeat * ParentCount + LayerNFinal) + 12)

\* C1::ProofSize
TreePartSize == TreeProofSize(2, DLevels, 0) + TreeProofSize(Arity, shape.levels, ProofType)
NodePartSize == LabelProofSize(FALSE) + LabelProofSize(TRUE)
                + (1 + ParentCount) * ColumnProofSize + 2 * 8
ProofSize(tree, node) ==
    8 * NumPartitions + 8
    + (IF tree THEN TreePartSize * NumChallenges + 2 * NodeBytes ELSE 0)
    + (IF node THEN NodePartSize * NumChallenges + 3 * NodeBytes ELSE 0)

-----------------------------------------------------------------------------
(* The labels of a challenge: GetParents, GetNodes, load_nodes, get_node.     *)

Parent(challenge, k) == ParentsBuf(Leaves, challenge * ParentCount + k)

\* Layer and node of nodes_[i]: per layer the challenge, then its parents
NodeAt(challenge, i) ==
    LET k == i % (ParentCount + 1)
    IN  <<i \div (ParentCount + 1), IF k = 0 THEN challenge ELSE Parent(challenge, k - 1)>>

Current == challenges[writing.next + 1]

\* alloc_slots and the start of load_nodes, if nodes are asked for
StartLoad ==
    /\ pc = "challenge"
    /\ writing.node
    /\ pages' = [pages EXCEPT ![0] = <<>>]
    /\ valid' = [valid EXCEPT ![0] = 0]
    /\ writing' = [writing EXCEPT !.sent = 0]
    /\ pc' = "load"
    /\ UNCHANGED <<shape, buildVars, challenges, proofs, rfifo, reading>>

\* One turn of the loop of load_nodes: a request that finds the FIFO full is skipped
MaySend_WhenEmpty == rfifo = <<>>
MaySend == Len(rfifo) < ReadFifo

LoadNode ==
    /\ pc = "load"
    /\ LET n == NodeAt(Current, writing.sent)
       IN  IF MaySend THEN Enqueue(Request(0, writing.sent, <<n[1], n[2] \div NodesPerPage>>))
                      ELSE UNCHANGED rfifo
    /\ writing' = [writing EXCEPT !.sent = @ + 1]
    /\ pc' = IF writing.sent + 1 = NodesPerChallenge THEN "wait" ELSE "load"
    /\ UNCHANGED <<shape, buildVars, challenges, proofs, reading, valid, pages>>

\* while (valid < nodes.size())
NodesLoaded ==
    /\ pc = "wait"
    /\ valid[0] >= NodesPerChallenge
    /\ pc' = "write"
    /\ UNCHANGED <<shape, buildVars, proofVars, readerVars>>

\* get_node: the node's place in its page
GetNode_First(challenge, i) ==
    Node("label", pages[0][i][1], pages[0][i][2] * NodesPerPage)
GetNode(challenge, i) ==
    Node("label", pages[0][i][1],
         pages[0][i][2] * NodesPerPage + (NodeAt(challenge, i)[2] % NodesPerPage))

-----------------------------------------------------------------------------
(* The proofs of a challenge.                                                 *)

TreePiece(challenge) == [d |-> TreeDPath(challenge), r |-> TreeRPath(challenge)]
TreePieceBytes(p) == PathBytes(p.d, 0) + PathBytes(p.r, ProofType)

\* ColumnProof of the challenge (k = 0) or of one of its parents
Column(challenge, k) ==
    LET node == NodeAt(challenge, k)[2]
    IN  [node |-> node,
         labels |-> [l \in 1 .. NumLayers |-> GetNode(challenge, k + (l - 1) * (ParentCount + 1))],
         tree |-> TreePath("c", Arity, shape.levels, shape.files, pAux["c"], node)]

\* LabelProof::WriteProof for layer l: base parents of this layer and expander
\* parents of the one below, over and over
LayerParents(challenge, l) ==
    LET label(c, layer) == GetNode(challenge, c + 1 + (layer - 1) * (ParentCount + 1))
        base == [c \in 1 .. BaseParents |-> label(c - 1, l)]
        exp  == [c \in 1 .. ExpParents |-> label(c - 1 + BaseParents, l - 1)]
        again(s, n) == FoldLeft(\o, <<>>, [i \in 1 .. n |-> s])
    IN  IF l = 1 THEN again(base, LayerOneRepeat) \o SubSeq(base, 1, LayerOneFinal)
        ELSE again(base \o exp, LayerNRepeat)
             \o [c \in 1 .. LayerNFinal |->
                    IF c - 1 < BaseParents THEN label(c - 1, l) ELSE label(c - 1, l - 1)]

LabelProof(challenge, enc) ==
    [i \in 1 .. IF enc THEN 1 ELSE NumLayers |->
        LET l == IF enc THEN NumLayers ELSE i
        IN  [parents |-> LayerParents(challenge, l), layer |-> l, node |-> challenge]]

NodePiece(challenge) ==
    [columns |-> [k \in 1 .. ParentCount + 1 |-> Column(challenge, k - 1)],
     label |-> LabelProof(challenge, FALSE),
     enc |-> LabelProof(challenge, TRUE)]
NodePieceBytes(p) ==
    FoldLeft(LAMBDA sum, c : sum + ColumnBytes(c), 0, p.columns) + 2 * 8
    + LabelBytes(p.label, FALSE) + LabelBytes(p.enc, TRUE)

-----------------------------------------------------------------------------
(* WriteProofs and CombineProofs.                                             *)

\* DeriveChallenges: a leaf other than the first
DeriveChallenges(h) == [i \in DOMAIN h |-> (h[i] % (Leaves - 1)) + 1]

Derive ==
    /\ pc = "derive"
    /\ \E h \in Hashes : challenges' = DeriveChallenges(h)
    /\ pc' = "open"
    /\ UNCHANGED <<shape, buildVars, writing, proofs, readerVars>>

\* do_c1, or do_c1_tree and then do_c1_node
Open ==
    /\ pc = "open"
    /\ LET name == CASE ~shape.split -> "whole"
                     [] "tree" \notin DOMAIN proofs -> "tree"
                     [] OTHER -> "node"
       IN  writing' = [name |-> name, tree |-> name # "node", node |-> name # "tree",
                       next |-> 0, sent |-> 0, bytes |-> 8, pieces |-> <<>>]
    /\ pc' = "challenge"
    /\ UNCHANGED <<shape, buildVars, challenges, proofs, readerVars>>

Piece(at, what) == [at |-> at, what |-> what]
PerPartition == NumChallenges \div NumPartitions

\* The challenge's proofs are written; the reader's slots are free again
WriteChallenge ==
    /\ \/ pc = "challenge" /\ ~writing.node
       \/ pc = "write"
    /\ LET at == writing.bytes + IF writing.next % PerPartition = 0 THEN 8 ELSE 0
           t  == TreePiece(Current)
           n  == NodePiece(Current)
           mid == IF writing.tree THEN at + TreePieceBytes(t) ELSE at
       IN  writing' = [writing EXCEPT
               !.next = @ + 1,
               !.bytes = IF writing.node THEN mid + NodePieceBytes(n) ELSE mid,
               !.pieces = @ \o (IF writing.tree THEN <<Piece(at, t)>> ELSE <<>>)
                            \o (IF writing.node THEN <<Piece(mid, n)>> ELSE <<>>)]
    /\ pc' = IF writing.next + 1 = NumChallenges THEN "close" ELSE "challenge"
    /\ UNCHANGED <<shape, buildVars, challenges, proofs, readerVars>>

\* comm_r, comm_d; replica id, seed, ticket
TreeEnd == <<<<pAux["c"], pAux["r"]>>, CommD>>
NodeEnd == <<"replica_id", "seed", "ticket">>

Close ==
    /\ pc = "close"
    /\ LET end == (IF writing.tree THEN TreeEnd ELSE <<>>) \o (IF writing.node THEN NodeEnd ELSE <<>>)
       IN  proofs' = (writing.name :>
               [pieces |-> writing.pieces, end |-> end,
                bytes |-> writing.bytes + NodeBytes * Len(end)]) @@ proofs
    /\ pc' = CASE writing.name = "tree" -> "open"
               [] writing.name = "node" -> "combine"
               [] OTHER -> "done"
    /\ UNCHANGED <<shape, buildVars, challenges, writing, readerVars>>

\* What a file has at an offset
PieceAt(file, at) ==
    LET here == {i \in DOMAIN file.pieces : file.pieces[i].at = at}
    IN  IF here = {} THEN Garbage ELSE file.pieces[CHOOSE i \in here : TRUE].what

\* CombineProofs: pieces are copied by their expected sizes
Header(i) == 8 + 8 * (1 + (i - 1) \div PerPartition)     \* lengths before challenge i
Combine ==
    /\ pc = "combine"
    /\ LET treeAt(i) == Header(i) + (i - 1) * TreePartSize
           nodeAt(i) == Header(i) + (i - 1) * NodePartSize
           at(i)     == Header(i) + (i - 1) * (TreePartSize + NodePartSize)
           end       == proofs["tree"].end \o proofs["node"].end
       IN  proofs' = ("comb" :>
               [pieces |-> FoldLeft(LAMBDA done, i :
                   done \o <<Piece(at(i), PieceAt(proofs["tree"], treeAt(i))),
                             Piece(at(i) + TreePartSize, PieceAt(proofs["node"], nodeAt(i)))>>,
                   <<>>, [i \in 1 .. NumChallenges |-> i]),
                end |-> end,
                bytes |-> at(NumChallenges) + TreePartSize + NodePartSize + NodeBytes * Len(end)])
               @@ proofs
    /\ pc' = "done"
    /\ UNCHANGED <<shape, buildVars, challenges, writing, readerVars>>

-----------------------------------------------------------------------------
Init ==
    /\ shape \in Shapes
    /\ pc = "build"
    /\ job = [tree |-> "c", file |-> 0,
              left |-> IF shape.threads = 0 THEN {} ELSE 0 .. Chunks - 1]
    /\ files = [p \in Wanted(shape) |-> Blank]
    /\ finals = [t \in Trees |-> [f \in FileNumbers |-> Garbage]]
    /\ pAux = [t \in Trees |-> Garbage]
    /\ challenges = <<>>
    /\ writing = [name |-> "none", tree |-> FALSE, node |-> FALSE, next |-> 0, sent |-> 0,
                  bytes |-> 0, pieces |-> <<>>]
    /\ proofs = <<>>
    /\ ReaderInit

Build == (\E chunk \in job.left : BuildChunk(chunk)) \/ FinishFile \/ BuildD \/ WritePAux
Prove == Derive \/ Open \/ StartLoad \/ LoadNode \/ NodesLoaded \/ WriteChallenge \/ Close \/ Combine

ReaderFrame == UNCHANGED <<shape, pc, buildVars, proofVars>>
Reader == (IssueRead \/ \E q \in reading : CompleteRead(q)) /\ ReaderFrame

Next == Build \/ Prove \/ Reader

Spec == Init /\ [][Next]_vars

\* The caller of load_nodes and the reader thread go on as long as they can
FairSpec == Spec /\ WF_vars(LoadNode) /\ WF_vars(NodesLoaded) /\ WF_vars(Reader)

-----------------------------------------------------------------------------
(* Properties.                                                                *)

\* Every variable keeps to its domain; requests in the reader are of this load.
TypeOK ==
    /\ shape \in Shapes
    /\ pc \in {"build", "d", "aux", "derive", "open", "challenge", "load", "wait", "write",
               "close", "combine", "done"}
    /\ job.tree \in Trees /\ job.file \in FileNumbers
    /\ \A i \in DOMAIN challenges : challenges[i] \in 1 .. Leaves - 1
    /\ writing.next \in 0 .. NumChallenges
    /\ DOMAIN proofs \subseteq {"whole", "tree", "node", "comb"}
    /\ rfifo # <<>> \/ reading # {} => pc \in {"load", "wait"}

\* The files of trees c, r and d: every node that is kept is written once, at its
\* place, by the thread whose chunk it is in or by the merge, and no file is used
\* before it is complete.
Right(s, p) ==
    IF p[1] = "d"
    THEN LET n == D!FileNode("d", Arity ^ s.levels, 0, 0, p[3])
         IN  IF n[2] = 0 THEN Node("data", 0, n[3]) ELSE n
    ELSE FileNode(p[1], NodesOf(s, p[1]), IF p[1] = "c" THEN 0 ELSE s.discard + 1, p[2], p[3])

Promise == INSTANCE SectorTrees WITH
    call <- shape, have <- files, finished <- pc \notin {"build", "d", "aux"}
ImplementsSectorTrees == Promise!Spec

\* A path a verifier accepts: from the challenged leaf over its siblings to the root
RightPath(p, tree, leaf, arity, levels, node) ==
    LET nodeName(l, i) == IF tree = "cc" THEN CCNode(l)
                          ELSE Node(IF l = 0 THEN leaf ELSE tree, l, i)
    IN  /\ p.leaf = nodeName(0, node)
        /\ p.root = nodeName(levels, 0)
        /\ Len(p.path) = levels
        /\ \A l \in 0 .. levels - 1 :
               LET i == node \div (arity ^ l)
               IN  /\ p.path[l + 1].index = i % arity
                   /\ p.path[l + 1].hashes =
                        RemoveAt([k \in 1 .. arity |-> nodeName(l, i - (i % arity) + k - 1)],
                                 1 + (i % arity))

RightTreePiece(p, challenge) ==
    /\ RightPath(p.r, "r", "replica", Arity, shape.levels, challenge)
    /\ RightPath(p.d, IF shape.cc THEN "cc" ELSE "d", "data", 2, DLevels, challenge)

RightLabels(proof, challenge) == \A i \in DOMAIN proof :
    /\ proof[i].node = challenge
    /\ Len(proof[i].parents) = LabelParents
    /\ \A k \in 0 .. LabelParents - 1 :
           LET l == proof[i].layer
               q == k % (IF l = 1 THEN BaseParents ELSE ParentCount)
           IN  proof[i].parents[k + 1] =
                   Node("label", IF q < BaseParents THEN l - 1 ELSE l - 2, Parent(challenge, q))

RightNodePiece(p, challenge) ==
    /\ \A k \in 0 .. ParentCount :
           LET c == p.columns[k + 1]
               node == IF k = 0 THEN challenge ELSE Parent(challenge, k - 1)
           IN  /\ c.node = node
               /\ c.labels = [l \in 1 .. NumLayers |-> Node("label", l - 1, node)]
               /\ RightPath(c.tree, "c", "c", Arity, shape.levels, node)
    /\ Len(p.label) = NumLayers /\ \A l \in 1 .. NumLayers : p.label[l].layer = l
    /\ Len(p.enc) = 1 /\ p.enc[1].layer = NumLayers
    /\ RightLabels(p.label, challenge) /\ RightLabels(p.enc, challenge)

\* Every proof file holds, for each challenge in order, proofs a verifier accepts:
\* inclusion paths of the replica, the data and all columns, and the labels that
\* the challenged labels were made of.  The combined file is what writing both
\* kinds at once gives.  All variables keep to their domains on the way.
ProofsAreRight == TypeOK /\ (pc = "done" => \A name \in DOMAIN proofs :
    LET file == proofs[name]
        tree == name # "node"
        node == name # "tree"
        per  == IF tree /\ node THEN 2 ELSE 1
    IN  /\ Len(file.pieces) = per * NumChallenges
        /\ \A i \in 1 .. NumChallenges :
               /\ tree => RightTreePiece(file.pieces[(i - 1) * per + 1].what, challenges[i])
               /\ node => RightNodePiece(file.pieces[i * per].what, challenges[i])
        /\ file.end = (IF tree THEN TreeEnd ELSE <<>>) \o (IF node THEN NodeEnd ELSE <<>>))

\* The lengths agree with ProofSize, as the assertions at the end of WriteProofs and
\* CombineProofs demand.
SizesAgree == \A name \in DOMAIN proofs :
    proofs[name].bytes = ProofSize(name # "node", name # "tree")

\* load_nodes returns: every node it waits for was asked for, and arrives.
LoadReturns == pc = "load" ~> pc = "write"

=============================================================================
