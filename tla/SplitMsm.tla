------------------------------- MODULE SplitMsm -------------------------------
(***************************************************************************)
(* How generate_groth16_proofs_c splits the MSMs of a query                *)
(* (c2/cuda/groth16_cuda.cu, prep_msm_thread).  Most auxiliary scalars are *)
(* 0 or 1.  The points with scalar 1 are summed up by a batch addition     *)
(* that a bit vector selects, and an MSM is done for the rest, the tail.   *)
(* All circuits share the bases of the tail, so a point is in it if its    *)
(* scalar is significant, neither 0 nor 1, in any circuit.                 *)
(*                                                                         *)
(* The three queries l, a and b go through the same passes with vectors of *)
(* their own, so one query is modelled: a has all the inputs, b those its  *)
(* density selects, l none, and all have the auxiliaries their density     *)
(* selects (l: all; to an MSM of l that is not split the code hands the    *)
(* assignment itself, which is what the tail's scalars are here).  A point *)
(* is represented by its index, a significant scalar by an integer > 1,    *)
(* and a chunk of a bit vector by the set of its bits.  The circuits are   *)
(* processed in any order, each with vectors of its own: a circuit is one  *)
(* step of a pass.                                                         *)
(*                                                                         *)
(* A definition whose name ends in _Wrong is the one after it with a       *)
(* plausible mistake in it: a property must notice its use.                *)
(***************************************************************************)
EXTENDS Integers, Sequences, FiniteSets, FiniteSetsExt, SequencesExt

CONSTANTS
    NumCircuits,
    InpSize, AuxSize,   \* inp_assignment_size, aux_assignment_size
    Scalars,            \* values of scalars
    ChunkBits           \* CHUNK_BITS

ASSUME SplitMsmAssumption ==
    /\ {NumCircuits, AuxSize, ChunkBits} \subseteq Nat \ {0}
    /\ InpSize \in Nat /\ Scalars \subseteq Nat

Circuits  == 0 .. NumCircuits - 1
Bits      == 0 .. ChunkBits - 1
Garbage   == {-1}   \* a mask_t that was never written, or past the end

VARIABLES
    inpMap, auxMap,   \* the query's density: selected inputs and auxiliaries
    inp, aux,         \* circuit -> input or auxiliary -> scalar
    pc, todo,         \* the pass, and the circuits it has still to do
    vec,              \* bit_vector[c]: chunk -> bits
    mask,             \* tail_msm_mask: chunk -> bits
    pop,              \* popcount of the mask
    split,            \* the query's MSM is split
    scalars,          \* tail_msm_scalars[c]
    bases             \* tail_msm_bases, by index of the point

inputVars == <<inpMap, auxMap, inp, aux>>
vars      == <<inputVars, pc, todo, vec, mask, pop, split, scalars, bases>>

(* The query's points: the selected inputs, then the selected auxiliaries. *)
NumPoints  == Cardinality(inpMap) + Cardinality(auxMap)
NumChunks  == (NumPoints + ChunkBits - 1) \div ChunkBits
Chunks     == 0 .. NumChunks - 1
Selected(assignment, map) == LET order == SetToSortSeq(map, <)
                             IN [i \in DOMAIN order |-> assignment[order[i]]]

Init ==
    /\ inpMap \in SUBSET (0 .. InpSize - 1)
    /\ auxMap \in SUBSET (0 .. AuxSize - 1)
    /\ inp \in [Circuits -> [0 .. InpSize - 1 -> Scalars]]
    /\ aux \in [Circuits -> [0 .. AuxSize - 1 -> Scalars]]
    /\ pc = "mark" /\ todo = Circuits
    /\ vec = [c \in Circuits |-> [k \in Chunks |-> Garbage]]
    /\ mask = [k \in Chunks |-> Garbage]
    /\ pop = 0 /\ split = FALSE
    /\ scalars = [c \in Circuits |-> <<>>] /\ bases = <<>>

-----------------------------------------------------------------------------
(* A pass over a circuit's points builds its bit vector in order: bits is *)
(* the current chunk, cursor its index, off the place of the next bit.    *)
Start(c) == [off |-> 0, cursor |-> 0, bits |-> {}, vec |-> vec[c]]

(* The next bit; a full chunk is stored. *)
Put(w, set) ==
    LET bits == IF set THEN w.bits \cup {w.off} ELSE w.bits
    IN IF w.off + 1 = ChunkBits
         THEN [w EXCEPT !.off = 0, !.cursor = @ + 1, !.bits = {}, !.vec[w.cursor] = bits]
         ELSE [w EXCEPT !.off = @ + 1, !.bits = bits]

(* The last chunk, if it is not full *)
Flush(w) == IF w.off # 0 THEN [w.vec EXCEPT ![w.cursor] = w.bits] ELSE w.vec

IsSignificant(s) == s \notin {0, 1}

-----------------------------------------------------------------------------
(* First pass: mark the inputs, and the auxiliaries that are significant. *)
MarkCircuit(c) ==
    /\ pc = "mark" /\ c \in todo
    /\ LET marked == FoldLeft(LAMBDA w, s : Put(w, TRUE), Start(c),
                              Selected(inp[c], inpMap))
           all    == FoldLeft(LAMBDA w, s : Put(w, IsSignificant(s)), marked,
                              Selected(aux[c], auxMap))
       IN vec' = [vec EXCEPT ![c] = Flush(all)]
    /\ todo' = todo \ {c}
    /\ UNCHANGED <<inputVars, pc, mask, pop, split, scalars, bases>>

MergedMask_Wrong(k) == vec[0][k]
MergedMask(k) == UNION {vec[c][k] : c \in Circuits}

IsSplit(p) == p <= NumPoints \div 2

(* Merge the circuits' marks, and split if they are on at most half of the points. *)
Merge ==
    /\ pc = "mark" /\ todo = {}
    /\ mask' = [k \in Chunks |-> MergedMask(k)]
    /\ pop' = MapThenSumSet(LAMBDA k : Cardinality(mask'[k]), Chunks)
    /\ split' = IsSplit(pop')
    /\ pc' = "populate" /\ todo' = Circuits
    /\ UNCHANGED <<inputVars, vec, scalars, bases>>

-----------------------------------------------------------------------------
(* Second pass: tail and from collect the scalars of the tail's MSM and the *)
(* points they belong to, point counts the points seen, window is the       *)
(* mask's chunk at the cursor.                                              *)
InTail(w, s) == [w EXCEPT !.tail = Append(@, s), !.from = Append(@, w.point)]

(* The chunk after the last one is read if the points fill their chunks. *)
MaskAt(k) == IF k \in Chunks THEN mask[k] ELSE Garbage

PutInput(w, s) == Put([InTail(w, s) EXCEPT !.point = @ + 1], FALSE)

(* czero(scalar, is_one) *)
CZero(s) == IF s = 1 THEN 0 ELSE s

NextWindow_Wrong(w, u) == w.window
(* The window moves on when a chunk has been stored. *)
NextWindow(w, u) == IF u.off = 0 THEN MaskAt(u.cursor) ELSE w.window

PutAux(w, s) ==
    LET t == IF w.off \in w.window THEN InTail(w, CZero(s)) ELSE w
        u == Put([t EXCEPT !.point = @ + 1], s = 1)
    IN IF split THEN [u EXCEPT !.window = NextWindow(w, u)]
       ELSE [InTail(w, s) EXCEPT !.point = @ + 1]

PopulateCircuit(c) ==
    /\ pc = "populate" /\ c \in todo
    /\ LET start  == Start(c) @@ [point |-> 0, tail |-> <<>>, from |-> <<>>,
                                  window |-> {}]
           inputs == FoldLeft(PutInput, start, Selected(inp[c], inpMap))
           all    == FoldLeft(PutAux, [inputs EXCEPT !.window = MaskAt(inputs.cursor)],
                              Selected(aux[c], auxMap))
       IN /\ vec' = [vec EXCEPT ![c] = Flush(all)]
          /\ scalars' = [scalars EXCEPT ![c] = all.tail]
          /\ bases' = IF c = 0 /\ split THEN all.from ELSE bases
    /\ todo' = todo \ {c}
    /\ UNCHANGED <<inputVars, pc, mask, pop, split>>

(* The barrier is notified: the vectors are used from here on. *)
Finish ==
    /\ pc = "populate" /\ todo = {} /\ pc' = "ready"
    /\ UNCHANGED <<inputVars, todo, vec, mask, pop, split, scalars, bases>>

Ready == pc = "ready" /\ UNCHANGED vars

Next ==
    \/ \E c \in Circuits : MarkCircuit(c) \/ PopulateCircuit(c)
    \/ Merge \/ Finish \/ Ready

Spec == Init /\ [][Next]_vars

-----------------------------------------------------------------------------
(* What the GPU threads compute of a query for a circuit: the factor that *)
(* each point gets in the sum.                                            *)
BatchFactor(c, p) == IF p % ChunkBits \in vec[c][p \div ChunkBits] THEN 1 ELSE 0
MsmFactor(c, p) ==
    LET at == {i \in DOMAIN bases : bases[i] = p}
    IN IF split THEN BatchFactor(c, p) + MapThenSumSet(LAMBDA i : scalars[c][i], at)
       ELSE scalars[c][p + 1]

(* What the query is: every point times its own scalar. *)
Assignment(c) == Selected(inp[c], inpMap) \o Selected(aux[c], auxMap)

(* The variables have their types; a stored chunk has bits of a chunk. *)
TypeOK ==
    /\ pc \in {"mark", "populate", "ready"} /\ todo \subseteq Circuits
    /\ \A c \in Circuits : vec[c] \in [Chunks -> SUBSET Bits \cup {Garbage}]
    /\ mask \in [Chunks -> SUBSET Bits \cup {Garbage}]
    /\ pop \in 0 .. NumPoints /\ split \in BOOLEAN
    /\ \A c \in Circuits : Len(scalars[c]) <= NumPoints
    /\ Len(bases) <= NumPoints

(* The batch addition and the tail's MSM, or the MSM that is not split, add *)
(* up to the query: every point counts once, with its own scalar, in every  *)
(* circuit (points with scalar 1 in one circuit and a significant one in    *)
(* another are in the tail of both).                                        *)
SplitMsmIsMsm ==
    pc = "ready" =>
        \A c \in Circuits : \A p \in 0 .. NumPoints - 1 :
            MsmFactor(c, p) = Assignment(c)[p + 1]

(* The tail fills exactly the vectors tail_msms_resize has made for it (the *)
(* asserts at the end of the second pass): nothing is written past their    *)
(* end, and no scalar or base of the tail's MSM is left at its initial zero.*)
TailFits ==
    pc = "ready" =>
        /\ \A c \in Circuits : Len(scalars[c]) = IF split THEN pop ELSE NumPoints
        /\ split => Len(bases) = pop

(* No chunk of an uninitialised bit vector reaches the mask, the popcount or *)
(* the batch addition.                                                       *)
ChunksAreWritten ==
    /\ pc # "mark" => \A k \in Chunks : mask[k] \subseteq Bits
    /\ pc = "ready" /\ split =>
           \A c \in Circuits : \A k \in Chunks : vec[c][k] \subseteq Bits

(* Bits, scalars and bases go to their places: every vector that is used is *)
(* filled completely and none is overrun, though two passes with cursors of *)
(* their own fill them.                                                     *)
VectorsAreFilled == TypeOK /\ TailFits /\ ChunksAreWritten

=============================================================================
