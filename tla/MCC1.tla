--------------------------------- MODULE MCC1 ---------------------------------
(* The sectors and calls of the instance of C1 that TLC checks.               *)
EXTENDS C1

Shape(levels, discard, count, threads, cc, split) ==
    [levels |-> levels, discard |-> discard, files |-> count, threads |-> threads,
     cc |-> cc, split |-> split]

\* 2 KiB with data, and without as do_pc2_cpu builds it, 8 or 512 MiB, 32 GiB, with
\* arity 2
MCShapes == {Shape(2, 1, 1, 0, FALSE, FALSE), Shape(2, 1, 1, 0, TRUE, FALSE),
             Shape(5, 2, 1, 1, FALSE, TRUE), Shape(6, 2, 2, 1, TRUE, FALSE), Shape(6, 2, 2, 0, FALSE, TRUE)}

\* Two challenges: every leaf is the first one of some seed
MCHashes == {<<h, 3 * h + 1>> : h \in 0 .. 62}

MCParents(leaves, i) == (5 * i + 3) % leaves

=============================================================================
