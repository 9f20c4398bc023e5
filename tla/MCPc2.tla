-------------------------------- MODULE MCPc2 --------------------------------
(* The calls of the instance of Pc2 that TLC checks.                          *)
EXTENDS Pc2

Call(streams, parts, rOnly, nonCC, bundle, full) ==
    [streams |-> streams, parts |-> parts, rOnly |-> rOnly, nonCC |-> nonCC,
     bundle |-> bundle, full |-> full, empty |-> 1]

\* One stream builds both trees, in two partitions and with a last bundle that is
\* not full; two streams build tree-r, likewise.
MCConfigs == {Call(1, 2, FALSE, TRUE, 2, 3), Call(1, 1, FALSE, FALSE, 3, 4),
              Call(2, 1, TRUE, TRUE, 2, 3), Call(2, 1, TRUE, FALSE, 4, 3)}

=============================================================================
