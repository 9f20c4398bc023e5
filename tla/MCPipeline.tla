----------------------------- MODULE MCPipeline -----------------------------
(* Pipeline for TLC: two drives, the smaller of which has room for three   *)
(* slots of four blocks and one block more.                                 *)
EXTENDS Pipeline

TwoDrives == <<14, 13>>
=============================================================================
