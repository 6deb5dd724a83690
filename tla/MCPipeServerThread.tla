------------------------- MODULE MCPipeServerThread -------------------------
(* PipeServerThread for TLC: instances and messages are model values. *)
EXTENDS PipeServerThread, TLC

PipeSymmetry == Permutations(Pipes)
=============================================================================
