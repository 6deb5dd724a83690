-------------------------- MODULE MCServerRegistry --------------------------
(* ServerRegistry for TLC: threads and sizes are model values. *)
EXTENDS ServerRegistry
=============================================================================
