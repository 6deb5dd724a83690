----------------------------- MODULE MCHandlers -----------------------------
(* Handlers for TLC: threads, ids and handlers are model values. *)
EXTENDS Handlers
=============================================================================
