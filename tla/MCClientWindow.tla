--------------------------- MODULE MCClientWindow ---------------------------
(* ClientWindow for TLC: connections and commands are model values. *)
EXTENDS ClientWindow
=============================================================================
