--------------------------- MODULE MCImageServer ---------------------------
(* ImageServer for TLC: instances, detached threads and commands are model  *)
(* values; instances are interchangeable, and so are detached threads.      *)
EXTENDS ImageServer, TLC

PipeSymmetry == Permutations(Pipes)
DetachedSymmetry == Permutations(Disconnectors)
=============================================================================
