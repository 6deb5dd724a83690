-------------------------- MODULE MCImageTransfer --------------------------
(* ImageTransfer for TLC: sizes and the length of the pipe are small.      *)
EXTENDS ImageTransfer
=============================================================================
