--------------------------- MODULE MCEnvelopMaker ---------------------------
(* EnvelopMaker for TLC: the reading ends.                                 *)
EXTENDS EnvelopMaker

\* The server's: every message fits its buffer.
ServerEnd == [mode |-> "message", buffer |-> H + MaxMeta, reconnects |-> TRUE]

\* The same manager with a buffer smaller than a message.
SplitEnd == [mode |-> "message", buffer |-> H + 1, reconnects |-> FALSE]

\* The client's: an image's data does not fit its buffer.
ClientEnd == [mode |-> "byte", buffer |-> H + 2, reconnects |-> FALSE]

AllEnds == {ServerEnd, SplitEnd, ClientEnd}
=============================================================================
