------------------------------ MODULE Framing ------------------------------
(***************************************************************************)
(* What COVEnvelopMaker promises to the owner of a pipe: it is handed the  *)
(* messages written at the other end, whole, in the order of writing, and  *)
(* each once.  When the other end is replaced by another client, what was  *)
(* not handed over is dropped: nothing of the old connection, in whole or  *)
(* in part, is handed over under the new one.                              *)
(***************************************************************************)
EXTENDS Naturals, Sequences

CONSTANTS
    H,          \* bytes of a header, sizeof(SPS_ACTIONPACKET_HEADER)
    MaxMeta,    \* bound: bytes of metadata after a header
    MaxMsgs     \* bound: messages written

VARIABLES
    sent,      \* sent[k]: bytes of metadata of the k-th message
    delivered, \* what psPerfomAction was called with
    before     \* how many messages were written before the current connection

\* A byte is named by its message and its place in it.
Bytes(k) == [i \in 1 .. H + sent[k] |-> <<k, i>>]
Whole(k) == [msg |-> k, body |-> SubSeq(Bytes(k), H + 1, H + sent[k])]

FramingInit == sent = <<>> /\ delivered = <<>> /\ before = 0

Write(size) ==
    /\ Len(sent) < MaxMsgs
    /\ sent' = Append(sent, size)
    /\ UNCHANGED <<delivered, before>>

LastDelivered == IF delivered = <<>> THEN 0 ELSE delivered[Len(delivered)].msg

Deliver ==
    LET k == 1 + (IF LastDelivered > before THEN LastDelivered ELSE before) IN
    /\ k <= Len(sent)
    /\ delivered' = Append(delivered, Whole(k))
    /\ UNCHANGED <<sent, before>>

NewConnection ==
    /\ before' = Len(sent)
    /\ UNCHANGED <<sent, delivered>>

FramingNext ==
    \/ \E size \in 0 .. MaxMeta : Write(size)
    \/ Deliver
    \/ NewConnection

FramingSpec == FramingInit /\ [][FramingNext]_<<sent, delivered, before>>
=============================================================================
