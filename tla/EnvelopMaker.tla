---------------------------- MODULE EnvelopMaker ----------------------------
(***************************************************************************)
(* COVEnvelopMaker::MakeEnvelop (src/winapiPipe/OVDataEnvelopMaker.h) with *)
(* c_bindata_bufer (data_bufer.h): the bytes of every completed read are   *)
(* cut into messages, a header of H bytes and as many bytes of metadata as *)
(* the header says, whatever piece of them a read brings.                  *)
(*                                                                         *)
(* A pipe in message mode gives at most one message, or a buffer's length *)
(* of it, to a read; in byte mode it gives what there is, up to a buffer's *)
(* length.  The server's instances are in message mode; the client's end   *)
(* is in byte mode unless SetNamedPipeHandleState succeeds, which          *)
(* pcConnect does not check.                                               *)
(***************************************************************************)
EXTENDS Integers, Sequences

CONSTANTS H, MaxMeta, MaxMsgs,  \* as in Framing
          Ends  \* the reading ends to look at

\* buffer: bytes of the read buffer, m_dwOutputSize, which psSetOutputBufferSize
\* keeps from being less than SPS_OV_MINIMUM_OUTPUT_SIZE (= H).
\* reconnects: may another client come to this end and its envelop?  (The server's
\* thread keeps its own; the client has a thread and an envelop for each connection.)
ASSUME EnvelopMakerAssumption ==
    /\ H \in Nat \ {0} /\ MaxMeta \in Nat /\ MaxMsgs \in Nat
    /\ \A e \in Ends : /\ e.mode \in {"message", "byte"}
                       /\ e.buffer \in Nat /\ e.buffer >= H
                       /\ e.reconnects \in BOOLEAN

\* The server's instances are in message mode, and its buffer (1024 bytes unless it is
\* changed) has room for every message of its clients: a header and the four bytes of a
\* command (send, lines 36-39 of pipeclient.cpp).
ASSUME ServerBufferAssumption ==
    \A e \in Ends : e.reconnects => e.mode = "message" /\ e.buffer >= H + MaxMeta

VARIABLES
    end,      \* the reading end, which stays the same
    sent, delivered, before,  \* as in Framing
    wire,     \* what was written and not read, as reads see it: messages, or one run of bytes
    at,       \* "idle" (no MakeEnvelop running), or its loop: "top", "body"
    auxBinBuffer,  \* the bytes of the read, and how far they are cut
    limit,    \* cTransfered
    msg,      \* the header in the SPS_ACTIONPACKET: which message it is of
    meta,     \* nMetadataSize; below 0: no header yet, and -1 - meta bytes cached
    stm       \* contents of pIStmCompletionBuffer

envelop == <<msg, meta, stm>>
vars == <<end, sent, delivered, before, wire, at, auxBinBuffer, limit, envelop>>

F == INSTANCE Framing

Byte == (1 .. MaxMsgs) \X (1 .. H + MaxMeta)

B == INSTANCE BinaryBuffer WITH Zero <- <<0, 0>>

TypeOK ==
    /\ end \in Ends
    /\ sent \in Seq(0 .. MaxMeta) /\ Len(sent) <= MaxMsgs
    /\ before \in 0 .. Len(sent)
    /\ delivered \in Seq([msg : 1 .. MaxMsgs, body : Seq(Byte)])
    /\ wire \in Seq(Seq(Byte))
    /\ at \in {"idle", "top", "body"}
    /\ auxBinBuffer \in B!Buffer
    /\ auxBinBuffer.cur <= Len(auxBinBuffer.data) /\ limit \in 0 .. Len(auxBinBuffer.data)
    /\ msg \in 0 .. MaxMsgs
    /\ meta \in Int /\ meta <= MaxMeta
    /\ stm \in Seq(Byte)
    /\ at = "idle" /\ meta < 0 => Len(stm) = -1 - meta

Init ==
    /\ end \in Ends
    /\ F!FramingInit
    /\ wire = <<>>
    /\ at = "idle" /\ auxBinBuffer = B!Empty /\ limit = 0
    /\ msg = 0 /\ meta = -1 /\ stm = <<>>

-----------------------------------------------------------------------------
(* The pipe *)

\* The other end writes a message with one WriteFile.
WriteMessage(size) ==
    /\ F!Write(size)
    /\ LET bytes == [i \in 1 .. H + size |-> <<Len(sent) + 1, i>>]
       IN wire' = IF end.mode = "byte" /\ wire # <<>> THEN <<wire[1] \o bytes>> ELSE Append(wire, bytes)
    /\ UNCHANGED <<at, auxBinBuffer, limit, envelop>>

\* A client leaves with data unread, and another one connects to the same thread.
Reconnect ==
    /\ end.reconnects
    /\ at = "idle"
    /\ F!NewConnection
    /\ wire' = <<>>
    /\ UNCHANGED <<at, auxBinBuffer, limit, envelop>>

\* The reading thread ends and calls ClearEnvelop; the thread of the next connection has
\* a new envelop.
EnvelopReplaced ==
    /\ at = "idle"
    /\ F!NewConnection
    /\ wire' = <<>>
    /\ msg' = 0 /\ meta' = -1 /\ stm' = <<>>
    /\ UNCHANGED <<at, auxBinBuffer, limit>>

\* A read completes: MakeEnvelop is called and attaches the bytes.
ReadCompletes ==
    /\ at = "idle" /\ wire # <<>>
    /\ LET n == B!Smaller(end.buffer, Len(wire[1]))
       IN /\ auxBinBuffer' = B!Attach(B!Empty, SubSeq(wire[1], 1, n))
          /\ limit' = n
          /\ wire' = IF n = Len(wire[1]) THEN Tail(wire)
                     ELSE [wire EXCEPT ![1] = SubSeq(@, n + 1, Len(@))]
    /\ at' = "top"
    /\ UNCHANGED <<sent, delivered, before, envelop>>

-----------------------------------------------------------------------------
(* MakeEnvelop: one round of its loop is HeaderCached, or a step of "top"    *)
(* and one of "body", or only the latter when the header is there already.   *)

Rest == B!Avail(auxBinBuffer)

\* Too few bytes are left for a header.
TooShort == B!get_avail_size(auxBinBuffer) < H

\* while (!auxBinBuffer.eof())
LoopAgain(b) == at' = IF B!eof(b) THEN "idle" ELSE "top"

\* The header a reader finds in H bytes.  Bytes that are not those of a header
\* give a size that means nothing; MaxMeta stands for it.
SizeIn(bs) == IF bs[1][2] = 1 THEN sent[bs[1][1]] ELSE MaxMeta

\* Mutant: the count of the cached bytes is not kept.
HeaderCachedUncounted ==
    /\ at = "top" /\ meta < 0
    /\ TooShort
    /\ stm' = stm \o Rest
    /\ meta' = meta - 1
    /\ at' = "idle"
    /\ UNCHANGED <<sent, delivered, before, wire, auxBinBuffer, limit, msg>>

\* Mutant: the whole buffer is cached, not what is left of it.
HeaderCachedBuffer ==
    /\ at = "top" /\ meta < 0
    /\ TooShort
    /\ stm' = stm \o auxBinBuffer.data
    /\ meta' = meta - Len(auxBinBuffer.data)
    /\ at' = "idle"
    /\ UNCHANGED <<sent, delivered, before, wire, auxBinBuffer, limit, msg>>

\* Not enough bytes for a header: keep them in the stream, and leave the loop.
HeaderCached ==
    /\ at = "top" /\ meta < 0
    /\ TooShort
    /\ stm' = stm \o Rest
    /\ meta' = meta - Len(Rest)
    /\ at' = "idle"
    /\ UNCHANGED <<sent, delivered, before, wire, auxBinBuffer, limit, msg>>

\* Put in front of the bytes of the read, which are written a second time, behind
\* them.
Restored(cached) ==
    B!reset(B!write(B!write(auxBinBuffer, cached), auxBinBuffer.data))

\* Mutant: cTransfered is not brought up to date (line 96: "we will have a big
\* troubles with packet assembling without this").
HeaderReadOldLimit ==
    /\ at = "top" /\ meta < 0
    /\ ~TooShort
    /\ LET all == IF meta = -1 THEN auxBinBuffer ELSE Restored(SubSeq(stm, 1, -1 - meta))
           header == B!BytesRead(all, H)
       IN /\ auxBinBuffer' = B!AfterRead(all, H)
          /\ msg' = header[1][1]
          /\ meta' = SizeIn(header)
          /\ stm' = IF meta = -1 THEN stm ELSE <<>>
    /\ at' = "body"
    /\ UNCHANGED <<sent, delivered, before, wire, limit>>

\* Enough bytes: put what was cached in front of them (only at the start of a
\* buffer can anything be cached), and take the header.
HeaderRead ==
    /\ at = "top" /\ meta < 0
    /\ ~TooShort
    /\ LET all == IF meta = -1 THEN auxBinBuffer ELSE Restored(SubSeq(stm, 1, -1 - meta))
           header == B!BytesRead(all, H)
       IN /\ auxBinBuffer' = B!AfterRead(all, H)
          /\ limit' = IF meta = -1 THEN limit ELSE Len(all.data)
          /\ msg' = header[1][1]
          /\ meta' = SizeIn(header)
          /\ stm' = IF meta = -1 THEN stm ELSE <<>>
    /\ at' = "body"
    /\ UNCHANGED <<sent, delivered, before, wire>>

InBody == at = "body" \/ (at = "top" /\ meta >= 0)

\* Mutant: the stream is not emptied of what was there before the last portion.
EnvelopKeepsStream == msg' = 0 /\ meta' = -1 /\ stm' = stm

\* prepare_envelop_for_next_message
EnvelopCleared == msg' = 0 /\ meta' = -1 /\ stm' = <<>>

\* No metadata: the action is performed at once.
BodyEmpty ==
    /\ InBody /\ meta = 0
    /\ delivered' = Append(delivered, [msg |-> msg, body |-> stm])
    /\ EnvelopCleared
    /\ LoopAgain(auxBinBuffer)
    /\ UNCHANGED <<sent, before, wire, auxBinBuffer, limit>>

\* The header came with the last bytes of the buffer.
BodyAwaited ==
    /\ InBody /\ meta # 0
    /\ B!eof(auxBinBuffer)
    /\ at' = "idle"
    /\ UNCHANGED <<sent, delivered, before, wire, auxBinBuffer, limit, envelop>>

\* How much of the metadata is taken: nTail or completionSize.
PortionSize == B!Smaller(meta - Len(stm), limit - B!get_current_pos(auxBinBuffer))

Skipped == B!skip(auxBinBuffer, PortionSize)

\* nTail = 0 leaves the loop.
PortionTaken ==
    /\ auxBinBuffer' = Skipped
    /\ IF PortionSize = 0 THEN at' = "idle" ELSE LoopAgain(Skipped)

\* Mutant: the last portion is not recognised as the last.
BodyPortionStrict ==
    /\ InBody /\ meta # 0
    /\ ~B!eof(auxBinBuffer)
    /\ PortionTaken
    /\ stm' = stm \o SubSeq(Rest, 1, PortionSize)
    /\ UNCHANGED <<sent, delivered, before, wire, limit, msg, meta>>

\* A portion of the metadata goes to the stream; the last one completes it.
BodyPortion ==
    /\ InBody /\ meta # 0
    /\ ~B!eof(auxBinBuffer)
    /\ PortionTaken
    /\ LET content == stm \o SubSeq(Rest, 1, PortionSize)
       IN IF Len(content) = meta
          THEN /\ delivered' = Append(delivered, [msg |-> msg, body |-> content])
               /\ EnvelopCleared
          ELSE /\ stm' = content
               /\ UNCHANGED <<delivered, msg, meta>>
    /\ UNCHANGED <<sent, before, wire, limit>>

Next ==
    /\ \/ \E size \in 0 .. MaxMeta : WriteMessage(size)
       \/ Reconnect \/ EnvelopReplaced
       \/ ReadCompletes
       \/ HeaderCached \/ HeaderRead
       \/ BodyEmpty \/ BodyAwaited \/ BodyPortion
    /\ UNCHANGED end

Spec == Init /\ [][Next]_vars

-----------------------------------------------------------------------------
(* Properties *)

\* Every message handed to the owner is whole, and they come in order: the
\* envelop maker implements Framing.
DeliversWhole == F!FramingSpec

\* BOOST_ASSERT(completionSize > 0)
CompletionIsPositive == InBody /\ meta # 0 /\ ~B!eof(auxBinBuffer) => meta - Len(stm) > 0

\* Between two reads the stream holds the beginning of one message and nothing
\* else: a cached piece of a header, or metadata after a header.
StreamIsOnePiece ==
    at = "idle" =>
        \A i \in 1 .. Len(stm) :
            /\ stm[i][1] = stm[1][1]
            /\ stm[i][2] = IF meta < 0 THEN i ELSE H + i

\* In message mode (the server's), when everything the client wrote was read,
\* everything was delivered: no message waits for the next one.
NothingWithheld ==
    end.mode = "message" /\ at = "idle" /\ wire = <<>> /\ Len(sent) > before
        => F!LastDelivered = Len(sent)

=============================================================================
