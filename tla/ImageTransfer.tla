--------------------------- MODULE ImageTransfer ---------------------------
(***************************************************************************)
(* One image after the other, in pieces: the messages Server::translate    *)
(* sends for an image (src/Server/Server/Server.cpp) and the four handlers *)
(* of PipeClient that put it together again (src/Client/pipeclient.cpp).   *)
(*                                                                         *)
(* The pipe delivers whole messages in order (EnvelopMaker).  A connection *)
(* may end at any point, in the middle of an image too, and what was not   *)
(* read is then lost; the client's fields outlive the connection.  A       *)
(* message may also be lost alone, because translate goes on when SendData *)
(* failed (`transferred` is never looked at).  And messages that were sent *)
(* may be lost at a pause: SendAnswer leaves its writes pending, and those *)
(* of a thread that ends are cancelled.                                    *)
(***************************************************************************)
EXTENDS Integers, Sequences

CONSTANTS
    Unit,       \* units of data in a full packet, for the 1024 bytes of the code
    MaxSize,    \* bound: size of an image, in the same units
    MaxImages,  \* bound: images sent
    MaxWire     \* bound: messages sent and not handled

Kinds == {"TOTALPACKNUM", "TOTALSIZE", "PACKSIZE", "IMGDATA"}

ASSUME ImageTransferAssumption ==
    Unit \in Nat \ {0} /\ MaxSize \in Nat /\ MaxImages \in Nat /\ MaxWire \in Nat \ {0}

VARIABLES
    sizes,      \* sizes[n]: size of the n-th image the server read from a file
    next,       \* messages of the current image already sent (or lost)
    up,         \* is the client connected and the translation running?
    wire,       \* messages sent and not handled
    total, count, curr, tempTotal, tempCount,  \* PipeClient's fields
    image,      \* PipeClient's vector: what is in each place
    overrun,    \* 0, or the image whose data the client wrote outside of its vector
    shown,      \* the pictures gotImage was emitted with
    broken,     \* history: the images that met a lost message or the end of a connection
    unsized     \* history: the images whose CMD_TOTALSIZE a failed send lost

server == <<sizes, next, up>>
client == <<total, count, curr, tempTotal, tempCount, image, overrun, shown>>
history == <<broken, unsized>>
vars == <<server, wire, client, history>>

Blank == <<0, 0>>
Place == {Blank} \cup (1 .. MaxImages) \X (1 .. MaxSize)
Picture(n) == [i \in 1 .. sizes[n] |-> <<n, i>>]

TypeOK ==
    /\ sizes \in Seq(0 .. MaxSize) /\ Len(sizes) <= MaxImages
    /\ next \in Nat /\ up \in BOOLEAN
    /\ broken \subseteq 1 .. Len(sizes) /\ unsized \subseteq 1 .. Len(sizes)
    /\ Len(wire) <= MaxWire
    /\ \A i \in 1 .. Len(wire) : wire[i].kind \in Kinds
    /\ {total, count, curr, tempTotal, tempCount} \subseteq Nat
    /\ image \in Seq(Place)
    /\ overrun \in Nat
    /\ shown \in Seq(Seq(Place))

Init ==
    /\ sizes = <<>> /\ next = 0 /\ up = FALSE
    /\ wire = <<>>
    /\ total = 0 /\ count = 0 /\ curr = 0 /\ tempTotal = 0 /\ tempCount = 0
    /\ image = <<>> /\ overrun = 0 /\ shown = <<>>
    /\ broken = {} /\ unsized = {}

-----------------------------------------------------------------------------
(* translate *)

Current == Len(sizes)

\* full, last and total of lines 122-125, for the size of an image.
Full(size) == size \div Unit
Last(size) == size % Unit
Packets(size) == Full(size) + (IF Last(size) > 0 THEN 1 ELSE 0)

\* Messages of an image: two, and two for every packet.
Messages(size) == 2 + 2 * Packets(size)

PacketSize(size, p) == IF p <= Full(size) THEN Unit ELSE Last(size)

\* The k-th message of the n-th image; data is the piece of it at image.data() +
\* (p - 1) * 1024.
Message(n, k) ==
    LET size == sizes[n]
        p == (k - 1) \div 2
    IN IF k = 1 THEN [kind |-> "TOTALPACKNUM", value |-> Packets(size)]
       ELSE IF k = 2 THEN [kind |-> "TOTALSIZE", value |-> size]
       ELSE IF k % 2 = 1 THEN [kind |-> "PACKSIZE", value |-> PacketSize(size, p)]
       ELSE [kind |-> "IMGDATA",
             value |-> SubSeq(Picture(n), (p - 1) * Unit + 1,
                              (p - 1) * Unit + PacketSize(size, p))]

Shown(n) == \E i \in 1 .. Len(shown) : shown[i] = Picture(n)

AllSent == Current > 0 => next = Messages(sizes[Current])

\* The next file is read (after a pause, in which the client catches up or not).
NextImage ==
    /\ up /\ AllSent
    /\ Len(sizes) < MaxImages
    /\ \E size \in 0 .. MaxSize : sizes' = Append(sizes, size)
    /\ next' = 0
    /\ UNCHANGED <<up, wire, client, history>>

\* sendData of the next message...
Send ==
    /\ up /\ ~AllSent
    /\ Len(wire) < MaxWire
    /\ next' = next + 1
    /\ wire' = Append(wire, Message(Current, next + 1))
    /\ UNCHANGED <<sizes, up, client, history>>

\* ... or its failure, which nobody notices.
SendFails ==
    /\ up /\ ~AllSent
    /\ next' = next + 1
    /\ broken' = broken \cup {Current}
    /\ unsized' = IF Message(Current, next + 1).kind = "TOTALSIZE"
                  THEN unsized \cup {Current} ELSE unsized
    /\ UNCHANGED <<sizes, up, wire, client>>

Unshown == {n \in 1 .. Current : ~Shown(n)}

\* The client pauses the translation: its thread ends after an image, and what it has
\* sent and the client has not read is cancelled from some message on.  The next
\* start goes on in the same connection, with another first image.
Paused ==
    /\ up /\ AllSent /\ wire # <<>>
    /\ \E kept \in 0 .. Len(wire) - 1 : wire' = SubSeq(wire, 1, kept)
    /\ broken' = broken \cup Unshown
    /\ UNCHANGED <<server, client, unsized>>

-----------------------------------------------------------------------------
(* PipeClient *)

\* The handler of the first message on the wire.  Once it has written outside of its
\* vector nothing is known of the client: it handles nothing any more.
Handles(kind) ==
    /\ up /\ overrun = 0
    /\ wire # <<>> /\ wire[1].kind = kind
    /\ wire' = Tail(wire)
    /\ UNCHANGED <<server, history>>

\* image.resize(n)
Resized(n) == [i \in 1 .. n |-> IF i <= Len(image) THEN image[i] ELSE Blank]

getCount ==
    /\ Handles("TOTALPACKNUM")
    /\ count' = wire[1].value
    /\ UNCHANGED <<total, curr, tempTotal, tempCount, image, overrun, shown>>

\* Mutants: the progress of the previous image is not reset, in whole or in part.
getTotalKeepsProgress ==
    /\ Handles("TOTALSIZE")
    /\ total' = wire[1].value
    /\ image' = Resized(wire[1].value)
    /\ UNCHANGED <<count, tempTotal, tempCount, curr, overrun, shown>>

getTotalKeepsTotal ==
    /\ Handles("TOTALSIZE")
    /\ total' = wire[1].value
    /\ image' = Resized(wire[1].value)
    /\ count' = 0 /\ tempCount' = 0
    /\ UNCHANGED <<tempTotal, curr, overrun, shown>>

getTotal ==
    /\ Handles("TOTALSIZE")
    /\ total' = wire[1].value
    /\ image' = Resized(wire[1].value)
    /\ count' = 0 /\ tempTotal' = 0 /\ tempCount' = 0
    /\ UNCHANGED <<curr, overrun, shown>>

getCurr ==
    /\ Handles("PACKSIZE")
    /\ curr' = wire[1].value
    /\ UNCHANGED <<total, count, tempTotal, tempCount, image, overrun, shown>>

\* The piece is read to &image[0] + tempCount * 1024.
Written(piece) ==
    LET from == tempCount * Unit
    IN [i \in 1 .. Len(image) |->
          IF i > from /\ i <= from + Len(piece) THEN piece[i - from] ELSE image[i]]

getImgData ==
    /\ Handles("IMGDATA")
    /\ LET piece == wire[1].value
           received == tempTotal + Len(piece)
       IN /\ overrun' = IF tempCount * Unit + Len(piece) > Len(image) THEN piece[1][1] ELSE 0
          /\ IF received = total
             THEN /\ shown' = Append(shown, Written(piece))
                  /\ image' = <<>>
                  /\ count' = 0 /\ total' = 0 /\ tempTotal' = 0 /\ tempCount' = 0 /\ curr' = 0
             ELSE /\ image' = Written(piece)
                  /\ tempTotal' = received
                  /\ tempCount' = tempCount + 1
                  /\ UNCHANGED <<count, total, curr, shown>>

-----------------------------------------------------------------------------
(* Connections: the client connects and asks for images, and leaves or is   *)
(* disconnected whenever it happens.  The translation of the old connection *)
(* is over before the new one starts (NoForeignTranslation of ImageServer). *)

Connect ==
    /\ ~up
    /\ up' = TRUE
    /\ next' = IF Current = 0 THEN 0 ELSE Messages(sizes[Current])
    /\ UNCHANGED <<sizes, wire, client, history>>

Disconnect ==
    /\ up
    /\ up' = FALSE
    /\ wire' = <<>>
    /\ broken' = broken \cup Unshown
    /\ UNCHANGED <<sizes, next, client, unsized>>

Handle == getCount \/ getTotal \/ getCurr \/ getImgData

Next ==
    \/ NextImage \/ Send \/ SendFails \/ Paused
    \/ Handle
    \/ Connect \/ Disconnect

Spec == Init /\ [][Next]_vars

\* The server sends what it has begun; the client handles what arrives.
FairSpec == Spec /\ WF_vars(Send) /\ WF_vars(Handle)

-----------------------------------------------------------------------------
(* Properties *)

\* gotImage is emitted with images of the server, each as it is in its file, at most
\* once and in their order, whatever was lost before: the one message whose loss can
\* spoil a picture is the image's own CMD_TOTALSIZE (line 78 of pipeclient.cpp trusts
\* what an earlier image has left in total).
ShownImagesAreExact ==
    \E f \in [1 .. Len(shown) -> 1 .. Len(sizes)] :
        /\ \A i \in 1 .. Len(shown) : shown[i] = Picture(f[i]) \/ f[i] \in unsized
        /\ \A i \in 1 .. Len(shown) - 1 : f[i] < f[i + 1]

\* The client's vector is as long as total says, and only data of an image whose own
\* CMD_TOTALSIZE was lost are ever written outside of it.
OverrunNeedsLostSize == Len(image) = total /\ overrun \in {0} \cup unsized

\* An image whose connection lasts and of which nothing was lost is shown in the end,
\* unless the client is lost itself.  (An empty file is announced, but there is
\* nothing to show.)
WholeImageIsShown ==
    \A n \in 1 .. MaxImages :
        (n \in 1 .. Current /\ sizes[n] > 0 /\ (n = Current => AllSent)) ~>
            (n \in broken \/ (n \in 1 .. Current /\ Shown(n)) \/ overrun # 0)

=============================================================================
