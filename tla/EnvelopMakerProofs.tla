------------------------- MODULE EnvelopMakerProofs -------------------------
(***************************************************************************)
(* Theorems about EnvelopMaker, for every length of headers, metadata and  *)
(* buffers and any number of messages: what MakeEnvelop hands over is what *)
(* Framing promises.                                                       *)
(***************************************************************************)
EXTENDS EnvelopMaker, SequenceTheorems, TLAPS

BP == INSTANCE BinaryBufferProofs WITH Zero <- <<0, 0>>

-----------------------------------------------------------------------------
(* Where bytes are.  Everything written, in the order of writing, is one run  *)
(* of bytes; S[k] is the number of bytes written before message k of sizes z. *)

Layout(S, z) ==
    /\ \A k \in 1 .. Len(z) + 1 : S[k] \in Nat
    /\ \A k \in 1 .. Len(z) : S[k + 1] = S[k] + H + z[k]
    /\ \A k \in 1 .. Len(z), l \in 1 .. Len(z) + 1 : k < l => S[k] + H + z[k] <= S[l]

\* q holds what was written from place p on.
RunFrom(S, z, q, p) ==
    /\ p + Len(q) <= S[Len(z) + 1]
    /\ \A j \in 1 .. Len(q), k \in 1 .. Len(z) :
          S[k] < p + j /\ p + j <= S[k + 1] => q[j] = <<k, p + j - S[k]>>

\* The place after the i-th piece on the wire: the end of a message.
PieceEnd(S, i) == S[Len(sent) - Len(wire) + i + 1]

\* The place of the next read.
Here(S) == IF wire = <<>> THEN S[Len(sent) + 1] ELSE PieceEnd(S, 1) - Len(wire[1])

\* The place up to which the bytes that were read are cut.
CutAt(S) == IF at = "idle" THEN Here(S)
            ELSE Here(S) - (Len(auxBinBuffer.data) - auxBinBuffer.cur)

\* The message that is handed over next.
Coming == 1 + B!Larger(F!LastDelivered, before)

WirePlaced(S) ==
    /\ Len(wire) <= Len(sent)
    /\ end.mode = "byte" => Len(wire) <= 1
    /\ \A i \in 1 .. Len(wire) :
          /\ wire[i] # <<>>
          /\ RunFrom(S, sent, wire[i], PieceEnd(S, i) - Len(wire[i]))
          /\ end.mode = "message" =>
                /\ Len(wire[i]) <= H + sent[Len(sent) - Len(wire) + i]
                /\ i > 1 => Len(wire[i]) = H + sent[Len(sent) - Len(wire) + i]

ReadPlaced(S) ==
    at # "idle" =>
        /\ limit = Len(auxBinBuffer.data)
        /\ auxBinBuffer.data # <<>>
        /\ RunFrom(S, sent, auxBinBuffer.data, Here(S) - Len(auxBinBuffer.data))
        /\ at = "top" => auxBinBuffer.cur < Len(auxBinBuffer.data)

\* Without a header, the stream has the first bytes of the message that is coming...
HeaderPlaced(S) ==
    meta < 0 =>
        /\ at # "body"
        /\ Len(stm) = -1 - meta
        /\ CutAt(S) - Len(stm) = S[Coming]
        /\ RunFrom(S, sent, stm, S[Coming])
        /\ stm # <<>> =>
              /\ Coming <= Len(sent)
              /\ Len(stm) <= H + sent[Coming]
              /\ at = "top" => auxBinBuffer.cur = 0 /\ (TooShort => Here(S) = S[Coming + 1])

\* ... and with one, the first bytes of its metadata, but not the last.
BodyPlaced(S) ==
    meta >= 0 =>
        /\ Coming <= Len(sent)
        /\ msg = Coming /\ meta = sent[Coming]
        /\ CutAt(S) - Len(stm) = S[Coming] + H
        /\ RunFrom(S, sent, stm, S[Coming] + H)
        /\ IF meta = 0 THEN at = "body" /\ stm = <<>> ELSE Len(stm) < meta

\* In message mode a read is of one message, and the first brings the header.
MessageModeCuts(S) ==
    end.mode = "message" =>
        /\ meta < 0 => stm = <<>>
        /\ at # "idle" =>
              /\ Coming <= Len(sent)
              /\ Here(S) <= S[Coming + 1]
              /\ meta < 0 => ~TooShort

\* The server's reads are of a whole message.
ServerReadsWhole(S) ==
    end.reconnects =>
        IF at = "idle" THEN meta < 0 ELSE Coming <= Len(sent) /\ Here(S) = S[Coming + 1]

Placed(S) ==
    /\ Layout(S, sent)
    /\ WirePlaced(S) /\ ReadPlaced(S) /\ HeaderPlaced(S) /\ BodyPlaced(S)
    /\ MessageModeCuts(S) /\ ServerReadsWhole(S)

EnvelopInv ==
    /\ TypeOK
    /\ Coming \in 1 .. Len(sent) + 1
    /\ \E S : Placed(S)

-----------------------------------------------------------------------------
(* Runs of bytes *)

\* The starts of messages grow with their numbers.
LEMMA StartsGrow ==
    ASSUME EnvelopMakerAssumption, NEW z \in Seq(0 .. MaxMeta), NEW S, Layout(S, z),
           NEW k \in 1 .. Len(z) + 1, NEW l \in 1 .. Len(z) + 1
    PROVE  /\ S[k] \in Nat /\ S[l] \in Nat
           /\ k <= l => S[k] <= S[l]
           /\ S[k] < S[l] => k < l
           /\ k < l => S[k] + H <= S[l]
<1>1. S[k] \in Nat /\ S[l] \in Nat /\ H \in Nat \ {0} /\ Len(z) \in Nat
  BY DEF Layout, EnvelopMakerAssumption
<1>2. \A i \in 1 .. Len(z) : z[i] \in Nat
  OBVIOUS
<1>3. \A i \in 1 .. Len(z), j \in 1 .. Len(z) + 1 : i < j => S[i] + H + z[i] <= S[j]
  BY DEF Layout
<1>4. ASSUME NEW i \in 1 .. Len(z) + 1, NEW j \in 1 .. Len(z) + 1, i < j,
             S[i] \in Nat, S[j] \in Nat
      PROVE  S[i] + H <= S[j] /\ S[i] < S[j]
  <2>1. i \in 1 .. Len(z)
    BY <1>1, <1>4
  <2>2. z[i] \in Nat
    BY <1>2, <2>1
  <2>3. S[i] + H + z[i] <= S[j]
    BY <1>3, <1>4, <2>1
  <2>s. PICK s : s = S[i]
    OBVIOUS
  <2>t. PICK t : t = S[j]
    OBVIOUS
  <2>x. PICK x : x = z[i]
    OBVIOUS
  <2>4. s \in Nat /\ t \in Nat /\ x \in Nat /\ s + H + x <= t
    BY <1>4, <2>2, <2>3, <2>s, <2>t, <2>x
  <2>5. s + H <= t /\ s < t
    BY <1>1, <2>4
  <2> QED
    BY <2>5, <2>s, <2>t
<1>5. k < l => S[k] + H <= S[l] /\ S[k] < S[l]
  BY <1>1, <1>4
<1>6. l < k => S[l] < S[k]
  BY <1>1, <1>4
<1>7. k = l => S[k] = S[l]
  OBVIOUS
<1>8. k \in Int /\ l \in Int
  OBVIOUS
<1>s. PICK s : s = S[k]
  OBVIOUS
<1>t. PICK t : t = S[l]
  OBVIOUS
<1>9. /\ s \in Nat /\ t \in Nat
      /\ k < l => s < t
      /\ l < k => t < s
      /\ k = l => s = t
  BY <1>1, <1>5, <1>6, <1>7, <1>s, <1>t
<1>10. /\ k <= l => s <= t
       /\ s < t => k < l
  BY <1>8, <1>9
<1> QED
  BY <1>1, <1>5, <1>10, <1>s, <1>t

\* A part of a run is a run.
LEMMA PartOfRun ==
    ASSUME NEW z \in Seq(0 .. MaxMeta), NEW S, Layout(S, z),
           NEW q \in Seq(Byte), NEW p \in Int, RunFrom(S, z, q, p),
           NEW a \in Nat, NEW b \in Nat, a <= b, b <= Len(q)
    PROVE  /\ SubSeq(q, a + 1, b) \in Seq(Byte)
           /\ Len(SubSeq(q, a + 1, b)) = b - a
           /\ RunFrom(S, z, SubSeq(q, a + 1, b), p + a)
<1> DEFINE r == SubSeq(q, a + 1, b)
<1>1. /\ r \in Seq(Byte) /\ Len(r) = b - a
      /\ \A i \in 1 .. b - a : r[i] = q[a + i]
  <2>1. \A i \in a + 1 .. b : q[i] \in Byte
    OBVIOUS
  <2>2. /\ r \in Seq(Byte)
        /\ Len(r) = IF a + 1 <= b THEN b - (a + 1) + 1 ELSE 0
        /\ \A i \in 1 .. b - (a + 1) + 1 : r[i] = q[a + 1 + i - 1]
    BY <2>1, SubSeqProperties, a + 1 \in Int, b \in Int
  <2>3. b - (a + 1) + 1 = b - a /\ \A i \in 1 .. b - a : a + 1 + i - 1 = a + i
    OBVIOUS
  <2> QED
    BY <2>2, <2>3
<1>2. (p + a) + Len(r) <= S[Len(z) + 1]
  <2>1. S[Len(z) + 1] \in Nat /\ p + Len(q) <= S[Len(z) + 1]
    BY DEF RunFrom, Layout
  <2> QED
    BY <1>1, <2>1
<1>3. ASSUME NEW j \in 1 .. Len(r), NEW k \in 1 .. Len(z),
             S[k] < (p + a) + j, (p + a) + j <= S[k + 1]
      PROVE  r[j] = <<k, (p + a) + j - S[k]>>
  <2>1. a + j \in 1 .. Len(q) /\ p + (a + j) = (p + a) + j /\ S[k] \in Nat
    BY <1>1 DEF Layout
  <2>2. q[a + j] = <<k, p + (a + j) - S[k]>>
    BY <1>3, <2>1 DEF RunFrom
  <2>3. r[j] = q[a + j]
    BY <1>1
  <2> QED
    BY <2>1, <2>2, <2>3, SMTT(30)
<1> QED
  BY <1>1, <1>2, <1>3 DEF RunFrom

\* A run and the run after it are one.
LEMMA TwoRuns ==
    ASSUME NEW z \in Seq(0 .. MaxMeta), NEW S, Layout(S, z),
           NEW q \in Seq(Byte), NEW r \in Seq(Byte), NEW p \in Int,
           RunFrom(S, z, q, p), RunFrom(S, z, r, p + Len(q))
    PROVE  RunFrom(S, z, q \o r, p)
<1>1. /\ Len(q) \in Nat /\ Len(r) \in Nat /\ Len(q \o r) = Len(q) + Len(r)
      /\ \A i \in 1 .. Len(q) + Len(r) :
            (q \o r)[i] = IF i <= Len(q) THEN q[i] ELSE r[i - Len(q)]
  BY ConcatProperties
<1>2. p + Len(q \o r) <= S[Len(z) + 1]
  BY <1>1 DEF RunFrom
<1>3. ASSUME NEW j \in 1 .. Len(q \o r), NEW k \in 1 .. Len(z),
             S[k] < p + j, p + j <= S[k + 1]
      PROVE  (q \o r)[j] = <<k, p + j - S[k]>>
  <2>1. CASE j <= Len(q)
    BY <1>1, <1>3, <2>1 DEF RunFrom
  <2>2. CASE j > Len(q)
    <3>1. /\ j - Len(q) \in 1 .. Len(r)
          /\ (p + Len(q)) + (j - Len(q)) = p + j
          /\ (q \o r)[j] = r[j - Len(q)]
      BY <1>1, <2>2
    <3>2. r[j - Len(q)] = <<k, (p + Len(q)) + (j - Len(q)) - S[k]>>
      BY <1>3, <3>1 DEF RunFrom
    <3>3. S[k] \in Nat
      BY DEF Layout
    <3> QED
      BY <1>1, <3>1, <3>2, <3>3
  <2> QED
    BY <2>1, <2>2
<1> QED
  BY <1>2, <1>3 DEF RunFrom

\* Nothing is a run from any place.
LEMMA EmptyRun ==
    ASSUME NEW z, NEW S, NEW p \in Int, p <= S[Len(z) + 1]
    PROVE  RunFrom(S, z, <<>>, p)
  BY DEF RunFrom

\* The first bytes of a run are a run from the same place.
LEMMA StartOfRun ==
    ASSUME NEW z \in Seq(0 .. MaxMeta), NEW S, Layout(S, z),
           NEW q \in Seq(Byte), NEW p \in Int, RunFrom(S, z, q, p),
           NEW k \in Nat, k <= Len(q)
    PROVE  /\ SubSeq(q, 1, k) \in Seq(Byte)
           /\ Len(SubSeq(q, 1, k)) = k
           /\ RunFrom(S, z, SubSeq(q, 1, k), p)
<1>o. PICK o : o = 0
  OBVIOUS
<1>1. o \in Nat /\ o <= k /\ k <= Len(q)
  BY <1>o
<1>2. /\ SubSeq(q, o + 1, k) \in Seq(Byte)
      /\ Len(SubSeq(q, o + 1, k)) = k - o
      /\ RunFrom(S, z, SubSeq(q, o + 1, k), p + o)
  BY <1>1, PartOfRun
<1>3. o + 1 = 1 /\ k - o = k /\ p + o = p
  BY <1>o
<1> QED
  BY <1>2, <1>3

-----------------------------------------------------------------------------
(* What is known before every step *)

Known(S) ==
    /\ H \in Nat /\ H > 0
    /\ Len(sent) \in Nat /\ Len(wire) \in Nat /\ Len(wire) <= Len(sent) /\ Len(stm) \in Nat
    /\ Len(auxBinBuffer.data) \in Nat /\ auxBinBuffer.cur \in Nat
    /\ Here(S) \in Int /\ S[Len(sent) + 1] \in Nat /\ Here(S) <= S[Len(sent) + 1]
    /\ CutAt(S) \in Int /\ CutAt(S) <= Here(S)
    /\ at # "idle" => CutAt(S) = Here(S) - (Len(auxBinBuffer.data) - auxBinBuffer.cur)

Starts(S) ==
    /\ \A k \in 1 .. Len(sent) : sent[k] \in Nat /\ sent[k] <= MaxMeta /\ S[k + 1] = S[k] + H + sent[k]
    /\ \A k \in 1 .. Len(sent) + 1 : S[k] \in Nat

Pieces ==
    \A i \in 1 .. Len(wire) : wire[i] \in Seq(Byte) /\ Len(wire[i]) \in Nat /\ Len(wire[i]) > 0

\* The numbers and sequences a placed state consists of, with their types.
LEMMA Numbers ==
    ASSUME EnvelopMakerAssumption, TypeOK, NEW S, Placed(S)
    PROVE  Known(S) /\ Starts(S) /\ Pieces
<1>1. H \in Nat /\ H > 0 /\ MaxMeta \in Nat
  BY DEF EnvelopMakerAssumption
<1>2. /\ sent \in Seq(0 .. MaxMeta) /\ wire \in Seq(Seq(Byte)) /\ stm \in Seq(Byte)
      /\ auxBinBuffer \in B!Buffer /\ auxBinBuffer.cur <= Len(auxBinBuffer.data)
  BY DEF TypeOK
<1>3. /\ Len(sent) \in Nat /\ Len(sent) + 1 \in 1 .. Len(sent) + 1
      /\ \A k \in 1 .. Len(sent) : sent[k] \in Nat /\ sent[k] <= MaxMeta
  BY <1>1, <1>2
<1>4. Len(wire) \in Nat /\ \A i \in 1 .. Len(wire) : wire[i] \in Seq(Byte)
  BY <1>2
<1>5. Len(stm) \in Nat /\ Len(auxBinBuffer.data) \in Nat /\ auxBinBuffer.cur \in Nat
  BY <1>2 DEF B!Buffer
<1>6. /\ \A k \in 1 .. Len(sent) : S[k + 1] = S[k] + H + sent[k]
      /\ \A k \in 1 .. Len(sent) + 1 : S[k] \in Nat
  BY DEF Placed, Layout
<1>7. /\ Len(wire) <= Len(sent)
      /\ \A i \in 1 .. Len(wire) : wire[i] # <<>>
  BY DEF Placed, WirePlaced
<1>8. ASSUME NEW i \in 1 .. Len(wire) PROVE Len(wire[i]) \in Nat /\ Len(wire[i]) > 0
  <2>1. wire[i] \in Seq(Byte) /\ wire[i] # <<>>
    BY <1>4, <1>7
  <2> QED
    BY <2>1
<1>9. Here(S) \in Int /\ Here(S) <= S[Len(sent) + 1]
  <2>1. CASE wire = <<>>
    BY <1>3, <1>6, <2>1 DEF Here
  <2>2. CASE wire # <<>>
    <3>1. Len(wire) >= 1 /\ 1 \in 1 .. Len(wire)
      BY <1>2, <1>4, <2>2
    <3>2. Len(sent) - Len(wire) + 1 + 1 \in 1 .. Len(sent) + 1 /\ Len(sent) + 1 \in 1 .. Len(sent) + 1
      BY <1>3, <1>4, <1>7, <3>1
    <3>3. PieceEnd(S, 1) \in Nat /\ PieceEnd(S, 1) <= S[Len(sent) + 1] /\ S[Len(sent) + 1] \in Nat
      BY <1>2, <1>6, <3>2, StartsGrow DEF PieceEnd, Placed
    <3>4. Len(wire[1]) \in Nat
      BY <1>8, <3>1
    <3> QED
      BY <2>2, <3>3, <3>4 DEF Here
  <2> QED
    BY <2>1, <2>2
<1>10. /\ CutAt(S) \in Int /\ CutAt(S) <= Here(S)
       /\ at # "idle" => CutAt(S) = Here(S) - (Len(auxBinBuffer.data) - auxBinBuffer.cur)
  BY <1>2, <1>5, <1>9 DEF CutAt
<1> QED
  BY <1>1, <1>3, <1>4, <1>5, <1>6, <1>7, <1>8, <1>9, <1>10 DEF Known, Starts, Pieces

\* What a step finds left of the read is a run from the place where the cutting is.
LEMMA RestIsRun ==
    ASSUME NEW S, TypeOK, Placed(S), Known(S), at # "idle"
    PROVE  /\ Rest \in Seq(Byte)
           /\ Len(Rest) = Len(auxBinBuffer.data) - auxBinBuffer.cur
           /\ RunFrom(S, sent, Rest, CutAt(S))
<1> DEFINE q == auxBinBuffer.data
           a == auxBinBuffer.cur
           b == Len(auxBinBuffer.data)
           p == Here(S) - Len(auxBinBuffer.data)
<1>1. RunFrom(S, sent, q, p)
  BY DEF Placed, ReadPlaced
<1>2. CutAt(S) = p + a /\ p \in Int /\ a \in Nat /\ b \in Nat
  BY SMTT(30) DEF Known
<1>3. /\ q \in Seq(Byte) /\ a <= b /\ b = Len(q)
      /\ sent \in Seq(0 .. MaxMeta) /\ Layout(S, sent)
  BY DEF TypeOK, B!Buffer, Placed
<1>4. Rest = SubSeq(q, a + 1, b)
  BY DEF Rest, B!Avail
<1> HIDE DEF q, a, b, p
<1>5. b <= Len(q)
  BY <1>2, <1>3
<1>6. /\ SubSeq(q, a + 1, b) \in Seq(Byte) /\ Len(SubSeq(q, a + 1, b)) = b - a
      /\ RunFrom(S, sent, SubSeq(q, a + 1, b), p + a)
  BY <1>1, <1>2, <1>3, <1>5, PartOfRun
<1> QED
  BY <1>2, <1>4, <1>6 DEF a, b

\* A step that leaves the pipe alone leaves every place in the stream where it was.
LEMMA PipeKeeps ==
    ASSUME NEW S, Placed(S), end' = end, sent' = sent, before' = before, wire' = wire
    PROVE  /\ Layout(S, sent)' /\ WirePlaced(S)'
           /\ Here(S)' = Here(S)
           /\ delivered' = delivered => Coming' = Coming
<1>1. Layout(S, sent)'
  BY DEF Placed, Layout
<1>2. \A i : PieceEnd(S, i)' = PieceEnd(S, i)
  BY DEF PieceEnd
<1>3. WirePlaced(S)'
  BY <1>2, SMTT(30) DEF Placed, WirePlaced, RunFrom
<1>4. Here(S)' = Here(S)
  BY <1>2 DEF Here
<1>5. delivered' = delivered => Coming' = Coming
  BY DEF Coming, F!LastDelivered, B!Larger
<1> QED
  BY <1>1, <1>3, <1>4, <1>5

\* A header that arrived in several pieces is completed from the cache.
LEMMA HeaderCachedKeeps ==
    ASSUME EnvelopMakerAssumption, TypeOK, Coming \in 1 .. Len(sent) + 1, NEW S, Placed(S),
           HeaderCached, end' = end
    PROVE  TypeOK' /\ Coming' = Coming /\ Placed(S)'
<1>c. PICK c : c = Coming
  OBVIOUS
<1>h. PICK h : h = Here(S)
  OBVIOUS
<1>t. PICK t : t = CutAt(S)
  OBVIOUS
<1>n. PICK n : n = Len(stm)
  OBVIOUS
<1>a. PICK a : a = Len(auxBinBuffer.data) - auxBinBuffer.cur
  OBVIOUS
<1>1. c \in 1 .. Len(sent) + 1
  BY <1>c
<1>0. Known(S) /\ Starts(S)
  BY Numbers
<1>2. /\ Layout(S, sent)' /\ WirePlaced(S)'
      /\ Here(S)' = h /\ Coming' = c
      /\ sent' = sent /\ delivered' = delivered /\ before' = before /\ wire' = wire
      /\ auxBinBuffer' = auxBinBuffer /\ limit' = limit /\ msg' = msg
  BY <1>c, <1>h, PipeKeeps DEF HeaderCached
<1>3. at = "top" /\ meta < 0 /\ TooShort /\ stm' = stm \o Rest /\ meta' = meta - Len(Rest) /\ at' = "idle"
  BY DEF HeaderCached
<1>4. a \in Nat /\ 0 < a /\ a < H /\ H \in Nat
  <2>1. auxBinBuffer.cur < Len(auxBinBuffer.data)
    BY <1>3 DEF Placed, ReadPlaced
  <2>2. Len(auxBinBuffer.data) \in Nat /\ auxBinBuffer.cur \in Nat /\ H \in Nat
    BY <1>0 DEF Known
  <2>3. a < H
    BY <1>3, <1>a, <2>1, <2>2 DEF TooShort, B!get_avail_size, B!get_current_pos, B!eof
  <2> QED
    BY <1>a, <2>1, <2>2, <2>3
<1>5. Rest \in Seq(Byte) /\ Len(Rest) = a /\ RunFrom(S, sent, Rest, t)
  BY <1>0, <1>3, <1>a, <1>t, RestIsRun
<1>6. h \in Int /\ t = h - a
  BY <1>0, <1>3, <1>a, <1>h, <1>t DEF Known
<1>7. /\ n \in Nat /\ n = -1 - meta /\ t - n = S[c] /\ RunFrom(S, sent, stm, S[c])
      /\ stm # <<>> => /\ c <= Len(sent) /\ h = S[c + 1]
  BY <1>0, <1>3, <1>c, <1>h, <1>t, <1>n DEF Placed, HeaderPlaced, Known
<1>8. S[c] \in Nat /\ S[Len(sent) + 1] \in Nat /\ h <= S[Len(sent) + 1] /\ Len(sent) \in Nat
  BY <1>0, <1>1, <1>h DEF Known, Starts
<1>9. meta \in Int /\ MaxMeta \in Nat /\ meta <= MaxMeta
  BY DEF TypeOK, EnvelopMakerAssumption
<1>10. stm \in Seq(Byte) /\ sent \in Seq(0 .. MaxMeta) /\ Layout(S, sent)
  BY DEF TypeOK, Placed
<1>11. stm' \in Seq(Byte) /\ Len(stm') = n + a
  BY <1>3, <1>5, <1>10, <1>n, ConcatProperties
<1>13. S[c] + n = t /\ S[c] + n + a = h
  BY <1>4, <1>6, <1>7, <1>8
<1>12. RunFrom(S, sent, stm', S[c])
  <2>1. S[c] + Len(stm) = t /\ S[c] \in Int
    BY <1>8, <1>13, <1>n
  <2>2. RunFrom(S, sent, Rest, S[c] + Len(stm))
    BY <1>5, <2>1
  <2>3. RunFrom(S, sent, stm \o Rest, S[c])
    BY <1>5, <1>7, <1>10, <2>1, <2>2, TwoRuns
  <2> QED
    BY <1>3, <2>3
<1>14. c <= Len(sent) /\ n + a <= H + sent[c]
  <2>1. c # Len(sent) + 1
    BY <1>4, <1>7, <1>8, <1>13
  <2>2. c \in 1 .. Len(sent)
    BY <1>1, <1>8, <2>1
  <2>3. sent[c] \in Nat /\ S[c + 1] = S[c] + H + sent[c]
    BY <1>0, <2>2 DEF Starts
  <2>4. CASE stm = <<>>
    BY <1>4, <1>n, <2>2, <2>3, <2>4
  <2>5. CASE stm # <<>>
    <3>1. S[c] + n + a = S[c] + H + sent[c]
      BY <1>7, <1>13, <2>3, <2>5
    <3> QED
      BY <1>4, <1>7, <1>8, <2>2, <2>3, <3>1, SMTT(30)
  <2> QED
    BY <2>4, <2>5
<1>15. meta' \in Int /\ meta' < 0 /\ Len(stm') = -1 - meta' /\ meta' <= MaxMeta
  BY <1>3, <1>4, <1>5, <1>7, <1>9, <1>11
<1>16. HeaderPlaced(S)'
  <2>1. CutAt(S)' = h
    BY <1>2, <1>3 DEF CutAt
  <2>2. CutAt(S)' - Len(stm') = S[c]
    BY <1>4, <1>7, <1>8, <1>11, <1>13, <2>1
  <2> QED
    BY <1>2, <1>3, <1>11, <1>12, <1>14, <1>15, <2>2 DEF HeaderPlaced
<1>17. ReadPlaced(S)' /\ BodyPlaced(S)' /\ ServerReadsWhole(S)'
  BY <1>3, <1>15 DEF ReadPlaced, BodyPlaced, ServerReadsWhole
<1>18. MessageModeCuts(S)'
  <2>1. end.mode # "message"
    BY <1>3 DEF Placed, MessageModeCuts
  <2> QED
    BY <2>1 DEF MessageModeCuts
<1>19. TypeOK'
  BY <1>2, <1>3, <1>11, <1>15 DEF TypeOK
<1> QED
  BY <1>2, <1>c, <1>16, <1>17, <1>18, <1>19 DEF Placed

\* The cached bytes of a header are put back in front of the bytes of the read.
LEMMA RestoredIs ==
    ASSUME TypeOK, auxBinBuffer.cur = 0, stm # <<>>
    PROVE  Restored(stm) = [data |-> stm \o auxBinBuffer.data, cur |-> 0]
<1>1. auxBinBuffer \in BP!Buffer /\ stm \in Seq(Byte)
  BY DEF TypeOK, B!Buffer, BP!Buffer
<1> QED
  BY <1>1, BP!CachedPieceIsRestored
  DEF Restored, B!reset, B!write, B!Larger, BP!reset, BP!write, BP!Larger

\* What a header is taken from.
All == IF meta = -1 THEN auxBinBuffer ELSE Restored(SubSeq(stm, 1, -1 - meta))

\* It is a run of what was written, up to the place of the next read, and its
\* position is the start of the message that is coming.
LEMMA AllIsRun ==
    ASSUME EnvelopMakerAssumption, TypeOK, Coming \in 1 .. Len(sent) + 1, NEW S, Placed(S),
           at = "top", meta < 0, ~TooShort
    PROVE  /\ All \in B!Buffer /\ All.cur + H <= Len(All.data)
           /\ RunFrom(S, sent, All.data, Here(S) - Len(All.data))
           /\ Here(S) - Len(All.data) + All.cur = S[Coming]
           /\ meta = -1 => stm = <<>> /\ limit = Len(All.data)
<1>c. PICK c : c = Coming
  OBVIOUS
<1>h. PICK h : h = Here(S)
  OBVIOUS
<1>t. PICK t : t = CutAt(S)
  OBVIOUS
<1>n. PICK n : n = Len(stm)
  OBVIOUS
<1>l. PICK l : l = Len(auxBinBuffer.data)
  OBVIOUS
<1>u. PICK u : u = auxBinBuffer.cur
  OBVIOUS
<1>0. Known(S) /\ Starts(S)
  BY Numbers
<1>1. c \in 1 .. Len(sent) + 1 /\ Len(sent) \in Nat /\ S[c] \in Nat
  BY <1>0, <1>c DEF Known, Starts
<1>2. l \in Nat /\ u \in Nat /\ H \in Nat /\ H > 0 /\ n \in Nat /\ h \in Int /\ t = h - (l - u)
  BY <1>0, <1>h, <1>t, <1>n, <1>l, <1>u DEF Known
<1>3. u < l
  BY <1>l, <1>u DEF Placed, ReadPlaced
<1>4. l - u >= H
  BY <1>2, <1>3, <1>l, <1>u DEF TooShort, B!get_avail_size, B!get_current_pos, B!eof
<1>5. auxBinBuffer \in B!Buffer /\ auxBinBuffer.data \in Seq(Byte) /\ stm \in Seq(Byte) /\ sent \in Seq(0 .. MaxMeta)
  BY DEF TypeOK, B!Buffer
<1>6. Layout(S, sent) /\ limit = l /\ RunFrom(S, sent, auxBinBuffer.data, h - l)
  BY <1>h, <1>l DEF Placed, ReadPlaced
<1>7. /\ n = -1 - meta /\ t - n = S[c] /\ RunFrom(S, sent, stm, S[c])
      /\ stm # <<>> => u = 0
  BY <1>c, <1>t, <1>n, <1>u DEF Placed, HeaderPlaced
<1>m. meta \in Int
  BY DEF TypeOK
<1>8. CASE meta = -1
  <2>1. n = 0 /\ stm = <<>>
    BY <1>5, <1>7, <1>8, <1>n
  <2>2. All = auxBinBuffer
    BY <1>8 DEF All
  <2>3. h - l + u = S[c] /\ u + H <= l
    BY <1>1, <1>2, <1>4, <1>7, <2>1
  <2> QED
    BY <1>5, <1>6, <2>1, <2>2, <2>3, <1>c, <1>h, <1>l, <1>u
<1>9. CASE meta # -1
  <2>1. n > 0 /\ -1 - meta = n
    BY <1>7, <1>9, <1>m
  <2>2. stm # <<>>
    BY <2>1, <1>n
  <2>3. SubSeq(stm, 1, -1 - meta) = stm
    BY <2>1, <1>n, <1>5
  <2>4. All = [data |-> stm \o auxBinBuffer.data, cur |-> 0]
    BY <1>7, <1>9, <1>u, <2>2, <2>3, RestoredIs DEF All
  <2>5. stm \o auxBinBuffer.data \in Seq(Byte) /\ Len(stm \o auxBinBuffer.data) = n + l
    BY <1>5, <1>n, <1>l, ConcatProperties
  <2>6. u = 0 /\ S[c] + n = h - l /\ h - (n + l) = S[c]
    BY <1>1, <1>2, <1>7, <2>2
  <2>7. RunFrom(S, sent, stm, S[c]) /\ RunFrom(S, sent, auxBinBuffer.data, S[c] + Len(stm)) /\ S[c] \in Int
    BY <1>1, <1>6, <1>7, <1>n, <2>6
  <2>8. RunFrom(S, sent, stm \o auxBinBuffer.data, S[c])
    BY <1>5, <1>6, <2>7, TwoRuns
  <2>9. All \in B!Buffer /\ All.data = stm \o auxBinBuffer.data /\ All.cur = 0 /\ Len(All.data) = n + l
    BY <2>4, <2>5 DEF B!Buffer
  <2>10. 0 + H <= n + l /\ h - (n + l) + 0 = S[c]
    BY <1>1, <1>2, <1>4, <2>1, <2>6
  <2> QED
    BY <1>9, <1>c, <1>h, <2>6, <2>8, <2>9, <2>10
<1> QED
  BY <1>8, <1>9

\* A header is read in one piece, after what was cached.
LEMMA HeaderReadKeeps ==
    ASSUME EnvelopMakerAssumption, TypeOK, Coming \in 1 .. Len(sent) + 1, NEW S, Placed(S),
           HeaderRead, end' = end
    PROVE  TypeOK' /\ Coming' = Coming /\ Placed(S)'
<1>c. PICK c : c = Coming
  OBVIOUS
<1>h. PICK h : h = Here(S)
  OBVIOUS
<1>q. PICK q : q = All.data
  OBVIOUS
<1>u. PICK u : u = All.cur
  OBVIOUS
<1>l. PICK l : l = Len(q)
  OBVIOUS
<1>1. at = "top" /\ meta < 0 /\ ~TooShort /\ at' = "body"
  BY DEF HeaderRead
<1>2. /\ auxBinBuffer' = B!AfterRead(All, H)
      /\ limit' = IF meta = -1 THEN limit ELSE Len(All.data)
      /\ msg' = B!BytesRead(All, H)[1][1]
      /\ meta' = SizeIn(B!BytesRead(All, H))
      /\ stm' = IF meta = -1 THEN stm ELSE <<>>
  BY DEF HeaderRead, All
<1>3. /\ Layout(S, sent)' /\ WirePlaced(S)'
      /\ Here(S)' = h /\ Coming' = c
      /\ sent' = sent /\ delivered' = delivered /\ before' = before /\ wire' = wire
  BY <1>c, <1>h, PipeKeeps DEF HeaderRead
<1>0. Known(S) /\ Starts(S)
  BY Numbers
<1>4. /\ c \in 1 .. Len(sent) + 1 /\ Len(sent) \in Nat /\ S[c] \in Nat /\ h \in Int
      /\ h <= S[Len(sent) + 1] /\ S[Len(sent) + 1] \in Nat /\ H \in Nat /\ H > 0
  BY <1>0, <1>c, <1>h DEF Known, Starts
<1>5. /\ All \in B!Buffer /\ RunFrom(S, sent, q, h - l) /\ h - l + u = S[c] /\ u + H <= l
      /\ limit' = l /\ stm' = <<>>
  BY <1>1, <1>2, <1>c, <1>h, <1>q, <1>u, <1>l, AllIsRun
<1>6. q \in Seq(Byte) /\ u \in Nat /\ l \in Nat /\ All = [data |-> q, cur |-> u]
  BY <1>5, <1>q, <1>u, <1>l DEF B!Buffer
<1>7. h >= S[c] + H
  BY <1>4, <1>5, <1>6
<1>8. c \in 1 .. Len(sent)
  <2>1. c # Len(sent) + 1
    BY <1>4, <1>7
  <2> QED
    BY <1>4, <2>1
<1>9. sent[c] \in Nat /\ sent[c] <= MaxMeta /\ S[c + 1] = S[c] + H + sent[c] /\ S[c + 1] \in Nat
  BY <1>0, <1>4, <1>8 DEF Starts
<1>10. B!get_avail_size(All) = l - u /\ B!Smaller(H, l - u) = H
  <2>1. All.data = q /\ All.cur = u
    BY <1>6
  <2>2. ~(u >= l) /\ ~(l - u < H)
    BY <1>4, <1>5, <1>6
  <2>3. H < l - u \/ H = l - u
    BY <1>4, <1>5, <1>6
  <2> QED
    BY <2>1, <2>2, <2>3, <1>l DEF B!get_avail_size, B!get_current_pos, B!eof, B!Smaller
<1>11. auxBinBuffer' = [data |-> q, cur |-> u + H]
  <2>1. auxBinBuffer' = [All EXCEPT !.cur = All.cur + H]
    BY <1>2, <1>6, <1>10 DEF B!AfterRead
  <2> QED
    BY <1>6, <2>1
<1>12. B!BytesRead(All, H)[1] = <<c, 1>>
  <2>1. B!BytesRead(All, H) = SubSeq(q, u + 1, u + H)
    BY <1>6, <1>10 DEF B!BytesRead
  <2>2. SubSeq(q, u + 1, u + H)[1] = q[u + 1]
    BY <1>4, <1>5, <1>6, <1>l, SMTT(30)
  <2>3. u + 1 \in 1 .. Len(q) /\ (h - l) + (u + 1) = S[c] + 1
    BY <1>4, <1>5, <1>6, <1>l
  <2>4. S[c] < S[c] + 1 /\ S[c] + 1 <= S[c + 1]
    BY <1>4, <1>9, SMTT(30)
  <2>5. q[u + 1] = <<c, (h - l) + (u + 1) - S[c]>>
    BY <1>5, <1>8, <2>3, <2>4 DEF RunFrom
  <2>6. (h - l) + (u + 1) - S[c] = 1
    BY <1>4, <1>5, <1>6
  <2> QED
    BY <2>1, <2>2, <2>5, <2>6
<1>13. msg' = c /\ meta' = sent[c]
  BY <1>2, <1>12 DEF SizeIn
<1>14. TypeOK'
  <2>1. auxBinBuffer' \in B!Buffer /\ auxBinBuffer'.cur <= Len(auxBinBuffer'.data) /\ limit' \in 0 .. Len(auxBinBuffer'.data)
    BY <1>4, <1>5, <1>6, <1>11, <1>l, SMTT(30) DEF B!Buffer
  <2>2. msg' \in 0 .. MaxMsgs /\ meta' \in Int /\ meta' <= MaxMeta /\ stm' \in Seq(Byte) /\ ~(meta' < 0)
    BY <1>5, <1>8, <1>9, <1>13, SMTT(30) DEF TypeOK, EnvelopMakerAssumption
  <2> QED
    BY <1>1, <1>3, <2>1, <2>2 DEF TypeOK
<1>15. CutAt(S)' = S[c] + H
  <2>1. Len(auxBinBuffer'.data) = l /\ auxBinBuffer'.cur = u + H
    BY <1>11, <1>l
  <2>2. CutAt(S)' = h - (l - (u + H))
    BY <1>1, <1>3, <2>1 DEF CutAt
  <2> QED
    BY <1>4, <1>5, <1>6, <2>2
<1>16. BodyPlaced(S)'
  <2>1. RunFrom(S, sent', <<>>, S[c] + H)
    <3>1. S[c] + H \in Int /\ S[c] + H <= S[Len(sent) + 1]
      BY <1>4, <1>7
    <3> QED
      BY <1>3, <3>1, EmptyRun
  <2>2. c <= Len(sent) /\ (S[c] + H) - Len(<<>>) = S[c] + H
    BY <1>4, <1>8
  <2>3. IF sent[c] = 0 THEN at' = "body" /\ stm' = <<>> ELSE Len(stm') < meta'
    BY <1>1, <1>5, <1>9, <1>13
  <2> QED
    BY <1>3, <1>5, <1>13, <1>15, <2>1, <2>2, <2>3 DEF BodyPlaced
<1>17. HeaderPlaced(S)'
  BY <1>9, <1>13 DEF HeaderPlaced
<1>18. ReadPlaced(S)'
  <2>1. auxBinBuffer'.data = q /\ q # <<>>
    BY <1>4, <1>5, <1>6, <1>11, <1>l
  <2> QED
    BY <1>1, <1>3, <1>5, <1>l, <2>1 DEF ReadPlaced, RunFrom
<1>19. MessageModeCuts(S)'
  BY <1>1, <1>3, <1>9, <1>13, <1>c, <1>h DEF Placed, MessageModeCuts
<1>20. ServerReadsWhole(S)'
  BY <1>1, <1>3, <1>c, <1>h DEF Placed, ServerReadsWhole
<1> QED
  BY <1>3, <1>14, <1>16, <1>17, <1>18, <1>19, <1>20, <1>c DEF Placed

\* A message is handed over, and what was read is cut up to u, where the next one starts.
HandedOver(S, u, x) ==
    /\ Coming \in 1 .. Len(sent)
    /\ at # "idle"
    /\ u \in Nat /\ u <= Len(auxBinBuffer.data)
    /\ Here(S) - (Len(auxBinBuffer.data) - u) = S[Coming + 1]
    /\ auxBinBuffer' = [auxBinBuffer EXCEPT !.cur = u]
    /\ x \in Seq(Byte) /\ delivered' = Append(delivered, [msg |-> Coming, body |-> x])
    /\ EnvelopCleared
    /\ at' = IF u >= Len(auxBinBuffer.data) THEN "idle" ELSE "top"
    /\ sent' = sent /\ before' = before /\ wire' = wire /\ limit' = limit /\ end' = end

\* An envelop is complete: the next byte is the first of the next message.
LEMMA DeliveredKeeps ==
    ASSUME EnvelopMakerAssumption, TypeOK, NEW S, Placed(S), NEW u, NEW x, HandedOver(S, u, x)
    PROVE  TypeOK' /\ Coming' = Coming + 1 /\ Placed(S)'
<1>c. PICK c : c = Coming
  OBVIOUS
<1>h. PICK h : h = Here(S)
  OBVIOUS
<1>l. PICK l : l = Len(auxBinBuffer.data)
  OBVIOUS
<1>0. Known(S) /\ Starts(S)
  BY Numbers
<1>s. sent' = sent /\ before' = before /\ wire' = wire /\ limit' = limit /\ end' = end
  BY DEF HandedOver
<1>1. Layout(S, sent)' /\ WirePlaced(S)' /\ Here(S)' = h
  BY <1>h, <1>s, PipeKeeps
<1>2. /\ c \in 1 .. Len(sent) /\ Len(sent) \in Nat /\ S[c + 1] \in Nat /\ h \in Int /\ l \in Nat
      /\ h - (l - u) = S[c + 1] /\ u <= l /\ u \in Nat /\ at # "idle"
  <2>1. Len(sent) \in Nat /\ c \in 1 .. Len(sent)
    BY <1>0, <1>c DEF Known, HandedOver
  <2>2. c + 1 \in 1 .. Len(sent) + 1
    BY <2>1
  <2> QED
    BY <1>0, <1>c, <1>h, <1>l, <2>1, <2>2 DEF Known, Starts, HandedOver
<1>3. msg' = 0 /\ meta' = -1 /\ stm' = <<>>
  BY DEF EnvelopCleared, HandedOver
<1>4. auxBinBuffer'.data = auxBinBuffer.data /\ auxBinBuffer'.cur = u /\ auxBinBuffer' \in B!Buffer
  BY <1>2 DEF TypeOK, B!Buffer, HandedOver
<1>5. Coming' = c + 1
  <2>1. delivered \in Seq([msg : 1 .. MaxMsgs, body : Seq(Byte)]) /\ before \in Nat /\ Len(sent) <= MaxMsgs
    BY DEF TypeOK
  <2>0. delivered' = Append(delivered, [msg |-> c, body |-> x])
    BY <1>c DEF HandedOver
  <2>2. /\ delivered' # <<>> /\ delivered'[Len(delivered')] = [msg |-> c, body |-> x]
    BY <2>0, <2>1
  <2>3. F!LastDelivered' = c
    BY <2>2 DEF F!LastDelivered
  <2>4. F!LastDelivered \in Nat
    <3>1. CASE delivered = <<>>
      BY <3>1 DEF F!LastDelivered
    <3>2. CASE delivered # <<>>
      <4>1. Len(delivered) \in 1 .. Len(delivered)
        BY <2>1, <3>2
      <4>2. delivered[Len(delivered)] \in [msg : 1 .. MaxMsgs, body : Seq(Byte)]
        BY <2>1, <4>1, ElementOfSeq
      <4> QED
        BY <3>2, <4>2 DEF F!LastDelivered
    <3> QED
      BY <3>1, <3>2
  <2>6. before \in Nat
    BY <2>1
  <2>5. before < c
    BY <1>c, <2>6, <2>4 DEF Coming, B!Larger
  <2>7. c \in Nat /\ before' = before
    BY <1>2, <1>s
  <2> QED
    BY <2>3, <2>5, <2>6, <2>7 DEF Coming, B!Larger
<1>7. at' = IF u < l THEN "top" ELSE "idle"
  <2>1. at' = IF u >= l THEN "idle" ELSE "top"
    BY <1>l DEF HandedOver
  <2> QED
    BY <1>2, <2>1
<1>6. TypeOK'
  <2>1. delivered' \in Seq([msg : 1 .. MaxMsgs, body : Seq(Byte)])
    <3>1. delivered \in Seq([msg : 1 .. MaxMsgs, body : Seq(Byte)]) /\ c \in 1 .. MaxMsgs
      BY <1>2 DEF TypeOK, EnvelopMakerAssumption
    <3>2. /\ [msg |-> c, body |-> x] \in [msg : 1 .. MaxMsgs, body : Seq(Byte)]
          /\ delivered' = Append(delivered, [msg |-> c, body |-> x])
      BY <1>c, <3>1 DEF HandedOver
    <3> QED
      BY <3>1, <3>2
  <2>2. msg' \in 0 .. MaxMsgs /\ meta' \in Int /\ meta' <= MaxMeta /\ stm' \in Seq(Byte) /\ Len(stm') = -1 - meta'
    BY <1>3 DEF EnvelopMakerAssumption
  <2>3. auxBinBuffer'.cur <= Len(auxBinBuffer'.data) /\ limit' \in 0 .. Len(auxBinBuffer'.data)
    BY <1>2, <1>4, <1>l, <1>s DEF TypeOK
  <2> QED
    BY <1>4, <1>7, <1>s, <2>1, <2>2, <2>3 DEF TypeOK
<1>8. CutAt(S)' = S[c + 1]
  <2>1. CutAt(S)' = IF u < l THEN h - (l - u) ELSE h
    BY <1>1, <1>4, <1>7, <1>l DEF CutAt
  <2> QED
    BY <1>2, <2>1
<1>9. HeaderPlaced(S)'
  <2>1. RunFrom(S, sent', <<>>, S[c + 1])
    <3>1. S[c + 1] \in Int /\ S[c + 1] <= S[Len(sent) + 1]
      <4>1. c + 1 \in 1 .. Len(sent) + 1 /\ Len(sent) + 1 \in 1 .. Len(sent) + 1 /\ c + 1 <= Len(sent) + 1
        BY <1>2
      <4>2. sent \in Seq(0 .. MaxMeta) /\ Layout(S, sent)
        BY DEF TypeOK, Placed
      <4> QED
        BY <4>1, <4>2, StartsGrow
    <3> QED
      BY <1>s, <3>1, EmptyRun
  <2>2. S[c + 1] - Len(<<>>) = S[c + 1] /\ Len(<<>>) = -1 - (-1)
    BY <1>2
  <2>3. at' # "body"
    BY <1>7
  <2> QED
    BY <1>3, <1>5, <1>8, <1>s, <2>1, <2>2, <2>3 DEF HeaderPlaced
<1>10. BodyPlaced(S)'
  BY <1>3 DEF BodyPlaced
<1>11. ReadPlaced(S)'
  <2>1. limit = l /\ auxBinBuffer.data # <<>> /\ RunFrom(S, sent, auxBinBuffer.data, h - l)
    BY <1>2, <1>h, <1>l DEF Placed, ReadPlaced
  <2>2. RunFrom(S, sent, auxBinBuffer.data, h - l)'
    BY <1>4, <1>s, <2>1 DEF RunFrom
  <2>3. at' = "top" => u < l
    BY <1>7
  <2>4. auxBinBuffer'.data # <<>> /\ Len(auxBinBuffer'.data) = l
    BY <1>4, <1>l, <2>1
  <2> QED
    BY <1>1, <1>4, <1>s, <2>1, <2>2, <2>3, <2>4 DEF ReadPlaced
<1>12. MessageModeCuts(S)'
  <2>1. ASSUME end.mode = "message" PROVE at' = "idle"
    <3>1. h <= S[c + 1]
      BY <1>2, <1>c, <1>h, <2>1 DEF Placed, MessageModeCuts
    <3>2. ~(u < l)
      BY <1>2, <3>1
    <3> QED
      BY <1>7, <3>2
  <2> QED
    BY <1>3, <1>s, <2>1 DEF MessageModeCuts
<1>13. ServerReadsWhole(S)'
  <2>1. ASSUME end.reconnects PROVE at' = "idle"
    <3>1. h = S[c + 1]
      BY <1>2, <1>c, <1>h, <2>1 DEF Placed, ServerReadsWhole
    <3>2. ~(u < l)
      BY <1>2, <3>1
    <3> QED
      BY <1>7, <3>2
  <2> QED
    BY <1>3, <1>s, <2>1 DEF ServerReadsWhole
<1> QED
  BY <1>1, <1>5, <1>6, <1>9, <1>10, <1>11, <1>12, <1>13, <1>c DEF Placed

\* In the body of a message.
LEMMA BodyStands ==
    ASSUME TypeOK, Coming \in 1 .. Len(sent) + 1, NEW S, Placed(S), Known(S), Starts(S), InBody
    PROVE  /\ at # "idle" /\ meta >= 0 /\ meta \in Nat
           /\ Coming \in 1 .. Len(sent) /\ msg = Coming /\ meta = sent[Coming]
           /\ S[Coming + 1] = S[Coming] + H + meta /\ S[Coming] \in Nat
           /\ CutAt(S) = S[Coming] + H + Len(stm)
           /\ RunFrom(S, sent, stm, S[Coming] + H)
           /\ IF meta = 0 THEN at = "body" /\ stm = <<>> ELSE Len(stm) < meta
<1>c. PICK c : c = Coming
  OBVIOUS
<1>1. at # "idle" /\ meta >= 0
  <2>1. CASE at = "top"
    BY <2>1 DEF InBody
  <2>2. CASE at = "body"
    <3>1. ~(meta < 0)
      BY <2>2 DEF Placed, HeaderPlaced
    <3> QED
      BY <2>2, <3>1 DEF TypeOK
  <2> QED
    BY <2>1, <2>2 DEF InBody
<1>2. /\ c <= Len(sent) /\ msg = c /\ meta = sent[c] /\ CutAt(S) - Len(stm) = S[c] + H
      /\ RunFrom(S, sent, stm, S[c] + H)
      /\ IF meta = 0 THEN at = "body" /\ stm = <<>> ELSE Len(stm) < meta
  BY <1>1, <1>c DEF Placed, BodyPlaced
<1>3. Len(sent) \in Nat /\ CutAt(S) \in Int /\ Len(stm) \in Nat /\ H \in Nat
  BY DEF Known
<1>4. c \in 1 .. Len(sent)
  BY <1>2, <1>3, <1>c
<1>5. S[c + 1] = S[c] + H + sent[c] /\ S[c] \in Nat /\ sent[c] \in Nat
  BY <1>3, <1>4 DEF Starts
<1>6. CutAt(S) = S[c] + H + Len(stm)
  BY <1>2, <1>3, <1>5
<1> QED
  BY <1>1, <1>2, <1>4, <1>5, <1>6, <1>c

\* A message without a body is complete with its header.
LEMMA BodyEmptyKeeps ==
    ASSUME EnvelopMakerAssumption, TypeOK, Coming \in 1 .. Len(sent) + 1, NEW S, Placed(S),
           BodyEmpty, end' = end
    PROVE  TypeOK' /\ Coming' \in 1 .. Len(sent') + 1 /\ Placed(S)'
<1>c. PICK c : c = Coming
  OBVIOUS
<1>h. PICK h : h = Here(S)
  OBVIOUS
<1>l. PICK l : l = Len(auxBinBuffer.data)
  OBVIOUS
<1>u. PICK u : u = auxBinBuffer.cur
  OBVIOUS
<1>0. Known(S) /\ Starts(S)
  BY Numbers
<1>1. /\ at # "idle" /\ c \in 1 .. Len(sent) /\ msg = c /\ stm = <<>>
      /\ S[c + 1] = S[c] + H + 0 /\ S[c] \in Nat /\ CutAt(S) = S[c] + H + Len(stm)
  BY <1>0, <1>c, BodyStands DEF BodyEmpty
<1>2. H \in Nat /\ h \in Int /\ l \in Nat /\ u \in Nat /\ CutAt(S) = h - (l - u) /\ u <= l /\ Len(sent) \in Nat
  BY <1>0, <1>1, <1>h, <1>l, <1>u DEF Known, TypeOK
<1>3. h - (l - u) = S[c + 1]
  <2>1. Len(stm) = 0
    BY <1>1
  <2> QED
    BY <1>1, <1>2, <2>1
<1>4. auxBinBuffer' = [auxBinBuffer EXCEPT !.cur = u]
  BY <1>u DEF BodyEmpty, TypeOK, B!Buffer
<1>5. at' = IF u >= l THEN "idle" ELSE "top"
  BY <1>l, <1>u DEF BodyEmpty, LoopAgain, B!eof
<1>6. /\ delivered' = Append(delivered, [msg |-> c, body |-> <<>>]) /\ <<>> \in Seq(Byte)
      /\ EnvelopCleared /\ sent' = sent /\ before' = before /\ wire' = wire /\ limit' = limit
  BY <1>1 DEF BodyEmpty
<1>7. TypeOK' /\ Coming' = c + 1 /\ Placed(S)'
  <2>1. HandedOver(S, u, <<>>)
    BY <1>1, <1>2, <1>3, <1>4, <1>5, <1>6, <1>c, <1>h, <1>l DEF HandedOver
  <2> QED
    BY <1>c, <2>1, DeliveredKeeps
<1> QED
  BY <1>1, <1>2, <1>6, <1>7

\* The body is longer than what is left: it is read in portions from now on.
LEMMA BodyAwaitedKeeps ==
    ASSUME EnvelopMakerAssumption, TypeOK, Coming \in 1 .. Len(sent) + 1, NEW S, Placed(S),
           BodyAwaited, end' = end
    PROVE  TypeOK' /\ Coming' \in 1 .. Len(sent') + 1 /\ Placed(S)'
<1>c. PICK c : c = Coming
  OBVIOUS
<1>h. PICK h : h = Here(S)
  OBVIOUS
<1>0. Known(S) /\ Starts(S)
  BY Numbers
<1>1. /\ at # "idle" /\ meta # 0 /\ meta >= 0 /\ meta \in Nat /\ c \in 1 .. Len(sent)
      /\ S[c + 1] = S[c] + H + meta /\ S[c] \in Nat /\ CutAt(S) = S[c] + H + Len(stm) /\ Len(stm) < meta
  BY <1>0, <1>c, BodyStands DEF BodyAwaited
<1>2. CutAt(S) = h /\ h \in Int /\ H \in Nat /\ Len(stm) \in Nat
  <2>1. /\ Len(auxBinBuffer.data) \in Nat /\ auxBinBuffer.cur \in Nat
        /\ CutAt(S) = h - (Len(auxBinBuffer.data) - auxBinBuffer.cur) /\ h \in Int
        /\ H \in Nat /\ Len(stm) \in Nat
    BY <1>0, <1>1, <1>h DEF Known
  <2>2. auxBinBuffer.cur = Len(auxBinBuffer.data)
    BY <2>1, SMTT(30) DEF BodyAwaited, B!eof, TypeOK
  <2> QED
    BY <2>1, <2>2
<1>3. /\ at' = "idle" /\ sent' = sent /\ delivered' = delivered /\ before' = before /\ wire' = wire
      /\ auxBinBuffer' = auxBinBuffer /\ limit' = limit /\ msg' = msg /\ meta' = meta /\ stm' = stm
  BY DEF BodyAwaited, envelop
<1>4. Layout(S, sent)' /\ WirePlaced(S)' /\ Here(S)' = h /\ Coming' = c
  BY <1>3, <1>c, <1>h, PipeKeeps
<1>5. CutAt(S)' = CutAt(S)
  BY <1>2, <1>3, <1>4 DEF CutAt
<1>6. BodyPlaced(S)'
  BY <1>1, <1>3, <1>4, <1>5, <1>c DEF Placed, BodyPlaced, RunFrom
<1>7. HeaderPlaced(S)' /\ ReadPlaced(S)'
  BY <1>1, <1>3 DEF HeaderPlaced, ReadPlaced
<1>8. MessageModeCuts(S)'
  BY <1>1, <1>3 DEF MessageModeCuts
<1>9. ServerReadsWhole(S)'
  <2>1. ~end.reconnects
    <3>1. ASSUME end.reconnects PROVE FALSE
      <4>1. h = S[c + 1]
        BY <1>1, <1>c, <1>h, <3>1 DEF Placed, ServerReadsWhole
      <4> QED
        BY <1>1, <1>2, <4>1, SMTT(30)
    <3> QED
      BY <3>1
  <2> QED
    BY <2>1 DEF ServerReadsWhole
<1>10. TypeOK'
  BY <1>1, <1>3 DEF TypeOK
<1> QED
  BY <1>3, <1>4, <1>6, <1>7, <1>8, <1>9, <1>10, <1>c DEF Placed

\* The portion that is taken: never empty, and all of it is metadata of this message.
LEMMA PortionStands ==
    ASSUME EnvelopMakerAssumption, TypeOK, Coming \in 1 .. Len(sent) + 1, NEW S, Placed(S),
           InBody, meta # 0, ~B!eof(auxBinBuffer)
    PROVE  /\ PortionSize \in Nat \ {0}
           /\ auxBinBuffer.cur + PortionSize <= Len(auxBinBuffer.data)
           /\ Len(stm) + PortionSize <= meta
           /\ Len(stm) + PortionSize < meta => auxBinBuffer.cur + PortionSize = Len(auxBinBuffer.data)
           /\ stm \o SubSeq(Rest, 1, PortionSize) \in Seq(Byte)
           /\ Len(stm \o SubSeq(Rest, 1, PortionSize)) = Len(stm) + PortionSize
           /\ RunFrom(S, sent, stm \o SubSeq(Rest, 1, PortionSize), S[Coming] + H)
<1>c. PICK c : c = Coming
  OBVIOUS
<1>n. PICK n : n = Len(stm)
  OBVIOUS
<1>l. PICK l : l = Len(auxBinBuffer.data)
  OBVIOUS
<1>u. PICK u : u = auxBinBuffer.cur
  OBVIOUS
<1>k. PICK k : k = PortionSize
  OBVIOUS
<1>0. Known(S) /\ Starts(S)
  BY Numbers
<1>1. /\ at # "idle" /\ meta \in Nat /\ n < meta /\ S[c] \in Nat
      /\ CutAt(S) = S[c] + H + n /\ RunFrom(S, sent, stm, S[c] + H)
  BY <1>0, <1>c, <1>n, BodyStands
<1>2. l \in Nat /\ u \in Nat /\ n \in Nat /\ H \in Nat /\ u < l /\ limit = l
  <2>1. l \in Nat /\ u \in Nat /\ n \in Nat /\ H \in Nat
    BY <1>0, <1>l, <1>u, <1>n DEF Known
  <2>2. u < l
    BY <2>1, <1>l, <1>u DEF B!eof
  <2>3. limit = l
    BY <1>1, <1>l DEF Placed, ReadPlaced
  <2> QED
    BY <2>1, <2>2, <2>3
<1>3. k = IF meta - n < l - u THEN meta - n ELSE l - u
  BY <1>2, <1>k, <1>l, <1>u, <1>n DEF PortionSize, B!Smaller, B!get_current_pos
<1>4. /\ k \in Nat /\ k # 0 /\ u + k <= l /\ n + k <= meta
      /\ n + k < meta => u + k = l
  <2>1. CASE meta - n < l - u
    BY <1>1, <1>2, <1>3, <2>1
  <2>2. CASE ~(meta - n < l - u)
    BY <1>1, <1>2, <1>3, <2>2
  <2> QED
    BY <2>1, <2>2
<1>5. Rest \in Seq(Byte) /\ Len(Rest) = l - u /\ RunFrom(S, sent, Rest, CutAt(S))
  BY <1>0, <1>1, <1>l, <1>u, RestIsRun
<1>6. sent \in Seq(0 .. MaxMeta) /\ Layout(S, sent) /\ stm \in Seq(Byte)
  BY DEF TypeOK, Placed
<1>r. PICK r : r = SubSeq(Rest, 1, k)
  OBVIOUS
<1>p. PICK p : p = S[c] + H + n
  OBVIOUS
<1>7. r \in Seq(Byte) /\ Len(r) = k /\ RunFrom(S, sent, r, p)
  <2>q. PICK q : q = Rest
    OBVIOUS
  <2>1. p \in Int
    BY <1>1, <1>2, <1>p
  <2>2. q \in Seq(Byte) /\ RunFrom(S, sent, q, p)
    BY <1>1, <1>5, <1>p, <2>q
  <2>3. k \in Nat /\ k <= Len(q)
    BY <1>2, <1>4, <1>5, <2>q
  <2>4. sent \in Seq(0 .. MaxMeta) /\ Layout(S, sent)
    BY <1>6
  <2>5. /\ SubSeq(q, 1, k) \in Seq(Byte) /\ Len(SubSeq(q, 1, k)) = k
        /\ RunFrom(S, sent, SubSeq(q, 1, k), p)
    BY <2>1, <2>2, <2>3, <2>4, StartOfRun
  <2> QED
    BY <1>r, <2>q, <2>5
<1>8. stm \o r \in Seq(Byte) /\ Len(stm \o r) = n + k
  BY <1>6, <1>7, <1>n, ConcatProperties
<1>9. RunFrom(S, sent, stm \o r, S[c] + H)
  <2>1. S[c] + H \in Int /\ RunFrom(S, sent, r, (S[c] + H) + Len(stm))
    BY <1>1, <1>2, <1>7, <1>p, <1>n
  <2> QED
    BY <1>1, <1>6, <1>7, <2>1, TwoRuns
<1> QED
  BY <1>4, <1>8, <1>9, <1>c, <1>n, <1>l, <1>u, <1>k, <1>r

\* A portion of the body is appended to what came before.
LEMMA BodyPortionKeeps ==
    ASSUME EnvelopMakerAssumption, TypeOK, Coming \in 1 .. Len(sent) + 1, NEW S, Placed(S),
           BodyPortion, end' = end
    PROVE  TypeOK' /\ Coming' \in 1 .. Len(sent') + 1 /\ Placed(S)'
<1>c. PICK c : c = Coming
  OBVIOUS
<1>h. PICK h : h = Here(S)
  OBVIOUS
<1>n. PICK n : n = Len(stm)
  OBVIOUS
<1>l. PICK l : l = Len(auxBinBuffer.data)
  OBVIOUS
<1>u. PICK u : u = auxBinBuffer.cur
  OBVIOUS
<1>k. PICK k : k = PortionSize
  OBVIOUS
<1>x. PICK x : x = stm \o SubSeq(Rest, 1, PortionSize)
  OBVIOUS
<1>0. Known(S) /\ Starts(S)
  BY Numbers
<1>1. InBody /\ meta # 0 /\ ~B!eof(auxBinBuffer)
  BY DEF BodyPortion
<1>2. /\ at # "idle" /\ meta \in Nat /\ c \in 1 .. Len(sent) /\ msg = c /\ meta = sent[c]
      /\ S[c + 1] = S[c] + H + meta /\ S[c] \in Nat /\ CutAt(S) = S[c] + H + n
  BY <1>0, <1>1, <1>c, <1>n, BodyStands
<1>3. /\ k \in Nat /\ k # 0 /\ u + k <= l /\ n + k <= meta
      /\ n + k < meta => u + k = l
      /\ x \in Seq(Byte) /\ Len(x) = n + k /\ RunFrom(S, sent, x, S[c] + H)
  BY <1>1, <1>c, <1>n, <1>l, <1>u, <1>k, <1>x, PortionStands
<1>4. /\ h \in Int /\ l \in Nat /\ u \in Nat /\ n \in Nat /\ H \in Nat /\ Len(sent) \in Nat
      /\ CutAt(S) = h - (l - u)
  BY <1>0, <1>2, <1>h, <1>n, <1>l, <1>u DEF Known
<1>s. PICK s : s = S[c]
  OBVIOUS
<1>m. PICK m : m = meta
  OBVIOUS
<1>a. /\ h \in Int /\ l \in Nat /\ u \in Nat /\ n \in Nat /\ H \in Nat /\ k \in Nat /\ s \in Nat /\ m \in Nat
      /\ s + H + n = h - (l - u) /\ u + k <= l /\ n + k <= m
      /\ n + k < m => u + k = l
      /\ S[c + 1] = s + H + m
  BY <1>2, <1>3, <1>4, <1>s, <1>m
<1>5. h - (l - (u + k)) = S[c] + H + n + k
  BY <1>2, <1>3, <1>4
<1>6. /\ sent' = sent /\ before' = before /\ wire' = wire /\ limit' = limit
      /\ IF Len(x) = meta THEN delivered' = Append(delivered, [msg |-> c, body |-> x]) /\ EnvelopCleared
         ELSE stm' = x /\ delivered' = delivered /\ msg' = msg /\ meta' = meta
  BY <1>2, <1>x DEF BodyPortion
<1>7. auxBinBuffer' = [auxBinBuffer EXCEPT !.cur = u + k]
  BY <1>u, <1>k DEF BodyPortion, PortionTaken, Skipped, B!skip
<1>8. at' = IF u + k >= l THEN "idle" ELSE "top"
  <2>1. at' = IF B!eof(Skipped) THEN "idle" ELSE "top"
    BY <1>3, <1>k DEF BodyPortion, PortionTaken, LoopAgain
  <2>2. Skipped.cur = u + k /\ Skipped.data = auxBinBuffer.data
    BY <1>u, <1>k DEF Skipped, B!skip, TypeOK, B!Buffer
  <2> QED
    BY <2>1, <2>2, <1>l DEF B!eof
<1>9. CASE n + k = meta
  <2>1. u + k \in Nat /\ h - (l - (u + k)) = S[c + 1]
    BY <1>2, <1>3, <1>4, <1>5, <1>9, SMTT(30)
  <2>2. HandedOver(S, u + k, x)
    BY <1>2, <1>3, <1>6, <1>7, <1>8, <1>9, <2>1, <1>c, <1>h, <1>l DEF HandedOver
  <2>3. TypeOK' /\ Coming' = c + 1 /\ Placed(S)'
    BY <1>c, <2>2, DeliveredKeeps
  <2> QED
    BY <1>2, <1>4, <1>6, <2>3
<1>10. CASE n + k # meta
  <2>a. n + k < m /\ u + k = l /\ u + k >= l /\ h = s + H + n + k
    BY <1>a, <1>m, <1>10
  <2>1. u + k = l /\ n + k < meta /\ h = S[c] + H + n + k /\ at' = "idle"
    BY <1>8, <1>m, <1>s, <2>a
  <2>2. stm' = x /\ delivered' = delivered /\ msg' = msg /\ meta' = meta
    BY <1>3, <1>6, <1>10
  <2>3. Layout(S, sent)' /\ WirePlaced(S)' /\ Here(S)' = h /\ Coming' = c
    BY <1>6, <2>2, <1>c, <1>h, PipeKeeps
  <2>4. CutAt(S)' = h
    BY <2>1, <2>3 DEF CutAt
  <2>5. BodyPlaced(S)'
    <3>1. h - (n + k) = S[c] + H
      <4>1. h - (n + k) = s + H
        BY <1>a, <2>a
      <4> QED
        BY <1>s, <4>1
    <3>2. RunFrom(S, sent', x, S[c] + H)
      BY <1>3, <1>6
    <3>3. c <= Len(sent)
      BY <1>2
    <3> QED
      BY <1>1, <1>2, <1>3, <1>6, <2>1, <2>2, <2>3, <2>4, <3>1, <3>2, <3>3 DEF BodyPlaced
  <2>6. HeaderPlaced(S)' /\ ReadPlaced(S)'
    BY <1>2, <2>1, <2>2 DEF HeaderPlaced, ReadPlaced
  <2>7. MessageModeCuts(S)'
    BY <1>2, <2>1, <2>2 DEF MessageModeCuts
  <2>8. ServerReadsWhole(S)'
    <3>1. ASSUME end.reconnects PROVE FALSE
      <4>1. h = S[c + 1]
        BY <1>2, <1>c, <1>h, <3>1 DEF Placed, ServerReadsWhole
      <4> QED
        BY <1>a, <2>a, <4>1
    <3> QED
      BY <3>1 DEF ServerReadsWhole
  <2>9. TypeOK'
    <3>1. auxBinBuffer' \in B!Buffer /\ auxBinBuffer'.cur <= Len(auxBinBuffer'.data) /\ limit' \in 0 .. Len(auxBinBuffer'.data)
      <4>1. u + k \in Nat /\ auxBinBuffer \in B!Buffer /\ limit \in 0 .. l
        BY <1>a, <1>l DEF TypeOK
      <4>2. auxBinBuffer'.cur = u + k /\ auxBinBuffer'.data = auxBinBuffer.data /\ auxBinBuffer' \in B!Buffer
        BY <1>7, <4>1 DEF B!Buffer
      <4> QED
        BY <1>a, <1>6, <1>l, <4>1, <4>2
    <3>2. stm' \in Seq(Byte) /\ ~(meta' < 0)
      BY <1>2, <1>3, <2>2
    <3> QED
      BY <1>6, <2>1, <2>2, <3>1, <3>2 DEF TypeOK
  <2> QED
    BY <1>2, <1>4, <1>6, <2>3, <2>5, <2>6, <2>7, <2>8, <2>9 DEF Placed
<1> QED
  BY <1>9, <1>10

\* The bytes of the next read, and the message whose end is the end of its piece.
Taken == B!Smaller(end.buffer, Len(wire[1]))
FirstOnWire == Len(sent) - Len(wire) + 1

\* Where the bytes of the next completed read are in the stream, and how many it takes.
LEMMA NextRead ==
    ASSUME EnvelopMakerAssumption, TypeOK, NEW S, Placed(S), wire # <<>>
    PROVE  /\ Taken \in Nat \ {0} /\ Taken <= Len(wire[1]) /\ (Taken < Len(wire[1]) => Taken = end.buffer)
           /\ wire[1] \in Seq(Byte) /\ Len(wire[1]) \in Nat
           /\ Len(wire) \in Nat /\ 1 \in 1 .. Len(wire) /\ Len(wire) <= Len(sent)
           /\ FirstOnWire \in 1 .. Len(sent)
           /\ Here(S) = S[FirstOnWire + 1] - Len(wire[1])
           /\ RunFrom(S, sent, wire[1], Here(S))
           /\ end.mode \in {"message", "byte"} /\ end.buffer \in Nat /\ end.buffer >= H
           /\ end.mode = "byte" => Len(wire) = 1
           /\ end.mode = "message" => Len(wire[1]) <= H + sent[FirstOnWire]
<1>L. PICK L : L = Len(wire)
  OBVIOUS
<1>m. PICK m : m = Len(sent)
  OBVIOUS
<1>b. PICK b : b = FirstOnWire
  OBVIOUS
<1>0. Known(S) /\ Starts(S) /\ Pieces
  BY Numbers
<1>1. L \in Nat /\ m \in Nat /\ L <= m /\ H \in Nat /\ H > 0
  BY <1>0, <1>L, <1>m DEF Known
<1>2. L # 0
  <2>1. wire \in Seq(Seq(Byte))
    BY DEF TypeOK
  <2> QED
    BY <1>L, <2>1
<1>3. 1 \in 1 .. L /\ b = m - L + 1 /\ b \in 1 .. m
  BY <1>1, <1>2, <1>L, <1>m, <1>b DEF FirstOnWire
<1>4. wire[1] \in Seq(Byte) /\ Len(wire[1]) \in Nat /\ Len(wire[1]) > 0
  BY <1>0, <1>3, <1>L DEF Pieces
<1>5. end.mode \in {"message", "byte"} /\ end.buffer \in Nat /\ end.buffer >= H
  BY DEF TypeOK, EnvelopMakerAssumption
<1>6. Taken = IF end.buffer < Len(wire[1]) THEN end.buffer ELSE Len(wire[1])
  BY DEF Taken, B!Smaller
<1>7. Taken \in Nat /\ Taken # 0 /\ Taken <= Len(wire[1]) /\ (Taken < Len(wire[1]) => Taken = end.buffer)
  BY <1>1, <1>4, <1>5, <1>6
<1>8. PieceEnd(S, 1) = S[b + 1]
  <2>1. m - L + 1 + 1 = b + 1
    BY <1>3
  <2> QED
    BY <1>L, <1>m, <2>1 DEF PieceEnd
<1>9. Here(S) = S[b + 1] - Len(wire[1])
  BY <1>8 DEF Here
<1>10. /\ RunFrom(S, sent, wire[1], Here(S))
       /\ end.mode = "byte" => L <= 1
       /\ end.mode = "message" => Len(wire[1]) <= H + sent[b]
  BY <1>3, <1>8, <1>9, <1>L, <1>m DEF Placed, WirePlaced
<1>11. end.mode = "byte" => L = 1
  BY <1>1, <1>2, <1>10
<1> QED
  BY <1>1, <1>3, <1>4, <1>5, <1>7, <1>9, <1>10, <1>11, <1>L, <1>m, <1>b

\* A read moves the place of the next one by what it takes.
LEMMA ReadMoves ==
    ASSUME EnvelopMakerAssumption, TypeOK, NEW S, Placed(S), ReadCompletes, end' = end
    PROVE  /\ WirePlaced(S)' /\ wire' \in Seq(Seq(Byte))
           /\ Here(S)' = Here(S) + Taken
<1>L. PICK L : L = Len(wire)
  OBVIOUS
<1>m. PICK m : m = Len(sent)
  OBVIOUS
<1>b. PICK b : b = FirstOnWire
  OBVIOUS
<1>h. PICK h : h = Here(S)
  OBVIOUS
<1>r. PICK r : r = Taken
  OBVIOUS
<1>w. PICK w : w = wire[1]
  OBVIOUS
<1>0. Known(S) /\ Starts(S) /\ Pieces
  BY Numbers
<1>1. /\ wire # <<>> /\ sent' = sent
      /\ wire' = IF r = Len(w) THEN Tail(wire) ELSE [wire EXCEPT ![1] = SubSeq(w, r + 1, Len(w))]
  BY <1>r, <1>w DEF ReadCompletes, Taken
<1>2. /\ r \in Nat /\ r # 0 /\ r <= Len(w) /\ w \in Seq(Byte) /\ Len(w) \in Nat
      /\ L \in Nat /\ L >= 1 /\ L <= m /\ b \in 1 .. m /\ b = m - L + 1
      /\ h = S[b + 1] - Len(w) /\ RunFrom(S, sent, w, h)
      /\ end.mode \in {"message", "byte"} /\ (end.mode = "byte" => L = 1)
      /\ end.mode = "message" => Len(w) <= H + sent[b]
  BY <1>1, <1>L, <1>m, <1>b, <1>h, <1>r, <1>w, NextRead DEF FirstOnWire
<1>3. m \in Nat /\ h \in Int /\ H \in Nat
  BY <1>0, <1>m, <1>h DEF Known
<1>4. wire \in Seq(Seq(Byte))
  BY DEF TypeOK
<1>5. \A k \in 1 .. m + 1 : S[k] \in Nat
  BY <1>0, <1>m DEF Starts
<1>6. CASE r = Len(w)
  <2>1. wire' = Tail(wire) /\ wire' \in Seq(Seq(Byte)) /\ Len(wire') = L - 1
    BY <1>1, <1>2, <1>4, <1>6, <1>L
  <2>2. \A i \in 1 .. L - 1 : wire'[i] = wire[i + 1] /\ i + 1 \in 1 .. L
    BY <1>1, <1>2, <1>4, <1>6, <1>L
  <2>3. \A i \in 1 .. L - 1 : PieceEnd(S, i)' = PieceEnd(S, i + 1)
    <3>1. ASSUME NEW i \in 1 .. L - 1 PROVE PieceEnd(S, i)' = PieceEnd(S, i + 1)
      <4>1. m - (L - 1) + i + 1 = m - L + (i + 1) + 1
        BY <1>2, <1>3
      <4> QED
        BY <1>1, <1>L, <1>m, <2>1, <4>1 DEF PieceEnd
    <3> QED
      BY <3>1
  <2>4. WirePlaced(S)'
    <3>1. ASSUME NEW i \in 1 .. L - 1
          PROVE  /\ wire'[i] # <<>>
                 /\ RunFrom(S, sent, wire'[i], PieceEnd(S, i)' - Len(wire'[i]))
                 /\ end.mode = "message" =>
                       /\ Len(wire'[i]) <= H + sent[m - (L - 1) + i]
                       /\ i > 1 => Len(wire'[i]) = H + sent[m - (L - 1) + i]
      <4>j. PICK j : j = i + 1
        OBVIOUS
      <4>1. /\ wire'[i] = wire[j] /\ PieceEnd(S, i)' = PieceEnd(S, j) /\ j \in 1 .. L
            /\ j > 1 /\ m - (L - 1) + i = m - L + j
        BY <1>2, <1>3, <2>2, <2>3, <4>j
      <4>2. /\ wire[j] # <<>> /\ RunFrom(S, sent, wire[j], PieceEnd(S, j) - Len(wire[j]))
            /\ end.mode = "message" =>
                  /\ Len(wire[j]) <= H + sent[m - L + j]
                  /\ j > 1 => Len(wire[j]) = H + sent[m - L + j]
        BY <1>L, <1>m, <4>1 DEF Placed, WirePlaced
      <4> QED
        BY <4>1, <4>2
    <3>2. L - 1 <= m /\ (end.mode = "byte" => L - 1 <= 1)
      BY <1>2, <1>3
    <3>3. Len(wire') = L - 1 /\ Len(sent') = m /\ sent' = sent
      BY <1>1, <1>m, <2>1
    <3> QED
      BY <3>1, <3>2, <3>3 DEF WirePlaced, RunFrom
  <2>5. Here(S)' = S[b + 1]
    <3>1. CASE L = 1
      <4>1. wire' = <<>> /\ b = m
        BY <1>2, <1>3, <2>1, <3>1, SMTT(30)
      <4> QED
        BY <1>1, <1>m, <4>1 DEF Here
    <3>2. CASE L # 1
      <4>8. end.mode = "message" /\ L - 1 >= 1
        BY <1>2, <3>2
      <4>9. wire' # <<>>
        <5>1. Len(<<>>) = 0 /\ ~(0 >= 1)
          OBVIOUS
        <5> QED
          BY <2>1, <4>8, <5>1
      <4>1. end.mode = "message" /\ 2 \in 1 .. L /\ 1 \in 1 .. L - 1 /\ wire' # <<>>
        BY <1>2, <4>8, <4>9
      <4>2. wire'[1] = wire[2] /\ PieceEnd(S, 1)' = PieceEnd(S, 2)
        BY <2>2, <2>3, <4>1
      <4>3. Len(wire[2]) = H + sent[m - L + 2]
        BY <1>L, <1>m, <4>1 DEF Placed, WirePlaced
      <4>4. m - L + 2 = b + 1 /\ m - L + 2 + 1 = b + 1 + 1 /\ b + 1 \in 1 .. m
        BY <1>2, <1>3, <4>1
      <4>5. PieceEnd(S, 2) = S[b + 1 + 1] /\ Len(wire[2]) = H + sent[b + 1]
        BY <1>L, <1>m, <4>3, <4>4 DEF PieceEnd
      <4>6. S[b + 1 + 1] = S[b + 1] + H + sent[b + 1] /\ S[b + 1] \in Nat /\ sent[b + 1] \in Nat
        <5>1. b + 1 \in 1 .. m + 1
          BY <1>2, <1>3
        <5> QED
          BY <1>0, <1>5, <1>m, <4>4, <5>1 DEF Starts
      <4>7. Here(S)' = S[b + 1 + 1] - Len(wire[2])
        BY <4>1, <4>2, <4>5 DEF Here
      <4> QED
        BY <1>3, <4>5, <4>6, <4>7
    <3> QED
      BY <3>1, <3>2
  <2>6. S[b + 1] = h + r
    <3>1. b + 1 \in 1 .. m + 1
      BY <1>2, <1>3
    <3>2. S[b + 1] \in Nat
      BY <1>5, <3>1
    <3> QED
      BY <1>2, <1>6, <3>2
  <2> QED
    BY <1>h, <1>r, <2>1, <2>4, <2>5, <2>6
<1>7. CASE r # Len(w)
  <2>v. PICK v : v = SubSeq(w, r + 1, Len(w))
    OBVIOUS
  <2>1. wire' = [wire EXCEPT ![1] = v]
    BY <1>1, <1>7, <2>v
  <2>2. v \in Seq(Byte) /\ Len(v) = Len(w) - r /\ RunFrom(S, sent, v, h + r)
    <3>l. PICK l : l = Len(w)
      OBVIOUS
    <3>1. l \in Nat /\ r <= l /\ l <= Len(w)
      BY <1>2, <3>l
    <3>2. sent \in Seq(0 .. MaxMeta) /\ Layout(S, sent)
      BY DEF TypeOK, Placed
    <3>3. w \in Seq(Byte) /\ RunFrom(S, sent, w, h) /\ r \in Nat
      BY <1>2
    <3>4. /\ SubSeq(w, r + 1, l) \in Seq(Byte) /\ Len(SubSeq(w, r + 1, l)) = l - r
          /\ RunFrom(S, sent, SubSeq(w, r + 1, l), h + r)
      BY <1>3, <3>1, <3>2, <3>3, PartOfRun
    <3> QED
      BY <2>v, <3>l, <3>4
  <2>3. /\ Len(wire') = L /\ wire' \in Seq(Seq(Byte)) /\ wire'[1] = v
        /\ \A i \in 1 .. L : i # 1 => wire'[i] = wire[i]
    BY <1>2, <1>4, <1>L, <2>1, <2>2
  <2>4. \A i : PieceEnd(S, i)' = PieceEnd(S, i)
    BY <1>1, <1>L, <2>3 DEF PieceEnd
  <2>5. PieceEnd(S, 1) = S[b + 1] /\ S[b + 1] \in Nat
    <3>1. m - L + 1 + 1 = b + 1 /\ b + 1 \in 1 .. m + 1
      BY <1>2, <1>3
    <3> QED
      BY <1>5, <1>L, <1>m, <3>1 DEF PieceEnd
  <2>6. S[b + 1] - Len(v) = h + r /\ Len(v) <= Len(w) /\ Len(v) \in Nat /\ Len(v) # 0
    BY <1>2, <1>3, <1>7, <2>2, <2>5
  <2>7. WirePlaced(S)'
    <3>1. ASSUME NEW i \in 1 .. L
          PROVE  /\ wire'[i] # <<>>
                 /\ RunFrom(S, sent, wire'[i], PieceEnd(S, i) - Len(wire'[i]))
                 /\ end.mode = "message" =>
                       /\ Len(wire'[i]) <= H + sent[m - L + i]
                       /\ i > 1 => Len(wire'[i]) = H + sent[m - L + i]
      <4>1. CASE i = 1
        <5>1. wire'[i] = v /\ v # <<>>
          BY <2>3, <2>6, <4>1
        <5>2. RunFrom(S, sent, v, PieceEnd(S, i) - Len(v))
          BY <2>2, <2>5, <2>6, <4>1
        <5>3. end.mode = "message" => Len(v) <= H + sent[m - L + i]
          <6>1. ASSUME end.mode = "message" PROVE Len(v) <= H + sent[b]
            <7>1. Len(w) <= H + sent[b] /\ sent[b] \in Nat
              BY <1>0, <1>2, <1>m, <6>1 DEF Starts
            <7> QED
              BY <1>2, <1>3, <2>6, <7>1
          <6> QED
            BY <1>2, <4>1, <6>1
        <5> QED
          BY <4>1, <5>1, <5>2, <5>3
      <4>2. CASE i # 1
        BY <1>L, <1>m, <2>3, <4>2 DEF Placed, WirePlaced
      <4> QED
        BY <4>1, <4>2
    <3>2. L <= m /\ (end.mode = "byte" => L <= 1)
      BY <1>2
    <3>3. Len(wire') = L /\ Len(sent') = m /\ sent' = sent
      BY <1>1, <1>m, <2>3
    <3>4. ASSUME NEW i \in 1 .. Len(wire')
          PROVE  /\ wire'[i] # <<>>
                 /\ RunFrom(S, sent', wire'[i], PieceEnd(S, i)' - Len(wire'[i]))
                 /\ end'.mode = "message" =>
                       /\ Len(wire'[i]) <= H + sent'[Len(sent') - Len(wire') + i]
                       /\ i > 1 => Len(wire'[i]) = H + sent'[Len(sent') - Len(wire') + i]
      BY <2>4, <3>1, <3>3
    <3> QED
      BY <3>2, <3>3, <3>4 DEF WirePlaced
  <2>8. Here(S)' = h + r
    <3>1. wire' # <<>>
      BY <1>2, <2>3
    <3> QED
      BY <2>3, <2>4, <2>5, <2>6, <3>1 DEF Here
  <2> QED
    BY <1>h, <1>r, <2>3, <2>7, <2>8
<1> QED
  BY <1>6, <1>7

\* At the time of a read, with part of a message known, the read begins in it.
LEMMA ReadBeginsInComing ==
    ASSUME EnvelopMakerAssumption, TypeOK, Coming \in 1 .. Len(sent) + 1, NEW S, Placed(S),
           at = "idle", wire # <<>>, end.mode = "message"
    PROVE  /\ FirstOnWire = Coming /\ Coming \in 1 .. Len(sent)
           /\ Here(S) = S[Coming + 1] - Len(wire[1])
           /\ meta < 0 => Len(wire[1]) = H + sent[Coming]
<1>c. PICK c : c = Coming
  OBVIOUS
<1>h. PICK h : h = Here(S)
  OBVIOUS
<1>b. PICK b : b = FirstOnWire
  OBVIOUS
<1>m. PICK m : m = Len(sent)
  OBVIOUS
<1>w. PICK w : w = Len(wire[1])
  OBVIOUS
<1>0. Known(S) /\ Starts(S) /\ Pieces
  BY Numbers
<1>1. /\ w \in Nat /\ b \in 1 .. m /\ h = S[b + 1] - w /\ w <= H + sent[b] /\ 1 \in 1 .. Len(wire)
  BY <1>h, <1>b, <1>m, <1>w, NextRead
<1>2. /\ m \in Nat /\ h \in Int /\ H \in Nat /\ H > 0 /\ c \in 1 .. m + 1
  BY <1>0, <1>c, <1>m, <1>h DEF Known
<1>3. w > 0
  BY <1>0, <1>1, <1>w DEF Pieces
<1>4. /\ S[b + 1] = S[b] + H + sent[b] /\ S[b] \in Nat /\ sent[b] \in Nat
  <2>1. b \in 1 .. m + 1
    BY <1>1, <1>2
  <2> QED
    BY <1>0, <1>1, <1>m, <2>1 DEF Starts
<1>5. S[b] <= h /\ h < S[b + 1]
  BY <1>1, <1>2, <1>3, <1>4, SMTT(30)
<1>6. sent \in Seq(0 .. MaxMeta) /\ Layout(S, sent)
  BY DEF TypeOK, Placed
<1>7. S[c] \in Nat
  BY <1>0, <1>2, <1>m DEF Starts
<1>8. /\ S[c] <= h
      /\ meta < 0 => h = S[c]
      /\ meta >= 0 => c \in 1 .. m /\ h < S[c + 1]
  <2>1. CutAt(S) = h
    BY <1>h DEF CutAt
  <2>2. CASE meta < 0
    <3>1. stm = <<>> /\ h - Len(stm) = S[c]
      BY <1>c, <2>1, <2>2 DEF Placed, HeaderPlaced, MessageModeCuts
    <3>2. h = S[c]
      BY <1>2, <1>7, <3>1
    <3> QED
      BY <1>7, <2>2, <3>2 DEF TypeOK
  <2>3. CASE meta >= 0
    <3>1. /\ c <= m /\ meta = sent[c] /\ h - Len(stm) = S[c] + H
          /\ Len(stm) < meta /\ Len(stm) \in Nat
      BY <1>0, <1>c, <1>m, <2>1, <2>3 DEF Placed, BodyPlaced, Known
    <3>2. c \in 1 .. m
      BY <1>2, <3>1
    <3>3. S[c + 1] = S[c] + H + sent[c] /\ sent[c] \in Nat
      BY <1>0, <1>m, <3>2 DEF Starts
    <3>4. h = S[c] + H + Len(stm)
      BY <1>2, <1>7, <3>1
    <3>5. S[c] <= h /\ h < S[c + 1]
      BY <1>2, <1>7, <3>1, <3>3, <3>4, SMTT(30)
    <3>6. ~(meta < 0)
      BY <2>3 DEF TypeOK
    <3> QED
      BY <3>2, <3>5, <3>6
  <2> QED
    BY <2>2, <2>3 DEF TypeOK
<1>9. b = c
  <2>1. b \in 1 .. m + 1 /\ b + 1 \in 1 .. m + 1
    BY <1>1, <1>2
  <2>2. ~(c > b)
    <3>1. ASSUME c > b PROVE FALSE
      <4>1. b + 1 <= c
        BY <1>1, <1>2, <3>1
      <4>2. S[b + 1] <= S[c] /\ S[b + 1] \in Nat
        BY <1>2, <1>6, <1>m, <2>1, <4>1, StartsGrow
      <4> QED
        BY <1>2, <1>5, <1>7, <1>8, <4>2
    <3> QED
      BY <3>1
  <2>3. ~(c < b)
    <3>1. ASSUME c < b PROVE FALSE
      <4>1. S[c] + H <= S[b]
        BY <1>2, <1>6, <1>m, <2>1, <3>1, StartsGrow
      <4>2. CASE meta < 0
        BY <1>2, <1>4, <1>5, <1>7, <1>8, <4>1, <4>2
      <4>3. CASE meta >= 0
        <5>1. c + 1 \in 1 .. m + 1 /\ c + 1 <= b
          BY <1>1, <1>2, <3>1
        <5>2. S[c + 1] <= S[b] /\ S[c + 1] \in Nat
          BY <1>6, <1>m, <2>1, <5>1, StartsGrow
        <5> QED
          BY <1>2, <1>4, <1>5, <1>8, <4>3, <5>2
      <4> QED
        BY <4>2, <4>3 DEF TypeOK
    <3> QED
      BY <3>1
  <2> QED
    BY <1>1, <1>2, <2>2, <2>3
<1>10. meta < 0 => w = H + sent[c]
  <2>1. ASSUME meta < 0 PROVE w = H + sent[c]
    <3>1. S[b + 1] - w = S[b] /\ w \in Nat /\ H \in Nat
      BY <1>1, <1>2, <1>8, <1>9, <2>1
    <3>s. PICK s : s = S[b]
      OBVIOUS
    <3>z. PICK z : z = sent[b]
      OBVIOUS
    <3>4. s \in Nat /\ z \in Nat /\ S[b + 1] = s + H + z
      BY <1>4, <3>s, <3>z
    <3>3. (s + H + z) - w = s
      BY <3>1, <3>4, <3>s
    <3>5. w = H + z
      BY <3>1, <3>3, <3>4
    <3>2. w = H + sent[b]
      BY <3>5, <3>z
    <3> QED
      BY <1>9, <3>2
  <2> QED
    BY <2>1
<1> QED
  BY <1>1, <1>9, <1>10, <1>b, <1>c, <1>h, <1>m, <1>w

\* A read completes: what is left of the buffer is the front of the wire.
LEMMA ReadCompletesKeeps ==
    ASSUME EnvelopMakerAssumption, ServerBufferAssumption, TypeOK, Coming \in 1 .. Len(sent) + 1,
           NEW S, Placed(S), ReadCompletes, end' = end
    PROVE  TypeOK' /\ Coming' = Coming /\ Placed(S)'
<1>c. PICK c : c = Coming
  OBVIOUS
<1>h. PICK h : h = Here(S)
  OBVIOUS
<1>r. PICK r : r = Taken
  OBVIOUS
<1>m. PICK m : m = Len(sent)
  OBVIOUS
<1>b. PICK b : b = FirstOnWire
  OBVIOUS
<1>w. PICK w : w = wire[1]
  OBVIOUS
<1>q. PICK q : q = SubSeq(w, 1, r)
  OBVIOUS
<1>n. PICK n : n = Len(stm)
  OBVIOUS
<1>0. Known(S) /\ Starts(S)
  BY Numbers
<1>1. /\ at = "idle" /\ wire # <<>> /\ at' = "top" /\ limit' = r
      /\ auxBinBuffer' = B!Attach(B!Empty, q)
      /\ sent' = sent /\ delivered' = delivered /\ before' = before
      /\ msg' = msg /\ meta' = meta /\ stm' = stm
  BY <1>r, <1>w, <1>q DEF ReadCompletes, Taken, envelop
<1>2. WirePlaced(S)' /\ wire' \in Seq(Seq(Byte)) /\ Here(S)' = h + r
  BY <1>h, <1>r, ReadMoves
<1>3. /\ r \in Nat /\ r # 0 /\ r <= Len(w) /\ (r < Len(w) => r = end.buffer)
      /\ w \in Seq(Byte) /\ Len(w) \in Nat /\ b \in 1 .. m
      /\ h = S[b + 1] - Len(w) /\ RunFrom(S, sent, w, h)
      /\ end.mode \in {"message", "byte"} /\ end.buffer \in Nat /\ end.buffer >= H
      /\ end.mode = "byte" => b = m
  <2>1. end.mode = "byte" => b = m
    <3>1. end.mode = "byte" => Len(wire) = 1
      BY <1>1, NextRead
    <3>2. m \in Nat
      BY <1>0, <1>m DEF Known
    <3>3. m - 1 + 1 = m
      BY <3>2
    <3>4. b = m - Len(wire) + 1
      BY <1>b, <1>m DEF FirstOnWire
    <3> QED
      BY <3>1, <3>3, <3>4
  <2> QED
    BY <1>1, <1>b, <1>h, <1>r, <1>m, <1>w, <2>1, NextRead
<1>4. /\ h \in Int /\ H \in Nat /\ H > 0 /\ n \in Nat /\ m \in Nat /\ c \in 1 .. m + 1
  BY <1>0, <1>c, <1>h, <1>n, <1>m DEF Known
<1>5. sent \in Seq(0 .. MaxMeta) /\ Layout(S, sent) /\ Layout(S, sent)'
  <2>1. Layout(S, sent)
    BY DEF Placed
  <2>2. Layout(S, sent')
    BY <1>1, <2>1
  <2> QED
    BY <1>1, <2>1, <2>2 DEF TypeOK, Layout
<1>6. q \in Seq(Byte) /\ Len(q) = r /\ RunFrom(S, sent, q, h)
  BY <1>3, <1>4, <1>5, <1>q, StartOfRun
<1>7. auxBinBuffer' = [data |-> q, cur |-> 0] /\ q # <<>>
  <2>1. q # <<>>
    BY <1>3, <1>6
  <2> QED
    BY <1>1, <2>1 DEF B!Attach
<1>8. Coming' = c
  BY <1>1, <1>c DEF Coming, F!LastDelivered, B!Larger
<1>9. CutAt(S) = h /\ CutAt(S)' = h
  <2>1. CutAt(S)' = (h + r) - (r - 0)
    BY <1>1, <1>2, <1>6, <1>7 DEF CutAt
  <2> QED
    BY <1>1, <1>3, <1>4, <1>h, <2>1 DEF CutAt
<1>10. TooShort' <=> r < H
  BY <1>3, <1>6, <1>7 DEF TooShort, B!get_avail_size, B!get_current_pos, B!eof
<1>11. r < H => r = Len(w) /\ h + r = S[b + 1]
  <2>1. S[b + 1] \in Nat
    <3>1. b + 1 \in 1 .. m + 1
      BY <1>3, <1>4
    <3> QED
      BY <1>0, <1>m, <3>1 DEF Starts
  <2> QED
    BY <1>3, <1>4, <2>1
<1>12. TypeOK'
  <2>1. auxBinBuffer' \in B!Buffer /\ auxBinBuffer'.cur <= Len(auxBinBuffer'.data) /\ limit' \in 0 .. Len(auxBinBuffer'.data)
    BY <1>1, <1>3, <1>6, <1>7 DEF B!Buffer
  <2> QED
    BY <1>1, <1>2, <2>1 DEF TypeOK
<1>13. ReadPlaced(S)'
  <2>1. RunFrom(S, sent', q, (h + r) - r)
    BY <1>1, <1>3, <1>4, <1>6
  <2>2. 0 < r
    BY <1>3
  <2> QED
    BY <1>1, <1>2, <1>6, <1>7, <2>1, <2>2 DEF ReadPlaced
<1>14. MessageModeCuts(S)'
  <2>1. ASSUME end.mode = "message"
        PROVE  /\ c <= m /\ h + r <= S[c + 1]
               /\ meta < 0 => stm = <<>> /\ r >= H
    <3>1. /\ b = c /\ c \in 1 .. m /\ h = S[c + 1] - Len(w)
          /\ meta < 0 => Len(w) = H + sent[c]
      BY <1>1, <1>b, <1>c, <1>h, <1>m, <1>w, <2>1, ReadBeginsInComing
    <3>2. S[c + 1] \in Nat /\ sent[c] \in Nat
      <4>1. c + 1 \in 1 .. m + 1
        BY <3>1, <1>4
      <4> QED
        BY <1>0, <1>m, <3>1, <4>1 DEF Starts
    <3>3. h + r <= S[c + 1] /\ c <= m
      BY <1>3, <1>4, <3>1, <3>2
    <3>4. ASSUME meta < 0 PROVE stm = <<>> /\ r >= H
      <4>1. stm = <<>>
        BY <2>1, <3>4 DEF Placed, MessageModeCuts
      <4>2. Len(w) >= H
        BY <1>4, <3>1, <3>2, <3>4
      <4> QED
        BY <1>3, <1>4, <4>1, <4>2
    <3> QED
      BY <3>3, <3>4
  <2>2. r >= H => ~TooShort'
    BY <1>3, <1>4, <1>10
  <2> QED
    BY <1>1, <1>2, <1>8, <1>m, <2>1, <2>2 DEF MessageModeCuts
<1>15. ServerReadsWhole(S)'
  <2>1. ASSUME end.reconnects PROVE c <= m /\ h + r = S[c + 1]
    <3>1. end.mode = "message" /\ end.buffer >= H + MaxMeta /\ MaxMeta \in Nat
      BY <2>1 DEF ServerBufferAssumption, EnvelopMakerAssumption, TypeOK
    <3>2. meta < 0
      BY <1>1, <2>1 DEF Placed, ServerReadsWhole
    <3>3. c \in 1 .. m /\ h = S[c + 1] - Len(w) /\ Len(w) = H + sent[c]
      BY <1>1, <1>c, <1>h, <1>m, <1>w, <3>1, <3>2, ReadBeginsInComing
    <3>4. S[c + 1] \in Nat /\ sent[c] \in Nat /\ sent[c] <= MaxMeta
      <4>1. c + 1 \in 1 .. m + 1
        BY <3>3, <1>4
      <4> QED
        BY <1>0, <1>m, <3>3, <4>1 DEF Starts
    <3>5. r = Len(w)
      BY <1>3, <1>4, <3>1, <3>3, <3>4, SMTT(30)
    <3>e. PICK e : e = S[c + 1]
      OBVIOUS
    <3>x. PICK x : x = Len(w)
      OBVIOUS
    <3>6. e \in Nat /\ x \in Nat /\ h = e - x /\ r = x
      BY <1>4, <3>3, <3>4, <3>5, <3>e, <3>x
    <3>7. h + r = e
      BY <3>6
    <3> QED
      BY <1>4, <3>3, <3>7, <3>e
  <2> QED
    BY <1>1, <1>2, <1>8, <1>m, <2>1 DEF ServerReadsWhole
<1>16. BodyPlaced(S)'
  <2>1. ASSUME meta >= 0
        PROVE  /\ c <= m /\ msg = c /\ meta = sent[c] /\ h - n = S[c] + H
               /\ RunFrom(S, sent, stm, S[c] + H) /\ meta # 0 /\ n < meta
    BY <1>1, <1>9, <1>c, <1>m, <1>n, <2>1 DEF Placed, BodyPlaced
  <2> QED
    BY <1>1, <1>8, <1>9, <1>m, <1>n, <2>1 DEF BodyPlaced
<1>17. HeaderPlaced(S)'
  <2>1. ASSUME meta < 0
        PROVE  /\ n = -1 - meta /\ h - n = S[c] /\ RunFrom(S, sent, stm, S[c])
               /\ stm # <<>> => c <= m /\ n <= H + sent[c]
    BY <1>1, <1>9, <1>c, <1>m, <1>n, <2>1 DEF Placed, HeaderPlaced
  <2>2. ASSUME meta < 0, stm # <<>>, r < H PROVE h + r = S[c + 1]
    <3>1. c \in 1 .. m /\ n <= H + sent[c] /\ h - n = S[c]
      BY <1>4, <2>1, <2>2
    <3>2. b = m
      <4>1. end.mode # "message"
        BY <2>2 DEF Placed, MessageModeCuts
      <4> QED
        BY <1>3, <4>1
    <3>3. h + r = S[m + 1]
      BY <1>11, <2>2, <3>2
    <3>4. S[c + 1] = S[c] + H + sent[c] /\ S[c] \in Nat /\ sent[c] \in Nat
      <4>1. c \in 1 .. m + 1
        BY <1>4
      <4> QED
        BY <1>0, <1>m, <3>1, <4>1 DEF Starts
    <3>5. c = m
      <4>1. ASSUME c < m PROVE FALSE
        <5>1. c + 1 \in 1 .. m + 1 /\ m + 1 \in 1 .. m + 1 /\ c + 1 < m + 1
          BY <1>4, <3>1, <4>1
        <5>2. S[c + 1] + H <= S[m + 1] /\ S[m + 1] \in Nat
          BY <1>5, <1>m, <5>1, StartsGrow
        <5>3. S[m + 1] = h + r /\ h = S[c] + n
          BY <1>4, <3>1, <3>3, <3>4
        <5>4. n \in Nat /\ H \in Nat /\ r \in Nat /\ n <= H + sent[c] /\ r < H
          BY <1>3, <1>4, <2>2, <3>1
        <5>s. PICK s : s = S[c]
          OBVIOUS
        <5>x. PICK x : x = sent[c]
          OBVIOUS
        <5>e. PICK e : e = S[m + 1]
          OBVIOUS
        <5>5. s \in Nat /\ x \in Nat /\ n <= H + x
          BY <3>4, <5>4, <5>s, <5>x
        <5>6. e = s + n + r
          BY <5>3, <5>e, <5>s
        <5>7. s + H + x + H <= e
          BY <3>4, <5>2, <5>e, <5>s, <5>x
        <5> QED
          BY <5>4, <5>5, <5>6, <5>7
      <4> QED
        BY <1>4, <3>1, <4>1
    <3> QED
      BY <3>3, <3>5
  <2>3. auxBinBuffer'.cur = 0
    BY <1>7
  <2> QED
    BY <1>1, <1>2, <1>8, <1>9, <1>10, <1>m, <1>n, <2>1, <2>2, <2>3 DEF HeaderPlaced
<1> QED
  BY <1>2, <1>5, <1>8, <1>12, <1>13, <1>14, <1>15, <1>16, <1>17, <1>c DEF Placed

-----------------------------------------------------------------------------
(* The other end: messages written, and connections *)

\* The last message handed over is one that was written.
LEMMA LastIsWritten ==
    ASSUME TypeOK, Coming \in 1 .. Len(sent) + 1
    PROVE  F!LastDelivered \in Nat /\ before \in Nat /\ F!LastDelivered <= Len(sent) /\ before <= Len(sent)
<1>1. delivered \in Seq([msg : 1 .. MaxMsgs, body : Seq(Byte)])
  BY DEF TypeOK
<1>2. F!LastDelivered \in Nat
  <2>1. CASE delivered = <<>>
    BY <2>1 DEF F!LastDelivered
  <2>2. CASE delivered # <<>>
    <3>1. Len(delivered) \in 1 .. Len(delivered)
      BY <1>1, <2>2
    <3>2. delivered[Len(delivered)] \in [msg : 1 .. MaxMsgs, body : Seq(Byte)]
      BY <1>1, <3>1, ElementOfSeq
    <3> QED
      BY <2>2, <3>2 DEF F!LastDelivered
  <2> QED
    BY <2>1, <2>2
<1>3. before \in Nat /\ before <= Len(sent) /\ Len(sent) \in Nat
  BY DEF TypeOK
<1> QED
  BY <1>2, <1>3 DEF Coming, B!Larger

\* T is S with the end of one more message.
Grown(S, T, z, size) ==
    /\ Layout(T, Append(z, size))
    /\ \A k \in 1 .. Len(z) + 1 : T[k] = S[k]
    /\ T[Len(z) + 2] = S[Len(z) + 1] + H + size

\* One more message is laid out behind the stream.
LEMMA LayoutGrows ==
    ASSUME EnvelopMakerAssumption, NEW z \in Seq(0 .. MaxMeta), NEW size \in 0 .. MaxMeta,
           NEW S, Layout(S, z)
    PROVE  \E T : Grown(S, T, z, size)
<1>m. PICK m : m = Len(z)
  OBVIOUS
<1>y. PICK y : y = Append(z, size)
  OBVIOUS
<1>T. PICK T : T = [k \in 1 .. m + 2 |-> IF k <= m + 1 THEN S[k] ELSE S[m + 1] + H + size]
  OBVIOUS
<1>1. m \in Nat /\ H \in Nat /\ size \in Nat
  BY <1>m DEF EnvelopMakerAssumption
<1>2. /\ Len(y) = m + 1 /\ y[m + 1] = size
      /\ \A k \in 1 .. m : y[k] = z[k]
  BY <1>m, <1>y
<1>3. /\ \A k \in 1 .. m + 1 : T[k] = S[k]
      /\ T[m + 2] = S[m + 1] + H + size
  <2>1. m + 2 \in 1 .. m + 2 /\ ~(m + 2 <= m + 1)
    BY <1>1
  <2>2. \A k \in 1 .. m + 1 : k \in 1 .. m + 2 /\ k <= m + 1
    BY <1>1
  <2> QED
    BY <1>T, <2>1, <2>2
<1>4. /\ \A k \in 1 .. m + 1 : S[k] \in Nat
      /\ \A k \in 1 .. m : S[k + 1] = S[k] + H + z[k] /\ z[k] \in Nat
      /\ \A k \in 1 .. m, l \in 1 .. m + 1 : k < l => S[k] + H + z[k] <= S[l]
  BY <1>m DEF Layout
<1>5. \A k \in 1 .. m + 2 : T[k] \in Nat
  <2>1. ASSUME NEW k \in 1 .. m + 2 PROVE T[k] \in Nat
    <3>1. CASE k = m + 2
      <4>1. S[m + 1] \in Nat
        BY <1>1, <1>4
      <4> QED
        BY <1>1, <1>3, <3>1, <4>1
    <3>2. CASE k # m + 2
      <4>1. k \in 1 .. m + 1
        BY <1>1, <3>2
      <4> QED
        BY <1>3, <1>4, <4>1
    <3> QED
      BY <3>1, <3>2
  <2> QED
    BY <2>1
<1>6. ASSUME NEW k \in 1 .. m + 1 PROVE T[k + 1] = T[k] + H + y[k]
  <2>1. CASE k = m + 1
    <3>1. k + 1 = m + 2 /\ T[k] = S[m + 1] /\ y[k] = size
      BY <1>1, <1>2, <1>3, <2>1
    <3> QED
      BY <1>3, <3>1
  <2>2. CASE k # m + 1
    <3>1. k \in 1 .. m /\ k + 1 \in 1 .. m + 1
      BY <1>1, <2>2
    <3> QED
      BY <1>2, <1>3, <1>4, <3>1
  <2> QED
    BY <2>1, <2>2
<1>7. ASSUME NEW k \in 1 .. m + 1, NEW l \in 1 .. m + 2, k < l PROVE T[k] + H + y[k] <= T[l]
  <2>1. T[k] + H + y[k] = T[k + 1] /\ T[k + 1] \in Nat /\ T[l] \in Nat
    <3>1. k + 1 \in 1 .. m + 2
      BY <1>1
    <3> QED
      BY <1>5, <1>6, <3>1
  <2>2. CASE l = k + 1
    BY <2>1, <2>2
  <2>3. CASE l # k + 1
    <3>1. k \in 1 .. m /\ k + 1 \in 1 .. m + 1
      BY <1>1, <1>7, <2>3
    <3>2. CASE l = m + 2
      <4>1. S[k] + H + z[k] <= S[m + 1] /\ S[m + 1] \in Nat
        <5>1. m + 1 \in 1 .. m + 1 /\ k < m + 1
          BY <1>1, <3>1
        <5> QED
          BY <1>4, <3>1, <5>1
      <4>2. T[k + 1] <= S[m + 1]
        BY <1>3, <1>4, <3>1, <4>1
      <4> QED
        BY <1>1, <1>3, <2>1, <3>2, <4>1, <4>2, SMTT(30)
    <3>3. CASE l # m + 2
      <4>1. l \in 1 .. m + 1
        BY <1>1, <3>3
      <4>2. S[k] + H + z[k] <= S[l]
        BY <1>4, <1>7, <3>1, <4>1
      <4> QED
        BY <1>2, <1>3, <1>7, <3>1, <4>1, <4>2
    <3> QED
      BY <3>2, <3>3
  <2> QED
    BY <2>2, <2>3
<1>8. Layout(T, y)
  <2>1. Len(y) + 1 = m + 2 /\ Len(y) = m + 1
    BY <1>1, <1>2
  <2> QED
    BY <1>5, <1>6, <1>7, <2>1 DEF Layout
<1> QED
  BY <1>3, <1>8, <1>m, <1>y DEF Grown

\* What was a run stays one.
LEMMA RunGrows ==
    ASSUME EnvelopMakerAssumption, NEW z \in Seq(0 .. MaxMeta), NEW size \in 0 .. MaxMeta,
           NEW S, Layout(S, z), NEW T, Grown(S, T, z, size),
           NEW q, Len(q) \in Nat, NEW p \in Int, RunFrom(S, z, q, p)
    PROVE  RunFrom(T, Append(z, size), q, p)
<1>m. PICK m : m = Len(z)
  OBVIOUS
<1>y. PICK y : y = Append(z, size)
  OBVIOUS
<1>1. m \in Nat /\ H \in Nat /\ size \in Nat /\ Len(y) = m + 1
  BY <1>m, <1>y DEF EnvelopMakerAssumption
<1>2. /\ \A k \in 1 .. m + 1 : T[k] = S[k] /\ S[k] \in Nat
      /\ T[m + 2] = S[m + 1] + H + size
  BY <1>m DEF Grown, Layout
<1>3. /\ p + Len(q) <= S[m + 1]
      /\ \A j \in 1 .. Len(q), k \in 1 .. m :
            S[k] < p + j /\ p + j <= S[k + 1] => q[j] = <<k, p + j - S[k]>>
  BY <1>m DEF RunFrom
<1>4. m + 1 \in 1 .. m + 1 /\ S[m + 1] \in Nat
  BY <1>1, <1>2
<1>5. p + Len(q) <= T[m + 2]
  BY <1>1, <1>2, <1>3, <1>4
<1>6. ASSUME NEW j \in 1 .. Len(q), NEW k \in 1 .. m + 1, T[k] < p + j, p + j <= T[k + 1]
      PROVE  q[j] = <<k, p + j - T[k]>>
  <2>1. k # m + 1
    <3>1. ASSUME k = m + 1 PROVE FALSE
      <4>1. S[m + 1] < p + j
        BY <1>2, <1>4, <1>6, <3>1
      <4> QED
        BY <1>3, <1>4, <4>1
    <3> QED
      BY <3>1
  <2>2. k \in 1 .. m /\ k + 1 \in 1 .. m + 1
    BY <1>1, <2>1
  <2>3. T[k] = S[k] /\ T[k + 1] = S[k + 1]
    BY <1>2, <2>2
  <2> QED
    BY <1>3, <1>6, <2>2, <2>3
<1>7. Len(y) + 1 = m + 2
  BY <1>1
<1> QED
  BY <1>1, <1>5, <1>6, <1>7, <1>y DEF RunFrom

\* The bytes of one message, as they are written.
Message(k, size) == [i \in 1 .. H + size |-> <<k, i>>]

\* The bytes of a new message are a run of the longer stream.
LEMMA MessageIsRun ==
    ASSUME EnvelopMakerAssumption, NEW z \in Seq(0 .. MaxMeta), NEW size \in 0 .. MaxMeta,
           Len(z) < MaxMsgs, NEW S, Layout(S, z), NEW T, Grown(S, T, z, size)
    PROVE  /\ Message(Len(z) + 1, size) \in Seq(Byte)
           /\ Len(Message(Len(z) + 1, size)) = H + size
           /\ RunFrom(T, Append(z, size), Message(Len(z) + 1, size), S[Len(z) + 1])
<1>m. PICK m : m = Len(z)
  OBVIOUS
<1>y. PICK y : y = Append(z, size)
  OBVIOUS
<1>q. PICK q : q = Message(m + 1, size)
  OBVIOUS
<1>1. m \in Nat /\ H \in Nat /\ H > 0 /\ size \in Nat /\ Len(y) = m + 1
  BY <1>m, <1>y DEF EnvelopMakerAssumption
<1>2. /\ Len(q) = H + size
      /\ \A i \in 1 .. H + size : q[i] = <<m + 1, i>>
  BY <1>1, <1>q DEF Message
<1>3. q \in Seq(Byte)
  <2>1. m + 1 \in 1 .. MaxMsgs
    BY <1>1, <1>m DEF EnvelopMakerAssumption
  <2>2. \A i \in 1 .. H + size : i \in 1 .. H + MaxMeta
    BY <1>1 DEF EnvelopMakerAssumption
  <2>3. \A i \in 1 .. H + size : <<m + 1, i>> \in Byte
    BY <2>1, <2>2 DEF Byte
  <2> QED
    BY <1>1, <1>q, <2>3 DEF Message
<1>4. /\ \A k \in 1 .. m + 1 : T[k] = S[k] /\ S[k] \in Nat
      /\ T[m + 2] = S[m + 1] + H + size
  BY <1>m DEF Grown, Layout
<1>5. m + 1 \in 1 .. m + 1 /\ S[m + 1] \in Nat
  BY <1>1, <1>4
<1>6. ASSUME NEW j \in 1 .. Len(q), NEW k \in 1 .. m + 1, T[k] < S[m + 1] + j, S[m + 1] + j <= T[k + 1]
      PROVE  q[j] = <<k, S[m + 1] + j - T[k]>>
  <2>1. k = m + 1
    <3>1. ASSUME k # m + 1 PROVE FALSE
      <4>1. k + 1 \in 1 .. m + 1 /\ k + 1 <= m + 1
        BY <1>1, <3>1
      <4>2. S[k + 1] <= S[m + 1] /\ T[k + 1] = S[k + 1] /\ S[k + 1] \in Nat
        BY <1>4, <1>5, <1>m, <4>1, StartsGrow
      <4> QED
        BY <1>2, <1>5, <1>6, <4>2
    <3> QED
      BY <3>1
  <2>2. S[m + 1] + j - T[k] = j
    BY <1>2, <1>4, <1>5, <2>1
  <2> QED
    BY <1>2, <2>1, <2>2
<1>7. Len(y) + 1 = m + 2 /\ S[m + 1] + Len(q) <= T[m + 2]
  BY <1>1, <1>2, <1>4, <1>5
<1>8. RunFrom(T, y, q, S[m + 1])
  BY <1>1, <1>6, <1>7 DEF RunFrom
<1> QED
  BY <1>2, <1>3, <1>8, <1>m, <1>y, <1>q

\* A message is written: it is laid out behind everything else.
LEMMA WriteMessageKeeps ==
    ASSUME EnvelopMakerAssumption, TypeOK, Coming \in 1 .. Len(sent) + 1, NEW S, Placed(S),
           NEW size \in 0 .. MaxMeta, WriteMessage(size), end' = end
    PROVE  TypeOK' /\ Coming' \in 1 .. Len(sent') + 1 /\ \E T : Placed(T)'
<1>c. PICK c : c = Coming
  OBVIOUS
<1>h. PICK h : h = Here(S)
  OBVIOUS
<1>m. PICK m : m = Len(sent)
  OBVIOUS
<1>L. PICK L : L = Len(wire)
  OBVIOUS
<1>q. PICK q : q = Message(m + 1, size)
  OBVIOUS
<1>0. Known(S) /\ Starts(S) /\ Pieces
  BY Numbers
<1>1. /\ m < MaxMsgs /\ sent' = Append(sent, size) /\ delivered' = delivered /\ before' = before
      /\ wire' = IF end.mode = "byte" /\ wire # <<>> THEN <<wire[1] \o q>> ELSE Append(wire, q)
      /\ at' = at /\ auxBinBuffer' = auxBinBuffer /\ limit' = limit
      /\ msg' = msg /\ meta' = meta /\ stm' = stm
  BY <1>m, <1>q DEF WriteMessage, F!Write, Message, envelop
<1>2. sent \in Seq(0 .. MaxMeta) /\ Layout(S, sent) /\ wire \in Seq(Seq(Byte)) /\ stm \in Seq(Byte)
  BY DEF TypeOK, Placed
<1>T. PICK T : Grown(S, T, sent, size)
  BY <1>2, LayoutGrows
<1>3. q \in Seq(Byte) /\ Len(q) = H + size /\ RunFrom(T, sent', q, S[m + 1])
  BY <1>1, <1>2, <1>T, <1>m, <1>q, MessageIsRun
<1>4. /\ m \in Nat /\ L \in Nat /\ L <= m /\ h \in Int /\ H \in Nat /\ H > 0 /\ size \in Nat
      /\ c \in 1 .. m + 1 /\ Len(stm) \in Nat
      /\ Len(auxBinBuffer.data) \in Nat /\ auxBinBuffer.cur \in Nat
  BY <1>0, <1>c, <1>h, <1>m, <1>L DEF Known, EnvelopMakerAssumption
<1>5. /\ Len(sent') = m + 1 /\ sent'[m + 1] = size
      /\ \A k \in 1 .. m : sent'[k] = sent[k]
  BY <1>1, <1>2, <1>m
<1>6. /\ Layout(T, sent')
      /\ \A k \in 1 .. m + 1 : T[k] = S[k] /\ S[k] \in Nat
      /\ T[m + 2] = S[m + 1] + H + size
  BY <1>0, <1>1, <1>T, <1>m DEF Grown, Starts
<1>7. ASSUME NEW r, Len(r) \in Nat, NEW p \in Int, RunFrom(S, sent, r, p)
      PROVE  RunFrom(T, sent', r, p)
  BY <1>1, <1>2, <1>7, <1>T, RunGrows
<1>8. m + 1 \in 1 .. m + 1 /\ S[m + 1] \in Nat /\ T[m + 2] \in Nat
  <2>1. m + 1 \in 1 .. m + 1
    BY <1>4
  <2> QED
    BY <1>4, <1>6, <2>1
<1>9. q # <<>>
  BY <1>3, <1>4
<1>10. ASSUME end.mode = "byte" /\ wire # <<>>
       PROVE  WirePlaced(T)' /\ Here(T)' = h /\ wire' \in Seq(Seq(Byte))
  <2>w. PICK w : w = wire[1]
    OBVIOUS
  <2>v. PICK v : v = w \o q
    OBVIOUS
  <2>1. L = 1
    <3>1. L <= 1
      BY <1>10, <1>L DEF Placed, WirePlaced
    <3>2. L # 0
      BY <1>2, <1>10, <1>L
    <3> QED
      BY <1>4, <3>1, <3>2
  <2>2. w \in Seq(Byte) /\ Len(w) \in Nat /\ 1 \in 1 .. L
    BY <1>0, <1>L, <2>1, <2>w DEF Pieces
  <2>3. PieceEnd(S, 1) = S[m + 1] /\ h = S[m + 1] - Len(w) /\ RunFrom(S, sent, w, h)
    <3>1. m - 1 + 1 + 1 = m + 1
      BY <1>4
    <3>2. PieceEnd(S, 1) = S[m + 1]
      BY <1>L, <1>m, <2>1, <3>1 DEF PieceEnd
    <3> QED
      BY <1>10, <1>L, <1>h, <2>2, <2>w, <3>2 DEF Here, Placed, WirePlaced
  <2>4. v \in Seq(Byte) /\ Len(v) = Len(w) + (H + size)
    BY <1>3, <2>2, <2>v, ConcatProperties
  <2>5. RunFrom(T, sent', v, h)
    <3>1. RunFrom(T, sent', w, h)
      BY <1>4, <1>7, <2>2, <2>3
    <3>2. RunFrom(T, sent', q, h + Len(w))
      BY <1>3, <1>8, <2>2, <2>3
    <3>3. sent' \in Seq(0 .. MaxMeta)
      BY <1>1, <1>2
    <3> QED
      BY <1>3, <1>4, <1>6, <2>2, <2>v, <3>1, <3>2, <3>3, TwoRuns
  <2>6. wire' = <<v>> /\ Len(wire') = 1 /\ wire'[1] = v /\ wire' # <<>>
    BY <1>1, <1>10, <2>v, <2>w
  <2>7. PieceEnd(T, 1)' = T[m + 2]
    <3>1. (m + 1) - 1 + 1 + 1 = m + 2
      BY <1>4
    <3> QED
      BY <1>5, <2>6, <3>1 DEF PieceEnd
  <2>8. T[m + 2] - Len(v) = h
    <3>e. PICK e : e = S[m + 1]
      OBVIOUS
    <3>x. PICK x : x = Len(w)
      OBVIOUS
    <3>1. e \in Int /\ x \in Int /\ h = e - x
      BY <1>8, <2>2, <2>3, <3>e, <3>x
    <3>2. T[m + 2] = e + H + size
      BY <1>6, <3>e
    <3>3. Len(v) = x + (H + size)
      BY <2>4, <3>x
    <3>4. H \in Int /\ size \in Int
      BY <1>4
    <3>5. e + H + size - (x + (H + size)) = e - x
      BY <3>1, <3>4
    <3> QED
      BY <3>1, <3>2, <3>3, <3>5
  <2>9. Here(T)' = h
    BY <2>6, <2>7, <2>8 DEF Here
  <2>10. WirePlaced(T)'
    <3>1. v # <<>>
      BY <1>4, <2>2, <2>4
    <3>2. 1 <= m + 1 /\ 1 <= 1
      BY <1>4
    <3>3. end'.mode # "message"
      BY <1>10
    <3>4. ASSUME NEW i \in 1 .. 1 PROVE i = 1
      OBVIOUS
    <3> QED
      BY <1>5, <2>5, <2>6, <2>7, <2>8, <3>1, <3>2, <3>3, <3>4 DEF WirePlaced
  <2>11. wire' \in Seq(Seq(Byte))
    BY <2>4, <2>6
  <2> QED
    BY <2>9, <2>10, <2>11
<1>11. ASSUME ~(end.mode = "byte" /\ wire # <<>>)
       PROVE  WirePlaced(T)' /\ Here(T)' = h /\ wire' \in Seq(Seq(Byte))
  <2>1. wire' = Append(wire, q)
    BY <1>1, <1>11
  <2>2. /\ Len(wire') = L + 1 /\ wire'[L + 1] = q /\ wire' \in Seq(Seq(Byte))
        /\ \A i \in 1 .. L : wire'[i] = wire[i]
    BY <1>2, <1>3, <1>L, <2>1
  <2>3. ASSUME NEW i \in 1 .. L
        PROVE  /\ PieceEnd(T, i)' = PieceEnd(S, i) /\ PieceEnd(S, i) \in Nat
               /\ m - L + i \in 1 .. m /\ (m + 1) - (L + 1) + i = m - L + i
    <3>1. m - L + i \in 1 .. m /\ (m + 1) - (L + 1) + i = m - L + i /\ m - L + i + 1 \in 1 .. m + 1
      BY <1>4
    <3>2. PieceEnd(T, i)' = T[m - L + i + 1]
      BY <1>5, <2>2, <3>1 DEF PieceEnd
    <3> QED
      BY <1>6, <1>L, <1>m, <3>1, <3>2 DEF PieceEnd
  <2>4. PieceEnd(T, L + 1)' = T[m + 2] /\ (m + 1) - (L + 1) + (L + 1) = m + 1
    <3>1. (m + 1) - (L + 1) + (L + 1) + 1 = m + 2 /\ (m + 1) - (L + 1) + (L + 1) = m + 1
      BY <1>4
    <3> QED
      BY <1>5, <2>2, <3>1 DEF PieceEnd
  <2>5. ASSUME NEW i \in 1 .. L + 1
        PROVE  /\ wire'[i] # <<>>
               /\ RunFrom(T, sent', wire'[i], PieceEnd(T, i)' - Len(wire'[i]))
               /\ end.mode = "message" =>
                     /\ Len(wire'[i]) <= H + sent'[(m + 1) - (L + 1) + i]
                     /\ i > 1 => Len(wire'[i]) = H + sent'[(m + 1) - (L + 1) + i]
    <3>1. CASE i = L + 1
      <4>1. T[m + 2] - Len(q) = S[m + 1]
        BY <1>3, <1>4, <1>6, <1>8
      <4>2. RunFrom(T, sent', q, T[m + 2] - Len(q))
        BY <1>3, <4>1
      <4>3. Len(q) <= H + size
        BY <1>3, <1>4
      <4> QED
        BY <1>3, <1>5, <1>9, <2>2, <2>4, <3>1, <4>2, <4>3
    <3>2. CASE i # L + 1
      <4>1. i \in 1 .. L
        BY <1>4, <3>2
      <4>2. wire'[i] = wire[i] /\ PieceEnd(T, i)' = PieceEnd(S, i) /\ PieceEnd(S, i) \in Nat
            /\ m - L + i \in 1 .. m /\ (m + 1) - (L + 1) + i = m - L + i
        BY <2>2, <2>3, <4>1
      <4>3. /\ wire[i] # <<>> /\ RunFrom(S, sent, wire[i], PieceEnd(S, i) - Len(wire[i]))
            /\ end.mode = "message" =>
                  /\ Len(wire[i]) <= H + sent[m - L + i]
                  /\ i > 1 => Len(wire[i]) = H + sent[m - L + i]
        BY <1>L, <1>m, <4>1 DEF Placed, WirePlaced
      <4>4. Len(wire[i]) \in Nat /\ PieceEnd(S, i) - Len(wire[i]) \in Int
        BY <1>0, <1>L, <4>1, <4>2 DEF Pieces
      <4>5. RunFrom(T, sent', wire[i], PieceEnd(S, i) - Len(wire[i]))
        BY <1>7, <4>3, <4>4
      <4>6. sent'[m - L + i] = sent[m - L + i]
        BY <1>5, <4>2
      <4> QED
        BY <4>2, <4>3, <4>5, <4>6
    <3> QED
      BY <3>1, <3>2
  <2>6. L + 1 <= m + 1 /\ (end.mode = "byte" => L + 1 <= 1)
    <3>1. end.mode = "byte" => L = 0
      BY <1>11, <1>L
    <3> QED
      BY <1>4, <3>1
  <2>7. WirePlaced(T)'
    <3>1. Len(sent') = m + 1 /\ Len(wire') = L + 1
      BY <1>5, <2>2
    <3> QED
      BY <2>5, <2>6, <3>1 DEF WirePlaced
  <2>8. Here(T)' = h
    <3>1. wire' # <<>>
      <4>1. L + 1 # 0 /\ Len(<<>>) = 0
        BY <1>4
      <4> QED
        BY <2>2, <4>1
    <3>2. Here(T)' = PieceEnd(T, 1)' - Len(wire'[1])
      BY <3>1 DEF Here
    <3>3. CASE wire = <<>>
      <4>1. L = 0 /\ h = S[m + 1]
        BY <1>h, <1>L, <1>m, <3>3 DEF Here
      <4>2. PieceEnd(T, 1)' = T[m + 2] /\ wire'[1] = q
        <5>1. L + 1 = 1
          BY <4>1
        <5> QED
          BY <2>2, <2>4, <5>1
      <4>3. T[m + 2] - Len(q) = S[m + 1]
        <5>e. PICK e : e = S[m + 1]
          OBVIOUS
        <5>1. e \in Nat /\ T[m + 2] = e + H + size
          BY <1>6, <1>8, <5>e
        <5>2. (e + H + size) - (H + size) = e
          BY <1>4, <5>1
        <5> QED
          BY <1>3, <5>1, <5>2, <5>e
      <4> QED
        BY <3>2, <4>1, <4>2, <4>3
    <3>4. CASE wire # <<>>
      <4>1. 1 \in 1 .. L
        BY <1>2, <1>4, <1>L, <3>4
      <4> QED
        BY <1>h, <2>2, <2>3, <3>2, <3>4, <4>1 DEF Here
    <3> QED
      BY <3>3, <3>4
  <2> QED
    BY <2>2, <2>7, <2>8
<1>12. WirePlaced(T)' /\ Here(T)' = h /\ wire' \in Seq(Seq(Byte))
  BY <1>10, <1>11
<1>13. Coming' = c
  BY <1>1, <1>c DEF Coming, F!LastDelivered, B!Larger
<1>14. CutAt(T)' = CutAt(S) /\ CutAt(S) \in Int
  BY <1>0, <1>1, <1>12, <1>h DEF CutAt, Known
<1>15. T[c] = S[c] /\ S[c] \in Nat
  BY <1>4, <1>6
<1>16. c <= m => /\ T[c + 1] = S[c + 1] /\ sent'[c] = sent[c] /\ c <= m + 1
  <2>1. ASSUME c <= m PROVE c + 1 \in 1 .. m + 1 /\ c \in 1 .. m /\ c <= m + 1
    BY <1>4, <2>1
  <2> QED
    BY <1>5, <1>6, <2>1
<1>17. ReadPlaced(T)'
  <2>1. ASSUME at # "idle"
        PROVE  /\ limit = Len(auxBinBuffer.data) /\ auxBinBuffer.data # <<>>
               /\ RunFrom(T, sent', auxBinBuffer.data, h - Len(auxBinBuffer.data))
               /\ at = "top" => auxBinBuffer.cur < Len(auxBinBuffer.data)
    <3>1. /\ limit = Len(auxBinBuffer.data) /\ auxBinBuffer.data # <<>>
          /\ RunFrom(S, sent, auxBinBuffer.data, h - Len(auxBinBuffer.data))
          /\ at = "top" => auxBinBuffer.cur < Len(auxBinBuffer.data)
      BY <1>h, <2>1 DEF Placed, ReadPlaced
    <3>2. h - Len(auxBinBuffer.data) \in Int
      BY <1>4
    <3> QED
      BY <1>4, <1>7, <3>1, <3>2
  <2> QED
    BY <1>1, <1>12, <2>1 DEF ReadPlaced
<1>18. HeaderPlaced(T)'
  <2>1. ASSUME meta < 0
        PROVE  /\ at # "body" /\ Len(stm) = -1 - meta /\ CutAt(S) - Len(stm) = T[c]
               /\ RunFrom(T, sent', stm, T[c])
               /\ stm # <<>> =>
                     /\ c <= m + 1 /\ Len(stm) <= H + sent'[c]
                     /\ at = "top" => auxBinBuffer.cur = 0 /\ (TooShort => h = T[c + 1])
    <3>1. /\ at # "body" /\ Len(stm) = -1 - meta /\ CutAt(S) - Len(stm) = S[c]
          /\ RunFrom(S, sent, stm, S[c])
          /\ stm # <<>> =>
                /\ c <= m /\ Len(stm) <= H + sent[c]
                /\ at = "top" => auxBinBuffer.cur = 0 /\ (TooShort => h = S[c + 1])
      BY <1>c, <1>h, <1>m, <2>1 DEF Placed, HeaderPlaced
    <3>2. RunFrom(T, sent', stm, T[c])
      BY <1>4, <1>7, <1>15, <3>1
    <3> QED
      BY <1>15, <1>16, <3>1, <3>2
  <2>2. TooShort' = TooShort
    BY <1>1 DEF TooShort
  <2> QED
    BY <1>1, <1>5, <1>12, <1>13, <1>14, <2>1, <2>2 DEF HeaderPlaced
<1>19. BodyPlaced(T)'
  <2>1. ASSUME meta >= 0
        PROVE  /\ c <= m + 1 /\ msg = c /\ meta = sent'[c] /\ CutAt(S) - Len(stm) = T[c] + H
               /\ RunFrom(T, sent', stm, T[c] + H)
               /\ IF meta = 0 THEN at = "body" /\ stm = <<>> ELSE Len(stm) < meta
    <3>1. /\ c <= m /\ msg = c /\ meta = sent[c] /\ CutAt(S) - Len(stm) = S[c] + H
          /\ RunFrom(S, sent, stm, S[c] + H)
          /\ IF meta = 0 THEN at = "body" /\ stm = <<>> ELSE Len(stm) < meta
      BY <1>c, <1>m, <2>1 DEF Placed, BodyPlaced
    <3>2. RunFrom(T, sent', stm, S[c] + H)
      <4>1. S[c] + H \in Int
        BY <1>4, <1>15
      <4> QED
        BY <1>4, <1>7, <3>1, <4>1
    <3> QED
      BY <1>15, <1>16, <3>1, <3>2
  <2> QED
    BY <1>1, <1>5, <1>13, <1>14, <2>1 DEF BodyPlaced
<1>20. MessageModeCuts(T)' /\ ServerReadsWhole(T)'
  <2>1. TooShort' = TooShort
    BY <1>1 DEF TooShort
  <2>2. MessageModeCuts(T)'
    BY <1>1, <1>5, <1>12, <1>13, <1>16, <1>c, <1>h, <1>m, <2>1 DEF Placed, MessageModeCuts
  <2>3. ServerReadsWhole(T)'
    BY <1>1, <1>5, <1>12, <1>13, <1>16, <1>c, <1>h, <1>m DEF Placed, ServerReadsWhole
  <2> QED
    BY <2>2, <2>3
<1>21. TypeOK'
  <2>1. sent' \in Seq(0 .. MaxMeta) /\ Len(sent') <= MaxMsgs /\ before' \in 0 .. Len(sent')
    <3>1. before \in 0 .. m
      BY <1>m DEF TypeOK
    <3>2. MaxMsgs \in Nat
      BY DEF EnvelopMakerAssumption
    <3> QED
      BY <1>1, <1>2, <1>4, <1>5, <3>1, <3>2
  <2> QED
    BY <1>1, <1>12, <2>1 DEF TypeOK
<1>22. Coming' \in 1 .. Len(sent') + 1
  BY <1>4, <1>5, <1>13
<1>23. Placed(T)'
  BY <1>6, <1>12, <1>17, <1>18, <1>19, <1>20 DEF Placed, Layout
<1> QED
  BY <1>21, <1>22, <1>23

\* Another connection: the next message is the first of those not written yet.
LEMMA ConnectionKeeps ==
    ASSUME EnvelopMakerAssumption, TypeOK, Coming \in 1 .. Len(sent) + 1, NEW S, Placed(S),
           F!NewConnection, wire' = <<>>, at = "idle", at' = "idle", end' = end,
           meta' = -1, stm' = <<>>, msg' \in 0 .. MaxMsgs,
           auxBinBuffer' = auxBinBuffer, limit' = limit
    PROVE  TypeOK' /\ Coming' \in 1 .. Len(sent') + 1 /\ Placed(S)'
<1>m. PICK m : m = Len(sent)
  OBVIOUS
<1>0. Known(S) /\ Starts(S)
  BY Numbers
<1>1. before' = m /\ sent' = sent /\ delivered' = delivered
  BY <1>m DEF F!NewConnection
<1>2. m \in Nat /\ S[m + 1] \in Nat
  BY <1>0, <1>m DEF Known
<1>3. Coming' = m + 1
  <2>1. F!LastDelivered' = F!LastDelivered
    BY <1>1 DEF F!LastDelivered
  <2>2. F!LastDelivered \in Nat /\ F!LastDelivered <= m
    BY <1>m, LastIsWritten
  <2> QED
    BY <1>1, <1>2, <2>1, <2>2 DEF Coming, B!Larger
<1>4. Here(S)' = S[m + 1] /\ CutAt(S)' = S[m + 1]
  BY <1>1, <1>m DEF Here, CutAt
<1>5. Layout(S, sent)' /\ WirePlaced(S)'
  <2>1. Layout(S, sent')
    BY <1>1 DEF Placed
  <2>2. Len(wire') = 0 /\ \A i \in 1 .. 0 : FALSE
    OBVIOUS
  <2> QED
    BY <1>1, <1>2, <1>m, <2>1, <2>2 DEF Layout, WirePlaced
<1>6. HeaderPlaced(S)'
  <2>1. RunFrom(S, sent', <<>>, S[m + 1])
    BY <1>1, <1>2, <1>m, EmptyRun
  <2>2. S[m + 1] - Len(<<>>) = S[m + 1] /\ Len(<<>>) = -1 - (-1)
    BY <1>2
  <2> QED
    BY <1>3, <1>4, <2>1, <2>2 DEF HeaderPlaced
<1>7. ReadPlaced(S)' /\ BodyPlaced(S)' /\ MessageModeCuts(S)' /\ ServerReadsWhole(S)'
  BY DEF ReadPlaced, BodyPlaced, MessageModeCuts, ServerReadsWhole
<1>8. TypeOK'
  <2>1. meta' \in Int /\ meta' <= MaxMeta /\ stm' \in Seq(Byte) /\ Len(stm') = -1 - meta' /\ wire' \in Seq(Seq(Byte))
    BY DEF EnvelopMakerAssumption
  <2>2. before' \in 0 .. Len(sent')
    BY <1>1, <1>2, <1>m
  <2> QED
    BY <1>1, <2>1, <2>2 DEF TypeOK
<1> QED
  BY <1>1, <1>2, <1>3, <1>5, <1>6, <1>7, <1>8, <1>m DEF Placed

\* Another client on the same thread: its first message finds the envelop between two.
LEMMA ReconnectKeeps ==
    ASSUME EnvelopMakerAssumption, ServerBufferAssumption, TypeOK, Coming \in 1 .. Len(sent) + 1,
           NEW S, Placed(S), Reconnect, end' = end
    PROVE  TypeOK' /\ Coming' \in 1 .. Len(sent') + 1 /\ Placed(S)'
<1>1. /\ end.reconnects /\ at = "idle" /\ at' = "idle" /\ F!NewConnection /\ wire' = <<>>
      /\ auxBinBuffer' = auxBinBuffer /\ limit' = limit /\ msg' = msg /\ meta' = meta /\ stm' = stm
  BY DEF Reconnect, envelop
<1>2. end.mode = "message"
  BY <1>1 DEF ServerBufferAssumption, TypeOK
<1>3. meta < 0 /\ stm = <<>>
  BY <1>1, <1>2 DEF Placed, ServerReadsWhole, MessageModeCuts
<1>4. meta = -1
  <2>1. Len(stm) = -1 - meta /\ meta \in Int /\ Len(stm) = 0
    BY <1>1, <1>3 DEF TypeOK
  <2> QED
    BY <2>1
<1>5. msg' \in 0 .. MaxMsgs
  BY <1>1 DEF TypeOK
<1> QED
  BY <1>1, <1>3, <1>4, <1>5, ConnectionKeeps

\* The next connection has a new envelop, which holds no bytes.
LEMMA EnvelopReplacedKeeps ==
    ASSUME EnvelopMakerAssumption, TypeOK, Coming \in 1 .. Len(sent) + 1,
           NEW S, Placed(S), EnvelopReplaced, end' = end
    PROVE  TypeOK' /\ Coming' \in 1 .. Len(sent') + 1 /\ Placed(S)'
<1>1. /\ at = "idle" /\ at' = "idle" /\ F!NewConnection /\ wire' = <<>>
      /\ auxBinBuffer' = auxBinBuffer /\ limit' = limit /\ msg' = 0 /\ meta' = -1 /\ stm' = <<>>
  BY DEF EnvelopReplaced
<1>2. msg' \in 0 .. MaxMsgs
  BY <1>1 DEF EnvelopMakerAssumption
<1> QED
  BY <1>1, <1>2, ConnectionKeeps

-----------------------------------------------------------------------------
(* The theorems *)

\* Nothing has been sent or read: the empty layout places everything.
LEMMA InitEnvelopInv == ASSUME EnvelopMakerAssumption, Init PROVE EnvelopInv
<1>S. PICK S : S = [k \in 1 .. 1 |-> 0]
  OBVIOUS
<1>1. /\ end \in Ends /\ sent = <<>> /\ delivered = <<>> /\ before = 0 /\ wire = <<>>
      /\ at = "idle" /\ auxBinBuffer = [data |-> <<>>, cur |-> 0] /\ limit = 0
      /\ msg = 0 /\ meta = -1 /\ stm = <<>>
  BY DEF Init, F!FramingInit, B!Empty
<1>2. Len(sent) = 0 /\ Len(wire) = 0 /\ Len(stm) = 0
  BY <1>1
<1>3. S[1] = 0
  BY <1>S
<1>4. Layout(S, sent)
  BY <1>2, <1>3 DEF Layout
<1>5. Coming = 1
  BY <1>1 DEF Coming, F!LastDelivered, B!Larger
<1>6. WirePlaced(S) /\ ReadPlaced(S) /\ BodyPlaced(S) /\ MessageModeCuts(S) /\ ServerReadsWhole(S)
  BY <1>1, <1>2 DEF WirePlaced, ReadPlaced, BodyPlaced, MessageModeCuts, ServerReadsWhole
<1>7. HeaderPlaced(S)
  <2>1. Here(S) = 0 /\ CutAt(S) = 0
    BY <1>1, <1>2, <1>3 DEF Here, CutAt
  <2>2. RunFrom(S, sent, stm, S[1])
    BY <1>1, <1>2, <1>3, EmptyRun
  <2> QED
    BY <1>1, <1>2, <1>3, <1>5, <2>1, <2>2 DEF HeaderPlaced
<1>8. TypeOK
  <2>1. auxBinBuffer \in B!Buffer /\ auxBinBuffer.cur <= Len(auxBinBuffer.data) /\ limit \in 0 .. Len(auxBinBuffer.data)
    BY <1>1 DEF B!Buffer
  <2>2. msg \in 0 .. MaxMsgs /\ meta \in Int /\ meta <= MaxMeta /\ Len(sent) <= MaxMsgs
    BY <1>1, <1>2 DEF EnvelopMakerAssumption
  <2>3. sent \in Seq(0 .. MaxMeta) /\ delivered \in Seq([msg : 1 .. MaxMsgs, body : Seq(Byte)])
        /\ wire \in Seq(Seq(Byte)) /\ stm \in Seq(Byte)
    BY <1>1
  <2>4. before \in 0 .. Len(sent) /\ Len(stm) = -1 - meta
    BY <1>1, <1>2
  <2> QED
    BY <1>1, <2>1, <2>2, <2>3, <2>4 DEF TypeOK
<1> QED
  BY <1>2, <1>4, <1>5, <1>6, <1>7, <1>8 DEF EnvelopInv, Placed

\* Every step of either end keeps the places: one lemma above per step.
LEMMA NextEnvelopInv ==
    ASSUME EnvelopMakerAssumption, ServerBufferAssumption, EnvelopInv, [Next]_vars
    PROVE  EnvelopInv'
<1>1. TypeOK /\ Coming \in 1 .. Len(sent) + 1
  BY DEF EnvelopInv
<1>S. PICK S : Placed(S)
  BY DEF EnvelopInv
<1>2. ASSUME Next PROVE TypeOK' /\ Coming' \in 1 .. Len(sent') + 1 /\ \E T : Placed(T)'
  <2>0. end' = end
    BY <1>2 DEF Next
  <2>1. ASSUME NEW size \in 0 .. MaxMeta, WriteMessage(size)
        PROVE  TypeOK' /\ Coming' \in 1 .. Len(sent') + 1 /\ \E T : Placed(T)'
    BY <1>1, <1>S, <2>0, <2>1, WriteMessageKeeps
  <2>2. CASE Reconnect
    BY <1>1, <1>S, <2>0, <2>2, ReconnectKeeps
  <2>3. CASE EnvelopReplaced
    BY <1>1, <1>S, <2>0, <2>3, EnvelopReplacedKeeps
  <2>4. CASE ReadCompletes
    <3>1. sent' = sent
      BY <2>4 DEF ReadCompletes
    <3> QED
      BY <1>1, <1>S, <2>0, <2>4, <3>1, ReadCompletesKeeps
  <2>5. CASE HeaderCached
    <3>1. sent' = sent
      BY <2>5 DEF HeaderCached
    <3> QED
      BY <1>1, <1>S, <2>0, <2>5, <3>1, HeaderCachedKeeps
  <2>6. CASE HeaderRead
    <3>1. sent' = sent
      BY <2>6 DEF HeaderRead
    <3> QED
      BY <1>1, <1>S, <2>0, <2>6, <3>1, HeaderReadKeeps
  <2>7. CASE BodyEmpty
    BY <1>1, <1>S, <2>0, <2>7, BodyEmptyKeeps
  <2>8. CASE BodyAwaited
    BY <1>1, <1>S, <2>0, <2>8, BodyAwaitedKeeps
  <2>9. CASE BodyPortion
    BY <1>1, <1>S, <2>0, <2>9, BodyPortionKeeps
  <2> QED
    BY <1>2, <2>1, <2>2, <2>3, <2>4, <2>5, <2>6, <2>7, <2>8, <2>9 DEF Next
<1>3. ASSUME UNCHANGED vars PROVE TypeOK' /\ Coming' \in 1 .. Len(sent') + 1 /\ \E T : Placed(T)'
  <2>1. /\ end' = end /\ sent' = sent /\ delivered' = delivered /\ before' = before /\ wire' = wire
        /\ at' = at /\ auxBinBuffer' = auxBinBuffer /\ limit' = limit
        /\ msg' = msg /\ meta' = meta /\ stm' = stm
    BY <1>3 DEF vars, envelop
  <2>2. Layout(S, sent)' /\ WirePlaced(S)' /\ Here(S)' = Here(S) /\ Coming' = Coming
    BY <1>S, <2>1, PipeKeeps
  <2>3. CutAt(S)' = CutAt(S)
    BY <2>1, <2>2 DEF CutAt
  <2>4. ReadPlaced(S)' /\ HeaderPlaced(S)' /\ BodyPlaced(S)'
    BY <1>S, <2>1, <2>2, <2>3 DEF Placed, ReadPlaced, HeaderPlaced, BodyPlaced, TooShort, RunFrom
  <2>5. MessageModeCuts(S)' /\ ServerReadsWhole(S)'
    BY <1>S, <2>1, <2>2 DEF Placed, MessageModeCuts, ServerReadsWhole, TooShort
  <2>6. TypeOK'
    BY <1>1, <2>1 DEF TypeOK
  <2> QED
    BY <1>1, <2>1, <2>2, <2>4, <2>5, <2>6 DEF Placed
<1>4. TypeOK' /\ Coming' \in 1 .. Len(sent') + 1 /\ \E T : Placed(T)'
  BY <1>2, <1>3
<1> QED
  BY <1>4 DEF EnvelopInv

\* Every byte between the writer and the receiver's buffers is at its place in the
\* stream of what was sent: what the cache, the buffer and the open envelop hold is
\* one contiguous piece of it, and the messages delivered end where the piece starts.
THEOREM EnvelopIsPlaced == Spec => []EnvelopInv
<1>1. Init => EnvelopInv
  BY InitEnvelopInv, EnvelopMakerAssumption
<1>2. EnvelopInv /\ [Next]_vars => EnvelopInv'
  BY NextEnvelopInv, EnvelopMakerAssumption, ServerBufferAssumption
<1> QED
  BY <1>1, <1>2, PTL DEF Spec

\* Every variable keeps its type: the position never passes the end of the bytes of a
\* read, and what is cached of a header is counted in nMetadataSize.
THEOREM TypeCorrect == Spec => []TypeOK
<1>1. EnvelopInv => TypeOK
  BY DEF EnvelopInv
<1> QED
  BY <1>1, EnvelopIsPlaced, PTL

\* MakeEnvelop's BOOST_ASSERT(completionSize > 0) holds in every state where it is
\* evaluated, whatever the pieces the reads bring.
THEOREM CompletionStaysPositive == Spec => []CompletionIsPositive
<1>1. ASSUME EnvelopInv PROVE CompletionIsPositive
  <2>S. PICK S : Placed(S)
    BY <1>1 DEF EnvelopInv
  <2>1. TypeOK /\ Coming \in 1 .. Len(sent) + 1
    BY <1>1 DEF EnvelopInv
  <2>2. Known(S) /\ Starts(S)
    BY <2>S, <2>1, EnvelopMakerAssumption, Numbers
  <2>3. InBody /\ meta # 0 => Len(stm) < meta /\ meta \in Nat /\ Len(stm) \in Nat
    BY <2>S, <2>1, <2>2, BodyStands DEF Known
  <2> QED
    BY <2>3 DEF CompletionIsPositive
<1> QED
  BY <1>1, EnvelopIsPlaced, PTL

\* Between two calls of MakeEnvelop the stream holds the beginning of one message: of its
\* header, or of its metadata when the header has been read.
THEOREM StreamStaysOnePiece == Spec => []StreamIsOnePiece
<1>1. ASSUME EnvelopInv PROVE StreamIsOnePiece
  <2>S. PICK S : Placed(S)
    BY <1>1 DEF EnvelopInv
  <2>c. PICK c : c = Coming
    OBVIOUS
  <2>1. TypeOK /\ c \in 1 .. Len(sent) + 1
    BY <1>1, <2>c DEF EnvelopInv
  <2>2. Known(S) /\ Starts(S)
    BY <2>S, <2>1, <2>c, EnvelopMakerAssumption, Numbers
  <2>3. Len(sent) \in Nat /\ Len(stm) \in Nat /\ H \in Nat
    BY <2>2 DEF Known
  <2>4. ASSUME at = "idle", NEW i \in 1 .. Len(stm)
        PROVE  stm[i] = <<c, IF meta < 0 THEN i ELSE H + i>>
    <3>1. stm # <<>>
      BY <2>4
    <3>2. c \in 1 .. Len(sent)
      <4>1. CASE meta < 0
        BY <2>1, <2>3, <2>S, <2>c, <3>1, <4>1 DEF Placed, HeaderPlaced
      <4>2. CASE ~(meta < 0)
        BY <2>1, <2>3, <2>S, <2>c, <4>2 DEF Placed, BodyPlaced, TypeOK
      <4> QED
        BY <4>1, <4>2
    <3>3. S[c] \in Nat /\ sent[c] \in Nat /\ S[c + 1] = S[c] + H + sent[c]
      BY <2>1, <2>2, <2>3, <3>2 DEF Starts
    <3>4. CASE meta < 0
      <4>1. RunFrom(S, sent, stm, S[c]) /\ Len(stm) <= H + sent[c]
        BY <2>S, <2>c, <3>1, <3>4 DEF Placed, HeaderPlaced
      <4>2. S[c] < S[c] + i /\ S[c] + i <= S[c + 1] /\ S[c] + i - S[c] = i
        BY <2>3, <3>3, <4>1
      <4>3. stm[i] = <<c, S[c] + i - S[c]>>
        BY <3>2, <4>1, <4>2 DEF RunFrom
      <4> QED
        BY <3>4, <4>2, <4>3
    <3>5. CASE ~(meta < 0)
      <4>1. RunFrom(S, sent, stm, S[c] + H) /\ Len(stm) < sent[c]
        <5>1. meta >= 0
          BY <2>1, <3>5 DEF TypeOK
        <5> QED
          BY <2>4, <2>S, <2>c, <5>1 DEF Placed, BodyPlaced
      <4>2. S[c] < (S[c] + H) + i /\ (S[c] + H) + i <= S[c + 1] /\ (S[c] + H) + i - S[c] = H + i
        BY <2>3, <3>3, <4>1, SMTT(30)
      <4>3. stm[i] = <<c, (S[c] + H) + i - S[c]>>
        BY <3>2, <4>1, <4>2 DEF RunFrom
      <4> QED
        BY <3>5, <4>2, <4>3
    <3> QED
      BY <3>4, <3>5
  <2>5. ASSUME at = "idle", NEW i \in 1 .. Len(stm)
        PROVE  stm[i][1] = stm[1][1] /\ stm[i][2] = IF meta < 0 THEN i ELSE H + i
    <3>1. 1 \in 1 .. Len(stm)
      BY <2>3
    <3> QED
      BY <2>4, <2>5, <3>1
  <2> QED
    BY <2>5 DEF StreamIsOnePiece
<1> QED
  BY <1>1, EnvelopIsPlaced, PTL

\* In message mode nothing that was read is kept back until the next message.
THEOREM NothingStaysWithheld == Spec => []NothingWithheld
<1>1. ASSUME EnvelopInv PROVE NothingWithheld
  <2>S. PICK S : Placed(S)
    BY <1>1 DEF EnvelopInv
  <2>c. PICK c : c = Coming
    OBVIOUS
  <2>m. PICK m : m = Len(sent)
    OBVIOUS
  <2>1. TypeOK /\ Coming \in 1 .. Len(sent) + 1 /\ c \in 1 .. m + 1
    BY <1>1, <2>c, <2>m DEF EnvelopInv
  <2>2. Known(S) /\ Starts(S)
    BY <2>S, <2>1, EnvelopMakerAssumption, Numbers
  <2>3. m \in Nat /\ Len(stm) \in Nat /\ H \in Nat /\ H > 0
    BY <2>2, <2>m DEF Known
  <2>4. F!LastDelivered \in Nat /\ before \in Nat
    BY <2>1, LastIsWritten
  <2>5. ASSUME end.mode = "message", at = "idle", wire = <<>> PROVE c = m + 1
    <3>1. CutAt(S) = S[m + 1]
      BY <2>5, <2>m DEF CutAt, Here
    <3>2. S[c] \in Nat /\ S[m + 1] \in Nat
      <4>1. m + 1 \in 1 .. m + 1
        BY <2>3
      <4> QED
        BY <2>1, <2>2, <2>m, <4>1 DEF Starts
    <3>3. S[m + 1] < S[c] + H
      <4>1. CASE meta < 0
        <5>1. stm = <<>> /\ S[m + 1] - Len(stm) = S[c]
          BY <2>5, <2>S, <2>c, <3>1, <4>1 DEF Placed, HeaderPlaced, MessageModeCuts
        <5> QED
          BY <2>3, <3>2, <5>1
      <4>2. CASE ~(meta < 0)
        <5>1. meta >= 0
          BY <2>1, <4>2 DEF TypeOK
        <5>2. c <= m /\ S[m + 1] - Len(stm) = S[c] + H /\ Len(stm) < sent[c]
          BY <2>5, <2>S, <2>c, <2>m, <3>1, <5>1 DEF Placed, BodyPlaced
        <5>3. c \in 1 .. m /\ c + 1 \in 1 .. m + 1 /\ m + 1 \in 1 .. m + 1 /\ c + 1 <= m + 1
          BY <2>1, <2>3, <5>2
        <5>4. S[c + 1] = S[c] + H + sent[c] /\ sent[c] \in Nat
          BY <2>2, <2>m, <5>3 DEF Starts
        <5>5. sent \in Seq(0 .. MaxMeta) /\ Layout(S, sent)
          BY <2>1, <2>S DEF TypeOK, Placed
        <5>6. S[c + 1] <= S[m + 1]
          BY <2>m, <5>3, <5>5, EnvelopMakerAssumption, StartsGrow
        <5>7. S[m + 1] = S[c] + H + Len(stm)
          BY <2>3, <3>2, <5>2
        <5> QED
          BY <2>3, <3>2, <5>2, <5>4, <5>6, <5>7
      <4> QED
        BY <4>1, <4>2
    <3>4. ASSUME c < m + 1 PROVE FALSE
      <4>1. m + 1 \in 1 .. m + 1
        BY <2>3
      <4>2. sent \in Seq(0 .. MaxMeta) /\ Layout(S, sent)
        BY <2>1, <2>S DEF TypeOK, Placed
      <4>3. S[c] + H <= S[m + 1]
        BY <2>1, <2>m, <3>4, <4>1, <4>2, EnvelopMakerAssumption, StartsGrow
      <4> QED
        BY <2>3, <3>2, <3>3, <4>3
    <3> QED
      BY <2>1, <2>3, <3>4
  <2>6. c = m + 1 /\ m > before => F!LastDelivered = m
    BY <2>3, <2>4, <2>c DEF Coming, B!Larger
  <2> QED
    BY <2>5, <2>6, <2>m DEF NothingWithheld
<1> QED
  BY <1>1, EnvelopIsPlaced, PTL

\* The metadata of a message, as it was written.
LEMMA BodyIsWhole ==
    ASSUME EnvelopMakerAssumption, NEW S, Starts(S), Len(sent) \in Nat,
           NEW c \in 1 .. Len(sent), NEW x \in Seq(Byte), Len(x) = sent[c],
           RunFrom(S, sent, x, S[c] + H)
    PROVE  [msg |-> c, body |-> x] = F!Whole(c)
<1>z. PICK z : z = sent[c]
  OBVIOUS
<1>1. z \in Nat /\ S[c] \in Nat /\ S[c + 1] = S[c] + H + z /\ H \in Nat
  BY <1>z DEF Starts, EnvelopMakerAssumption
<1>y. PICK y : y = SubSeq(F!Bytes(c), H + 1, H + z)
  OBVIOUS
<1>2. /\ Len(F!Bytes(c)) = H + z /\ F!Bytes(c) \in Seq({c} \X Nat)
      /\ \A i \in 1 .. H + z : F!Bytes(c)[i] = <<c, i>>
  <2>1. F!Bytes(c) = [i \in 1 .. H + z |-> <<c, i>>]
    BY <1>z DEF F!Bytes
  <2>2. \A i \in 1 .. H + z : <<c, i>> \in {c} \X Nat
    BY <1>1
  <2>n. PICK n : n = H + z
    OBVIOUS
  <2>3. n \in Nat
    BY <1>1, <2>n
  <2>4. F!Bytes(c) = [i \in 1 .. n |-> <<c, i>>] /\ \A i \in 1 .. n : <<c, i>> \in {c} \X Nat
    BY <2>1, <2>2, <2>n
  <2>5. F!Bytes(c) \in Seq({c} \X Nat) /\ Len(F!Bytes(c)) = n
    BY <2>3, <2>4
  <2> QED
    BY <2>4, <2>5, <2>n
<1>3. /\ y \in Seq({c} \X Nat) /\ Len(y) = z
      /\ \A i \in 1 .. z : y[i] = <<c, H + i>>
  <2>1. \A i \in H + 1 .. H + z : F!Bytes(c)[i] \in {c} \X Nat
    BY <1>1, <1>2
  <2>2. /\ y \in Seq({c} \X Nat)
        /\ Len(y) = IF H + 1 <= H + z THEN (H + z) - (H + 1) + 1 ELSE 0
        /\ \A i \in 1 .. (H + z) - (H + 1) + 1 : y[i] = F!Bytes(c)[(H + 1) + i - 1]
    BY <1>1, <1>y, <2>1, SubSeqProperties
  <2>3. (H + z) - (H + 1) + 1 = z
    BY <1>1
  <2>4. Len(y) = z
    BY <1>1, <2>2, <2>3
  <2>5. ASSUME NEW i \in 1 .. z PROVE y[i] = <<c, H + i>>
    <3>1. (H + 1) + i - 1 = H + i /\ H + i \in 1 .. H + z
      BY <1>1
    <3> QED
      BY <1>2, <2>2, <2>3, <3>1
  <2> QED
    BY <2>2, <2>4, <2>5
<1>4. ASSUME NEW i \in 1 .. z PROVE x[i] = <<c, H + i>>
  <2>1. S[c] < (S[c] + H) + i /\ (S[c] + H) + i <= S[c + 1] /\ (S[c] + H) + i - S[c] = H + i
    BY <1>1, SMTT(30)
  <2>2. x[i] = <<c, (S[c] + H) + i - S[c]>>
    BY <1>z, <2>1 DEF RunFrom
  <2> QED
    BY <2>1, <2>2
<1>5. x = y
  <2>1. Len(x) = Len(y) /\ \A i \in 1 .. Len(x) : x[i] = y[i]
    BY <1>z, <1>3, <1>4
  <2> QED
    BY <1>3, <2>1, SeqEqual
<1> QED
  BY <1>y, <1>z, <1>5 DEF F!Whole

\* A step of MakeEnvelop hands over the next message, whole, or nothing.
LEMMA DeliversNext ==
    ASSUME EnvelopMakerAssumption, TypeOK, Coming \in 1 .. Len(sent) + 1, NEW S, Placed(S),
           NEW x \in Seq(Byte), InBody, Len(x) = meta, RunFrom(S, sent, x, S[Coming] + H),
           delivered' = Append(delivered, [msg |-> msg, body |-> x]),
           sent' = sent, before' = before
    PROVE  F!Deliver
<1>1. Known(S) /\ Starts(S)
  BY Numbers
<1>2. Coming \in 1 .. Len(sent) /\ msg = Coming /\ meta = sent[Coming] /\ Len(sent) \in Nat
  BY <1>1, BodyStands DEF Known
<1>3. [msg |-> msg, body |-> x] = F!Whole(Coming)
  BY <1>1, <1>2, BodyIsWhole
<1>4. F!LastDelivered \in Nat /\ before \in Nat
  BY LastIsWritten
<1>5. Coming = 1 + (IF F!LastDelivered > before THEN F!LastDelivered ELSE before)
  BY <1>4 DEF Coming, B!Larger
<1>6. Coming <= Len(sent)
  BY <1>2
<1> QED
  BY <1>3, <1>5, <1>6 DEF F!Deliver

\* The envelop maker implements Framing: whatever pieces the reads bring, in message or in
\* byte mode, and whichever connections come and go, the owner of the pipe is handed the
\* messages whole, in order and once.
THEOREM DeliversWholeMessages == Spec => DeliversWhole
<1>1. ASSUME Init PROVE F!FramingInit
  BY <1>1 DEF Init
<1>2. ASSUME EnvelopInv, [Next]_vars PROVE [F!FramingNext]_<<sent, delivered, before>>
  <2>1. TypeOK /\ Coming \in 1 .. Len(sent) + 1
    BY <1>2 DEF EnvelopInv
  <2>S. PICK S : Placed(S)
    BY <1>2 DEF EnvelopInv
  <2>2. Known(S) /\ Starts(S)
    BY <2>1, <2>S, EnvelopMakerAssumption, Numbers
  <2>3. ASSUME NEW size \in 0 .. MaxMeta, WriteMessage(size) PROVE F!FramingNext
    BY <2>3 DEF WriteMessage, F!FramingNext
  <2>4. CASE Reconnect \/ EnvelopReplaced
    BY <2>4 DEF Reconnect, EnvelopReplaced, F!FramingNext
  <2>5. CASE ReadCompletes \/ HeaderCached \/ HeaderRead \/ BodyAwaited
    BY <2>5 DEF ReadCompletes, HeaderCached, HeaderRead, BodyAwaited
  <2>6. CASE BodyEmpty
    <3>1. /\ InBody /\ meta = 0 /\ delivered' = Append(delivered, [msg |-> msg, body |-> stm])
          /\ sent' = sent /\ before' = before
      BY <2>6 DEF BodyEmpty
    <3>2. stm = <<>> /\ RunFrom(S, sent, stm, S[Coming] + H)
      BY <2>1, <2>S, <2>2, <3>1, BodyStands
    <3>3. stm \in Seq(Byte) /\ Len(stm) = meta
      BY <3>1, <3>2
    <3> QED
      BY <2>1, <2>S, <3>1, <3>2, <3>3, EnvelopMakerAssumption, DeliversNext DEF F!FramingNext
  <2>7. CASE BodyPortion
    <3>x. PICK x : x = stm \o SubSeq(Rest, 1, PortionSize)
      OBVIOUS
    <3>1. /\ InBody /\ meta # 0 /\ ~B!eof(auxBinBuffer) /\ sent' = sent /\ before' = before
          /\ IF Len(x) = meta THEN delivered' = Append(delivered, [msg |-> msg, body |-> x])
             ELSE delivered' = delivered
      BY <2>7, <3>x DEF BodyPortion
    <3>2. x \in Seq(Byte) /\ RunFrom(S, sent, x, S[Coming] + H)
      BY <2>1, <2>S, <3>1, <3>x, EnvelopMakerAssumption, PortionStands
    <3>3. CASE Len(x) = meta
      BY <2>1, <2>S, <3>1, <3>2, <3>3, EnvelopMakerAssumption, DeliversNext DEF F!FramingNext
    <3>4. CASE Len(x) # meta
      BY <3>1, <3>4
    <3> QED
      BY <3>3, <3>4
  <2>8. CASE UNCHANGED vars
    BY <2>8 DEF vars
  <2> QED
    BY <1>2, <2>3, <2>4, <2>5, <2>6, <2>7, <2>8 DEF Next
<1> QED
  BY <1>1, <1>2, EnvelopIsPlaced, PTL DEF Spec, DeliversWhole, F!FramingSpec

=============================================================================
