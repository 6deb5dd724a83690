------------------------- MODULE ImageTransferProofs -------------------------
(***************************************************************************)
(* Theorems about ImageTransfer, for every size of packets, number and     *)
(* sizes of images and length of the pipe, whatever is lost: gotImage is   *)
(* emitted with the server's images, and the client writes inside of its   *)
(* vector, but for the images whose own CMD_TOTALSIZE was lost, the one    *)
(* message that resets the client's progress.                              *)
(***************************************************************************)
EXTENDS ImageTransfer, SequenceTheorems, TLAPS

-----------------------------------------------------------------------------
(* Where the transfer is.  g[i] and k[i] are the image and the number of the *)
(* i-th message on the wire, m and h those of the last message handled.      *)

AnyMessage == [kind : Kinds, value : Nat \cup Seq(Place)]

Before(a, b, c, d) == a < c \/ (a = c /\ b < d)

\* TOTALSIZE of image n was handled, or is one of the first l messages on the wire.
Announced(g, k, m, h, n, l) == (m = n /\ h >= 2) \/ \E j \in 1 .. l : g[j] = n /\ k[j] = 2

OnWire(g, k) ==
    \A i \in 1 .. Len(wire) :
        /\ g[i] \in 1 .. Current /\ k[i] \in 1 .. Messages(sizes[g[i]])
        /\ wire[i] = Message(g[i], k[i])

InOrder(g, k, m, h) ==
    /\ \A i \in 1 .. Len(wire), j \in 1 .. Len(wire) : i < j => Before(g[i], k[i], g[j], k[j])
    /\ \A i \in 1 .. Len(wire) : Before(m, h, g[i], k[i])
    /\ \A i \in 1 .. Len(wire) : ~Before(Current, next, g[i], k[i])

AnnouncedFirst(g, k, m, h) ==
    /\ \A i \in 1 .. Len(wire) :
          k[i] > 2 => g[i] \in unsized \/ Announced(g, k, m, h, g[i], i - 1)
    /\ up /\ ~AllSent /\ next >= 2 =>
          Current \in unsized \/ Announced(g, k, m, h, Current, Len(wire))

Handled(m, h) ==
    /\ m \in 0 .. Current /\ h \in Nat /\ ~Before(Current, next, m, h)
    /\ m = 0 => h = 0
    /\ m > 0 => h <= Messages(sizes[m])
    /\ Current > 0 => next <= Messages(sizes[Current])

Tagged(g, k, m, h) ==
    OnWire(g, k) /\ InOrder(g, k, m, h) /\ AnnouncedFirst(g, k, m, h) /\ Handled(m, h)

\* Units of an image of size z in its first p packets.
Prefix(z, p) == IF p <= Full(z) THEN p * Unit ELSE z

\* After p packets of image n were sent: the client has them all in their places, or it
\* missed one, and has too little to show.
Collected(n, p) ==
    /\ tempCount <= p
    /\ \/ /\ tempCount = p /\ tempTotal = Prefix(sizes[n], p)
          /\ \A i \in 1 .. tempTotal : image[i] = <<n, i>>
       \/ tempTotal < Prefix(sizes[n], p)

\* Packets of an image among its first h messages.
Passed(h) == (h - 2) \div 2

\* What the client has of an image it was told the size of.
Assembled(m, h) ==
    /\ Len(image) = total /\ overrun \in {0} \cup unsized
    /\ m > 0 /\ h >= 2 /\ m \notin unsized =>
          \/ h = Messages(sizes[m])
          \/ total = sizes[m] /\ Collected(m, Passed(h))

\* Which image each picture shown is.  One that was shown leaves total = 0, which no
\* packet after it can complete.
ShownBefore(f, m, h) ==
    /\ f \in [1 .. Len(shown) -> 1 .. Current]
    /\ \A i \in 1 .. Len(shown) : shown[i] = Picture(f[i]) \/ f[i] \in unsized
    /\ \A i \in 1 .. Len(shown) - 1 : f[i] < f[i + 1]
    /\ \A i \in 1 .. Len(shown) : f[i] <= m /\ (f[i] = m => total = 0 /\ h > 2)

ClientTyped ==
    /\ {total, count, curr, tempTotal, tempCount} \subseteq Nat
    /\ image \in Seq(Place) /\ overrun \in Nat /\ shown \in Seq(Seq(Place))

TransferInv ==
    /\ TypeOK /\ wire \in Seq(AnyMessage)
    /\ \E g, k, m, h, f : Tagged(g, k, m, h) /\ Assembled(m, h) /\ ShownBefore(f, m, h)

-----------------------------------------------------------------------------
(* Packets of an image *)

\* Lines 122-125 of translate: the full packets and the last one are the whole image.
LEMMA PacketCounts ==
    ASSUME ImageTransferAssumption, NEW z \in Nat
    PROVE  /\ Unit \in Nat /\ Unit > 0
           /\ Full(z) \in Nat /\ Last(z) \in Nat /\ Last(z) < Unit
           /\ z = Full(z) * Unit + Last(z)
           /\ Packets(z) \in Nat /\ Messages(z) \in Nat /\ Messages(z) = 2 + 2 * Packets(z)
           /\ Last(z) = 0 => Packets(z) = Full(z)
           /\ Last(z) > 0 => Packets(z) = Full(z) + 1
<1>1. Unit \in Nat /\ Unit > 0
  BY DEF ImageTransferAssumption
<1>2. /\ z = Unit * (z \div Unit) + (z % Unit)
      /\ z \div Unit \in Nat /\ z % Unit \in 0 .. Unit - 1
  BY <1>1
<1>3. /\ Full(z) \in Nat /\ Last(z) \in Nat /\ Last(z) < Unit /\ z = Unit * Full(z) + Last(z)
  BY <1>1, <1>2 DEF Full, Last
<1>4. Unit * Full(z) = Full(z) * Unit
  BY <1>1, <1>3
<1>5. /\ Last(z) = 0 => Packets(z) = Full(z) + 0
      /\ Last(z) > 0 => Packets(z) = Full(z) + 1
  BY <1>3 DEF Packets
<1>6. Packets(z) \in Nat /\ (Last(z) = 0 => Packets(z) = Full(z))
  BY <1>3, <1>5
<1>7. Messages(z) = 2 + 2 * Packets(z) /\ Messages(z) \in Nat
  BY <1>6 DEF Messages
<1> QED
  BY <1>1, <1>3, <1>4, <1>5, <1>6, <1>7

\* Where a packet starts and ends in its image.
LEMMA PrefixSteps ==
    ASSUME ImageTransferAssumption, NEW z \in Nat, NEW p \in 1 .. Packets(z)
    PROVE  /\ PacketSize(z, p) \in Nat /\ PacketSize(z, p) > 0
           /\ (p - 1) * Unit \in Nat /\ Prefix(z, p - 1) = (p - 1) * Unit
           /\ Prefix(z, p) = (p - 1) * Unit + PacketSize(z, p)
           /\ Prefix(z, p) <= z
           /\ Prefix(z, p) = z <=> p = Packets(z)
<1>F. PICK F : F = Full(z)
  OBVIOUS
<1>L. PICK L : L = Last(z)
  OBVIOUS
<1>1. /\ Unit \in Nat /\ Unit > 0 /\ F \in Nat /\ L \in Nat /\ L < Unit /\ z = F * Unit + L
      /\ Packets(z) \in Nat
      /\ L = 0 => Packets(z) = F
      /\ L > 0 => Packets(z) = F + 1
  BY <1>F, <1>L, PacketCounts
<1>2. p \in Nat /\ p - 1 \in Nat /\ p - 1 <= F
  BY <1>1
<1>3. (p - 1) * Unit \in Nat /\ Prefix(z, p - 1) = (p - 1) * Unit
  BY <1>1, <1>2, <1>F DEF Prefix
<1>4. CASE p <= F
  <2>1. PacketSize(z, p) = Unit /\ Prefix(z, p) = p * Unit
    BY <1>4, <1>F DEF PacketSize, Prefix
  <2>2. p * Unit = (p - 1) * Unit + Unit
    BY <1>1, <1>2
  <2>3. p * Unit <= F * Unit /\ F * Unit \in Nat /\ p * Unit \in Nat
    BY <1>1, <1>2, <1>4
  <2>4. p < F => p * Unit < F * Unit
    <3>1. ASSUME p < F PROVE p * Unit + Unit <= F * Unit
      <4>1. p + 1 <= F /\ p + 1 \in Nat
        BY <1>1, <1>2, <3>1
      <4>2. (p + 1) * Unit <= F * Unit
        BY <1>1, <4>1
      <4>3. (p + 1) * Unit = p * Unit + Unit
        BY <1>1, <1>2
      <4> QED
        BY <4>2, <4>3
    <3> QED
      BY <1>1, <2>3, <3>1
  <2>5. p * Unit = z <=> p = Packets(z)
    <3>1. CASE L = 0
      BY <1>1, <1>2, <1>4, <2>3, <2>4, <3>1
    <3>2. CASE L > 0
      BY <1>1, <1>2, <1>4, <2>3, <3>2
    <3> QED
      BY <1>1, <3>1, <3>2
  <2>6. p * Unit <= z
    BY <1>1, <2>3
  <2> QED
    BY <1>1, <1>3, <2>1, <2>2, <2>5, <2>6
<1>5. CASE ~(p <= F)
  <2>1. p = F + 1 /\ L > 0 /\ p = Packets(z) /\ p - 1 = F
    BY <1>1, <1>2, <1>5
  <2>2. PacketSize(z, p) = L /\ Prefix(z, p) = z
    BY <1>5, <1>F, <1>L DEF PacketSize, Prefix
  <2> QED
    BY <1>1, <1>3, <2>1, <2>2
<1> QED
  BY <1>4, <1>5

\* More packets are more bytes.
LEMMA PrefixGrows ==
    ASSUME ImageTransferAssumption, NEW z \in Nat, NEW b \in 1 .. Packets(z),
           NEW a \in Nat, a < b
    PROVE  Prefix(z, a) \in Nat /\ Prefix(z, b) \in Nat /\ Prefix(z, a) < Prefix(z, b)
<1>1. /\ PacketSize(z, b) \in Nat /\ PacketSize(z, b) > 0 /\ (b - 1) * Unit \in Nat
      /\ Prefix(z, b) = (b - 1) * Unit + PacketSize(z, b)
  BY PrefixSteps
<1>2. Unit \in Nat /\ Full(z) \in Nat /\ Packets(z) \in Nat /\ Packets(z) <= Full(z) + 1
  <2>1. /\ Unit \in Nat /\ Full(z) \in Nat /\ Packets(z) \in Nat /\ Last(z) \in Nat
        /\ Last(z) = 0 => Packets(z) = Full(z)
        /\ Last(z) > 0 => Packets(z) = Full(z) + 1
    BY PacketCounts
  <2> QED
    BY <2>1
<1>3. b - 1 \in Nat /\ a <= b - 1 /\ b - 1 <= Full(z) /\ a <= Full(z)
  BY <1>2
<1>4. Prefix(z, a) = a * Unit /\ a * Unit \in Nat
  BY <1>2, <1>3 DEF Prefix
<1>5. a * Unit <= (b - 1) * Unit
  BY <1>2, <1>3
<1> QED
  BY <1>1, <1>4, <1>5

-----------------------------------------------------------------------------
(* The messages of an image *)

\* The packet that message k of an image is of.
PacketOf(k) == (k - 1) \div 2

\* What the k-th message of an image is.
LEMMA MessageKinds ==
    ASSUME ImageTransferAssumption, NEW n, sizes[n] \in 0 .. MaxSize,
           NEW k \in 1 .. Messages(sizes[n])
    PROVE  /\ Message(n, k).kind \in Kinds
           /\ Message(n, k).kind = "TOTALPACKNUM" => k = 1 /\ Message(n, k).value \in Nat
           /\ Message(n, k).kind = "TOTALSIZE" <=> k = 2
           /\ k = 2 => Message(n, k).value = sizes[n]
           /\ Message(n, k).kind = "PACKSIZE" =>
                 /\ k > 2 /\ Message(n, k).value \in Nat
                 /\ Passed(k) + 1 = PacketOf(k) /\ PacketOf(k) \in 1 .. Packets(sizes[n])
           /\ Message(n, k).kind = "IMGDATA" =>
                 /\ k > 2 /\ k = 2 + 2 * PacketOf(k)
                 /\ Passed(k) = PacketOf(k) /\ PacketOf(k) \in 1 .. Packets(sizes[n])
                 /\ Message(n, k).value = SubSeq(Picture(n), (PacketOf(k) - 1) * Unit + 1,
                                               (PacketOf(k) - 1) * Unit + PacketSize(sizes[n], PacketOf(k)))
<1>z. PICK z : z = sizes[n]
  OBVIOUS
<1>p. PICK p : p = PacketOf(k)
  OBVIOUS
<1>1. z \in Nat /\ Packets(z) \in Nat /\ Messages(z) = 2 + 2 * Packets(z)
  <2>1. z \in Nat
    BY <1>z DEF ImageTransferAssumption
  <2> QED
    BY <2>1, PacketCounts
<1>2. k \in Nat /\ k >= 1 /\ k <= 2 + 2 * Packets(z)
  BY <1>1, <1>z
<1>3. CASE k = 1
  <2>1. Message(n, k) = [kind |-> "TOTALPACKNUM", value |-> Packets(z)]
    BY <1>3, <1>z DEF Message
  <2> QED
    BY <1>1, <1>3, <2>1 DEF Kinds
<1>4. CASE k = 2
  <2>1. Message(n, k) = [kind |-> "TOTALSIZE", value |-> z]
    BY <1>4, <1>z DEF Message
  <2> QED
    BY <1>1, <1>4, <1>z, <2>1 DEF Kinds
<1>5. CASE k > 2
  <2>1. /\ (k - 1) = 2 * p + ((k - 1) % 2) /\ p \in Nat /\ (k - 1) % 2 \in 0 .. 1
    BY <1>2, <1>p DEF PacketOf
  <2>2. /\ k = 2 * (k \div 2) + (k % 2) /\ k \div 2 \in Nat /\ k % 2 \in 0 .. 1
    BY <1>2
  <2>3. /\ (k - 2) = 2 * Passed(k) + ((k - 2) % 2) /\ Passed(k) \in Nat /\ (k - 2) % 2 \in 0 .. 1
    BY <1>2, <1>5 DEF Passed
  <2>4. CASE k % 2 = 1
    <3>1. Message(n, k) = [kind |-> "PACKSIZE", value |-> PacketSize(z, p)]
      BY <1>2, <1>5, <1>z, <1>p, <2>4 DEF Message, PacketOf
    <3>2. k = 2 * p + 1 /\ Passed(k) + 1 = p
      BY <1>2, <2>1, <2>2, <2>3, <2>4
    <3>3. p \in 1 .. Packets(z)
      BY <1>1, <1>2, <1>5, <2>1, <3>2
    <3>4. PacketSize(z, p) \in Nat
      BY <1>1, <3>3, PrefixSteps
    <3> QED
      BY <1>5, <1>p, <1>z, <3>1, <3>2, <3>3, <3>4 DEF Kinds
  <2>5. CASE k % 2 # 1
    <3>v. PICK v : v = SubSeq(Picture(n), (p - 1) * Unit + 1, (p - 1) * Unit + PacketSize(z, p))
      OBVIOUS
    <3>1. Message(n, k) = [kind |-> "IMGDATA", value |-> v]
      BY <1>2, <1>5, <1>z, <1>p, <2>5, <3>v DEF Message, PacketOf
    <3>2. k = 2 * p + 2 /\ Passed(k) = p
      BY <1>2, <2>1, <2>2, <2>3, <2>5
    <3>3. p \in 1 .. Packets(z) /\ k = 2 + 2 * p
      BY <1>1, <1>2, <1>5, <2>1, <3>2
    <3>a. PICK w : w = Message(n, k)
      OBVIOUS
    <3>b. w = [kind |-> "IMGDATA", value |-> v]
      BY <3>1, <3>a
    <3>c. w.kind = "IMGDATA" /\ w.value = v
      BY <3>b
    <3>4. /\ Message(n, k).kind = "IMGDATA"
          /\ Message(n, k).value = SubSeq(Picture(n), (p - 1) * Unit + 1, (p - 1) * Unit + PacketSize(z, p))
      BY <3>a, <3>c, <3>v
    <3>5. /\ Message(n, k).value = SubSeq(Picture(n), (PacketOf(k) - 1) * Unit + 1,
                                         (PacketOf(k) - 1) * Unit + PacketSize(sizes[n], PacketOf(k)))
          /\ k = 2 + 2 * PacketOf(k) /\ Passed(k) = PacketOf(k) /\ PacketOf(k) \in 1 .. Packets(sizes[n])
      BY <1>p, <1>z, <3>2, <3>3, <3>4
    <3>6. /\ Message(n, k).kind = "IMGDATA" /\ k # 1 /\ k # 2 /\ k > 2
          /\ Message(n, k).kind \in Kinds
      BY <1>2, <1>5, <3>4 DEF Kinds
    <3> QED
      BY <3>5, <3>6
  <2> QED
    BY <2>4, <2>5
<1> QED
  BY <1>2, <1>3, <1>4, <1>5

\* The piece of an image in a packet.
LEMMA Pieces ==
    ASSUME ImageTransferAssumption, NEW n \in 1 .. MaxImages, sizes[n] \in 0 .. MaxSize,
           NEW p \in 1 .. Packets(sizes[n])
    PROVE  LET from == (p - 1) * Unit
               piece == SubSeq(Picture(n), from + 1, from + PacketSize(sizes[n], p))
           IN /\ Picture(n) \in Seq(Place) /\ Len(Picture(n)) = sizes[n]
              /\ \A i \in 1 .. sizes[n] : Picture(n)[i] = <<n, i>>
              /\ piece \in Seq(Place) /\ Len(piece) = PacketSize(sizes[n], p)
              /\ \A i \in 1 .. Len(piece) : piece[i] = <<n, from + i>>
<1>z. PICK z : z = sizes[n]
  OBVIOUS
<1>s. PICK s : s = PacketSize(z, p)
  OBVIOUS
<1>d. PICK d : d = (p - 1) * Unit
  OBVIOUS
<1>e. PICK e : e = d + s
  OBVIOUS
<1>q. PICK q : q = Picture(n)
  OBVIOUS
<1>r. PICK r : r = SubSeq(q, d + 1, e)
  OBVIOUS
<1>1. z \in Nat /\ z <= MaxSize /\ MaxSize \in Nat
  BY <1>z DEF ImageTransferAssumption
<1>2. s \in Nat /\ s > 0 /\ d \in Nat /\ e <= z
  BY <1>1, <1>z, <1>s, <1>d, <1>e, PrefixSteps
<1>3. q = [i \in 1 .. z |-> <<n, i>>]
  BY <1>q, <1>z DEF Picture
<1>4. \A i \in 1 .. z : <<n, i>> \in Place
  BY <1>1 DEF Place
<1>5. q \in Seq(Place) /\ Len(q) = z /\ \A i \in 1 .. z : q[i] = <<n, i>>
  BY <1>1, <1>3, <1>4
<1>6. d + 1 \in Int /\ e \in Int /\ e = d + s
  BY <1>2, <1>e
<1>7. \A i \in d + 1 .. e : i \in 1 .. z
  BY <1>1, <1>2, <1>6
<1>8. \A i \in d + 1 .. e : q[i] \in Place
  BY <1>4, <1>5, <1>7
<1>9. /\ r \in Seq(Place)
      /\ Len(r) = IF d + 1 <= e THEN e - (d + 1) + 1 ELSE 0
      /\ \A i \in 1 .. e - (d + 1) + 1 : r[i] = q[d + 1 + i - 1]
  BY <1>6, <1>8, <1>r, SubSeqProperties, SMTT(30)
<1>10. d + 1 <= e /\ e - (d + 1) + 1 = s
  BY <1>2, <1>6
<1>11. Len(r) = s
  BY <1>9, <1>10
<1>12. ASSUME NEW i \in 1 .. s PROVE r[i] = <<n, d + i>>
  <2>1. d + 1 + i - 1 = d + i /\ d + i \in d + 1 .. e
    BY <1>2, <1>6
  <2>2. r[i] = q[d + i]
    BY <1>9, <1>10, <2>1
  <2> QED
    BY <1>5, <1>7, <2>1, <2>2
<1> QED
  BY <1>5, <1>9, <1>11, <1>12, <1>z, <1>s, <1>d, <1>e, <1>q, <1>r


-----------------------------------------------------------------------------
(* What the types of the state say *)

\* The images sent so far have sizes, and each at least two messages.
LEMMA Sizes ==
    ASSUME ImageTransferAssumption, TypeOK
    PROVE  /\ Current \in Nat /\ Current <= MaxImages /\ MaxImages \in Nat
           /\ \A n \in 1 .. Current :
                 /\ n \in 1 .. MaxImages /\ sizes[n] \in 0 .. MaxSize /\ sizes[n] \in Nat
                 /\ Messages(sizes[n]) \in Nat /\ Messages(sizes[n]) >= 2
           /\ next \in Nat /\ up \in BOOLEAN
<1>1. /\ sizes \in Seq(0 .. MaxSize) /\ Len(sizes) <= MaxImages
      /\ MaxImages \in Nat /\ MaxSize \in Nat
  BY DEF TypeOK, ImageTransferAssumption
<1>2. Current \in Nat /\ Current <= MaxImages
  BY <1>1 DEF Current
<1>3. ASSUME NEW n \in 1 .. Current
      PROVE  /\ n \in 1 .. MaxImages /\ sizes[n] \in 0 .. MaxSize /\ sizes[n] \in Nat
             /\ Messages(sizes[n]) \in Nat /\ Messages(sizes[n]) >= 2
  <2>1. n \in 1 .. MaxImages /\ sizes[n] \in 0 .. MaxSize /\ sizes[n] \in Nat
    BY <1>1, <1>2, <1>3 DEF Current
  <2>2. /\ Messages(sizes[n]) \in Nat /\ Packets(sizes[n]) \in Nat
        /\ Messages(sizes[n]) = 2 + 2 * Packets(sizes[n])
    BY <2>1, PacketCounts
  <2> QED
    BY <2>1, <2>2
<1>4. next \in Nat /\ up \in BOOLEAN
  BY DEF TypeOK
<1> QED
  BY <1>1, <1>2, <1>3, <1>4

\* What the server sends is a message.
LEMMA MessagesAreTyped ==
    ASSUME ImageTransferAssumption, TypeOK, NEW n \in 1 .. Current,
           NEW k \in 1 .. Messages(sizes[n])
    PROVE  Message(n, k) \in AnyMessage
<1>1. /\ n \in 1 .. MaxImages /\ sizes[n] \in 0 .. MaxSize /\ sizes[n] \in Nat
      /\ Messages(sizes[n]) \in Nat
  BY Sizes
<1>2. /\ Packets(sizes[n]) \in Nat /\ Messages(sizes[n]) = 2 + 2 * Packets(sizes[n])
  BY <1>1, PacketCounts
<1>z. PICK z : z = sizes[n]
  OBVIOUS
<1>p. PICK p : p = (k - 1) \div 2
  OBVIOUS
<1>d. PICK d : d = (p - 1) * Unit
  OBVIOUS
<1>v. PICK v : v = SubSeq(Picture(n), d + 1, d + PacketSize(z, p))
  OBVIOUS
<1>3. k \in Nat /\ k >= 1 /\ z \in Nat /\ Packets(z) \in Nat /\ k <= 2 + 2 * Packets(z)
  BY <1>1, <1>2, <1>z
<1>4. /\ (k - 1) = 2 * p + ((k - 1) % 2) /\ p \in Nat /\ (k - 1) % 2 \in 0 .. 1
  BY <1>3, <1>p
<1>5. CASE k = 1
  <2>1. Message(n, k) = [kind |-> "TOTALPACKNUM", value |-> Packets(z)]
    BY <1>5, <1>z DEF Message
  <2> QED
    BY <1>3, <2>1 DEF AnyMessage, Kinds
<1>6. CASE k = 2
  <2>1. Message(n, k) = [kind |-> "TOTALSIZE", value |-> z]
    BY <1>6, <1>z DEF Message
  <2> QED
    BY <1>3, <2>1 DEF AnyMessage, Kinds
<1>7. CASE k > 2
  <2>1. p \in 1 .. Packets(z)
    BY <1>3, <1>4, <1>7
  <2>2. CASE k % 2 = 1
    <3>1. Message(n, k) = [kind |-> "PACKSIZE", value |-> PacketSize(z, p)]
      BY <1>3, <1>7, <1>z, <1>p, <2>2 DEF Message
    <3>2. PacketSize(z, p) \in Nat
      BY <1>3, <2>1, PrefixSteps
    <3> QED
      BY <3>1, <3>2 DEF AnyMessage, Kinds
  <2>3. CASE k % 2 # 1
    <3>1. Message(n, k) = [kind |-> "IMGDATA", value |-> v]
      BY <1>3, <1>7, <1>z, <1>p, <1>d, <1>v, <2>3 DEF Message
    <3>2. v \in Seq(Place)
      BY <1>1, <1>z, <1>d, <1>v, <2>1, Pieces
    <3>3. v \in Nat \cup Seq(Place) /\ "IMGDATA" \in Kinds
      BY <3>2 DEF Kinds
    <3> QED
      BY <3>1, <3>3 DEF AnyMessage
  <2> QED
    BY <2>2, <2>3
<1> QED
  BY <1>3, <1>5, <1>6, <1>7

\* A message of an image stays the same as long as the image does.
LEMMA MessageKept ==
    ASSUME NEW n, NEW k, sizes'[n] = sizes[n]
    PROVE  Message(n, k)' = Message(n, k) /\ Picture(n)' = Picture(n)
BY DEF Message, Picture

-----------------------------------------------------------------------------
(* Steps of the server: what the client has stays as it was *)

\* What the client has handled stays handled while the server goes on.
LEMMA ClientKept ==
    ASSUME ImageTransferAssumption, TypeOK, NEW m, NEW h, NEW f,
           Handled(m, h), Assembled(m, h), ShownBefore(f, m, h),
           Current' \in Nat, Current <= Current',
           \A n \in 1 .. Current : sizes'[n] = sizes[n],
           unsized \subseteq unsized', UNCHANGED client
    PROVE  Assembled(m, h)' /\ ShownBefore(f, m, h)'
<1>1. /\ Current \in Nat /\ m \in 0 .. Current
      /\ m > 0 => sizes'[m] = sizes[m]
  BY Sizes DEF Handled
<1>2. /\ total' = total /\ tempTotal' = tempTotal /\ tempCount' = tempCount
      /\ image' = image /\ overrun' = overrun /\ shown' = shown
  BY DEF client
<1>3. Assembled(m, h)'
  <2>1. Len(image') = total' /\ overrun' \in {0} \cup unsized'
    BY <1>2 DEF Assembled
  <2>2. ASSUME m > 0, h >= 2, m \notin unsized'
        PROVE  \/ h = Messages(sizes'[m])
               \/ total' = sizes'[m] /\ Collected(m, Passed(h))'
    BY <1>1, <1>2, <2>2 DEF Assembled, Collected
  <2> QED
    BY <2>1, <2>2 DEF Assembled
<1>4. ShownBefore(f, m, h)'
  <2>1. f \in [1 .. Len(shown) -> 1 .. Current]
    BY DEF ShownBefore
  <2>2. ASSUME NEW i \in 1 .. Len(shown)
        PROVE  /\ f[i] \in 1 .. Current /\ f[i] \in 1 .. Current' /\ sizes'[f[i]] = sizes[f[i]]
               /\ shown[i] = Picture(f[i])' \/ f[i] \in unsized'
               /\ f[i] <= m /\ (f[i] = m => total = 0 /\ h > 2)
    <3>1. f[i] \in 1 .. Current
      BY <2>1, <2>2
    <3>2. f[i] \in 1 .. Current' /\ sizes'[f[i]] = sizes[f[i]]
      BY <1>1, <3>1
    <3>3. Picture(f[i])' = Picture(f[i])
      BY <3>2, MessageKept
    <3>4. /\ shown[i] = Picture(f[i]) \/ f[i] \in unsized
          /\ f[i] <= m /\ (f[i] = m => total = 0 /\ h > 2)
      BY <2>2 DEF ShownBefore
    <3> QED
      BY <3>1, <3>2, <3>3, <3>4
  <2>3. f \in [1 .. Len(shown) -> 1 .. Current']
    BY <2>1, <2>2
  <2>4. \A i \in 1 .. Len(shown) - 1 : f[i] < f[i + 1]
    BY DEF ShownBefore
  <2> QED
    BY <1>2, <2>2, <2>3, <2>4 DEF ShownBefore
<1> QED
  BY <1>3, <1>4

\* The messages that stay on the wire are those they were.
LEMMA WireKept ==
    ASSUME ImageTransferAssumption, TypeOK, NEW g, NEW k, OnWire(g, k),
           Current' \in Nat, Current <= Current',
           \A n \in 1 .. Current : sizes'[n] = sizes[n],
           NEW i \in 1 .. Len(wire)
    PROVE  /\ g[i] \in 1 .. Current' /\ k[i] \in 1 .. Messages(sizes'[g[i]])
           /\ wire[i] = Message(g[i], k[i])'
<1>1. /\ g[i] \in 1 .. Current /\ k[i] \in 1 .. Messages(sizes[g[i]])
      /\ wire[i] = Message(g[i], k[i])
  BY DEF OnWire
<1>2. sizes'[g[i]] = sizes[g[i]] /\ g[i] \in 1 .. Current'
  BY <1>1, Sizes
<1>3. Message(g[i], k[i])' = Message(g[i], k[i])
  BY <1>2, MessageKept
<1> QED
  BY <1>1, <1>2, <1>3

-----------------------------------------------------------------------------
(* The initial state and the steps of the server *)

\* At first nothing is on the wire, and nothing was shown.
LEMMA InitTransferInv ==
    ASSUME ImageTransferAssumption, Init
    PROVE  TransferInv
<1>1. TypeOK
  <2>1. MaxImages \in Nat /\ MaxWire \in Nat
    BY DEF ImageTransferAssumption
  <2>2. sizes \in Seq(0 .. MaxSize) /\ Len(sizes) = 0 /\ image \in Seq(Place)
    BY DEF Init
  <2>3. shown \in Seq(Seq(Place)) /\ Len(wire) = 0 /\ broken = {} /\ unsized = {}
    BY DEF Init
  <2>4. next \in Nat /\ up \in BOOLEAN /\ overrun \in Nat
    BY DEF Init
  <2>5. {total, count, curr, tempTotal, tempCount} \subseteq Nat
    BY DEF Init
  <2> QED
    BY <2>1, <2>2, <2>3, <2>4, <2>5 DEF TypeOK
<1>2. wire = <<>> /\ wire \in Seq(AnyMessage) /\ Len(wire) = 0
  BY DEF Init
<1>3. Current = 0 /\ next = 0 /\ ~up
  BY DEF Init, Current
<1>n. PICK n : n = 0
  OBVIOUS
<1>f. PICK f : f = [i \in 1 .. 0 |-> 0]
  OBVIOUS
<1>4. OnWire(n, n) /\ InOrder(n, n, n, n) /\ AnnouncedFirst(n, n, n, n)
  BY <1>2, <1>3, <1>n DEF OnWire, InOrder, AnnouncedFirst, Before
<1>5. Handled(n, n)
  BY <1>3, <1>n DEF Handled, Before
<1>6. Assembled(n, n)
  BY <1>n DEF Init, Assembled
<1>7. ShownBefore(f, n, n)
  <2>1. shown = <<>> /\ Len(shown) = 0
    BY DEF Init
  <2>2. f \in [1 .. 0 -> 1 .. 0]
    BY <1>f
  <2> QED
    BY <1>3, <2>1, <2>2 DEF ShownBefore
<1> QED
  BY <1>1, <1>2, <1>4, <1>5, <1>6, <1>7 DEF TransferInv, Tagged

\* A new image: its messages come after all that are on the wire.
LEMMA NextImageKeeps ==
    ASSUME ImageTransferAssumption, TransferInv, NextImage
    PROVE  TransferInv'
<1>1. TypeOK /\ wire \in Seq(AnyMessage)
  BY DEF TransferInv
<1>2. PICK g, k, m, h, f : Tagged(g, k, m, h) /\ Assembled(m, h) /\ ShownBefore(f, m, h)
  BY DEF TransferInv
<1>3. PICK size \in 0 .. MaxSize : sizes' = Append(sizes, size)
  BY DEF NextImage
<1>4. /\ Len(sizes) < MaxImages /\ next' = 0 /\ up' = up /\ wire' = wire
      /\ broken' = broken /\ unsized' = unsized /\ UNCHANGED client
  BY DEF NextImage, history
<1>5. /\ sizes \in Seq(0 .. MaxSize) /\ Current = Len(sizes) /\ Current \in Nat
      /\ MaxSize \in Nat /\ MaxImages \in Nat
  BY <1>1, Sizes DEF TypeOK, Current, ImageTransferAssumption
<1>6. /\ sizes' \in Seq(0 .. MaxSize) /\ Len(sizes') = Current + 1
      /\ \A n \in 1 .. Current : sizes'[n] = sizes[n]
      /\ sizes'[Current + 1] = size
  BY <1>3, <1>5
<1>7. Current' = Current + 1
  BY <1>6 DEF Current
<1>8. TypeOK'
  BY <1>1, <1>4, <1>5, <1>6, SMTT(30) DEF TypeOK, client
<1>9. wire' \in Seq(AnyMessage)
  BY <1>1, <1>4
<1>10. OnWire(g, k) /\ InOrder(g, k, m, h) /\ AnnouncedFirst(g, k, m, h) /\ Handled(m, h)
  BY <1>2 DEF Tagged
<1>11. OnWire(g, k)'
  <2>1. ASSUME NEW i \in 1 .. Len(wire)
        PROVE  /\ g[i] \in 1 .. Current' /\ k[i] \in 1 .. Messages(sizes'[g[i]])
               /\ wire[i] = Message(g[i], k[i])'
    BY <1>1, <1>5, <1>6, <1>7, <1>10, <2>1, WireKept
  <2> QED
    BY <1>4, <2>1 DEF OnWire
<1>12. InOrder(g, k, m, h)'
  <2>1. \A i \in 1 .. Len(wire) : ~Before(Current + 1, 0, g[i], k[i])
    BY <1>5, <1>10 DEF OnWire, Before
  <2> QED
    BY <1>4, <1>7, <1>10, <2>1 DEF InOrder
<1>13. AnnouncedFirst(g, k, m, h)'
  BY <1>4, <1>10 DEF AnnouncedFirst
<1>14. Handled(m, h)'
  <2>1. m \in 0 .. Current /\ h \in Nat /\ (m = 0 => h = 0) /\ (m > 0 => h <= Messages(sizes[m]))
    BY <1>10 DEF Handled
  <2>2. m \in 0 .. Current' /\ ~Before(Current', 0, m, h)
    BY <1>5, <1>7, <2>1 DEF Before
  <2>3. m > 0 => h <= Messages(sizes'[m])
    BY <1>5, <1>6, <2>1
  <2>4. 0 <= Messages(sizes'[Current'])
    <3>1. size \in Nat
      BY <1>5
    <3>2. Messages(size) \in Nat
      BY <3>1, PacketCounts
    <3> QED
      BY <1>6, <1>7, <3>2
  <2> QED
    BY <1>4, <2>1, <2>2, <2>3, <2>4 DEF Handled
<1>15. Assembled(m, h)' /\ ShownBefore(f, m, h)'
  <2>1. Current' \in Nat /\ Current <= Current'
    BY <1>5, <1>7
  <2> QED
    BY <1>1, <1>2, <1>4, <1>6, <1>10, <2>1, ClientKept
<1> QED
  BY <1>8, <1>9, <1>11, <1>12, <1>13, <1>14, <1>15 DEF TransferInv, Tagged

\* The next message goes behind all the others.
LEMMA SendKeeps ==
    ASSUME ImageTransferAssumption, TransferInv, Send
    PROVE  TransferInv'
<1>1. TypeOK /\ wire \in Seq(AnyMessage)
  BY DEF TransferInv
<1>2. PICK g, k, m, h, f : Tagged(g, k, m, h) /\ Assembled(m, h) /\ ShownBefore(f, m, h)
  BY DEF TransferInv
<1>3. OnWire(g, k) /\ InOrder(g, k, m, h) /\ AnnouncedFirst(g, k, m, h) /\ Handled(m, h)
  BY <1>2 DEF Tagged
<1>C. PICK C : C = Current
  OBVIOUS
<1>x. PICK x : x = next + 1
  OBVIOUS
<1>w. PICK w : w = Message(C, x)
  OBVIOUS
<1>4. /\ up /\ ~AllSent /\ Len(wire) < MaxWire /\ next' = x /\ wire' = Append(wire, w)
      /\ sizes' = sizes /\ up' = up /\ broken' = broken /\ unsized' = unsized
  BY <1>C, <1>x, <1>w DEF Send, history
<1>5. Current' = C /\ UNCHANGED client
  BY <1>4, <1>C DEF Send, Current
<1>6. C \in Nat /\ C > 0 /\ next # Messages(sizes[C]) /\ next \in Nat
  BY <1>1, <1>4, <1>C, Sizes DEF AllSent
<1>7. /\ C \in 1 .. Current /\ x \in Nat /\ x >= 1 /\ x \in 1 .. Messages(sizes[C])
  <2>1. C \in 1 .. Current /\ Messages(sizes[C]) \in Nat
    BY <1>1, <1>6, <1>C, Sizes
  <2>2. next <= Messages(sizes[C])
    BY <1>3, <1>6, <1>C DEF Handled
  <2> QED
    BY <1>6, <1>x, <2>1, <2>2
<1>8. w \in AnyMessage
  BY <1>1, <1>7, <1>w, MessagesAreTyped
<1>9. PICK L \in Nat : L = Len(wire)
  BY <1>1
<1>10. /\ wire' \in Seq(AnyMessage) /\ Len(wire') = L + 1 /\ wire'[L + 1] = w
       /\ \A i \in 1 .. L : wire'[i] = wire[i]
  BY <1>1, <1>4, <1>8, <1>9
<1>11. TypeOK'
  <2>1. Len(wire') <= MaxWire
    BY <1>4, <1>9, <1>10 DEF ImageTransferAssumption
  <2>2. \A i \in 1 .. Len(wire') : wire'[i].kind \in Kinds
    <3>1. \A v \in AnyMessage : v.kind \in Kinds
      BY DEF AnyMessage
    <3>2. \A i \in 1 .. Len(wire') : wire'[i] \in AnyMessage
      BY <1>10
    <3> QED
      BY <3>1, <3>2
  <2> QED
    BY <1>1, <1>4, <1>5, <1>7, <2>1, <2>2 DEF TypeOK, client
<1>g. PICK G : G = [i \in 1 .. L + 1 |-> IF i <= L THEN g[i] ELSE C]
  OBVIOUS
<1>k. PICK K : K = [i \in 1 .. L + 1 |-> IF i <= L THEN k[i] ELSE x]
  OBVIOUS
<1>12. /\ \A i \in 1 .. L : G[i] = g[i] /\ K[i] = k[i]
       /\ G[L + 1] = C /\ K[L + 1] = x
  BY <1>9, <1>g, <1>k
<1>13. \A i \in 1 .. L : /\ g[i] \in 1 .. C /\ k[i] \in 1 .. Messages(sizes[g[i]]) /\ k[i] \in Nat
                         /\ wire[i] = Message(g[i], k[i])'
  <2>1. ASSUME NEW i \in 1 .. L
        PROVE  /\ g[i] \in 1 .. C /\ k[i] \in 1 .. Messages(sizes[g[i]]) /\ k[i] \in Nat
               /\ wire[i] = Message(g[i], k[i])'
    <3>1. /\ g[i] \in 1 .. Current' /\ k[i] \in 1 .. Messages(sizes'[g[i]])
          /\ wire[i] = Message(g[i], k[i])'
      BY <1>1, <1>3, <1>4, <1>5, <1>6, <1>9, <1>C, WireKept
    <3>2. g[i] \in 1 .. Current /\ sizes'[g[i]] = sizes[g[i]]
      BY <1>4, <1>5, <1>C, <3>1
    <3>3. Messages(sizes[g[i]]) \in Nat
      BY <1>1, <3>2, Sizes
    <3> QED
      BY <1>5, <3>1, <3>2, <3>3
  <2> QED
    BY <2>1
<1>14. OnWire(G, K)'
  <2>1. ASSUME NEW i \in 1 .. L + 1
        PROVE  /\ G[i] \in 1 .. C /\ K[i] \in 1 .. Messages(sizes[G[i]])
               /\ wire'[i] = Message(G[i], K[i])'
    <3>1. CASE i \in 1 .. L
      BY <1>10, <1>12, <1>13, <3>1
    <3>2. CASE i = L + 1
      <4>1. Message(C, x)' = w
        BY <1>4, <1>w, MessageKept
      <4> QED
        BY <1>6, <1>7, <1>10, <1>12, <3>2, <4>1
    <3> QED
      BY <1>9, <3>1, <3>2
  <2> QED
    BY <1>4, <1>5, <1>10, <2>1 DEF OnWire
<1>15. InOrder(G, K, m, h)'
  <2>1. /\ \A i \in 1 .. L, j \in 1 .. L : i < j => Before(g[i], k[i], g[j], k[j])
        /\ \A i \in 1 .. L : Before(m, h, g[i], k[i])
        /\ \A i \in 1 .. L : ~Before(C, next, g[i], k[i])
    BY <1>3, <1>9, <1>C DEF InOrder
  <2>2. ASSUME NEW i \in 1 .. L PROVE Before(g[i], k[i], C, x) /\ ~Before(C, x, g[i], k[i])
    BY <1>6, <1>x, <1>13, <2>1 DEF Before
  <2>3. Before(m, h, C, x)
    BY <1>3, <1>6, <1>C, <1>x DEF Before, Handled
  <2>4. ~Before(C, x, C, x)
    BY <1>6, <1>7 DEF Before
  <2>5. ASSUME NEW i \in 1 .. L + 1, NEW j \in 1 .. L + 1, i < j
        PROVE  Before(G[i], K[i], G[j], K[j])
    <3>1. CASE j \in 1 .. L
      BY <1>9, <1>12, <2>1, <2>5, <3>1
    <3>2. CASE j = L + 1
      BY <1>9, <1>12, <2>2, <2>5, <3>2
    <3> QED
      BY <1>9, <3>1, <3>2
  <2>6. ASSUME NEW i \in 1 .. L + 1
        PROVE  Before(m, h, G[i], K[i]) /\ ~Before(C, x, G[i], K[i])
    <3>1. CASE i \in 1 .. L
      BY <1>12, <2>1, <2>2, <3>1
    <3>2. CASE i = L + 1
      BY <1>12, <2>3, <2>4, <3>2
    <3> QED
      BY <1>9, <3>1, <3>2
  <2> QED
    BY <1>4, <1>5, <1>10, <2>5, <2>6 DEF InOrder
<1>16. AnnouncedFirst(G, K, m, h)'
  <2>1. ASSUME NEW n, NEW l \in 0 .. L, Announced(g, k, m, h, n, l)
        PROVE  Announced(G, K, m, h, n, l)
    BY <1>9, <1>12, <2>1 DEF Announced
  <2>2. next >= 2 => C \in unsized \/ Announced(g, k, m, h, C, L)
    BY <1>3, <1>4, <1>9, <1>C DEF AnnouncedFirst
  <2>3. ASSUME NEW i \in 1 .. L + 1, K[i] > 2
        PROVE  G[i] \in unsized \/ Announced(G, K, m, h, G[i], i - 1)
    <3>1. CASE i \in 1 .. L
      <4>1. g[i] \in unsized \/ Announced(g, k, m, h, g[i], i - 1)
        BY <1>3, <1>9, <1>12, <2>3, <3>1 DEF AnnouncedFirst
      <4> QED
        BY <1>9, <1>12, <2>1, <3>1, <4>1
    <3>2. CASE i = L + 1
      <4>1. next >= 2 /\ i - 1 = L
        BY <1>6, <1>9, <1>12, <1>x, <2>3, <3>2
      <4> QED
        BY <1>9, <1>12, <2>1, <2>2, <3>2, <4>1
    <3> QED
      BY <1>9, <3>1, <3>2
  <2>4. ASSUME x >= 2 PROVE C \in unsized \/ Announced(G, K, m, h, C, L + 1)
    <3>1. CASE x = 2
      <4>1. L + 1 \in 1 .. L + 1 /\ G[L + 1] = C /\ K[L + 1] = 2
        BY <1>9, <1>12, <3>1
      <4> QED
        BY <4>1 DEF Announced
    <3>2. CASE x # 2
      <4>1. next >= 2
        BY <1>6, <1>x, <2>4, <3>2
      <4>2. C \in unsized \/ Announced(G, K, m, h, C, L)
        BY <1>9, <2>1, <2>2, <4>1
      <4> QED
        BY <1>9, <4>2 DEF Announced
    <3> QED
      BY <3>1, <3>2
  <2> QED
    BY <1>4, <1>5, <1>10, <2>3, <2>4 DEF AnnouncedFirst
<1>17. Handled(m, h)'
  <2>1. ~Before(C, x, m, h) /\ x <= Messages(sizes[C])
    <3>1. Messages(sizes[C]) \in Nat
      BY <1>1, <1>7, Sizes
    <3> QED
      BY <1>3, <1>6, <1>7, <1>x, <1>C, <3>1 DEF Handled, Before
  <2> QED
    BY <1>3, <1>4, <1>5, <1>C, <2>1 DEF Handled
<1>18. Assembled(m, h)' /\ ShownBefore(f, m, h)'
  BY <1>1, <1>2, <1>3, <1>4, <1>5, <1>6, <1>C, ClientKept
<1> QED
  BY <1>10, <1>11, <1>14, <1>15, <1>16, <1>17, <1>18 DEF TransferInv, Tagged

\* A message is lost alone: what follows it is still announced, or it was TOTALSIZE and
\* its image is one of unsized.
LEMMA SendFailsKeeps ==
    ASSUME ImageTransferAssumption, TransferInv, SendFails
    PROVE  TransferInv'
<1>1. TypeOK /\ wire \in Seq(AnyMessage)
  BY DEF TransferInv
<1>2. PICK g, k, m, h, f : Tagged(g, k, m, h) /\ Assembled(m, h) /\ ShownBefore(f, m, h)
  BY DEF TransferInv
<1>3. OnWire(g, k) /\ InOrder(g, k, m, h) /\ AnnouncedFirst(g, k, m, h) /\ Handled(m, h)
  BY <1>2 DEF Tagged
<1>C. PICK C : C = Current
  OBVIOUS
<1>x. PICK x : x = next + 1
  OBVIOUS
<1>4. /\ up /\ ~AllSent /\ next' = x /\ wire' = wire
      /\ sizes' = sizes /\ up' = up /\ broken' = broken \cup {C}
      /\ unsized' = IF Message(C, x).kind = "TOTALSIZE" THEN unsized \cup {C} ELSE unsized
  BY <1>C, <1>x DEF SendFails
<1>5. Current' = C /\ UNCHANGED client
  BY <1>4, <1>C DEF SendFails, Current
<1>6. C \in Nat /\ C > 0 /\ next # Messages(sizes[C]) /\ next \in Nat
  BY <1>1, <1>4, <1>C, Sizes DEF AllSent
<1>7. /\ C \in 1 .. Current /\ x \in Nat /\ x >= 1 /\ x \in 1 .. Messages(sizes[C])
  <2>1. C \in 1 .. Current /\ Messages(sizes[C]) \in Nat
    BY <1>1, <1>6, <1>C, Sizes
  <2>2. next <= Messages(sizes[C])
    BY <1>3, <1>6, <1>C DEF Handled
  <2> QED
    BY <1>6, <1>x, <2>1, <2>2
<1>8. /\ unsized \subseteq unsized' /\ unsized' \subseteq unsized \cup {C}
      /\ x = 2 => C \in unsized'
  <2>1. sizes[C] \in 0 .. MaxSize
    BY <1>1, <1>7, Sizes
  <2>2. Message(C, x).kind = "TOTALSIZE" <=> x = 2
    BY <1>7, <2>1, MessageKinds
  <2> QED
    BY <1>4, <2>2
<1>9. TypeOK'
  <2>1. C \in 1 .. Len(sizes)
    BY <1>7 DEF Current
  <2>2. broken' \subseteq 1 .. Len(sizes) /\ unsized' \subseteq 1 .. Len(sizes)
    BY <1>1, <1>4, <1>8, <2>1 DEF TypeOK
  <2> QED
    BY <1>1, <1>4, <1>5, <1>7, <2>2 DEF TypeOK, client
<1>10. OnWire(g, k)'
  <2>1. Current' = Current
    BY <1>5, <1>C
  <2>2. \A i \in 1 .. Len(wire) :
          /\ g[i] \in 1 .. Current' /\ k[i] \in 1 .. Messages(sizes'[g[i]])
          /\ wire[i] = Message(g[i], k[i])'
    BY <1>1, <1>3, <1>4, <1>6, <1>C, <2>1, WireKept
  <2> QED
    BY <1>4, <2>2 DEF OnWire
<1>11. InOrder(g, k, m, h)'
  <2>1. ASSUME NEW i \in 1 .. Len(wire), Before(C, x, g[i], k[i])
        PROVE  Before(C, next, g[i], k[i])
    <3>1. g[i] \in 1 .. C /\ k[i] \in 1 .. Messages(sizes[g[i]])
      BY <1>3, <1>C DEF OnWire
    <3>2. Messages(sizes[g[i]]) \in Nat
      BY <1>1, <1>C, <3>1, Sizes
    <3> QED
      BY <1>6, <1>x, <2>1, <3>1, <3>2 DEF Before
  <2> QED
    BY <1>3, <1>4, <1>5, <1>C, <2>1 DEF InOrder
<1>12. AnnouncedFirst(g, k, m, h)'
  <2>1. x >= 2 => x = 2 \/ next >= 2
    BY <1>6, <1>7, <1>x
  <2>2. x >= 2 => C \in unsized' \/ Announced(g, k, m, h, C, Len(wire))
    BY <1>3, <1>4, <1>8, <1>C, <2>1 DEF AnnouncedFirst
  <2>3. ASSUME NEW i \in 1 .. Len(wire), k[i] > 2
        PROVE  g[i] \in unsized' \/ Announced(g, k, m, h, g[i], i - 1)
    BY <1>3, <1>8, <2>3 DEF AnnouncedFirst
  <2> QED
    BY <1>4, <1>5, <2>2, <2>3 DEF AnnouncedFirst
<1>13. Handled(m, h)'
  <2>1. ~Before(C, x, m, h) /\ x <= Messages(sizes[C])
    <3>1. Messages(sizes[C]) \in Nat
      BY <1>1, <1>7, Sizes
    <3> QED
      BY <1>3, <1>6, <1>7, <1>x, <1>C, <3>1 DEF Handled, Before
  <2> QED
    BY <1>3, <1>4, <1>5, <1>C, <2>1 DEF Handled
<1>14. Assembled(m, h)' /\ ShownBefore(f, m, h)'
  BY <1>1, <1>2, <1>3, <1>4, <1>5, <1>6, <1>8, <1>C, ClientKept
<1>15. wire' \in Seq(AnyMessage)
  BY <1>1, <1>4
<1> QED
  BY <1>9, <1>10, <1>11, <1>12, <1>13, <1>14, <1>15 DEF TransferInv, Tagged

\* What is read no more after a pause is the end of what was sent.
LEMMA PausedKeeps ==
    ASSUME ImageTransferAssumption, TransferInv, Paused
    PROVE  TransferInv'
<1>1. TypeOK /\ wire \in Seq(AnyMessage)
  BY DEF TransferInv
<1>2. PICK g, k, m, h, f : Tagged(g, k, m, h) /\ Assembled(m, h) /\ ShownBefore(f, m, h)
  BY DEF TransferInv
<1>3. OnWire(g, k) /\ InOrder(g, k, m, h) /\ AnnouncedFirst(g, k, m, h) /\ Handled(m, h)
  BY <1>2 DEF Tagged
<1>4. PICK kept \in 0 .. Len(wire) - 1 : wire' = SubSeq(wire, 1, kept)
  BY DEF Paused
<1>5. /\ AllSent /\ broken' = broken \cup Unshown /\ unsized' = unsized
      /\ sizes' = sizes /\ next' = next /\ up' = up /\ UNCHANGED client
  BY DEF Paused, server
<1>6. Current' = Current /\ Current \in Nat /\ AllSent'
  <2>1. Current' = Current /\ Current \in Nat
    BY <1>1, <1>5, Sizes DEF Current
  <2> QED
    BY <1>5, <2>1 DEF AllSent
<1>L. PICK L \in Nat : L = Len(wire)
  BY <1>1
<1>7. kept \in Nat /\ kept < L
  BY <1>4, <1>L
<1>8. /\ wire' \in Seq(AnyMessage) /\ Len(wire') = kept
      /\ \A i \in 1 .. kept : wire'[i] = wire[i]
  BY <1>1, <1>4, <1>7, <1>L
<1>9. TypeOK'
  <2>1. Len(wire') <= MaxWire
    BY <1>1, <1>7, <1>8, <1>L DEF TypeOK, ImageTransferAssumption
  <2>2. \A i \in 1 .. Len(wire') : wire'[i].kind \in Kinds
    <3>1. \A i \in 1 .. Len(wire) : wire[i].kind \in Kinds
      BY <1>1 DEF TypeOK
    <3>2. \A i \in 1 .. kept : i \in 1 .. Len(wire)
      BY <1>7, <1>L
    <3> QED
      BY <1>8, <3>1, <3>2
  <2>3. Unshown \subseteq 1 .. Len(sizes)
    BY DEF Unshown, Current
  <2> QED
    BY <1>1, <1>5, <2>1, <2>2, <2>3 DEF TypeOK, client
<1>10. OnWire(g, k)'
  <2>1. \A i \in 1 .. Len(wire) :
          /\ g[i] \in 1 .. Current' /\ k[i] \in 1 .. Messages(sizes'[g[i]])
          /\ wire[i] = Message(g[i], k[i])'
    BY <1>1, <1>3, <1>5, <1>6, WireKept
  <2> QED
    BY <1>7, <1>8, <1>L, <2>1 DEF OnWire
<1>11. InOrder(g, k, m, h)'
  <2>1. \A i \in 1 .. kept : i \in 1 .. Len(wire)
    BY <1>7, <1>L
  <2> QED
    BY <1>3, <1>5, <1>6, <1>8, <2>1 DEF InOrder
<1>12. AnnouncedFirst(g, k, m, h)'
  <2>1. \A i \in 1 .. kept : i \in 1 .. Len(wire)
    BY <1>7, <1>L
  <2> QED
    BY <1>3, <1>5, <1>6, <1>8, <2>1 DEF AnnouncedFirst
<1>13. Handled(m, h)'
  BY <1>3, <1>5, <1>6 DEF Handled
<1>14. Assembled(m, h)' /\ ShownBefore(f, m, h)'
  BY <1>1, <1>2, <1>3, <1>5, <1>6, ClientKept
<1> QED
  BY <1>8, <1>9, <1>10, <1>11, <1>12, <1>13, <1>14 DEF TransferInv, Tagged

-----------------------------------------------------------------------------
(* Connections *)

\* The rest of an image is not sent in the next connection.
LEMMA ConnectKeeps ==
    ASSUME ImageTransferAssumption, TransferInv, Connect
    PROVE  TransferInv'
<1>1. TypeOK /\ wire \in Seq(AnyMessage)
  BY DEF TransferInv
<1>2. PICK g, k, m, h, f : Tagged(g, k, m, h) /\ Assembled(m, h) /\ ShownBefore(f, m, h)
  BY DEF TransferInv
<1>3. OnWire(g, k) /\ InOrder(g, k, m, h) /\ AnnouncedFirst(g, k, m, h) /\ Handled(m, h)
  BY <1>2 DEF Tagged
<1>4. /\ up' = TRUE /\ sizes' = sizes /\ wire' = wire /\ UNCHANGED client
      /\ broken' = broken /\ unsized' = unsized
      /\ next' = IF Current = 0 THEN 0 ELSE Messages(sizes[Current])
  BY DEF Connect, history
<1>5. Current' = Current /\ Current \in Nat
  BY <1>1, <1>4, Sizes DEF Current
<1>6. /\ Current > 0 => next' = Messages(sizes[Current]) /\ next' \in Nat
      /\ Current = 0 => next' = 0
      /\ next' \in Nat
  <2>1. Current > 0 => Current \in 1 .. Current
    BY <1>5
  <2>2. Current > 0 => Messages(sizes[Current]) \in Nat
    BY <1>1, <2>1, Sizes
  <2> QED
    BY <1>4, <1>5, <2>2
<1>7. TypeOK' /\ wire' \in Seq(AnyMessage)
  BY <1>1, <1>4, <1>6 DEF TypeOK, client
<1>8. AllSent'
  BY <1>4, <1>5, <1>6 DEF AllSent
<1>9. OnWire(g, k)'
  <2>1. \A i \in 1 .. Len(wire) :
          /\ g[i] \in 1 .. Current' /\ k[i] \in 1 .. Messages(sizes'[g[i]])
          /\ wire[i] = Message(g[i], k[i])'
    BY <1>1, <1>3, <1>4, <1>5, WireKept
  <2> QED
    BY <1>4, <2>1 DEF OnWire
<1>10. InOrder(g, k, m, h)'
  <2>1. ASSUME NEW i \in 1 .. Len(wire) PROVE ~Before(Current, next', g[i], k[i])
    <3>1. g[i] \in 1 .. Current /\ k[i] \in 1 .. Messages(sizes[g[i]])
      BY <1>3 DEF OnWire
    <3>2. Messages(sizes[g[i]]) \in Nat
      BY <1>1, <3>1, Sizes
    <3>3. g[i] = Current => next' = Messages(sizes[g[i]])
      BY <1>5, <1>6, <3>1
    <3> QED
      BY <1>5, <1>6, <3>1, <3>2, <3>3 DEF Before
  <2> QED
    BY <1>3, <1>4, <1>5, <2>1 DEF InOrder
<1>11. AnnouncedFirst(g, k, m, h)'
  BY <1>3, <1>4, <1>8 DEF AnnouncedFirst
<1>12. Handled(m, h)'
  <2>1. ~Before(Current, next', m, h)
    <3>1. CASE m = Current
      <4>1. CASE Current = 0
        BY <1>3, <1>5, <1>6, <3>1, <4>1 DEF Handled, Before
      <4>2. CASE Current > 0
        <5>1. h \in Nat /\ h <= next' /\ m > 0
          BY <1>3, <1>6, <3>1, <4>2 DEF Handled
        <5> QED
          BY <1>5, <1>6, <3>1, <5>1 DEF Before
      <4> QED
        BY <1>5, <4>1, <4>2
    <3>2. CASE m # Current
      BY <1>3, <1>5, <3>2 DEF Handled, Before
    <3> QED
      BY <3>1, <3>2
  <2>2. Current > 0 => next' <= Messages(sizes[Current])
    BY <1>6
  <2> QED
    BY <1>3, <1>4, <1>5, <2>1, <2>2 DEF Handled
<1>13. Assembled(m, h)' /\ ShownBefore(f, m, h)'
  BY <1>1, <1>2, <1>3, <1>4, <1>5, ClientKept
<1> QED
  BY <1>7, <1>9, <1>10, <1>11, <1>12, <1>13 DEF TransferInv, Tagged

\* What was not read is lost with the connection.
LEMMA DisconnectKeeps ==
    ASSUME ImageTransferAssumption, TransferInv, Disconnect
    PROVE  TransferInv'
<1>1. TypeOK /\ wire \in Seq(AnyMessage)
  BY DEF TransferInv
<1>2. PICK g, k, m, h, f : Tagged(g, k, m, h) /\ Assembled(m, h) /\ ShownBefore(f, m, h)
  BY DEF TransferInv
<1>3. Handled(m, h)
  BY <1>2 DEF Tagged
<1>4. /\ up' = FALSE /\ wire' = <<>> /\ broken' = broken \cup Unshown /\ unsized' = unsized
      /\ sizes' = sizes /\ next' = next /\ UNCHANGED client
  BY DEF Disconnect
<1>5. Current' = Current /\ Current \in Nat
  BY <1>1, <1>4, Sizes DEF Current
<1>6. wire' \in Seq(AnyMessage) /\ Len(wire') = 0
  BY <1>4
<1>7. TypeOK'
  <2>1. Len(wire') <= MaxWire
    BY <1>6 DEF ImageTransferAssumption
  <2>2. Unshown \subseteq 1 .. Len(sizes)
    BY DEF Unshown, Current
  <2>3. \A i \in 1 .. Len(wire') : wire'[i].kind \in Kinds
    BY <1>6
  <2>4. up' \in BOOLEAN /\ broken' \subseteq 1 .. Len(sizes')
    BY <1>1, <1>4, <2>2 DEF TypeOK
  <2> QED
    BY <1>1, <1>4, <2>1, <2>3, <2>4 DEF TypeOK, client
<1>8. OnWire(g, k)' /\ InOrder(g, k, m, h)' /\ AnnouncedFirst(g, k, m, h)'
  BY <1>4, <1>6 DEF OnWire, InOrder, AnnouncedFirst
<1>9. Handled(m, h)'
  BY <1>3, <1>4, <1>5 DEF Handled
<1>10. Assembled(m, h)' /\ ShownBefore(f, m, h)'
  BY <1>1, <1>2, <1>3, <1>4, <1>5, ClientKept
<1> QED
  BY <1>6, <1>7, <1>8, <1>9, <1>10 DEF TransferInv, Tagged

-----------------------------------------------------------------------------
(* The client handles the first message on the wire *)

\* TOTALSIZE of the image of the message was handled before it or with it.
LEMMA AnnouncedStays ==
    ASSUME NEW g, NEW k, NEW m, NEW h, NEW G, NEW K, NEW n, NEW l \in Nat \ {0},
           Announced(g, k, m, h, n, l),
           \A j \in 1 .. l - 1 : G[j] = g[j + 1] /\ K[j] = k[j + 1],
           m \in Nat, h \in Nat, n \in Nat, g[1] \in Nat, k[1] \in Nat, g[1] <= n,
           Before(m, h, g[1], k[1])
    PROVE  Announced(G, K, g[1], k[1], n, l - 1)
<1>1. CASE m = n /\ h >= 2
  BY <1>1 DEF Announced, Before
<1>2. CASE \E j \in 1 .. l : g[j] = n /\ k[j] = 2
  <2>1. PICK j \in 1 .. l : g[j] = n /\ k[j] = 2
    BY <1>2
  <2>2. CASE j = 1
    BY <2>1, <2>2 DEF Announced
  <2>3. CASE j # 1
    <3>1. j - 1 \in 1 .. l - 1 /\ (j - 1) + 1 = j
      BY <2>1, <2>3
    <3>2. G[j - 1] = n /\ K[j - 1] = 2
      BY <2>1, <3>1
    <3> QED
      BY <3>1, <3>2 DEF Announced
  <2> QED
    BY <2>2, <2>3
<1> QED
  BY <1>1, <1>2 DEF Announced

\* What the front of the wire is.
LEMMA Front ==
    ASSUME ImageTransferAssumption, TypeOK, NEW g, NEW k, NEW m, NEW h,
           Tagged(g, k, m, h), wire \in Seq(AnyMessage), wire # <<>>
    PROVE  /\ g[1] \in 1 .. Current /\ k[1] \in 1 .. Messages(sizes[g[1]])
           /\ g[1] \in Nat /\ k[1] \in Nat /\ Messages(sizes[g[1]]) \in Nat
           /\ sizes[g[1]] \in 0 .. MaxSize /\ sizes[g[1]] \in Nat /\ g[1] \in 1 .. MaxImages
           /\ wire[1] = Message(g[1], k[1])
           /\ m \in Nat /\ h \in Nat /\ Before(m, h, g[1], k[1])
           /\ k[1] > 2 /\ g[1] \notin unsized => m = g[1] /\ h >= 2 /\ h < k[1]
<1>0. OnWire(g, k) /\ InOrder(g, k, m, h) /\ AnnouncedFirst(g, k, m, h) /\ Handled(m, h)
  BY DEF Tagged
<1>1. 1 \in 1 .. Len(wire) /\ Len(wire) \in Nat
  OBVIOUS
<1>2. /\ g[1] \in 1 .. Current /\ k[1] \in 1 .. Messages(sizes[g[1]])
      /\ wire[1] = Message(g[1], k[1])
  BY <1>0, <1>1 DEF OnWire
<1>3. /\ Current \in Nat /\ Messages(sizes[g[1]]) \in Nat
      /\ sizes[g[1]] \in 0 .. MaxSize /\ sizes[g[1]] \in Nat /\ g[1] \in 1 .. MaxImages
  BY <1>2, Sizes
<1>4. g[1] \in Nat /\ k[1] \in Nat
  BY <1>2, <1>3
<1>5. m \in Nat /\ h \in Nat
  BY <1>0, <1>3 DEF Handled
<1>6. Before(m, h, g[1], k[1])
  BY <1>0, <1>1 DEF InOrder
<1>7. ASSUME k[1] > 2, g[1] \notin unsized PROVE m = g[1] /\ h >= 2 /\ h < k[1]
  <2>l. PICK l : l = 1 - 1
    OBVIOUS
  <2>1. Announced(g, k, m, h, g[1], l)
    BY <1>0, <1>1, <1>7, <2>l DEF AnnouncedFirst
  <2>2. 1 .. l = {}
    BY <2>l
  <2>3. m = g[1] /\ h >= 2
    BY <2>1, <2>2 DEF Announced
  <2> QED
    BY <1>4, <1>5, <1>6, <2>3 DEF Before
<1> QED
  BY <1>2, <1>3, <1>4, <1>5, <1>6, <1>7

\* The others move up.
LEMMA Shift ==
    ASSUME ImageTransferAssumption, TypeOK, NEW g, NEW k, NEW m, NEW h, NEW kind,
           Tagged(g, k, m, h), wire \in Seq(AnyMessage), Handles(kind)
    PROVE  /\ \E G, K : Tagged(G, K, g[1], k[1])'
           /\ wire' \in Seq(AnyMessage)
           /\ Len(wire') <= MaxWire /\ \A i \in 1 .. Len(wire') : wire'[i].kind \in Kinds
           /\ wire # <<>> /\ wire[1].kind = kind
           /\ sizes' = sizes /\ next' = next /\ up' = up
           /\ broken' = broken /\ unsized' = unsized
           /\ Current' = Current /\ overrun = 0
<1>0. OnWire(g, k) /\ InOrder(g, k, m, h) /\ AnnouncedFirst(g, k, m, h) /\ Handled(m, h)
  BY DEF Tagged
<1>1. /\ wire # <<>> /\ wire[1].kind = kind /\ wire' = Tail(wire) /\ overrun = 0
      /\ sizes' = sizes /\ next' = next /\ up' = up /\ broken' = broken /\ unsized' = unsized
  BY DEF Handles, server, history
<1>2. Current' = Current /\ Current \in Nat /\ AllSent' = AllSent /\ next \in Nat
  <2>1. Current' = Current /\ Current \in Nat /\ next \in Nat
    BY <1>1, Sizes DEF Current
  <2> QED
    BY <1>1, <2>1 DEF AllSent
<1>L. PICK L \in Nat : L = Len(wire)
  OBVIOUS
<1>M. PICK M : M = L - 1
  OBVIOUS
<1>3. /\ L >= 1 /\ M \in Nat /\ L = M + 1
      /\ wire' \in Seq(AnyMessage) /\ Len(wire') = M
      /\ \A i \in 1 .. M : wire'[i] = wire[i + 1]
  <2>1. L >= 1 /\ M \in Nat /\ L = M + 1
    BY <1>1, <1>L, <1>M
  <2>2. /\ wire' \in Seq(AnyMessage) /\ Len(wire') = Len(wire) - 1
        /\ \A i \in 1 .. Len(wire') : wire'[i] = wire[i + 1]
    BY <1>1, HeadTailProperties
  <2> QED
    BY <1>L, <1>M, <2>1, <2>2
<1>4. \A i \in 1 .. M : i + 1 \in 1 .. L /\ i + 1 \in 1 .. Len(wire)
  BY <1>3, <1>L
<1>5. Len(wire') <= MaxWire /\ \A i \in 1 .. Len(wire') : wire'[i].kind \in Kinds
  <2>1. MaxWire \in Nat /\ L <= MaxWire /\ M <= MaxWire
    BY <1>3, <1>L DEF TypeOK, ImageTransferAssumption
  <2> QED
    BY <1>3, <1>4, <2>1 DEF TypeOK
<1>a. PICK a : a = g[1]
  OBVIOUS
<1>b. PICK b : b = k[1]
  OBVIOUS
<1>6. /\ a \in 1 .. Current /\ b \in 1 .. Messages(sizes[a]) /\ a \in Nat /\ b \in Nat
      /\ Messages(sizes[a]) \in Nat
      /\ m \in Nat /\ h \in Nat /\ Before(m, h, a, b)
  BY <1>1, <1>a, <1>b, Front
<1>g. PICK G : G = [i \in 1 .. M |-> g[i + 1]]
  OBVIOUS
<1>k. PICK K : K = [i \in 1 .. M |-> k[i + 1]]
  OBVIOUS
<1>7. \A i \in 1 .. M : G[i] = g[i + 1] /\ K[i] = k[i + 1]
  BY <1>g, <1>k
<1>8. OnWire(G, K)'
  <2>1. \A i \in 1 .. Len(wire) :
          /\ g[i] \in 1 .. Current' /\ k[i] \in 1 .. Messages(sizes'[g[i]])
          /\ wire[i] = Message(g[i], k[i])'
    BY <1>0, <1>1, <1>2, WireKept
  <2> QED
    BY <1>3, <1>4, <1>7, <2>1 DEF OnWire
<1>9. \A i \in 1 .. M : Before(a, b, g[i + 1], k[i + 1]) /\ a <= g[i + 1] /\ g[i + 1] \in Nat
  <2>1. ASSUME NEW i \in 1 .. M
        PROVE  Before(a, b, g[i + 1], k[i + 1]) /\ a <= g[i + 1] /\ g[i + 1] \in Nat
    <3>1. 1 \in 1 .. Len(wire) /\ i + 1 \in 1 .. Len(wire) /\ 1 < i + 1
      BY <1>3, <1>4, <1>L
    <3>2. Before(a, b, g[i + 1], k[i + 1])
      BY <1>0, <1>a, <1>b, <3>1 DEF InOrder
    <3>3. g[i + 1] \in 1 .. Current
      BY <1>0, <3>1 DEF OnWire
    <3> QED
      BY <1>2, <1>6, <3>2, <3>3 DEF Before
  <2> QED
    BY <2>1
<1>10. InOrder(G, K, a, b)'
  <2>1. ASSUME NEW i \in 1 .. M, NEW j \in 1 .. M, i < j PROVE Before(G[i], K[i], G[j], K[j])
    <3>1. i + 1 < j + 1 /\ i + 1 \in 1 .. Len(wire) /\ j + 1 \in 1 .. Len(wire)
      BY <1>3, <1>4, <2>1
    <3>2. Before(g[i + 1], k[i + 1], g[j + 1], k[j + 1])
      BY <1>0, <3>1 DEF InOrder
    <3> QED
      BY <1>7, <3>2
  <2>2. \A i \in 1 .. M : Before(a, b, G[i], K[i])
    BY <1>7, <1>9
  <2>3. \A i \in 1 .. M : ~Before(Current, next, G[i], K[i])
    BY <1>0, <1>4, <1>7 DEF InOrder
  <2> QED
    BY <1>1, <1>2, <1>3, <2>1, <2>2, <2>3 DEF InOrder
<1>11. AnnouncedFirst(G, K, a, b)'
  <2>1. ASSUME NEW i \in 1 .. M, K[i] > 2, G[i] \notin unsized
        PROVE  Announced(G, K, a, b, G[i], i - 1)
    <3>n. PICK n : n = g[i + 1]
      OBVIOUS
    <3>0. i + 1 \in 1 .. Len(wire) /\ k[i + 1] > 2 /\ g[i + 1] \notin unsized
      BY <1>4, <1>7, <2>1
    <3>1. Announced(g, k, m, h, n, (i + 1) - 1)
      BY <1>0, <3>0, <3>n DEF AnnouncedFirst
    <3>2. (i + 1) - 1 = i /\ i \in Nat \ {0} /\ n \in Nat /\ a <= n
      <4>1. n \in Nat /\ a <= n
        BY <1>9, <3>n
      <4>2. i \in Nat /\ i >= 1
        BY <1>3
      <4> QED
        BY <4>1, <4>2
    <3>3. Announced(g, k, m, h, n, i)
      BY <3>1, <3>2
    <3>4. \A j \in 1 .. i - 1 : G[j] = g[j + 1] /\ K[j] = k[j + 1]
      BY <1>3, <1>7
    <3>5. Announced(G, K, g[1], k[1], n, i - 1)
      BY <1>6, <1>a, <1>b, <3>2, <3>3, <3>4, AnnouncedStays
    <3> QED
      BY <1>7, <1>a, <1>b, <3>5, <3>n
  <2>2. ASSUME up, ~AllSent, next >= 2, Current \notin unsized
        PROVE  Announced(G, K, a, b, Current, M)
    <3>1. Announced(g, k, m, h, Current, L)
      BY <1>0, <1>L, <2>2 DEF AnnouncedFirst
    <3>2. L \in Nat \ {0} /\ L - 1 = M /\ a <= Current
      BY <1>2, <1>3, <1>6
    <3>3. \A j \in 1 .. L - 1 : G[j] = g[j + 1] /\ K[j] = k[j + 1]
      BY <1>7, <3>2
    <3>4. Announced(G, K, g[1], k[1], Current, L - 1)
      BY <1>2, <1>6, <1>a, <1>b, <3>1, <3>2, <3>3, AnnouncedStays
    <3> QED
      BY <1>a, <1>b, <3>2, <3>4
  <2> QED
    BY <1>1, <1>2, <1>3, <2>1, <2>2 DEF AnnouncedFirst
<1>12. Handled(a, b)'
  <2>1. ~Before(Current, next, a, b)
    <3>1. 1 \in 1 .. Len(wire)
      BY <1>3, <1>L
    <3> QED
      BY <1>0, <1>a, <1>b, <3>1 DEF InOrder
  <2>2. a \in 0 .. Current /\ a > 0 /\ b <= Messages(sizes[a])
    BY <1>2, <1>6
  <2>3. Current > 0 => next <= Messages(sizes[Current])
    BY <1>0 DEF Handled
  <2> QED
    BY <1>1, <1>2, <1>6, <2>1, <2>2, <2>3 DEF Handled
<1>13. Tagged(G, K, a, b)'
  BY <1>8, <1>10, <1>11, <1>12 DEF Tagged
<1>14. \E X, Y : Tagged(X, Y, g[1], k[1])'
  BY <1>13, <1>a, <1>b
<1> QED
  BY <1>1, <1>2, <1>3, <1>5, <1>14

\* The message is of an image not shown yet, or of one that was shown and its packets
\* have no use any more.
LEMMA NotShownYet ==
    ASSUME ImageTransferAssumption, TypeOK, NEW m, NEW h, NEW f, NEW a, NEW b,
           ShownBefore(f, m, h), m \in Nat, h \in Nat, a \in 1 .. Current, b \in Nat,
           Before(m, h, a, b)
    PROVE  /\ \A i \in 1 .. Len(shown) :
                 f[i] \in 1 .. Current /\ (total # 0 \/ b <= 2 => f[i] < a)
           /\ ShownBefore(f, a, b)
<1>1. f \in [1 .. Len(shown) -> 1 .. Current] /\ Current \in Nat
  BY Sizes DEF ShownBefore
<1>2. ASSUME NEW i \in 1 .. Len(shown)
      PROVE  f[i] \in 1 .. Current /\ f[i] <= a /\ (f[i] = a => total = 0 /\ b > 2)
  <2>1. f[i] \in 1 .. Current
    BY <1>1, <1>2
  <2>2. f[i] <= m /\ (f[i] = m => total = 0 /\ h > 2)
    BY <1>2 DEF ShownBefore
  <2> QED
    BY <1>1, <2>1, <2>2 DEF Before
<1>3. \A i \in 1 .. Len(shown) :
         f[i] \in 1 .. Current /\ (total # 0 \/ b <= 2 => f[i] < a)
  BY <1>1, <1>2
<1> QED
  BY <1>2, <1>3 DEF ShownBefore

\* What is left to show of a handler: what it does to the client.
LEMMA AfterHandler ==
    ASSUME ImageTransferAssumption, TypeOK, NEW g, NEW k, NEW m, NEW h, NEW kind, NEW f,
           Tagged(g, k, m, h), wire \in Seq(AnyMessage), Handles(kind),
           ClientTyped', Assembled(g[1], k[1])', ShownBefore(f, g[1], k[1])'
    PROVE  TransferInv'
<1>1. PICK G, K : Tagged(G, K, g[1], k[1])'
  BY Shift
<1>2. /\ wire' \in Seq(AnyMessage)
      /\ Len(wire') <= MaxWire /\ \A i \in 1 .. Len(wire') : wire'[i].kind \in Kinds
      /\ sizes' = sizes /\ next' = next /\ up' = up /\ broken' = broken /\ unsized' = unsized
  BY Shift
<1>3. TypeOK'
  BY <1>2 DEF TypeOK, ClientTyped
<1> QED
  BY <1>1, <1>2, <1>3 DEF TransferInv

\* The vector after resize, and after a piece was read into it.
LEMMA ResizedIs ==
    ASSUME image \in Seq(Place), NEW n \in Nat
    PROVE  Resized(n) \in Seq(Place) /\ Len(Resized(n)) = n
<1>r. PICK r : r = Resized(n)
  OBVIOUS
<1>1. r = [i \in 1 .. n |-> IF i <= Len(image) THEN image[i] ELSE Blank]
  BY <1>r DEF Resized
<1>2. ASSUME NEW i \in 1 .. n PROVE (IF i <= Len(image) THEN image[i] ELSE Blank) \in Place
  BY DEF Place
<1>3. r \in Seq(Place) /\ Len(r) = n
  BY <1>1, <1>2
<1> QED
  BY <1>r, <1>3

\* std::copy of a packet at offset tempCount * Unit changes those places and no other.
LEMMA WrittenIs ==
    ASSUME ImageTransferAssumption, image \in Seq(Place), tempCount \in Nat,
           NEW v \in Seq(Place), NEW d, d = tempCount * Unit
    PROVE  /\ Written(v) \in Seq(Place) /\ Len(Written(v)) = Len(image)
           /\ \A i \in 1 .. Len(image) :
                Written(v)[i] = IF i > d /\ i <= d + Len(v) THEN v[i - d] ELSE image[i]
<1>L. PICK L \in Nat : L = Len(image)
  OBVIOUS
<1>l. PICK l \in Nat : l = Len(v)
  OBVIOUS
<1>w. PICK w : w = Written(v)
  OBVIOUS
<1>1. d \in Nat
  BY DEF ImageTransferAssumption
<1>2. w = [i \in 1 .. L |-> IF i > d /\ i <= d + l THEN v[i - d] ELSE image[i]]
  BY <1>L, <1>l, <1>w DEF Written
<1>3. ASSUME NEW i \in 1 .. L
      PROVE  (IF i > d /\ i <= d + l THEN v[i - d] ELSE image[i]) \in Place
  <2>1. CASE i > d /\ i <= d + l
    <3>1. i - d \in 1 .. l
      BY <1>1, <2>1
    <3> QED
      BY <1>l, <2>1, <3>1
  <2>2. CASE ~(i > d /\ i <= d + l)
    BY <1>L, <2>2
  <2> QED
    BY <2>1, <2>2
<1>4. w \in Seq(Place) /\ Len(w) = L
  BY <1>2, <1>3
<1>5. \A i \in 1 .. L : w[i] = IF i > d /\ i <= d + l THEN v[i - d] ELSE image[i]
  BY <1>2
<1> QED
  BY <1>4, <1>5, <1>L, <1>l, <1>w

\* A message without data passes: the client has what it had.
LEMMA CollectedLater ==
    ASSUME ImageTransferAssumption, NEW n, sizes[n] \in Nat, NEW a \in Nat, NEW b \in Nat,
           a <= b, b <= Packets(sizes[n]), Collected(n, a),
           tempTotal \in Nat, tempCount \in Nat
    PROVE  Collected(n, b)
<1>1. CASE a = b
  BY <1>1
<1>2. CASE a < b
  <2>1. /\ b \in 1 .. Packets(sizes[n])
        /\ Prefix(sizes[n], a) \in Nat /\ Prefix(sizes[n], b) \in Nat
        /\ Prefix(sizes[n], a) < Prefix(sizes[n], b)
    <3>1. Packets(sizes[n]) \in Nat
      BY PacketCounts
    <3>2. b \in 1 .. Packets(sizes[n])
      BY <1>2, <3>1
    <3> QED
      BY <1>2, <3>2, PrefixGrows
  <2>2. tempCount <= b
    BY <1>2 DEF Collected
  <2>3. tempTotal < Prefix(sizes[n], b)
    BY <2>1 DEF Collected
  <2> QED
    BY <2>2, <2>3 DEF Collected
<1> QED
  BY <1>1, <1>2

-----------------------------------------------------------------------------
(* The handlers *)

\* CMD_TOTALPACKNUM: the number of packets, which starts an image.
LEMMA GetCountKeeps ==
    ASSUME ImageTransferAssumption, TransferInv, getCount
    PROVE  TransferInv'
<1>1. TypeOK /\ wire \in Seq(AnyMessage)
  BY DEF TransferInv
<1>2. PICK g, k, m, h, f : Tagged(g, k, m, h) /\ Assembled(m, h) /\ ShownBefore(f, m, h)
  BY DEF TransferInv
<1>3. /\ Handles("TOTALPACKNUM") /\ count' = wire[1].value
      /\ UNCHANGED <<total, curr, tempTotal, tempCount, image, overrun, shown>>
  BY DEF getCount
<1>4. /\ wire # <<>> /\ wire[1].kind = "TOTALPACKNUM" /\ sizes' = sizes /\ Current' = Current
      /\ unsized' = unsized /\ overrun = 0
  BY <1>1, <1>2, <1>3, Shift
<1>a. PICK a : a = g[1]
  OBVIOUS
<1>b. PICK b : b = k[1]
  OBVIOUS
<1>5. /\ a \in 1 .. Current /\ b \in 1 .. Messages(sizes[a]) /\ a \in Nat /\ b \in Nat
      /\ Messages(sizes[a]) \in Nat /\ sizes[a] \in 0 .. MaxSize
      /\ wire[1] = Message(a, b)
      /\ m \in Nat /\ h \in Nat /\ Before(m, h, a, b)
  BY <1>1, <1>2, <1>4, <1>a, <1>b, Front
<1>6. b = 1 /\ wire[1].value \in Nat
  BY <1>4, <1>5, MessageKinds
<1>7. ClientTyped'
  BY <1>1, <1>3, <1>6 DEF TypeOK, ClientTyped
<1>8. Assembled(a, b)'
  BY <1>2, <1>3, <1>4, <1>6 DEF Assembled
<1>9. ShownBefore(f, a, b)
  BY <1>1, <1>2, <1>5, NotShownYet
<1>10. ShownBefore(f, a, b)'
  BY <1>3, <1>4, <1>9 DEF ShownBefore, Picture
<1> QED
  BY <1>1, <1>2, <1>3, <1>7, <1>8, <1>10, <1>a, <1>b, AfterHandler

\* The vector gets its size, and nothing of the image is there yet.
LEMMA GetTotalKeeps ==
    ASSUME ImageTransferAssumption, TransferInv, getTotal
    PROVE  TransferInv'
<1>1. TypeOK /\ wire \in Seq(AnyMessage)
  BY DEF TransferInv
<1>2. PICK g, k, m, h, f : Tagged(g, k, m, h) /\ Assembled(m, h) /\ ShownBefore(f, m, h)
  BY DEF TransferInv
<1>3. /\ Handles("TOTALSIZE") /\ total' = wire[1].value /\ image' = Resized(wire[1].value)
      /\ count' = 0 /\ tempTotal' = 0 /\ tempCount' = 0
      /\ UNCHANGED <<curr, overrun, shown>>
  BY DEF getTotal
<1>4. /\ wire # <<>> /\ wire[1].kind = "TOTALSIZE" /\ sizes' = sizes /\ Current' = Current
      /\ unsized' = unsized /\ overrun = 0
  BY <1>1, <1>2, <1>3, Shift
<1>a. PICK a : a = g[1]
  OBVIOUS
<1>b. PICK b : b = k[1]
  OBVIOUS
<1>z. PICK z : z = sizes[a]
  OBVIOUS
<1>5. /\ a \in 1 .. Current /\ b \in 1 .. Messages(sizes[a]) /\ a \in Nat /\ b \in Nat
      /\ Messages(sizes[a]) \in Nat /\ sizes[a] \in 0 .. MaxSize /\ z \in Nat
      /\ wire[1] = Message(a, b)
      /\ m \in Nat /\ h \in Nat /\ Before(m, h, a, b)
  BY <1>1, <1>2, <1>4, <1>a, <1>b, <1>z, Front
<1>6. b = 2 /\ wire[1].value = z
  BY <1>4, <1>5, <1>z, MessageKinds
<1>7. image' \in Seq(Place) /\ Len(image') = z /\ total' = z
  BY <1>1, <1>3, <1>5, <1>6, ResizedIs DEF TypeOK
<1>8. ClientTyped'
  <2>1. curr \in Nat /\ overrun \in Nat /\ shown \in Seq(Seq(Place))
    BY <1>1 DEF TypeOK
  <2>2. {total', count', curr', tempTotal', tempCount'} \subseteq Nat
    BY <1>3, <1>5, <1>7, <2>1
  <2>3. image' \in Seq(Place) /\ overrun' \in Nat /\ shown' \in Seq(Seq(Place))
    BY <1>3, <1>7, <2>1
  <2> QED
    BY <2>2, <2>3 DEF ClientTyped
<1>9. Collected(a, Passed(b))'
  <2>q. PICK q : q = Passed(b)
    OBVIOUS
  <2>1. q = 0
    BY <1>6, <2>q DEF Passed
  <2>2. Prefix(z, q) = 0
    <3>1. Unit \in Nat /\ Full(z) \in Nat
      BY <1>5, PacketCounts
    <3> QED
      BY <2>1, <3>1 DEF Prefix
  <2>3. tempCount' <= q /\ tempCount' = q /\ tempTotal' = 0
    BY <1>3, <2>1
  <2>4. \A i \in 1 .. tempTotal' : image'[i] = <<a, i>>
    BY <2>3
  <2>5. tempTotal' = Prefix(sizes'[a], q)
    BY <1>4, <1>z, <2>2, <2>3
  <2> QED
    BY <2>3, <2>4, <2>5, <2>q DEF Collected
<1>10. Assembled(a, b)'
  <2>1. overrun' \in {0} \cup unsized'
    BY <1>3, <1>4
  <2>2. total' = sizes'[a]
    BY <1>4, <1>7, <1>z
  <2> QED
    BY <1>7, <1>9, <2>1, <2>2 DEF Assembled
<1>11. ShownBefore(f, a, b) /\ \A i \in 1 .. Len(shown) : f[i] \in 1 .. Current /\ f[i] < a
  BY <1>1, <1>2, <1>5, <1>6, NotShownYet
<1>12. ShownBefore(f, a, b)'
  <2>1. \A i \in 1 .. Len(shown) : f[i] <= a /\ f[i] # a
    BY <1>5, <1>11
  <2> QED
    BY <1>3, <1>4, <1>11, <2>1 DEF ShownBefore, Picture
<1> QED
  BY <1>1, <1>2, <1>3, <1>8, <1>10, <1>12, <1>a, <1>b, AfterHandler

\* The size of a packet: the packet comes next, and those before it have passed.
LEMMA GetCurrKeeps ==
    ASSUME ImageTransferAssumption, TransferInv, getCurr
    PROVE  TransferInv'
<1>1. TypeOK /\ wire \in Seq(AnyMessage)
  BY DEF TransferInv
<1>2. PICK g, k, m, h, f : Tagged(g, k, m, h) /\ Assembled(m, h) /\ ShownBefore(f, m, h)
  BY DEF TransferInv
<1>3. /\ Handles("PACKSIZE") /\ curr' = wire[1].value
      /\ UNCHANGED <<total, count, tempTotal, tempCount, image, overrun, shown>>
  BY DEF getCurr
<1>4. /\ wire # <<>> /\ wire[1].kind = "PACKSIZE" /\ sizes' = sizes /\ Current' = Current
      /\ unsized' = unsized /\ overrun = 0
  BY <1>1, <1>2, <1>3, Shift
<1>a. PICK a : a = g[1]
  OBVIOUS
<1>b. PICK b : b = k[1]
  OBVIOUS
<1>5. /\ a \in 1 .. Current /\ b \in 1 .. Messages(sizes[a]) /\ a \in Nat /\ b \in Nat
      /\ Messages(sizes[a]) \in Nat /\ sizes[a] \in 0 .. MaxSize /\ sizes[a] \in Nat
      /\ wire[1] = Message(a, b)
      /\ m \in Nat /\ h \in Nat /\ Before(m, h, a, b)
      /\ b > 2 /\ a \notin unsized => m = a /\ h >= 2 /\ h < b
  BY <1>1, <1>2, <1>4, <1>a, <1>b, Front
<1>p. PICK p : p = PacketOf(b)
  OBVIOUS
<1>6. /\ b > 2 /\ wire[1].value \in Nat /\ Passed(b) + 1 = p /\ p \in 1 .. Packets(sizes[a])
  BY <1>4, <1>5, <1>p, MessageKinds
<1>7. ClientTyped'
  BY <1>1, <1>3, <1>6 DEF TypeOK, ClientTyped
<1>8. ASSUME a \notin unsized PROVE total = sizes[a] /\ Collected(a, Passed(b))
  <2>1. m = a /\ h >= 2 /\ h < b /\ h # Messages(sizes[a])
    BY <1>5, <1>6, <1>8
  <2>2. total = sizes[a] /\ Collected(a, Passed(h))
    BY <1>2, <1>5, <1>8, <2>1 DEF Assembled
  <2>3. Passed(h) \in Nat /\ Passed(b) \in Nat /\ Passed(h) <= Passed(b)
    BY <1>5, <1>6, <2>1 DEF Passed
  <2>4. Passed(b) <= Packets(sizes[a])
    <3>1. Packets(sizes[a]) \in Nat
      BY <1>5, PacketCounts
    <3> QED
      BY <1>6, <2>3, <3>1
  <2>5. tempTotal \in Nat /\ tempCount \in Nat
    BY <1>1 DEF TypeOK
  <2> QED
    BY <1>5, <2>2, <2>3, <2>4, <2>5, CollectedLater
<1>12. Assembled(a, b)'
  <2>1. a \notin unsized' => Collected(a, Passed(b))' /\ total' = sizes'[a]
    BY <1>3, <1>4, <1>8 DEF Collected
  <2>2. Len(image') = total' /\ overrun' \in {0} \cup unsized'
    BY <1>2, <1>3, <1>4 DEF Assembled
  <2> QED
    BY <2>1, <2>2 DEF Assembled
<1>13. ShownBefore(f, a, b)
  BY <1>1, <1>2, <1>5, NotShownYet
<1>14. ShownBefore(f, a, b)'
  BY <1>3, <1>4, <1>13 DEF ShownBefore, Picture
<1> QED
  BY <1>1, <1>2, <1>3, <1>7, <1>12, <1>14, <1>a, <1>b, AfterHandler

\* The piece goes to its place if every piece before it came.  Then the client has the
\* image with the last one; otherwise it never has as much as the size it was told of.
LEMMA GetImgDataKeeps ==
    ASSUME ImageTransferAssumption, TransferInv, getImgData
    PROVE  TransferInv'
<1>1. TypeOK /\ wire \in Seq(AnyMessage)
  BY DEF TransferInv
<1>2. PICK g, k, m, h, f : Tagged(g, k, m, h) /\ Assembled(m, h) /\ ShownBefore(f, m, h)
  BY DEF TransferInv
<1>3. Handles("IMGDATA")
  BY DEF getImgData
<1>4. /\ wire # <<>> /\ wire[1].kind = "IMGDATA" /\ sizes' = sizes /\ Current' = Current
      /\ unsized' = unsized /\ overrun = 0
  BY <1>1, <1>2, <1>3, Shift
<1>a. PICK a : a = g[1]
  OBVIOUS
<1>b. PICK b : b = k[1]
  OBVIOUS
<1>z. PICK z : z = sizes[a]
  OBVIOUS
<1>5. /\ a \in 1 .. Current /\ b \in 1 .. Messages(z) /\ a \in Nat /\ b \in Nat
      /\ a \in 1 .. MaxImages
      /\ Messages(z) \in Nat /\ z \in 0 .. MaxSize /\ z \in Nat
      /\ wire[1] = Message(a, b)
      /\ m \in Nat /\ h \in Nat /\ Before(m, h, a, b)
      /\ b > 2 /\ a \notin unsized => m = a /\ h >= 2 /\ h < b
  BY <1>1, <1>2, <1>4, <1>a, <1>b, <1>z, Front
<1>p. PICK p : p = PacketOf(b)
  OBVIOUS
<1>d. PICK d : d = (p - 1) * Unit
  OBVIOUS
<1>s. PICK s : s = PacketSize(z, p)
  OBVIOUS
<1>v. PICK v : v = wire[1].value
  OBVIOUS
<1>6. /\ b > 2 /\ b = 2 + 2 * p /\ Passed(b) = p /\ p \in 1 .. Packets(z)
      /\ v = SubSeq(Picture(a), d + 1, d + s)
  <2>1. sizes[a] \in 0 .. MaxSize /\ b \in 1 .. Messages(sizes[a])
    BY <1>5, <1>z
  <2>2. Message(a, b).kind = "IMGDATA" /\ v = Message(a, b).value
    BY <1>4, <1>5, <1>v
  <2>3. /\ b > 2 /\ b = 2 + 2 * PacketOf(b) /\ Passed(b) = PacketOf(b)
        /\ PacketOf(b) \in 1 .. Packets(sizes[a])
        /\ v = SubSeq(Picture(a), (PacketOf(b) - 1) * Unit + 1,
                      (PacketOf(b) - 1) * Unit + PacketSize(sizes[a], PacketOf(b)))
    BY <2>1, <2>2, MessageKinds
  <2>4. /\ b > 2 /\ b = 2 + 2 * p /\ Passed(b) = p /\ p \in 1 .. Packets(z)
        /\ v = SubSeq(Picture(a), (p - 1) * Unit + 1, (p - 1) * Unit + PacketSize(z, p))
    BY <1>z, <1>p, <2>3
  <2> QED
    BY <1>d, <1>s, <2>4
<1>7. /\ Packets(z) \in Nat /\ Messages(z) = 2 + 2 * Packets(z) /\ p \in Nat /\ p >= 1
      /\ p - 1 \in Nat /\ p <= Packets(z)
  <2>1. Packets(z) \in Nat /\ Messages(z) = 2 + 2 * Packets(z)
    BY <1>5, PacketCounts
  <2> QED
    BY <1>6, <2>1
<1>8. /\ s \in Nat /\ s > 0 /\ d \in Nat /\ Prefix(z, p - 1) = d /\ Prefix(z, p) = d + s
      /\ d + s <= z
      /\ d + s = z <=> p = Packets(z)
  <2>1. /\ s \in Nat /\ s > 0 /\ d \in Nat /\ Prefix(z, p - 1) = d /\ Prefix(z, p) = d + s
        /\ Prefix(z, p) <= z
        /\ Prefix(z, p) = z <=> p = Packets(z)
    BY <1>5, <1>6, <1>d, <1>s, PrefixSteps
  <2> QED
    BY <2>1
<1>9. /\ v \in Seq(Place) /\ Len(v) = s
      /\ \A i \in 1 .. s : v[i] = <<a, d + i>>
      /\ Picture(a) \in Seq(Place) /\ Len(Picture(a)) = z
      /\ \A i \in 1 .. z : Picture(a)[i] = <<a, i>>
  <2>1. sizes[a] \in 0 .. MaxSize /\ p \in 1 .. Packets(sizes[a])
    BY <1>5, <1>6, <1>z
  <2>x. PICK x : x = SubSeq(Picture(a), (p - 1) * Unit + 1, (p - 1) * Unit + PacketSize(sizes[a], p))
    OBVIOUS
  <2>2. /\ Picture(a) \in Seq(Place) /\ Len(Picture(a)) = sizes[a]
        /\ \A i \in 1 .. sizes[a] : Picture(a)[i] = <<a, i>>
        /\ x \in Seq(Place) /\ Len(x) = PacketSize(sizes[a], p)
        /\ \A i \in 1 .. Len(x) : x[i] = <<a, (p - 1) * Unit + i>>
    BY <1>5, <2>1, <2>x, Pieces
  <2>3. v = x
    BY <1>6, <1>d, <1>s, <1>z, <2>x
  <2> QED
    BY <1>d, <1>s, <1>z, <2>2, <2>3
<1>10. /\ image \in Seq(Place) /\ tempTotal \in Nat /\ tempCount \in Nat /\ count \in Nat
       /\ curr \in Nat /\ total \in Nat /\ shown \in Seq(Seq(Place))
  BY <1>1 DEF TypeOK
<1>11. Len(image) = total
  BY <1>2 DEF Assembled
\* The client was told of the image: it has all of its packets so far, or misses one.
<1>12. ASSUME a \notin unsized
       PROVE  total = z /\ Collected(a, p - 1)
  <2>1. m = a /\ h >= 2 /\ h < b /\ h # Messages(z)
    BY <1>5, <1>6, <1>12
  <2>2. total = z /\ Collected(a, Passed(h))
    BY <1>2, <1>5, <1>12, <2>1, <1>z DEF Assembled
  <2>3. Passed(h) \in Nat /\ Passed(h) <= p - 1
    BY <1>5, <1>6, <1>7, <2>1 DEF Passed
  <2>4. sizes[a] \in Nat /\ p - 1 <= Packets(sizes[a])
    BY <1>5, <1>7, <1>z
  <2> QED
    BY <1>7, <1>10, <2>2, <2>3, <2>4, CollectedLater
<1>c. PICK c : c = tempCount * Unit
  OBVIOUS
<1>13. c \in Nat
  BY <1>10, <1>c DEF ImageTransferAssumption
<1>14. ASSUME a \notin unsized
       PROVE  /\ tempCount <= p - 1 /\ c <= d /\ c + s <= z
              /\ \/ tempCount = p - 1 /\ tempTotal = d /\ \A i \in 1 .. d : image[i] = <<a, i>>
                 \/ tempTotal < d
  <2>1. /\ tempCount <= p - 1
        /\ \/ tempCount = p - 1 /\ tempTotal = d /\ \A i \in 1 .. d : image[i] = <<a, i>>
           \/ tempTotal < d
    BY <1>8, <1>12, <1>14, <1>z DEF Collected
  <2>2. Unit \in Nat
    BY DEF ImageTransferAssumption
  <2>3. c <= d
    <3>q. PICK q \in Nat : q = p - 1
      BY <1>7
    <3>1. tempCount \in Nat /\ tempCount <= q
      BY <1>10, <2>1, <3>q
    <3>2. tempCount * Unit <= q * Unit
      BY <2>2, <3>1
    <3> QED
      BY <1>c, <1>d, <3>2, <3>q
  <2>4. c + s <= z
    BY <1>5, <1>8, <1>13, <2>3
  <2> QED
    BY <2>1, <2>3, <2>4
<1>w. PICK w : w = Written(v)
  OBVIOUS
<1>16. /\ w \in Seq(Place) /\ Len(w) = total
       /\ \A i \in 1 .. total : w[i] = IF i > c /\ i <= c + s THEN v[i - c] ELSE image[i]
  BY <1>9, <1>10, <1>11, <1>c, <1>w, WrittenIs
<1>r. PICK r : r = tempTotal + s
  OBVIOUS
<1>17. /\ overrun' = IF c + s > total THEN v[1][1] ELSE 0
       /\ r = total => /\ shown' = Append(shown, w) /\ image' = <<>>
                       /\ count' = 0 /\ total' = 0 /\ tempTotal' = 0 /\ tempCount' = 0 /\ curr' = 0
       /\ r # total => /\ image' = w /\ tempTotal' = r /\ tempCount' = tempCount + 1
                       /\ count' = count /\ total' = total /\ curr' = curr /\ shown' = shown
  BY <1>9, <1>11, <1>c, <1>r, <1>v, <1>w DEF getImgData
<1>18. overrun' \in {0} \cup unsized' /\ overrun' \in Nat
  <2>1. v[1][1] = a
    <3>1. 1 \in 1 .. s
      BY <1>8
    <3>2. v[1] = <<a, d + 1>>
      BY <1>9, <3>1
    <3> QED
      BY <3>2
  <2>2. CASE a \in unsized
    BY <1>4, <1>5, <1>17, <2>1, <2>2
  <2>3. CASE a \notin unsized
    <3>1. ~(c + s > total)
      BY <1>5, <1>8, <1>12, <1>13, <1>14, <2>3
    <3> QED
      BY <1>17, <3>1
  <2> QED
    BY <2>2, <2>3
<1>19. /\ total # 0 => \A i \in 1 .. Len(shown) : f[i] \in 1 .. Current /\ f[i] < a
       /\ ShownBefore(f, a, b)
  BY <1>1, <1>2, <1>5, NotShownYet, SMTT(30)
\* Nothing is missing so far.
<1>20. ASSUME a \notin unsized, tempCount = p - 1, tempTotal = d,
              \A i \in 1 .. d : image[i] = <<a, i>>
       PROVE  \A i \in 1 .. d + s : w[i] = <<a, i>>
  <2>1. c = d /\ total = z
    BY <1>12, <1>20, <1>c, <1>d
  <2>2. ASSUME NEW i \in 1 .. d + s PROVE w[i] = <<a, i>>
    <3>1. i \in 1 .. z
      BY <1>5, <1>8, <2>2
    <3>2. CASE i > d
      <4>1. i - d \in 1 .. s /\ d + (i - d) = i
        BY <1>8, <2>2, <3>2
      <4>2. w[i] = v[i - d]
        BY <1>8, <1>16, <2>1, <2>2, <3>1, <3>2
      <4> QED
        BY <1>9, <4>1, <4>2
    <3>3. CASE ~(i > d)
      <4>1. w[i] = image[i]
        BY <1>16, <2>1, <3>1, <3>3
      <4>2. i \in 1 .. d
        BY <1>8, <2>2, <3>3
      <4> QED
        BY <1>20, <4>1, <4>2
    <3> QED
      BY <3>2, <3>3
  <2> QED
    BY <2>2
<1>21. CASE r = total
  <2>1. total # 0 /\ b > 2
    BY <1>6, <1>8, <1>10, <1>21, <1>r
  <2>4. ASSUME a \notin unsized PROVE w = Picture(a)
    <3>1. tempCount = p - 1 /\ tempTotal = d /\ \A i \in 1 .. d : image[i] = <<a, i>>
      <4>1. tempTotal + s = z
        BY <1>12, <1>21, <1>r, <2>4
      <4> QED
        BY <1>8, <1>10, <1>14, <2>4, <4>1
    <3>2. d + s = z
      BY <1>12, <1>21, <1>r, <2>4, <3>1
    <3>3. \A i \in 1 .. z : w[i] = Picture(a)[i]
      BY <1>9, <1>20, <2>4, <3>1, <3>2
    <3>q. PICK q : q = Picture(a)
      OBVIOUS
    <3>4. /\ w \in Seq(Place) /\ q \in Seq(Place) /\ Len(w) = Len(q)
          /\ \A i \in 1 .. Len(q) : w[i] = q[i]
      BY <1>9, <1>12, <1>16, <2>4, <3>3, <3>q
    <3>5. w = q
      BY <3>4
    <3> QED
      BY <3>5, <3>q
  <2>5. ClientTyped'
    <3>1. shown' \in Seq(Seq(Place))
      <4>1. shown' = Append(shown, w) /\ w \in Seq(Place) /\ shown \in Seq(Seq(Place))
        BY <1>10, <1>16, <1>17, <1>21
      <4> QED
        BY <4>1, AppendProperties
    <3>2. overrun' \in Nat /\ image' \in Seq(Place)
      BY <1>17, <1>18, <1>21
    <3>3. {total', count', curr', tempTotal', tempCount'} \subseteq Nat
      BY <1>17, <1>21
    <3> QED
      BY <3>1, <3>2, <3>3 DEF ClientTyped
  <2>6. Assembled(a, b)'
    <3>1. Len(image') = total'
      BY <1>17, <1>21
    <3>2. a \notin unsized' => b = Messages(sizes'[a])
      <4>1. ASSUME a \notin unsized PROVE b = Messages(z)
        <5>0. tempTotal \in Nat /\ tempTotal <= d /\ tempTotal + s = z
          BY <1>8, <1>10, <1>12, <1>14, <1>21, <1>r, <4>1
        <5>1. d + s = z
          BY <1>5, <1>8, <5>0
        <5> QED
          BY <1>6, <1>7, <1>8, <5>1
      <4> QED
        BY <1>4, <1>z, <4>1
    <3> QED
      BY <1>18, <3>1, <3>2 DEF Assembled
  <2>N. PICK N \in Nat : N = Len(shown)
    BY <1>10
  <2>F. PICK F : F = [i \in 1 .. N + 1 |-> IF i <= N THEN f[i] ELSE a]
    OBVIOUS
  <2>7. /\ \A i \in 1 .. N : F[i] = f[i] /\ F[i] \in 1 .. Current /\ F[i] < a
        /\ F[N + 1] = a
    BY <1>19, <2>1, <2>N, <2>F
  <2>8. F \in [1 .. N + 1 -> 1 .. Current]
    BY <1>5, <1>19, <2>1, <2>N, <2>F
  <2>9. /\ Len(shown') = N + 1 /\ (shown'[N + 1] = Picture(a) \/ a \in unsized)
        /\ \A i \in 1 .. N : shown'[i] = Picture(f[i]) \/ f[i] \in unsized
    <3>1. shown' = Append(shown, w) /\ w \in Seq(Place) /\ shown \in Seq(Seq(Place))
      BY <1>10, <1>16, <1>17, <1>21
    <3>2. /\ Len(shown') = N + 1 /\ shown'[N + 1] = w
          /\ \A i \in 1 .. N : shown'[i] = shown[i]
      BY <2>N, <3>1, AppendProperties
    <3>3. \A i \in 1 .. N : shown[i] = Picture(f[i]) \/ f[i] \in unsized
      BY <1>19, <2>N DEF ShownBefore
    <3> QED
      BY <2>4, <3>2, <3>3
  <2>10. \A n : Picture(n)' = Picture(n)
    BY <1>4 DEF Picture
  <2>11. ASSUME NEW i \in 1 .. N + 1
         PROVE  /\ shown'[i] = Picture(F[i]) \/ F[i] \in unsized
                /\ F[i] <= a
    <3>1. CASE i \in 1 .. N
      <4>1. F[i] \in 1 .. Current /\ F[i] < a /\ Current \in Nat
        BY <1>1, <2>7, <3>1, Sizes
      <4> QED
        BY <1>5, <2>7, <2>9, <3>1, <4>1
    <3>2. CASE i = N + 1
      BY <1>5, <2>7, <2>9, <3>2
    <3> QED
      BY <2>N, <3>1, <3>2
  <2>12. ASSUME NEW i \in 1 .. N PROVE F[i] < F[i + 1]
    <3>1. CASE i = N
      BY <2>7, <3>1
    <3>2. CASE i # N
      <4>1. i \in 1 .. Len(shown) - 1 /\ i + 1 \in 1 .. N
        BY <2>N, <3>2
      <4>2. f[i] < f[i + 1]
        BY <1>19, <4>1 DEF ShownBefore
      <4> QED
        BY <2>7, <4>1, <4>2
    <3> QED
      BY <3>1, <3>2
  <2>13. ShownBefore(F, a, b)'
    <3>1. Len(shown') - 1 = N
      BY <2>9, <2>N
    <3>2. F \in [1 .. Len(shown') -> 1 .. Current']
      BY <1>4, <2>8, <2>9
    <3>3. \A i \in 1 .. Len(shown') : shown'[i] = Picture(F[i])' \/ F[i] \in unsized'
      BY <1>4, <2>9, <2>10, <2>11
    <3>4. \A i \in 1 .. Len(shown') - 1 : F[i] < F[i + 1]
      BY <2>12, <3>1
    <3>5. \A i \in 1 .. Len(shown') : F[i] <= a /\ (F[i] = a => total' = 0 /\ b > 2)
      BY <1>17, <1>21, <2>1, <2>9, <2>11
    <3> QED
      BY <3>2, <3>3, <3>4, <3>5 DEF ShownBefore
  <2> QED
    BY <1>1, <1>2, <1>3, <2>5, <2>6, <2>13, <1>a, <1>b, AfterHandler
<1>22. CASE r # total
  <2>1. ClientTyped'
    <3>1. {total', count', curr', tempTotal', tempCount'} \subseteq Nat
      BY <1>8, <1>10, <1>17, <1>22, <1>r
    <3>2. image' \in Seq(Place) /\ overrun' \in Nat /\ shown' \in Seq(Seq(Place))
      BY <1>10, <1>16, <1>17, <1>18, <1>22
    <3> QED
      BY <3>1, <3>2 DEF ClientTyped
  <2>2. ASSUME a \notin unsized PROVE Collected(a, p)'
    <3>1. tempCount' <= p
      BY <1>7, <1>10, <1>14, <1>17, <1>22, <2>2
    <3>2. CASE tempCount = p - 1 /\ tempTotal = d /\ \A i \in 1 .. d : image[i] = <<a, i>>
      <4>1. tempCount' = p /\ tempTotal' = d + s
        BY <1>7, <1>17, <1>22, <1>r, <3>2
      <4>2. \A i \in 1 .. tempTotal' : image'[i] = <<a, i>>
        BY <1>17, <1>20, <1>22, <2>2, <3>2, <4>1
      <4>3. tempTotal' = Prefix(sizes'[a], p)
        BY <1>4, <1>8, <1>z, <4>1
      <4> QED
        BY <3>1, <4>1, <4>2, <4>3 DEF Collected
    <3>3. CASE tempTotal < d
      <4>1. tempTotal' < d + s
        BY <1>8, <1>10, <1>17, <1>22, <1>r, <3>3
      <4>2. tempTotal' < Prefix(sizes'[a], p)
        BY <1>4, <1>8, <1>z, <4>1
      <4> QED
        BY <3>1, <4>2 DEF Collected
    <3> QED
      BY <1>14, <2>2, <3>2, <3>3
  <2>3. Assembled(a, b)'
    <3>1. Len(image') = total' /\ (a \notin unsized => total' = sizes'[a])
      BY <1>4, <1>12, <1>16, <1>17, <1>22, <1>z
    <3>2. a \notin unsized' => Collected(a, Passed(b))' /\ total' = sizes'[a]
      BY <1>4, <1>6, <2>2, <3>1
    <3> QED
      BY <1>18, <3>1, <3>2 DEF Assembled
  <2>4. ShownBefore(f, a, b)'
    BY <1>4, <1>17, <1>19, <1>22 DEF ShownBefore, Picture
  <2> QED
    BY <1>1, <1>2, <1>3, <2>1, <2>3, <2>4, <1>a, <1>b, AfterHandler
<1> QED
  BY <1>21, <1>22

-----------------------------------------------------------------------------
(* The invariant, and what follows from it *)

\* A step that changes nothing.
LEMMA StutterTransferKeeps ==
    ASSUME TransferInv, UNCHANGED vars
    PROVE  TransferInv'
<1>1. /\ sizes' = sizes /\ next' = next /\ up' = up /\ wire' = wire
      /\ broken' = broken /\ unsized' = unsized /\ total' = total /\ count' = count /\ curr' = curr /\ tempTotal' = tempTotal
      /\ tempCount' = tempCount /\ image' = image /\ overrun' = overrun /\ shown' = shown
  BY DEF vars, server, client, history
<1>2. TypeOK' /\ wire' \in Seq(AnyMessage)
  BY <1>1 DEF TransferInv, TypeOK
<1>3. PICK g, k, m, h, f : Tagged(g, k, m, h) /\ Assembled(m, h) /\ ShownBefore(f, m, h)
  BY DEF TransferInv
<1>4. Current' = Current /\ AllSent' = AllSent
  BY <1>1 DEF Current, AllSent
<1>5. Tagged(g, k, m, h)'
  BY <1>1, <1>3, <1>4
     DEF Tagged, OnWire, InOrder, AnnouncedFirst, Handled, Message, Picture
<1>6. Assembled(m, h)' /\ ShownBefore(f, m, h)'
  BY <1>1, <1>3, <1>4 DEF Assembled, Collected, ShownBefore, Picture
<1> QED
  BY <1>2, <1>5, <1>6 DEF TransferInv

\* Every step of the server, the pipe and the client keeps the invariant.
LEMMA NextTransferInv ==
    ASSUME ImageTransferAssumption, TransferInv, [Next]_vars
    PROVE  TransferInv'
<1>1. CASE NextImage
  BY <1>1, NextImageKeeps
<1>2. CASE Send
  BY <1>2, SendKeeps
<1>3. CASE SendFails
  BY <1>3, SendFailsKeeps
<1>4. CASE Paused
  BY <1>4, PausedKeeps
<1>5. CASE getCount
  BY <1>5, GetCountKeeps
<1>6. CASE getTotal
  BY <1>6, GetTotalKeeps
<1>7. CASE getCurr
  BY <1>7, GetCurrKeeps
<1>8. CASE getImgData
  BY <1>8, GetImgDataKeeps
<1>9. CASE Connect
  BY <1>9, ConnectKeeps
<1>10. CASE Disconnect
  BY <1>10, DisconnectKeeps
<1>11. CASE UNCHANGED vars
  BY <1>11, StutterTransferKeeps
<1> QED
  BY <1>1, <1>2, <1>3, <1>4, <1>5, <1>6, <1>7, <1>8, <1>9, <1>10, <1>11 DEF Next, Handle

\* The messages on the wire are of the images in their order, each image announced
\* before its packets or its CMD_TOTALSIZE lost, and of an announced image the client
\* has a prefix or too little.
THEOREM TransferGoesOn == Spec => []TransferInv
<1>1. Init => TransferInv
  BY InitTransferInv, ImageTransferAssumption
<1>2. TransferInv /\ [Next]_vars => TransferInv'
  BY NextTransferInv, ImageTransferAssumption
<1> QED
  BY <1>1, <1>2, PTL DEF Spec

\* The fields of the server and of PipeClient keep their types (TypeOK).
THEOREM TypeCorrect == Spec => []TypeOK
<1>1. TransferInv => TypeOK
  BY DEF TransferInv
<1> QED
  BY <1>1, TransferGoesOn, PTL

\* gotImage is emitted with the images of the server, in their order and at most once,
\* each whole unless its own CMD_TOTALSIZE was lost (ShownImagesAreExact).
THEOREM ShowsExactImages == Spec => []ShownImagesAreExact
<1>1. TransferInv => ShownImagesAreExact
  BY DEF TransferInv, ShownBefore, ShownImagesAreExact, Current
<1> QED
  BY <1>1, TransferGoesOn, PTL

\* image is as long as total says, and getImgData writes inside of it the data of every
\* image but those whose own CMD_TOTALSIZE was lost (OverrunNeedsLostSize).
THEOREM OverrunsNeedLostSize == Spec => []OverrunNeedsLostSize
<1>1. TransferInv => OverrunNeedsLostSize
  BY DEF TransferInv, Assembled, OverrunNeedsLostSize
<1> QED
  BY <1>1, TransferGoesOn, PTL
=============================================================================
