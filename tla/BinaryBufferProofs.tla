------------------------- MODULE BinaryBufferProofs -------------------------
(***************************************************************************)
(* What the operations of c_bindata_bufer do, for every buffer: facts      *)
(* MakeEnvelop rests on.                                                   *)
(***************************************************************************)
EXTENDS BinaryBuffer, SequenceTheorems, TLAPS

\* write puts its bytes at the position, keeps the others, and moves behind them.
LEMMA WriteBytes ==
    ASSUME NEW b \in Buffer, NEW bytes \in Seq(Byte), bytes # <<>>, b.cur <= Len(b.data)
    PROVE  LET w == write(b, bytes)
               after == b.cur + Len(bytes)
           IN /\ w \in Buffer
              /\ w.cur = after
              /\ Len(w.data) = Larger(after, Len(b.data))
              /\ \A i \in 1 .. Len(w.data) :
                    w.data[i] = IF b.cur < i /\ i <= after THEN bytes[i - b.cur] ELSE b.data[i]
<1> DEFINE after == b.cur + Len(bytes)
           size == Larger(after, Len(b.data))
           Value(i) == IF b.cur < i /\ i <= after THEN bytes[i - b.cur]
                       ELSE IF i <= Len(b.data) THEN b.data[i] ELSE Zero
           grown == [i \in 1 .. size |-> Value(i)]
<1>1. b.data \in Seq(Byte) /\ b.cur \in Nat /\ Len(b.data) \in Nat /\ Len(bytes) \in Nat
  BY DEF Buffer
<1>2. after \in Nat /\ size \in Nat /\ after <= size /\ Len(b.data) <= size
  BY <1>1 DEF Larger
<1>3. ASSUME NEW i \in 1 .. size
      PROVE  /\ Value(i) \in Byte
             /\ Value(i) = IF b.cur < i /\ i <= after THEN bytes[i - b.cur] ELSE b.data[i]
  <2>1. CASE b.cur < i /\ i <= after
    <3>1. i - b.cur \in 1 .. Len(bytes)
      BY <1>1, <1>2, <2>1
    <3> QED
      BY <2>1, <3>1
  <2>2. CASE ~(b.cur < i /\ i <= after)
    <3>1. i \in 1 .. Len(b.data)
      BY <1>1, <1>2, <2>2 DEF Larger
    <3> QED
      BY <1>1, <2>2, <3>1
  <2> QED
    BY <2>1, <2>2
<1>4. grown \in Seq(Byte) /\ Len(grown) = size
  BY <1>2, <1>3
<1>5. write(b, bytes) = [data |-> grown, cur |-> after]
  BY DEF write
<1> QED
  BY <1>2, <1>3, <1>4, <1>5 DEF Buffer

\* MakeEnvelop puts the cached piece of a header in front of the bytes of a read by
\* writing the piece over them and then all of them again behind it: whatever the
\* lengths, the buffer holds the piece, then the read, and is read from its start.
THEOREM CachedPieceIsRestored ==
    ASSUME NEW b \in Buffer, b.cur = 0, NEW cached \in Seq(Byte), cached # <<>>
    PROVE  reset(write(write(b, cached), b.data)) = [data |-> cached \o b.data, cur |-> 0]
<1> DEFINE w == write(b, cached)
           v == write(w, b.data)
<1>1. b.data \in Seq(Byte) /\ Len(b.data) \in Nat /\ Len(cached) \in Nat /\ b.cur <= Len(b.data)
  BY DEF Buffer
<1>2. /\ w \in Buffer /\ w.cur = Len(cached)
      /\ Len(w.data) = Larger(Len(cached), Len(b.data))
      /\ \A i \in 1 .. Len(w.data) : w.data[i] = IF i <= Len(cached) THEN cached[i] ELSE b.data[i]
  <2>1. LET after == b.cur + Len(cached)
        IN /\ w \in Buffer
           /\ w.cur = after
           /\ Len(w.data) = Larger(after, Len(b.data))
           /\ \A i \in 1 .. Len(w.data) :
                 w.data[i] = IF b.cur < i /\ i <= after THEN cached[i - b.cur] ELSE b.data[i]
    BY <1>1, WriteBytes
  <2>2. b.cur + Len(cached) = Len(cached) /\ Len(w.data) \in Nat
    BY <1>1, <2>1 DEF Larger
  <2>3. ASSUME NEW i \in 1 .. Len(w.data)
        PROVE  (b.cur < i /\ i <= b.cur + Len(cached) <=> i <= Len(cached)) /\ i - b.cur = i
    BY <1>1, <2>2
  <2> QED
    BY <2>1, <2>2, <2>3
<1>3. /\ v.data \in Seq(Byte)
      /\ v.data = cached \o b.data
  <2>1. CASE b.data = <<>>
    <3>1. Len(w.data) = Len(cached) /\ w.data \in Seq(Byte) /\ v = w
      BY <1>1, <1>2, <2>1 DEF Larger, Buffer, write
    <3>2. w.data = cached
      BY <1>1, <1>2, <3>1
    <3> QED
      BY <2>1, <3>1, <3>2
  <2>2. CASE b.data # <<>>
    <3>0. w.cur <= Len(w.data) /\ Len(w.data) \in Nat
      BY <1>1, <1>2 DEF Larger
    <3>1. /\ v \in Buffer
          /\ Len(v.data) = Larger(Len(cached) + Len(b.data), Len(w.data))
          /\ \A i \in 1 .. Len(v.data) :
                v.data[i] = IF Len(cached) < i /\ i <= Len(cached) + Len(b.data)
                            THEN b.data[i - Len(cached)] ELSE w.data[i]
      <4> HIDE DEF w, v
      <4>1. v = write(w, b.data)
        BY DEF v
      <4>2. LET after == w.cur + Len(b.data)
            IN /\ v \in Buffer
               /\ v.cur = after
               /\ Len(v.data) = Larger(after, Len(w.data))
               /\ \A i \in 1 .. Len(v.data) :
                     v.data[i] = IF w.cur < i /\ i <= after THEN b.data[i - w.cur] ELSE w.data[i]
        BY <1>1, <1>2, <2>2, <3>0, <4>1, WriteBytes
      <4> QED
        BY <1>2, <4>2
    <3>2. Len(v.data) = Len(cached) + Len(b.data)
      BY <1>1, <1>2, <3>1 DEF Larger
    <3>3. v.data \in Seq(Byte)
      BY <3>1 DEF Buffer
    <3>4. ASSUME NEW i \in 1 .. Len(v.data) PROVE v.data[i] = (cached \o b.data)[i]
      <4>1. CASE i <= Len(cached)
        BY <1>1, <1>2, <3>1, <3>2, <4>1 DEF Larger
      <4>2. CASE i > Len(cached)
        BY <1>1, <1>2, <3>1, <3>2, <4>2
      <4> QED
        BY <1>1, <3>2, <4>1, <4>2
    <3> QED
      BY <1>1, <3>2, <3>3, <3>4, SMTT(30)
  <2> QED
    BY <2>1, <2>2
<1>4. v \in Buffer
  <2>1. CASE b.data = <<>>
    BY <1>2, <2>1 DEF write
  <2>2. CASE b.data # <<>>
    BY <1>1, <1>2, <2>2, WriteBytes DEF Larger
  <2> QED
    BY <2>1, <2>2
<1> HIDE DEF v
<1>5. reset(v) = [data |-> v.data, cur |-> 0]
  BY <1>4 DEF reset, Buffer
<1> QED
  BY <1>3, <1>5 DEF v

\* Two adjacent pieces of a sequence are one.
LEMMA TwoPieces ==
    ASSUME NEW q \in Seq(Byte), NEW a \in Nat, NEW k \in Nat, a + k <= Len(q)
    PROVE  /\ Len(SubSeq(q, a + 1, a + k)) = k
           /\ SubSeq(q, a + 1, a + k) \o SubSeq(q, a + k + 1, Len(q)) = SubSeq(q, a + 1, Len(q))
<1>1. /\ Len(q) \in Nat
      /\ a + 1 \in 1 .. Len(q) + 1
      /\ a + k \in (a + 1) - 1 .. Len(q)
      /\ Len(q) \in a + k .. Len(q)
  OBVIOUS
<1>2. Len(SubSeq(q, a + 1, a + k)) = k
  OBVIOUS
<1> QED
  BY <1>1, <1>2, ConcatAdjacentSubSeq

\* A read takes bytes away from what was left, from its start, and loses none.
THEOREM ReadTakesInOrder ==
    ASSUME NEW b \in Buffer, b.cur <= Len(b.data), NEW n \in Nat
    PROVE  /\ BytesRead(b, n) \o Avail(AfterRead(b, n)) = Avail(b)
           /\ Len(BytesRead(b, n)) = Smaller(n, get_avail_size(b))
           /\ AfterRead(b, n).cur <= Len(b.data)
<1>1. b.data \in Seq(Byte) /\ b.cur \in Nat /\ Len(b.data) \in Nat
  BY DEF Buffer
<1> DEFINE k == Smaller(n, get_avail_size(b))
<1>2. k \in Nat /\ b.cur + k <= Len(b.data)
  BY <1>1 DEF Smaller, get_avail_size, get_current_pos, eof
<1> HIDE DEF k
<1>3. AfterRead(b, n).data = b.data /\ AfterRead(b, n).cur = b.cur + k
  BY DEF AfterRead, Buffer, k
<1>4. BytesRead(b, n) = SubSeq(b.data, b.cur + 1, b.cur + k)
  BY DEF BytesRead, k
<1>5. /\ Len(SubSeq(b.data, b.cur + 1, b.cur + k)) = k
      /\ SubSeq(b.data, b.cur + 1, b.cur + k) \o SubSeq(b.data, b.cur + k + 1, Len(b.data))
           = SubSeq(b.data, b.cur + 1, Len(b.data))
  BY <1>1, <1>2, TwoPieces
<1> QED
  BY <1>2, <1>3, <1>4, <1>5 DEF Avail, k

=============================================================================
