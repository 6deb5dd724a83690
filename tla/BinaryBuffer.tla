---------------------------- MODULE BinaryBuffer ----------------------------
(***************************************************************************)
(* c_bindata_bufer (src/winapiPipe/data_bufer.h): bytes with a position,   *)
(* as functions from a buffer to the buffer after the call.  The position  *)
(* may be beyond the end after skip; write fills the gap with zeros.       *)
(***************************************************************************)
EXTENDS Naturals, Sequences

CONSTANTS Byte, Zero  \* the values of a byte, among them what resize() fills in

Buffer == [data : Seq(Byte), cur : Nat]

Empty == [data |-> <<>>, cur |-> 0]

Larger(m, n) == IF m < n THEN n ELSE m
Smaller(m, n) == IF m < n THEN m ELSE n

eof(b) == b.cur >= Len(b.data)

get_current_pos(b) == IF eof(b) THEN Len(b.data) ELSE b.cur

get_avail_size(b) == Len(b.data) - get_current_pos(b)

\* The bytes from get_current_point on; it throws at the end of the buffer.
Avail(b) == SubSeq(b.data, b.cur + 1, Len(b.data))

\* An empty block clears the buffer, and leaves the position.
Attach(b, bytes) ==
    IF bytes = <<>> THEN [b EXCEPT !.data = <<>>] ELSE [data |-> bytes, cur |-> 0]

\* What is there is overwritten; the buffer grows when it must.
write(b, bytes) ==
    LET after == b.cur + Len(bytes)
        Old(i) == IF i <= Len(b.data) THEN b.data[i] ELSE Zero
    IN IF bytes = <<>> THEN b
       ELSE [data |-> [i \in 1 .. Larger(after, Len(b.data)) |->
                          IF b.cur < i /\ i <= after THEN bytes[i - b.cur] ELSE Old(i)],
             cur |-> after]

\* read: the bytes it copies (at most n), and the buffer after it.
BytesRead(b, n) == SubSeq(b.data, b.cur + 1, b.cur + Smaller(n, get_avail_size(b)))
AfterRead(b, n) == [b EXCEPT !.cur = b.cur + Smaller(n, get_avail_size(b))]

skip(b, n) == [b EXCEPT !.cur = b.cur + n]

reset(b) == [b EXCEPT !.cur = 0]

=============================================================================
