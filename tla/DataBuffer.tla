----------------------------- MODULE DataBuffer -----------------------------
(***************************************************************************)
(* DataBuffer.cpp: an array of bytes with a write offset and a read        *)
(* offset.  A buffer is a record; every method that changes the object is  *)
(* an operator that returns the new one.  Memory that nobody has written   *)
(* yet holds Junk, which is no byte: the code reads whatever is there.     *)
(* Integers of more than a byte are the sequences of their bytes.          *)
(***************************************************************************)
EXTENDS Integers, Sequences

Byte == 0 .. 255
Junk == 256
Memory == Byte \cup {Junk}

Buffers == [data : Seq(Memory), write : Nat, read : Nat]

\* What the offsets of a buffer satisfy as long as it is not read past what has
\* been written: ReadByte and ReadLongLong do that, and MoveWriteBackward leaves
\* the read offset where it is.
InOrder(b) == b.read <= b.write /\ b.write <= Len(b.data)

Lesser(m, n) == IF m <= n THEN m ELSE n
Fill(byte, n) == [i \in 1 .. n |-> byte]

\* Alloc, and the constructors; a buffer without memory is one of no bytes.
NewBuffer(n) == [data |-> Fill(Junk, n), write |-> 0, read |-> 0]

\* Assignment and copying: an empty buffer leaves the target as it was.
Assign(target, b) == IF b.data = <<>> THEN target ELSE b

BytesLeftToRead(b) == IF b.write > b.read THEN b.write - b.read ELSE 0
BytesLeftForWrite(b) == IF Len(b.data) > b.write THEN Len(b.data) - b.write ELSE 0

ResetRead(b) == [b EXCEPT !.read = 0]
Reset(b) == [ResetRead(b) EXCEPT !.write = 0]

\* Mistake: the read offset is not held back by what has been written.
MoveReadPast(b, n) == [b EXCEPT !.read = b.read + n]

MoveReadForward(b, n) == [b EXCEPT !.read = Lesser(b.read + n, b.write)]
MoveWriteForward(b, n) == [b EXCEPT !.write = Lesser(b.write + n, Len(b.data))]

\* Backwards, the unsigned offset may wrap, which ends at zero.
MoveReadBackward(b, n) ==
  [b EXCEPT !.read = IF n <= b.read /\ b.read - n <= b.write THEN b.read - n ELSE 0]
MoveWriteBackward(b, n) == [b EXCEPT !.write = IF n <= b.write THEN b.write - n ELSE 0]

\* The data of b with bytes put behind what has been written, as memcpy and recv
\* do at GetWritePtr.
Put(b, bytes) ==
  [i \in 1 .. Len(b.data) |->
     IF i \in b.write + 1 .. b.write + Len(bytes) THEN bytes[i - b.write] ELSE b.data[i]]

\* WriteBytes writes as many bytes as there is room for.
WriteBytes(b, bytes) ==
  LET n == Lesser(Len(bytes), BytesLeftForWrite(b))
  IN  MoveWriteForward([b EXCEPT !.data = Put(b, SubSeq(bytes, 1, n))], n)

\* WriteByte, WriteShort, WriteInt and WriteLongLong write all of it or nothing.
WriteWord(b, word) ==
  IF b.write + Len(word) <= Len(b.data) THEN WriteBytes(b, word) ELSE b

\* What ReadByte, ReadShort, ReadInt and ReadLongLong return of n bytes.  The test
\* is against the size of the buffer, not against what has been written.
Word(b, n) == IF b.read + n <= Len(b.data) THEN SubSeq(b.data, b.read + 1, b.read + n)
              ELSE Fill(0, n)

\* The buffer after ReadShort and ReadInt, which hold the read offset back (or even
\* take it back) to what has been written, and after the two that do not.
ReadWord(b, n) == IF b.read + n <= Len(b.data) THEN MoveReadForward(b, n) ELSE b
ReadPast(b, n) == IF b.read + n <= Len(b.data) THEN [b EXCEPT !.read = b.read + n] ELSE b

\* ReadLongLong of the eight bytes w: the fifth is shifted as a signed int, so
\* that from 0x80 on its sign fills the upper half.
LongLong(w) == IF w[5] \in Byte /\ w[5] >= 128 THEN Fill(255, 4) \o SubSeq(w, 5, 8) ELSE w

\* What ReadBytes copies, at most n bytes; MoveReadForward(b, n) is the buffer
\* after it.
BytesRead(b, n) == SubSeq(b.data, b.read + 1, b.read + Lesser(n, BytesLeftToRead(b)))

\* What ReadAllBytes copies; it moves nothing.
ReadAllBytes(b) == SubSeq(b.data, 1, b.write)

\* Realloc reads the old array from its beginning into a new one of n bytes, as
\* much of it as has been written, and holds both offsets back to the new size.
Realloc(b, n) ==
  LET old    == ResetRead(b)
      copied == BytesRead(old, n)
      moved  == MoveReadForward(old, Len(copied))
  IN  IF b.data = <<>> THEN NewBuffer(n)
      ELSE [data |-> copied \o Fill(Junk, n - Len(copied)),
            write |-> Lesser(b.write, n), read |-> Lesser(moved.read, n)]
=============================================================================
