--------------------------- MODULE MessagesProofs ---------------------------
(***************************************************************************)
(* Theorems about buffers and messages: what building and parsing do, for  *)
(* all messages and all bytes.                                             *)
(***************************************************************************)
EXTENDS Messages, SequenceTheorems, TLAPS

\* A buffer whose write offset lies within its data.
Shape == [data : Seq(Memory), write : Nat, read : Int]
Sound(b) == b \in Shape /\ b.write <= Len(b.data)

LEMMA BytesAreNumbers == Byte \subseteq Nat /\ Memory \subseteq Nat /\ 0 \in Byte
BY DEF Byte, Memory, Junk

LEMMA SizesType ==
  /\ BuildSize \in Nat /\ BuildSize >= 32
  /\ KeyLenLimit \in Nat \ {0} /\ KeyLenLimit \in Nat /\ KeyLenLimit > 0
  /\ KeyLenLimit <= 65536
BY SizesAssumption

\* A sequence made by an expression is one.
LEMMA FillType ==
  ASSUME NEW byte \in Memory, NEW n \in Nat
  PROVE  Fill(byte, n) \in Seq(Memory) /\ Len(Fill(byte, n)) = n
BY DEF Fill

LEMMA NewBufferSound ==
  ASSUME NEW n \in Nat
  PROVE  Sound(NewBuffer(n)) /\ NewBuffer(n).write = 0 /\ Len(NewBuffer(n).data) = n
BY FillType DEF NewBuffer, Sound, Shape, Memory, Junk

\* Moving the read offset changes nothing else.
LEMMA MoveReadSound ==
  ASSUME NEW b, Sound(b), NEW n \in Int
  PROVE  /\ Sound(MoveReadForward(b, n)) /\ MoveReadForward(b, n).data = b.data
         /\ MoveReadForward(b, n).write = b.write
BY DEF MoveReadForward, Sound, Shape, Lesser

LEMMA ResetSound ==
  ASSUME NEW b, Sound(b)
  PROVE  /\ Sound(Reset(b)) /\ Reset(b).data = b.data /\ Reset(b).write = 0
         /\ Sound(ResetRead(b)) /\ ResetRead(b).data = b.data
         /\ ResetRead(b).write = b.write
<1>1. /\ Sound(ResetRead(b)) /\ ResetRead(b).data = b.data
      /\ ResetRead(b).write = b.write
  BY DEF ResetRead, Sound, Shape
<1>2. ASSUME NEW c, Sound(c)
      PROVE  LET r == [c EXCEPT !.write = 0]
             IN  Sound(r) /\ r.data = c.data /\ r.write = 0
  <2>1. Len(c.data) \in Nat BY <1>2, LenProperties DEF Sound, Shape
  <2>. QED BY <1>2, <2>1 DEF Sound, Shape
<1>. QED BY <1>1, <1>2 DEF Reset

\* Moving the write offset stays within the data.
LEMMA MoveWriteSound ==
  ASSUME NEW b, Sound(b), NEW n \in Nat
  PROVE  /\ Sound(MoveWriteForward(b, n)) /\ MoveWriteForward(b, n).data = b.data
         /\ b.write <= MoveWriteForward(b, n).write
         /\ MoveWriteForward(b, n).write <= b.write + n
BY DEF MoveWriteForward, Sound, Shape, Lesser

\* Put keeps the size of the data.
LEMMA PutType ==
  ASSUME NEW b, Sound(b), NEW bytes \in Seq(Memory)
  PROVE  Put(b, bytes) \in Seq(Memory) /\ Len(Put(b, bytes)) = Len(b.data)
<1>1. b.data \in Seq(Memory) /\ b.write \in Nat BY DEF Sound, Shape
<1>2. Len(b.data) \in Nat /\ Len(bytes) \in Nat BY <1>1, LenProperties
<1>3. ASSUME NEW i \in 1 .. Len(b.data)
      PROVE  (IF i \in b.write + 1 .. b.write + Len(bytes)
              THEN bytes[i - b.write] ELSE b.data[i]) \in Memory
  <2>1. CASE i \in b.write + 1 .. b.write + Len(bytes)
    <3>1. i - b.write \in 1 .. Len(bytes) BY <1>1, <1>2, <2>1
    <3>2. bytes[i - b.write] \in Memory BY <3>1, ElementOfSeq
    <3>. QED BY <2>1, <3>2
  <2>2. CASE i \notin b.write + 1 .. b.write + Len(bytes)
    BY <1>1, <2>2, ElementOfSeq
  <2>. QED BY <2>1, <2>2
<1>. QED BY <1>2, <1>3 DEF Put

\* WriteBytes writes within the data, and does not take the offset back.
LEMMA WriteBytesSound ==
  ASSUME NEW b, Sound(b), NEW bytes \in Seq(Memory)
  PROVE  /\ Sound(WriteBytes(b, bytes)) /\ Len(WriteBytes(b, bytes).data) = Len(b.data)
         /\ b.write <= WriteBytes(b, bytes).write
         /\ WriteBytes(b, bytes).write <= b.write + Len(bytes)
<1> DEFINE n == Lesser(Len(bytes), BytesLeftForWrite(b))
           part == SubSeq(bytes, 1, n)
           c == [b EXCEPT !.data = Put(b, part)]
<1>1. b.data \in Seq(Memory) /\ b.write \in Nat BY DEF Sound, Shape
<1>2. Len(b.data) \in Nat /\ Len(bytes) \in Nat BY <1>1, LenProperties
<1>3. n \in Nat /\ n <= Len(bytes) BY <1>1, <1>2 DEF Lesser, BytesLeftForWrite
<1>4. part \in Seq(Memory)
  <2>1. \A i \in 1 .. n : bytes[i] \in Memory BY <1>2, <1>3, ElementOfSeq
  <2>. QED BY <1>3, <2>1, SubSeqProperties
<1>5. Put(b, part) \in Seq(Memory) /\ Len(Put(b, part)) = Len(b.data) BY <1>4, PutType
<1>6. Sound(c) /\ Len(c.data) = Len(b.data) /\ c.write = b.write
  BY <1>5 DEF Sound, Shape
<1>7. /\ Sound(MoveWriteForward(c, n)) /\ MoveWriteForward(c, n).data = c.data
      /\ c.write <= MoveWriteForward(c, n).write
      /\ MoveWriteForward(c, n).write <= c.write + n
  BY <1>3, <1>6, MoveWriteSound
<1>8. WriteBytes(b, bytes) = MoveWriteForward(c, n) BY DEF WriteBytes
<1>. HIDE DEF n, part, c
<1>9. MoveWriteForward(c, n).write \in Nat BY <1>7 DEF Sound, Shape
<1>. QED BY <1>1, <1>2, <1>3, <1>6, <1>7, <1>8, <1>9

LEMMA WriteWordSound ==
  ASSUME NEW b, Sound(b), NEW word \in Seq(Memory)
  PROVE  Sound(WriteWord(b, word)) /\ b.write <= WriteWord(b, word).write
<1>1. b.write <= b.write BY DEF Sound, Shape
<1>. QED BY <1>1, WriteBytesSound DEF WriteWord

\* What DataBuffer.h:18 says of Realloc, "maintaining whatever data has been written",
\* for every size, also a smaller one: although the copying goes by way of the read
\* offset, wherever that was, the new array begins with what had been written, as far
\* as it fits, the write offset is behind that, and the read offset ends up there too.
THEOREM ReallocKeepsWritten ==
  ASSUME NEW b, Sound(b), NEW n \in Nat
  PROVE  /\ Sound(Realloc(b, n)) /\ Len(Realloc(b, n).data) = n
         /\ Realloc(b, n).write = Lesser(b.write, n)
         /\ Realloc(b, n).read = Realloc(b, n).write
         /\ \A i \in 1 .. Lesser(b.write, n) : Realloc(b, n).data[i] = b.data[i]
<1> DEFINE old    == ResetRead(b)
           kept   == Lesser(b.write, n)
           copied == BytesRead(old, n)
           moved  == MoveReadForward(old, Len(copied))
           rest   == Fill(Junk, n - Len(copied))
<1>1. b.data \in Seq(Memory) /\ b.write \in Nat /\ b.write <= Len(b.data)
  BY DEF Sound, Shape
<1>2. Len(b.data) \in Nat BY <1>1, LenProperties
<1>3. kept \in Nat /\ kept <= n /\ kept <= b.write BY <1>1 DEF Lesser
<1>4. old.data = b.data /\ old.write = b.write /\ old.read = 0 BY DEF ResetRead, Sound, Shape
<1>5. copied = SubSeq(b.data, 1, kept)
  <2>1. BytesLeftToRead(old) = b.write BY <1>1, <1>4 DEF BytesLeftToRead
  <2>2. Lesser(n, b.write) = kept BY <1>1 DEF Lesser
  <2>. HIDE DEF kept, old
  <2>3. copied = SubSeq(b.data, 0 + 1, 0 + kept) BY <1>4, <2>1, <2>2 DEF BytesRead
  <2>4. 0 + 1 = 1 /\ 0 + kept = kept BY <1>3
  <2>. QED BY <2>3, <2>4
<1>6. /\ copied \in Seq(Memory) /\ Len(copied) = kept
      /\ \A i \in 1 .. kept : copied[i] = b.data[i]
  <2>1. ASSUME NEW i \in 1 .. kept PROVE b.data[i] \in Memory
    <3>1. i \in 1 .. Len(b.data) BY <1>1, <1>2, <1>3
    <3>. QED BY <1>1, <3>1, ElementOfSeq
  <2>. HIDE DEF kept, copied
  <2>2. 1 \in Int /\ kept \in Int /\ kept - 1 + 1 = kept BY <1>3
  <2>3. Len(copied) = kept /\ copied \in Seq(Memory)
    BY <1>3, <1>5, <2>1, <2>2, SubSeqProperties
  <2>4. \A i \in 1 .. kept : copied[i] = b.data[i]
    <3>1. ASSUME NEW i \in 1 .. kept PROVE copied[i] = b.data[i]
      <4>1. i \in 1 .. kept - 1 + 1 /\ 1 + i - 1 = i BY <1>3
      <4>. QED BY <1>5, <2>1, <2>2, <4>1, SubSeqProperties
    <3>. QED BY <3>1
  <2>. QED BY <2>3, <2>4
<1>7. rest \in Seq(Memory) /\ Len(rest) = n - kept
  <2>1. n - Len(copied) \in Nat BY <1>3, <1>6
  <2>2. Junk \in Memory BY DEF Memory
  <2>. HIDE DEF copied, kept
  <2>3. rest \in Seq(Memory) /\ Len(rest) = n - Len(copied) BY <2>1, <2>2, FillType
  <2>. QED BY <1>6, <2>3
<1>8. moved.read = kept
  <2>1. Lesser(0 + kept, b.write) = kept BY <1>1, <1>3 DEF Lesser
  <2>. HIDE DEF kept, copied
  <2>2. moved.read = Lesser(0 + kept, b.write)
    BY <1>4, <1>6 DEF MoveReadForward, ResetRead, Sound, Shape
  <2>. QED BY <2>1, <2>2
<1>9. Lesser(moved.read, n) = kept BY <1>3, <1>8 DEF Lesser
<1> DEFINE d == copied \o rest
<1>. HIDE DEF copied, rest, kept, moved
<1>10. /\ d \in Seq(Memory) /\ Len(d) = n
       /\ \A i \in 1 .. kept : d[i] = b.data[i]
  <2>1. /\ d \in Seq(Memory) /\ Len(d) = Len(copied) + Len(rest)
        /\ \A i \in 1 .. Len(copied) + Len(rest) :
             d[i] = IF i <= Len(copied) THEN copied[i] ELSE rest[i - Len(copied)]
    BY <1>6, <1>7, ConcatProperties
  <2>. HIDE DEF d
  <2>2. Len(d) = n BY <1>3, <1>6, <1>7, <2>1
  <2>3. ASSUME NEW i \in 1 .. kept PROVE d[i] = b.data[i]
    <3>1. i \in 1 .. Len(copied) + Len(rest) /\ i <= Len(copied) BY <1>3, <1>6, <1>7
    <3>. QED BY <1>6, <2>1, <3>1
  <2>. QED BY <2>1, <2>2, <2>3
<1>11. CASE b.data = <<>>
  <2>1. Realloc(b, n) = NewBuffer(n) BY <1>11 DEF Realloc
  <2>2. b.write = 0 BY <1>1, <1>11
  <2>3. kept = 0 BY <2>2 DEF kept, Lesser
  <2>4. NewBuffer(n).read = 0 BY DEF NewBuffer
  <2>. QED BY <2>1, <2>3, <2>4, NewBufferSound DEF kept
<1>12. CASE b.data # <<>>
  <2>1. Realloc(b, n) = [data |-> d, write |-> kept, read |-> kept]
    BY <1>9, <1>12 DEF Realloc, copied, rest, kept, moved
  <2>. HIDE DEF d
  <2>. QED BY <1>3, <1>10, <2>1 DEF Sound, Shape, kept
<1>. QED BY <1>11, <1>12

\* To at least the written part: all of it is kept.
LEMMA ReallocLarger ==
  ASSUME NEW b, Sound(b), NEW n \in Nat, b.write <= n
  PROVE  /\ Sound(Realloc(b, n)) /\ Len(Realloc(b, n).data) = n
         /\ Realloc(b, n).write = b.write /\ Realloc(b, n).read = b.write
         /\ \A i \in 1 .. b.write : Realloc(b, n).data[i] = b.data[i]
<1>1. Lesser(b.write, n) = b.write BY DEF Lesser, Sound, Shape
<1>. QED BY <1>1, ReallocKeepsWritten
-----------------------------------------------------------------------------
(* Building: what is sent is a sequence of bytes *)

LEMMA ConcatType ==
  ASSUME NEW s \in Seq(Byte), NEW t \in Seq(Byte)
  PROVE  s \o t \in Seq(Byte)
OBVIOUS

LEMMA ModIsByte ==
  ASSUME NEW n \in Int
  PROVE  n % 256 \in Byte
BY DEF Byte

LEMMA BytesType ==
  ASSUME NEW n \in Nat
  PROVE  Bytes2(n) \in Seq(Byte) /\ Bytes4(n) \in Seq(Byte)
<1>1. ASSUME NEW k \in Nat PROVE Bytes2(k) \in Seq(Byte)
  <2>1. k \div 256 \in Int OBVIOUS
  <2>2. k % 256 \in Byte /\ (k \div 256) % 256 \in Byte BY <2>1, ModIsByte
  <2>. QED BY <2>2 DEF Bytes2
<1>2. n \div 65536 \in Nat BY SMT
<1>. QED BY <1>1, <1>2, ConcatType DEF Bytes4

Headers == [magic : Byte, opcode : Byte, keyLen : Nat, extrasLen : Byte, dataType : Byte,
            status : Nat, total : Nat, opaque : Seq(Byte), cas : Seq(Byte)]

LEMMA HeaderBytesType ==
  ASSUME NEW h \in Headers
  PROVE  HeaderBytes(h) \in Seq(Byte)
<1>1. /\ h.magic \in Byte /\ h.opcode \in Byte /\ h.extrasLen \in Byte /\ h.dataType \in Byte
      /\ h.keyLen \in Nat /\ h.status \in Nat /\ h.total \in Nat
      /\ h.opaque \in Seq(Byte) /\ h.cas \in Seq(Byte)
  BY DEF Headers
<1>2. <<h.magic, h.opcode>> \in Seq(Byte) /\ <<h.extrasLen, h.dataType>> \in Seq(Byte)
  BY <1>1
<1>3. /\ Bytes2(h.keyLen) \in Seq(Byte) /\ Bytes2(h.status) \in Seq(Byte)
      /\ Bytes4(h.total) \in Seq(Byte)
  BY <1>1, BytesType
<1>. HIDE DEF Headers
<1>. QED BY <1>1, <1>2, <1>3, ConcatType DEF HeaderBytes

LEMMA BytesAreMemory ==
  ASSUME NEW s \in Seq(Byte)
  PROVE  s \in Seq(Memory)
BY SeqMonotonic DEF Memory

\* The buffer grows when it has to, and the offset is not taken back.
LEMMA WriteGrowingSound ==
  ASSUME NEW b, Sound(b), NEW bytes \in Seq(Memory)
  PROVE  Sound(WriteGrowing(b, bytes)) /\ b.write <= WriteGrowing(b, bytes).write
<1> DEFINE c == IF BytesLeftForWrite(b) < Len(bytes)
                THEN Realloc(b, Len(b.data) + Len(bytes)) ELSE b
<1>1. b.data \in Seq(Memory) /\ b.write \in Nat /\ b.write <= Len(b.data)
  BY DEF Sound, Shape
<1>2. Len(b.data) \in Nat /\ Len(bytes) \in Nat BY <1>1, LenProperties
<1>3. Len(b.data) + Len(bytes) \in Nat /\ b.write <= Len(b.data) + Len(bytes)
  BY <1>1, <1>2
<1>4. Sound(c) /\ c.write = b.write BY <1>3, ReallocLarger
<1>5. WriteGrowing(b, bytes) = WriteBytes(c, bytes) BY DEF WriteGrowing
<1>. HIDE DEF c
<1>. QED BY <1>4, <1>5, WriteBytesSound

\* What is built by the server from what it has stored may hold Junk.
Buildable == [magic : Byte, opcode : Byte, status : Nat, flags : Seq(Memory),
              expires : Seq(Memory), key : Seq(Memory), value : Seq(Memory)]

LEMMA RecordsBuildable == MessageRecords \subseteq Buildable
BY BytesAreMemory DEF MessageRecords, Buildable

LEMMA BuildSound ==
  ASSUME NEW m \in Buildable
  PROVE  Sound(Build(m))
<1> DEFINE start  == MoveWriteForward(NewBuffer(BuildSize), HeaderSize)
           extras == WriteExtras(start, m)
           key    == WriteGrowing(extras, m.key)
           value  == WriteGrowing(key, m.value)
           extrasLen == (extras.write - start.write) % 256
           keyLen    == (key.write - extras.write) % KeyLenLimit
           total     == 0 + extrasLen + keyLen + (value.write - key.write)
           header == [magic |-> m.magic, opcode |-> m.opcode, keyLen |-> keyLen,
                      extrasLen |-> extrasLen, dataType |-> 0, status |-> m.status,
                      total |-> total, opaque |-> Fill(0, 4), cas |-> Fill(0, 8)]
<1>1. /\ m.magic \in Byte /\ m.opcode \in Byte /\ m.status \in Nat
      /\ m.flags \in Seq(Memory) /\ m.expires \in Seq(Memory)
      /\ m.key \in Seq(Memory) /\ m.value \in Seq(Memory)
  BY DEF Buildable
<1>2. Sound(start)
  BY SizesType, NewBufferSound, MoveWriteSound DEF HeaderSize
<1>3. Sound(extras) /\ start.write <= extras.write
  <2> DEFINE flags == WriteWord(start, m.flags)
  <2>1. Sound(flags) /\ start.write <= flags.write BY <1>1, <1>2, WriteWordSound
  <2>2. Sound(WriteWord(flags, m.expires)) /\ flags.write <= WriteWord(flags, m.expires).write
    BY <1>1, <2>1, WriteWordSound
  <2>3. extras = WriteWord(flags, m.expires) BY DEF WriteExtras
  <2>. HIDE DEF start, flags, extras
  <2>4. start.write \in Nat /\ flags.write \in Nat /\ extras.write \in Nat
    BY <1>2, <2>1, <2>2, <2>3 DEF Sound, Shape
  <2>. QED BY <2>1, <2>2, <2>3, <2>4
<1>4. Sound(key) /\ extras.write <= key.write BY <1>1, <1>3, WriteGrowingSound
<1>5. Sound(value) /\ key.write <= value.write BY <1>1, <1>4, WriteGrowingSound
<1>6. header \in Headers
  <2>. HIDE DEF start, extras, key, value
  <2>1. start.write \in Nat /\ extras.write \in Nat /\ key.write \in Nat /\ value.write \in Nat
    BY <1>2, <1>3, <1>4, <1>5 DEF Sound, Shape
  <2>2. KeyLenLimit \in Nat \ {0} BY SizesType
  <2>3. keyLen \in Nat BY <1>3, <1>4, <2>1, <2>2
  <2>4. extrasLen \in Byte BY <2>1, ModIsByte
  <2>5. total \in Nat BY <1>5, <2>1, <2>3, <2>4, BytesAreNumbers
  <2>6. Fill(0, 4) \in Seq(Byte) /\ Fill(0, 8) \in Seq(Byte) BY BytesAreNumbers DEF Fill
  <2>7. 0 \in Byte BY BytesAreNumbers
  <2>. HIDE DEF keyLen, extrasLen, total
  <2>. QED BY <1>1, <2>3, <2>4, <2>5, <2>6, <2>7 DEF Headers
<1>7. Sound(WriteBytes(Reset(value), HeaderBytes(header)))
  <2>1. HeaderBytes(header) \in Seq(Memory) BY <1>6, HeaderBytesType, BytesAreMemory
  <2>2. Sound(Reset(value)) BY <1>5, ResetSound
  <2>. QED BY <2>1, <2>2, WriteBytesSound
<1>8. total \in Nat BY <1>6 DEF Headers
<1>9. Build(m) = MoveWriteForward(WriteBytes(Reset(value), HeaderBytes(header)), total)
  BY DEF Build, BuildFrom
<1>. HIDE DEF start, extras, key, value, extrasLen, keyLen, total, header
<1>. QED BY <1>7, <1>8, <1>9, MoveWriteSound

LEMMA BytesSentType ==
  ASSUME NEW m \in Buildable
  PROVE  BytesSent(m) \in Seq(Memory)
<1> DEFINE b == Build(m)
<1>1. b.data \in Seq(Memory) /\ b.write \in Nat /\ b.write <= Len(b.data)
  BY BuildSound DEF Sound, Shape
<1>2. BytesSent(m) = SubSeq(b.data, 1, b.write) BY DEF BytesSent, ReadAllBytes
<1>. HIDE DEF b
<1>3. Len(b.data) \in Nat BY <1>1, LenProperties
<1>4. \A i \in 1 .. b.write : b.data[i] \in Memory BY <1>1, <1>3, ElementOfSeq
<1>. QED BY <1>1, <1>2, <1>4, SubSeqProperties
-----------------------------------------------------------------------------
(* Parsing: what the lengths and the offsets are *)

LEMMA Word32Type ==
  ASSUME NEW w, w[1] \in Nat, w[2] \in Nat, w[3] \in Nat, w[4] \in Nat
  PROVE  Word32(w) \in Nat
BY SMT DEF Word32

LEMMA ShortType ==
  ASSUME NEW w, w[1] \in Nat, w[2] \in Nat
  PROVE  Short(w) \in Nat
BY SMT DEF Short

LEMMA SliceType ==
  ASSUME NEW d, NEW j \in Nat, NEW n \in Nat, \A i \in 1 .. n : d[j + i - 1] \in Nat
  PROVE  \A i \in 1 .. n : SubSeq(d, j, j + n - 1)[i] \in Nat
<1>1. \A i \in j .. j + n - 1 : d[i] \in Nat
  <2>1. ASSUME NEW i \in j .. j + n - 1 PROVE d[i] \in Nat
    <3>1. i - j + 1 \in 1 .. n /\ j + (i - j + 1) - 1 = i OBVIOUS
    <3>. QED BY <3>1
  <2>. QED BY <2>1
<1>2. \A i \in 1 .. (j + n - 1) - j + 1 : SubSeq(d, j, j + n - 1)[i] = d[j + i - 1]
  BY <1>1, SubSeqProperties
<1>. QED BY <1>2

\* The lengths in a header are numbers, whatever its bytes are.
LEMMA LengthsType ==
  ASSUME NEW b, Sound(b), HeaderSize <= Len(b.data)
  PROVE  /\ ParseHeader(b).total \in Nat /\ ParseHeader(b).keyLen \in Nat
         /\ ParseHeader(b).extrasLen \in Nat
<1>1. b.data \in Seq(Memory) BY DEF Sound, Shape
<1>2. Len(b.data) \in Nat BY <1>1, LenProperties
<1>3. \A i \in 1 .. 24 : b.data[i] \in Memory
  BY <1>1, <1>2, ElementOfSeq DEF HeaderSize
<1>4. ASSUME NEW d, \A i \in 1 .. 24 : d[i] \in Nat
      PROVE  /\ Word32(SubSeq(d, 9, 12)) \in Nat /\ Short(SubSeq(d, 3, 4)) \in Nat
             /\ d[5] \in Nat
  <2>1. \A i \in 1 .. 4 : SubSeq(d, 9, 12)[i] \in Nat
    <3>1. ASSUME NEW i \in 1 .. 4 PROVE d[9 + i - 1] \in Nat
      <4>1. 9 + i - 1 \in 1 .. 24 OBVIOUS
      <4>. QED BY <1>4, <4>1
    <3>2. \A i \in 1 .. 4 : SubSeq(d, 9, 9 + 4 - 1)[i] \in Nat BY <3>1, SliceType
    <3>. QED BY <3>2
  <2>2. \A i \in 1 .. 2 : SubSeq(d, 3, 4)[i] \in Nat
    <3>1. ASSUME NEW i \in 1 .. 2 PROVE d[3 + i - 1] \in Nat
      <4>1. 3 + i - 1 \in 1 .. 24 OBVIOUS
      <4>. QED BY <1>4, <4>1
    <3>2. \A i \in 1 .. 2 : SubSeq(d, 3, 3 + 2 - 1)[i] \in Nat BY <3>1, SliceType
    <3>. QED BY <3>2
  <2>3. Word32(SubSeq(d, 9, 12)) \in Nat
    <3>1. ASSUME NEW w, \A i \in 1 .. 4 : w[i] \in Nat PROVE Word32(w) \in Nat
      <4>1. w[1] \in Nat /\ w[2] \in Nat /\ w[3] \in Nat /\ w[4] \in Nat BY <3>1
      <4>. QED BY <4>1, Word32Type
    <3>. QED BY <2>1, <3>1
  <2>4. Short(SubSeq(d, 3, 4)) \in Nat
    <3>1. ASSUME NEW w, \A i \in 1 .. 2 : w[i] \in Nat PROVE Short(w) \in Nat
      <4>1. w[1] \in Nat /\ w[2] \in Nat BY <3>1
      <4>. QED BY <4>1, ShortType
    <3>. QED BY <2>2, <3>1
  <2>. QED BY <1>4, <2>3, <2>4
<1>5. \A i \in 1 .. 24 : b.data[i] \in Nat BY <1>3, BytesAreNumbers
<1>6. /\ Word32(SubSeq(b.data, 9, 12)) \in Nat /\ Short(SubSeq(b.data, 3, 4)) \in Nat
      /\ b.data[5] \in Nat
  BY <1>4, <1>5
<1>. QED BY <1>6 DEF ParseHeader

\* The buffer c is b with another read offset.
OnlyRead(b, c) == Sound(c) /\ c.data = b.data /\ c.write = b.write

LEMMA ReadWordSound ==
  ASSUME NEW b, Sound(b)
  PROVE  OnlyRead(b, ReadWord(b, 4))
BY MoveReadSound DEF ReadWord, OnlyRead

\* Parsing moves the read offset only.
LEMMA ParseSound ==
  ASSUME NEW b, Sound(b), HeaderSize <= Len(b.data), NEW class
  PROVE  OnlyRead(b, Parse(class, b).buffer)
<1> DEFINE h == ParseHeader(b)
           start == MoveReadForward(ResetRead(b), HeaderSize)
           extras == ReadExtras(class, h, start)
           key == ReadKey(h, extras.buffer)
           value == ReadValue(class, h, key.buffer)
<1>1. h.total \in Nat /\ h.keyLen \in Nat /\ h.extrasLen \in Nat BY LengthsType
<1>6. Parse(class, b).buffer = value.buffer BY DEF Parse
<1>. HIDE DEF h
<1>2. OnlyRead(b, start) BY ResetSound, MoveReadSound DEF HeaderSize, OnlyRead
<1>. HIDE DEF start
<1>3. OnlyRead(b, extras.buffer)
  <2>1. OnlyRead(b, ReadWord(start, 4)) BY <1>2, ReadWordSound DEF OnlyRead
  <2>2. OnlyRead(b, ReadWord(ReadWord(start, 4), 4)) BY <2>1, ReadWordSound DEF OnlyRead
  <2>3. extras.buffer \in {start, ReadWord(start, 4), ReadWord(ReadWord(start, 4), 4)}
    BY DEF ReadExtras
  <2>. QED BY <1>2, <2>1, <2>2, <2>3
<1>. HIDE DEF extras
<1>4. OnlyRead(b, key.buffer)
  <2>1. OnlyRead(b, MoveReadForward(extras.buffer, h.keyLen))
    <3>1. h.keyLen \in Int BY <1>1
    <3>. QED BY <1>3, <3>1, MoveReadSound DEF OnlyRead
  <2>2. key.buffer \in {extras.buffer, MoveReadForward(extras.buffer, h.keyLen)}
    BY DEF ReadKey
  <2>. QED BY <1>3, <2>1, <2>2
<1>. HIDE DEF key
<1>5. OnlyRead(b, value.buffer)
  <2> DEFINE size == IF HasFlags(class) THEN h.total - (h.keyLen + h.extrasLen) ELSE 0
  <2>1. size \in Int BY <1>1
  <2>2. value.buffer = MoveReadForward(MoveReadForward(key.buffer, size), size)
    BY DEF ReadValue
  <2>. HIDE DEF size
  <2>3. OnlyRead(b, MoveReadForward(key.buffer, size))
    BY <1>4, <2>1, MoveReadSound DEF OnlyRead
  <2>. QED BY <2>1, <2>2, <2>3, MoveReadSound DEF OnlyRead
<1>. QED BY <1>5, <1>6
-----------------------------------------------------------------------------
(* Parsing: types *)

\* A buffer that has not been read past what has been written.
Ordered(b) == Sound(b) /\ b.read \in 0 .. b.write

LEMMA OrderedType ==
  ASSUME NEW b, Ordered(b)
  PROVE  /\ b \in Buffers /\ InOrder(b)
         /\ b.data \in Seq(Memory) /\ Len(b.data) \in Nat /\ b.write \in Nat
         /\ b.read \in Nat /\ b.read <= b.write /\ b.write <= Len(b.data)
<1>1. /\ b.data \in Seq(Memory) /\ b.write \in Nat /\ b.write <= Len(b.data)
      /\ b.read \in 0 .. b.write
  BY DEF Ordered, Sound, Shape
<1>2. b.read \in Nat /\ b.read <= b.write BY <1>1
<1>3. b \in Buffers BY <1>1, <1>2 DEF Ordered, Sound, Shape, Buffers
<1>4. Len(b.data) \in Nat BY <1>1, LenProperties
<1>. QED BY <1>1, <1>2, <1>3, <1>4 DEF InOrder

LEMMA ResetOrdered ==
  ASSUME NEW b, Sound(b)
  PROVE  Ordered(ResetRead(b)) /\ Ordered(Reset(b))
<1>1. b \in Shape BY DEF Sound
<1>2. ResetRead(b).read = 0 /\ Reset(b).read = 0 BY <1>1 DEF Shape, ResetRead, Reset
<1>3. /\ Sound(ResetRead(b)) /\ ResetRead(b).write = b.write
      /\ Sound(Reset(b)) /\ Reset(b).write = 0
  BY ResetSound
<1>4. b.write \in Nat BY <1>1 DEF Shape
<1>. QED BY <1>2, <1>3, <1>4 DEF Ordered

LEMMA MoveReadOrdered ==
  ASSUME NEW b, Ordered(b), NEW n \in Nat
  PROVE  Ordered(MoveReadForward(b, n))
<1>1. /\ Sound(MoveReadForward(b, n)) /\ MoveReadForward(b, n).write = b.write
  BY MoveReadSound DEF Ordered
<1>2. MoveReadForward(b, n).read = Lesser(b.read + n, b.write)
  BY DEF MoveReadForward, Ordered, Sound, Shape
<1>3. b.read \in Nat /\ b.write \in Nat BY OrderedType
<1>4. Lesser(b.read + n, b.write) \in 0 .. b.write BY <1>3 DEF Lesser
<1>. QED BY <1>1, <1>2, <1>4 DEF Ordered

LEMMA WriteBytesOrdered ==
  ASSUME NEW b, Ordered(b), NEW bytes \in Seq(Memory)
  PROVE  Ordered(WriteBytes(b, bytes))
<1>1. Sound(WriteBytes(b, bytes)) /\ b.write <= WriteBytes(b, bytes).write
  BY WriteBytesSound DEF Ordered
<1>2. WriteBytes(b, bytes).read = b.read
  BY DEF WriteBytes, MoveWriteForward, Ordered, Sound, Shape
<1>3. WriteBytes(b, bytes).write \in Nat BY <1>1 DEF Sound, Shape
<1>4. b.read \in Nat /\ b.read <= b.write /\ b.write \in Nat BY OrderedType
<1>5. b.read \in 0 .. WriteBytes(b, bytes).write BY <1>1, <1>3, <1>4
<1>. QED BY <1>1, <1>2, <1>5 DEF Ordered

\* A piece of the data of a buffer.
LEMMA PieceType ==
  ASSUME NEW d \in Seq(Memory), NEW i \in Nat, NEW j \in Nat, j <= Len(d)
  PROVE  SubSeq(d, i + 1, j) \in Seq(Memory)
<1>1. Len(d) \in Nat BY LenProperties
<1>2. ASSUME NEW k \in i + 1 .. j PROVE d[k] \in Memory
  <2>1. k \in 1 .. Len(d) BY <1>1
  <2>. QED BY <2>1, ElementOfSeq
<1>. QED BY <1>2, SubSeqProperties

LEMMA WordType ==
  ASSUME NEW b, Ordered(b)
  PROVE  Word(b, 4) \in Seq(Memory) /\ Ordered(ReadWord(b, 4))
<1>1. b.data \in Seq(Memory) /\ b.read \in Nat /\ Len(b.data) \in Nat BY OrderedType
<1>2. CASE b.read + 4 <= Len(b.data)
  <2>1. SubSeq(b.data, b.read + 1, b.read + 4) \in Seq(Memory) BY <1>1, <1>2, PieceType
  <2>. QED BY <1>2, <2>1, MoveReadOrdered DEF Word, ReadWord
<1>3. CASE ~ (b.read + 4 <= Len(b.data))
  <2>1. Fill(0, 4) \in Seq(Memory) BY FillType, BytesAreNumbers DEF Memory
  <2>. QED BY <1>3, <2>1 DEF Word, ReadWord
<1>. QED BY <1>2, <1>3

LEMMA BytesReadType ==
  ASSUME NEW b, Ordered(b), NEW n \in Nat
  PROVE  /\ BytesRead(b, n) \in Seq(Memory)
         /\ Len(BytesRead(b, n)) \in Nat /\ Len(BytesRead(b, n)) <= n
<1>1. /\ b.data \in Seq(Memory) /\ Len(b.data) \in Nat /\ b.write \in Nat
      /\ b.read \in Nat /\ b.read <= b.write /\ b.write <= Len(b.data)
  BY OrderedType
<1> DEFINE k == Lesser(n, BytesLeftToRead(b))
<1>2. k \in Nat /\ k <= n /\ b.read + k <= Len(b.data)
  BY <1>1 DEF Lesser, BytesLeftToRead
<1>3. BytesRead(b, n) = SubSeq(b.data, b.read + 1, b.read + k) BY DEF BytesRead
<1>. HIDE DEF k
<1>4. ASSUME NEW i \in b.read + 1 .. b.read + k PROVE b.data[i] \in Memory
  <2>1. i \in 1 .. Len(b.data) BY <1>1, <1>2
  <2>. QED BY <1>1, <2>1, ElementOfSeq
<1>5. SubSeq(b.data, b.read + 1, b.read + k) \in Seq(Memory) BY <1>1, <1>2, PieceType
<1>6. Len(SubSeq(b.data, b.read + 1, b.read + k)) = k
  BY <1>1, <1>2, <1>4, SubSeqProperties
<1>. QED BY <1>2, <1>3, <1>5, <1>6

\* What Parse finds, whatever the bytes are, if the size of the value does not
\* wrap.
LEMMA ParseTypes ==
  ASSUME NEW b, Ordered(b), HeaderSize <= Len(b.data), NEW class,
         ~ SizeWraps(class, ParseHeader(b))
  PROVE  LET p == Parse(class, b)
         IN  /\ Ordered(p.buffer)
             /\ p.flags \in Seq(Memory) /\ p.expires \in Seq(Memory)
             /\ p.key \in Seq(Memory) /\ p.value \in Seq(Memory)
             /\ p.status = ParseHeader(b).status
<1> DEFINE h == ParseHeader(b)
           start == MoveReadForward(ResetRead(b), HeaderSize)
           extras == ReadExtras(class, h, start)
           key == ReadKey(h, extras.buffer)
           value == ReadValue(class, h, key.buffer)
<1>1. h.total \in Nat /\ h.keyLen \in Nat /\ h.extrasLen \in Nat
  BY LengthsType DEF Ordered
<1>2. /\ Parse(class, b).buffer = value.buffer /\ Parse(class, b).flags = extras.flags
      /\ Parse(class, b).expires = extras.expires /\ Parse(class, b).key = key.key
      /\ Parse(class, b).value = value.value /\ Parse(class, b).status = h.status
  BY DEF Parse
<1>3. ~ SizeWraps(class, h) OBVIOUS
<1>4. <<>> \in Seq(Memory) OBVIOUS
<1>. HIDE DEF h
<1>5. Ordered(start)
  <2>1. Ordered(ResetRead(b)) BY ResetOrdered DEF Ordered
  <2>2. HeaderSize \in Nat BY DEF HeaderSize
  <2>. QED BY <2>1, <2>2, MoveReadOrdered
<1>. HIDE DEF start
<1>6. /\ Ordered(extras.buffer)
      /\ extras.flags \in Seq(Memory) /\ extras.expires \in Seq(Memory)
  <2>1. Word(start, 4) \in Seq(Memory) /\ Ordered(ReadWord(start, 4)) BY <1>5, WordType
  <2>2. /\ Word(ReadWord(start, 4), 4) \in Seq(Memory)
        /\ Ordered(ReadWord(ReadWord(start, 4), 4))
    BY <2>1, WordType
  <2>3. extras.buffer \in {start, ReadWord(start, 4), ReadWord(ReadWord(start, 4), 4)}
    BY DEF ReadExtras
  <2>4. /\ extras.flags \in {<<>>, Word(start, 4)}
        /\ extras.expires \in {<<>>, Word(ReadWord(start, 4), 4)}
    BY DEF ReadExtras
  <2>. QED BY <1>4, <1>5, <2>1, <2>2, <2>3, <2>4
<1>. HIDE DEF extras
<1>7. Ordered(key.buffer) /\ key.key \in Seq(Memory)
  <2>1. Ordered(MoveReadForward(extras.buffer, h.keyLen)) BY <1>1, <1>6, MoveReadOrdered
  <2>2. BytesRead(extras.buffer, h.keyLen) \in Seq(Memory) BY <1>1, <1>6, BytesReadType
  <2>3. /\ key.buffer \in {extras.buffer, MoveReadForward(extras.buffer, h.keyLen)}
        /\ key.key \in {<<>>, BytesRead(extras.buffer, h.keyLen)}
    BY DEF ReadKey
  <2>. QED BY <1>4, <1>6, <2>1, <2>2, <2>3
<1>. HIDE DEF key
<1>8. Ordered(value.buffer) /\ value.value \in Seq(Memory)
  <2> DEFINE size == IF HasFlags(class) THEN h.total - (h.keyLen + h.extrasLen) ELSE 0
             read == BytesRead(key.buffer, size)
  <2>1. size \in Nat BY <1>1, <1>3 DEF SizeWraps
  <2>2. /\ value.buffer = MoveReadForward(MoveReadForward(key.buffer, size), size)
        /\ value.value = read \o Fill(Junk, size - Len(read))
    BY DEF ReadValue
  <2>. HIDE DEF size
  <2>3. read \in Seq(Memory) /\ Len(read) \in Nat /\ Len(read) <= size
    BY <1>7, <2>1, BytesReadType
  <2>. HIDE DEF read
  <2>4. size - Len(read) \in Nat BY <2>1, <2>3
  <2>5. Fill(Junk, size - Len(read)) \in Seq(Memory) BY <2>4, FillType DEF Memory
  <2>6. value.value \in Seq(Memory) BY <2>2, <2>3, <2>5, ConcatProperties
  <2>7. Ordered(MoveReadForward(key.buffer, size)) BY <1>7, <2>1, MoveReadOrdered
  <2>8. Ordered(value.buffer) BY <2>1, <2>2, <2>7, MoveReadOrdered
  <2>. QED BY <2>6, <2>8
<1>. HIDE DEF value
<1>. QED BY <1>2, <1>6, <1>7, <1>8 DEF h

LEMMA StatusType ==
  ASSUME NEW b, Sound(b), HeaderSize <= Len(b.data)
  PROVE  ParseHeader(b).status \in Nat
<1>1. b.data \in Seq(Memory) BY DEF Sound, Shape
<1>2. Len(b.data) \in Nat BY <1>1, LenProperties
<1>3. ASSUME NEW i \in 1 .. 2 PROVE b.data[7 + i - 1] \in Nat
  <2>1. 7 + i - 1 \in 1 .. Len(b.data) BY <1>2 DEF HeaderSize
  <2>2. b.data[7 + i - 1] \in Memory BY <1>1, <2>1, ElementOfSeq
  <2>. QED BY <2>2, BytesAreNumbers
<1>4. \A i \in 1 .. 2 : SubSeq(b.data, 7, 7 + 2 - 1)[i] \in Nat
  <2>1. \A i \in 1 .. 2 : b.data[7 + i - 1] \in Nat BY <1>3
  <2>. QED BY <2>1, SliceType
<1>5. ASSUME NEW w, \A i \in 1 .. 2 : w[i] \in Nat PROVE Short(w) \in Nat
  <2>1. w[1] \in Nat /\ w[2] \in Nat BY <1>5
  <2>. QED BY <2>1, ShortType
<1>6. 7 + 2 - 1 = 8 OBVIOUS
<1>7. Short(SubSeq(b.data, 7, 8)) \in Nat BY <1>4, <1>5, <1>6
<1>. QED BY <1>7 DEF ParseHeader
-----------------------------------------------------------------------------
(* Building: the bytes that are sent *)

\* What WriteBytes does if there is room.
LEMMA WriteBytesContent ==
  ASSUME NEW b, Sound(b), NEW bytes \in Seq(Memory), b.write + Len(bytes) <= Len(b.data)
  PROVE  LET c == WriteBytes(b, bytes)
         IN  /\ Sound(c) /\ Len(c.data) = Len(b.data) /\ c.write = b.write + Len(bytes)
             /\ \A i \in 1 .. Len(b.data) :
                  c.data[i] = IF i \in b.write + 1 .. b.write + Len(bytes)
                              THEN bytes[i - b.write] ELSE b.data[i]
<1>1. b.data \in Seq(Memory) /\ b.write \in Nat /\ b \in Shape BY DEF Sound, Shape
<1>2. Len(b.data) \in Nat /\ Len(bytes) \in Nat BY <1>1, LenProperties
<1>3. Lesser(Len(bytes), BytesLeftForWrite(b)) = Len(bytes)
  BY <1>1, <1>2 DEF Lesser, BytesLeftForWrite
<1>4. SubSeq(bytes, 1, Len(bytes)) = bytes BY SubSeqFull
<1> DEFINE c == [b EXCEPT !.data = Put(b, bytes)]
<1>5. WriteBytes(b, bytes) = MoveWriteForward(c, Len(bytes))
  BY <1>3, <1>4 DEF WriteBytes
<1>6. Put(b, bytes) \in Seq(Memory) /\ Len(Put(b, bytes)) = Len(b.data) BY PutType
<1>7. c.data = Put(b, bytes) /\ c.write = b.write BY <1>1 DEF Shape
<1>8. MoveWriteForward(c, Len(bytes)).data = Put(b, bytes)
  BY <1>1, <1>7 DEF MoveWriteForward, Shape
<1>9. MoveWriteForward(c, Len(bytes)).write = b.write + Len(bytes)
  <2>1. MoveWriteForward(c, Len(bytes)).write
          = Lesser(b.write + Len(bytes), Len(Put(b, bytes)))
    BY <1>1, <1>7 DEF MoveWriteForward, Shape
  <2>. QED BY <1>1, <1>2, <1>6, <2>1 DEF Lesser
<1>10. Sound(WriteBytes(b, bytes)) BY WriteBytesSound
<1>11. \A i \in 1 .. Len(b.data) :
         Put(b, bytes)[i] = IF i \in b.write + 1 .. b.write + Len(bytes)
                            THEN bytes[i - b.write] ELSE b.data[i]
  BY DEF Put
<1>. HIDE DEF c
<1>. QED BY <1>5, <1>6, <1>8, <1>9, <1>10, <1>11

\* The written part of the buffer b is s.
Holds(b, s) ==
  /\ Sound(b) /\ s \in Seq(Memory)
  /\ b.write = Len(s)
  /\ \A i \in 1 .. Len(s) : b.data[i] = s[i]

LEMMA Appends ==
  ASSUME NEW b, NEW s, Holds(b, s), NEW bytes \in Seq(Memory),
         Len(s) + Len(bytes) <= Len(b.data)
  PROVE  /\ Holds(WriteBytes(b, bytes), s \o bytes)
         /\ Len(WriteBytes(b, bytes).data) = Len(b.data)
<1> DEFINE c == WriteBytes(b, bytes)
<1>1. Sound(b) /\ s \in Seq(Memory) /\ b.write = Len(s) BY DEF Holds
<1>2. Len(s) \in Nat /\ Len(bytes) \in Nat /\ Len(b.data) \in Nat
  BY <1>1, LenProperties DEF Sound, Shape
<1>3. /\ Sound(c) /\ Len(c.data) = Len(b.data) /\ c.write = Len(s) + Len(bytes)
      /\ \A i \in 1 .. Len(b.data) :
           c.data[i] = IF i \in Len(s) + 1 .. Len(s) + Len(bytes)
                       THEN bytes[i - Len(s)] ELSE b.data[i]
  <2>1. b.write + Len(bytes) <= Len(b.data) BY <1>1
  <2>2. /\ Sound(c) /\ Len(c.data) = Len(b.data) /\ c.write = b.write + Len(bytes)
        /\ \A i \in 1 .. Len(b.data) :
             c.data[i] = IF i \in b.write + 1 .. b.write + Len(bytes)
                         THEN bytes[i - b.write] ELSE b.data[i]
    BY <1>1, <2>1, WriteBytesContent, Zenon
  <2>. QED BY <1>1, <2>2
<1>. HIDE DEF c
<1>4. /\ s \o bytes \in Seq(Memory) /\ Len(s \o bytes) = Len(s) + Len(bytes)
      /\ \A i \in 1 .. Len(s) + Len(bytes) :
           (s \o bytes)[i] = IF i <= Len(s) THEN s[i] ELSE bytes[i - Len(s)]
  BY <1>1, ConcatProperties
<1>5. ASSUME NEW i \in 1 .. Len(s) + Len(bytes) PROVE c.data[i] = (s \o bytes)[i]
  <2>1. i \in 1 .. Len(b.data) BY <1>2
  <2>2. CASE i <= Len(s)
    <3>1. c.data[i] = b.data[i] BY <1>2, <1>3, <2>1, <2>2
    <3>2. b.data[i] = s[i] BY <1>2, <2>2 DEF Holds
    <3>. QED BY <1>4, <2>2, <3>1, <3>2
  <2>3. CASE ~ (i <= Len(s))
    <3>1. i \in Len(s) + 1 .. Len(s) + Len(bytes) BY <1>2, <2>3
    <3>2. c.data[i] = bytes[i - Len(s)] BY <1>3, <2>1, <3>1
    <3>. QED BY <1>4, <2>3, <3>2
  <2>. QED BY <2>2, <2>3
<1>. QED BY <1>3, <1>4, <1>5 DEF Holds, c

LEMMA AppendsGrowing ==
  ASSUME NEW b, NEW s, Holds(b, s), NEW bytes \in Seq(Memory)
  PROVE  /\ Holds(WriteGrowing(b, bytes), s \o bytes)
         /\ Len(b.data) <= Len(WriteGrowing(b, bytes).data)
<1> DEFINE n == Len(b.data) + Len(bytes)
<1>1. Sound(b) /\ s \in Seq(Memory) /\ b.write = Len(s) /\ b.write <= Len(b.data)
  BY DEF Holds, Sound
<1>2. Len(s) \in Nat /\ Len(bytes) \in Nat /\ Len(b.data) \in Nat
  BY <1>1, LenProperties DEF Sound, Shape
<1>3. CASE BytesLeftForWrite(b) < Len(bytes)
  <2>1. /\ Sound(Realloc(b, n)) /\ Len(Realloc(b, n).data) = n
        /\ Realloc(b, n).write = b.write
        /\ \A i \in 1 .. b.write : Realloc(b, n).data[i] = b.data[i]
    <3>1. n \in Nat /\ b.write <= n BY <1>1, <1>2
    <3>. HIDE DEF n
    <3>. QED BY <1>1, <3>1, ReallocLarger
  <2>2. Holds(Realloc(b, n), s) BY <1>1, <2>1 DEF Holds
  <2>3. WriteGrowing(b, bytes) = WriteBytes(Realloc(b, n), bytes) BY <1>3 DEF WriteGrowing
  <2>4. Len(s) + Len(bytes) <= n /\ Len(b.data) <= n BY <1>1, <1>2
  <2>. HIDE DEF n
  <2>. QED BY <2>1, <2>2, <2>3, <2>4, Appends
<1>4. CASE ~ (BytesLeftForWrite(b) < Len(bytes))
  <2>1. WriteGrowing(b, bytes) = WriteBytes(b, bytes) BY <1>4 DEF WriteGrowing
  <2>2. Len(s) + Len(bytes) <= Len(b.data)
    BY <1>1, <1>2, <1>4 DEF BytesLeftForWrite
  <2>. QED BY <1>2, <2>1, <2>2, Appends
<1>. QED BY <1>3, <1>4

\* The sequence c is s followed by t (the provers find more with the pieces of this
\* definition than with the concatenation).
Glued(S, s, t, c) ==
  /\ c \in Seq(S) /\ Len(c) = Len(s) + Len(t)
  /\ \A i \in 1 .. Len(s) : c[i] = s[i]
  /\ \A i \in 1 .. Len(t) : c[Len(s) + i] = t[i]

LEMMA Joined ==
  ASSUME NEW S, NEW s \in Seq(S), NEW t \in Seq(S)
  PROVE  Glued(S, s, t, s \o t)
<1> DEFINE c == s \o t
<1>1. /\ c \in Seq(S) /\ Len(c) = Len(s) + Len(t)
      /\ \A i \in 1 .. Len(s) + Len(t) :
           c[i] = IF i <= Len(s) THEN s[i] ELSE t[i - Len(s)]
  BY ConcatProperties
<1>2. Len(s) \in Nat /\ Len(t) \in Nat BY LenProperties
<1>. HIDE DEF c
<1>3. ASSUME NEW i \in 1 .. Len(s) PROVE c[i] = s[i]
  <2>1. i \in 1 .. Len(s) + Len(t) /\ i <= Len(s) BY <1>2
  <2>. QED BY <1>1, <2>1
<1>4. ASSUME NEW i \in 1 .. Len(t) PROVE c[Len(s) + i] = t[i]
  <2> DEFINE j == Len(s) + i
  <2>1. j \in 1 .. Len(s) + Len(t) /\ ~ (j <= Len(s)) /\ j - Len(s) = i BY <1>2
  <2>. HIDE DEF j
  <2>2. c[j] = t[i] BY <1>1, <2>1
  <2>. QED BY <2>2 DEF j
<1>5. Glued(S, s, t, c) BY <1>1, <1>3, <1>4 DEF Glued
<1>. QED BY <1>5 DEF c

\* A message whose flags and expiration are 32-bit words, if it has them.
Worded(m) == Len(m.flags) \in {0, 4} /\ Len(m.expires) \in {0, 4}

\* What is built: the body (KeyLen may be too small for the key in it) and the header.
Body(m) == ((m.flags \o m.expires) \o m.key) \o m.value
HeaderOf(m) ==
  [magic |-> m.magic, opcode |-> m.opcode, keyLen |-> Len(m.key) % KeyLenLimit,
   extrasLen |-> Len(m.flags) + Len(m.expires), dataType |-> 0, status |-> m.status,
   total |-> BodyLen(m), opaque |-> Fill(0, 4), cas |-> Fill(0, 8)]

LEMMA PartsType ==
  ASSUME NEW m \in Buildable
  PROVE  /\ m.flags \in Seq(Memory) /\ m.expires \in Seq(Memory)
         /\ m.key \in Seq(Memory) /\ m.value \in Seq(Memory)
         /\ Len(m.flags) \in Nat /\ Len(m.expires) \in Nat
         /\ Len(m.key) \in Nat /\ Len(m.value) \in Nat
         /\ Len(m.key) % KeyLenLimit \in Nat /\ Len(m.key) % KeyLenLimit <= Len(m.key)
<1>1. /\ m.flags \in Seq(Memory) /\ m.expires \in Seq(Memory)
      /\ m.key \in Seq(Memory) /\ m.value \in Seq(Memory)
  BY DEF Buildable
<1>2. /\ Len(m.flags) \in Nat /\ Len(m.expires) \in Nat
      /\ Len(m.key) \in Nat /\ Len(m.value) \in Nat
  BY <1>1, LenProperties
<1>3. ASSUME NEW n \in Nat PROVE n % KeyLenLimit \in Nat /\ n % KeyLenLimit <= n
  <2>1. KeyLenLimit \in Nat /\ KeyLenLimit > 0 BY SizesType
  <2>2. n % KeyLenLimit \in Nat /\ n % KeyLenLimit < KeyLenLimit BY <2>1
  <2>3. CASE n < KeyLenLimit BY <2>1, <2>3
  <2>4. CASE ~ (n < KeyLenLimit) BY <2>1, <2>2, <2>4
  <2>. QED BY <2>3, <2>4
<1>. QED BY <1>1, <1>2, <1>3

LEMMA BodyType ==
  ASSUME NEW m \in Buildable
  PROVE  /\ Body(m) \in Seq(Memory)
         /\ Len(Body(m)) = Len(m.flags) + Len(m.expires) + Len(m.key) + Len(m.value)
         /\ BodyLen(m) \in Nat /\ BodyLen(m) <= Len(Body(m))
<1>1. /\ m.flags \in Seq(Memory) /\ m.expires \in Seq(Memory)
      /\ m.key \in Seq(Memory) /\ m.value \in Seq(Memory)
      /\ Len(m.flags) \in Nat /\ Len(m.expires) \in Nat
      /\ Len(m.key) \in Nat /\ Len(m.value) \in Nat
      /\ Len(m.key) % KeyLenLimit \in Nat /\ Len(m.key) % KeyLenLimit <= Len(m.key)
  BY PartsType
<1>2. /\ m.flags \o m.expires \in Seq(Memory)
      /\ Len(m.flags \o m.expires) = Len(m.flags) + Len(m.expires)
  BY <1>1, ConcatProperties
<1>3. /\ (m.flags \o m.expires) \o m.key \in Seq(Memory)
      /\ Len((m.flags \o m.expires) \o m.key) = Len(m.flags) + Len(m.expires) + Len(m.key)
  BY <1>1, <1>2, ConcatProperties
<1> DEFINE t == (m.flags \o m.expires) \o m.key
           k == Len(m.key) % KeyLenLimit
<1>4. Body(m) = t \o m.value BY DEF Body
<1>5. BodyLen(m) = Len(m.flags) + Len(m.expires) + k + Len(m.value) BY DEF BodyLen
<1>6. k \in Nat /\ k <= Len(m.key) BY <1>1
<1>7. t \in Seq(Memory) /\ Len(t) = Len(m.flags) + Len(m.expires) + Len(m.key) BY <1>3
<1>. HIDE DEF t, k
<1>8. Body(m) \in Seq(Memory) /\ Len(Body(m)) = Len(t) + Len(m.value)
  <2>1. m.value \in Seq(Memory) /\ t \in Seq(Memory) BY <1>1, <1>7
  <2>2. Glued(Memory, t, m.value, Body(m)) BY <1>4, <2>1, Joined
  <2>. QED BY <2>2 DEF Glued
<1>9. /\ Len(m.flags) \in Nat /\ Len(m.expires) \in Nat
      /\ Len(m.key) \in Nat /\ Len(m.value) \in Nat
  BY <1>1
<1>10. Len(Body(m)) = Len(m.flags) + Len(m.expires) + Len(m.key) + Len(m.value)
  BY <1>7, <1>8, <1>9
<1>11. BodyLen(m) \in Nat
  <2>1. k \in Nat BY <1>6
  <2>2. \A i, j, l, n \in Nat : i + j + l + n \in Nat OBVIOUS
  <2>3. Len(m.flags) + Len(m.expires) + k + Len(m.value) \in Nat
    BY <1>9, <2>1, <2>2, Zenon
  <2>. QED BY <1>5, <2>3
<1>12. BodyLen(m) <= Len(Body(m)) BY <1>5, <1>6, <1>9, <1>10
<1>. QED BY <1>8, <1>10, <1>11, <1>12

LEMMA HeaderOfType ==
  ASSUME NEW m \in Buildable, Worded(m)
  PROVE  HeaderOf(m) \in Headers
<1>1. Len(m.flags) + Len(m.expires) \in Byte
  <2>1. ASSUME NEW f \in {0, 4}, NEW x \in {0, 4} PROVE f + x \in Byte BY DEF Byte
  <2>. QED BY <2>1 DEF Worded
<1>2. Len(m.key) % KeyLenLimit \in Nat BY PartsType
<1>3. BodyLen(m) \in Nat BY BodyType
<1>4. m.magic \in Byte /\ m.opcode \in Byte /\ m.status \in Nat /\ 0 \in Byte
  BY BytesAreNumbers DEF Buildable
<1>5. Fill(0, 4) \in Seq(Byte) /\ Fill(0, 8) \in Seq(Byte) BY <1>4 DEF Fill
<1>. QED BY <1>1, <1>2, <1>3, <1>4, <1>5 DEF HeaderOf, Headers

\* The bytes of the header, one by one (the opaque and CAS fields are not used).
LEMMA HeaderBytesContent ==
  ASSUME NEW h \in Headers, Len(h.opaque) = 4, Len(h.cas) = 8
  PROVE  LET s == HeaderBytes(h)
         IN  /\ s \in Seq(Byte) /\ Len(s) = 24
             /\ s[1] = h.magic /\ s[2] = h.opcode
             /\ s[3] = (h.keyLen \div 256) % 256 /\ s[4] = h.keyLen % 256
             /\ s[5] = h.extrasLen
             /\ s[7] = (h.status \div 256) % 256 /\ s[8] = h.status % 256
             /\ s[9] = ((h.total \div 65536) \div 256) % 256
             /\ s[10] = (h.total \div 65536) % 256
             /\ s[11] = (h.total \div 256) % 256 /\ s[12] = h.total % 256
<1> DEFINE w == (h.total \div 65536)
           s1 == <<h.magic, h.opcode>>
           s2 == Bytes2(h.keyLen)
           s3 == <<h.extrasLen, h.dataType>>
           s4 == Bytes2(h.status)
           s5 == Bytes4(h.total)
           t2 == s1 \o s2
           t3 == t2 \o s3
           t4 == t3 \o s4
           t5 == t4 \o s5
           t6 == t5 \o h.opaque
<1>1. HeaderBytes(h) = t6 \o h.cas BY DEF HeaderBytes
<1>2. /\ h.magic \in Byte /\ h.opcode \in Byte /\ h.extrasLen \in Byte /\ h.dataType \in Byte
      /\ h.keyLen \in Nat /\ h.status \in Nat /\ h.total \in Nat
      /\ h.opaque \in Seq(Byte) /\ h.cas \in Seq(Byte)
  BY DEF Headers
<1>3. ASSUME NEW n \in Nat
      PROVE  /\ Bytes2(n) \in Seq(Byte) /\ Len(Bytes2(n)) = 2
             /\ Bytes2(n)[1] = (n \div 256) % 256 /\ Bytes2(n)[2] = n % 256
  <2>1. Bytes2(n) \in Seq(Byte) BY BytesType
  <2>. QED BY <2>1 DEF Bytes2
<1>4. /\ s1 \in Seq(Byte) /\ Len(s1) = 2 /\ s1[1] = h.magic /\ s1[2] = h.opcode
      /\ s3 \in Seq(Byte) /\ Len(s3) = 2 /\ s3[1] = h.extrasLen
  BY <1>2
<1>5. /\ s2 \in Seq(Byte) /\ Len(s2) = 2
      /\ s2[1] = (h.keyLen \div 256) % 256 /\ s2[2] = h.keyLen % 256
      /\ s4 \in Seq(Byte) /\ Len(s4) = 2
      /\ s4[1] = (h.status \div 256) % 256 /\ s4[2] = h.status % 256
  BY <1>2, <1>3, ZenonT(60)
<1>6. /\ s5 \in Seq(Byte) /\ Len(s5) = 4
      /\ s5[1] = (w \div 256) % 256 /\ s5[2] = w % 256
      /\ s5[3] = (h.total \div 256) % 256 /\ s5[4] = h.total % 256
  <2> DEFINE u == Bytes2(w)
             v == Bytes2(h.total)
  <2>1. w \in Nat BY <1>2
  <2>2. s5 = u \o v BY DEF Bytes4
  <2>. HIDE DEF w
  <2>3. /\ u \in Seq(Byte) /\ Len(u) = 2
        /\ u[1] = (w \div 256) % 256 /\ u[2] = w % 256
    BY <1>3, <2>1
  <2>4. /\ v \in Seq(Byte) /\ Len(v) = 2
        /\ v[1] = (h.total \div 256) % 256 /\ v[2] = h.total % 256
    BY <1>2, <1>3
  <2>. HIDE DEF u, v, s5
  <2>5. Glued(Byte, u, v, s5) BY <2>2, <2>3, <2>4, Joined
  <2>. QED BY <2>3, <2>4, <2>5 DEF Glued
<1>. HIDE DEF w, s1, s2, s3, s4, s5
<1>70. Glued(Byte, s1, s2, t2) BY <1>4, <1>5, Joined
<1>. HIDE DEF t2
<1>7. /\ t2 \in Seq(Byte) /\ Len(t2) = 4 /\ t2[1] = s1[1] /\ t2[2] = s1[2]
      /\ t2[3] = s2[1] /\ t2[4] = s2[2]
  BY <1>4, <1>5, <1>70 DEF Glued
<1>80. Glued(Byte, t2, s3, t3) BY <1>4, <1>7, Joined
<1>. HIDE DEF t3
<1>8. /\ t3 \in Seq(Byte) /\ Len(t3) = 6 /\ \A i \in 1 .. 4 : t3[i] = t2[i]
      /\ t3[5] = s3[1]
  BY <1>4, <1>7, <1>80 DEF Glued
<1>90. Glued(Byte, t3, s4, t4) BY <1>5, <1>8, Joined
<1>. HIDE DEF t4
<1>9. /\ t4 \in Seq(Byte) /\ Len(t4) = 8 /\ \A i \in 1 .. 6 : t4[i] = t3[i]
      /\ t4[7] = s4[1] /\ t4[8] = s4[2]
  BY <1>5, <1>8, <1>90 DEF Glued
<1>100. Glued(Byte, t4, s5, t5) BY <1>6, <1>9, Joined
<1>. HIDE DEF t5
<1>10. /\ t5 \in Seq(Byte) /\ Len(t5) = 12 /\ \A i \in 1 .. 8 : t5[i] = t4[i]
       /\ t5[9] = s5[1] /\ t5[10] = s5[2] /\ t5[11] = s5[3] /\ t5[12] = s5[4]
  BY <1>6, <1>9, <1>100 DEF Glued
<1>110. Glued(Byte, t5, h.opaque, t6) BY <1>2, <1>10, Joined
<1>. HIDE DEF t6
<1>11. t6 \in Seq(Byte) /\ Len(t6) = 16 /\ \A i \in 1 .. 12 : t6[i] = t5[i]
  BY <1>10, <1>110 DEF Glued
<1> DEFINE s == t6 \o h.cas
<1>120. Glued(Byte, t6, h.cas, s) BY <1>2, <1>11, Joined
<1>13. s = HeaderBytes(h) BY <1>1
<1>. HIDE DEF s
<1>12. s \in Seq(Byte) /\ Len(s) = 24 /\ \A i \in 1 .. 16 : s[i] = t6[i]
  BY <1>11, <1>120 DEF Glued
<1>14. \A i \in 1 .. 12 : s[i] = t5[i] BY <1>11, <1>12
<1>15. \A i \in 1 .. 8 : s[i] = t4[i] BY <1>10, <1>14
<1>16. \A i \in 1 .. 4 : s[i] = t2[i] BY <1>8, <1>9, <1>15
<1>17. s[5] = h.extrasLen BY <1>4, <1>8, <1>9, <1>15
<1>18. s[1] = h.magic /\ s[2] = h.opcode BY <1>4, <1>7, <1>16
<1>19. s[3] = (h.keyLen \div 256) % 256 /\ s[4] = h.keyLen % 256 BY <1>5, <1>7, <1>16
<1>20. s[7] = (h.status \div 256) % 256 /\ s[8] = h.status % 256 BY <1>5, <1>9, <1>15
<1>21. /\ s[9] = (w \div 256) % 256 /\ s[10] = w % 256
       /\ s[11] = (h.total \div 256) % 256 /\ s[12] = h.total % 256
  BY <1>6, <1>10, <1>14
<1>. QED BY <1>12, <1>13, <1>17, <1>18, <1>19, <1>20, <1>21 DEF w

\* The buffer when the body has been built: room for the header, then the body.
LEMMA BodyBuilt ==
  ASSUME NEW m \in Buildable, Worded(m)
  PROVE  LET start  == MoveWriteForward(NewBuffer(BuildSize), HeaderSize)
             extras == WriteExtras(start, m)
             key    == WriteGrowing(extras, m.key)
             value  == WriteGrowing(key, m.value)
         IN  /\ start.write = 24
             /\ extras.write = 24 + Len(m.flags) + Len(m.expires)
             /\ key.write = extras.write + Len(m.key)
             /\ value.write = key.write + Len(m.value)
             /\ Holds(value, Fill(Junk, 24) \o Body(m))
             /\ 24 <= Len(value.data)
<1> DEFINE start  == MoveWriteForward(NewBuffer(BuildSize), HeaderSize)
           flags  == WriteWord(start, m.flags)
           extras == WriteExtras(start, m)
           key    == WriteGrowing(extras, m.key)
           value  == WriteGrowing(key, m.value)
           J  == Fill(Junk, 24)
           s1 == J \o m.flags
           s2 == s1 \o m.expires
           s3 == s2 \o m.key
           s4 == s3 \o m.value
<1>1. /\ m.flags \in Seq(Memory) /\ m.expires \in Seq(Memory)
      /\ m.key \in Seq(Memory) /\ m.value \in Seq(Memory)
  BY PartsType
<1>2. Len(m.flags) \in {0, 4} /\ Len(m.expires) \in {0, 4} BY DEF Worded
<1>3. /\ Len(m.flags) \in Nat /\ Len(m.flags) <= 4
      /\ Len(m.expires) \in Nat /\ Len(m.expires) <= 4
  <2>1. ASSUME NEW n \in {0, 4} PROVE n \in Nat /\ n <= 4 OBVIOUS
  <2>. QED BY <1>2, <2>1
<1>4. BuildSize \in Nat /\ BuildSize >= 32 BY SizesType
<1>5. Junk \in Memory BY DEF Memory
<1>6. J \in Seq(Memory) /\ Len(J) = 24 BY <1>5, FillType
<1>60. \A s, t, u \in Seq(Memory) : (s \o t) \o u = s \o (t \o u) BY ConcatAssociative
<1>7. /\ Holds(start, J) /\ Len(start.data) = BuildSize /\ start.write = 24
  <2> DEFINE b == NewBuffer(BuildSize)
  <2>1. /\ Sound(b) /\ b.write = 0 /\ Len(b.data) = BuildSize /\ b.data = Fill(Junk, BuildSize)
    BY <1>4, NewBufferSound DEF NewBuffer
  <2>. HIDE DEF b
  <2>2. HeaderSize = 24 BY DEF HeaderSize
  <2>3. Sound(MoveWriteForward(b, 24)) /\ MoveWriteForward(b, 24).data = b.data
    BY <2>1, MoveWriteSound
  <2>4. MoveWriteForward(b, 24).write = 24
    BY <1>4, <2>1 DEF MoveWriteForward, Lesser, Sound, Shape
  <2>5. start = MoveWriteForward(b, 24) BY <2>2 DEF b
  <2>6. \A i \in 1 .. 24 : Fill(Junk, BuildSize)[i] = J[i] BY <1>4, SMTT(30) DEF Fill
  <2>. HIDE DEF start, J
  <2>. QED BY <1>6, <2>1, <2>3, <2>4, <2>5, <2>6, ZenonT(60) DEF Holds
<1>. HIDE DEF start, J
<1>8. Holds(flags, s1) /\ Len(flags.data) = BuildSize
  <2>1. start.write + Len(m.flags) <= Len(start.data)
        /\ Len(J) + Len(m.flags) <= Len(start.data)
    BY <1>3, <1>4, <1>6, <1>7
  <2>2. flags = WriteBytes(start, m.flags) BY <2>1 DEF WriteWord
  <2>. QED BY <1>1, <1>7, <2>1, <2>2, Appends
<1>9. flags.write = 24 + Len(m.flags) /\ Len(s1) = 24 + Len(m.flags) /\ s1 \in Seq(Memory)
  <2>1. Glued(Memory, J, m.flags, s1) BY <1>1, <1>6, Joined
  <2>. HIDE DEF s1, flags
  <2>. QED BY <1>6, <1>8, <2>1 DEF Holds, Glued
<1>10. extras = WriteWord(flags, m.expires) BY DEF WriteExtras
<1>. HIDE DEF flags, s1, extras
<1>11. Holds(extras, s2) /\ Len(extras.data) = BuildSize
  <2>0. (24 + Len(m.flags)) + Len(m.expires) <= BuildSize
    <3>1. \A i, j \in Nat : i <= 4 /\ j <= 4 => (24 + i) + j <= BuildSize BY <1>4
    <3>. QED BY <1>3, <3>1, Zenon
  <2>1. flags.write + Len(m.expires) <= Len(flags.data)
        /\ Len(s1) + Len(m.expires) <= Len(flags.data)
    BY <1>8, <1>9, <2>0
  <2>2. extras = WriteBytes(flags, m.expires) BY <1>10, <2>1 DEF WriteWord
  <2>. QED BY <1>1, <1>8, <2>1, <2>2, Appends
<1>12. /\ extras.write = 24 + Len(m.flags) + Len(m.expires) /\ Len(s2) = extras.write
       /\ s2 \in Seq(Memory)
  <2>1. Glued(Memory, s1, m.expires, s2) BY <1>1, <1>9, Joined
  <2>. HIDE DEF s2
  <2>. QED BY <1>9, <1>11, <2>1 DEF Holds, Glued
<1>. HIDE DEF s2
<1>13. Holds(key, s3) /\ BuildSize <= Len(key.data) BY <1>1, <1>11, AppendsGrowing
<1>14. key.write = extras.write + Len(m.key) /\ Len(s3) = key.write /\ s3 \in Seq(Memory)
  <2>1. Glued(Memory, s2, m.key, s3) BY <1>1, <1>12, Joined
  <2>. HIDE DEF s3, key
  <2>. QED BY <1>12, <1>13, <2>1 DEF Holds, Glued
<1>. HIDE DEF s3, key
<1>15. Holds(value, s4) /\ Len(key.data) <= Len(value.data)
  BY <1>1, <1>13, AppendsGrowing
<1>16. value.write = key.write + Len(m.value)
  <2>1. Glued(Memory, s3, m.value, s4) BY <1>1, <1>14, Joined
  <2>. HIDE DEF s4, value
  <2>. QED BY <1>14, <1>15, <2>1 DEF Holds, Glued
<1>17. s4 = J \o Body(m)
  <2> DEFINE fx == m.flags \o m.expires
             fxk == fx \o m.key
  <2>1. fx \in Seq(Memory) BY <1>1, ConcatProperties
  <2>2. s2 = J \o fx
    <3>1. (J \o m.flags) \o m.expires = J \o (m.flags \o m.expires)
      BY <1>1, <1>6, <1>60
    <3>. QED BY <3>1 DEF s1, s2
  <2>3. Body(m) = fxk \o m.value BY DEF Body
  <2>. HIDE DEF fx
  <2>4. fxk \in Seq(Memory) BY <1>1, <2>1, ConcatProperties
  <2>5. s3 = J \o fxk
    <3>1. (J \o fx) \o m.key = J \o (fx \o m.key)
      BY <1>1, <1>6, <2>1, <1>60, ZenonT(60)
    <3>. QED BY <2>2, <3>1 DEF s3
  <2>. HIDE DEF fxk
  <2>6. (J \o fxk) \o m.value = J \o (fxk \o m.value)
    BY <1>1, <1>6, <2>4, <1>60, ZenonT(60)
  <2>. QED BY <2>3, <2>5, <2>6
<1>18. 24 <= Len(value.data)
  <2>1. Len(key.data) \in Nat /\ Len(value.data) \in Nat
    BY <1>13, <1>15, LenProperties DEF Holds, Sound, Shape
  <2>. QED BY <1>4, <1>13, <1>15, <2>1
<1>. HIDE DEF value, s4
<1>19. Holds(value, Fill(Junk, 24) \o Body(m)) BY <1>15, <1>17 DEF J
<1>20. /\ start.write = 24
       /\ extras.write = 24 + Len(m.flags) + Len(m.expires)
       /\ key.write = extras.write + Len(m.key)
       /\ value.write = key.write + Len(m.value)
       /\ Holds(value, Fill(Junk, 24) \o Body(m))
       /\ 24 <= Len(value.data)
  BY <1>7, <1>12, <1>14, <1>16, <1>18, <1>19
<1>. QED BY <1>20 DEF start, extras, key, value

\* The bytes that are sent: the header, then as much of the body as it announces.
THEOREM BuiltBytes ==
  ASSUME NEW m \in Buildable, Worded(m)
  PROVE  LET s == BytesSent(m)
         IN  /\ s \in Seq(Memory) /\ Len(s) = 24 + BodyLen(m)
             /\ \A i \in 1 .. 24 : s[i] = HeaderBytes(HeaderOf(m))[i]
             /\ \A i \in 1 .. BodyLen(m) : s[24 + i] = Body(m)[i]
<1> DEFINE start  == MoveWriteForward(NewBuffer(BuildSize), HeaderSize)
           extras == WriteExtras(start, m)
           key    == WriteGrowing(extras, m.key)
           value  == WriteGrowing(key, m.value)
           extrasLen == (extras.write - start.write) % 256
           keyLen    == (key.write - extras.write) % KeyLenLimit
           total     == 0 + extrasLen + keyLen + (value.write - key.write)
           header == [magic |-> m.magic, opcode |-> m.opcode, keyLen |-> keyLen,
                      extrasLen |-> extrasLen, dataType |-> 0, status |-> m.status,
                      total |-> total, opaque |-> Fill(0, 4), cas |-> Fill(0, 8)]
           hb == HeaderBytes(HeaderOf(m))
           r == WriteBytes(Reset(value), hb)
           J == Fill(Junk, 24)
<1>1. /\ start.write = 24
      /\ extras.write = 24 + Len(m.flags) + Len(m.expires)
      /\ key.write = extras.write + Len(m.key)
      /\ value.write = key.write + Len(m.value)
      /\ Holds(value, J \o Body(m))
      /\ 24 <= Len(value.data)
  BY BodyBuilt
<1>2. Build(m) = MoveWriteForward(WriteBytes(Reset(value), HeaderBytes(header)), total)
  BY DEF Build, BuildFrom
<1>3. /\ Body(m) \in Seq(Memory) /\ Len(Body(m)) \in Nat
      /\ BodyLen(m) \in Nat /\ BodyLen(m) <= Len(Body(m))
  BY BodyType, LenProperties
<1>4. HeaderOf(m) \in Headers BY HeaderOfType
<1>5. hb \in Seq(Memory) /\ Len(hb) = 24
  <2>1. Len(HeaderOf(m).opaque) = 4 /\ Len(HeaderOf(m).cas) = 8 BY DEF HeaderOf, Fill
  <2>. QED BY <1>4, <2>1, HeaderBytesContent, BytesAreMemory
<1>. HIDE DEF start, extras, key, value
<1>6. /\ extrasLen = Len(m.flags) + Len(m.expires)
      /\ keyLen = Len(m.key) % KeyLenLimit
      /\ value.write - key.write = Len(m.value)
  <2>1. /\ Len(m.key) \in Nat /\ Len(m.value) \in Nat
        /\ Len(m.flags) \in {0, 4} /\ Len(m.expires) \in {0, 4}
    BY PartsType DEF Worded
  <2>2. \A f, x \in {0, 4} : /\ ((24 + f + x) - 24) % 256 = f + x
                             /\ 24 + f + x \in Nat
    OBVIOUS
  <2>3. \A i, j \in Nat : (i + j) - i = j /\ i + j \in Nat OBVIOUS
  <2>4. 24 + Len(m.flags) + Len(m.expires) \in Nat BY <2>1, <2>2, Zenon
  <2>5. extrasLen = Len(m.flags) + Len(m.expires)
    <3>1. extrasLen = ((24 + Len(m.flags) + Len(m.expires)) - 24) % 256 BY <1>1
    <3>2. ((24 + Len(m.flags) + Len(m.expires)) - 24) % 256 = Len(m.flags) + Len(m.expires)
      BY <2>1, <2>2, Zenon
    <3>. QED BY <3>1, <3>2, Zenon
  <2>6. extras.write \in Nat BY <1>1, <2>4, Zenon
  <2>7. key.write - extras.write = Len(m.key) /\ key.write \in Nat
    BY <1>1, <2>1, <2>3, <2>6, ZenonT(60)
  <2>8. value.write - key.write = Len(m.value) BY <1>1, <2>1, <2>3, <2>7
  <2>. HIDE DEF extrasLen
  <2>9. keyLen = Len(m.key) % KeyLenLimit BY <2>7
  <2>. QED BY <2>5, <2>8, <2>9
<1>7. total = BodyLen(m)
  <2>1. total = 0 + extrasLen + keyLen + (value.write - key.write) OBVIOUS
  <2>2. total = 0 + (Len(m.flags) + Len(m.expires)) + (Len(m.key) % KeyLenLimit)
                  + Len(m.value)
    BY <1>6, <2>1, Zenon
  <2>3. \A f, x \in Nat : 0 + (f + x) = f + x OBVIOUS
  <2>4. Len(m.flags) \in Nat /\ Len(m.expires) \in Nat BY PartsType
  <2>5. 0 + (Len(m.flags) + Len(m.expires)) = Len(m.flags) + Len(m.expires)
    BY <2>3, <2>4, Zenon
  <2>6. BodyLen(m) = Len(m.flags) + Len(m.expires) + (Len(m.key) % KeyLenLimit)
                       + Len(m.value)
    BY DEF BodyLen
  <2>. HIDE DEF total
  <2>. QED BY <2>2, <2>5, <2>6, Zenon
<1>8. header = HeaderOf(m)
  <2>. HIDE DEF extrasLen, keyLen, total
  <2>. QED BY <1>6, <1>7 DEF HeaderOf
<1>. HIDE DEF extrasLen, keyLen, total
<1>9. Build(m) = MoveWriteForward(r, BodyLen(m)) BY <1>2, <1>7, <1>8
<1>. HIDE DEF header, hb, J
<1>10. /\ Sound(value) /\ value.write = 24 + Len(Body(m))
       /\ \A i \in 1 .. Len(Body(m)) : value.data[24 + i] = Body(m)[i]
  <2> DEFINE c == J \o Body(m)
  <2>1. J \in Seq(Memory) /\ Len(J) = 24 BY FillType DEF J, Memory
  <2>2. Glued(Memory, J, Body(m), c) BY <1>3, <2>1, Joined
  <2>3. Holds(value, c) BY <1>1
  <2>. HIDE DEF c
  <2>4. Sound(value) /\ value.write = 24 + Len(Body(m)) BY <2>1, <2>2, <2>3 DEF Holds, Glued
  <2>5. ASSUME NEW i \in 1 .. Len(Body(m)) PROVE value.data[24 + i] = Body(m)[i]
    <3>1. c[24 + i] = Body(m)[i] BY <2>1, <2>2 DEF Glued
    <3>2. 24 + i \in 1 .. Len(c) BY <1>3, <2>1, <2>2 DEF Glued
    <3>3. value.data[24 + i] = c[24 + i] BY <2>3, <3>2 DEF Holds
    <3>. QED BY <3>1, <3>3
  <2>. QED BY <2>4, <2>5
<1>11. /\ Sound(Reset(value)) /\ Reset(value).data = value.data /\ Reset(value).write = 0
  BY <1>10, ResetSound
<1>12. Len(value.data) \in Nat /\ 24 + Len(Body(m)) <= Len(value.data)
  BY <1>3, <1>10, LenProperties DEF Sound, Shape
<1>13. /\ Sound(r) /\ Len(r.data) = Len(value.data) /\ r.write = 24
       /\ \A i \in 1 .. Len(value.data) :
            r.data[i] = IF i \in 1 .. 24 THEN hb[i] ELSE value.data[i]
  <2> DEFINE v == Reset(value)
  <2>1. v.write + Len(hb) <= Len(v.data) BY <1>1, <1>5, <1>11, <1>12
  <2>2. Sound(v) BY <1>11
  <2>. HIDE DEF v
  <2>3. /\ Sound(r) /\ Len(r.data) = Len(v.data) /\ r.write = v.write + Len(hb)
        /\ \A i \in 1 .. Len(v.data) :
             r.data[i] = IF i \in v.write + 1 .. v.write + Len(hb)
                         THEN hb[i - v.write] ELSE v.data[i]
    BY <1>5, <2>1, <2>2, WriteBytesContent DEF v
  <2>4. v.write = 0 /\ v.data = value.data BY <1>11 DEF v
  <2>. HIDE DEF r
  <2>. QED BY <1>5, <1>12, <2>3, <2>4
<1>. HIDE DEF r
<1> DEFINE b == MoveWriteForward(r, BodyLen(m))
<1>14. Sound(b) /\ b.data = r.data BY <1>3, <1>13, MoveWriteSound
<1>15. b.write = 24 + BodyLen(m)
  <2>1. b.write = Lesser(24 + BodyLen(m), Len(r.data))
    BY <1>13 DEF MoveWriteForward, Sound, Shape
  <2>2. 24 + BodyLen(m) <= Len(r.data) BY <1>3, <1>12, <1>13
  <2>. QED BY <2>1, <2>2 DEF Lesser
<1>. HIDE DEF b
<1>16. BytesSent(m) = SubSeq(r.data, 1, 24 + BodyLen(m))
  BY <1>9, <1>14, <1>15 DEF BytesSent, ReadAllBytes, b
<1>17. /\ BytesSent(m) \in Seq(Memory) /\ Len(BytesSent(m)) = 24 + BodyLen(m)
       /\ \A i \in 1 .. 24 + BodyLen(m) : BytesSent(m)[i] = r.data[i]
  <2> DEFINE n == 24 + BodyLen(m)
  <2>1. n \in Nat /\ n >= 1 /\ n <= Len(r.data) BY <1>3, <1>12, <1>13
  <2>2. r.data \in Seq(Memory) BY <1>13 DEF Sound, Shape
  <2>. HIDE DEF n
  <2>3. Len(r.data) \in Nat BY <2>2, LenProperties
  <2>4. ASSUME NEW i \in 1 .. n PROVE r.data[i] \in Memory
    <3>1. i \in 1 .. Len(r.data) BY <2>1, <2>3
    <3>. QED BY <2>2, <3>1, ElementOfSeq
  <2> DEFINE s == SubSeq(r.data, 1, n)
  <2>5. /\ s \in Seq(Memory) /\ Len(s) = (IF 1 <= n THEN n - 1 + 1 ELSE 0)
        /\ \A i \in 1 .. n - 1 + 1 : s[i] = r.data[1 + i - 1]
    BY <2>1, <2>4, SubSeqProperties
  <2>6. BytesSent(m) = s BY <1>16 DEF n
  <2>. HIDE DEF s
  <2>7. s \in Seq(Memory) /\ Len(s) = n /\ \A i \in 1 .. n : s[i] = r.data[i]
    <3>1. n - 1 + 1 = n /\ 1 <= n BY <2>1
    <3>2. \A i \in 1 .. n : 1 + i - 1 = i OBVIOUS
    <3>. QED BY <2>5, <3>1, <3>2
  <2>. QED BY <2>6, <2>7 DEF n
<1>18. ASSUME NEW i \in 1 .. 24 PROVE BytesSent(m)[i] = HeaderBytes(HeaderOf(m))[i]
  <2>1. i \in 1 .. 24 + BodyLen(m) /\ i \in 1 .. Len(value.data) BY <1>3, <1>12
  <2>. QED BY <1>13, <1>17, <2>1 DEF hb
<1>19. ASSUME NEW i \in 1 .. BodyLen(m) PROVE BytesSent(m)[24 + i] = Body(m)[i]
  <2>1. /\ 24 + i \in 1 .. 24 + BodyLen(m) /\ 24 + i \in 1 .. Len(value.data)
        /\ 24 + i \notin 1 .. 24 /\ i \in 1 .. Len(Body(m))
    BY <1>3, <1>12
  <2>. QED BY <1>10, <1>13, <1>17, <2>1
<1>. QED BY <1>17, <1>18, <1>19
-----------------------------------------------------------------------------
(* What has arrived of a message *)

\* A short and an int are read as they were written.
LEMMA ShortRead ==
  ASSUME NEW n \in Nat, n < 65536
  PROVE  256 * ((n \div 256) % 256) + (n % 256) = n
BY SMT

LEMMA IntRead ==
  ASSUME NEW n \in Nat, n \div 65536 < 65536
  PROVE  16777216 * (((n \div 65536) \div 256) % 256) + 65536 * ((n \div 65536) % 256)
           + 256 * ((n \div 256) % 256) + (n % 256) = n
<1> DEFINE w == n \div 65536
           l == n % 65536
<1>1. w \in Nat /\ l \in Nat /\ l < 65536 /\ n = 65536 * w + l BY SMT
<1>2. n % 256 = l % 256 /\ (n \div 256) % 256 = (l \div 256) % 256 BY <1>1, SMT
<1>3. 256 * ((w \div 256) % 256) + (w % 256) = w BY <1>1, ShortRead
<1>4. 256 * ((l \div 256) % 256) + (l % 256) = l BY <1>1, ShortRead
<1>. QED BY <1>1, <1>2, <1>3, <1>4, SMT

\* The header at the beginning of b is that of m, and fits its fields.
HeaderArrived(b, m) ==
  /\ Sound(b) /\ 24 <= Len(b.data)
  /\ \A i \in 1 .. 24 : b.data[i] = HeaderBytes(HeaderOf(m))[i]

\* A message whose fields have the width that the header has for them.
Sized(m) == m.status < 65536 /\ BodyLen(m) \div 65536 < 65536

LEMMA ConstructibleFits ==
  ASSUME NEW m \in Buildable, Constructible(m)
  PROVE  Worded(m) /\ Sized(m)
<1>1. ASSUME NEW n \in Nat, (n + 24) \div 65536 < 65536 PROVE n \div 65536 < 65536
  BY <1>1, SMT
<1>2. Worded(m) BY DEF Constructible, Worded
<1>3. BodyLen(m) \in Nat BY BodyType
<1>4. BodyLen(m) \div 65536 < 65536 BY <1>1, <1>3 DEF Constructible, HeaderSize
<1>. QED BY <1>2, <1>4 DEF Constructible, Sized

LEMMA HeaderRead ==
  ASSUME NEW m \in Buildable, Worded(m), Sized(m), NEW b, HeaderArrived(b, m)
  PROVE  LET h == ParseHeader(b)
         IN  /\ h.magic = m.magic /\ h.opcode = m.opcode
             /\ h.keyLen = Len(m.key) % KeyLenLimit
             /\ h.extrasLen = Len(m.flags) + Len(m.expires)
             /\ h.status = m.status /\ h.total = BodyLen(m)
<1> DEFINE d == b.data
           s == HeaderBytes(HeaderOf(m))
           g == HeaderOf(m)
<1>1. d \in Seq(Memory) /\ Len(d) \in Nat /\ 24 <= Len(d) /\ \A i \in 1 .. 24 : d[i] = s[i]
  BY LenProperties DEF HeaderArrived, Sound, Shape
<1>2. /\ ParseHeader(b).magic = d[1] /\ ParseHeader(b).opcode = d[2]
      /\ ParseHeader(b).keyLen = Short(SubSeq(d, 3, 4)) /\ ParseHeader(b).extrasLen = d[5]
      /\ ParseHeader(b).status = Short(SubSeq(d, 7, 8))
      /\ ParseHeader(b).total = Word32(SubSeq(d, 9, 12))
  BY DEF ParseHeader
<1>3. /\ g.magic = m.magic /\ g.opcode = m.opcode /\ g.keyLen = Len(m.key) % KeyLenLimit
      /\ g.extrasLen = Len(m.flags) + Len(m.expires) /\ g.status = m.status
      /\ g.total = BodyLen(m) /\ g.opaque = Fill(0, 4) /\ g.cas = Fill(0, 8)
  BY DEF HeaderOf
<1>4. g \in Headers BY HeaderOfType
<1>5. Len(Fill(0, 4)) = 4 /\ Len(Fill(0, 8)) = 8 BY DEF Fill
<1>. HIDE DEF g, d
<1>6. /\ s[1] = g.magic /\ s[2] = g.opcode
      /\ s[3] = (g.keyLen \div 256) % 256 /\ s[4] = g.keyLen % 256
      /\ s[5] = g.extrasLen
      /\ s[7] = (g.status \div 256) % 256 /\ s[8] = g.status % 256
      /\ s[9] = ((g.total \div 65536) \div 256) % 256
      /\ s[10] = (g.total \div 65536) % 256
      /\ s[11] = (g.total \div 256) % 256 /\ s[12] = g.total % 256
  <2>1. Len(g.opaque) = 4 /\ Len(g.cas) = 8 BY <1>3, <1>5
  <2>2. s = HeaderBytes(g) BY DEF g
  <2>. HIDE DEF s
  <2>. QED BY <1>4, <2>1, <2>2, HeaderBytesContent
<1>. HIDE DEF s
<1>18. Len(d) \in Nat /\ 24 <= Len(d) BY <1>1
<1>7. ASSUME NEW i \in 1 .. 23 PROVE SubSeq(d, i, i + 1)[1] = d[i] /\ SubSeq(d, i, i + 1)[2] = d[i + 1]
  <2>1. \A j \in i .. i + 1 : d[j] \in Memory
    <3>1. ASSUME NEW j \in i .. i + 1 PROVE d[j] \in Memory
      <4>1. j \in 1 .. Len(d) BY <1>18
      <4>. QED BY <1>1, <4>1, ElementOfSeq
    <3>. QED BY <3>1
  <2>2. \A j \in 1 .. (i + 1) - i + 1 : SubSeq(d, i, i + 1)[j] = d[i + j - 1]
    BY <2>1, SubSeqProperties
  <2>3. (i + 1) - i + 1 = 2 /\ i + 1 - 1 = i /\ i + 2 - 1 = i + 1 OBVIOUS
  <2>. QED BY <2>2, <2>3
<1>8. Short(SubSeq(d, 3, 4)) = 256 * d[3] + d[4]
  <2>1. SubSeq(d, 3, 4)[1] = d[3] /\ SubSeq(d, 3, 4)[2] = d[4]
    <3>1. 3 \in 1 .. 23 /\ 3 + 1 = 4 OBVIOUS
    <3>. QED BY <1>7, <3>1
  <2>. QED BY <2>1 DEF Short
<1>9. Short(SubSeq(d, 7, 8)) = 256 * d[7] + d[8]
  <2>1. SubSeq(d, 7, 8)[1] = d[7] /\ SubSeq(d, 7, 8)[2] = d[8]
    <3>1. 7 \in 1 .. 23 /\ 7 + 1 = 8 OBVIOUS
    <3>. QED BY <1>7, <3>1
  <2>. QED BY <2>1 DEF Short
<1>10. Word32(SubSeq(d, 9, 12)) = 16777216 * d[9] + 65536 * d[10] + 256 * d[11] + d[12]
  <2>1. \A j \in 9 .. 12 : d[j] \in Memory
    <3>1. ASSUME NEW j \in 9 .. 12 PROVE d[j] \in Memory
      <4>1. j \in 1 .. Len(d) BY <1>18
      <4>. QED BY <1>1, <4>1, ElementOfSeq
    <3>. QED BY <3>1
  <2>2. \A j \in 1 .. 12 - 9 + 1 : SubSeq(d, 9, 12)[j] = d[9 + j - 1]
    BY <2>1, SubSeqProperties
  <2>3. /\ 12 - 9 + 1 = 4 /\ 9 + 1 - 1 = 9 /\ 9 + 2 - 1 = 10 /\ 9 + 3 - 1 = 11
        /\ 9 + 4 - 1 = 12 /\ 1 \in 1 .. 4 /\ 2 \in 1 .. 4 /\ 3 \in 1 .. 4 /\ 4 \in 1 .. 4
    OBVIOUS
  <2>4. /\ SubSeq(d, 9, 12)[1] = d[9] /\ SubSeq(d, 9, 12)[2] = d[10]
        /\ SubSeq(d, 9, 12)[3] = d[11] /\ SubSeq(d, 9, 12)[4] = d[12]
    BY <2>2, <2>3
  <2>. QED BY <2>4 DEF Word32
<1>11. g.keyLen \in Nat /\ g.keyLen < 65536
  <2>1. Len(m.key) \in Nat BY PartsType
  <2>2. \A n \in Nat : n % KeyLenLimit \in Nat /\ n % KeyLenLimit < 65536
    BY SizesType, SMTT(30)
  <2>. QED BY <1>3, <2>1, <2>2
<1>12. g.status \in Nat /\ g.status < 65536 BY <1>3 DEF Buildable, Sized
<1>13. g.total \in Nat /\ g.total \div 65536 < 65536
  <2>1. BodyLen(m) \in Nat BY BodyType
  <2>2. BodyLen(m) \div 65536 < 65536 BY DEF Sized
  <2>3. g.total = BodyLen(m) BY <1>3
  <2>. QED BY <2>1, <2>2, <2>3
<1>14. 256 * s[3] + s[4] = g.keyLen BY <1>6, <1>11, ShortRead
<1>15. 256 * s[7] + s[8] = g.status BY <1>6, <1>12, ShortRead
<1>16. 16777216 * s[9] + 65536 * s[10] + 256 * s[11] + s[12] = g.total
  <2> DEFINE n == g.total
  <2>1. n \in Nat /\ n \div 65536 < 65536 BY <1>13
  <2>2. /\ s[9] = ((n \div 65536) \div 256) % 256
        /\ s[10] = (n \div 65536) % 256
        /\ s[11] = (n \div 256) % 256 /\ s[12] = n % 256
    BY <1>6
  <2>. HIDE DEF n
  <2>3. 16777216 * (((n \div 65536) \div 256) % 256) + 65536 * ((n \div 65536) % 256)
          + 256 * ((n \div 256) % 256) + (n % 256) = n
    BY <2>1, IntRead
  <2>4. 16777216 * s[9] + 65536 * s[10] + 256 * s[11] + s[12] = n
    BY <2>2, <2>3
  <2>. QED BY <2>4 DEF n
<1>17. /\ d[1] = s[1] /\ d[2] = s[2] /\ d[3] = s[3] /\ d[4] = s[4] /\ d[5] = s[5]
       /\ d[7] = s[7] /\ d[8] = s[8] /\ d[9] = s[9] /\ d[10] = s[10] /\ d[11] = s[11]
       /\ d[12] = s[12]
  BY <1>1
<1>. QED BY <1>2, <1>3, <1>6, <1>8, <1>9, <1>10, <1>14, <1>15, <1>16, <1>17

\* A piece of a sequence is found by its elements.
LEMMA PieceIs ==
  ASSUME NEW d, NEW r \in Nat, NEW t \in Seq(Memory), NEW n \in Nat, Len(t) = n,
         \A i \in 1 .. n : d[r + i] = t[i]
  PROVE  SubSeq(d, r + 1, r + n) = t
<1>1. ASSUME NEW i \in r + 1 .. r + n PROVE d[i] \in Memory
  <2>1. i - r \in 1 .. n /\ r + (i - r) = i OBVIOUS
  <2>2. d[i] = t[i - r] BY <2>1
  <2>3. t[i - r] \in Memory BY <2>1, ElementOfSeq
  <2>. QED BY <2>2, <2>3
<1> DEFINE s == SubSeq(d, r + 1, r + n)
<1>2. \A i \in r + 1 .. r + n : d[i] \in Memory BY <1>1
<1>3. /\ s \in Seq(Memory)
      /\ Len(s) = (IF r + 1 <= r + n THEN (r + n) - (r + 1) + 1 ELSE 0)
      /\ \A i \in 1 .. (r + n) - (r + 1) + 1 : s[i] = d[(r + 1) + i - 1]
  BY <1>2, SubSeqProperties
<1>. HIDE DEF s
<1>4. Len(s) = n BY <1>3
<1>5. ASSUME NEW i \in 1 .. n PROVE s[i] = t[i]
  <2>1. i \in 1 .. (r + n) - (r + 1) + 1 /\ (r + 1) + i - 1 = r + i OBVIOUS
  <2>2. s[i] = d[r + i] BY <1>3, <2>1
  <2>. QED BY <2>2
<1>6. s = t BY <1>3, <1>4, <1>5, SeqEqual
<1>. QED BY <1>6 DEF s

\* Where the parts are in the body.
LEMMA BodyParts ==
  ASSUME NEW m \in Buildable
  PROVE  LET f == Len(m.flags)
             x == Len(m.expires)
             k == Len(m.key)
         IN  /\ \A i \in 1 .. f : Body(m)[i] = m.flags[i]
             /\ \A i \in 1 .. x : Body(m)[f + i] = m.expires[i]
             /\ \A i \in 1 .. k : Body(m)[f + x + i] = m.key[i]
             /\ \A i \in 1 .. Len(m.value) : Body(m)[f + x + k + i] = m.value[i]
<1> DEFINE f == Len(m.flags)
           x == Len(m.expires)
           k == Len(m.key)
           v == Len(m.value)
           s2 == m.flags \o m.expires
           s3 == s2 \o m.key
           s4 == s3 \o m.value
<1>1. /\ m.flags \in Seq(Memory) /\ m.expires \in Seq(Memory)
      /\ m.key \in Seq(Memory) /\ m.value \in Seq(Memory)
      /\ f \in Nat /\ x \in Nat /\ k \in Nat /\ v \in Nat
  BY PartsType
<1>2. Body(m) = s4 BY DEF Body
<1>3. Glued(Memory, m.flags, m.expires, s2) BY <1>1, Joined
<1>. HIDE DEF s2
<1>4. /\ s2 \in Seq(Memory) /\ Len(s2) = f + x
      /\ \A i \in 1 .. f : s2[i] = m.flags[i]
      /\ \A i \in 1 .. x : s2[f + i] = m.expires[i]
  BY <1>3 DEF Glued
<1>5. Glued(Memory, s2, m.key, s3) BY <1>1, <1>4, Joined
<1>. HIDE DEF s3
<1>6. /\ s3 \in Seq(Memory) /\ Len(s3) = Len(s2) + k
      /\ \A i \in 1 .. Len(s2) : s3[i] = s2[i]
      /\ \A i \in 1 .. k : s3[Len(s2) + i] = m.key[i]
  BY <1>5 DEF Glued
<1>7. Glued(Memory, s3, m.value, s4) BY <1>1, <1>6, Joined
<1>. HIDE DEF s4
<1>8. /\ \A i \in 1 .. Len(s3) : s4[i] = s3[i]
      /\ \A i \in 1 .. v : s4[Len(s3) + i] = m.value[i]
  BY <1>7 DEF Glued
<1>. HIDE DEF f, x, k, v
<1>9. ASSUME NEW i \in 1 .. f PROVE s4[i] = m.flags[i]
  <2>1. i \in 1 .. Len(s2) /\ i \in 1 .. Len(s3) BY <1>1, <1>4, <1>6
  <2>. QED BY <1>4, <1>6, <1>8, <2>1
<1>10. ASSUME NEW i \in 1 .. x PROVE s4[f + i] = m.expires[i]
  <2>1. f + i \in 1 .. Len(s2) /\ f + i \in 1 .. Len(s3) BY <1>1, <1>4, <1>6
  <2>. QED BY <1>4, <1>6, <1>8, <2>1
<1>11. ASSUME NEW i \in 1 .. k PROVE s4[f + x + i] = m.key[i]
  <2>1. f + x + i \in 1 .. Len(s3) BY <1>1, <1>4, <1>6
  <2>2. s3[f + x + i] = m.key[i] BY <1>4, <1>6
  <2>. QED BY <1>8, <2>1, <2>2
<1>12. ASSUME NEW i \in 1 .. v PROVE s4[f + x + k + i] = m.value[i]
  BY <1>4, <1>6, <1>8
<1>. QED BY <1>2, <1>9, <1>10, <1>11, <1>12 DEF f, x, k, v

\* At least the header of m has arrived in b, which has room for all of it.
Arrived(b, m) ==
  /\ Ordered(b)
  /\ 24 <= b.write /\ b.write <= 24 + BodyLen(m) /\ 24 + BodyLen(m) <= Len(b.data)
  /\ \A i \in 1 .. b.write : b.data[i] = BytesSent(m)[i]

\* The buffer c is b, read up to r.
At(b, c, r) == Sound(c) /\ c.data = b.data /\ c.write = b.write /\ c.read = r

LEMMA ArrivedHeader ==
  ASSUME NEW m \in Buildable, Worded(m), NEW b, Arrived(b, m)
  PROVE  HeaderArrived(b, m)
<1>1. Sound(b) /\ b.write \in Nat /\ Len(b.data) \in Nat /\ b.write <= Len(b.data)
  BY OrderedType DEF Arrived, Ordered
<1>2. 24 <= b.write BY DEF Arrived
<1>3. 24 <= Len(b.data) BY <1>1, <1>2
<1>4. ASSUME NEW i \in 1 .. 24 PROVE b.data[i] = HeaderBytes(HeaderOf(m))[i]
  <2>1. i \in 1 .. b.write BY <1>1, <1>2
  <2>2. b.data[i] = BytesSent(m)[i] BY <2>1 DEF Arrived
  <2>3. BytesSent(m)[i] = HeaderBytes(HeaderOf(m))[i] BY BuiltBytes
  <2>. QED BY <2>2, <2>3
<1>. QED BY <1>1, <1>3, <1>4 DEF HeaderArrived

LEMMA SmallRemainder ==
  ASSUME NEW k \in Nat, k > 0, NEW n \in Nat, n < k
  PROVE  n % k = n
OBVIOUS

\* The parts of the body that have arrived.
LEMMA ArrivedParts ==
  ASSUME NEW m \in Buildable, Worded(m), Len(m.key) < KeyLenLimit,
         NEW b, Arrived(b, m)
  PROVE  LET f == Len(m.flags)
             x == Len(m.expires)
             k == Len(m.key)
             d == b.data
         IN  /\ f \in Nat /\ x \in Nat /\ k \in Nat /\ Len(m.value) \in Nat
             /\ b.write \in Nat /\ BodyLen(m) = f + x + k + Len(m.value)
             /\ 24 + f <= b.write => \A i \in 1 .. f : d[24 + i] = m.flags[i]
             /\ 24 + f + x <= b.write => \A i \in 1 .. x : d[24 + f + i] = m.expires[i]
             /\ 24 + f + x + k <= b.write => \A i \in 1 .. k : d[24 + f + x + i] = m.key[i]
             /\ \A i \in 1 .. Len(m.value) : 24 + f + x + k + i <= b.write =>
                  d[24 + f + x + k + i] = m.value[i]
<1> DEFINE f == Len(m.flags)
           x == Len(m.expires)
           k == Len(m.key)
           v == Len(m.value)
           d == b.data
           w == b.write
<1>1. f \in Nat /\ x \in Nat /\ k \in Nat /\ v \in Nat BY PartsType
<1>2. w \in Nat BY OrderedType DEF Arrived
<1>3. BodyLen(m) = f + x + k + v
  <2>1. k % KeyLenLimit = k
    <3>1. KeyLenLimit \in Nat /\ KeyLenLimit > 0 BY SizesType
    <3>2. k < KeyLenLimit OBVIOUS
    <3>. QED BY <1>1, <3>1, <3>2, SmallRemainder
  <2>2. BodyLen(m) = f + x + (k % KeyLenLimit) + v BY DEF BodyLen
  <2>. HIDE DEF f, x, k, v
  <2>. QED BY <2>1, <2>2
<1>4. w <= 24 + BodyLen(m) BY DEF Arrived
<1>5. /\ \A i \in 1 .. f : Body(m)[i] = m.flags[i]
      /\ \A i \in 1 .. x : Body(m)[f + i] = m.expires[i]
      /\ \A i \in 1 .. k : Body(m)[f + x + i] = m.key[i]
      /\ \A i \in 1 .. v : Body(m)[f + x + k + i] = m.value[i]
  BY BodyParts
<1>6. \A i \in 1 .. w : d[i] = BytesSent(m)[i] BY DEF Arrived
<1>7. \A i \in 1 .. BodyLen(m) : BytesSent(m)[24 + i] = Body(m)[i] BY BuiltBytes
<1>. HIDE DEF f, x, k, v, d, w
<1>8. ASSUME NEW i \in Nat, 1 <= i, 24 + i <= w PROVE d[24 + i] = Body(m)[i]
  <2>1. 24 + i \in 1 .. w BY <1>2, <1>8
  <2>2. BodyLen(m) \in Nat BY <1>1, <1>3
  <2>3. i \in 1 .. BodyLen(m) BY <1>2, <1>4, <1>8, <2>2
  <2>. QED BY <1>6, <1>7, <2>1, <2>3
<1>9. ASSUME 24 + f <= w, NEW i \in 1 .. f PROVE d[24 + i] = m.flags[i]
  <2>1. i \in Nat /\ 1 <= i /\ 24 + i <= w BY <1>1, <1>2, <1>9
  <2>. QED BY <1>5, <1>8, <2>1
<1>10. ASSUME 24 + f + x <= w, NEW i \in 1 .. x PROVE d[24 + f + i] = m.expires[i]
  <2>1. f + i \in Nat /\ 1 <= f + i /\ 24 + (f + i) <= w /\ 24 + (f + i) = 24 + f + i
    BY <1>1, <1>2, <1>10
  <2>2. d[24 + (f + i)] = Body(m)[f + i] BY <1>8, <2>1
  <2>. QED BY <1>5, <2>1, <2>2
<1>11. ASSUME 24 + f + x + k <= w, NEW i \in 1 .. k PROVE d[24 + f + x + i] = m.key[i]
  <2>1. /\ f + x + i \in Nat /\ 1 <= f + x + i /\ 24 + (f + x + i) <= w
        /\ 24 + (f + x + i) = 24 + f + x + i
    BY <1>1, <1>2, <1>11
  <2>2. d[24 + (f + x + i)] = Body(m)[f + x + i] BY <1>8, <2>1
  <2>. QED BY <1>5, <2>1, <2>2
<1>12. ASSUME NEW i \in 1 .. v, 24 + f + x + k + i <= w
       PROVE  d[24 + f + x + k + i] = m.value[i]
  <2>1. /\ f + x + k + i \in Nat /\ 1 <= f + x + k + i /\ 24 + (f + x + k + i) <= w
        /\ 24 + (f + x + k + i) = 24 + f + x + k + i
    BY <1>1, <1>2, <1>12
  <2>2. d[24 + (f + x + k + i)] = Body(m)[f + x + k + i] BY <1>8, <2>1
  <2>. QED BY <1>5, <2>1, <2>2
<1>. QED BY <1>1, <1>2, <1>3, <1>9, <1>10, <1>11, <1>12 DEF f, x, k, v, d, w

\* Reading n bytes on from r.
LEMMA ReadOn ==
  ASSUME NEW b, Ordered(b), NEW c, NEW r \in Nat, At(b, c, r), r <= b.write, NEW n \in Nat
  PROVE  /\ r + n <= b.write => At(b, MoveReadForward(c, n), r + n)
         /\ r + n > b.write => At(b, MoveReadForward(c, n), b.write)
         /\ Ordered(c)
<1>1. b.write \in Nat BY OrderedType
<1>2. Sound(c) /\ c.data = b.data /\ c.write = b.write /\ c.read = r BY DEF At
<1>3. /\ Sound(MoveReadForward(c, n)) /\ MoveReadForward(c, n).data = b.data
      /\ MoveReadForward(c, n).write = b.write
  BY <1>2, MoveReadSound
<1>4. MoveReadForward(c, n).read = Lesser(r + n, b.write)
  BY <1>2 DEF MoveReadForward, Sound, Shape
<1>5. r + n <= b.write => Lesser(r + n, b.write) = r + n BY DEF Lesser
<1>6. r + n > b.write => Lesser(r + n, b.write) = b.write BY <1>1 DEF Lesser
<1>7. Ordered(c) BY <1>1, <1>2 DEF Ordered
<1>. QED BY <1>3, <1>4, <1>5, <1>6, <1>7 DEF At

LEMMA StartAt ==
  ASSUME NEW b, Ordered(b), 24 <= b.write
  PROVE  At(b, MoveReadForward(ResetRead(b), HeaderSize), 24)
<1>1. Sound(b) /\ b \in Shape BY DEF Ordered, Sound
<1>2. At(b, ResetRead(b), 0)
  <2>1. ResetRead(b).read = 0 BY <1>1 DEF ResetRead, Shape
  <2>. QED BY <1>1, <2>1, ResetSound DEF At
<1>3. b.write \in Nat BY OrderedType
<1>4. At(b, MoveReadForward(ResetRead(b), 24), 0 + 24) BY <1>2, <1>3, ReadOn
<1>. QED BY <1>4 DEF HeaderSize

\* A word of four bytes, if it has arrived, or the place where reading stops.
LEMMA WordRead ==
  ASSUME NEW b, Ordered(b), NEW c, NEW r \in Nat, At(b, c, r), r <= b.write,
         r + 4 <= Len(b.data)
  PROVE  /\ r + 4 <= b.write => At(b, ReadWord(c, 4), r + 4)
         /\ r + 4 > b.write => At(b, ReadWord(c, 4), b.write)
         /\ Word(c, 4) = SubSeq(b.data, r + 1, r + 4)
<1>1. c.data = b.data /\ c.read = r BY DEF At
<1>2. ReadWord(c, 4) = MoveReadForward(c, 4) /\ Word(c, 4) = SubSeq(b.data, r + 1, r + 4)
  BY <1>1 DEF ReadWord, Word
<1>. QED BY <1>2, ReadOn

\* The extras of a message of that class.
LEMMA ExtrasRead ==
  ASSUME NEW class \in Classes, NEW m \in Buildable, OfClass(class, m), Worded(m),
         Len(m.key) < KeyLenLimit, NEW b, Arrived(b, m),
         NEW h, h.extrasLen = Len(m.flags) + Len(m.expires)
  PROVE  LET e == ReadExtras(class, h, MoveReadForward(ResetRead(b), HeaderSize))
             n == Len(m.flags) + Len(m.expires)
         IN  /\ e.ok
             /\ 24 + n <= b.write =>
                  At(b, e.buffer, 24 + n) /\ e.flags = m.flags /\ e.expires = m.expires
             /\ 24 + n > b.write => At(b, e.buffer, b.write)
<1> DEFINE start == MoveReadForward(ResetRead(b), HeaderSize)
           e == ReadExtras(class, h, start)
           f == Len(m.flags)
           x == Len(m.expires)
           w == b.write
           d == b.data
           two == ReadWord(start, 4)
<1>1. /\ Ordered(b) /\ 24 <= w /\ 24 + BodyLen(m) <= Len(d)
  BY DEF Arrived
<1>2. At(b, start, 24) BY <1>1, StartAt
<1>3. m.flags \in Seq(Memory) /\ m.expires \in Seq(Memory) BY PartsType
<1>4. w \in Nat /\ Len(d) \in Nat BY <1>1, OrderedType
<1>5. /\ Len(m.key) \in Nat /\ Len(m.value) \in Nat
      /\ BodyLen(m) = f + x + Len(m.key) + Len(m.value)
      /\ 24 + f <= w => \A i \in 1 .. f : d[24 + i] = m.flags[i]
      /\ 24 + f + x <= w => \A i \in 1 .. x : d[24 + f + i] = m.expires[i]
  BY ArrivedParts, ZenonT(60)
<1>9. f \in Nat /\ x \in Nat /\ BodyLen(m) \in Nat BY ArrivedParts, BodyType
<1>10. 24 + (f + x) <= Len(d)
  <2> DEFINE n == BodyLen(m)
             u == Len(d)
             k == Len(m.key)
             v == Len(m.value)
  <2>1. f \in Nat /\ x \in Nat /\ n \in Nat BY <1>9
  <2>2. k \in Nat /\ v \in Nat /\ n = f + x + k + v BY <1>5
  <2>3. 24 + n <= u /\ u \in Nat BY <1>1, <1>4
  <2>4. 24 + (f + x) <= u
    <3>. HIDE DEF f, x, k, v, n, u
    <3>. QED BY <2>1, <2>2, <2>3
  <2>. QED BY <2>4
<1>. HIDE DEF start
<1>6. CASE ~ HasFlags(class)
  <2>1. f = 0 /\ x = 0 BY <1>6 DEF OfClass, HasFlags
  <2>2. m.flags = <<>> /\ m.expires = <<>> BY <1>3, <2>1, EmptySeq
  <2>3. e = [buffer |-> start, flags |-> <<>>, expires |-> <<>>, ok |-> TRUE]
    BY <1>6 DEF ReadExtras
  <2>4. e.ok /\ e.buffer = start /\ e.flags = m.flags /\ e.expires = m.expires
    BY <2>2, <2>3
  <2>5. 24 + (f + x) = 24 BY <2>1
  <2>6. ~ (24 > w) BY <1>1, <1>4
  <2>. HIDE DEF e, f, x
  <2>. QED BY <1>2, <2>4, <2>5, <2>6 DEF e, f, x, start
<1>7. CASE class = "GetResponse"
  <2>1. f = 4 /\ x = 0 BY <1>7 DEF OfClass, HasFlags
  <2>2. m.expires = <<>> BY <1>3, <2>1, EmptySeq
  <2>3. h.extrasLen = ExtrasSize(class) BY <1>7, <2>1 DEF ExtrasSize
  <2>4. e = [buffer |-> two, flags |-> Word(start, 4), expires |-> <<>>, ok |-> TRUE]
    BY <1>7, <2>3 DEF ReadExtras, HasFlags
  <2>5. 24 + 4 <= Len(d)
    <3>. HIDE DEF f, x, d
    <3>. QED BY <1>4, <1>10, <2>1
  <2>6. /\ 24 + 4 <= w => At(b, two, 24 + 4)
        /\ 24 + 4 > w => At(b, two, w)
        /\ Word(start, 4) = SubSeq(d, 24 + 1, 24 + 4)
    BY <1>1, <1>2, <2>5, WordRead
  <2>7. 24 + 4 <= w => SubSeq(d, 24 + 1, 24 + 4) = m.flags
    BY <1>3, <1>5, <2>1, PieceIs
  <2>8. e.ok /\ e.buffer = two /\ e.flags = Word(start, 4) /\ e.expires = m.expires
    BY <2>2, <2>4
  <2>9. 24 + (f + x) = 24 + 4 BY <2>1
  <2>. HIDE DEF e, f, x, two, d, w
  <2>10. /\ e.ok
         /\ 24 + (f + x) <= w =>
              At(b, e.buffer, 24 + (f + x)) /\ e.flags = m.flags /\ e.expires = m.expires
         /\ 24 + (f + x) > w => At(b, e.buffer, w)
    BY <2>6, <2>7, <2>8, <2>9
  <2>. QED BY <2>10 DEF e, f, x, w, start
<1>8. CASE class = "SetRequest"
  <2>1. f = 4 /\ x = 4 BY <1>8 DEF OfClass, HasFlags
  <2>2. h.extrasLen = ExtrasSize(class) BY <1>8, <2>1 DEF ExtrasSize
  <2>3. e = [buffer |-> ReadWord(two, 4), flags |-> Word(start, 4),
             expires |-> Word(two, 4), ok |-> TRUE]
    BY <1>8, <2>2 DEF ReadExtras, HasFlags
  <2>4. 32 <= Len(d)
    <3>. HIDE DEF f, x, d
    <3>. QED BY <1>4, <1>10, <2>1
  <2>5. /\ 24 + 4 <= w => At(b, two, 24 + 4)
        /\ 24 + 4 > w => At(b, two, w)
        /\ Word(start, 4) = SubSeq(d, 24 + 1, 24 + 4)
    <3>1. 24 + 4 <= Len(d) BY <1>4, <2>4
    <3>. QED BY <1>1, <1>2, <3>1, WordRead
  <2>6. 24 + 4 <= w => SubSeq(d, 24 + 1, 24 + 4) = m.flags
    BY <1>3, <1>5, <2>1, PieceIs
  <2>7. /\ e.ok /\ e.buffer = ReadWord(two, 4) /\ e.flags = Word(start, 4)
        /\ e.expires = Word(two, 4)
    BY <2>3
  <2>8. 24 + (f + x) = 32 BY <2>1
  <2>. HIDE DEF e, two
  <2>9. CASE 28 <= w
    <3>1. At(b, two, 28) BY <2>5, <2>9
    <3>2. 28 + 4 <= Len(d) BY <1>4, <2>4
    <3>3. /\ 28 + 4 <= w => At(b, ReadWord(two, 4), 28 + 4)
          /\ 28 + 4 > w => At(b, ReadWord(two, 4), w)
          /\ Word(two, 4) = SubSeq(d, 28 + 1, 28 + 4)
      BY <1>1, <2>9, <3>1, <3>2, WordRead
    <3>4. 28 + 4 <= w => SubSeq(d, 28 + 1, 28 + 4) = m.expires
      <4>. SUFFICES ASSUME 28 + 4 <= w PROVE SubSeq(d, 28 + 1, 28 + 4) = m.expires
        OBVIOUS
      <4>1. \A i \in 1 .. x : d[24 + f + i] = m.expires[i] BY <1>5, <2>1
      <4>2. \A i \in 1 .. 4 : d[28 + i] = m.expires[i] BY <2>1, <4>1
      <4>. QED BY <1>3, <2>1, <4>2, PieceIs
    <3>. HIDE DEF f, x, d, w
    <3>5. /\ e.ok
          /\ 24 + (f + x) <= w =>
               At(b, e.buffer, 24 + (f + x)) /\ e.flags = m.flags /\ e.expires = m.expires
          /\ 24 + (f + x) > w => At(b, e.buffer, w)
      BY <2>5, <2>6, <2>7, <2>8, <2>9, <3>3, <3>4
    <3>. QED BY <3>5 DEF e, f, x, w, start
  <2>10. CASE ~ (28 <= w)
    <3>1. At(b, two, w) /\ 24 + (f + x) > w BY <1>4, <2>1, <2>5, <2>10
    <3>2. w + 4 <= Len(d) /\ w <= w /\ w + 4 > w BY <1>4, <2>4, <2>10
    <3>3. At(b, ReadWord(two, 4), w) BY <1>1, <1>4, <3>1, <3>2, WordRead
    <3>. HIDE DEF f, x, d, w
    <3>4. ~ (24 + (f + x) <= w) BY <1>4, <2>8, <3>1
    <3>. QED BY <2>7, <3>1, <3>3, <3>4 DEF e, f, x, w, start
  <2>. QED BY <2>9, <2>10
<1>. QED BY <1>6, <1>7, <1>8 DEF HasFlags

LEMMA KeyRead ==
  ASSUME NEW b, Ordered(b), NEW c, NEW r \in Nat, At(b, c, r), r <= b.write,
         NEW h, h.keyLen \in Nat
  PROVE  LET key == ReadKey(h, c)
         IN  /\ r + h.keyLen <= b.write =>
                  /\ key.ok /\ At(b, key.buffer, r + h.keyLen)
                  /\ key.key = SubSeq(b.data, r + 1, r + h.keyLen)
             /\ r + h.keyLen > b.write => ~ key.ok
<1> DEFINE k == h.keyLen
           w == b.write
<1>1. w \in Nat /\ k \in Nat BY OrderedType
<1>2. c.read = r /\ c.write = w /\ c.data = b.data BY DEF At
<1>3. BytesLeftToRead(c) = w - r
  <2>1. BytesLeftToRead(c) = IF w > r THEN w - r ELSE 0 BY <1>2 DEF BytesLeftToRead
  <2>. QED BY <1>1, <2>1
<1>4. CASE r + k <= w
  <2>1. BytesLeftToRead(c) >= k /\ Lesser(k, BytesLeftToRead(c)) = k
    BY <1>1, <1>3, <1>4 DEF Lesser
  <2>2. BytesRead(c, k) = SubSeq(b.data, r + 1, r + k) BY <1>2, <2>1 DEF BytesRead
  <2>3. At(b, MoveReadForward(c, k), r + k) BY <1>1, <1>4, ReadOn
  <2>4. ReadKey(h, c) = [buffer |-> MoveReadForward(c, k), key |-> BytesRead(c, k), ok |-> TRUE]
    BY <2>1 DEF ReadKey
  <2>5. ~ (r + k > w) BY <1>1, <1>4
  <2>. QED BY <2>2, <2>3, <2>4, <2>5
<1>5. CASE ~ (r + k <= w)
  <2>1. ~ (BytesLeftToRead(c) >= k) BY <1>1, <1>3, <1>5
  <2>2. ~ ReadKey(h, c).ok BY <2>1 DEF ReadKey
  <2>. QED BY <1>5, <2>2
<1>. QED BY <1>4, <1>5

\* The value gets its length, and the bytes of it that have arrived.
LEMMA ValueRead ==
  ASSUME NEW b, Ordered(b), NEW c, NEW r \in Nat, At(b, c, r), r <= b.write,
         NEW class, NEW h, NEW n \in Nat, r + n <= Len(b.data),
         n = IF HasFlags(class) THEN h.total - (h.keyLen + h.extrasLen) ELSE 0
  PROVE  LET v == ReadValue(class, h, c).value
         IN  /\ v \in Seq(Memory) /\ Len(v) = n
             /\ \A j \in 1 .. n : v[j] = IF r + j <= b.write THEN b.data[r + j] ELSE Junk
<1> DEFINE w == b.write
           k == Lesser(n, w - r)
           piece == SubSeq(b.data, r + 1, r + k)
           rest == Fill(Junk, n - k)
           v == piece \o rest
<1>1. w \in Nat /\ b.data \in Seq(Memory) /\ Len(b.data) \in Nat /\ w <= Len(b.data)
  BY OrderedType
<1>2. c.read = r /\ c.write = w /\ c.data = b.data BY DEF At
<1>3. Lesser(n, BytesLeftToRead(c)) = k
  <2>1. BytesLeftToRead(c) = IF w > r THEN w - r ELSE 0 BY <1>2 DEF BytesLeftToRead
  <2>2. BytesLeftToRead(c) = w - r BY <1>1, <2>1
  <2>. QED BY <2>2
<1>4. BytesRead(c, n) = piece BY <1>2, <1>3 DEF BytesRead
<1>5. k \in Nat /\ k <= n /\ r + k <= w /\ (k = n \/ r + k = w)
  BY <1>1 DEF Lesser
<1>6. ReadValue(class, h, c).value = BytesRead(c, n) \o Fill(Junk, n - Len(BytesRead(c, n)))
  BY DEF ReadValue
<1>. HIDE DEF k
<1>7. \A i \in r + 1 .. r + k : b.data[i] \in Memory
  <2>1. ASSUME NEW i \in r + 1 .. r + k PROVE b.data[i] \in Memory
    <3>1. i \in 1 .. Len(b.data) BY <1>1, <1>5
    <3>. QED BY <1>1, <3>1, ElementOfSeq
  <2>. QED BY <2>1
<1>8. /\ piece \in Seq(Memory) /\ Len(piece) = k
      /\ \A i \in 1 .. k : piece[i] = b.data[r + i]
  <2>1. /\ piece \in Seq(Memory)
        /\ Len(piece) = (IF r + 1 <= r + k THEN (r + k) - (r + 1) + 1 ELSE 0)
        /\ \A i \in 1 .. (r + k) - (r + 1) + 1 : piece[i] = b.data[(r + 1) + i - 1]
    BY <1>5, <1>7, SubSeqProperties
  <2>. HIDE DEF piece
  <2>2. Len(piece) = k BY <1>5, <2>1
  <2>3. ASSUME NEW i \in 1 .. k PROVE piece[i] = b.data[r + i]
    <3>1. i \in 1 .. (r + k) - (r + 1) + 1 /\ (r + 1) + i - 1 = r + i BY <1>5
    <3>2. piece[i] = b.data[(r + 1) + i - 1] BY <2>1, <3>1
    <3>. QED BY <3>1, <3>2
  <2>. QED BY <2>1, <2>2, <2>3
<1>. HIDE DEF piece
<1>9. n - k \in Nat BY <1>5
<1>10. /\ rest \in Seq(Memory) /\ Len(rest) = n - k
       /\ \A i \in 1 .. n - k : rest[i] = Junk
  <2>1. Junk \in Memory BY DEF Memory
  <2>2. rest \in Seq(Memory) /\ Len(rest) = n - k BY <1>9, <2>1, FillType
  <2>. QED BY <2>2 DEF Fill
<1>11. ReadValue(class, h, c).value = v BY <1>4, <1>6, <1>8
<1>. HIDE DEF rest
<1>12. Glued(Memory, piece, rest, v) BY <1>8, <1>10, Joined
<1>. HIDE DEF v
<1>13. /\ v \in Seq(Memory) /\ Len(v) = k + (n - k)
       /\ \A i \in 1 .. k : v[i] = piece[i]
       /\ \A i \in 1 .. n - k : v[k + i] = rest[i]
  BY <1>8, <1>10, <1>12 DEF Glued
<1>14. ASSUME NEW j \in 1 .. n
       PROVE  v[j] = IF r + j <= w THEN b.data[r + j] ELSE Junk
  <2>1. CASE j <= k
    <3>1. j \in 1 .. k /\ r + j <= w BY <1>1, <1>5, <2>1
    <3>. QED BY <1>8, <1>13, <3>1
  <2>2. CASE ~ (j <= k)
    <3>1. j - k \in 1 .. n - k /\ k + (j - k) = j /\ ~ (r + j <= w) BY <1>1, <1>5, <2>2
    <3>2. v[j] = rest[j - k] BY <1>13, <3>1
    <3>. QED BY <1>10, <3>1, <3>2
  <2>. QED BY <2>1, <2>2
<1>15. Len(v) = n BY <1>5, <1>13
<1>. QED BY <1>11, <1>13, <1>14, <1>15

\* A message is read as it was built.  When it arrives completely, its extras, its key
\* and its value are those it was built from; when the end of it is missing, the
\* missing part is a part of the value, which holds Junk there, or, if it has a key,
\* Parse fails.  In no case does the size of the value wrap.
THEOREM RoundTrip ==
  ASSUME NEW class \in Classes, NEW m \in Buildable, OfClass(class, m), Worded(m), Sized(m),
         Len(m.key) < KeyLenLimit, NEW b, Arrived(b, m)
  PROVE  LET h == ParseHeader(b)
             p == Parse(class, b)
             n == 24 + (Len(m.flags) + Len(m.expires))
             k == Len(m.key)
         IN  /\ ~ SizeWraps(class, h)
             /\ n + k <= b.write =>
                  /\ p.ok <=> Checked(class, h)
                  /\ p.flags = m.flags /\ p.expires = m.expires /\ p.key = m.key
                  /\ p.value \in Seq(Memory) /\ Len(p.value) = Len(m.value)
                  /\ \A j \in 1 .. Len(m.value) :
                       p.value[j] = IF n + k + j <= b.write THEN m.value[j] ELSE Junk
             /\ n + k > b.write /\ k > 0 => ~ p.ok
<1> DEFINE h == ParseHeader(b)
           p == Parse(class, b)
           f == Len(m.flags)
           x == Len(m.expires)
           n == 24 + (f + x)
           k == Len(m.key)
           v == Len(m.value)
           d == b.data
           w == b.write
           e == ReadExtras(class, h, MoveReadForward(ResetRead(b), HeaderSize))
           key == ReadKey(h, e.buffer)
           value == ReadValue(class, h, key.buffer).value
<1>1. /\ Ordered(b) /\ 24 <= w /\ w <= 24 + BodyLen(m) /\ 24 + BodyLen(m) <= Len(d)
  BY DEF Arrived
<1>2. /\ f \in Nat /\ x \in Nat /\ k \in Nat /\ v \in Nat /\ w \in Nat
      /\ BodyLen(m) = f + x + k + v
      /\ 24 + f + x + k <= w => \A i \in 1 .. k : d[24 + f + x + i] = m.key[i]
      /\ \A i \in 1 .. v : 24 + f + x + k + i <= w => d[24 + f + x + k + i] = m.value[i]
  BY ArrivedParts, ZenonT(60)
<1>3. Len(d) \in Nat BY <1>1, OrderedType
<1>4. h.keyLen = k /\ h.extrasLen = f + x /\ h.total = BodyLen(m)
  <2>1. /\ h.keyLen = Len(m.key) % KeyLenLimit
        /\ h.extrasLen = Len(m.flags) + Len(m.expires) /\ h.total = BodyLen(m)
    BY ArrivedHeader, HeaderRead
  <2>2. k % KeyLenLimit = k
    <3>1. KeyLenLimit \in Nat /\ KeyLenLimit > 0 BY SizesType
    <3>. QED BY <1>2, <3>1, SmallRemainder
  <2>. QED BY <2>1, <2>2
<1>5. /\ e.ok
      /\ n <= w => At(b, e.buffer, n) /\ e.flags = m.flags /\ e.expires = m.expires
      /\ n > w => At(b, e.buffer, w)
  <2>. HIDE DEF h
  <2>. QED BY <1>4, ExtrasRead
<1>6. /\ p.flags = e.flags /\ p.expires = e.expires /\ p.key = key.key
      /\ p.value = value /\ (p.ok <=> e.ok /\ key.ok /\ Checked(class, h))
  BY DEF Parse
<1>7. m.key \in Seq(Memory) BY PartsType
<1>8. HasFlags(class) \/ v = 0
  <2>1. ~ HasFlags(class) => m.value = <<>> BY DEF OfClass
  <2>. QED BY <2>1
<1>. HIDE DEF h, p, f, x, k, v, d, w, e
<1>9. ~ SizeWraps(class, h)
  <2>1. ~ (h.total < h.keyLen + h.extrasLen) BY <1>2, <1>4
  <2>. QED BY <2>1 DEF SizeWraps
<1>10. ASSUME n + k <= w
       PROVE  /\ p.ok <=> Checked(class, h)
              /\ p.flags = m.flags /\ p.expires = m.expires /\ p.key = m.key
              /\ p.value \in Seq(Memory) /\ Len(p.value) = v
              /\ \A j \in 1 .. v : p.value[j] = IF n + k + j <= w THEN m.value[j] ELSE Junk
  <2>1. n \in Nat /\ n <= w BY <1>2, <1>10
  <2>2. At(b, e.buffer, n) /\ e.flags = m.flags /\ e.expires = m.expires BY <1>5, <2>1
  <2>3. key.ok /\ At(b, key.buffer, n + k) /\ key.key = SubSeq(d, n + 1, n + k)
    <3>1. h.keyLen \in Nat /\ n <= b.write BY <1>2, <1>4, <2>1 DEF w
    <3>2. n + h.keyLen <= b.write BY <1>4, <1>10 DEF w
    <3>. HIDE DEF n
    <3>3. /\ key.ok /\ At(b, key.buffer, n + h.keyLen)
          /\ key.key = SubSeq(b.data, n + 1, n + h.keyLen)
      BY <1>1, <2>1, <2>2, <3>1, <3>2, KeyRead
    <3>. QED BY <1>4, <3>3 DEF d
  <2>4. SubSeq(d, n + 1, n + k) = m.key
    <3>1. ASSUME NEW i \in 1 .. k PROVE d[n + i] = m.key[i]
      <4>1. 24 + f + x + k <= w /\ 24 + f + x + i = n + i BY <1>2, <1>10
      <4>2. d[24 + f + x + i] = m.key[i] BY <1>2, <4>1
      <4>. QED BY <4>1, <4>2
    <3>2. Len(m.key) = k BY DEF k
    <3>. HIDE DEF n
    <3>. QED BY <1>2, <1>7, <2>1, <3>1, <3>2, PieceIs
  <2>5. v = IF HasFlags(class) THEN h.total - (h.keyLen + h.extrasLen) ELSE 0
    BY <1>2, <1>4, <1>8
  <2>6. n + k \in Nat /\ (n + k) + v <= Len(d) /\ n + k <= w
    <3>1. \A i, j, l, o, q, u \in Nat :
            q = i + j + l + o /\ 24 + q <= u => ((24 + (i + j)) + l) + o <= u
      OBVIOUS
    <3>2. BodyLen(m) \in Nat BY BodyType
    <3>3. (n + k) + v <= Len(d) BY <1>1, <1>2, <1>3, <3>1, <3>2, Zenon DEF n
    <3>. QED BY <1>2, <1>10, <3>3
  <2> DEFINE r == n + k
  <2>7. /\ value \in Seq(Memory) /\ Len(value) = v
        /\ \A j \in 1 .. v : value[j] = IF r + j <= w THEN d[r + j] ELSE Junk
    <3>1. r \in Nat /\ At(b, key.buffer, r) /\ r <= b.write /\ r + v <= Len(b.data)
      BY <2>3, <2>6 DEF d, w
    <3>. HIDE DEF r, n, key
    <3>2. v \in Nat /\ Ordered(b) BY <1>1, <1>2
    <3>3. /\ value \in Seq(Memory) /\ Len(value) = v
          /\ \A j \in 1 .. v : value[j] = IF r + j <= b.write THEN b.data[r + j] ELSE Junk
      BY <2>5, <3>1, <3>2, ValueRead, SMTT(30)
    <3>. HIDE DEF value
    <3>. QED BY <3>3 DEF d, w
  <2>8. ASSUME NEW j \in 1 .. v
        PROVE  value[j] = IF n + k + j <= w THEN m.value[j] ELSE Junk
    <3>1. value[j] = IF r + j <= w THEN d[r + j] ELSE Junk BY <2>7
    <3>2. r + j = n + k + j /\ 24 + f + x + k + j = n + k + j BY <1>2
    <3>3. CASE n + k + j <= w
      <4>1. d[24 + f + x + k + j] = m.value[j] BY <1>2, <3>2, <3>3
      <4>. HIDE DEF n, r, value
      <4>. QED BY <3>1, <3>2, <3>3, <4>1
    <3>4. CASE ~ (n + k + j <= w) BY <3>1, <3>2, <3>4
    <3>. QED BY <3>3, <3>4
  <2>. HIDE DEF n, key, value
  <2>. QED BY <1>5, <1>6, <2>2, <2>3, <2>4, <2>7, <2>8
<1>11. ASSUME n + k > w, k > 0
       PROVE  ~ p.ok
  <2>1. h.keyLen \in Nat BY <1>2, <1>4
  <2>2. CASE n <= w
    <3>1. n \in Nat /\ n <= b.write /\ n + h.keyLen > b.write
      BY <1>2, <1>4, <1>11, <2>2 DEF w
    <3>2. At(b, e.buffer, n) BY <1>5, <2>2
    <3>. HIDE DEF n
    <3>3. ~ key.ok BY <1>1, <2>1, <3>1, <3>2, KeyRead
    <3>. QED BY <1>6, <3>3
  <2>3. CASE ~ (n <= w)
    <3>1. n > w BY <1>2, <2>3
    <3>2. At(b, e.buffer, w) BY <1>5, <3>1
    <3>3. b.write \in Nat /\ At(b, e.buffer, b.write) /\ b.write <= b.write
          /\ b.write + h.keyLen > b.write
      BY <1>2, <1>4, <1>11, <3>2 DEF w
    <3>4. ~ key.ok BY <1>1, <2>1, <3>3, KeyRead
    <3>. QED BY <1>6, <3>4
  <2>. QED BY <2>2, <2>3
<1>. QED BY <1>9, <1>10, <1>11 DEF h, p, f, x, k, v, w
=============================================================================
