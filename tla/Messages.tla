------------------------------ MODULE Messages ------------------------------
(***************************************************************************)
(* MemcacheMessages.cpp: the header, and how a message is built into a     *)
(* buffer and parsed out of one.                                           *)
(*                                                                         *)
(* A message to be built is a record of its header fields that are set,    *)
(* its extras (flags and expires: four bytes each, or none), its key and   *)
(* its value as sequences of bytes.  The four classes differ in which of   *)
(* them they have and in what they check after parsing.                    *)
(***************************************************************************)
EXTENDS DataBuffer

CONSTANTS BuildSize,   \* the size of the buffer of a new message: 2048 bytes
          KeyLenLimit  \* the values KeyLen can take: 2^16, it is a short

ASSUME SizesAssumption == /\ BuildSize \in Nat /\ BuildSize >= 32
                          /\ KeyLenLimit \in Nat /\ KeyLenLimit > 0
                          /\ KeyLenLimit <= 65536

HeaderSize == 24

kMagicReq == 128
kMagicRes == 129
kOpGet == 0
kOpSet == 1
kResNoError == 0
kResKeyNotFound == 1

\* What there is to be built: requests and responses of a program.
Request(opcode, flags, expires, key, value) ==
  [magic |-> kMagicReq, opcode |-> opcode, status |-> 0, flags |-> flags,
   expires |-> expires, key |-> key, value |-> value]
Response(opcode, status, flags, value) ==
  [magic |-> kMagicRes, opcode |-> opcode, status |-> status, flags |-> flags,
   expires |-> <<>>, key |-> <<>>, value |-> value]

MessageRecords == [magic : Byte, opcode : Byte, status : Nat, flags : Seq(Byte),
                   expires : Seq(Byte), key : Seq(Byte), value : Seq(Byte)]

\* The class that ReadMessage chooses for a header, if it knows one.
Known(h) == h.magic \in {kMagicReq, kMagicRes} /\ h.opcode \in {kOpGet, kOpSet}
ClassOf(h) ==
  IF h.magic = kMagicReq
  THEN IF h.opcode = kOpGet THEN "GetRequest" ELSE "SetRequest"
  ELSE IF h.opcode = kOpGet THEN "GetResponse" ELSE "SetResponse"

Classes == {"GetRequest", "SetRequest", "GetResponse", "SetResponse"}
-----------------------------------------------------------------------------
(* The header: network byte order *)

Bytes2(n) == <<(n \div 256) % 256, n % 256>>
Bytes4(n) == Bytes2(n \div 65536) \o Bytes2(n)

Short(w) == 256 * w[1] + w[2]
Word32(w) == 16777216 * w[1] + 65536 * w[2] + 256 * w[3] + w[4]

\* WriteToBuffer
HeaderBytes(h) ==
  <<h.magic, h.opcode>> \o Bytes2(h.keyLen) \o <<h.extrasLen, h.dataType>>
    \o Bytes2(h.status) \o Bytes4(h.total) \o h.opaque \o h.cas

\* ParseFromBuffer, of a buffer with at least a header at its beginning.
ParseHeader(b) ==
  LET d(i, j) == SubSeq(b.data, i, j)
  IN  [magic |-> b.data[1], opcode |-> b.data[2], keyLen |-> Short(d(3, 4)),
       extrasLen |-> b.data[5], dataType |-> b.data[6], status |-> Short(d(7, 8)),
       total |-> Word32(d(9, 12)), opaque |-> d(13, 16), cas |-> LongLong(d(17, 24))]
-----------------------------------------------------------------------------
(* Building *)

\* WriteExtras, of the classes that have some.
WriteExtras(b, m) == WriteWord(WriteWord(b, m.flags), m.expires)

\* Mistake: the new size does not count what the buffer holds already.
GrowToFit(b, bytes) ==
  WriteBytes(IF BytesLeftForWrite(b) < Len(bytes) THEN Realloc(b, Len(bytes)) ELSE b, bytes)

\* WriteKey and WriteValue: make the buffer larger if need be, then write.
WriteGrowing(b, bytes) ==
  WriteBytes(IF BytesLeftForWrite(b) < Len(bytes)
             THEN Realloc(b, Len(b.data) + Len(bytes)) ELSE b, bytes)

\* Build: leave room for the header, write the body, and go back to write the
\* header, whose lengths are a byte and a short.  TotalBodyLen is added to; before
\* is what it holds already.
BuildFrom(m, before) ==
  LET start  == MoveWriteForward(NewBuffer(BuildSize), HeaderSize)
      extras == WriteExtras(start, m)
      key    == WriteGrowing(extras, m.key)
      value  == WriteGrowing(key, m.value)
      extrasLen == (extras.write - start.write) % 256
      keyLen    == (key.write - extras.write) % KeyLenLimit
      total     == before + extrasLen + keyLen + (value.write - key.write)
      header == [magic |-> m.magic, opcode |-> m.opcode, keyLen |-> keyLen,
                 extrasLen |-> extrasLen, dataType |-> 0, status |-> m.status,
                 total |-> total, opaque |-> Fill(0, 4), cas |-> Fill(0, 8)]
  IN  MoveWriteForward(WriteBytes(Reset(value), HeaderBytes(header)), total)

\* Mistake: the message object has been built before.
BuildAgain(m) ==
  BuildFrom(m, Len(m.flags) + Len(m.expires) + Len(m.key) + Len(m.value))

\* Mistake: TotalBodyLen does not count the extras.
BuildWithoutExtras(m) == BuildFrom(m, 0 - (Len(m.flags) + Len(m.expires)))

\* The programs build every message once, on a new object.
Build(m) == BuildFrom(m, 0)

\* What is sent of a built message.
BytesSent(m) == ReadAllBytes(Build(m))
-----------------------------------------------------------------------------
(* Parsing: each operator is given the buffer as its predecessor left it *)

HasFlags(class) == class \in {"GetResponse", "SetRequest"}
ExtrasSize(class) == IF class = "GetResponse" THEN 4 ELSE 8

\* The parts that the objects of a class have.
OfClass(class, m) ==
  /\ Len(m.flags) = IF HasFlags(class) THEN 4 ELSE 0
  /\ Len(m.expires) = IF class = "SetRequest" THEN 4 ELSE 0
  /\ ~ HasFlags(class) => m.value = <<>>

\* The length that Build gives the body; of a key, KeyLen is counted.
BodyLen(m) == Len(m.flags) + Len(m.expires) + (Len(m.key) % KeyLenLimit) + Len(m.value)

\* A message that can be built: flags and expiration are ints, the status is a short
\* and the length of the message fits an int.
Constructible(m) == /\ {Len(m.flags), Len(m.expires)} \subseteq {0, 4}
                    /\ m.status < 65536 /\ (BodyLen(m) + HeaderSize) \div 65536 < 65536
                    /\ Known(m) => OfClass(ClassOf(m), m)

\* ReadExtras: the buffer, the words read, and whether the length is right.
ReadExtras(class, h, b) ==
  IF ~ HasFlags(class) THEN [buffer |-> b, flags |-> <<>>, expires |-> <<>>, ok |-> TRUE]
  ELSE IF h.extrasLen # ExtrasSize(class)
  THEN [buffer |-> b, flags |-> <<>>, expires |-> <<>>, ok |-> FALSE]
  ELSE IF class = "GetResponse"
  THEN [buffer |-> ReadWord(b, 4), flags |-> Word(b, 4), expires |-> <<>>, ok |-> TRUE]
  ELSE [buffer |-> ReadWord(ReadWord(b, 4), 4), flags |-> Word(b, 4),
        expires |-> Word(ReadWord(b, 4), 4), ok |-> TRUE]

\* Mistake: the key is taken whether or not all of it has been read.
ReadKeyUnchecked(h, b) ==
  [buffer |-> MoveReadForward(b, h.keyLen),
   key |-> SubSeq(b.data, b.read + 1, Lesser(b.read + h.keyLen, Len(b.data))), ok |-> TRUE]

\* ReadKey: a key that is not there completely is an error.
ReadKey(h, b) ==
  IF BytesLeftToRead(b) >= h.keyLen
  THEN [buffer |-> MoveReadForward(b, h.keyLen), key |-> BytesRead(b, h.keyLen), ok |-> TRUE]
  ELSE [buffer |-> b, key |-> <<>>, ok |-> FALSE]

\* The size of the value is computed in unsigned arithmetic without a test.
SizeWraps(class, h) == HasFlags(class) /\ h.total < h.keyLen + h.extrasLen

\* ReadValue, of a size that does not wrap: the value gets the length the header
\* says, and the bytes there are.  The read offset is moved twice.
ReadValue(class, h, b) ==
  LET size == IF HasFlags(class) THEN h.total - (h.keyLen + h.extrasLen) ELSE 0
      read == BytesRead(b, size)
  IN  [buffer |-> MoveReadForward(MoveReadForward(b, size), size),
       value |-> read \o Fill(Junk, size - Len(read))]

\* What the Parse of a class checks after BaseMessage::Parse.
Checked(class, h) ==
  CASE class = "GetRequest" -> /\ h.magic = kMagicReq /\ h.opcode = kOpGet
                               /\ h.extrasLen = 0 /\ h.keyLen > 0
                               /\ h.total = h.keyLen
    [] class = "SetRequest" -> /\ h.extrasLen = 8 /\ h.keyLen > 0
                               /\ h.total > h.extrasLen + h.keyLen
    [] OTHER -> TRUE

\* Parse, with the buffer it leaves.  All parts are read even if one fails.
Parse(class, b) ==
  LET h      == ParseHeader(b)
      extras == ReadExtras(class, h, MoveReadForward(ResetRead(b), HeaderSize))
      key    == ReadKey(h, extras.buffer)
      value  == ReadValue(class, h, key.buffer)
  IN  [ok |-> extras.ok /\ key.ok /\ Checked(class, h), buffer |-> value.buffer,
       flags |-> extras.flags, expires |-> extras.expires, key |-> key.key,
       value |-> value.value, status |-> h.status]
=============================================================================
