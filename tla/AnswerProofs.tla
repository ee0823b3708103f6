---------------------------- MODULE AnswerProofs ----------------------------
(***************************************************************************)
(* Theorem about the server as a whole, from the bytes it receives to the  *)
(* bytes it replies: it answers with what it has stored, whatever has been *)
(* lost on the way of a request.                                           *)
(***************************************************************************)
EXTENDS FramingProofs

(* What a client reads of a reply *)

\* A buffer that is as long as what is put into it holds just that.
LEMMA Filled ==
  ASSUME NEW s \in Seq(Memory)
  PROVE  LET b == WriteBytes(NewBuffer(Len(s)), s)
         IN  /\ Ordered(b) /\ b.write = Len(s) /\ Len(b.data) = Len(s)
             /\ \A i \in 1 .. Len(s) : b.data[i] = s[i]
<1> DEFINE a == NewBuffer(Len(s))
           b == WriteBytes(a, s)
<1>1. Len(s) \in Nat BY LenProperties
<1>2. Sound(a) /\ a.write = 0 /\ Len(a.data) = Len(s) BY <1>1, NewBufferSound
<1>3. a.read = 0 BY DEF NewBuffer
<1>4. Ordered(a) BY <1>2, <1>3 DEF Ordered
<1>. HIDE DEF a
<1>5. Ordered(b) BY <1>4, WriteBytesOrdered
<1>6. a.write + Len(s) <= Len(a.data) BY <1>1, <1>2
<1>7. /\ Len(b.data) = Len(a.data) /\ b.write = a.write + Len(s)
      /\ \A i \in 1 .. Len(a.data) :
           b.data[i] = IF i \in a.write + 1 .. a.write + Len(s) THEN s[i - a.write] ELSE a.data[i]
  BY <1>2, <1>6, WriteBytesContent
<1>. HIDE DEF b
<1>8. \A i \in 1 .. Len(s) : b.data[i] = s[i]
  <2>1. ASSUME NEW i \in 1 .. Len(s) PROVE b.data[i] = s[i]
    <3>1. i \in a.write + 1 .. a.write + Len(s) /\ i - a.write = i BY <1>1, <1>2
    <3>. QED BY <1>2, <1>7, <3>1
  <2>. QED BY <2>1
<1>9. b.write = Len(s) BY <1>1, <1>2, <1>7
<1>. QED BY <1>2, <1>5, <1>7, <1>8, <1>9 DEF a, b

\* A response that has arrived completely is parsed, and is what was built.
LEMMA ReplyRead ==
  ASSUME NEW class \in {"GetResponse", "SetResponse"}, NEW m \in Buildable,
         OfClass(class, m), Worded(m), Sized(m), m.key = <<>>
  PROVE  LET s == BytesSent(m)
             p == Parse(class, WriteBytes(NewBuffer(Len(s)), s))
         IN  p.ok /\ p.status = m.status /\ p.flags = m.flags /\ p.value = m.value
<1> DEFINE s == BytesSent(m)
           b == WriteBytes(NewBuffer(Len(s)), s)
           p == Parse(class, b)
           h == ParseHeader(b)
           f == Len(m.flags)
           x == Len(m.expires)
           k == Len(m.key)
           v == Len(m.value)
           n == 24 + (f + x)
           w == b.write
<1>1. s \in Seq(Memory) /\ Len(s) = 24 + BodyLen(m) BY BuiltBytes
<1>2. /\ Ordered(b) /\ w = Len(s) /\ Len(b.data) = Len(s)
      /\ \A i \in 1 .. Len(s) : b.data[i] = s[i]
  BY <1>1, Filled
<1>3. f \in Nat /\ x \in Nat /\ v \in Nat /\ m.value \in Seq(Memory)
  BY LenProperties DEF Buildable
<1>4. k = 0 /\ k < KeyLenLimit /\ k % KeyLenLimit = 0
  <2>1. k = 0 OBVIOUS
  <2>2. KeyLenLimit \in Nat /\ KeyLenLimit > 0 BY SizesType
  <2>. HIDE DEF k
  <2>3. 0 % KeyLenLimit = 0 BY <2>2, SmallRemainder
  <2>. QED BY <2>1, <2>2, <2>3
<1>5. BodyLen(m) = f + x + (k % KeyLenLimit) + v BY DEF BodyLen
<1>. HIDE DEF f, x, k, v, w, b
<1>6. BodyLen(m) \in Nat /\ 24 + BodyLen(m) = n + k + v /\ n \in Nat
  BY <1>3, <1>4, <1>5
<1>7. 24 + BodyLen(m) = w /\ 24 <= w /\ w = n + k + v /\ w \in Nat
  BY <1>1, <1>2, <1>6
<1>8. Arrived(b, m)
  <2>1. w <= 24 + BodyLen(m) /\ 24 + BodyLen(m) <= Len(b.data)
    BY <1>1, <1>2, <1>7
  <2>2. \A i \in 1 .. w : b.data[i] = BytesSent(m)[i] BY <1>2
  <2>. QED BY <1>2, <1>7, <2>1, <2>2 DEF Arrived, w
<1>9. class \in Classes BY DEF Classes
<1>10. Len(m.key) < KeyLenLimit BY <1>4 DEF k
<1>11. n + k <= w =>
         /\ p.ok <=> Checked(class, h)
         /\ p.flags = m.flags
         /\ p.value \in Seq(Memory) /\ Len(p.value) = v
         /\ \A j \in 1 .. v : p.value[j] = IF n + k + j <= w THEN m.value[j] ELSE Junk
  BY <1>8, <1>9, <1>10, RoundTrip, ZenonT(60) DEF f, x, k, v, w
<1>12. n + k <= w /\ \A j \in 1 .. v : n + k + j <= w BY <1>3, <1>4, <1>6, <1>7
<1>13. Checked(class, h) BY DEF Checked
<1>14. h.status = m.status
  <2>1. HeaderArrived(b, m) BY <1>8, ArrivedHeader
  <2>. QED BY <2>1, HeaderRead
<1>15. p.status = h.status BY DEF Parse
<1>. HIDE DEF p, h, n
<1>16. /\ p.value \in Seq(Memory) /\ Len(p.value) = Len(m.value)
       /\ \A j \in 1 .. Len(p.value) : p.value[j] = m.value[j]
  BY <1>11, <1>12 DEF v
<1>17. p.value = m.value BY <1>3, <1>16, SeqEqual
<1>. QED BY <1>11, <1>12, <1>13, <1>14, <1>15, <1>17 DEF p, b
-----------------------------------------------------------------------------
(* How much is read of a request *)

LEMMA WordLength ==
  ASSUME NEW b, Ordered(b)
  PROVE  Len(Word(b, 4)) = 4
<1>1. b.data \in Seq(Memory) /\ b.read \in Nat /\ Len(b.data) \in Nat BY OrderedType
<1>2. CASE b.read + 4 <= Len(b.data)
  <2> DEFINE i == b.read + 1
             j == b.read + 4
  <2>1. \A l \in i .. j : b.data[l] \in Memory
    <3>1. ASSUME NEW l \in i .. j PROVE l \in 1 .. Len(b.data) BY <1>1, <1>2
    <3>. QED BY <1>1, <3>1, ElementOfSeq
  <2>2. i \in Int /\ j \in Int /\ i <= j /\ j - i + 1 = 4 BY <1>1
  <2>. HIDE DEF i, j
  <2>3. Len(SubSeq(b.data, i, j)) = 4 BY <2>1, <2>2, SubSeqProperties
  <2>4. Word(b, 4) = SubSeq(b.data, i, j) BY <1>2 DEF Word, i, j
  <2>. QED BY <2>3, <2>4
<1>3. CASE ~ (b.read + 4 <= Len(b.data))
  <2>1. Len(Fill(0, 4)) = 4 BY FillType, BytesAreNumbers DEF Memory
  <2>. QED BY <1>3, <2>1 DEF Word
<1>. QED BY <1>2, <1>3

LEMMA MemoryType == MaxBody \in Nat
BY BoundsAssumption

\* A parsed SetRequest has flags; no value is longer than there is memory for.
LEMMA ParsedSizes ==
  ASSUME NEW b, Ordered(b), HeaderSize <= Len(b.data), NEW class,
         ~ SizeWraps(class, ParseHeader(b)), ~ ValueTooLong(class, ParseHeader(b))
  PROVE  LET p == Parse(class, b)
         IN  /\ Len(p.value) \in Nat /\ Len(p.value) <= MaxBody
             /\ p.ok /\ class = "SetRequest" => Len(p.flags) = 4
<1> DEFINE h == ParseHeader(b)
           start == MoveReadForward(ResetRead(b), HeaderSize)
           extras == ReadExtras(class, h, start)
           key == ReadKey(h, extras.buffer)
           value == ReadValue(class, h, key.buffer)
           p == Parse(class, b)
           size == IF HasFlags(class) THEN h.total - (h.keyLen + h.extrasLen) ELSE 0
           read == BytesRead(key.buffer, size)
<1>1. h.total \in Nat /\ h.keyLen \in Nat /\ h.extrasLen \in Nat BY LengthsType DEF Ordered
<1>2. p.value = value.value /\ p.flags = extras.flags /\ (p.ok => extras.ok) BY DEF Parse
<1>. HIDE DEF h
<1>3. size \in Nat /\ size <= MaxBody
  <2>1. CASE HasFlags(class)
    <3>1. size = h.total - (h.keyLen + h.extrasLen) BY <2>1
    <3>2. ~ (h.total < h.keyLen + h.extrasLen) BY <2>1 DEF SizeWraps, h
    <3>3. ~ (size > MaxBody) BY <2>1, <3>1 DEF ValueTooLong, h
    <3>. HIDE DEF size
    <3>4. size \in Nat BY <1>1, <3>1, <3>2
    <3>. QED BY <3>3, <3>4, MemoryType
  <2>2. CASE ~ HasFlags(class)
    <3>1. size = 0 BY <2>2
    <3>. QED BY <3>1, MemoryType
  <2>. QED BY <2>1, <2>2
<1>4. Ordered(start)
  <2>1. Ordered(ResetRead(b)) BY ResetOrdered DEF Ordered
  <2>2. HeaderSize \in Nat BY DEF HeaderSize
  <2>. QED BY <2>1, <2>2, MoveReadOrdered
<1>. HIDE DEF start
<1>5. Ordered(extras.buffer)
  <2>1. Ordered(ReadWord(start, 4)) /\ Ordered(ReadWord(ReadWord(start, 4), 4))
    BY <1>4, WordType
  <2>2. extras.buffer \in {start, ReadWord(start, 4), ReadWord(ReadWord(start, 4), 4)}
    BY DEF ReadExtras
  <2>. HIDE DEF extras
  <2>. QED BY <1>4, <2>1, <2>2
<1>6. extras.ok /\ class = "SetRequest" => Len(extras.flags) = 4
  <2>1. extras.ok /\ class = "SetRequest" => extras.flags = Word(start, 4)
    BY DEF ReadExtras, HasFlags
  <2>. HIDE DEF extras
  <2>. QED BY <1>4, <2>1, WordLength
<1>. HIDE DEF extras
<1>7. Ordered(key.buffer)
  <2>1. key.buffer \in {extras.buffer, MoveReadForward(extras.buffer, h.keyLen)} BY DEF ReadKey
  <2>. HIDE DEF key
  <2>. QED BY <1>1, <1>5, <2>1, MoveReadOrdered
<1>. HIDE DEF key, size
<1>8. read \in Seq(Memory) /\ Len(read) \in Nat /\ Len(read) <= size
  BY <1>3, <1>7, BytesReadType
<1>. HIDE DEF read
<1>9. value.value = read \o Fill(Junk, size - Len(read)) BY DEF ReadValue, read, size, h
<1> DEFINE r == Len(read)
           more == Fill(Junk, size - r)
<1>10. more \in Seq(Memory) /\ Len(more) = size - r
  <2>1. size - r \in Nat BY <1>3, <1>8
  <2>2. Junk \in Memory BY DEF Memory
  <2>. QED BY <2>1, <2>2, FillType
<1>. HIDE DEF more
<1>11. Len(read \o more) = r + Len(more) BY <1>8, <1>10, ConcatProperties
<1>12. value.value = read \o more BY <1>9 DEF more
<1>. HIDE DEF r, value
<1>13. r \in Nat /\ r <= size BY <1>8 DEF r
<1>14. Len(p.value) = size
  <2>1. Len(p.value) = r + Len(more) BY <1>2, <1>11, <1>12
  <2>. HIDE DEF p
  <2>. QED BY <1>3, <1>10, <1>13, <2>1
<1>. QED BY <1>2, <1>3, <1>6, <1>14 DEF p, h

-----------------------------------------------------------------------------
(* What is replied *)

\* An entry of the cache fits into a response: its flags are a word and there has been
\* memory for its value.
Storable(map) ==
  \A k \in DOMAIN map : /\ Len(map[k].flags) = 4 /\ Len(map[k].value) \in Nat
                        /\ Len(map[k].value) <= MaxBody

\* A response of that class that can be built, sent and parsed.
Sendable(class, m) ==
  /\ m \in Buildable /\ OfClass(class, m) /\ Worded(m) /\ Sized(m) /\ m.key = <<>>

LEMMA NotTooLong ==
  ASSUME NEW m, NEW f \in Nat, f <= 4, NEW v \in Nat, v <= MaxBody,
         BodyLen(m) = f + 0 + 0 + v, m.status \in 0 .. 1
  PROVE  Sized(m)
<1> DEFINE n == BodyLen(m)
<1>1. n \in Nat /\ n <= MaxBody + 4 BY MemoryType, SMT
<1>. HIDE DEF n
<1>2. n \div 65536 < 65536
  <2>1. ASSUME NEW l \in Nat, l \div 65536 < 65534, NEW k \in Nat, k <= l + 4
        PROVE  k \div 65536 < 65536
    BY <2>1, SMT
  <2>. QED BY <1>1, <2>1, MemoryType, MemoryAssumption
<1>3. m.status < 65536 BY SMT
<1>. QED BY <1>2, <1>3, SMT DEF Sized, n

LEMMA ResponseSendable ==
  ASSUME NEW opcode, NEW class, NEW status \in {kResNoError, kResKeyNotFound},
         NEW flags \in Seq(Memory), NEW value \in Seq(Memory),
         \/ opcode = kOpGet /\ class = "GetResponse" /\ Len(flags) = 4
         \/ opcode = kOpSet /\ class = "SetResponse" /\ Len(flags) = 0 /\ value = <<>>,
         Len(value) \in Nat, Len(value) <= MaxBody
  PROVE  Sendable(class, Response(opcode, status, flags, value))
<1> DEFINE m == Response(opcode, status, flags, value)
           f == Len(flags)
           v == Len(value)
<1>1. /\ {kOpGet, kOpSet, kMagicRes} \subseteq Byte
      /\ {kResNoError, kResKeyNotFound} \subseteq Nat /\ kOpGet # kOpSet
      /\ status \in 0 .. 1
  BY DEF kOpGet, kOpSet, kMagicRes, kResNoError, kResKeyNotFound, Byte
<1>2. <<>> \in Seq(Memory) /\ Len(<<>>) = 0 OBVIOUS
<1>3. /\ m.magic = kMagicRes /\ m.opcode = opcode /\ m.status = status /\ m.flags = flags
      /\ m.expires = <<>> /\ m.key = <<>> /\ m.value = value
  BY DEF Response
<1>4. m \in Buildable BY <1>1, <1>2 DEF Response, Buildable
<1>. HIDE DEF m
<1>5. f \in {0, 4} /\ f \in Nat /\ f <= 4 /\ v \in Nat /\ v <= MaxBody
  <2>1. f = 4 \/ f = 0 OBVIOUS
  <2>. HIDE DEF f
  <2>. QED BY <2>1
<1>6. Worded(m) BY <1>2, <1>3, <1>5 DEF Worded
<1>7. OfClass(class, m) BY <1>1, <1>2, <1>3 DEF OfClass, HasFlags
<1>8. Sized(m)
  <2>1. 0 % KeyLenLimit = 0
    <3>1. KeyLenLimit \in Nat /\ KeyLenLimit > 0 BY SizesType
    <3>. QED BY <3>1, SmallRemainder
  <2>2. BodyLen(m) = f + 0 + (0 % KeyLenLimit) + v BY <1>2, <1>3 DEF BodyLen
  <2>. HIDE DEF f, v
  <2>3. BodyLen(m) = f + 0 + 0 + v BY <2>1, <2>2, Zenon
  <2>4. m.status \in 0 .. 1 BY <1>1, <1>3
  <2>. QED BY <1>5, <2>3, <2>4, NotTooLong
<1>. QED BY <1>3, <1>4, <1>6, <1>7, <1>8 DEF Sendable, m

\* What the server replies can be parsed by a client.
LEMMA ReplySendable ==
  ASSUME NEW map, Cached(map), Storable(map), NEW h, h.opcode \in {kOpGet, kOpSet}, NEW p
  PROVE  LET m == ReplyTo(map, h, p)
         IN  /\ Sendable(IF h.opcode = kOpGet THEN "GetResponse" ELSE "SetResponse", m)
             /\ h.opcode = kOpSet => m.status = kResNoError
             /\ h.opcode = kOpGet /\ p.key \notin DOMAIN map => m.status = kResKeyNotFound
             /\ h.opcode = kOpGet /\ p.key \in DOMAIN map =>
                  /\ m.status = kResNoError
                  /\ m.flags = map[p.key].flags /\ m.value = map[p.key].value
<1>1. kOpGet # kOpSet BY DEF kOpGet, kOpSet
<1>2. /\ <<>> \in Seq(Memory) /\ Len(<<>>) = 0 /\ 0 \in Nat /\ 0 <= MaxBody
  BY MemoryType
<1>3. Fill(0, 4) \in Seq(Memory) /\ Len(Fill(0, 4)) = 4
  BY FillType, BytesAreNumbers DEF Memory
<1>4. ASSUME NEW opcode, NEW status, NEW flags, NEW value
      PROVE  LET r == Response(opcode, status, flags, value)
             IN  r.status = status /\ r.flags = flags /\ r.value = value
  BY DEF Response
<1> DEFINE class == IF h.opcode = kOpGet THEN "GetResponse" ELSE "SetResponse"
<1>5. CASE h.opcode = kOpSet
  <2>1. ReplyTo(map, h, p) = Response(kOpSet, kResNoError, <<>>, <<>>)
    BY <1>5 DEF ReplyTo, kOpGet, kOpSet
  <2>2. Sendable("SetResponse", Response(kOpSet, kResNoError, <<>>, <<>>))
    BY <1>2, ResponseSendable
  <2>3. class = "SetResponse" BY <1>1, <1>5
  <2>. QED BY <1>1, <1>4, <1>5, <2>1, <2>2, <2>3
<1>6. CASE h.opcode = kOpGet /\ p.key \notin DOMAIN map
  <2>1. ReplyTo(map, h, p) = Response(kOpGet, kResKeyNotFound, Fill(0, 4), <<>>)
    BY <1>1, <1>6 DEF ReplyTo
  <2>2. Sendable("GetResponse", Response(kOpGet, kResKeyNotFound, Fill(0, 4), <<>>))
    BY <1>2, <1>3, ResponseSendable
  <2>. QED BY <1>1, <1>4, <1>6, <2>1, <2>2
<1>7. CASE h.opcode = kOpGet /\ p.key \in DOMAIN map
  <2> DEFINE e == map[p.key]
  <2>1. ReplyTo(map, h, p) = Response(kOpGet, kResNoError, e.flags, e.value)
    BY <1>1, <1>7 DEF ReplyTo
  <2>2. /\ e.flags \in Seq(Memory) /\ e.value \in Seq(Memory) /\ Len(e.flags) = 4
        /\ Len(e.value) \in Nat /\ Len(e.value) <= MaxBody
    BY <1>7 DEF Cached, Storable
  <2>. HIDE DEF e
  <2>3. Sendable("GetResponse", Response(kOpGet, kResNoError, e.flags, e.value))
    BY <2>2, ResponseSendable
  <2>. QED BY <1>1, <1>4, <1>7, <2>1, <2>3 DEF e
<1>. QED BY <1>5, <1>6, <1>7
-----------------------------------------------------------------------------
(* Requests and replies *)

IsSet(i, key) == handled[i].class = "SetRequest" /\ handled[i].key = key

\* The j-th request is the last of the first n that has set that key.
LastSet(n, key, j) ==
  j \in 1 .. n /\ IsSet(j, key) /\ \A l \in 1 .. n : IsSet(l, key) => l <= j

\* The reply to the i-th request is the one it should be.
Answered(i) ==
  /\ Reply(i).ok
  /\ IF handled[i].class = "GetRequest"
     THEN \/ /\ \A l \in 1 .. i - 1 : ~ IsSet(l, handled[i].key)
             /\ Reply(i).status = kResKeyNotFound
          \/ \E j : /\ LastSet(i - 1, handled[i].key, j)
                    /\ Reply(i).status = kResNoError
                    /\ Reply(i).flags = handled[j].flags
                    /\ Reply(i).value = handled[j].value
     ELSE Reply(i).status = kResNoError

\* The inductive invariant: every request so far has been answered, and the cache holds
\* of each key what the last Set of it has brought.
Current ==
  /\ \A key \in DOMAIN dataMap : \E j : /\ LastSet(Len(handled), key, j)
                                        /\ dataMap[key].flags = handled[j].flags
                                        /\ dataMap[key].value = handled[j].value
  /\ \A j \in 1 .. Len(handled) :
       handled[j].class = "SetRequest" => handled[j].key \in DOMAIN dataMap
Served ==
  role = "server" => /\ Len(replies) = Len(handled)
                     /\ \A i \in 1 .. Len(replies) : Answered(i)
                     /\ Current /\ Storable(dataMap)

\* The largest of the numbers of sets.
LEMMA LastIsMax ==
  ASSUME NEW S, S \subseteq Nat, NEW j \in S, \A l \in S : l <= j
  PROVE  Max(S) = j
<1>1. \A l \in S : j >= l OBVIOUS
<1>2. /\ Max(S) \in S /\ \A l \in S : Max(S) >= l BY <1>1 DEF Max
<1>3. Max(S) \in Nat /\ j \in Nat /\ Max(S) <= j /\ Max(S) >= j BY <1>2
<1>. QED BY <1>3

LEMMA ServedIs == Served => AnswersCurrent
<1>. SUFFICES ASSUME Served, role = "server", NEW i \in 1 .. Len(replies)
              PROVE  LET sets == {j \in 1 .. i - 1 : /\ handled[j].class = "SetRequest"
                                                     /\ handled[j].key = handled[i].key}
                     IN  /\ Reply(i).ok
                         /\ IF handled[i].class = "GetRequest"
                            THEN IF sets = {} THEN Reply(i).status = kResKeyNotFound
                                 ELSE /\ Reply(i).status = kResNoError
                                      /\ Reply(i).flags = handled[Max(sets)].flags
                                      /\ Reply(i).value = handled[Max(sets)].value
                            ELSE Reply(i).status = kResNoError
  BY DEF Served, AnswersCurrent
<1> DEFINE sets == {j \in 1 .. i - 1 : /\ handled[j].class = "SetRequest"
                                       /\ handled[j].key = handled[i].key}
<1>1. Answered(i) BY DEF Served
<1>2. \A j : j \in sets <=> j \in 1 .. i - 1 /\ IsSet(j, handled[i].key) BY DEF IsSet
<1>3. sets \subseteq Nat OBVIOUS
<1>. HIDE DEF sets
<1>4. CASE handled[i].class # "GetRequest" BY <1>1, <1>4 DEF Answered
<1>5. CASE /\ handled[i].class = "GetRequest"
           /\ \A l \in 1 .. i - 1 : ~ IsSet(l, handled[i].key)
  <2>1. sets = {} BY <1>2, <1>5
  <2>2. ~ \E j : LastSet(i - 1, handled[i].key, j) BY <1>5 DEF LastSet
  <2>. QED BY <1>1, <1>5, <2>1, <2>2 DEF Answered, sets
<1>6. CASE /\ handled[i].class = "GetRequest"
           /\ ~ \A l \in 1 .. i - 1 : ~ IsSet(l, handled[i].key)
  <2>1. PICK j : /\ LastSet(i - 1, handled[i].key, j)
                 /\ Reply(i).status = kResNoError
                 /\ Reply(i).flags = handled[j].flags
                 /\ Reply(i).value = handled[j].value
    BY <1>1, <1>6 DEF Answered
  <2>2. j \in sets /\ \A l \in sets : l <= j BY <1>2, <2>1 DEF LastSet
  <2>3. Max(sets) = j BY <1>3, <2>2, LastIsMax
  <2>4. sets # {} BY <2>2
  <2>5. Reply(i).ok BY <1>1 DEF Answered
  <2>. QED BY <1>6, <2>1, <2>3, <2>4, <2>5 DEF sets
<1>. QED BY <1>4, <1>5, <1>6

\* What the server does when it is handed a request.
LEMMA DispatchServes ==
  ASSUME Dispatch, role = "server"
  PROVE  LET h == ParseHeader(readBuffer)
             p == Parse(ClassOf(h), readBuffer)
         IN  \/ UNCHANGED <<handled, dataMap, replies>>
             \/ /\ Handles(h) /\ p.ok
                /\ ~ SizeWraps(ClassOf(h), h) /\ ~ ValueTooLong(ClassOf(h), h)
                /\ handled' = Append(handled, Content(ClassOf(h), h, p))
                /\ dataMap' = Stored(dataMap, h, p)
                /\ replies' = Append(replies, BytesSent(ReplyTo(dataMap, h, p)))
<1> DEFINE h == ParseHeader(readBuffer)
           class == IF Known(h) THEN ClassOf(h) ELSE current
           p == Parse(class, readBuffer)
<1>1. \/ UNCHANGED <<handled, dataMap, replies>>
      \/ /\ ~ SizeWraps(class, h) /\ ~ ValueTooLong(class, h)
         /\ handled' = Handle(class, h, p)
         /\ Answer(h, p)
  BY DEF Dispatch
<1>2. Handles(h) => class = ClassOf(h)
  <2>1. Handles(h) => Known(h) BY DEF Handles, Known
  <2>. QED BY <2>1
<1>. HIDE DEF h, class
<1>3. CASE ~ (p.ok /\ Handles(h)) BY <1>1, <1>3 DEF Handle, Answer
<1>4. CASE p.ok /\ Handles(h)
  <2>1. class = ClassOf(h) BY <1>2, <1>4
  <2>. QED BY <1>1, <1>4, <2>1 DEF Handle, Answer, h
<1>. QED BY <1>3, <1>4

\* An answer is not changed by later ones.
LEMMA AnsweredStays ==
  ASSUME NEW n \in Nat, \A j \in 1 .. n : handled'[j] = handled[j],
         \A j \in 1 .. n : replies'[j] = replies[j],
         NEW i \in 1 .. n, Answered(i)
  PROVE  Answered(i)'
<1>1. handled'[i] = handled[i] /\ replies'[i] = replies[i] OBVIOUS
<1>2. Reply(i)' = Reply(i) BY <1>1 DEF Reply
<1>3. \A l \in 1 .. i - 1 : l \in 1 .. n OBVIOUS
<1>4. ASSUME NEW l \in 1 .. i - 1, NEW key PROVE IsSet(l, key)' <=> IsSet(l, key)
  BY <1>3 DEF IsSet
<1>5. ASSUME NEW j, NEW key, LastSet(i - 1, key, j)
      PROVE  LastSet(i - 1, key, j)' /\ handled'[j] = handled[j]
  <2>1. j \in 1 .. i - 1 BY <1>5 DEF LastSet
  <2>2. handled'[j] = handled[j] BY <1>3, <2>1
  <2>. QED BY <1>4, <1>5, <2>1, <2>2 DEF LastSet
<1>6. PICK key : key = handled[i].key OBVIOUS
<1>7. CASE handled[i].class # "GetRequest" BY <1>1, <1>2, <1>7 DEF Answered
<1>8. CASE /\ handled[i].class = "GetRequest"
           /\ \A l \in 1 .. i - 1 : ~ IsSet(l, handled[i].key)
           /\ Reply(i).status = kResKeyNotFound
  <2>1. \A l \in 1 .. i - 1 : ~ IsSet(l, key)' BY <1>4, <1>6, <1>8
  <2>. QED BY <1>1, <1>2, <1>6, <1>8, <2>1 DEF Answered, IsSet
<1>9. CASE /\ handled[i].class = "GetRequest"
           /\ \E j : /\ LastSet(i - 1, handled[i].key, j)
                     /\ Reply(i).status = kResNoError
                     /\ Reply(i).flags = handled[j].flags
                     /\ Reply(i).value = handled[j].value
  <2>1. PICK j : /\ LastSet(i - 1, key, j)
                 /\ Reply(i).status = kResNoError
                 /\ Reply(i).flags = handled[j].flags
                 /\ Reply(i).value = handled[j].value
    BY <1>6, <1>9
  <2>2. LastSet(i - 1, key, j)' /\ handled'[j] = handled[j] BY <1>5, <2>1
  <2>3. key = handled'[i].key BY <1>1, <1>6
  <2>. QED BY <1>1, <1>2, <1>9, <2>1, <2>2, <2>3 DEF Answered, LastSet, IsSet
<1>. QED BY <1>7, <1>8, <1>9 DEF Answered

\* A request more is answered and, if it is a Set, stored.
LEMMA NewRequest ==
  ASSUME ReadInv, ReadTypes, HandlerTypes, Served, pc = "body",
         role = "server", role' = role,
         NEW h, NEW p, h = ParseHeader(readBuffer), p = Parse(ClassOf(h), readBuffer),
         Handles(h), p.ok, ~ SizeWraps(ClassOf(h), h), ~ ValueTooLong(ClassOf(h), h),
         NEW entry, entry = Content(ClassOf(h), h, p), handled' = Append(handled, entry),
         dataMap' = Stored(dataMap, h, p),
         NEW s, s = BytesSent(ReplyTo(dataMap, h, p)), replies' = Append(replies, s)
  PROVE  Served'
<1>1. /\ Len(replies) = Len(handled) /\ \A i \in 1 .. Len(replies) : Answered(i)
      /\ Current /\ Storable(dataMap)
  BY DEF Served
<1>2. PICK n : n = Len(handled) /\ n \in Nat BY LenProperties DEF HandlerTypes
<1>3. h.magic = kMagicReq /\ h.opcode \in {kOpGet, kOpSet} BY DEF Handles
<1>4. kOpGet # kOpSet BY DEF kOpGet, kOpSet
<1>5. /\ ClassOf(h) = IF h.opcode = kOpGet THEN "GetRequest" ELSE "SetRequest"
      /\ (ClassOf(h) = "SetRequest" <=> h.opcode = kOpSet)
      /\ (ClassOf(h) = "GetRequest" <=> h.opcode = kOpGet)
  BY <1>3, <1>4 DEF ClassOf
<1>6. /\ entry.class = ClassOf(h) /\ entry.key = p.key /\ entry.flags = p.flags
      /\ entry.value = p.value
  BY DEF Content
<1>7. /\ Len(handled') = n + 1 /\ \A i \in 1 .. n : handled'[i] = handled[i]
      /\ handled'[n + 1] = entry
  BY <1>2, AppendAny DEF HandlerTypes
<1>8. /\ Len(replies') = n + 1 /\ \A i \in 1 .. n : replies'[i] = replies[i]
      /\ replies'[n + 1] = s
  BY <1>1, <1>2, AppendAny DEF HandlerTypes
<1>9. n + 1 \in 1 .. n + 1 /\ (n + 1) - 1 = n
      /\ \A i \in 1 .. n + 1 : i \in 1 .. n \/ i = n + 1
  BY <1>2
<1>10. ASSUME NEW l \in 1 .. n, NEW key PROVE IsSet(l, key)' <=> IsSet(l, key)
  BY <1>7 DEF IsSet
<1>11. ASSUME NEW key
       PROVE  IsSet(n + 1, key)' <=> h.opcode = kOpSet /\ p.key = key
  BY <1>5, <1>6, <1>7 DEF IsSet
<1>12. \A j \in 1 .. n : IsSet(j, handled[j].key) => handled[j].key \in DOMAIN dataMap
  BY <1>1, <1>2 DEF Current, IsSet
<1>13. Answered(n + 1)'
  <2> DEFINE r == ReplyTo(dataMap, h, p)
             class == IF h.opcode = kOpGet THEN "GetResponse" ELSE "SetResponse"
             q == Parse(class, WriteBytes(NewBuffer(Len(s)), s))
  <2>1. /\ Sendable(class, r)
        /\ h.opcode = kOpSet => r.status = kResNoError
        /\ h.opcode = kOpGet /\ p.key \notin DOMAIN dataMap => r.status = kResKeyNotFound
        /\ h.opcode = kOpGet /\ p.key \in DOMAIN dataMap =>
             /\ r.status = kResNoError
             /\ r.flags = dataMap[p.key].flags /\ r.value = dataMap[p.key].value
    BY <1>1, <1>3, ReplySendable DEF HandlerTypes
  <2>2. class \in {"GetResponse", "SetResponse"} OBVIOUS
  <2>. HIDE DEF r, class
  <2>3. q.ok /\ q.status = r.status /\ q.flags = r.flags /\ q.value = r.value
    BY <2>1, <2>2, ReplyRead DEF Sendable, r
  <2>4. class = IF entry.class = "GetRequest" THEN "GetResponse" ELSE "SetResponse"
    BY <1>5, <1>6 DEF class
  <2>. HIDE DEF q
  <2>5. Reply(n + 1)' = q BY <1>7, <1>8, <2>4 DEF Reply, q
  <2>6. CASE h.opcode = kOpSet
    <3>1. handled'[n + 1].class # "GetRequest" BY <1>4, <1>5, <1>6, <1>7, <2>6
    <3>. QED BY <2>1, <2>3, <2>5, <2>6, <3>1 DEF Answered
  <2>7. CASE h.opcode = kOpGet /\ p.key \notin DOMAIN dataMap
    <3>1. handled'[n + 1].class = "GetRequest" /\ handled'[n + 1].key = p.key
      BY <1>5, <1>6, <1>7, <2>7
    <3>2. ASSUME NEW l \in 1 .. n PROVE ~ IsSet(l, p.key)'
      <4>1. ~ IsSet(l, p.key) BY <1>12, <2>7 DEF IsSet
      <4>. QED BY <1>10, <4>1
    <3>. QED BY <1>9, <2>1, <2>3, <2>5, <2>7, <3>1, <3>2, ZenonT(60) DEF Answered, IsSet
  <2>8. CASE h.opcode = kOpGet /\ p.key \in DOMAIN dataMap
    <3>1. handled'[n + 1].class = "GetRequest" /\ handled'[n + 1].key = p.key
      BY <1>5, <1>6, <1>7, <2>8
    <3>2. PICK j : /\ LastSet(n, p.key, j)
                   /\ dataMap[p.key].flags = handled[j].flags
                   /\ dataMap[p.key].value = handled[j].value
      BY <1>1, <1>2, <2>8 DEF Current
    <3>3. j \in 1 .. n BY <3>2 DEF LastSet
    <3>4. LastSet(n, p.key, j)' BY <1>10, <3>2, <3>3 DEF LastSet
    <3>5. handled'[j] = handled[j] BY <1>7, <3>3
    <3>6. /\ Reply(n + 1)'.ok /\ Reply(n + 1)'.status = kResNoError
          /\ Reply(n + 1)'.flags = handled'[j].flags
          /\ Reply(n + 1)'.value = handled'[j].value
      BY <2>1, <2>3, <2>5, <2>8, <3>2, <3>5, SMTT(30)
    <3>7. LastSet((n + 1) - 1, handled[n + 1].key, j)'
      BY <1>9, <3>1, <3>4 DEF LastSet, IsSet
    <3>. QED BY <3>1, <3>6, <3>7 DEF Answered
  <2>. QED BY <1>3, <2>6, <2>7, <2>8
<1>14. \A i \in 1 .. n + 1 : Answered(i)'
  <2>1. ASSUME NEW i \in 1 .. n PROVE Answered(i)'
    <3>1. Answered(i) BY <1>1, <1>2
    <3>. QED BY <1>2, <1>7, <1>8, <3>1, AnsweredStays
  <2>. QED BY <1>9, <1>13, <2>1
<1>15. Current'
  <2>1. CASE h.opcode = kOpGet
    <3>1. dataMap' = dataMap BY <1>4, <2>1 DEF Stored
    <3>2. ASSUME NEW key PROVE ~ IsSet(n + 1, key)' BY <1>4, <1>11, <2>1
    <3>3. ASSUME NEW key \in DOMAIN dataMap
          PROVE  \E j : /\ LastSet(n + 1, key, j)'
                        /\ dataMap[key].flags = handled'[j].flags
                        /\ dataMap[key].value = handled'[j].value
      <4>1. PICK j : /\ LastSet(n, key, j)
                     /\ dataMap[key].flags = handled[j].flags
                     /\ dataMap[key].value = handled[j].value
        BY <1>1, <1>2, <3>3 DEF Current
      <4>2. j \in 1 .. n BY <4>1 DEF LastSet
      <4>3. handled'[j] = handled[j] BY <1>7, <4>2
      <4>4. j \in 1 .. n + 1 BY <1>2, <4>2
      <4>5. LastSet(n + 1, key, j)' BY <1>9, <1>10, <3>2, <4>1, <4>2, <4>4 DEF LastSet
      <4>. QED BY <4>1, <4>3, <4>5
    <3>4. ASSUME NEW j \in 1 .. n + 1, handled'[j].class = "SetRequest"
          PROVE  handled'[j].key \in DOMAIN dataMap
      <4>1. handled'[n + 1].class # "SetRequest" BY <1>4, <1>5, <1>6, <1>7, <2>1
      <4>2. j \in 1 .. n BY <1>9, <3>4, <4>1
      <4>. QED BY <1>1, <1>2, <1>7, <3>4, <4>2 DEF Current
    <3>. QED BY <1>7, <3>1, <3>3, <3>4 DEF Current, LastSet, IsSet
  <2>2. CASE h.opcode = kOpSet
    <3>1. /\ DOMAIN dataMap' = DOMAIN dataMap \cup {p.key}
          /\ dataMap'[p.key].flags = p.flags /\ dataMap'[p.key].value = p.value
          /\ \A key \in DOMAIN dataMap : key # p.key => dataMap'[key] = dataMap[key]
      BY <2>2 DEF Stored
    <3>2. ASSUME NEW key \in DOMAIN dataMap'
          PROVE  \E j : /\ LastSet(n + 1, key, j)'
                        /\ dataMap'[key].flags = handled'[j].flags
                        /\ dataMap'[key].value = handled'[j].value
      <4>1. CASE key = p.key
        <5>1. IsSet(n + 1, key)' BY <1>11, <2>2, <4>1
        <5>2. \A l \in 1 .. n + 1 : l <= n + 1 BY <1>2
        <5>3. LastSet(n + 1, key, n + 1)' BY <1>9, <5>1, <5>2 DEF LastSet
        <5>. QED BY <1>6, <1>7, <3>1, <4>1, <5>3
      <4>2. CASE key # p.key
        <5>1. key \in DOMAIN dataMap /\ dataMap'[key] = dataMap[key] BY <3>1, <3>2, <4>2
        <5>2. PICK j : /\ LastSet(n, key, j)
                       /\ dataMap[key].flags = handled[j].flags
                       /\ dataMap[key].value = handled[j].value
          BY <1>1, <1>2, <5>1 DEF Current
        <5>3. j \in 1 .. n BY <5>2 DEF LastSet
        <5>4. handled'[j] = handled[j] BY <1>7, <5>3
        <5>5. j \in 1 .. n + 1 BY <1>2, <5>3
        <5>6. ~ IsSet(n + 1, key)' BY <1>11, <4>2
        <5>7. LastSet(n + 1, key, j)' BY <1>9, <1>10, <5>2, <5>3, <5>5, <5>6 DEF LastSet
        <5>. QED BY <5>1, <5>2, <5>4, <5>7
      <4>. QED BY <4>1, <4>2
    <3>3. ASSUME NEW j \in 1 .. n + 1, handled'[j].class = "SetRequest"
          PROVE  handled'[j].key \in DOMAIN dataMap'
      <4>1. CASE j = n + 1 BY <1>6, <1>7, <3>1, <4>1
      <4>2. CASE j \in 1 .. n
        <5>1. handled[j].key \in DOMAIN dataMap BY <1>1, <1>2, <1>7, <3>3, <4>2 DEF Current
        <5>. QED BY <1>7, <3>1, <4>2, <5>1
      <4>. QED BY <1>9, <3>3, <4>1, <4>2
    <3>. QED BY <1>7, <3>2, <3>3 DEF Current, LastSet, IsSet
  <2>. QED BY <1>3, <2>1, <2>2
<1>16. Storable(dataMap')
  <2>1. CASE h.opcode = kOpGet
    <3>1. dataMap' = dataMap BY <1>4, <2>1 DEF Stored
    <3>. QED BY <1>1, <3>1
  <2>2. CASE h.opcode = kOpSet
    <3>1. Sound(readBuffer) /\ Ordered(readBuffer) /\ HeaderSize <= Len(readBuffer.data)
      BY DEF ReadInv, ReadTypes
    <3>2. /\ Len(p.value) \in Nat /\ Len(p.value) <= MaxBody
          /\ p.ok /\ ClassOf(h) = "SetRequest" => Len(p.flags) = 4
      BY <3>1, ParsedSizes
    <3>3. Len(p.flags) = 4 BY <1>5, <2>2, <3>2
    <3>4. ASSUME NEW k \in DOMAIN dataMap'
          PROVE  /\ Len(dataMap'[k].flags) = 4 /\ Len(dataMap'[k].value) \in Nat
                 /\ Len(dataMap'[k].value) <= MaxBody
      <4> DEFINE e == [flags |-> p.flags, value |-> p.value]
      <4>1. dataMap' = [l \in DOMAIN dataMap \cup {p.key} |->
                          IF l = p.key THEN e ELSE dataMap[l]]
        BY <2>2 DEF Stored
      <4>2. e.flags = p.flags /\ e.value = p.value OBVIOUS
      <4>. HIDE DEF e
      <4>3. CASE k = p.key
        <5>1. dataMap'[k] = e BY <4>1, <4>3
        <5>. QED BY <3>2, <3>3, <4>2, <5>1
      <4>4. CASE k # p.key
        <5>1. k \in DOMAIN dataMap /\ dataMap'[k] = dataMap[k] BY <3>4, <4>1, <4>4
        <5>. QED BY <1>1, <5>1 DEF Storable
      <4>. QED BY <4>3, <4>4
    <3>. QED BY <3>4 DEF Storable
  <2>. QED BY <1>3, <2>1, <2>2
<1>. QED BY <1>7, <1>8, <1>14, <1>15, <1>16 DEF Served, Storable

\* Every step keeps what has been served.
LEMMA ServedStep ==
  ReadInv /\ ReadTypes /\ HandlerTypes /\ Served /\ [Next]_vars => Served'
<1>. SUFFICES ASSUME ReadInv, ReadTypes, HandlerTypes, Served, [Next]_vars
              PROVE  Served'
  OBVIOUS
<1>1. CASE UNCHANGED <<role, handled, dataMap, replies>>
  <2>1. \A i : Answered(i)' <=> Answered(i)
    BY <1>1 DEF Answered, Reply, LastSet, IsSet
  <2>2. Current' <=> Current BY <1>1 DEF Current, LastSet, IsSet
  <2>. QED BY <1>1, <2>1, <2>2 DEF Served, Storable
<1>2. ASSUME pc = "body", Dispatch PROVE Served'
  <2>1. role' = role BY <1>2 DEF Dispatch
  <2>2. CASE role # "server" BY <2>1, <2>2 DEF Served
  <2>3. CASE role = "server"
    <3>1. PICK h : h = ParseHeader(readBuffer) OBVIOUS
    <3>2. PICK p : p = Parse(ClassOf(h), readBuffer) OBVIOUS
    <3>3. PICK entry : entry = Content(ClassOf(h), h, p) OBVIOUS
    <3>4. PICK s : s = BytesSent(ReplyTo(dataMap, h, p)) OBVIOUS
    <3>5. \/ UNCHANGED <<handled, dataMap, replies>>
          \/ /\ Handles(h) /\ p.ok
             /\ ~ SizeWraps(ClassOf(h), h) /\ ~ ValueTooLong(ClassOf(h), h)
             /\ handled' = Append(handled, entry)
             /\ dataMap' = Stored(dataMap, h, p)
             /\ replies' = Append(replies, s)
      BY <1>2, <2>3, <3>1, <3>2, <3>3, <3>4, DispatchServes
    <3>6. CASE UNCHANGED <<handled, dataMap, replies>> BY <1>1, <2>1, <3>6
    <3>7. CASE /\ Handles(h) /\ p.ok
               /\ ~ SizeWraps(ClassOf(h), h) /\ ~ ValueTooLong(ClassOf(h), h)
               /\ handled' = Append(handled, entry)
               /\ dataMap' = Stored(dataMap, h, p)
               /\ replies' = Append(replies, s)
      BY <1>2, <2>1, <2>3, <3>1, <3>2, <3>3, <3>4, <3>7, NewRequest
    <3>. QED BY <3>5, <3>6, <3>7
  <2>. QED BY <2>2, <2>3
<1>3. CASE ReadMessage BY <1>2, <1>3 DEF ReadMessage
<1>4. CASE BodyTimeout BY <1>2, <1>4 DEF BodyTimeout
<1>5. CASE ~ ReadMessage /\ ~ BodyTimeout
  <2>1. UNCHANGED <<role, handled, dataMap, replies>>
    BY <1>5 DEF Next, vars, Send, Peek, Call, ReadHeader, HeaderTimeout, ReadBody, handlerVars
  <2>. QED BY <1>1, <2>1
<1>. QED BY <1>3, <1>4, <1>5

LEMMA ServedInit == Init => Served
<1>. SUFFICES ASSUME Init PROVE Served
  OBVIOUS
<1>1. pc = "select" /\ handled = <<>> /\ dataMap = <<>> /\ replies = <<>> BY DEF Init
<1>2. Len(<<>>) = 0 /\ DOMAIN <<>> = {} /\ 1 .. 0 = {} OBVIOUS
<1>3. Current /\ Storable(dataMap) BY <1>1, <1>2 DEF Current, Storable
<1>. QED BY <1>1, <1>2, <1>3 DEF Served

\* However requests are cut and whatever they say, the server answers each of them with a
\* reply that a client can parse: a Get with the flags and the value of the last Set of
\* its key that the server has handled, or with "not found" if there was none.  This does
\* not need the stream to be aligned.
THEOREM AnswersAreCurrent == Spec => []AnswersCurrent
<1>1. ReadInv /\ ReadTypes /\ HandlerTypes /\ Served /\ [Next]_vars
        => (ReadInv /\ ReadTypes /\ HandlerTypes /\ Served)'
  BY ReadInvStep, TypesStep, ServedStep
<1>2. Init => ReadInv /\ ReadTypes /\ HandlerTypes /\ Served
  BY ReadInvInit, TypesInit, ServedInit
<1>. QED BY <1>1, <1>2, ServedIs, PTL DEF Spec
=============================================================================
