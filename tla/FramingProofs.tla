---------------------------- MODULE FramingProofs ----------------------------
(***************************************************************************)
(* Theorems about the receiving side, for all messages and all segments.   *)
(***************************************************************************)
EXTENDS Framing, MessagesProofs

LEMMA RoomForSound ==
  ASSUME NEW b, Sound(b), NEW size \in Nat, b.write <= size \/ size <= Len(b.data)
  PROVE  /\ Sound(RoomFor(b, size)) /\ size <= Len(RoomFor(b, size).data)
         /\ Len(b.data) <= Len(RoomFor(b, size).data)
         /\ RoomFor(b, size).write = b.write
<1>1. Len(b.data) \in Nat /\ b.write \in Nat BY LenProperties DEF Sound, Shape
<1>2. CASE Len(b.data) < size
  <2>1. RoomFor(b, size) = Realloc(b, size) BY <1>2 DEF RoomFor
  <2>2. b.write <= size BY <1>1, <1>2
  <2>. QED BY <1>1, <1>2, <2>1, <2>2, ReallocLarger
<1>3. CASE ~ (Len(b.data) < size)
  <2>1. RoomFor(b, size) = b BY <1>3 DEF RoomFor
  <2>. QED BY <1>1, <1>3, <2>1
<1>. QED BY <1>2, <1>3

LEMMA RoomForOrdered ==
  ASSUME NEW b, Ordered(b), NEW size \in Nat, b.write <= size \/ size <= Len(b.data)
  PROVE  Ordered(RoomFor(b, size))
<1>1. b.write \in Nat /\ Sound(b) /\ Len(b.data) \in Nat
  BY OrderedType, LenProperties DEF Ordered, Sound, Shape
<1>2. CASE Len(b.data) < size
  <2>1. RoomFor(b, size) = Realloc(b, size) BY <1>2 DEF RoomFor
  <2>2. b.write <= size BY <1>1, <1>2
  <2>3. /\ Sound(Realloc(b, size)) /\ Realloc(b, size).write = b.write
        /\ Realloc(b, size).read = b.write
    BY <1>1, <2>2, ReallocLarger
  <2>. QED BY <1>1, <2>1, <2>3 DEF Ordered
<1>3. CASE ~ (Len(b.data) < size) BY <1>3 DEF RoomFor
<1>. QED BY <1>2, <1>3

\* The length of a message is at least that of a header, unless it wraps: then it is
\* less, and nothing is missing.
LEMMA MessageSizeType ==
  ASSUME NEW b, Sound(b), 24 <= Len(b.data)
  PROVE  /\ MessageSize(b) \in Nat
         /\ 24 <= MessageSize(b) \/ MessageSize(b) <= Len(b.data)
<1> DEFINE size == MessageSize(b)
           room == Len(b.data)
<1>1. room \in Nat /\ 24 <= room BY LenProperties DEF Sound, Shape
<1>2. CASE Wraps(b)
  <2>1. PICK d \in 232 .. 255 : b.data[12] = d BY <1>2 DEF Wraps
  <2>2. size = d - 232 BY <1>2, <2>1 DEF MessageSize
  <2>. HIDE DEF size, room
  <2>3. size \in Nat /\ size <= room BY <1>1, <2>2
  <2>. QED BY <2>3 DEF size, room
<1>3. CASE ~ Wraps(b)
  <2>1. ParseHeader(b).total \in Nat BY LengthsType DEF HeaderSize
  <2>2. size = ParseHeader(b).total + 24 BY <1>3 DEF MessageSize, HeaderSize
  <2>. HIDE DEF size, room
  <2>3. size \in Nat /\ 24 <= size BY <2>1, <2>2
  <2>. QED BY <2>3 DEF size
<1>. QED BY <1>2, <1>3

-----------------------------------------------------------------------------
\* The inductive invariant: the read buffer is sound and large enough for a
\* header, and for the message once its size is known; before that, it holds
\* less than a header.
ReadInv ==
  /\ stream \in Seq(Memory)
  /\ Sound(readBuffer) /\ HeaderSize <= Len(readBuffer.data)
  /\ pc = "header" => readBuffer.write < HeaderSize
  /\ pc = "body" => reqSize \in Nat /\ reqSize <= Len(readBuffer.data)

\* What recv returns is a piece of the stream.
LEMMA ReceivedType ==
  ASSUME NEW size \in Int, stream \in Seq(Memory), NEW bytes \in Received(size)
  PROVE  /\ bytes \in Seq(Memory) /\ Len(bytes) \in Nat /\ Len(bytes) <= size
         /\ SubSeq(stream, Len(bytes) + 1, Len(stream)) \in Seq(Memory)
<1>1. Len(stream) \in Nat BY LenProperties
<1>2. PICK n \in 1 .. Lesser(size, Len(stream)) : bytes = SubSeq(stream, 1, n)
  BY DEF Received
<1>3. n \in 1 .. Len(stream) /\ n <= size BY <1>1, <1>2 DEF Lesser
<1>4. \A i \in 1 .. n : stream[i] \in Memory BY <1>1, <1>3, ElementOfSeq
<1>5. bytes \in Seq(Memory) /\ Len(bytes) = n BY <1>2, <1>3, <1>4, SubSeqProperties
<1>6. \A i \in n + 1 .. Len(stream) : stream[i] \in Memory BY <1>1, <1>3, ElementOfSeq
<1>. QED BY <1>1, <1>3, <1>5, <1>6, SubSeqProperties

\* A dispatch leaves the buffer as large as it was.
LEMMA DispatchSound ==
  ASSUME ReadInv, Dispatch
  PROVE  /\ Sound(readBuffer') /\ HeaderSize <= Len(readBuffer.data)'
         /\ UNCHANGED stream /\ pc' \in {"select", "exhausted", "terminated"}
<1>1. \A class : OnlyRead(readBuffer, Parse(class, readBuffer).buffer)
  BY ParseSound DEF ReadInv
<1>2. \/ readBuffer' = readBuffer
      \/ \E class : readBuffer' = Parse(class, readBuffer).buffer
  BY DEF Dispatch
<1>3. UNCHANGED stream /\ pc' \in {"select", "exhausted", "terminated"} BY DEF Dispatch
<1>. QED BY <1>1, <1>2, <1>3 DEF ReadInv, OnlyRead

LEMMA ReadInvInit == Init => ReadInv
<1>1. HeaderSize \in Nat BY DEF HeaderSize
<1>2. <<>> \in Seq(Memory) OBVIOUS
<1>. QED BY <1>1, <1>2, NewBufferSound DEF Init, ReadInv, HeaderSize

LEMMA ReadInvStep == ReadInv /\ [Next]_vars => ReadInv'
<1>. SUFFICES ASSUME ReadInv, [Next]_vars PROVE ReadInv'
  OBVIOUS
<1>1. ASSUME NEW m \in Outgoing, Send(m) PROVE ReadInv'
  <2>1. BytesSent(m) \in Seq(Memory) BY OutgoingAssumption, RecordsBuildable, BytesSentType
  <2>2. stream' \in Seq(Memory) BY <1>1, <2>1, ConcatProperties DEF Send, ReadInv
  <2>. QED BY <1>1, <2>2 DEF Send, ReadInv
<1>2. CASE Peek
  <2>1. Sound(Reset(readBuffer)) /\ Reset(readBuffer).data = readBuffer.data
        /\ Reset(readBuffer).write = 0
    BY ResetSound DEF ReadInv
  <2>. QED BY <1>2, <2>1 DEF Peek, ReadInv, HeaderSize
<1>3. CASE Call
  <2>1. Sound(Reset(readBuffer)) /\ Reset(readBuffer).data = readBuffer.data
        /\ Reset(readBuffer).write = 0
    BY ResetSound DEF ReadInv
  <2>. QED BY <1>3, <2>1 DEF Call, ReadInv, HeaderSize
<1>4. CASE ReadHeader
  <2>. USE DEF HeaderSize
  <2>1. PICK bytes \in Received(HeaderSize - readBuffer.write) :
          /\ stream' = SubSeq(stream, Len(bytes) + 1, Len(stream))
          /\ LET b == WriteBytes(readBuffer, bytes)
             IN  IF b.write < HeaderSize
                 THEN readBuffer' = b /\ UNCHANGED <<pc, reqSize>>
                 ELSE IF TooLong(b)
                 THEN pc' = "exhausted" /\ readBuffer' = b /\ UNCHANGED reqSize
                 ELSE /\ pc' = "body" /\ reqSize' = MessageSize(b)
                      /\ readBuffer' = RoomFor(MoveReadForward(b, HeaderSize), MessageSize(b))
    BY <1>4 DEF ReadHeader
  <2>. DEFINE b == WriteBytes(readBuffer, bytes)
              size == MessageSize(b)
  <2>2. HeaderSize - readBuffer.write \in Int BY DEF ReadInv, Sound, Shape
  <2>3. /\ bytes \in Seq(Memory) /\ stream' \in Seq(Memory)
        /\ Len(bytes) \in Nat /\ Len(bytes) <= HeaderSize - readBuffer.write
    BY <2>1, <2>2, ReceivedType DEF ReadInv
  <2>4. /\ Sound(b) /\ Len(b.data) = Len(readBuffer.data)
        /\ b.write <= readBuffer.write + Len(bytes)
    BY <2>3, WriteBytesSound DEF ReadInv
  <2>5. HeaderSize <= Len(b.data) BY <2>4 DEF ReadInv
  <2>6. size \in Nat /\ (HeaderSize <= size \/ size <= Len(b.data))
    BY <2>4, <2>5, MessageSizeType
  <2>. HIDE DEF b, size
  <2>7. CASE b.write < HeaderSize
    BY <1>4, <2>1, <2>3, <2>4, <2>5, <2>7 DEF ReadInv, ReadHeader, b
  <2>8. CASE ~ (b.write < HeaderSize) /\ TooLong(b)
    <3>1. pc' = "exhausted" /\ readBuffer' = b BY <2>1, <2>8 DEF b
    <3>. QED BY <2>3, <2>4, <2>5, <3>1 DEF ReadInv
  <2>9. CASE ~ (b.write < HeaderSize) /\ ~ TooLong(b)
    <3> DEFINE c == MoveReadForward(b, HeaderSize)
    <3>1. pc' = "body" /\ reqSize' = size /\ readBuffer' = RoomFor(c, size)
      BY <2>1, <2>9 DEF b, size
    <3>2. Sound(c) /\ c.data = b.data /\ c.write = b.write BY <2>4, MoveReadSound
    <3>. HIDE DEF c
    <3>3. c.write <= size \/ size <= Len(c.data)
      <4>1. b.write \in Nat /\ readBuffer.write \in Nat
        BY <2>4 DEF ReadInv, Sound, Shape
      <4>2. b.write <= 24 BY <2>3, <2>4, <4>1
      <4>. QED BY <2>6, <3>2, <4>1, <4>2
    <3>4. /\ Sound(readBuffer') /\ size <= Len(readBuffer'.data)
          /\ Len(c.data) <= Len(readBuffer'.data)
      BY <2>6, <3>1, <3>2, <3>3, RoomForSound
    <3>5. Len(readBuffer'.data) \in Nat /\ Len(c.data) \in Nat
      BY <3>2, <3>4, LenProperties DEF Sound, Shape
    <3>6. HeaderSize <= Len(readBuffer'.data) BY <2>5, <3>2, <3>4, <3>5
    <3>. QED BY <2>3, <2>6, <3>1, <3>4, <3>6 DEF ReadInv
  <2>. QED BY <2>7, <2>8, <2>9
<1>5. CASE HeaderTimeout BY <1>5 DEF HeaderTimeout, ReadInv
<1>6. CASE ReadBody
  <2>1. PICK bytes \in Received(reqSize - readBuffer.write) :
          /\ readBuffer' = WriteBytes(readBuffer, bytes)
          /\ stream' = SubSeq(stream, Len(bytes) + 1, Len(stream))
    BY <1>6 DEF ReadBody
  <2>2. reqSize - readBuffer.write \in Int
    BY <1>6 DEF ReadBody, ReadInv, Sound, Shape
  <2>3. bytes \in Seq(Memory) /\ stream' \in Seq(Memory)
    BY <2>1, <2>2, ReceivedType DEF ReadInv
  <2>4. Sound(readBuffer') /\ Len(readBuffer'.data) = Len(readBuffer.data)
    BY <2>1, <2>3, WriteBytesSound DEF ReadInv
  <2>. QED BY <1>6, <2>3, <2>4 DEF ReadBody, ReadInv
<1>7. CASE ReadMessage BY <1>7, DispatchSound DEF ReadMessage, ReadInv
<1>8. CASE BodyTimeout BY <1>8, DispatchSound DEF BodyTimeout, ReadInv
<1>9. CASE UNCHANGED vars BY <1>9 DEF vars, ReadInv
<1>. QED BY <1>1, <1>2, <1>3, <1>4, <1>5, <1>6, <1>7, <1>8, <1>9 DEF Next

\* recv is never asked for more than there is room for: the property that
\* MemcacheSocket.cpp:257 and :291 rely on.  It holds whatever lengths the headers hold
\* and however much memory there is: also if the length of the message wraps at line
\* 280, since what is left is less than the header that the buffer has room for.
THEOREM ReceiveFits == Spec => []RecvFits
<1>1. ReadInv => RecvFits
  <2>. SUFFICES ASSUME ReadInv PROVE RecvFits
    OBVIOUS
  <2>1. readBuffer.write \in Nat /\ readBuffer.write <= Len(readBuffer.data)
    BY DEF ReadInv, Sound, Shape
  <2>2. Len(readBuffer.data) \in Nat BY LenProperties DEF ReadInv, Sound, Shape
  <2>3. HeaderSize \in Nat /\ HeaderSize <= Len(readBuffer.data) BY DEF ReadInv, HeaderSize
  <2>4. CASE pc = "header" BY <2>1, <2>2, <2>3, <2>4 DEF RecvFits, Wanted
  <2>5. CASE pc = "body" /\ readBuffer.write < reqSize
    <3>1. reqSize \in Nat /\ reqSize <= Len(readBuffer.data) BY <2>5 DEF ReadInv
    <3>. QED BY <2>1, <2>2, <2>5, <3>1 DEF RecvFits, Wanted
  <2>6. CASE pc # "header" /\ ~ (pc = "body" /\ readBuffer.write < reqSize)
    BY <2>1, <2>2, <2>6 DEF RecvFits, Wanted
  <2>. QED BY <2>4, <2>5, <2>6
<1>. QED BY <1>1, ReadInvInit, ReadInvStep, PTL DEF Spec
-----------------------------------------------------------------------------
(* The casts of the handlers *)

\* The history of the handler is a sequence (of whatever Parse returns).
CastInv == (\E S : handled \in Seq(S)) /\ CastsSafe

LEMMA AppendAny ==
  ASSUME NEW S, NEW s \in Seq(S), NEW e
  PROVE  /\ \E T : Append(s, e) \in Seq(T)
         /\ Len(Append(s, e)) = Len(s) + 1 /\ Len(s) \in Nat
         /\ \A i \in 1 .. Len(s) : Append(s, e)[i] = s[i]
         /\ Append(s, e)[Len(s) + 1] = e
<1>1. s \in Seq(S \cup {e}) BY SeqMonotonic
<1>2. Append(s, e) \in Seq(S \cup {e}) BY <1>1
<1>3. /\ Len(Append(s, e)) = Len(s) + 1 /\ Len(s) \in Nat
      /\ \A i \in 1 .. Len(s) : Append(s, e)[i] = s[i]
      /\ Append(s, e)[Len(s) + 1] = e
  BY <1>1
<1>. QED BY <1>2, <1>3

\* A known header makes an object of its own class; with an unknown one, the
\* handler casts nothing.
LEMMA DispatchCasts ==
  ASSUME CastInv, Dispatch
  PROVE  CastInv'
<1> DEFINE h == ParseHeader(readBuffer)
           class == IF Known(h) THEN ClassOf(h) ELSE current
           p == Parse(class, readBuffer)
           entry == Content(class, h, p)
<1>1. \/ handled' = handled
      \/ (Handles(h) /\ handled' = Append(handled, entry))
  BY DEF Dispatch, Handle
<1>2. Handles(h) => entry.castTo = entry.class
  BY DEF Handles, Known, Content
<1>3. CASE handled' = handled BY <1>3 DEF CastInv, CastsSafe
<1>4. CASE Handles(h) /\ handled' = Append(handled, entry)
  <2>. HIDE DEF entry, h
  <2>1. PICK S : handled \in Seq(S) BY DEF CastInv
  <2>2. /\ \E T : handled' \in Seq(T)
        /\ Len(handled') = Len(handled) + 1 /\ Len(handled) \in Nat
        /\ \A i \in 1 .. Len(handled) : handled'[i] = handled[i]
        /\ handled'[Len(handled) + 1] = entry
    BY <1>4, <2>1, AppendAny, SMTT(30)
  <2>3. ASSUME NEW i \in 1 .. Len(handled')
        PROVE  handled'[i].castTo = handled'[i].class
    <3>1. CASE i \in 1 .. Len(handled) BY <2>2, <3>1 DEF CastInv, CastsSafe
    <3>2. CASE i = Len(handled) + 1 BY <1>2, <1>4, <2>2, <3>2
    <3>. QED BY <2>2, <3>1, <3>2
  <2>. QED BY <2>2, <2>3 DEF CastInv, CastsSafe
<1>. QED BY <1>1, <1>3, <1>4

\* A handler casts a message to the class of the object it gets, in every state.
THEOREM CastsAreSafe == Spec => []CastsSafe
<1>1. Init => CastInv
  <2>1. <<>> \in Seq({}) /\ Len(<<>>) = 0 OBVIOUS
  <2>. QED BY <2>1 DEF Init, CastInv, CastsSafe
<1>2. CastInv /\ [Next]_vars => CastInv'
  <2>. SUFFICES ASSUME CastInv, [Next]_vars PROVE CastInv'
    OBVIOUS
  <2>1. UNCHANGED handled => CastInv' BY DEF CastInv, CastsSafe
  <2>2. CASE ReadMessage BY <2>2, DispatchCasts DEF ReadMessage
  <2>3. CASE BodyTimeout BY <2>3, DispatchCasts DEF BodyTimeout
  <2>4. CASE ~ ReadMessage /\ ~ BodyTimeout
    BY <2>1, <2>4 DEF Next, vars, Send, Peek, Call, ReadHeader, HeaderTimeout, ReadBody,
           handlerVars
  <2>. QED BY <2>2, <2>3, <2>4
<1>3. CastInv => CastsSafe BY DEF CastInv
<1>. QED BY <1>1, <1>2, <1>3, PTL DEF Spec
-----------------------------------------------------------------------------
(* Types *)

\* What the cache of the server holds.
Cached(map) ==
  \A k \in DOMAIN map : map[k] \in [flags : Seq(Memory), value : Seq(Memory)]

LEMMA StoredType ==
  ASSUME NEW map, Cached(map), NEW h, NEW p,
         p.flags \in Seq(Memory), p.value \in Seq(Memory)
  PROVE  Cached(Stored(map, h, p))
<1> DEFINE entry == [flags |-> p.flags, value |-> p.value]
<1>1. entry \in [flags : Seq(Memory), value : Seq(Memory)] OBVIOUS
<1>. HIDE DEF entry
<1>2. CASE h.opcode = kOpSet
  <2>1. Stored(map, h, p) = [k \in DOMAIN map \cup {p.key} |->
                               IF k = p.key THEN entry ELSE map[k]]
    BY <1>2 DEF Stored, entry
  <2>. QED BY <1>1, <2>1 DEF Cached
<1>3. CASE h.opcode # kOpSet BY <1>3 DEF Stored
<1>. QED BY <1>2, <1>3

LEMMA ReplyType ==
  ASSUME NEW map, Cached(map), NEW h, NEW p
  PROVE  BytesSent(ReplyTo(map, h, p)) \in Seq(Memory)
<1>1. /\ {kOpGet, kOpSet, kMagicRes} \subseteq Byte
      /\ {kResNoError, kResKeyNotFound} \subseteq Nat
  BY DEF kOpGet, kOpSet, kMagicRes, kResNoError, kResKeyNotFound, Byte
<1>2. <<>> \in Seq(Memory) /\ Fill(0, 4) \in Seq(Memory)
  <2>1. 0 \in Memory BY BytesAreNumbers DEF Memory
  <2>. QED BY <2>1, FillType
<1>3. ASSUME NEW opcode \in {kOpGet, kOpSet}, NEW status \in {kResNoError, kResKeyNotFound},
             NEW flags \in Seq(Memory), NEW value \in Seq(Memory)
      PROVE  Response(opcode, status, flags, value) \in Buildable
  BY <1>1, <1>2 DEF Response, Buildable
<1>4. p.key \in DOMAIN map =>
        map[p.key].flags \in Seq(Memory) /\ map[p.key].value \in Seq(Memory)
  BY DEF Cached
<1>5. ReplyTo(map, h, p) \in Buildable
  <2>1. CASE h.opcode = kOpSet
    <3>1. ReplyTo(map, h, p) = Response(kOpSet, kResNoError, <<>>, <<>>)
      BY <2>1 DEF ReplyTo, kOpGet, kOpSet
    <3>. QED BY <1>2, <1>3, <3>1
  <2>2. CASE h.opcode # kOpSet /\ h.opcode = kOpGet /\ p.key \in DOMAIN map
    <3>1. ReplyTo(map, h, p) = Response(kOpGet, kResNoError, map[p.key].flags, map[p.key].value)
      BY <2>2 DEF ReplyTo
    <3>. QED BY <1>3, <1>4, <2>2, <3>1
  <2>3. CASE h.opcode # kOpSet /\ ~ (h.opcode = kOpGet /\ p.key \in DOMAIN map)
    <3>1. ReplyTo(map, h, p) = Response(kOpGet, kResKeyNotFound, Fill(0, 4), <<>>)
      BY <2>3 DEF ReplyTo
    <3>. QED BY <1>2, <1>3, <3>1
  <2>. QED BY <2>1, <2>2, <2>3
<1>. QED BY <1>5, BytesSentType
-----------------------------------------------------------------------------
\* The type invariant in two parts, one for what reading changes and one for what
\* dispatching changes.
ReadTypes ==
  /\ role \in {"server", "client"}
  /\ sent \in Seq(Outgoing)
  /\ pc \in {"select", "header", "body", "closed", "exhausted", "terminated"}
  /\ Ordered(readBuffer)
  /\ reqSize \in Nat
HandlerTypes ==
  /\ current \in Classes \cup {"none"}
  /\ cuts \in 0 .. MaxCuts
  /\ messages \in Nat
  /\ handled \in Seq(Contents)
  /\ Cached(dataMap)
  /\ replies \in Seq(Seq(Memory))

LEMMA TypesOK == ReadInv /\ ReadTypes /\ HandlerTypes => TypeOK
BY OrderedType DEF ReadInv, ReadTypes, HandlerTypes, TypeOK, Cached

LEMMA HandlerTypesKept == HandlerTypes /\ UNCHANGED handlerVars => HandlerTypes'
BY DEF HandlerTypes, handlerVars, Cached

LEMMA TypesInit == Init => ReadTypes /\ HandlerTypes
<1>. SUFFICES ASSUME Init PROVE ReadTypes /\ HandlerTypes
  OBVIOUS
<1>1. HeaderSize \in Nat BY DEF HeaderSize
<1>2. Ordered(NewBuffer(HeaderSize))
  <2>1. Sound(NewBuffer(HeaderSize)) /\ NewBuffer(HeaderSize).write = 0
    BY <1>1, NewBufferSound
  <2>2. NewBuffer(HeaderSize).read = 0 BY DEF NewBuffer
  <2>. QED BY <2>1, <2>2 DEF Ordered
<1>3. ReadTypes
  <2>1. <<>> \in Seq(Outgoing) OBVIOUS
  <2>. QED BY <1>1, <1>2, <2>1 DEF Init, ReadTypes
<1>4. HandlerTypes
  <2>1. <<>> \in Seq(Contents) /\ <<>> \in Seq(Seq(Memory)) /\ DOMAIN <<>> = {} OBVIOUS
  <2>2. 0 \in 0 .. MaxCuts BY BoundsAssumption
  <2>3. Cached(dataMap) BY <2>1 DEF Init, Cached
  <2>. QED BY <2>1, <2>2, <2>3 DEF Init, HandlerTypes
<1>. QED BY <1>3, <1>4

\* A dispatch hands over what Parse has found and stores and answers it.
LEMMA DispatchTypes ==
  ASSUME ReadInv, ReadTypes, HandlerTypes, Dispatch
  PROVE  /\ ReadTypes'
         /\ current' \in Classes \cup {"none"} /\ messages' \in Nat
         /\ handled' \in Seq(Contents) /\ Cached(dataMap')
         /\ replies' \in Seq(Seq(Memory))
<1> DEFINE h == ParseHeader(readBuffer)
           class == IF Known(h) THEN ClassOf(h) ELSE current
           p == Parse(class, readBuffer)
           entry == Content(class, h, p)
<1>1. Sound(readBuffer) /\ HeaderSize <= Len(readBuffer.data) /\ Ordered(readBuffer)
  BY DEF ReadInv, ReadTypes
<1>2. /\ current' = class
      /\ messages' = IF InStep /\ pc' = "select" THEN messages + 1 ELSE messages
      /\ UNCHANGED <<role, sent, stream, reqSize>>
      /\ pc' \in {"select", "exhausted", "terminated"}
  BY DEF Dispatch
<1>3. \/ UNCHANGED <<readBuffer, handled, dataMap, replies>>
      \/ /\ ~ SizeWraps(class, h)
         /\ readBuffer' = p.buffer
         /\ handled' = Handle(class, h, p)
         /\ Answer(h, p)
  BY DEF Dispatch
<1>4. ~ SizeWraps(class, h) =>
        /\ Ordered(p.buffer)
        /\ p.flags \in Seq(Memory) /\ p.expires \in Seq(Memory)
        /\ p.key \in Seq(Memory) /\ p.value \in Seq(Memory)
        /\ p.status = h.status
  BY <1>1, ParseTypes
<1>5. h.status \in Nat BY <1>1, StatusType
<1>6. ClassOf(h) \in Classes BY DEF ClassOf, Classes
<1>7. Handles(h) => class \in Classes BY <1>6 DEF Handles, Known
<1>8. class \in Classes \cup {"none"} BY <1>6 DEF HandlerTypes
<1>. HIDE DEF h, class, p
<1>9. CASE UNCHANGED <<readBuffer, handled, dataMap, replies>>
  <2>1. ReadTypes' BY <1>2, <1>9 DEF ReadTypes, Ordered
  <2>2. messages' \in Nat BY <1>2 DEF HandlerTypes
  <2>. QED BY <1>2, <1>8, <1>9, <2>1, <2>2 DEF HandlerTypes
<1>10. CASE /\ ~ SizeWraps(class, h)
            /\ readBuffer' = p.buffer
            /\ handled' = Handle(class, h, p)
            /\ Answer(h, p)
  <2>1. ReadTypes' BY <1>2, <1>4, <1>10 DEF ReadTypes, Ordered
  <2>2. messages' \in Nat BY <1>2 DEF HandlerTypes
  <2>3. handled' \in Seq(Contents)
    <3>1. CASE ~ (p.ok /\ Handles(h)) BY <1>10, <3>1 DEF Handle, HandlerTypes
    <3>2. CASE p.ok /\ Handles(h)
      <4>1. (IF InStep THEN messages + 1 ELSE 0) \in Nat BY DEF HandlerTypes
      <4>2. entry \in Contents
        BY <1>4, <1>5, <1>6, <1>7, <1>10, <3>2, <4>1 DEF Content, Contents
      <4>3. handled' = Append(handled, entry) BY <1>10, <3>2 DEF Handle
      <4>. HIDE DEF entry
      <4>. QED BY <4>2, <4>3, AppendProperties DEF HandlerTypes
    <3>. QED BY <3>1, <3>2
  <2>4. Cached(dataMap') /\ replies' \in Seq(Seq(Memory))
    <3>1. CASE ~ (role = "server" /\ p.ok /\ Handles(h))
      BY <1>10, <3>1 DEF Answer, HandlerTypes
    <3>2. CASE role = "server" /\ p.ok /\ Handles(h)
      <4>1. /\ dataMap' = Stored(dataMap, h, p)
            /\ replies' = Append(replies, BytesSent(ReplyTo(dataMap, h, p)))
        BY <1>10, <3>2 DEF Answer
      <4>2. Cached(Stored(dataMap, h, p)) BY <1>4, <1>10, StoredType DEF HandlerTypes
      <4>3. BytesSent(ReplyTo(dataMap, h, p)) \in Seq(Memory) BY ReplyType DEF HandlerTypes
      <4>. QED BY <4>1, <4>2, <4>3, AppendProperties DEF HandlerTypes
    <3>. QED BY <3>1, <3>2
  <2>. QED BY <1>2, <1>8, <2>1, <2>2, <2>3, <2>4
<1>. QED BY <1>3, <1>9, <1>10

LEMMA TypesStep ==
  ReadInv /\ ReadTypes /\ HandlerTypes /\ [Next]_vars => ReadTypes' /\ HandlerTypes'
<1>. SUFFICES ASSUME ReadInv, ReadTypes, HandlerTypes, [Next]_vars
              PROVE  ReadTypes' /\ HandlerTypes'
  OBVIOUS
<1>0. /\ Ordered(readBuffer) /\ Sound(readBuffer) /\ HeaderSize <= Len(readBuffer.data)
      /\ stream \in Seq(Memory)
  BY DEF ReadInv, ReadTypes
<1>1. Ordered(Reset(readBuffer)) BY <1>0, ResetOrdered
<1>2. ASSUME NEW m \in Outgoing, Send(m) PROVE ReadTypes' /\ HandlerTypes'
  <2>1. sent' \in Seq(Outgoing) BY <1>2, AppendProperties DEF Send, ReadTypes
  <2>2. HandlerTypes' BY <1>2, HandlerTypesKept DEF Send
  <2>. QED BY <1>2, <2>1, <2>2 DEF Send, ReadTypes, Ordered
<1>3. CASE Peek
  <2>1. HandlerTypes' BY <1>3, HandlerTypesKept DEF Peek
  <2>2. Ordered(readBuffer') BY <1>0, <1>1, <1>3 DEF Peek
  <2>3. UNCHANGED <<role, sent, reqSize>> /\ pc' \in {"header", "closed"} BY <1>3 DEF Peek
  <2>. QED BY <2>1, <2>2, <2>3 DEF ReadTypes, Ordered
<1>4. CASE Call
  <2>1. HandlerTypes' BY <1>4, HandlerTypesKept DEF Call
  <2>2. Ordered(readBuffer') BY <1>1, <1>4 DEF Call
  <2>3. UNCHANGED <<role, sent, reqSize>> /\ pc' = "header" BY <1>4 DEF Call
  <2>. QED BY <2>1, <2>2, <2>3 DEF ReadTypes, Ordered
<1>5. CASE ReadHeader
  <2>. USE DEF HeaderSize
  <2>1. HandlerTypes' BY <1>5, HandlerTypesKept DEF ReadHeader
  <2>2. PICK bytes \in Received(HeaderSize - readBuffer.write) :
          LET b == WriteBytes(readBuffer, bytes)
          IN  IF b.write < HeaderSize
              THEN readBuffer' = b /\ UNCHANGED <<pc, reqSize>>
              ELSE IF TooLong(b)
              THEN pc' = "exhausted" /\ readBuffer' = b /\ UNCHANGED reqSize
              ELSE /\ pc' = "body" /\ reqSize' = MessageSize(b)
                   /\ readBuffer' = RoomFor(MoveReadForward(b, HeaderSize), MessageSize(b))
    BY <1>5 DEF ReadHeader
  <2>. DEFINE b == WriteBytes(readBuffer, bytes)
              size == MessageSize(b)
              c == MoveReadForward(b, HeaderSize)
  <2>3. HeaderSize - readBuffer.write \in Int BY <1>0 DEF Sound, Shape
  <2>4. bytes \in Seq(Memory) /\ Len(bytes) \in Nat /\ Len(bytes) <= 24 - readBuffer.write
    BY <1>0, <2>3, ReceivedType
  <2>5. Ordered(b) BY <1>0, <2>4, WriteBytesOrdered
  <2>6. /\ Sound(b) /\ Len(b.data) = Len(readBuffer.data)
        /\ b.write <= readBuffer.write + Len(bytes)
    BY <1>0, <2>4, WriteBytesSound
  <2>7. size \in Nat /\ (24 <= size \/ size <= Len(b.data))
    BY <1>0, <2>6, MessageSizeType
  <2>8. Ordered(c) /\ c.write = b.write /\ c.data = b.data
    BY <2>5, <2>6, MoveReadOrdered, MoveReadSound
  <2>. HIDE DEF b, size, c
  <2>9. c.write <= size \/ size <= Len(c.data)
    <3>1. b.write \in Nat /\ readBuffer.write \in Nat BY <1>0, <2>5, OrderedType
    <3>2. b.write <= 24 BY <2>4, <2>6, <3>1
    <3>. QED BY <2>7, <2>8, <3>1, <3>2
  <2>10. Ordered(RoomFor(c, size)) BY <2>7, <2>8, <2>9, RoomForOrdered
  <2>11. Ordered(readBuffer') /\ reqSize' \in Nat /\ pc' \in {"header", "body", "exhausted"}
    <3>1. pc = "header" BY <1>5 DEF ReadHeader
    <3>2. CASE b.write < HeaderSize BY <2>2, <2>5, <3>1, <3>2 DEF ReadTypes, b
    <3>3. CASE ~ (b.write < HeaderSize) /\ TooLong(b)
      BY <2>2, <2>5, <3>3 DEF ReadTypes, b
    <3>4. CASE ~ (b.write < HeaderSize) /\ ~ TooLong(b)
      <4>1. pc' = "body" /\ reqSize' = size /\ readBuffer' = RoomFor(c, size)
        BY <2>2, <3>4 DEF b, c, size
      <4>. QED BY <2>7, <2>10, <4>1
    <3>. QED BY <3>2, <3>3, <3>4
  <2>12. UNCHANGED <<role, sent>> BY <1>5 DEF ReadHeader
  <2>. QED BY <2>1, <2>11, <2>12 DEF ReadTypes, Ordered
<1>6. CASE HeaderTimeout
  <2>1. /\ UNCHANGED <<role, sent, readBuffer, reqSize, current, messages, handled,
                       dataMap, replies>>
        /\ pc' = "select"
    BY <1>6 DEF HeaderTimeout
  <2>2. cuts' \in 0 .. MaxCuts
    <3>1. cuts \in 0 .. MaxCuts /\ MaxCuts \in Nat BY BoundsAssumption DEF HandlerTypes
    <3>2. cuts' = cuts \/ (cuts < MaxCuts /\ cuts' = cuts + 1) BY <1>6 DEF HeaderTimeout
    <3>. QED BY <3>1, <3>2
  <2>. QED BY <2>1, <2>2 DEF ReadTypes, HandlerTypes, Ordered, Cached
<1>7. CASE ReadBody
  <2>1. HandlerTypes' BY <1>7, HandlerTypesKept DEF ReadBody
  <2>2. PICK bytes \in Received(reqSize - readBuffer.write) :
          readBuffer' = WriteBytes(readBuffer, bytes)
    BY <1>7 DEF ReadBody
  <2>3. reqSize - readBuffer.write \in Int BY <1>0 DEF ReadTypes, Sound, Shape
  <2>4. bytes \in Seq(Memory) BY <1>0, <2>3, ReceivedType
  <2>5. Ordered(readBuffer') BY <1>0, <2>2, <2>4, WriteBytesOrdered
  <2>6. UNCHANGED <<role, sent, pc, reqSize>> BY <1>7 DEF ReadBody
  <2>. QED BY <2>1, <2>5, <2>6 DEF ReadTypes, Ordered
<1>8. CASE ReadMessage
  <2>1. UNCHANGED cuts BY <1>8 DEF ReadMessage
  <2>2. cuts' \in 0 .. MaxCuts BY <2>1 DEF HandlerTypes
  <2>. QED BY <1>8, <2>2, DispatchTypes DEF ReadMessage, HandlerTypes, Cached
<1>9. CASE BodyTimeout
  <2>1. cuts < MaxCuts /\ cuts' = cuts + 1 BY <1>9 DEF BodyTimeout
  <2>2. cuts' \in 0 .. MaxCuts BY <2>1, BoundsAssumption DEF HandlerTypes
  <2>. QED BY <1>9, <2>2, DispatchTypes DEF BodyTimeout, HandlerTypes, Cached
<1>10. CASE UNCHANGED vars
  <2>1. HandlerTypes' BY <1>10, HandlerTypesKept DEF vars
  <2>. QED BY <1>10, <2>1 DEF vars, ReadTypes, Ordered
<1>. QED BY <1>2, <1>3, <1>4, <1>5, <1>6, <1>7, <1>8, <1>9, <1>10 DEF Next

\* Every variable keeps its type and the read offset stays behind what has been
\* received, whatever the bytes on the connection are: also when the receiver is
\* out of step and takes a piece of a value for a header.
THEOREM FramingTypeCorrect == Spec => []TypeOK
<1>1. ReadInv /\ ReadTypes /\ HandlerTypes /\ [Next]_vars
        => (ReadInv /\ ReadTypes /\ HandlerTypes)'
  BY ReadInvStep, TypesStep
<1>2. Init => ReadInv /\ ReadTypes /\ HandlerTypes BY ReadInvInit, TypesInit
<1>. QED BY <1>1, <1>2, TypesOK, PTL DEF Spec
=============================================================================
