------------------------------- MODULE Framing -------------------------------
(***************************************************************************)
(* A connection in bytes: messages are built and sent, TCP cuts the bytes  *)
(* as it likes, and MemcacheSocket::ReadMessage puts them together again   *)
(* and hands them to the handler.  The receiver is a session of the        *)
(* server, which peeks before it reads, keeps what it is sent in the cache *)
(* and replies, or the socket of a client, which reads when a request has  *)
(* been sent.                                                              *)
(*                                                                         *)
(* A receive timeout in the middle of a message leaves the rest of it in   *)
(* the stream, to be read as the next header.  From then on the receiver   *)
(* is out of step and what it takes for a header may say anything.  The    *)
(* model goes on with it as the code does, until it announces a body that  *)
(* there is no memory for: new throws bad_alloc, and nobody catches it.    *)
(* The end of the connection is the matter of ConnectionLifecycle and      *)
(* ClientSession.                                                          *)
(***************************************************************************)
EXTENDS RequestHandler, SequencesExt

CONSTANTS Outgoing,  \* the messages that may be sent
          MaxSent,   \* bound: how many are
          MaxCuts,   \* bound: how many receives time out in the middle of a message
          MaxBody    \* the longest body, or value, that there is memory for

ASSUME OutgoingAssumption == /\ Outgoing \subseteq MessageRecords
                             /\ \A m \in Outgoing : Constructible(m)
ASSUME BoundsAssumption == {MaxSent, MaxCuts, MaxBody} \subseteq Nat

\* There is no memory for a value whose size has wrapped below zero: by less than
\* a KeyLen and an ExtrasLen, so that it is almost 2^32.
ASSUME MemoryAssumption == MaxBody \div 65536 < 65534

VARIABLES
  role,       \* of the receiver: "server" or "client"
  sent,       \* the messages sent (history)
  stream,     \* the bytes sent and not received
  pc,         \* "select", "header", "body", "closed" or, by bad_alloc, "exhausted"
              \* (there is no memory) or "terminated" (a size has wrapped)
  readBuffer, \* _readBuffer
  reqSize,    \* the size of the message being read, with its header
  current,    \* the class of _currentMsg, or "none"
  cuts,       \* how many receives have timed out in the middle of a message (history)
  messages,   \* how many messages have been read in step (history)
  handled,    \* what the handler has acted on, and the message it was (history)
  dataMap,    \* _dataMap of the server: flags and value of each key
  replies     \* the bytes of each reply of the server

handlerVars == <<current, cuts, messages, handled, dataMap, replies>>
vars == <<role, sent, stream, pc, readBuffer, reqSize, handlerVars>>

\* The receiver knows where a message begins.
InStep == cuts = 0

Init ==
  /\ role \in {"server", "client"}
  /\ sent = <<>> /\ stream = <<>>
  /\ pc = "select"
  /\ readBuffer = NewBuffer(HeaderSize) /\ reqSize = HeaderSize
  /\ current = "none"
  /\ cuts = 0 /\ messages = 0 /\ handled = <<>>
  /\ dataMap = <<>> /\ replies = <<>>

\* SendBuiltMessage, or the reply of ReadMessage.
Send(m) ==
  /\ Len(sent) < MaxSent
  /\ sent' = Append(sent, m)
  /\ stream' = stream \o BytesSent(m)
  /\ UNCHANGED <<role, pc, readBuffer, reqSize, handlerVars>>

\* Run: when the socket is readable, peek.  Fewer bytes than a header, because
\* no more have come yet, are taken for a closed connection.
Peek ==
  /\ role = "server" /\ pc = "select" /\ stream # <<>>
  /\ \/ /\ Len(stream) >= HeaderSize
        /\ pc' = "header" /\ readBuffer' = Reset(readBuffer)
     \/ pc' = "closed" /\ UNCHANGED readBuffer
  /\ UNCHANGED <<role, sent, stream, reqSize, handlerVars>>

\* Get and Set call ReadMessage.
Call ==
  /\ role = "client" /\ pc = "select"
  /\ pc' = "header" /\ readBuffer' = Reset(readBuffer)
  /\ UNCHANGED <<role, sent, stream, reqSize, handlerVars>>

\* What recv may return when at most size bytes are asked for.
Received(size) == {SubSeq(stream, 1, n) : n \in 1 .. Lesser(size, Len(stream))}

\* Mistake: the space for the header is forgotten.
RoomForBody(b, size) ==
  IF Len(b.data) < size THEN Realloc(b, size - HeaderSize) ELSE b

\* Make room for the rest of a message of that size.
RoomFor(b, size) == IF Len(b.data) < size THEN Realloc(b, size) ELSE b

\* The length of the message is computed in 32 bits: a body of almost 2^32 bytes
\* makes it less than that of a header.
Wraps(b) == (\A i \in 9 .. 11 : b.data[i] = 255) /\ b.data[12] \in 232 .. 255
MessageSize(b) == IF Wraps(b) THEN b.data[12] - 232 ELSE ParseHeader(b).total + HeaderSize

\* There is no memory for the message: its body has more than MaxBody bytes.
TooLong(b) ==
  LET high == Short(SubSeq(b.data, 9, 10))
      low  == Short(SubSeq(b.data, 11, 12))
  IN  /\ ~ Wraps(b)
      /\ \/ high > MaxBody \div 65536
         \/ high = MaxBody \div 65536 /\ low > MaxBody % 65536

\* Receive bytes of the header; the whole of it has been seen by a peek.  When
\* it is complete, parse it and make room for the message.
ReadHeader ==
  /\ pc = "header"
  /\ \E bytes \in Received(HeaderSize - readBuffer.write) :
       /\ role = "server" => Len(bytes) = HeaderSize
       /\ stream' = SubSeq(stream, Len(bytes) + 1, Len(stream))
       /\ LET b == WriteBytes(readBuffer, bytes)
          IN  IF b.write < HeaderSize
              THEN readBuffer' = b /\ UNCHANGED <<pc, reqSize>>
              ELSE IF TooLong(b)
              THEN pc' = "exhausted" /\ readBuffer' = b /\ UNCHANGED reqSize
              ELSE /\ pc' = "body" /\ reqSize' = MessageSize(b)
                   /\ readBuffer' = RoomFor(MoveReadForward(b, HeaderSize), MessageSize(b))
  /\ UNCHANGED <<role, sent, handlerVars>>

\* A timeout in the header: ReadMessage returns, and what it has received is
\* dropped by the next Reset.
HeaderTimeout ==
  /\ role = "client" /\ pc = "header"
  /\ pc' = "select"
  /\ IF readBuffer.write = 0 THEN UNCHANGED cuts ELSE cuts < MaxCuts /\ cuts' = cuts + 1
  /\ UNCHANGED <<role, sent, stream, readBuffer, reqSize, current, messages, handled,
                 dataMap, replies>>

\* Receive bytes of the body.
ReadBody ==
  /\ pc = "body" /\ readBuffer.write < reqSize
  /\ \E bytes \in Received(reqSize - readBuffer.write) :
       /\ readBuffer' = WriteBytes(readBuffer, bytes)
       /\ stream' = SubSeq(stream, Len(bytes) + 1, Len(stream))
  /\ UNCHANGED <<role, sent, pc, reqSize, handlerVars>>
-----------------------------------------------------------------------------
\* What the handler of that role acts on: MemcacheServer::OnReceivedMessage
\* answers requests, MemcacheClient::OnReceivedMessage keeps responses.
Handles(h) ==
  /\ h.magic = IF role = "server" THEN kMagicReq ELSE kMagicRes
  /\ h.opcode \in {kOpGet, kOpSet}

\* What the handler makes of a message; n is the number of the message, if the
\* receiver knows where it began.
Content(class, h, p) ==
  [n |-> IF InStep THEN messages + 1 ELSE 0, class |-> class, castTo |-> ClassOf(h),
   key |-> p.key, flags |-> p.flags, expires |-> p.expires, value |-> p.value,
   status |-> p.status]

\* Mistake: the opcode alone decides.
HandleAnyMagic(class, h, p) ==
  IF p.ok /\ h.opcode \in {kOpGet, kOpSet}
  THEN Append(handled, Content(class,
         [h EXCEPT !.magic = IF role = "server" THEN kMagicReq ELSE kMagicRes], p))
  ELSE handled

\* The message, parsed as an object of that class, is handed over; the handler
\* casts it to the class that the header tells.
Handle(class, h, p) ==
  IF p.ok /\ Handles(h) THEN Append(handled, Content(class, h, p)) ELSE handled

\* What OnReceivedMessage of the server does for a message.
Answer(h, p) ==
  IF role = "server" /\ p.ok /\ Handles(h)
  THEN /\ dataMap' = Stored(dataMap, h, p)
       /\ replies' = Append(replies, BytesSent(ReplyTo(dataMap, h, p)))
  ELSE UNCHANGED <<dataMap, replies>>

\* The value has more bytes than there is memory for.
ValueTooLong(class, h) == HasFlags(class) /\ h.total - (h.keyLen + h.extrasLen) > MaxBody

\* The rest of ReadMessage: a known header makes a new _currentMsg; with an
\* unknown one the object of the last message, if there is one, is used again.
\* A value whose size wraps is too long as well.
Dispatch ==
  LET h == ParseHeader(readBuffer)
      class == IF Known(h) THEN ClassOf(h) ELSE current
      p == Parse(class, readBuffer)
  IN  /\ current' = class
      /\ \/ /\ class = "none"
            /\ pc' = "select"
            /\ UNCHANGED <<readBuffer, handled, dataMap, replies>>
         \/ /\ class # "none" /\ (SizeWraps(class, h) \/ ValueTooLong(class, h))
            /\ pc' = IF SizeWraps(class, h) THEN "terminated" ELSE "exhausted"
            /\ UNCHANGED <<readBuffer, handled, dataMap, replies>>
         \/ /\ class # "none" /\ ~ SizeWraps(class, h) /\ ~ ValueTooLong(class, h)
            /\ pc' = "select"
            /\ readBuffer' = p.buffer
            /\ handled' = Handle(class, h, p)
            /\ Answer(h, p)
      /\ messages' = IF InStep /\ pc' = "select" THEN messages + 1 ELSE messages
      /\ UNCHANGED <<role, sent, stream, reqSize>>

\* The message has been read to its end.
ReadMessage == pc = "body" /\ readBuffer.write >= reqSize /\ Dispatch /\ UNCHANGED cuts

\* A timeout in the body leaves the loop, and the function goes on.
BodyTimeout ==
  /\ pc = "body" /\ readBuffer.write < reqSize
  /\ cuts < MaxCuts /\ cuts' = cuts + 1
  /\ Dispatch

Next == \/ \E m \in Outgoing : Send(m)
        \/ Peek \/ Call \/ ReadHeader \/ HeaderTimeout \/ ReadBody
        \/ ReadMessage \/ BodyTimeout

Spec == Init /\ [][Next]_vars
-----------------------------------------------------------------------------
(* Properties *)

Contents == [n : Nat, class : Classes, castTo : Classes, key : Seq(Memory),
             flags : Seq(Memory), expires : Seq(Memory), value : Seq(Memory), status : Nat]

\* Every variable holds a value of its type, and the read buffer is never read
\* past what has been received.
TypeOK ==
  /\ role \in {"server", "client"}
  /\ sent \in Seq(Outgoing)
  /\ stream \in Seq(Memory)
  /\ pc \in {"select", "header", "body", "closed", "exhausted", "terminated"}
  /\ readBuffer \in Buffers /\ InOrder(readBuffer)
  /\ reqSize \in Nat
  /\ current \in Classes \cup {"none"}
  /\ cuts \in 0 .. MaxCuts
  /\ messages \in Nat
  /\ handled \in Seq(Contents)
  /\ \A k \in DOMAIN dataMap : dataMap[k] \in [flags : Seq(Memory), value : Seq(Memory)]
  /\ replies \in Seq(Seq(Memory))

\* recv is never asked for more bytes than the read buffer has room for, whatever
\* the lengths in what is taken for a header: any four bytes of TotalBodyLen, those
\* included that make the length of the message wrap.
Wanted == CASE pc = "header" -> HeaderSize - readBuffer.write
            [] pc = "body" /\ readBuffer.write < reqSize -> reqSize - readBuffer.write
            [] OTHER -> 0
RecvFits == readBuffer.write + Wanted <= Len(readBuffer.data)

\* ReadValue subtracts the lengths of key and extras from the length of the body
\* without a test.  Of messages that are built by this library, the difference
\* wraps, and the program ends, only when a receive has timed out in the middle of
\* a message before.
WrapsOnlyOutOfStep == pc = "terminated" => ~ InStep

\* The static_cast of a handler is to the class of the object, although
\* _currentMsg may be the object of an earlier message.
CastsSafe == \A i \in 1 .. Len(handled) : handled[i].castTo = handled[i].class

\* Between two messages the stream is at the beginning of one: no message
\* announces more or less than is sent of it, and whether a message parses, has
\* a key too long for KeyLen, or is not known does not matter to the next one.
StreamAligned ==
  pc = "select" /\ InStep =>
    stream = FlattenSeq([i \in 1 .. Len(sent) - messages |-> BytesSent(sent[messages + i])])

\* What is sent, if the receiver understands it.
Fits(m) == Len(m.key) < KeyLenLimit
Understood(m) ==
  /\ Handles(m)
  /\ m.magic = kMagicReq => m.key # <<>> /\ (m.opcode = kOpSet => m.value # <<>>)
ContentOf(n) ==
  LET m == sent[n]
  IN  [n |-> n, class |-> ClassOf(m), castTo |-> ClassOf(m), key |-> m.key,
       flags |-> m.flags, expires |-> m.expires, value |-> m.value, status |-> m.status]

\* As long as no receive has timed out in the middle of a message, the handler
\* has been given exactly the messages it understands, in the order they were
\* sent, with the content they were built from: none is left out, repeated or
\* mixed with another.
HandledAsSent ==
  InStep /\ (\A n \in 1 .. Len(sent) : Fits(sent[n])) =>
    /\ \A i \in 1 .. Len(handled) :
         /\ handled[i].n \in 1 .. messages
         /\ Understood(sent[handled[i].n])
         /\ handled[i] = ContentOf(handled[i].n)
    /\ \A i, j \in 1 .. Len(handled) : i < j => handled[i].n < handled[j].n
    /\ \A n \in 1 .. messages :
         Understood(sent[n]) => \E i \in 1 .. Len(handled) : handled[i].n = n

\* Even a request that was cut off is stored, if at all, under its own key and
\* with its own flags; only the end of its value may be missing.
CutOnlyInValue ==
  role = "server" =>
    \A i \in {j \in 1 .. Len(handled) : handled[j].n # 0} :
      LET got == handled[i]
          m == sent[got.n]
      IN  Fits(m) =>
            /\ got.key = m.key /\ got.flags = m.flags /\ got.expires = m.expires
            /\ Len(got.value) = Len(m.value)
            /\ \A j \in 1 .. Len(m.value) : got.value[j] \in {m.value[j], Junk}

\* The reply to the i-th request as a client parses it.
Reply(i) ==
  Parse(IF handled[i].class = "GetRequest" THEN "GetResponse" ELSE "SetResponse",
        WriteBytes(NewBuffer(Len(replies[i])), replies[i]))

\* Every request is answered, in order, with what was stored: a Get with the
\* flags and the value of the last Set of its key, or with "not found" if there
\* was none.
AnswersCurrent ==
  role = "server" =>
    /\ Len(replies) = Len(handled)
    /\ \A i \in 1 .. Len(replies) :
         LET sets == {j \in 1 .. i - 1 : /\ handled[j].class = "SetRequest"
                                         /\ handled[j].key = handled[i].key}
         IN  /\ Reply(i).ok
             /\ IF handled[i].class = "GetRequest"
                THEN IF sets = {} THEN Reply(i).status = kResKeyNotFound
                     ELSE /\ Reply(i).status = kResNoError
                          /\ Reply(i).flags = handled[Max(sets)].flags
                          /\ Reply(i).value = handled[Max(sets)].value
                ELSE Reply(i).status = kResNoError

\* MemcacheSocket.cpp:305, "now that we have read the entire message into our
\* read buffer": no value is handled with bytes that nobody sent.
WholeMessagesOnly ==
  \A i \in 1 .. Len(handled) : \A j \in 1 .. Len(handled[i].value) : handled[i].value[j] # Junk
==============================================================================
