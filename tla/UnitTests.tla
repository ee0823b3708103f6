----------------------------- MODULE UnitTests -----------------------------
(***************************************************************************)
(* The repository's own tests of messages and of the request handler       *)
(* (MessageTests.cpp, ServerTests.cpp), asked of the model: each test case *)
(* is an operator, which TLC evaluates to TRUE before it runs the model of *)
(* MCClientSession.                                                        *)
(* They use the sizes of the program, not the small ones of the runs.      *)
(***************************************************************************)
LOCAL INSTANCE Integers
LOCAL INSTANCE Sequences
LOCAL INSTANCE RequestHandler WITH BuildSize <- 2048, KeyLenLimit <- 65536

LOCAL memcache == <<109, 101, 109, 99, 97, 99, 104, 101>>
LOCAL exam == <<101, 120, 97, 109>>
LOCAL DEADBEEF == <<222, 173, 190, 239>>
LOCAL CAFEBABE == <<202, 254, 186, 190>>

\* The pattern, again and again, n times.
LOCAL Repeated(pattern, n) ==
  [i \in 1 .. n * Len(pattern) |-> pattern[((i - 1) % Len(pattern)) + 1]]

\* A buffer that holds bytes.
LOCAL Filled(bytes) == WriteBytes(NewBuffer(Len(bytes)), bytes)

\* The header bytes that the tests lay out by hand.
LOCAL Raw(magic, opcode, keyLen, extrasLen, status, total, cas) ==
  <<magic, opcode, 0, keyLen, extrasLen, 0, 0, status, 0, 0, 0, total>>
    \o Fill(0, 11) \o <<cas>>

\* The header of a message that has been built.
LOCAL Built(m) == ParseHeader(Build(m))

HeaderWriteParse ==
  LET h == [magic |-> 128, opcode |-> 30, keyLen |-> 20, extrasLen |-> 50, dataType |-> 4,
            status |-> 2048, total |-> 65535, opaque |-> <<0, 0, 1, 0>>,
            cas |-> <<17, 34, 51, 68, 85, 102, 119, 136>>]
  IN  Len(HeaderBytes(h)) = HeaderSize /\ ParseHeader(Filled(HeaderBytes(h))) = h

HeaderByteOrder ==
  ParseHeader(Filled(<<128, 10, 17, 34, 5, 16, 51, 68, 17, 34, 51, 68, 17, 34, 51, 68,
                       17, 34, 51, 68, 85, 102, 119, 136>>)) =
    [magic |-> 128, opcode |-> 10, keyLen |-> 4386, extrasLen |-> 5, dataType |-> 16,
     status |-> 13124, total |-> 287454020, opaque |-> <<17, 34, 51, 68>>,
     cas |-> <<17, 34, 51, 68, 85, 102, 119, 136>>]

GetRequestParse ==
  LET p == Parse("GetRequest", Filled(Raw(kMagicReq, kOpGet, 8, 0, 0, 8, 0) \o memcache))
  IN  p.ok /\ p.key = memcache

\* A wrong magic number, a wrong opcode, no key.
GetRequestFailedParse ==
  \A h \in {Raw(kMagicRes, kOpGet, 8, 0, 0, 8, 0), Raw(kMagicReq, kOpSet, 8, 0, 0, 8, 0),
            Raw(kMagicReq, kOpGet, 0, 0, 0, 8, 0)} :
    ~ Parse("GetRequest", Filled(h \o memcache)).ok

GetRequestBuild ==
  LET h == Built(Request(kOpGet, <<>>, <<>>, memcache, <<>>))
  IN  h.magic = kMagicReq /\ h.opcode = kOpGet /\ h.extrasLen = 0 /\ h.keyLen = Len(memcache)

GetResponseParse ==
  LET p == Parse("GetResponse",
             Filled(Raw(kMagicRes, kOpGet, 8, 4, 1, 16, 0) \o DEADBEEF \o memcache \o exam))
  IN  p.ok /\ p.flags = DEADBEEF /\ p.value = exam /\ p.status = kResKeyNotFound

GetResponseBuild ==
  LET value == Repeated(exam, 512)
      h == Built([Response(kOpGet, 0, DEADBEEF, value) EXCEPT !.key = memcache])
  IN  /\ h.magic = kMagicRes /\ h.opcode = kOpGet /\ h.extrasLen = 4
      /\ h.keyLen = Len(memcache) /\ h.total = Len(value) + h.keyLen + h.extrasLen

SetRequestParse ==
  LET p == Parse("SetRequest", Filled(Raw(kMagicReq, kOpSet, 8, 8, 0, 20, 0)
                                      \o DEADBEEF \o CAFEBABE \o memcache \o exam))
  IN  p.ok /\ p.flags = DEADBEEF /\ p.expires = CAFEBABE /\ p.value = exam

SetRequestBuild ==
  LET value == Repeated(exam, 512)
      h == Built(Request(kOpSet, DEADBEEF, CAFEBABE, memcache, value))
  IN  /\ h.magic = kMagicReq /\ h.opcode = kOpSet /\ h.extrasLen = 8
      /\ h.keyLen = Len(memcache) /\ h.total = Len(value) + h.keyLen + h.extrasLen

LOCAL kResOutOfMem == 130

SetResponseParse ==
  LET b == Filled(Raw(kMagicRes, kOpSet, 0, 0, kResOutOfMem, 0, 1))
      h == ParseHeader(b)
  IN  /\ Parse("SetResponse", b).ok
      /\ h.magic = kMagicRes /\ h.opcode = kOpSet /\ h.status = kResOutOfMem
      /\ h.cas = <<0, 0, 0, 0, 0, 0, 0, 1>>
      /\ h.keyLen = 0 /\ h.extrasLen = 0 /\ h.total = 0

SetResponseBuild ==
  LET h == Built(Response(kOpSet, kResOutOfMem, <<>>, <<>>))
  IN  /\ h.magic = kMagicRes /\ h.opcode = kOpSet /\ h.status = kResOutOfMem
      /\ h.keyLen = 0 /\ h.extrasLen = 0 /\ h.total = 0

\* The client of ServerTests.cpp calls the handler with the object it has built.
LOCAL Reply(map, m) == ReplyTo(map, Built(m), m)
LOCAL After(map, m) == Stored(map, Built(m), m)
LOCAL SetData(key, buffer) == Request(kOpSet, DEADBEEF, Fill(Junk, 4), key,
                                ReadAllBytes(Assign(NewBuffer(0), buffer)))
LOCAL GetData(key) == Request(kOpGet, <<>>, <<>>, key, <<>>)

SimpleSetGet ==
  LET value1 == Filled(Repeated(DEADBEEF, 256))
      value2 == Filled(Repeated(CAFEBABE, 256))
      set1 == SetData(<<1>>, value1)
      set2 == SetData(<<2>>, value2)
      map1 == After(<<>>, set1)
      map2 == After(map1, set2)
  IN  /\ Reply(<<>>, set1).status = kResNoError
      /\ Reply(map1, set2).status = kResNoError
      /\ Reply(map2, GetData(<<1>>)).value = ReadAllBytes(value1)
      /\ Reply(map2, GetData(<<2>>)).value = ReadAllBytes(value2)

ASSUME MessageTests ==
  /\ HeaderWriteParse /\ HeaderByteOrder
  /\ GetRequestParse /\ GetRequestFailedParse /\ GetRequestBuild
  /\ GetResponseParse /\ GetResponseBuild
  /\ SetRequestParse /\ SetRequestBuild
  /\ SetResponseParse /\ SetResponseBuild
ASSUME ServerTests == SimpleSetGet
=============================================================================
