--------------------------- MODULE RequestHandler ---------------------------
(***************************************************************************)
(* MemcacheServer::OnReceivedMessage: what a request that has been parsed  *)
(* does to the cache and what the reply to it is.  The cache, _dataMap, is *)
(* a function from the keys it holds to their flags and values; h is the   *)
(* header of the request and p what its Parse has found.  (Every entry has *)
(* a buffer, so that kResNotStored is never returned.  That two handlers   *)
(* may run at a time is the matter of CacheAccess.)                        *)
(***************************************************************************)
EXTENDS Messages

\* Set: the entry of the key, new or not, gets the flags and a copy of the value.
Stored(map, h, p) ==
  IF h.opcode = kOpSet
  THEN [k \in DOMAIN map \cup {p.key} |->
          IF k = p.key THEN [flags |-> p.flags, value |-> p.value] ELSE map[k]]
  ELSE map

\* Mistake: the flags are not put into the response to a Get.
ReplyWithoutFlags(map, h, p) ==
  CASE h.opcode = kOpSet -> Response(kOpSet, kResNoError, <<>>, <<>>)
    [] h.opcode = kOpGet /\ p.key \in DOMAIN map ->
         Response(kOpGet, kResNoError, Fill(0, 4), map[p.key].value)
    [] OTHER -> Response(kOpGet, kResKeyNotFound, Fill(0, 4), <<>>)

\* The reply, given the cache before the request.
ReplyTo(map, h, p) ==
  CASE h.opcode = kOpSet -> Response(kOpSet, kResNoError, <<>>, <<>>)
    [] h.opcode = kOpGet /\ p.key \in DOMAIN map ->
         Response(kOpGet, kResNoError, map[p.key].flags, map[p.key].value)
    [] OTHER -> Response(kOpGet, kResKeyNotFound, Fill(0, 4), <<>>)
=============================================================================
