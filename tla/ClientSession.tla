--------------------------- MODULE ClientSession ---------------------------
(***************************************************************************)
(* Clients and the server over their connections: MemcacheClient.cpp, the  *)
(* reading side of MemcacheSocket.cpp and MemcacheServer's handler.        *)
(*                                                                         *)
(* A client has one connection at a time, in order and without loss until  *)
(* it breaks; Connect opens a new one, while the server's select thread of *)
(* the old one may still have requests to work off.  Either side waits at  *)
(* most one second (SO_RCVTIMEO) for the next bytes.  A time-out in the    *)
(* middle of a message (module Framing has it byte by byte) cuts it: the   *)
(* reader goes on with what there is of it, and from then on is out of     *)
(* step: it takes for messages what nobody has sent, whatever it may be.   *)
(* Messages carry no number in the code (Opaque is not used): the field n  *)
(* of a request or reply is there for the properties only; it is 0 when a  *)
(* message is nobody's.  The cache lock is taken at its word: a Get or Set *)
(* on the map is one step.  Flags travel with the value and are left out.  *)
(***************************************************************************)
EXTENDS Naturals, Sequences, FiniteSets

CONSTANTS Clients, Keys, Values,
          NoValue,   \* the value of length zero, or none
          Garbled,   \* stands for any value that was cut or read out of step
          MaxCalls,  \* bound: the calls each client makes
          MaxConns,  \* bound: the connections each client opens
          MaxOpened, \* bound: the connections all clients open together
          MaxCuts,   \* bound: how many connections get out of step
          Careful    \* do the callers reconnect after a call that fails?

ASSUME BoundsAssumption == {MaxCalls, MaxConns, MaxOpened, MaxCuts} \subseteq Nat
ASSUME ValuesAssumption == /\ NoValue \notin Values \cup {Garbled} /\ Garbled \notin Values
                           /\ Careful \in BOOLEAN

Connections == Clients \X (0 .. MaxConns)

VARIABLES
  phase,     \* "idle", "reading" (in a call), or "spinning" in ReadMessage
  call,      \* the client's current or last request
  connected, \* _socket is there and connected
  conn,      \* which of its connections the client uses; 0 before the first
  broken,    \* the connections the server has closed
  requests,  \* per connection, the requests the server has not read
  replies,   \* per client, the replies it has not read, on its connection
  requestsCut, \* the connections on which the server is out of step: what it has
               \* to read there is not in requests any more
  repliesCut,  \* the connections on which the client is, or on which it gets
               \* replies to nobody's requests: they are not in replies
  readMsg,   \* _readMsg: the last message received and not consumed
  outcome,   \* what the last call returned, and the number of the reply used
  timedOut,  \* a call on this connection gave up waiting (history)
  dataMap    \* _dataMap

cuts == <<requestsCut, repliesCut>>
vars == <<phase, call, connected, conn, broken, requests, replies, cuts, readMsg,
          outcome, timedOut, dataMap>>

Current(c) == <<c, conn[c]>>
Opened == {x \in Connections : x[2] \in 1 .. conn[x[1]]}

NoRequest == [n |-> 0, op |-> "none", key |-> NoValue, value |-> NoValue]
NoMessage == [n |-> 0, op |-> "none", ok |-> FALSE, value |-> NoValue]
Failed    == [n |-> 0, ok |-> FALSE, value |-> NoValue]

\* What is read out of step: any message, but nobody's.  Only a Get that succeeds
\* looks at the value.
Garbage == {m \in [n : {0}, op : {"get", "set"}, ok : BOOLEAN, value : {NoValue, Garbled}] :
              m.value = Garbled <=> m.op = "get" /\ m.ok}

MayCut == Cardinality(requestsCut) + Cardinality(repliesCut) < MaxCuts

\* SetRequest::Parse refuses a message without a value.
Parse(req) == req.op = "set" => req.value # NoValue

Init ==
  /\ phase = [c \in Clients |-> "idle"]
  /\ call = [c \in Clients |-> NoRequest]
  /\ connected = [c \in Clients |-> FALSE]
  /\ conn = [c \in Clients |-> 0]
  /\ broken = {}
  /\ requests = [x \in Connections |-> <<>>]
  /\ replies = [c \in Clients |-> <<>>]
  /\ requestsCut = {} /\ repliesCut = {}
  /\ readMsg = [c \in Clients |-> NoMessage]
  /\ outcome = [c \in Clients |-> Failed]
  /\ timedOut = [c \in Clients |-> FALSE]
  /\ dataMap = [k \in Keys |-> NoValue]
-----------------------------------------------------------------------------
(* MemcacheClient *)

\* Mistake: the message read last survives the new connection.
ConnectKeepsMessage(c) ==
  /\ phase[c] = "idle" /\ conn[c] < MaxConns /\ Cardinality(Opened) < MaxOpened
  /\ conn' = [conn EXCEPT ![c] = @ + 1]
  /\ connected' = [connected EXCEPT ![c] = TRUE]
  /\ replies' = [replies EXCEPT ![c] = <<>>]
  /\ timedOut' = [timedOut EXCEPT ![c] = FALSE]
  /\ UNCHANGED <<phase, call, broken, requests, cuts, readMsg, outcome, dataMap>>

\* Connect: Disconnect, which forgets the last message, and open a connection.
Connect(c) ==
  /\ phase[c] = "idle" /\ conn[c] < MaxConns /\ Cardinality(Opened) < MaxOpened
  /\ conn' = [conn EXCEPT ![c] = @ + 1]
  /\ connected' = [connected EXCEPT ![c] = TRUE]
  /\ replies' = [replies EXCEPT ![c] = <<>>]
  /\ readMsg' = [readMsg EXCEPT ![c] = NoMessage]
  /\ timedOut' = [timedOut EXCEPT ![c] = FALSE]
  /\ UNCHANGED <<phase, call, broken, requests, cuts, outcome, dataMap>>

\* Disconnect closes the socket and forgets the last message; so does Connect when
\* it cannot open a connection.
Disconnect(c) ==
  /\ phase[c] = "idle" /\ connected[c]
  /\ connected' = [connected EXCEPT ![c] = FALSE]
  /\ replies' = [replies EXCEPT ![c] = <<>>]
  /\ readMsg' = [readMsg EXCEPT ![c] = NoMessage]
  /\ UNCHANGED <<phase, call, conn, broken, requests, cuts, outcome, timedOut, dataMap>>

\* Get and Set, up to SendBuiltMessage: the request goes out; or it goes
\* nowhere, because there is no connection or send finds it broken.  A server out
\* of step does not find it.
Call(c) ==
  /\ phase[c] = "idle" /\ call[c].n < MaxCalls
  /\ \E op \in {"get", "set"}, key \in Keys, value \in Values \cup {NoValue} :
       /\ op = "get" => value = NoValue
       /\ LET req == [n |-> call[c].n + 1, op |-> op, key |-> key, value |-> value]
          IN  /\ call' = [call EXCEPT ![c] = req]
              /\ \/ /\ connected[c]
                    /\ phase' = [phase EXCEPT ![c] = "reading"]
                    /\ requests' = IF Current(c) \in broken \cup requestsCut THEN requests
                         ELSE [requests EXCEPT ![Current(c)] = Append(@, req)]
                    /\ UNCHANGED outcome
                 \/ /\ ~ connected[c] \/ Current(c) \in broken
                    /\ outcome' = [outcome EXCEPT ![c] = Failed]
                    /\ UNCHANGED <<phase, requests>>
  /\ UNCHANGED <<connected, conn, broken, replies, cuts, readMsg, timedOut, dataMap>>

\* Mistake: a message that has been used is not reset.
FinishKeepsMessage(c, m) ==
  /\ phase' = [phase EXCEPT ![c] = "idle"]
  /\ outcome' = [outcome EXCEPT ![c] =
                   IF m.op = call[c].op
                   THEN [n |-> m.n, ok |-> m.ok, value |-> m.value] ELSE Failed]
  /\ readMsg' = [readMsg EXCEPT ![c] = m]

\* The end of Get or Set, with message m in _readMsg: a message of the type the
\* call expects is consumed, any other one stays.
Finish(c, m) ==
  /\ phase' = [phase EXCEPT ![c] = "idle"]
  /\ IF m.op = call[c].op
     THEN /\ outcome' = [outcome EXCEPT ![c] =
                           [n |-> m.n, ok |-> m.ok, value |-> m.value]]
          /\ readMsg' = [readMsg EXCEPT ![c] = NoMessage]
     ELSE /\ outcome' = [outcome EXCEPT ![c] = Failed]
          /\ readMsg' = [readMsg EXCEPT ![c] = m]

\* Mistake: the reply is peeked at and stays on the connection.
ReadReplyPeeks(c) ==
  /\ phase[c] = "reading" /\ replies[c] # <<>>
  /\ Finish(c, Head(replies[c]))
  /\ UNCHANGED <<call, connected, conn, broken, requests, replies, cuts, timedOut,
                 dataMap>>

\* ReadMessage reads a reply, and OnReceivedMessage copies it to _readMsg.
ReadReply(c) ==
  /\ phase[c] = "reading" /\ replies[c] # <<>>
  /\ Finish(c, Head(replies[c]))
  /\ replies' = [replies EXCEPT ![c] = Tail(@)]
  /\ UNCHANGED <<call, connected, conn, broken, requests, cuts, timedOut, dataMap>>

\* The client gets out of step on its connection.
LoseStep(c) ==
  /\ replies[c] # <<>> /\ MayCut
  /\ replies' = [replies EXCEPT ![c] = <<>>]
  /\ repliesCut' = repliesCut \cup {Current(c)}
  /\ UNCHANGED requestsCut

\* A reply of which the end is missing.
CutOff(m) == IF m.ok THEN [m EXCEPT !.value = Garbled] ELSE m

\* recv fails in the body of a reply (a SetResponse has none): the loop is left,
\* and what there is of the reply is parsed and handed over like a whole one.
ReadCutReply(c) ==
  /\ phase[c] = "reading" /\ LoseStep(c)
  /\ LET m == Head(replies[c])
     IN  /\ m.op = "get"
         /\ Finish(c, CutOff(m))
  /\ UNCHANGED <<call, connected, conn, broken, requests, timedOut, dataMap>>

\* Out of step: the header may be anything, and so may the message; or it is none
\* that is understood, and the call goes on with the message it had.
ReadGarbage(c) ==
  /\ phase[c] = "reading" /\ Current(c) \in repliesCut
  /\ \E m \in Garbage \cup {readMsg[c]} : Finish(c, m)
  /\ UNCHANGED <<call, connected, conn, broken, requests, replies, cuts, timedOut,
                 dataMap>>

\* Mistake: the socket has no receive timeout.
ReadFailsOnlyBroken(c) ==
  /\ phase[c] = "reading" /\ replies[c] = <<>> /\ Current(c) \in broken
  /\ Finish(c, readMsg[c])
  /\ timedOut' = [timedOut EXCEPT ![c] = TRUE]
  /\ UNCHANGED <<call, connected, conn, broken, requests, replies, cuts, dataMap>>

\* recv fails in the header, after one second of silence or on a reset
\* connection: the call goes on with the message it had.  What has been received
\* of a header is dropped, and the rest of the reply is read out of step.
ReadFails(c) ==
  /\ phase[c] = "reading"
  /\ Finish(c, readMsg[c])
  /\ timedOut' = [timedOut EXCEPT ![c] = TRUE]
  /\ LoseStep(c) \/ UNCHANGED <<replies, cuts>>
  /\ UNCHANGED <<call, connected, conn, broken, requests, dataMap>>

\* recv returns 0 on a connection the server has closed: the loop over the
\* header never ends.
ReadNothing(c) ==
  /\ phase[c] = "reading" /\ replies[c] = <<>> /\ Current(c) \in broken
  /\ phase' = [phase EXCEPT ![c] = "spinning"]
  /\ UNCHANGED <<call, connected, conn, broken, requests, replies, cuts, readMsg,
                 outcome, timedOut, dataMap>>
-----------------------------------------------------------------------------
(* The server's select thread of connection x *)

\* Mistake: insert instead of operator[], which does not replace an entry.
PerformInsert(req) ==
  IF req.op = "set" /\ dataMap[req.key] = NoValue
  THEN [dataMap EXCEPT ![req.key] = req.value] ELSE dataMap

\* Mistake: the message is stored, not its value.
PerformWhole(req) == IF req.op = "set" THEN [dataMap EXCEPT ![req.key] = req]
                     ELSE dataMap

\* OnReceivedMessage: the new map and the reply for a request.
Perform(req) == IF req.op = "set" THEN [dataMap EXCEPT ![req.key] = req.value]
                ELSE dataMap
ReplyTo(req) ==
  IF req.op = "get"
  THEN [n |-> req.n, op |-> "get", ok |-> dataMap[req.key] # NoValue,
        value |-> dataMap[req.key]]
  ELSE [n |-> req.n, op |-> "set", ok |-> TRUE, value |-> NoValue]

\* The replies when one to req is sent on connection x.  Nobody reads it if the
\* client has left, and not as what it is if the client is out of step.
Replied(x, req) ==
  IF x = Current(x[1]) /\ connected[x[1]] /\ x \notin repliesCut
  THEN [replies EXCEPT ![x[1]] = Append(@, ReplyTo(req))] ELSE replies

\* Read the next request, handle it and send the reply; a request that does not
\* parse gets none.
Serve(x) ==
  /\ x \notin broken /\ requests[x] # <<>>
  /\ requests' = [requests EXCEPT ![x] = Tail(@)]
  /\ LET req == Head(requests[x])
     IN  \/ /\ Parse(req)
            /\ dataMap' = Perform(req)
            /\ replies' = Replied(x, req)
         \/ /\ ~ Parse(req)
            /\ UNCHANGED <<dataMap, replies>>
  /\ UNCHANGED <<phase, call, connected, conn, broken, cuts, readMsg, outcome, timedOut>>

\* recv fails in the body of a request, and the loop is left.  A Set with a
\* complete key is stored with what there is of its value, and answered; a key
\* that is not complete does not parse.
ServeCutRequest(x) ==
  /\ x \notin broken /\ requests[x] # <<>> /\ MayCut
  /\ requests' = [requests EXCEPT ![x] = <<>>]
  /\ requestsCut' = requestsCut \cup {x}
  /\ LET req == Head(requests[x])
     IN  \/ /\ req.op = "set" /\ Parse(req)
            /\ dataMap' = [dataMap EXCEPT ![req.key] = Garbled]
            /\ replies' = Replied(x, req)
         \/ UNCHANGED <<dataMap, replies>>
  /\ UNCHANGED <<phase, call, connected, conn, broken, repliesCut, readMsg, outcome,
                 timedOut>>

\* Out of step, the server may find any request, and answers it.
ServeGarbage(x) ==
  /\ x \in requestsCut \ broken
  /\ dataMap' \in {dataMap} \cup {[dataMap EXCEPT ![key] = Garbled] : key \in Keys}
  /\ replies' = IF x = Current(x[1]) THEN [replies EXCEPT ![x[1]] = <<>>] ELSE replies
  /\ repliesCut' = repliesCut \cup {x}
  /\ UNCHANGED <<phase, call, connected, conn, broken, requests, requestsCut, readMsg,
                 outcome, timedOut>>

\* The server closes the connection, as Shutdown does, or when it has peeked fewer
\* bytes than a header, with requests unread and perhaps (when the close resets
\* the connection) replies undelivered.
HangUp(x) ==
  /\ x \in Opened \ broken
  /\ broken' = broken \cup {x}
  /\ requests' = [requests EXCEPT ![x] = <<>>]
  /\ replies' \in {replies} \cup
       {[replies EXCEPT ![c] = <<>>] : c \in {d \in Clients : x = Current(d)}}
  /\ UNCHANGED <<phase, call, connected, conn, cuts, readMsg, outcome, timedOut, dataMap>>
-----------------------------------------------------------------------------
\* Callers who reconnect whenever a call fails do not call again on a connection
\* on which one went without a reply.  (They need not be that careful when the
\* server answered that a key is not there.)
Calling(c) == (Careful => ~ timedOut[c]) /\ Call(c)

Reading(c) == \/ ReadReply(c) \/ ReadCutReply(c) \/ ReadGarbage(c)
              \/ ReadFails(c) \/ ReadNothing(c)
Client(c) == \/ Connect(c) \/ Disconnect(c) \/ Calling(c)
             \/ Reading(c)
Server(x) == Serve(x) \/ ServeCutRequest(x) \/ ServeGarbage(x) \/ HangUp(x)

Next == (\E c \in Clients : Client(c)) \/ (\E x \in Connections : Server(x))

Spec == Init /\ [][Next]_vars

\* A client in a call goes on reading; the rest of the world owes nothing.
FairSpec == Spec /\ \A c \in Clients : WF_vars(Reading(c))
-----------------------------------------------------------------------------
(* Properties *)

Requests == [n : 1 .. MaxCalls, op : {"get", "set"}, key : Keys,
             value : Values \cup {NoValue}]
Messages == [n : 1 .. MaxCalls, op : {"get", "set"}, ok : BOOLEAN,
             value : Values \cup {NoValue, Garbled}]

\* Every variable holds a value of its type.
TypeOK ==
  /\ phase \in [Clients -> {"idle", "reading", "spinning"}]
  /\ call \in [Clients -> Requests \cup {NoRequest}]
  /\ connected \in [Clients -> BOOLEAN]
  /\ conn \in [Clients -> 0 .. MaxConns]
  /\ broken \subseteq Connections
  /\ requests \in [Connections -> Seq(Requests)]
  /\ replies \in [Clients -> Seq(Messages)]
  /\ requestsCut \subseteq Connections /\ repliesCut \subseteq Connections
  /\ readMsg \in [Clients -> Messages \cup {NoMessage} \cup Garbage]
  /\ outcome \in [Clients -> [n : 0 .. MaxCalls, ok : BOOLEAN,
                              value : Values \cup {NoValue, Garbled}]]
  /\ timedOut \in [Clients -> BOOLEAN]
  /\ dataMap \in [Keys -> Values \cup {NoValue, Garbled}]

\* MemcacheClient.h:73, "true - data has been set", and :84, "true - entry found
\* on server and data placed in outValue": a call that returns true returns the
\* reply to this call, not the late reply to an earlier one.
TrueMeansThisCall ==
  \A c \in Clients :
    phase[c] = "idle" /\ outcome[c].ok => outcome[c].n = call[c].n

\* A client gets the replies in the order of its calls and never one from
\* before its last Connect mixed with one from after: whatever it has read and
\* not consumed, and whatever is on the way to it, is older than what the
\* server has still to read on that connection, and no newer than the call.
PipelineInOrder ==
  \A c \in Clients :
    LET numbers(q) == [i \in 1 .. Len(q) |-> q[i].n]
        pipe == <<readMsg[c].n>> \o numbers(replies[c]) \o numbers(requests[Current(c)])
    IN  /\ \A i, j \in 1 .. Len(pipe) : i < j => pipe[i] < pipe[j]
        /\ \A i \in 1 .. Len(pipe) : pipe[i] <= call[c].n

\* The reply to another call is used only on a connection on which some call
\* has gone without a reply, or some message has been cut: as long as none has,
\* and right after a Connect, nothing of an earlier call is left over.
StaleOnlyAfterTimeout ==
  \A c \in Clients :
    ~ timedOut[c] /\ connected[c] /\ Current(c) \notin repliesCut =>
      /\ readMsg[c] = NoMessage
      /\ \A m \in {replies[c][i] : i \in 1 .. Len(replies[c])} :
           phase[c] # "idle" /\ m.n = call[c].n

\* No reply is used for two calls.
NoReplyUsedTwice ==
  [][\A c \in Clients :
       phase[c] = "reading" /\ phase'[c] = "idle" /\ outcome'[c].n # 0 =>
         /\ outcome'[c].n # outcome[c].n
         /\ readMsg'[c].n # outcome'[c].n]_vars

\* A call ends, unless the server has closed the connection under it.
CallEnds ==
  \A c \in Clients :
    phase[c] = "reading" ~> (phase[c] = "idle" \/ Current(c) \in broken)

\* With callers who reconnect, the clients and the server implement KVStore:
\* a call that has been answered has its reply in front of it, and the Set
\* calls given up are those in the queues of the server that no client waits
\* for.  A call that returns true and is not the reply to this very call, or not
\* all of it, is that of a client that is out of step with its connection, from
\* the cut reply on and no longer than until it connects again; the store holds
\* what nobody has set only if a request has been cut, and gets more of it no
\* longer than until that connection is closed.
NoAnswer(state) == [state |-> state]
InProgress(c, req) == phase[c] # "idle" /\ req.n = call[c].n
Elements(q) == {q[i] : i \in 1 .. Len(q)}

AnswerOf(c) ==
  IF \E req \in Elements(requests[Current(c)]) : InProgress(c, req)
  THEN NoAnswer("pending")
  ELSE IF \E m \in Elements(replies[c]) : InProgress(c, m)
  THEN LET m == CHOOSE m \in Elements(replies[c]) : InProgress(c, m)
       IN  [ok |-> m.ok, value |-> m.value]
  ELSE NoAnswer("lost")

GivenUp(x) == {<<x[1], req>> : req \in
                {r \in Elements(requests[x]) :
                   r.op = "set" /\ Parse(r) /\ ~ InProgress(x[1], r)}}

Store == INSTANCE KVStore WITH
  CallNumbers <- 1 .. MaxCalls,
  NoCall    <- NoRequest,
  Pending   <- NoAnswer("pending"),
  Lost      <- NoAnswer("lost"),
  store     <- dataMap,
  call      <- [c \in Clients |-> IF phase[c] = "idle" THEN NoRequest ELSE call[c]],
  answer    <- [c \in Clients |-> AnswerOf(c)],
  outcome   <- [c \in Clients |-> [ok |-> outcome[c].ok, value |-> outcome[c].value]],
  unsettled <- UNION {GivenUp(x) : x \in Connections},
  inDoubt   <- {c \in Clients : Current(c) \in repliesCut},
  astray    <- requestsCut \ broken # {}
ImplementsKVStore == Store!Spec
=============================================================================
