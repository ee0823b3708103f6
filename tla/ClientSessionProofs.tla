------------------------ MODULE ClientSessionProofs ------------------------
(***************************************************************************)
(* Proofs about ClientSession for any number of clients, keys, values,     *)
(* calls and connections.  The inductive invariant follows the numbers of  *)
(* the requests and replies along a connection, as long as nothing is cut  *)
(* on it; with it every step of the clients and the server is a step of    *)
(* KVStore or a stutter, if callers reconnect after a call that went       *)
(* without an answer.                                                      *)
(***************************************************************************)
EXTENDS ClientSession, SequenceTheorems, TLAPS

\* The requests on a client's k-th connection, and on the one it uses.
Queue(c, k) == requests[<<c, k>>]
CurrentQueue(c) == Queue(c, conn[c])

Rising(q) == \A i, j \in 1 .. Len(q) : i < j => q[i].n < q[j].n

\* Requests stay in the order of the calls, on one connection and from one
\* connection to the next; the last call's request can only be on the
\* connection in use while the call is in progress.
QueuesOrdered(c) ==
  /\ \A k \in 0 .. MaxConns :
       /\ Rising(Queue(c, k))
       /\ k = 0 \/ k > conn[c] => Queue(c, k) = <<>>
       /\ \A r \in Elements(Queue(c, k)) :
            /\ r.n <= call[c].n
            /\ r.n = call[c].n => r = call[c] /\ (phase[c] # "idle" => k = conn[c])
  /\ \A k, l \in 0 .. MaxConns : k < l =>
       \A r \in Elements(Queue(c, k)), s \in Elements(Queue(c, l)) : r.n < s.n

\* The same holds for what comes back on the connection in use.
RepliesOrdered(c) ==
  /\ Rising(replies[c])
  /\ readMsg[c].n <= call[c].n
  /\ \A m \in Elements(replies[c]) :
       /\ readMsg[c].n < m.n /\ m.n <= call[c].n
       /\ m.n = call[c].n => m.op = call[c].op
       /\ \A r \in Elements(CurrentQueue(c)) : m.n < r.n
  /\ \A r \in Elements(CurrentQueue(c)) : readMsg[c].n < r.n

\* What the last call has used is older than all that is left, or nobody's.
UsedOnce(c) ==
  /\ outcome[c].n <= call[c].n
  /\ readMsg[c].n # 0 => outcome[c].n < readMsg[c].n
  /\ \A m \in Elements(replies[c]) : outcome[c].n < m.n
  /\ \A r \in Elements(CurrentQueue(c)) : outcome[c].n < r.n

\* Is the client out of step on its connection?  There are no replies on it then.
OutOfStep(c) == Current(c) \in repliesCut

Strays(c) ==
  /\ OutOfStep(c) => replies[c] = <<>>
  /\ \A k \in 0 .. MaxConns : <<c, k>> \in requestsCut \cup repliesCut => k <= conn[c]

\* A connection in step without a timeout holds nothing but the call in progress.
Fresh(c) ==
  ~ timedOut[c] /\ connected[c] /\ ~ OutOfStep(c) =>
    /\ readMsg[c] = NoMessage
    /\ \A m \in Elements(replies[c]) : phase[c] # "idle" /\ m.n = call[c].n
    /\ \A r \in Elements(CurrentQueue(c)) : phase[c] # "idle" /\ r.n = call[c].n

InCall(c) ==
  /\ phase[c] # "idle" => connected[c] /\ call[c] \in Requests
  /\ connected[c] => conn[c] > 0
  /\ Careful /\ phase[c] # "idle" => ~ timedOut[c]

CInv(c) == /\ QueuesOrdered(c) /\ RepliesOrdered(c) /\ UsedOnce(c) /\ Fresh(c) /\ InCall(c)
           /\ Strays(c)

IInv == TypeOK /\ \A c \in Clients : CInv(c)
-----------------------------------------------------------------------------
(* Queues *)

LEMMA Emptied == Elements(<<>>) = {} /\ Rising(<<>>)
BY DEF Elements, Rising

LEMMA Appended ==
  ASSUME NEW S, NEW q \in Seq(S), NEW e \in S
  PROVE  /\ Append(q, e) \in Seq(S)
         /\ Elements(Append(q, e)) = Elements(q) \cup {e}
         /\ Rising(q) /\ (\A x \in Elements(q) : x.n < e.n) => Rising(Append(q, e))
<1> DEFINE a == Append(q, e)
<1>1. /\ a \in Seq(S) /\ Len(q) \in Nat /\ Len(a) = Len(q) + 1
      /\ \A i \in 1 .. Len(q) : a[i] = q[i]
      /\ a[Len(q) + 1] = e
  BY AppendProperties
<1> HIDE DEF a
<1>2. Elements(a) = Elements(q) \cup {e}
  BY <1>1 DEF Elements
<1>3. Rising(q) /\ (\A x \in Elements(q) : x.n < e.n) => Rising(a)
  <2> SUFFICES ASSUME Rising(q), \A x \in Elements(q) : x.n < e.n,
                      NEW i \in 1 .. Len(a), NEW j \in 1 .. Len(a), i < j
               PROVE  a[i].n < a[j].n
    BY DEF Rising
  <2>1. i \in 1 .. Len(q) /\ a[i] = q[i] /\ q[i] \in Elements(q)
    BY <1>1 DEF Elements
  <2>2. CASE j = Len(q) + 1
    BY <1>1, <2>1, <2>2
  <2>3. CASE j # Len(q) + 1
    BY <1>1, <2>1, <2>3 DEF Rising
  <2> QED BY <2>2, <2>3
<1> QED BY <1>1, <1>2, <1>3 DEF a

LEMMA Tailed ==
  ASSUME NEW S, NEW q \in Seq(S), q # <<>>
  PROVE  /\ Tail(q) \in Seq(S) /\ Head(q) \in S
         /\ Elements(q) = {Head(q)} \cup Elements(Tail(q))
         /\ Rising(q) => /\ Rising(Tail(q))
                         /\ \A e \in Elements(Tail(q)) : Head(q).n < e.n
<1> DEFINE t == Tail(q)
<1>1. /\ t \in Seq(S) /\ Head(q) \in S /\ Head(q) = q[1]
      /\ Len(q) \in Nat \ {0} /\ Len(t) = Len(q) - 1
      /\ \A i \in 1 .. Len(t) : t[i] = q[i + 1]
  BY HeadTailProperties, EmptySeq
<1> HIDE DEF t
<1>2. Elements(q) = {Head(q)} \cup Elements(t)
  <2>1. ASSUME NEW e \in Elements(q) PROVE e \in {Head(q)} \cup Elements(t)
    <3>1. PICK i \in 1 .. Len(q) : e = q[i]
      BY DEF Elements
    <3>2. i # 1 => i - 1 \in 1 .. Len(t) /\ t[i - 1] = q[i]
      BY <1>1
    <3> QED BY <1>1, <3>1, <3>2 DEF Elements
  <2>2. Head(q) \in Elements(q) /\ Elements(t) \subseteq Elements(q)
    BY <1>1 DEF Elements
  <2> QED BY <2>1, <2>2
<1>3. Rising(q) => Rising(t)
  BY <1>1 DEF Rising
<1>4. ASSUME Rising(q), NEW e \in Elements(t) PROVE Head(q).n < e.n
  <2>1. PICK i \in 1 .. Len(t) : e = t[i]
    BY DEF Elements
  <2>2. 1 \in 1 .. Len(q) /\ i + 1 \in 1 .. Len(q) /\ 1 < i + 1
    BY <1>1
  <2>3. q[1].n < q[i + 1].n
    BY <1>4, <2>2 DEF Rising
  <2> QED BY <1>1, <2>1, <2>3
<1> QED BY <1>1, <1>2, <1>3, <1>4 DEF t

LEMMA ElementsOfType == \A S : \A q \in Seq(S) : Elements(q) \subseteq S
BY DEF Elements
-----------------------------------------------------------------------------
(* The types *)

LEMMA InitTypeOK == Init => TypeOK
<1> SUFFICES ASSUME Init PROVE TypeOK
  OBVIOUS
<1>1. <<>> \in Seq(Requests) /\ <<>> \in Seq(Messages)
  BY EmptySeq
<1> QED BY <1>1, BoundsAssumption DEF Init, TypeOK, NoMessage, Failed

Outcomes == [n : 0 .. MaxCalls, ok : BOOLEAN, value : Values \cup {NoValue, Garbled}]

LEMMA FailedIsOutcome == Failed \in Outcomes
BY BoundsAssumption DEF Failed, Outcomes

LEMMA CurrentIsConnection ==
  ASSUME TypeOK
  PROVE  \A c \in Clients : Current(c) \in Connections
BY DEF TypeOK, Current, Connections

LEMMA FinishTypes ==
  ASSUME TypeOK, NEW c \in Clients, NEW m \in Messages \cup {NoMessage} \cup Garbage, Finish(c, m)
  PROVE  /\ phase' \in [Clients -> {"idle", "reading", "spinning"}]
         /\ readMsg' \in [Clients -> Messages \cup {NoMessage} \cup Garbage]
         /\ outcome' \in [Clients -> Outcomes]
<1> DEFINE o == [n |-> m.n, ok |-> m.ok, value |-> m.value]
<1>1. o \in Outcomes
  <2>1. CASE m = NoMessage
    BY <2>1, BoundsAssumption DEF NoMessage, Outcomes
  <2>2. CASE m \in Messages
    <3>1. m.n \in 1 .. MaxCalls /\ m.ok \in BOOLEAN /\ m.value \in Values \cup {NoValue, Garbled}
      BY <2>2 DEF Messages
    <3>2. m.n \in 0 .. MaxCalls
      BY <3>1, BoundsAssumption
    <3> QED BY <3>1, <3>2 DEF Outcomes
  <2>3. CASE m \in Garbage
    BY <2>3, BoundsAssumption DEF Garbage, Outcomes
  <2> QED BY <2>1, <2>2, <2>3
<1>2. outcome \in [Clients -> Outcomes]
  BY DEF TypeOK, Outcomes
<1>3. outcome' \in {[outcome EXCEPT ![c] = o], [outcome EXCEPT ![c] = Failed]}
  BY DEF Finish
<1> HIDE DEF o
<1>4. outcome' \in [Clients -> Outcomes]
  BY <1>1, <1>2, <1>3, FailedIsOutcome
<1> QED BY <1>4 DEF Finish, TypeOK

LEMMA RequestsGrow ==
  ASSUME TypeOK
  PROVE  \A x \in Connections, req \in Requests : Append(requests[x], req) \in Seq(Requests)
<1>1. \A x \in Connections : requests[x] \in Seq(Requests)
  BY DEF TypeOK
<1> QED BY <1>1, AppendProperties

LEMMA RepliesGrow ==
  ASSUME TypeOK, NEW x \in Connections, NEW req, ReplyTo(req) \in Messages
  PROVE  Replied(x, req) \in [Clients -> Seq(Messages)]
<1>1. x[1] \in Clients /\ replies \in [Clients -> Seq(Messages)]
  BY DEF Connections, TypeOK
<1>2. Append(replies[x[1]], ReplyTo(req)) \in Seq(Messages)
  BY <1>1, AppendProperties
<1> QED BY <1>1, <1>2 DEF Replied

LEMMA StepTypeOK ==
  ASSUME TypeOK, Next
  PROVE  TypeOK'
<1> USE BoundsAssumption DEF TypeOK
<1>1. ASSUME NEW c \in Clients, Connect(c) PROVE TypeOK'
  <2>1. <<>> \in Seq(Messages) /\ conn[c] + 1 \in 0 .. MaxConns
    BY <1>1, EmptySeq DEF Connect
  <2> QED BY <1>1, <2>1 DEF Connect, cuts
<1>2. ASSUME NEW c \in Clients, Disconnect(c) PROVE TypeOK'
  <2>1. <<>> \in Seq(Messages)
    BY EmptySeq
  <2> QED BY <1>2, <2>1 DEF Disconnect, cuts
<1>3. ASSUME NEW c \in Clients, Call(c) PROVE TypeOK'
  <2>1. PICK req : /\ req \in Requests /\ call' = [call EXCEPT ![c] = req]
                   /\ requests' \in {requests, [requests EXCEPT ![Current(c)] = Append(@, req)]}
                   /\ phase' \in {phase, [phase EXCEPT ![c] = "reading"]}
                   /\ outcome' \in {outcome, [outcome EXCEPT ![c] = Failed]}
    <3>1. call[c].n \in Nat /\ call[c].n < MaxCalls
      BY <1>3 DEF Call, Requests, NoRequest
    <3>2. call[c].n + 1 \in 1 .. MaxCalls
      BY <3>1
    <3> QED BY <1>3, <3>2, ZenonT(30) DEF Call, Requests
  <2>2. Current(c) \in Connections => Append(requests[Current(c)], req) \in Seq(Requests)
    BY <2>1, RequestsGrow
  <2>3. outcome' \in [Clients -> Outcomes]
    <3>1. outcome \in [Clients -> Outcomes]
      BY DEF Outcomes
    <3>2. outcome' \in {outcome, [outcome EXCEPT ![c] = Failed]}
      BY <2>1
    <3> QED BY <3>1, <3>2, FailedIsOutcome
  <2>4. requests' \in [Connections -> Seq(Requests)]
    BY <2>1, <2>2, CurrentIsConnection
  <2>5. UNCHANGED <<connected, conn, broken, replies, cuts, readMsg, timedOut, dataMap>>
    BY <1>3 DEF Call
  <2>6. UNCHANGED <<requestsCut, repliesCut>>
    BY <2>5 DEF cuts
  <2> QED BY <2>1, <2>3, <2>4, <2>5, <2>6 DEF Outcomes
<1>4. ASSUME NEW c \in Clients, ReadReply(c) PROVE TypeOK'
  <2>1. Head(replies[c]) \in Messages /\ Tail(replies[c]) \in Seq(Messages)
    BY <1>4, HeadTailProperties DEF ReadReply
  <2> QED BY <1>4, <2>1, FinishTypes DEF ReadReply, Outcomes, cuts
<1>5. ASSUME NEW c \in Clients, ReadFails(c) PROVE TypeOK'
  <2>1. /\ replies' \in {replies, [replies EXCEPT ![c] = <<>>]} /\ UNCHANGED requestsCut
        /\ repliesCut' \in {repliesCut, repliesCut \cup {Current(c)}}
    <3>1. CASE LoseStep(c)
      BY <3>1 DEF LoseStep
    <3>2. CASE UNCHANGED <<replies, cuts>>
      BY <3>2 DEF cuts
    <3> QED BY <1>5, <3>1, <3>2 DEF ReadFails
  <2>2. replies' \in [Clients -> Seq(Messages)] /\ repliesCut' \subseteq Connections
    <3>1. <<>> \in Seq(Messages) /\ Current(c) \in Connections
      BY EmptySeq, CurrentIsConnection
    <3>2. [replies EXCEPT ![c] = <<>>] \in [Clients -> Seq(Messages)]
      BY <3>1
    <3> QED BY <2>1, <3>1, <3>2
  <2>3. Finish(c, readMsg[c]) /\ timedOut' = [timedOut EXCEPT ![c] = TRUE]
        /\ UNCHANGED <<call, connected, conn, broken, requests, dataMap>>
    BY <1>5 DEF ReadFails
  <2>4. /\ phase' \in [Clients -> {"idle", "reading", "spinning"}]
        /\ readMsg' \in [Clients -> Messages \cup {NoMessage} \cup Garbage]
        /\ outcome' \in [Clients -> Outcomes]
    BY <2>3, FinishTypes
  <2> QED BY <2>1, <2>2, <2>3, <2>4 DEF Outcomes
<1>6. ASSUME NEW c \in Clients, ReadNothing(c) PROVE TypeOK'
  BY <1>6 DEF ReadNothing, cuts
<1>9. ASSUME NEW c \in Clients, ReadCutReply(c) PROVE TypeOK'
  <2>1. /\ replies' = [replies EXCEPT ![c] = <<>>] /\ UNCHANGED requestsCut
        /\ repliesCut' = repliesCut \cup {Current(c)}
    BY <1>9 DEF ReadCutReply, LoseStep
  <2>2. Head(replies[c]) \in Messages
    BY <1>9, HeadTailProperties DEF ReadCutReply, LoseStep
  <2>3. CutOff(Head(replies[c])) \in Messages
    BY <2>2 DEF CutOff, Messages
  <2>4. Finish(c, CutOff(Head(replies[c])))
    BY <1>9 DEF ReadCutReply, CutOff
  <2> QED BY <1>9, <2>1, <2>3, <2>4, FinishTypes, EmptySeq, CurrentIsConnection DEF ReadCutReply, Outcomes
<1>10. ASSUME NEW c \in Clients, ReadGarbage(c) PROVE TypeOK'
  BY <1>10, FinishTypes DEF ReadGarbage, Outcomes, cuts
<1>7. ASSUME NEW x \in Connections, Serve(x) PROVE TypeOK'
  <2>1. Head(requests[x]) \in Requests /\ Tail(requests[x]) \in Seq(Requests)
    BY <1>7, HeadTailProperties DEF Serve
  <2> DEFINE req == Head(requests[x])
  <2>2. ReplyTo(req) \in Messages /\ Perform(req) \in [Keys -> Values \cup {NoValue, Garbled}]
    BY <2>1 DEF ReplyTo, Perform, Requests, Messages
  <2>3. Replied(x, req) \in [Clients -> Seq(Messages)]
    BY <2>2, RepliesGrow
  <2> HIDE DEF req
  <2>4. /\ requests' = [requests EXCEPT ![x] = Tail(@)]
        /\ dataMap' \in {dataMap, Perform(req)}
        /\ replies' \in {replies, Replied(x, req)}
        /\ UNCHANGED <<phase, call, connected, conn, broken, cuts, readMsg, outcome, timedOut>>
    BY <1>7 DEF Serve, req
  <2> QED BY <2>1, <2>2, <2>3, <2>4 DEF cuts
<1>11. ASSUME NEW x \in Connections, ServeCutRequest(x) PROVE TypeOK'
  <2>1. Head(requests[x]) \in Requests /\ <<>> \in Seq(Requests)
    BY <1>11, HeadTailProperties, EmptySeq DEF ServeCutRequest
  <2> DEFINE req == Head(requests[x])
  <2>2. ReplyTo(req) \in Messages /\ [dataMap EXCEPT ![req.key] = Garbled] \in [Keys -> Values \cup {NoValue, Garbled}]
    BY <2>1 DEF ReplyTo, Requests, Messages
  <2>3. Replied(x, req) \in [Clients -> Seq(Messages)]
    BY <2>2, RepliesGrow
  <2> HIDE DEF req
  <2>4. /\ requests' = [requests EXCEPT ![x] = <<>>]
        /\ requestsCut' = requestsCut \cup {x}
        /\ dataMap' \in {dataMap, [dataMap EXCEPT ![req.key] = Garbled]}
        /\ replies' \in {replies, Replied(x, req)}
        /\ UNCHANGED <<phase, call, connected, conn, broken, repliesCut, readMsg, outcome, timedOut>>
    BY <1>11 DEF ServeCutRequest, req
  <2> QED BY <2>1, <2>2, <2>3, <2>4
<1>12. ASSUME NEW x \in Connections, ServeGarbage(x) PROVE TypeOK'
  BY <1>12, EmptySeq DEF ServeGarbage
<1>8. ASSUME NEW x \in Connections, HangUp(x) PROVE TypeOK'
  <2>1. <<>> \in Seq(Requests) /\ <<>> \in Seq(Messages)
    BY EmptySeq
  <2> QED BY <1>8, <2>1 DEF HangUp, cuts
<1> QED BY <1>1, <1>2, <1>3, <1>4, <1>5, <1>6, <1>7, <1>8, <1>9, <1>10, <1>11, <1>12
        DEF Next, Client, Reading, Calling, Server
-----------------------------------------------------------------------------
(* The steps of a client *)

\* What an action leaves alone for a client.
SameClient(c) ==
  /\ phase'[c] = phase[c] /\ call'[c] = call[c]
  /\ connected'[c] = connected[c] /\ conn'[c] = conn[c]
  /\ replies'[c] = replies[c] /\ readMsg'[c] = readMsg[c]
  /\ outcome'[c] = outcome[c] /\ timedOut'[c] = timedOut[c]
  /\ \A k \in 0 .. MaxConns :
       /\ Queue(c, k)' = Queue(c, k)
       /\ <<c, k>> \in requestsCut' <=> <<c, k>> \in requestsCut
       /\ <<c, k>> \in repliesCut' <=> <<c, k>> \in repliesCut

LEMMA Numbers ==
  ASSUME TypeOK, NEW c \in Clients
  PROVE  /\ call[c].n \in Nat /\ readMsg[c].n \in Nat /\ outcome[c].n \in Nat
         /\ conn[c] \in 0 .. MaxConns
         /\ \A k \in 0 .. MaxConns :
              /\ Queue(c, k) \in Seq(Requests)
              /\ \A r \in Elements(Queue(c, k)) : r \in Requests /\ r.n \in Nat \ {0}
         /\ replies[c] \in Seq(Messages)
         /\ \A m \in Elements(replies[c]) : m \in Messages /\ m.n \in Nat \ {0}
         /\ NoMessage.n = 0 /\ \A m \in Garbage : m.n = 0
<1> USE BoundsAssumption
<1>1. \A r \in Requests : r.n \in Nat \ {0}
  BY DEF Requests
<1>2. \A m \in Messages : m.n \in Nat \ {0}
  BY DEF Messages
<1>3. call[c].n \in Nat /\ readMsg[c].n \in Nat /\ outcome[c].n \in Nat /\ conn[c] \in 0 .. MaxConns
  BY <1>1, <1>2 DEF TypeOK, NoRequest, NoMessage, Garbage
<1>4. ASSUME NEW k \in 0 .. MaxConns
      PROVE  /\ Queue(c, k) \in Seq(Requests)
             /\ \A r \in Elements(Queue(c, k)) : r \in Requests /\ r.n \in Nat \ {0}
  <2>1. Queue(c, k) \in Seq(Requests)
    BY DEF TypeOK, Queue, Connections
  <2> QED BY <1>1, <2>1, ElementsOfType
<1>5. replies[c] \in Seq(Messages)
  BY DEF TypeOK
<1>6. \A m \in Elements(replies[c]) : m \in Messages /\ m.n \in Nat \ {0}
  BY <1>2, <1>5, ElementsOfType
<1> QED BY <1>3, <1>4, <1>5, <1>6 DEF NoMessage, Garbage

LEMMA Kept ==
  ASSUME TypeOK, NEW c \in Clients, CInv(c), SameClient(c)
  PROVE  CInv(c)'
<1>1. conn[c] \in 0 .. MaxConns
  BY Numbers
<1>2. CurrentQueue(c)' = CurrentQueue(c)
  BY <1>1 DEF SameClient, CurrentQueue, Queue
<1>3. QueuesOrdered(c)'
  BY DEF CInv, QueuesOrdered, SameClient
<1>4. OutOfStep(c)' <=> OutOfStep(c)
  BY <1>1 DEF SameClient, OutOfStep, Current
<1>5. RepliesOrdered(c)' /\ UsedOnce(c)' /\ Fresh(c)' /\ InCall(c)'
  BY <1>2, <1>4 DEF CInv, RepliesOrdered, UsedOnce, Fresh, InCall, SameClient
<1>6. Strays(c)'
  BY <1>4 DEF CInv, Strays, SameClient
<1> QED BY <1>3, <1>5, <1>6 DEF CInv

LEMMA InitCInv == Init => \A c \in Clients : CInv(c)
<1> SUFFICES ASSUME Init, NEW c \in Clients PROVE CInv(c)
  OBVIOUS
<1>1. conn[c] \in 0 .. MaxConns /\ \A k \in 0 .. MaxConns : Queue(c, k) = <<>>
  <2>1. MaxConns \in Nat
    BY BoundsAssumption
  <2> QED BY <2>1 DEF Init, Queue, Connections
<1>2. QueuesOrdered(c)
  BY <1>1, Emptied DEF QueuesOrdered
<1>3. RepliesOrdered(c) /\ UsedOnce(c) /\ Fresh(c) /\ InCall(c) /\ Strays(c)
  <2>1. /\ CurrentQueue(c) = <<>> /\ replies[c] = <<>> /\ readMsg[c] = NoMessage
        /\ call[c] = NoRequest /\ outcome[c] = Failed /\ timedOut[c] = FALSE
        /\ phase[c] = "idle" /\ connected[c] = FALSE /\ requestsCut = {} /\ repliesCut = {}
    BY <1>1 DEF Init, CurrentQueue
  <2> QED BY <2>1, Emptied
      DEF RepliesOrdered, UsedOnce, Fresh, InCall, Strays, OutOfStep, NoMessage, NoRequest, Failed
<1> QED BY <1>2, <1>3 DEF CInv

\* A new connection is empty, and nothing of the old one is left with the client.
LEMMA ConnectKeeps ==
  ASSUME TypeOK, NEW c \in Clients, CInv(c), Connect(c)
  PROVE  CInv(c)' /\ \A d \in Clients : d # c => SameClient(d)
<1> USE Numbers, BoundsAssumption
<1>1. /\ phase[c] = "idle" /\ phase'[c] = "idle" /\ call'[c] = call[c]
      /\ conn'[c] = conn[c] + 1 /\ conn'[c] \in 0 .. MaxConns
      /\ replies'[c] = <<>> /\ readMsg'[c] = NoMessage
      /\ outcome'[c] = outcome[c] /\ timedOut'[c] = FALSE
      /\ \A k \in 0 .. MaxConns : Queue(c, k)' = Queue(c, k)
      /\ UNCHANGED <<requestsCut, repliesCut>> /\ conn[c] \in Nat
  BY DEF Connect, TypeOK, Queue, cuts
<1>2. CurrentQueue(c)' = <<>>
  BY <1>1 DEF CurrentQueue, Queue, CInv, QueuesOrdered
<1>3. QueuesOrdered(c)'
  <2>1. \A k \in 0 .. MaxConns : k > conn'[c] => k > conn[c]
    BY <1>1
  <2> QED BY <1>1, <2>1 DEF CInv, QueuesOrdered
<1>4. RepliesOrdered(c)' /\ UsedOnce(c)' /\ Fresh(c)' /\ InCall(c)'
  BY <1>1, <1>2, Emptied DEF CInv, RepliesOrdered, UsedOnce, Fresh, InCall
<1>5. Strays(c)'
  BY <1>1 DEF CInv, Strays
<1>6. ASSUME NEW d \in Clients, d # c PROVE SameClient(d)
  BY <1>6 DEF Connect, TypeOK, SameClient, Queue, cuts
<1> QED BY <1>3, <1>4, <1>5, <1>6 DEF CInv

LEMMA DisconnectKeeps ==
  ASSUME TypeOK, NEW c \in Clients, CInv(c), Disconnect(c)
  PROVE  CInv(c)' /\ \A d \in Clients : d # c => SameClient(d)
<1> USE Numbers, BoundsAssumption
<1>1. /\ phase[c] = "idle" /\ phase'[c] = "idle" /\ call'[c] = call[c]
      /\ conn'[c] = conn[c] /\ connected'[c] = FALSE
      /\ replies'[c] = <<>> /\ readMsg'[c] = NoMessage
      /\ outcome'[c] = outcome[c] /\ timedOut'[c] = timedOut[c]
      /\ \A k \in 0 .. MaxConns : Queue(c, k)' = Queue(c, k)
      /\ UNCHANGED <<requestsCut, repliesCut>>
  BY DEF Disconnect, TypeOK, Queue, cuts
<1>2. CurrentQueue(c)' = CurrentQueue(c)
  BY <1>1 DEF CurrentQueue, Queue
<1>3. QueuesOrdered(c)'
  BY <1>1 DEF CInv, QueuesOrdered
<1>4. RepliesOrdered(c)' /\ UsedOnce(c)' /\ Fresh(c)' /\ InCall(c)' /\ Strays(c)'
  BY <1>1, <1>2, Emptied DEF CInv, RepliesOrdered, UsedOnce, Fresh, InCall, Strays, CurrentQueue
<1>5. ASSUME NEW d \in Clients, d # c PROVE SameClient(d)
  BY <1>5 DEF Disconnect, TypeOK, SameClient, Queue, cuts
<1> QED BY <1>3, <1>4, <1>5 DEF CInv

\* A request goes to the end of the queue of the connection in use, or nowhere;
\* its number is new.
LEMMA CallSends ==
  ASSUME TypeOK, NEW c \in Clients, CInv(c), Call(c)
  PROVE  /\ phase[c] = "idle" /\ conn'[c] = conn[c] /\ connected'[c] = connected[c]
         /\ replies'[c] = replies[c] /\ readMsg'[c] = readMsg[c] /\ timedOut'[c] = timedOut[c]
         /\ call'[c] \in Requests /\ call'[c].n = call[c].n + 1
         /\ \A k \in 0 .. MaxConns : k # conn[c] => Queue(c, k)' = Queue(c, k)
         /\ \/ /\ connected[c] /\ phase'[c] = "reading" /\ outcome'[c] = outcome[c]
               /\ CurrentQueue(c)' = IF Current(c) \in broken \cup requestsCut THEN CurrentQueue(c)
                                     ELSE Append(CurrentQueue(c), call'[c])
            \/ /\ phase'[c] = "idle" /\ outcome'[c] = Failed
               /\ CurrentQueue(c)' = CurrentQueue(c)
         /\ UNCHANGED <<requestsCut, repliesCut>>
         /\ \A d \in Clients : d # c => SameClient(d)
<1> DEFINE Sent(req) ==
             \/ /\ connected[c]
                /\ phase' = [phase EXCEPT ![c] = "reading"]
                /\ requests' = IF Current(c) \in broken \cup requestsCut THEN requests
                               ELSE [requests EXCEPT ![Current(c)] = Append(@, req)]
                /\ UNCHANGED outcome
             \/ /\ outcome' = [outcome EXCEPT ![c] = Failed]
                /\ UNCHANGED <<phase, requests>>
<1>1. PICK req \in Requests : /\ req.n = call[c].n + 1
                              /\ call' = [call EXCEPT ![c] = req] /\ Sent(req)
  <2>1. call[c].n + 1 \in 1 .. MaxCalls
    BY Numbers, BoundsAssumption DEF Call
  <2> QED BY <2>1 DEF Call, Requests
<1>2. /\ UNCHANGED <<connected, conn, broken, replies, requestsCut, repliesCut, readMsg, timedOut, dataMap>>
      /\ phase[c] = "idle"
  BY DEF Call, cuts
<1>3. call'[c] = req /\ conn[c] \in 0 .. MaxConns /\ Current(c) \in Connections
  BY <1>1 DEF TypeOK, Current, Connections
<1>4. requests' \in {requests, [requests EXCEPT ![Current(c)] = Append(@, req)]}
  BY <1>1
<1>5. \A d \in Clients, k \in 0 .. MaxConns : <<d, k>> # Current(c) => Queue(d, k)' = Queue(d, k)
  BY <1>4 DEF Queue, TypeOK, Connections
<1>6. \A k \in 0 .. MaxConns : k # conn[c] => Queue(c, k)' = Queue(c, k)
  BY <1>5 DEF Current
<1>7. ASSUME NEW d \in Clients, d # c PROVE SameClient(d)
  <2>1. \A k \in 0 .. MaxConns : Queue(d, k)' = Queue(d, k)
    BY <1>5, <1>7 DEF Current
  <2> QED BY <1>1, <1>2, <1>7, <2>1 DEF TypeOK, SameClient
<1>8. \/ /\ connected[c] /\ phase'[c] = "reading" /\ outcome'[c] = outcome[c]
         /\ CurrentQueue(c)' = IF Current(c) \in broken \cup requestsCut THEN CurrentQueue(c)
                               ELSE Append(CurrentQueue(c), req)
      \/ /\ phase'[c] = "idle" /\ outcome'[c] = Failed
         /\ CurrentQueue(c)' = CurrentQueue(c)
  BY <1>1, <1>2, <1>3 DEF TypeOK, CurrentQueue, Queue, Current
<1> QED BY <1>1, <1>2, <1>3, <1>6, <1>7, <1>8

LEMMA CallKeeps ==
  ASSUME TypeOK, NEW c \in Clients, CInv(c), Calling(c)
  PROVE  CInv(c)' /\ \A d \in Clients : d # c => SameClient(d)
<1>1. /\ phase[c] = "idle" /\ conn'[c] = conn[c] /\ connected'[c] = connected[c]
      /\ replies'[c] = replies[c] /\ readMsg'[c] = readMsg[c] /\ timedOut'[c] = timedOut[c]
      /\ call'[c] \in Requests /\ call'[c].n = call[c].n + 1
      /\ \A k \in 0 .. MaxConns : k # conn[c] => Queue(c, k)' = Queue(c, k)
      /\ \A d \in Clients : d # c => SameClient(d)
      /\ UNCHANGED <<requestsCut, repliesCut>>
      /\ OutOfStep(c)' <=> OutOfStep(c)
      /\ Careful => ~ timedOut[c]
  BY CallSends DEF Calling, OutOfStep, Current
<1>2. /\ call[c].n \in Nat /\ readMsg[c].n \in Nat /\ outcome[c].n \in Nat /\ conn[c] \in 0 .. MaxConns
      /\ \A m \in Elements(replies[c]) : m.n \in Nat
      /\ \A k \in 0 .. MaxConns : \A r \in Elements(Queue(c, k)) : r.n \in Nat
      /\ CurrentQueue(c) \in Seq(Requests) /\ CurrentQueue(c)' = Queue(c, conn[c])'
  BY <1>1, Numbers DEF CurrentQueue, Queue
<1>3. CASE CurrentQueue(c)' = Append(CurrentQueue(c), call'[c]) /\ connected[c]
           /\ phase'[c] = "reading" /\ outcome'[c] = outcome[c]
  <2>1. /\ Elements(CurrentQueue(c)') = Elements(CurrentQueue(c)) \cup {call'[c]}
        /\ Rising(CurrentQueue(c)')
        /\ \A k \in 0 .. MaxConns : \A r \in Elements(Queue(c, k)) : r.n < call'[c].n
    <3>1. \A k \in 0 .. MaxConns : \A r \in Elements(Queue(c, k)) : r.n < call'[c].n
      BY <1>1, <1>2 DEF CInv, QueuesOrdered
    <3>2. Rising(CurrentQueue(c)) /\ \A r \in Elements(CurrentQueue(c)) : r.n < call'[c].n
      BY <1>2, <3>1 DEF CInv, QueuesOrdered, CurrentQueue
    <3> QED BY <1>1, <1>2, <1>3, <3>1, <3>2, Appended
  <2>2. conn[c] > 0
    BY <1>3 DEF CInv, InCall
  <2>3. QueuesOrdered(c)'
    <3>1. ASSUME NEW k \in 0 .. MaxConns
          PROVE  /\ Rising(Queue(c, k)')
                 /\ k = 0 \/ k > conn'[c] => Queue(c, k)' = <<>>
                 /\ \A r \in Elements(Queue(c, k)') :
                      /\ r.n <= call'[c].n
                      /\ r.n = call'[c].n => r = call'[c] /\ k = conn'[c]
      <4>1. CASE k = conn[c]
        <5>1. Queue(c, k)' = CurrentQueue(c)' /\ Queue(c, k) = CurrentQueue(c)
          BY <1>1, <4>1 DEF CurrentQueue, Queue
        <5>2. \A r \in Elements(CurrentQueue(c)) : r.n \in Nat /\ r.n < call'[c].n
          BY <1>2, <2>1, <4>1, <5>1
        <5> QED BY <1>1, <1>2, <2>1, <2>2, <4>1, <5>1, <5>2
      <4>2. CASE k # conn[c]
        BY <1>1, <1>2, <2>1, <4>2 DEF CInv, QueuesOrdered
      <4> QED BY <4>1, <4>2
    <3>2. ASSUME NEW k \in 0 .. MaxConns, NEW l \in 0 .. MaxConns, k < l,
                 NEW r \in Elements(Queue(c, k)'), NEW s \in Elements(Queue(c, l)')
          PROVE  r.n < s.n
      <4>1. k # conn[c]
        BY <1>1, <1>2, <3>2, Emptied DEF CInv, QueuesOrdered
      <4>2. r \in Elements(Queue(c, k))
        BY <1>1, <4>1
      <4>3. CASE l = conn[c]
        <5>1. Queue(c, l)' = CurrentQueue(c)' /\ Queue(c, l) = CurrentQueue(c)
          BY <1>1, <4>3 DEF CurrentQueue, Queue
        <5>2. CASE s = call'[c]
          BY <2>1, <4>2, <5>2
        <5>3. CASE s \in Elements(Queue(c, l))
          BY <3>2, <4>2, <5>3 DEF CInv, QueuesOrdered
        <5> QED BY <2>1, <3>2, <5>1, <5>2, <5>3
      <4>4. CASE l # conn[c]
        BY <1>1, <3>2, <4>2, <4>4 DEF CInv, QueuesOrdered
      <4> QED BY <4>3, <4>4
    <3> QED BY <3>1, <3>2 DEF QueuesOrdered
  <2>4. RepliesOrdered(c)'
    BY <1>1, <1>2, <2>1 DEF CInv, RepliesOrdered
  <2>5. UsedOnce(c)'
    BY <1>1, <1>2, <1>3, <2>1 DEF CInv, UsedOnce
  <2>6. Fresh(c)' /\ InCall(c)' /\ Strays(c)'
    BY <1>1, <1>3, <2>1 DEF CInv, Fresh, InCall, Strays
  <2> QED BY <1>1, <2>3, <2>4, <2>5, <2>6 DEF CInv
<1>4. CASE CurrentQueue(c)' = CurrentQueue(c) /\ (phase'[c] = "reading" => connected[c])
           /\ \/ phase'[c] = "reading" /\ outcome'[c] = outcome[c]
              \/ phase'[c] = "idle" /\ outcome'[c] = Failed
  <2>1. \A k \in 0 .. MaxConns : Queue(c, k)' = Queue(c, k)
    BY <1>1, <1>2, <1>4 DEF CurrentQueue
  <2>2. QueuesOrdered(c)'
    <3>1. \A k \in 0 .. MaxConns : \A r \in Elements(Queue(c, k)) : r.n <= call'[c].n /\ r.n # call'[c].n
      BY <1>1, <1>2 DEF CInv, QueuesOrdered
    <3> QED BY <1>1, <2>1, <3>1 DEF CInv, QueuesOrdered
  <2>3. RepliesOrdered(c)'
    BY <1>1, <1>2, <1>4, SMTT(30) DEF CInv, RepliesOrdered
  <2>4. UsedOnce(c)'
    <3>1. \A r \in Elements(CurrentQueue(c)) : r.n > 0
      BY <1>2, Numbers DEF CurrentQueue
    <3>2. \A m \in Elements(replies[c]) : m.n > 0
      BY Numbers
    <3> QED BY <1>1, <1>2, <1>4, <3>1, <3>2 DEF CInv, UsedOnce, Failed
  <2>5. Fresh(c)' /\ InCall(c)' /\ Strays(c)'
    BY <1>1, <1>4 DEF CInv, Fresh, InCall, Strays
  <2> QED BY <1>1, <2>2, <2>3, <2>4, <2>5 DEF CInv
<1> QED BY <1>3, <1>4, CallSends DEF Calling

\* The message a call ends with is the next reply or one with its number, the
\* message left over when none came, or nobody's.
Used(c, m) ==
  \/ /\ replies[c] # <<>> /\ timedOut'[c] = timedOut[c]
     /\ m.n = Head(replies[c]).n /\ m.op = Head(replies[c]).op
     /\ replies'[c] = Tail(replies[c]) \/ (replies'[c] = <<>> /\ OutOfStep(c)')
  \/ m = readMsg[c] /\ replies'[c] \in {replies[c], <<>>} /\ timedOut'[c] = TRUE
  \/ /\ m = readMsg[c] \/ m.n = 0
     /\ replies'[c] = replies[c] /\ OutOfStep(c) /\ OutOfStep(c)'

LEMMA FinishKeeps ==
  ASSUME TypeOK, NEW c \in Clients, CInv(c), NEW m, Used(c, m), Finish(c, m), phase[c] # "idle",
         call'[c] = call[c], connected'[c] = connected[c], conn'[c] = conn[c],
         \A k \in 0 .. MaxConns : Queue(c, k)' = Queue(c, k),
         OutOfStep(c)' => OutOfStep(c) \/ replies'[c] = <<>>,
         UNCHANGED requestsCut, repliesCut' \subseteq repliesCut \cup {Current(c)}
  PROVE  /\ CInv(c)'
         /\ outcome'[c].n # 0 => outcome[c].n < outcome'[c].n /\ readMsg'[c].n # outcome'[c].n
<1>1. /\ call[c].n \in Nat /\ outcome[c].n \in Nat /\ conn[c] \in 0 .. MaxConns
      /\ replies[c] \in Seq(Messages) /\ NoMessage.n = 0
      /\ \A r \in Elements(replies[c]) : r.n \in Nat \ {0}
      /\ \A r \in Elements(CurrentQueue(c)) : r.n \in Nat \ {0}
      /\ CurrentQueue(c)' = CurrentQueue(c)
      /\ readMsg[c].n \in Nat
  BY Numbers DEF CurrentQueue, Queue
<1>2. /\ m.n # 0 => outcome[c].n < m.n
      /\ m.n \in Nat /\ m.n <= call[c].n
      /\ Rising(replies'[c]) /\ Elements(replies'[c]) \subseteq Elements(replies[c])
      /\ \A r \in Elements(replies'[c]) : m.n < r.n
      /\ \A r \in Elements(CurrentQueue(c)) : m.n < r.n
  <2>1. CASE /\ replies[c] # <<>> /\ m.n = Head(replies[c]).n
             /\ replies'[c] \in {Tail(replies[c]), <<>>}
    <3> DEFINE h == Head(replies[c])
    <3>1. /\ h \in Elements(replies[c]) /\ Elements(replies'[c]) \subseteq Elements(replies[c])
          /\ Rising(replies'[c]) /\ \A r \in Elements(replies'[c]) : h.n < r.n
      <4>1. Rising(replies[c])
        BY DEF CInv, RepliesOrdered
      <4>2. /\ h \in Elements(replies[c]) /\ Elements(Tail(replies[c])) \subseteq Elements(replies[c])
            /\ Rising(Tail(replies[c])) /\ \A r \in Elements(Tail(replies[c])) : h.n < r.n
        BY <1>1, <2>1, <4>1, Tailed
      <4> HIDE DEF h
      <4>3. CASE replies'[c] = Tail(replies[c])
        BY <4>2, <4>3
      <4>4. CASE replies'[c] = <<>>
        BY <4>2, <4>4, Emptied
      <4> QED BY <2>1, <4>3, <4>4
    <3>2. m.n = h.n
      BY <2>1
    <3> HIDE DEF h
    <3> QED BY <1>1, <3>1, <3>2 DEF CInv, RepliesOrdered, UsedOnce
  <2>2. CASE (m = readMsg[c] \/ m.n = 0) /\ replies'[c] \in {replies[c], <<>>}
    <3>1. Rising(replies'[c]) /\ Elements(replies'[c]) \subseteq Elements(replies[c])
      BY <2>2, Emptied DEF CInv, RepliesOrdered
    <3>2. CASE m = readMsg[c]
      BY <1>1, <3>1, <3>2 DEF CInv, RepliesOrdered, UsedOnce
    <3>3. CASE m.n = 0
      BY <1>1, <3>1, <3>3
    <3> QED BY <2>2, <3>2, <3>3
  <2> QED BY <2>1, <2>2 DEF Used
<1>3. /\ phase'[c] = "idle"
      /\ \/ m.op = call[c].op /\ outcome'[c].n = m.n /\ readMsg'[c] = NoMessage
         \/ m.op # call[c].op /\ outcome'[c] = Failed /\ readMsg'[c] = m
  BY DEF Finish, TypeOK
<1>4. QueuesOrdered(c)'
  BY <1>3 DEF CInv, QueuesOrdered
<1>5. RepliesOrdered(c)'
  <2>1. readMsg'[c].n <= m.n /\ readMsg'[c].n \in Nat
    BY <1>1, <1>2, <1>3
  <2>2. \A r \in Elements(replies'[c]) :
          /\ readMsg'[c].n < r.n /\ r.n <= call'[c].n
          /\ r.n = call'[c].n => r.op = call'[c].op
          /\ \A s \in Elements(CurrentQueue(c)) : r.n < s.n
    BY <1>1, <1>2, <2>1 DEF CInv, RepliesOrdered
  <2>3. \A r \in Elements(CurrentQueue(c)) : readMsg'[c].n < r.n
    BY <1>1, <1>2, <2>1
  <2> QED BY <1>1, <1>2, <2>1, <2>2, <2>3 DEF RepliesOrdered
<1>6. UsedOnce(c)'
  BY <1>1, <1>2, <1>3 DEF UsedOnce, Failed
<1>7. Fresh(c)'
  <2> SUFFICES ASSUME ~ timedOut'[c], connected[c], ~ OutOfStep(c)'
               PROVE  /\ readMsg'[c] = NoMessage
                      /\ Elements(replies'[c]) = {} /\ Elements(CurrentQueue(c)) = {}
    BY <1>1 DEF Fresh
  <2>1. /\ replies[c] # <<>> /\ ~ timedOut[c] /\ ~ OutOfStep(c)
        /\ m.n = Head(replies[c]).n /\ m.op = Head(replies[c]).op
    BY DEF Used, CInv, Strays
  <2>2. Head(replies[c]) \in Elements(replies[c])
    BY <1>1, <2>1, Tailed
  <2>3. m.n = call[c].n /\ m.op = call[c].op
    BY <2>1, <2>2 DEF CInv, Fresh, RepliesOrdered
  <2>4. /\ \A r \in Elements(replies'[c]) : r.n = call[c].n
        /\ \A r \in Elements(CurrentQueue(c)) : r.n = call[c].n
    BY <1>2, <2>1 DEF CInv, Fresh
  <2> QED BY <1>1, <1>2, <1>3, <2>3, <2>4
<1>8. InCall(c)'
  BY <1>3 DEF CInv, InCall
<1>9. Strays(c)'
  <2>1. OutOfStep(c) => replies'[c] = <<>>
    BY DEF Used, CInv, Strays
  <2>2. \A k \in 0 .. MaxConns : <<c, k>> \in requestsCut' \cup repliesCut' => k <= conn[c]
    BY <1>1 DEF CInv, Strays, Current
  <2> QED BY <2>1, <2>2 DEF Strays
<1>10. outcome'[c].n # 0 => outcome[c].n < outcome'[c].n /\ readMsg'[c].n # outcome'[c].n
  BY <1>1, <1>2, <1>3 DEF Failed
<1> QED BY <1>4, <1>5, <1>6, <1>7, <1>8, <1>9, <1>10 DEF CInv

\* The actions that end a call.
Ending(c) == ReadReply(c) \/ ReadCutReply(c) \/ ReadGarbage(c) \/ ReadFails(c)

LEMMA EndingUses ==
  ASSUME TypeOK, NEW c \in Clients, CInv(c), Ending(c)
  PROVE  /\ UNCHANGED <<call, connected, conn, broken, requests, requestsCut, dataMap>>
         /\ phase[c] = "reading" /\ \E m : Used(c, m) /\ Finish(c, m)
         /\ OutOfStep(c)' => OutOfStep(c) \/ replies'[c] = <<>>
         /\ OutOfStep(c) => OutOfStep(c)'
         /\ repliesCut' \subseteq repliesCut \cup {Current(c)}
         /\ \A d \in Clients : d # c => replies'[d] = replies[d] /\ timedOut'[d] = timedOut[d]
<1>1. CASE ReadReply(c)
  <2>1. /\ UNCHANGED <<call, connected, conn, broken, requests, requestsCut, repliesCut, timedOut, dataMap>>
        /\ phase[c] = "reading" /\ replies[c] # <<>> /\ Finish(c, Head(replies[c]))
        /\ replies' = [replies EXCEPT ![c] = Tail(@)]
    BY <1>1 DEF ReadReply, cuts
  <2>2. Used(c, Head(replies[c]))
    BY <2>1 DEF Used, TypeOK
  <2> QED BY <2>1, <2>2 DEF OutOfStep, Current, TypeOK
<1>2. CASE ReadCutReply(c)
  <2> DEFINE m == CutOff(Head(replies[c]))
  <2>1. /\ UNCHANGED <<call, connected, conn, broken, requests, requestsCut, timedOut, dataMap>>
        /\ phase[c] = "reading" /\ replies[c] # <<>> /\ Finish(c, m)
        /\ replies' = [replies EXCEPT ![c] = <<>>] /\ repliesCut' = repliesCut \cup {Current(c)}
    BY <1>2 DEF ReadCutReply, LoseStep
  <2>2. m.n = Head(replies[c]).n /\ m.op = Head(replies[c]).op
    <3>1. Head(replies[c]) \in Messages
      BY <2>1, HeadTailProperties DEF TypeOK
    <3> QED BY <3>1 DEF CutOff, Messages
  <2> HIDE DEF m
  <2>3. OutOfStep(c)'
    BY <2>1 DEF OutOfStep, Current
  <2>4. Used(c, m)
    BY <2>1, <2>2, <2>3 DEF Used, TypeOK
  <2> QED BY <2>1, <2>3, <2>4 DEF TypeOK
<1>3. CASE ReadGarbage(c)
  <2>1. /\ UNCHANGED <<call, connected, conn, broken, requests, replies, requestsCut, repliesCut,
                       timedOut, dataMap>>
        /\ phase[c] = "reading" /\ OutOfStep(c)
    BY <1>3 DEF ReadGarbage, OutOfStep, cuts
  <2>2. PICK m \in Garbage \cup {readMsg[c]} : Finish(c, m)
    BY <1>3 DEF ReadGarbage
  <2>3. OutOfStep(c)'
    BY <2>1 DEF OutOfStep, Current
  <2>4. Used(c, m)
    BY <2>1, <2>2, <2>3 DEF Used, Garbage
  <2> QED BY <2>1, <2>2, <2>3, <2>4
<1>4. CASE ReadFails(c)
  <2>1. /\ UNCHANGED <<call, connected, conn, broken, requests, dataMap>>
        /\ phase[c] = "reading" /\ Finish(c, readMsg[c])
        /\ timedOut' = [timedOut EXCEPT ![c] = TRUE]
        /\ LoseStep(c) \/ UNCHANGED <<replies, cuts>>
    BY <1>4 DEF ReadFails
  <2>2. /\ UNCHANGED requestsCut
        /\ \/ UNCHANGED <<replies, repliesCut>>
           \/ replies' = [replies EXCEPT ![c] = <<>>] /\ repliesCut' = repliesCut \cup {Current(c)}
    BY <2>1 DEF LoseStep, cuts
  <2>3. /\ replies'[c] \in {replies[c], <<>>} /\ timedOut'[c] = TRUE
        /\ OutOfStep(c)' => OutOfStep(c) \/ replies'[c] = <<>>
        /\ OutOfStep(c) => OutOfStep(c)'
    BY <2>1, <2>2 DEF OutOfStep, Current, TypeOK
  <2>4. Used(c, readMsg[c])
    BY <2>3 DEF Used
  <2> QED BY <2>1, <2>2, <2>3, <2>4 DEF TypeOK
<1> QED BY <1>1, <1>2, <1>3, <1>4 DEF Ending

LEMMA ReadKeeps ==
  ASSUME TypeOK, NEW c \in Clients, CInv(c), Ending(c)
  PROVE  /\ CInv(c)' /\ \A d \in Clients : d # c => SameClient(d)
         /\ outcome'[c].n # 0 => outcome[c].n < outcome'[c].n /\ readMsg'[c].n # outcome'[c].n
<1>1. /\ UNCHANGED <<call, connected, conn, broken, requests, requestsCut, dataMap>>
      /\ phase[c] # "idle"
      /\ OutOfStep(c)' => OutOfStep(c) \/ replies'[c] = <<>>
      /\ repliesCut \subseteq repliesCut' /\ repliesCut' \subseteq repliesCut \cup {Current(c)}
      /\ \A d \in Clients : d # c => replies'[d] = replies[d] /\ timedOut'[d] = timedOut[d]
      /\ \A k \in 0 .. MaxConns : \A d \in Clients : Queue(d, k)' = Queue(d, k)
  <2>1. repliesCut \subseteq repliesCut'
    BY DEF Ending, ReadReply, ReadCutReply, ReadGarbage, ReadFails, LoseStep, cuts
  <2> QED BY <2>1, EndingUses DEF Queue
<1>2. PICK m : Used(c, m) /\ Finish(c, m)
  BY EndingUses
<1>3. /\ CInv(c)'
      /\ outcome'[c].n # 0 => outcome[c].n < outcome'[c].n /\ readMsg'[c].n # outcome'[c].n
  BY <1>1, <1>2, FinishKeeps
<1>4. ASSUME NEW d \in Clients, d # c PROVE SameClient(d)
  <2>1. phase'[d] = phase[d] /\ readMsg'[d] = readMsg[d] /\ outcome'[d] = outcome[d]
    BY <1>2, <1>4 DEF Finish, TypeOK
  <2>2. \A k \in 0 .. MaxConns : <<d, k>> \in repliesCut' <=> <<d, k>> \in repliesCut
    BY <1>1, <1>4 DEF Current
  <2> QED BY <1>1, <1>4, <2>1, <2>2 DEF SameClient
<1> QED BY <1>3, <1>4

LEMMA ReadNothingKeeps ==
  ASSUME TypeOK, NEW c \in Clients, CInv(c), ReadNothing(c)
  PROVE  CInv(c)' /\ \A d \in Clients : d # c => SameClient(d)
<1>1. /\ UNCHANGED <<call, connected, conn, requests, replies, requestsCut, repliesCut, readMsg,
                     outcome, timedOut>>
      /\ phase[c] = "reading" /\ phase'[c] = "spinning"
      /\ \A d \in Clients : d # c => phase'[d] = phase[d]
  BY DEF ReadNothing, TypeOK, cuts
<1>2. OutOfStep(c)' <=> OutOfStep(c)
  BY <1>1 DEF OutOfStep, Current
<1>3. CurrentQueue(c)' = CurrentQueue(c) /\ \A k \in 0 .. MaxConns : Queue(c, k)' = Queue(c, k)
  BY <1>1 DEF CurrentQueue, Queue
<1>4. CInv(c)'
  BY <1>1, <1>2, <1>3 DEF CInv, QueuesOrdered, RepliesOrdered, UsedOnce, Fresh, InCall, Strays
<1> QED BY <1>1, <1>4 DEF SameClient, Queue
-----------------------------------------------------------------------------
(* The steps of the server *)

\* The request at the head of a queue is taken; its reply goes to the client that
\* is still on this connection, and in step with it.
Answering(c, k) == k = conn[c] /\ connected[c] /\ ~ OutOfStep(c)

LEMMA RepliedIs ==
  ASSUME TypeOK, NEW c \in Clients, NEW k \in 0 .. MaxConns, NEW req, replies' = Replied(<<c, k>>, req)
  PROVE  /\ replies'[c] = IF Answering(c, k) THEN Append(replies[c], ReplyTo(req)) ELSE replies[c]
         /\ \A d \in Clients : d # c => replies'[d] = replies[d]
<1> DEFINE x == <<c, k>>
<1>1. x[1] = c /\ (x = Current(c) <=> k = conn[c])
  BY DEF Current
<1>2. x = Current(c) => (x \in repliesCut <=> OutOfStep(c))
  BY DEF OutOfStep
<1>3. replies' = IF Answering(c, k) THEN [replies EXCEPT ![c] = Append(@, ReplyTo(req))] ELSE replies
  BY <1>1, <1>2 DEF Replied, Answering
<1> QED BY <1>3 DEF TypeOK

LEMMA ServeTakes ==
  ASSUME TypeOK, NEW c \in Clients, NEW k \in 0 .. MaxConns, Serve(<<c, k>>)
  PROVE  /\ Queue(c, k) # <<>> /\ Queue(c, k)' = Tail(Queue(c, k))
         /\ \A d \in Clients, l \in 0 .. MaxConns : <<d, l>> # <<c, k>> => Queue(d, l)' = Queue(d, l)
         /\ UNCHANGED <<phase, call, connected, conn, broken, requestsCut, repliesCut, readMsg,
                        outcome, timedOut>>
         /\ replies'[c] = IF Parse(Head(Queue(c, k))) /\ Answering(c, k)
                          THEN Append(replies[c], ReplyTo(Head(Queue(c, k)))) ELSE replies[c]
         /\ \A d \in Clients : d # c => replies'[d] = replies[d]
         /\ dataMap' = IF Parse(Head(Queue(c, k))) THEN Perform(Head(Queue(c, k))) ELSE dataMap
<1> DEFINE x == <<c, k>>
<1>1. x \in Connections /\ Queue(c, k) = requests[x]
  BY DEF Connections, Queue
<1>2. /\ requests[x] # <<>> /\ requests' = [requests EXCEPT ![x] = Tail(@)]
      /\ UNCHANGED <<phase, call, connected, conn, broken, requestsCut, repliesCut, readMsg,
                     outcome, timedOut>>
      /\ \/ /\ Parse(Head(requests[x])) /\ dataMap' = Perform(Head(requests[x]))
            /\ replies' = Replied(x, Head(requests[x]))
         \/ ~ Parse(Head(requests[x])) /\ UNCHANGED <<dataMap, replies>>
  BY <1>1 DEF Serve, cuts
<1>3. /\ Queue(c, k) # <<>> /\ Queue(c, k)' = Tail(Queue(c, k))
      /\ \A d \in Clients, l \in 0 .. MaxConns : <<d, l>> # <<c, k>> => Queue(d, l)' = Queue(d, l)
  BY <1>1, <1>2 DEF Queue, TypeOK, Connections
<1>4. CASE Parse(Head(Queue(c, k)))
  <2>1. dataMap' = Perform(Head(Queue(c, k))) /\ replies' = Replied(x, Head(Queue(c, k)))
    BY <1>1, <1>2, <1>4
  <2> QED BY <1>2, <1>3, <1>4, <2>1, RepliedIs
<1>5. CASE ~ Parse(Head(Queue(c, k)))
  BY <1>1, <1>2, <1>3, <1>5
<1> QED BY <1>4, <1>5

LEMMA ServeCutTakes ==
  ASSUME TypeOK, NEW c \in Clients, NEW k \in 0 .. MaxConns, ServeCutRequest(<<c, k>>)
  PROVE  /\ Queue(c, k) # <<>> /\ Queue(c, k)' = <<>>
         /\ \A d \in Clients, l \in 0 .. MaxConns : <<d, l>> # <<c, k>> => Queue(d, l)' = Queue(d, l)
         /\ UNCHANGED <<phase, call, connected, conn, broken, repliesCut, readMsg, outcome, timedOut>>
         /\ requestsCut' = requestsCut \cup {<<c, k>>} /\ <<c, k>> \notin broken
         /\ \A d \in Clients : d # c => replies'[d] = replies[d]
         /\ \/ /\ Head(Queue(c, k)).op = "set" /\ Parse(Head(Queue(c, k)))
               /\ dataMap' = Store!AfterCut(Head(Queue(c, k)).key, dataMap)
               /\ replies'[c] = IF Answering(c, k)
                                THEN Append(replies[c], ReplyTo(Head(Queue(c, k)))) ELSE replies[c]
            \/ UNCHANGED <<dataMap, replies>>
<1> DEFINE x == <<c, k>>
<1>1. x \in Connections /\ Queue(c, k) = requests[x]
  BY DEF Connections, Queue
<1>2. /\ requests[x] # <<>> /\ requests' = [requests EXCEPT ![x] = <<>>]
      /\ UNCHANGED <<phase, call, connected, conn, broken, repliesCut, readMsg, outcome, timedOut>>
      /\ requestsCut' = requestsCut \cup {x} /\ x \notin broken
      /\ \/ /\ Head(requests[x]).op = "set" /\ Parse(Head(requests[x]))
            /\ dataMap' = [dataMap EXCEPT ![Head(requests[x]).key] = Garbled]
            /\ replies' = Replied(x, Head(requests[x]))
         \/ UNCHANGED <<dataMap, replies>>
  BY <1>1 DEF ServeCutRequest
<1>3. /\ Queue(c, k) # <<>> /\ Queue(c, k)' = <<>>
      /\ \A d \in Clients, l \in 0 .. MaxConns : <<d, l>> # <<c, k>> => Queue(d, l)' = Queue(d, l)
  BY <1>1, <1>2 DEF Queue, TypeOK, Connections
<1>4. CASE UNCHANGED <<dataMap, replies>>
  BY <1>2, <1>3, <1>4
<1>5. CASE /\ Head(requests[x]).op = "set" /\ Parse(Head(requests[x]))
           /\ dataMap' = [dataMap EXCEPT ![Head(requests[x]).key] = Garbled]
           /\ replies' = Replied(x, Head(requests[x]))
  <2> DEFINE r == Head(Queue(c, k))
  <2>1. /\ r.op = "set" /\ Parse(r) /\ dataMap' = Store!AfterCut(r.key, dataMap)
        /\ replies' = Replied(x, r)
    BY <1>1, <1>5 DEF Store!AfterCut
  <2> HIDE DEF r
  <2>2. /\ replies'[c] = IF Answering(c, k) THEN Append(replies[c], ReplyTo(r)) ELSE replies[c]
        /\ \A d \in Clients : d # c => replies'[d] = replies[d]
    BY <2>1, RepliedIs
  <2> QED BY <1>2, <1>3, <2>1, <2>2 DEF r
<1> QED BY <1>2, <1>4, <1>5

\* A queue that gets shorter at its head, or is emptied, stays in order.
LEMMA QueuesShrink ==
  ASSUME TypeOK, NEW c \in Clients, CInv(c), NEW k \in 0 .. MaxConns,
         Rising(Queue(c, k)'), Elements(Queue(c, k)') \subseteq Elements(Queue(c, k)),
         Queue(c, k) = <<>> => Queue(c, k)' = <<>>,
         \A l \in 0 .. MaxConns : l # k => Queue(c, l)' = Queue(c, l),
         call'[c] = call[c], conn'[c] = conn[c], phase'[c] = phase[c]
  PROVE  /\ QueuesOrdered(c)'
         /\ Elements(CurrentQueue(c)') \subseteq Elements(CurrentQueue(c))
<1>1. \A l \in 0 .. MaxConns : /\ Rising(Queue(c, l)')
                               /\ Elements(Queue(c, l)') \subseteq Elements(Queue(c, l))
                               /\ Queue(c, l) = <<>> => Queue(c, l)' = <<>>
  <2> SUFFICES ASSUME NEW l \in 0 .. MaxConns
               PROVE  /\ Rising(Queue(c, l)')
                      /\ Elements(Queue(c, l)') \subseteq Elements(Queue(c, l))
                      /\ Queue(c, l) = <<>> => Queue(c, l)' = <<>>
    OBVIOUS
  <2>1. Rising(Queue(c, l))
    BY DEF CInv, QueuesOrdered
  <2> QED BY <2>1
<1>2. conn[c] \in 0 .. MaxConns
  BY Numbers
<1>3. Elements(CurrentQueue(c)') \subseteq Elements(CurrentQueue(c))
  BY <1>1, <1>2 DEF CurrentQueue, Queue
<1>4. QueuesOrdered(c)'
  BY <1>1 DEF CInv, QueuesOrdered
<1> QED BY <1>3, <1>4

\* The request at the head leaves the queue, alone or with all behind it.
LEMMA HeadLeaves ==
  ASSUME TypeOK, NEW c \in Clients, CInv(c), NEW k \in 0 .. MaxConns,
         Queue(c, k) # <<>>, Queue(c, k)' \in {Tail(Queue(c, k)), <<>>},
         \A l \in 0 .. MaxConns : <<c, l>> # <<c, k>> => Queue(c, l)' = Queue(c, l),
         UNCHANGED <<phase, call, connected, conn, repliesCut, readMsg, outcome, timedOut>>,
         requestsCut' \subseteq requestsCut \cup {<<c, k>>},
         \/ replies'[c] = replies[c]
         \/ Answering(c, k) /\ replies'[c] = Append(replies[c], ReplyTo(Head(Queue(c, k))))
  PROVE  CInv(c)'
<1> DEFINE q == Queue(c, k)
           r == Head(q)
           m == ReplyTo(r)
<1>1. /\ q # <<>> /\ q' \in {Tail(q), <<>>}
      /\ \A l \in 0 .. MaxConns : l # k => Queue(c, l)' = Queue(c, l)
      /\ UNCHANGED <<phase, call, connected, conn, readMsg, outcome, timedOut>>
      /\ \/ replies'[c] = replies[c]
         \/ Answering(c, k) /\ replies'[c] = Append(replies[c], m)
      /\ OutOfStep(c)' <=> OutOfStep(c)
  BY DEF OutOfStep, Current
<1>2. /\ call[c].n \in Nat /\ conn[c] \in 0 .. MaxConns /\ q \in Seq(Requests)
      /\ replies[c] \in Seq(Messages)
  BY Numbers
<1>3. /\ r \in Requests /\ r \in Elements(q) /\ Elements(q') \subseteq Elements(q)
      /\ Rising(q') /\ \A e \in Elements(q') : r.n < e.n
  <2>1. Rising(q)
    BY DEF CInv, QueuesOrdered
  <2>2. /\ r \in Requests /\ r \in Elements(q) /\ Elements(Tail(q)) \subseteq Elements(q)
        /\ Rising(Tail(q)) /\ \A e \in Elements(Tail(q)) : r.n < e.n
    BY <1>1, <1>2, <2>1, Tailed
  <2> HIDE DEF q, r
  <2>3. CASE q' = Tail(q)
    BY <2>2, <2>3
  <2>4. CASE q' = <<>>
    BY <2>2, <2>4, Emptied
  <2> QED BY <1>1, <2>3, <2>4 DEF r
<1>4. m.n = r.n /\ m.op = r.op /\ m \in Messages
  <2>1. r.n \in 1 .. MaxCalls /\ r.op \in {"get", "set"} /\ r.key \in Keys
    BY <1>3 DEF Requests
  <2>2. dataMap[r.key] \in Values \cup {NoValue, Garbled}
    BY <2>1 DEF TypeOK
  <2> HIDE DEF r
  <2> QED BY <2>1, <2>2 DEF ReplyTo, Messages
<1> HIDE DEF q, r, m
<1>5. QueuesOrdered(c)' /\ Elements(CurrentQueue(c)') \subseteq Elements(CurrentQueue(c))
  BY <1>1, <1>3, QueuesShrink DEF q
<1>6. k = conn[c] => q = CurrentQueue(c) /\ q' = CurrentQueue(c)'
  BY <1>1 DEF q, CurrentQueue, Queue
<1>7. \/ replies'[c] = replies[c]
      \/ /\ replies'[c] = Append(replies[c], m) /\ Answering(c, k)
         /\ Elements(replies'[c]) = Elements(replies[c]) \cup {m}
         /\ Rising(replies'[c])
         /\ r \in Elements(CurrentQueue(c))
         /\ \A e \in Elements(CurrentQueue(c)') : m.n < e.n
  <2>1. k = conn[c] => \A e \in Elements(replies[c]) : e.n < m.n
    BY <1>3, <1>4, <1>6 DEF CInv, RepliesOrdered
  <2> SUFFICES ASSUME Answering(c, k), replies'[c] = Append(replies[c], m)
               PROVE  /\ Elements(replies'[c]) = Elements(replies[c]) \cup {m}
                      /\ Rising(replies'[c])
                      /\ r \in Elements(CurrentQueue(c))
                      /\ \A e \in Elements(CurrentQueue(c)') : m.n < e.n
    BY <1>1
  <2>2. k = conn[c]
    BY DEF Answering
  <2>3. Elements(replies'[c]) = Elements(replies[c]) \cup {m} /\ Rising(replies'[c])
    BY <1>2, <1>4, <2>1, <2>2, Appended DEF CInv, RepliesOrdered
  <2> QED BY <1>3, <1>4, <1>6, <2>2, <2>3
<1>8. RepliesOrdered(c)'
  <2>1. /\ Rising(replies'[c])
        /\ \A e \in Elements(replies'[c]) :
             /\ readMsg[c].n < e.n /\ e.n <= call[c].n
             /\ e.n = call[c].n => e.op = call[c].op
    BY <1>4, <1>7 DEF CInv, RepliesOrdered, QueuesOrdered, CurrentQueue, Answering
  <2>2. \A e \in Elements(replies'[c]), s \in Elements(CurrentQueue(c)') : e.n < s.n
    BY <1>5, <1>7 DEF CInv, RepliesOrdered
  <2> QED BY <1>1, <1>5, <2>1, <2>2 DEF CInv, RepliesOrdered
<1>9. UsedOnce(c)'
  BY <1>1, <1>4, <1>5, <1>7 DEF CInv, UsedOnce
<1>10. Fresh(c)' /\ InCall(c)'
  BY <1>1, <1>4, <1>5, <1>7 DEF CInv, Fresh, InCall, Answering
<1>11. Strays(c)'
  <2>1. k <= conn[c]
    BY <1>1, <1>2 DEF CInv, QueuesOrdered, q
  <2> QED BY <1>1, <1>7, <2>1 DEF CInv, Strays, Answering
<1> QED BY <1>5, <1>8, <1>9, <1>10, <1>11 DEF CInv

LEMMA ServeKeeps ==
  ASSUME TypeOK, NEW c \in Clients, CInv(c), NEW k \in 0 .. MaxConns,
         Serve(<<c, k>>) \/ ServeCutRequest(<<c, k>>)
  PROVE  CInv(c)' /\ \A d \in Clients : d # c => SameClient(d)
<1>1. /\ Queue(c, k) # <<>> /\ Queue(c, k)' \in {Tail(Queue(c, k)), <<>>}
      /\ \A d \in Clients, l \in 0 .. MaxConns : <<d, l>> # <<c, k>> => Queue(d, l)' = Queue(d, l)
      /\ UNCHANGED <<phase, call, connected, conn, repliesCut, readMsg, outcome, timedOut>>
      /\ requestsCut \subseteq requestsCut' /\ requestsCut' \subseteq requestsCut \cup {<<c, k>>}
      /\ \/ replies'[c] = replies[c]
         \/ Answering(c, k) /\ replies'[c] = Append(replies[c], ReplyTo(Head(Queue(c, k))))
      /\ \A d \in Clients : d # c => replies'[d] = replies[d]
  <2>1. CASE Serve(<<c, k>>)
    BY <2>1, ServeTakes
  <2>2. CASE ServeCutRequest(<<c, k>>)
    BY <2>2, ServeCutTakes
  <2> QED BY <2>1, <2>2
<1>2. CInv(c)'
  BY <1>1, HeadLeaves
<1>3. ASSUME NEW d \in Clients, d # c PROVE SameClient(d)
  BY <1>1, <1>3 DEF SameClient
<1> QED BY <1>2, <1>3

\* What the server does on its own leaves the client out of step, if it is still on
\* this connection.
LEMMA ServeGarbageKeeps ==
  ASSUME TypeOK, NEW c \in Clients, CInv(c), NEW k \in 0 .. MaxConns, ServeGarbage(<<c, k>>)
  PROVE  /\ CInv(c)' /\ \A d \in Clients : d # c => SameClient(d)
         /\ replies'[c] = IF k = conn[c] THEN <<>> ELSE replies[c]
         /\ OutOfStep(c)' <=> OutOfStep(c) \/ k = conn[c]
<1> DEFINE x == <<c, k>>
<1>1. /\ UNCHANGED <<phase, call, connected, conn, broken, requests, requestsCut, readMsg, outcome, timedOut>>
      /\ x \in requestsCut /\ repliesCut' = repliesCut \cup {x}
      /\ replies' = IF k = conn[c] THEN [replies EXCEPT ![c] = <<>>] ELSE replies
  BY DEF ServeGarbage, Current
<1>2. /\ replies'[c] = IF k = conn[c] THEN <<>> ELSE replies[c]
      /\ \A d \in Clients : d # c => replies'[d] = replies[d]
  BY <1>1 DEF TypeOK
<1>3. OutOfStep(c)' <=> OutOfStep(c) \/ k = conn[c]
  BY <1>1 DEF OutOfStep, Current
<1>4. k <= conn[c]
  BY <1>1 DEF CInv, Strays
<1>5. /\ \A d \in Clients, l \in 0 .. MaxConns : Queue(d, l)' = Queue(d, l)
      /\ CurrentQueue(c)' = CurrentQueue(c)
  BY <1>1 DEF CurrentQueue, Queue
<1>6. Rising(replies'[c]) /\ Elements(replies'[c]) \subseteq Elements(replies[c])
  BY <1>2, Emptied DEF CInv, RepliesOrdered
<1>7. QueuesOrdered(c)' /\ RepliesOrdered(c)' /\ UsedOnce(c)'
  BY <1>1, <1>5, <1>6 DEF CInv, QueuesOrdered, RepliesOrdered, UsedOnce
<1>8. Fresh(c)' /\ InCall(c)'
  BY <1>1, <1>2, <1>3, <1>5 DEF CInv, Fresh, InCall
<1>9. Strays(c)'
  BY <1>1, <1>2, <1>3, <1>4 DEF CInv, Strays
<1>10. ASSUME NEW d \in Clients, d # c PROVE SameClient(d)
  BY <1>1, <1>2, <1>5, <1>10 DEF SameClient
<1> QED BY <1>2, <1>3, <1>7, <1>8, <1>9, <1>10 DEF CInv

LEMMA HangUpKeeps ==
  ASSUME TypeOK, NEW c \in Clients, CInv(c), NEW k \in 0 .. MaxConns, HangUp(<<c, k>>)
  PROVE  CInv(c)' /\ \A d \in Clients : d # c => SameClient(d)
<1> DEFINE x == <<c, k>>
<1>1. x \in Connections /\ \A d \in Clients : x = Current(d) <=> d = c /\ k = conn[c]
  BY DEF Connections, Current
<1>2. /\ UNCHANGED <<phase, call, connected, conn, requestsCut, repliesCut, readMsg, outcome, timedOut,
                     dataMap>>
      /\ requests' = [requests EXCEPT ![x] = <<>>]
      /\ replies' = replies \/ (k = conn[c] /\ replies' = [replies EXCEPT ![c] = <<>>])
      /\ OutOfStep(c)' <=> OutOfStep(c)
  BY <1>1 DEF HangUp, cuts, OutOfStep, Current
<1>3. /\ Queue(c, k)' = <<>>
      /\ \A d \in Clients, l \in 0 .. MaxConns : <<d, l>> # <<c, k>> => Queue(d, l)' = Queue(d, l)
  BY <1>1, <1>2 DEF Queue, TypeOK, Connections
<1>4. /\ replies'[c] = replies[c] \/ replies'[c] = <<>>
      /\ \A d \in Clients : d # c => replies'[d] = replies[d]
  BY <1>2 DEF TypeOK
<1>5. QueuesOrdered(c)' /\ Elements(CurrentQueue(c)') \subseteq Elements(CurrentQueue(c))
  BY <1>2, <1>3, Emptied, QueuesShrink
<1>6. Rising(replies'[c]) /\ Elements(replies'[c]) \subseteq Elements(replies[c])
  BY <1>4, Emptied DEF CInv, RepliesOrdered
<1>7. RepliesOrdered(c)'
  BY <1>2, <1>5, <1>6 DEF CInv, RepliesOrdered
<1>8. UsedOnce(c)'
  BY <1>2, <1>5, <1>6 DEF CInv, UsedOnce
<1>9. Fresh(c)' /\ InCall(c)' /\ Strays(c)'
  BY <1>2, <1>4, <1>5, <1>6 DEF CInv, Fresh, InCall, Strays
<1>10. ASSUME NEW d \in Clients, d # c PROVE SameClient(d)
  BY <1>2, <1>3, <1>4, <1>10 DEF SameClient
<1> QED BY <1>5, <1>7, <1>8, <1>9, <1>10 DEF CInv
-----------------------------------------------------------------------------
(* The inductive invariant *)

LEMMA ClientKeeps ==
  ASSUME IInv, NEW c \in Clients, Client(c)
  PROVE  CInv(c)' /\ \A d \in Clients : d # c => SameClient(d)
BY ConnectKeeps, DisconnectKeeps, CallKeeps, ReadKeeps, ReadNothingKeeps DEF IInv, Client, Reading, Ending

LEMMA ServerKeeps ==
  ASSUME IInv, NEW x \in Connections, Server(x)
  PROVE  \E c \in Clients : CInv(c)' /\ \A d \in Clients : d # c => SameClient(d)
<1>1. PICK c \in Clients, k \in 0 .. MaxConns : x = <<c, k>>
  BY DEF Connections
<1>2. Serve(<<c, k>>) \/ ServeCutRequest(<<c, k>>) \/ ServeGarbage(<<c, k>>) \/ HangUp(<<c, k>>)
  BY <1>1 DEF Server
<1> QED BY <1>2, ServeKeeps, ServeGarbageKeeps, HangUpKeeps DEF IInv

\* One step disturbs one client, and keeps its numbers in order.
LEMMA StepClient ==
  ASSUME IInv, Next
  PROVE  \E c \in Clients : CInv(c)' /\ \A d \in Clients : d # c => SameClient(d)
BY ClientKeeps, ServerKeeps DEF Next

LEMMA StepIInv ==
  ASSUME IInv, Next
  PROVE  IInv'
<1>1. TypeOK /\ TypeOK'
  BY StepTypeOK DEF IInv
<1>2. PICK c \in Clients : CInv(c)' /\ \A d \in Clients : d # c => SameClient(d)
  BY StepClient
<1>3. ASSUME NEW d \in Clients PROVE CInv(d)'
  BY <1>1, <1>2, Kept DEF IInv
<1> QED BY <1>1, <1>3 DEF IInv

LEMMA StutterIInv ==
  ASSUME IInv, UNCHANGED vars
  PROVE  IInv'
<1>1. TypeOK'
  BY DEF IInv, TypeOK, vars, cuts
<1>2. ASSUME NEW c \in Clients PROVE SameClient(c)
  BY DEF vars, cuts, SameClient, Queue
<1> QED BY <1>1, <1>2, Kept DEF IInv

\* On every connection the numbers of the calls rise from what the client has
\* read to what the server has not read, and a connection on which no call went
\* without a reply holds nothing but the call in progress.
THEOREM SessionInductive == Spec => []IInv
<1>1. Init => IInv
  BY InitTypeOK, InitCInv DEF IInv
<1>2. IInv /\ [Next]_vars => IInv'
  BY StepIInv, StutterIInv
<1> QED BY <1>1, <1>2, PTL DEF Spec
-----------------------------------------------------------------------------
(* The properties *)

\* The variables of clients and server keep their types, for any number of calls
\* and connections.
THEOREM SessionTypeCorrect == Spec => []TypeOK
<1>1. IInv => TypeOK
  BY DEF IInv
<1> QED BY <1>1, SessionInductive, PTL

\* Three rising parts, each below the next one.
LEMMA PipeRises ==
  ASSUME NEW h \in Nat, NEW u \in Seq(Nat), NEW v \in Seq(Nat), NEW top \in Nat, h <= top,
         \A i, j \in 1 .. Len(u) : i < j => u[i] < u[j],
         \A i, j \in 1 .. Len(v) : i < j => v[i] < v[j],
         \A i \in 1 .. Len(u) : h < u[i] /\ u[i] <= top,
         \A i \in 1 .. Len(v) : h < v[i] /\ v[i] <= top,
         \A i \in 1 .. Len(u), j \in 1 .. Len(v) : u[i] < v[j],
         NEW p, p = <<h>> \o u \o v
  PROVE  /\ \A i, j \in 1 .. Len(p) : i < j => p[i] < p[j]
         /\ \A i \in 1 .. Len(p) : p[i] <= top
<1> DEFINE f == <<h>> \o u
<1>1. /\ f \in Seq(Nat) /\ Len(f) = 1 + Len(u) /\ Len(u) \in Nat /\ Len(v) \in Nat
      /\ f[1] = h /\ \A i \in 2 .. Len(f) : f[i] = u[i - 1]
  <2>1. <<h>> \in Seq(Nat) /\ Len(<<h>>) = 1 /\ <<h>>[1] = h
    OBVIOUS
  <2> QED BY <2>1, ConcatProperties
<1> HIDE DEF f
<1>2. /\ Len(p) = Len(f) + Len(v)
      /\ \A i \in 1 .. Len(f) : p[i] = f[i]
      /\ \A i \in Len(f) + 1 .. Len(p) : p[i] = v[i - Len(f)]
  <2>1. p = f \o v
    BY DEF f
  <2> QED BY <1>1, <2>1, ConcatProperties, SMTT(90)
<1>3. ASSUME NEW i \in 1 .. Len(p)
      PROVE  /\ i \in Nat /\ i > 0
             /\ i = 1 => p[i] = h
             /\ i > 1 /\ i <= Len(f) => i - 1 \in 1 .. Len(u) /\ p[i] = u[i - 1]
             /\ i > Len(f) => i - Len(f) \in 1 .. Len(v) /\ p[i] = v[i - Len(f)]
  BY <1>1, <1>2, SMTT(30)
<1>4. ASSUME NEW i \in 1 .. Len(p), NEW j \in 1 .. Len(p), i < j PROVE p[i] < p[j]
  <2>1. CASE i = 1
    <3>1. p[i] = h
      BY <1>3, <2>1
    <3>2. CASE j <= Len(f)
      <4>1. j > 1
        BY <1>3, <1>4, <2>1
      <4>2. j - 1 \in 1 .. Len(u) /\ p[j] = u[j - 1]
        BY <1>3, <3>2, <4>1
      <4> QED BY <3>1, <4>2
    <3>3. CASE j > Len(f)
      <4>1. j - Len(f) \in 1 .. Len(v) /\ p[j] = v[j - Len(f)]
        BY <1>3, <3>3
      <4> QED BY <3>1, <4>1
    <3>4. j \in Nat /\ Len(f) \in Nat
      BY <1>1, <1>3
    <3>5. j <= Len(f) \/ j > Len(f)
      BY <3>4
    <3> QED BY <3>2, <3>3, <3>5
  <2>2. CASE i > 1 /\ j <= Len(f)
    <3>1. i - 1 \in 1 .. Len(u) /\ j - 1 \in 1 .. Len(u) /\ i - 1 < j - 1
      BY <1>1, <1>3, <1>4, <2>2
    <3>2. i > 1 /\ i <= Len(f) /\ j > 1
      BY <1>1, <1>3, <1>4, <2>2
    <3>3. p[i] = u[i - 1] /\ p[j] = u[j - 1]
      BY <1>3, <2>2, <3>2
    <3> QED BY <3>1, <3>3
  <2>3. CASE i > 1 /\ i <= Len(f) /\ j > Len(f)
    <3>1. i - 1 \in 1 .. Len(u) /\ p[i] = u[i - 1]
      BY <1>3, <2>3
    <3>2. j - Len(f) \in 1 .. Len(v) /\ p[j] = v[j - Len(f)]
      BY <1>3, <2>3
    <3> QED BY <3>1, <3>2
  <2>4. CASE i > Len(f)
    <3>1. i - Len(f) \in 1 .. Len(v) /\ p[i] = v[i - Len(f)]
      BY <1>3, <2>4
    <3>2. j > Len(f) /\ i - Len(f) < j - Len(f)
      BY <1>1, <1>3, <1>4, <2>4
    <3>3. j - Len(f) \in 1 .. Len(v) /\ p[j] = v[j - Len(f)]
      BY <1>3, <3>2
    <3> QED BY <3>1, <3>2, <3>3
  <2>5. i = 1 \/ (i > 1 /\ j <= Len(f)) \/ (i > 1 /\ i <= Len(f) /\ j > Len(f)) \/ i > Len(f)
    BY <1>1, <1>3
  <2> QED BY <2>1, <2>2, <2>3, <2>4, <2>5
<1>5. ASSUME NEW i \in 1 .. Len(p) PROVE p[i] <= top
  BY <1>3
<1> QED BY <1>4, <1>5

\* What a client has read, what is on its way to it and what the server has still
\* to read of its connection are in the order of the calls.
THEOREM PipelineOrdered == Spec => []PipelineInOrder
<1>1. ASSUME IInv, NEW c \in Clients, NEW u, NEW v,
             u = [i \in 1 .. Len(replies[c]) |-> replies[c][i].n],
             v = [i \in 1 .. Len(requests[Current(c)]) |-> requests[Current(c)][i].n],
             NEW p, p = <<readMsg[c].n>> \o u \o v
      PROVE  /\ \A i, j \in 1 .. Len(p) : i < j => p[i] < p[j]
             /\ \A i \in 1 .. Len(p) : p[i] <= call[c].n
  <2> DEFINE a == replies[c]
             b == CurrentQueue(c)
  <2>1. /\ b = requests[Current(c)] /\ b \in Seq(Requests) /\ a \in Seq(Messages)
        /\ readMsg[c].n \in Nat /\ call[c].n \in Nat /\ conn[c] \in 0 .. MaxConns
        /\ \A e \in Elements(a) : e.n \in Nat
        /\ \A e \in Elements(b) : e.n \in Nat
    BY <1>1, Numbers DEF IInv, CurrentQueue, Queue, Current
  <2>2. /\ Len(a) \in Nat /\ \A i \in 1 .. Len(a) : a[i] \in Elements(a)
        /\ Len(b) \in Nat /\ \A i \in 1 .. Len(b) : b[i] \in Elements(b)
    BY <2>1 DEF Elements
  <2>3. /\ \A i, j \in 1 .. Len(a) : i < j => a[i].n < a[j].n
        /\ \A i, j \in 1 .. Len(b) : i < j => b[i].n < b[j].n
    BY <1>1, <2>1 DEF IInv, CInv, RepliesOrdered, QueuesOrdered, Rising, CurrentQueue
  <2>4. /\ readMsg[c].n <= call[c].n
        /\ \A e \in Elements(a) : readMsg[c].n < e.n /\ e.n <= call[c].n
        /\ \A e \in Elements(b) : readMsg[c].n < e.n /\ e.n <= call[c].n
        /\ \A e \in Elements(a), s \in Elements(b) : e.n < s.n
    BY <1>1, <2>1 DEF IInv, CInv, RepliesOrdered, QueuesOrdered, CurrentQueue
  <2>5. /\ u = [i \in 1 .. Len(a) |-> a[i].n] /\ v = [i \in 1 .. Len(b) |-> b[i].n]
    BY <1>1, <2>1
  <2> HIDE DEF a, b
  <2>6. /\ u \in Seq(Nat) /\ Len(u) = Len(a) /\ \A i \in 1 .. Len(a) : u[i] = a[i].n
        /\ v \in Seq(Nat) /\ Len(v) = Len(b) /\ \A i \in 1 .. Len(b) : v[i] = b[i].n
    BY <2>1, <2>2, <2>5
  <2>7. /\ \A i, j \in 1 .. Len(u) : i < j => u[i] < u[j]
        /\ \A i, j \in 1 .. Len(v) : i < j => v[i] < v[j]
        /\ \A i \in 1 .. Len(u) : readMsg[c].n < u[i] /\ u[i] <= call[c].n
        /\ \A i \in 1 .. Len(v) : readMsg[c].n < v[i] /\ v[i] <= call[c].n
        /\ \A i \in 1 .. Len(u), j \in 1 .. Len(v) : u[i] < v[j]
    BY <2>2, <2>3, <2>4, <2>6
  <2>8. p = <<readMsg[c].n>> \o u \o v /\ readMsg[c].n <= call[c].n
    BY <1>1, <2>4
  <2>9. readMsg[c].n \in Nat /\ call[c].n \in Nat /\ u \in Seq(Nat) /\ v \in Seq(Nat)
    BY <2>1, <2>6
  <2> DEFINE h == readMsg[c].n
             top == call[c].n
  <2> HIDE DEF h, top
  <2>10. /\ \A i, j \in 1 .. Len(p) : i < j => p[i] < p[j]
         /\ \A i \in 1 .. Len(p) : p[i] <= top
    <3>1. h \in Nat /\ top \in Nat /\ h <= top /\ p = <<h>> \o u \o v
      BY <2>8, <2>9 DEF h, top
    <3>2. /\ \A i \in 1 .. Len(u) : h < u[i] /\ u[i] <= top
          /\ \A i \in 1 .. Len(v) : h < v[i] /\ v[i] <= top
      BY <2>7 DEF h, top
    <3> QED BY <2>7, <2>9, <3>1, <3>2, PipeRises
  <2> QED BY <2>10 DEF top
<1>2. IInv => PipelineInOrder
  BY <1>1, ZenonT(60) DEF PipelineInOrder
<1> QED BY <1>2, SessionInductive, PTL

\* As long as no call on the connection has timed out there is no stale reply,
\* neither in _readMsg nor on the way.
THEOREM StaleRepliesFollowTimeouts == Spec => []StaleOnlyAfterTimeout
<1>1. IInv => StaleOnlyAfterTimeout
  BY DEF IInv, CInv, Fresh, OutOfStep, StaleOnlyAfterTimeout, Elements
<1> QED BY <1>1, SessionInductive, PTL

LEMMA OnlyReadsEnd ==
  ASSUME IInv, Next, NEW c \in Clients, phase[c] = "reading", phase'[c] = "idle"
  PROVE  Ending(c)
<1>1. ASSUME NEW d \in Clients, Client(d) PROVE Ending(c)
  <2>1. d = c
    BY <1>1, ClientKeeps DEF SameClient
  <2>2. ~ Connect(c) /\ ~ Disconnect(c) /\ ~ Calling(c)
    BY DEF Connect, Disconnect, Calling, Call
  <2>3. ~ ReadNothing(c)
    BY DEF ReadNothing, IInv, TypeOK
  <2> QED BY <1>1, <2>1, <2>2, <2>3 DEF Client, Reading, Ending
<1>2. ASSUME NEW x \in Connections, Server(x) PROVE FALSE
  BY <1>2 DEF Server, Serve, ServeCutRequest, ServeGarbage, HangUp
<1> QED BY <1>1, <1>2 DEF Next

\* OnReceivedMessage keeps one message and Get and Set reset it: no reply is the
\* answer to two calls.
THEOREM RepliesUsedOnce == Spec => NoReplyUsedTwice
<1>1. ASSUME IInv, Next, NEW c \in Clients, phase[c] = "reading", phase'[c] = "idle", outcome'[c].n # 0
      PROVE  outcome'[c].n # outcome[c].n /\ readMsg'[c].n # outcome'[c].n
  <2>1. outcome[c].n \in Nat /\ outcome[c].n < outcome'[c].n /\ readMsg'[c].n # outcome'[c].n
    BY <1>1, OnlyReadsEnd, ReadKeeps, Numbers DEF IInv
  <2>2. outcome'[c].n \in Nat
    <3>1. TypeOK'
      BY <1>1, StepTypeOK DEF IInv
    <3> QED BY <3>1 DEF TypeOK
  <2> QED BY <2>1, <2>2
<1>2. IInv /\ [Next]_vars =>
        [\A c \in Clients :
           phase[c] = "reading" /\ phase'[c] = "idle" /\ outcome'[c].n # 0 =>
             /\ outcome'[c].n # outcome[c].n
             /\ readMsg'[c].n # outcome'[c].n]_vars
  BY <1>1
<1> QED BY <1>2, SessionInductive, PTL DEF Spec, NoReplyUsedTwice
-----------------------------------------------------------------------------
(* The clients and the server implement KVStore *)

\* The refinement mapping, client by client.
InCallOf(c) == IF phase[c] = "idle" THEN NoRequest ELSE call[c]
CallOf      == [c \in Clients |-> InCallOf(c)]
AnswersOf   == [c \in Clients |-> AnswerOf(c)]
ResultOf(c) == [ok |-> outcome[c].ok, value |-> outcome[c].value]
ResultsOf   == [c \in Clients |-> ResultOf(c)]
Unsettled   == UNION {GivenUp(x) : x \in Connections}
Doubtful    == {c \in Clients : OutOfStep(c)}
Astray      == requestsCut \ broken # {}

\* All the requests of a client that the server has not read, and those of them
\* that are given up.
Queued(c) == UNION {Elements(Queue(c, k)) : k \in 0 .. MaxConns}
Late(c)   == {r \in Queued(c) : r.op = "set" /\ Parse(r) /\ ~ InProgress(c, r)}

LEMMA StoreVars ==
  UNCHANGED Store!vars <=>
    UNCHANGED <<dataMap, CallOf, AnswersOf, ResultsOf, Unsettled, Doubtful, Astray>>
BY DEF Store!vars, CallOf, AnswersOf, ResultsOf, ResultOf, InCallOf, Unsettled, Doubtful, OutOfStep, Astray

LEMMA InvokeIs ==
  ASSUME NEW c \in Clients, CallOf[c] = NoRequest,
         NEW req \in Requests, CallOf' = [CallOf EXCEPT ![c] = req],
         NEW a \in {NoAnswer("pending"), NoAnswer("lost")}, AnswersOf' = [AnswersOf EXCEPT ![c] = a],
         UNCHANGED <<dataMap, ResultsOf, Unsettled, Doubtful, Astray>>
  PROVE  Store!Next
<1>1. req = [n |-> req.n, op |-> req.op, key |-> req.key, value |-> req.value]
  BY DEF Requests
<1>2. req.n \in 1 .. MaxCalls /\ req.op \in {"get", "set"} /\ req.key \in Keys /\ req.value \in Values \cup {NoValue}
  BY DEF Requests
<1>3. \E n \in 1 .. MaxCalls, op \in {"get", "set"}, key \in Keys, v \in Values \cup {NoValue} :
        CallOf' = [CallOf EXCEPT ![c] = [n |-> n, op |-> op, key |-> key, value |-> v]]
  BY <1>1, <1>2
<1>4. Store!Invoke(c)
  BY <1>3 DEF Store!Invoke, CallOf, AnswersOf, ResultsOf, ResultOf, InCallOf, Unsettled, Doubtful,
              OutOfStep, Astray
<1> QED BY <1>4 DEF Store!Next

LEMMA EffectIs ==
  ASSUME NEW c \in Clients, CallOf[c] # NoRequest, AnswersOf[c] = NoAnswer("pending"), Parse(CallOf[c]),
         dataMap' = Store!After(CallOf[c], dataMap),
         AnswersOf' = [AnswersOf EXCEPT ![c] = IF c \in Doubtful THEN NoAnswer("lost")
                                               ELSE Store!AnswerTo(CallOf[c], dataMap)],
         UNCHANGED <<CallOf, ResultsOf, Unsettled, Doubtful, Astray>>
  PROVE  Store!Next
<1>1. Store!Effect(c)
  BY DEF Store!Effect, Store!Valid, Parse, CallOf, AnswersOf, ResultsOf, ResultOf, InCallOf, Unsettled,
         Doubtful, OutOfStep, Astray
<1> QED BY <1>1 DEF Store!Next

LEMMA LateEffectIs ==
  ASSUME NEW w \in Unsettled, dataMap' = Store!After(w[2], dataMap), Unsettled' = Unsettled \ {w},
         UNCHANGED <<CallOf, AnswersOf, ResultsOf, Doubtful, Astray>>
  PROVE  Store!Next
<1>1. Store!LateEffect
  BY DEF Store!LateEffect, CallOf, AnswersOf, ResultsOf, ResultOf, InCallOf, Unsettled, Doubtful,
         OutOfStep, Astray
<1> QED BY <1>1 DEF Store!Next

LEMMA LoseIs ==
  ASSUME NEW lost \in SUBSET Clients,
         AnswersOf' = [c \in Clients |-> IF c \in lost THEN NoAnswer("lost") ELSE AnswersOf[c]],
         Unsettled' \in SUBSET Unsettled, UNCHANGED <<dataMap, CallOf, ResultsOf, Doubtful>>
  PROVE  Store!Next
<1>1. (requestsCut' \ broken' # {}) \in BOOLEAN
  OBVIOUS
<1>2. Store!Lose
  BY <1>1 DEF Store!Lose, CallOf, AnswersOf, ResultsOf, ResultOf, InCallOf, Unsettled, Doubtful, OutOfStep
<1> QED BY <1>2 DEF Store!Next

LEMMA CutEffectIs ==
  ASSUME NEW c \in Clients, CallOf[c] # NoRequest, CallOf[c].op = "set",
         AnswersOf[c] = NoAnswer("pending"), Parse(CallOf[c]),
         dataMap' = Store!AfterCut(CallOf[c].key, dataMap),
         AnswersOf' = [AnswersOf EXCEPT ![c] = IF c \in Doubtful THEN NoAnswer("lost")
                                               ELSE Store!AnswerTo(CallOf[c], dataMap)],
         Unsettled' \in SUBSET Unsettled, Astray', UNCHANGED <<CallOf, ResultsOf, Doubtful>>
  PROVE  Store!Next
<1>1. Astray' = TRUE
  BY DEF Astray
<1>2. Store!CutEffect(c)
  BY <1>1 DEF Store!CutEffect, Store!Valid, Parse, CallOf, AnswersOf, ResultsOf, ResultOf, InCallOf,
              Unsettled, Doubtful, OutOfStep, Astray
<1> QED BY <1>2 DEF Store!Next

LEMMA LateCutEffectIs ==
  ASSUME NEW c \in Clients, NEW r, <<c, r>> \in Unsettled, dataMap' = Store!AfterCut(r.key, dataMap),
         AnswersOf' \in {AnswersOf, [AnswersOf EXCEPT ![c] = NoAnswer("lost")]},
         Unsettled' \in SUBSET (Unsettled \ {<<c, r>>}), Astray',
         UNCHANGED <<CallOf, ResultsOf, Doubtful>>
  PROVE  Store!Next
<1> DEFINE w == <<c, r>>
<1>1. Astray' = TRUE
  BY DEF Astray
<1>2. w[1] = c /\ w[2] = r /\ w \in Unsettled /\ Unsettled' \in SUBSET (Unsettled \ {w})
  OBVIOUS
<1> HIDE DEF w
<1>3. Store!LateCutEffect
  BY <1>1, <1>2 DEF Store!LateCutEffect, CallOf, AnswersOf, ResultsOf, ResultOf, InCallOf, Unsettled,
                    Doubtful, OutOfStep, Astray
<1> QED BY <1>3 DEF Store!Next

LEMMA StrayIs ==
  ASSUME NEW c \in Clients, Astray,
         dataMap' \in {dataMap} \cup {Store!AfterCut(k, dataMap) : k \in Keys},
         \/ /\ Doubtful' = Doubtful \cup {c}
            /\ AnswersOf' \in {AnswersOf, [AnswersOf EXCEPT ![c] = NoAnswer("lost")]}
         \/ UNCHANGED <<Doubtful, AnswersOf>>,
         UNCHANGED <<CallOf, ResultsOf, Unsettled, Astray>>
  PROVE  Store!Next
<1>1. Store!Stray(c)
  BY DEF Store!Stray, CallOf, AnswersOf, ResultsOf, ResultOf, InCallOf, Unsettled, Doubtful, OutOfStep, Astray
<1> QED BY <1>1 DEF Store!Next

LEMMA ReturnIs ==
  ASSUME NEW c \in Clients, CallOf[c] # NoRequest, CallOf' = [CallOf EXCEPT ![c] = NoRequest],
         AnswersOf' = [AnswersOf EXCEPT ![c] = NoAnswer("lost")],
         \/ /\ AnswersOf[c] \notin {NoAnswer("pending"), NoAnswer("lost")}
            /\ ResultsOf' = [ResultsOf EXCEPT ![c] = AnswersOf[c]]
            /\ UNCHANGED <<Unsettled, Doubtful>>
         \/ /\ ResultsOf' = [ResultsOf EXCEPT ![c] = [ok |-> FALSE, value |-> NoValue]]
            /\ Unsettled' \in {Unsettled, Unsettled \cup {<<c, CallOf[c]>>}}
            /\ Doubtful' \in {Doubtful, Doubtful \cup {c}},
         UNCHANGED <<dataMap, Astray>>
  PROVE  Store!Next
<1>1. Store!Return(c)
  BY DEF Store!Return, Store!Failed, CallOf, AnswersOf, ResultsOf, ResultOf, InCallOf, Unsettled,
         Doubtful, OutOfStep, Astray
<1> QED BY <1>1 DEF Store!Next

LEMMA ReturnCutIs ==
  ASSUME NEW c \in Clients, CallOf[c] # NoRequest, CallOf[c].op = "get",
         AnswersOf[c] \notin {NoAnswer("pending"), NoAnswer("lost")},
         CallOf' = [CallOf EXCEPT ![c] = NoRequest],
         AnswersOf' = [AnswersOf EXCEPT ![c] = NoAnswer("lost")],
         ResultsOf' = [ResultsOf EXCEPT ![c] = Store!CutAnswer(AnswersOf[c])],
         Doubtful' = Doubtful \cup {c}, UNCHANGED <<dataMap, Unsettled, Astray>>
  PROVE  Store!Next
<1>1. Store!ReturnCut(c)
  BY DEF Store!ReturnCut, CallOf, AnswersOf, ResultsOf, ResultOf, InCallOf, Unsettled, Doubtful,
         OutOfStep, Astray
<1> QED BY <1>1 DEF Store!Next

LEMMA ReturnInDoubtIs ==
  ASSUME NEW c \in Clients, CallOf[c] # NoRequest, c \in Doubtful,
         CallOf' = [CallOf EXCEPT ![c] = NoRequest],
         AnswersOf' = [AnswersOf EXCEPT ![c] = NoAnswer("lost")],
         NEW r \in Store!Results, ResultsOf' = [ResultsOf EXCEPT ![c] = r],
         Unsettled' \in {Unsettled, Unsettled \cup {<<c, CallOf[c]>>}},
         UNCHANGED <<dataMap, Doubtful, Astray>>
  PROVE  Store!Next
<1>1. Store!ReturnInDoubt(c)
  BY DEF Store!ReturnInDoubt, CallOf, AnswersOf, ResultsOf, ResultOf, InCallOf, Unsettled, Doubtful,
         OutOfStep, Astray
<1> QED BY <1>1 DEF Store!Next

LEMMA RenewIs ==
  ASSUME NEW c \in Clients, CallOf[c] = NoRequest, Doubtful' = Doubtful \ {c},
         UNCHANGED <<dataMap, CallOf, AnswersOf, ResultsOf, Unsettled, Astray>>
  PROVE  Store!Next
<1>1. Store!Renew(c)
  BY DEF Store!Renew, CallOf, AnswersOf, ResultsOf, ResultOf, InCallOf, Unsettled, Doubtful, OutOfStep, Astray
<1> QED BY <1>1 DEF Store!Next

LEMMA RefuseIs ==
  ASSUME NEW c \in Clients, CallOf[c] = NoRequest,
         ResultsOf' = [ResultsOf EXCEPT ![c] = [ok |-> FALSE, value |-> NoValue]],
         UNCHANGED <<dataMap, CallOf, AnswersOf, Unsettled, Doubtful, Astray>>
  PROVE  Store!Next
<1>1. Store!Refuse(c)
  BY DEF Store!Refuse, Store!Failed, CallOf, AnswersOf, ResultsOf, ResultOf, InCallOf, Unsettled,
         Doubtful, OutOfStep, Astray
<1> QED BY <1>1 DEF Store!Next

\* The answer to a call, as a function of the requests Q and the replies R on the
\* connection, and of whether a call is in progress and its number.
AnswerFor(Q, R, busy, n) ==
  IF \E r \in Q : busy /\ r.n = n THEN NoAnswer("pending")
  ELSE IF \E m \in R : busy /\ m.n = n
  THEN LET m == CHOOSE m \in R : busy /\ m.n = n IN [ok |-> m.ok, value |-> m.value]
  ELSE NoAnswer("lost")

LEMMA AnswerIs ==
  ASSUME NEW c \in Clients
  PROVE  /\ AnswerOf(c) = AnswerFor(Elements(CurrentQueue(c)), Elements(replies[c]), phase[c] # "idle", call[c].n)
         /\ AnswerOf(c)' = AnswerFor(Elements(CurrentQueue(c)'), Elements(replies'[c]), phase'[c] # "idle", call'[c].n)
BY DEF AnswerOf, AnswerFor, InProgress, CurrentQueue, Queue, Current

LEMMA AnswerPending ==
  ASSUME NEW Q, NEW R, NEW n, NEW r \in Q, r.n = n
  PROVE  AnswerFor(Q, R, TRUE, n) = NoAnswer("pending")
BY DEF AnswerFor

LEMMA AnswerLost ==
  ASSUME NEW Q, NEW R, NEW n, NEW busy, busy => (\A r \in Q : r.n # n) /\ (\A m \in R : m.n # n)
  PROVE  AnswerFor(Q, R, busy, n) = NoAnswer("lost")
BY DEF AnswerFor

\* What empties the queue of a connection, or drops the replies on it, costs a
\* call its answer or nothing.
LEMMA AnswerKeptOrLost ==
  ASSUME TypeOK, NEW c \in Clients, CInv(c), phase'[c] = phase[c], call'[c] = call[c],
         Elements(CurrentQueue(c)') \in {Elements(CurrentQueue(c)), {}},
         Elements(replies'[c]) \in {Elements(replies[c]), {}}
  PROVE  AnswerOf(c)' \in {AnswerOf(c), NoAnswer("lost")}
<1> DEFINE Q == Elements(CurrentQueue(c))
           R == Elements(replies[c])
           P == Elements(CurrentQueue(c)')
           S == Elements(replies'[c])
           busy == phase[c] # "idle"
           n == call[c].n
<1>1. AnswerOf(c) = AnswerFor(Q, R, busy, n) /\ AnswerOf(c)' = AnswerFor(P, S, busy, n)
  BY AnswerIs
<1>2. \A m \in R, e \in Q : m.n < e.n /\ m.n \in Nat /\ e.n \in Nat
  BY Numbers DEF CInv, RepliesOrdered, CurrentQueue
<1>3. P \in {Q, {}} /\ S \in {R, {}}
  OBVIOUS
<1> HIDE DEF Q, R, P, S, busy, n
<1>4. (\A m \in R : m.n # n) \/ (\A e \in Q : e.n # n)
  BY <1>2
<1>5. CASE \A m \in R : m.n # n
  <2>1. CASE P = Q
    BY <1>1, <1>3, <1>5, <2>1 DEF AnswerFor
  <2>2. CASE P = {}
    BY <1>1, <1>3, <1>5, <2>2, AnswerLost
  <2> QED BY <1>3, <2>1, <2>2
<1>6. CASE \A e \in Q : e.n # n
  <2>1. CASE S = R
    BY <1>1, <1>3, <1>6, <2>1 DEF AnswerFor
  <2>2. CASE S = {}
    BY <1>1, <1>3, <1>6, <2>2, AnswerLost
  <2> QED BY <1>3, <2>1, <2>2
<1> QED BY <1>4, <1>5, <1>6

\* An answer tells itself from the absence of one.
LEMMA AnswersDiffer ==
  /\ NoAnswer("pending") # NoAnswer("lost")
  /\ \A ok, v : [ok |-> ok, value |-> v] \notin {NoAnswer("pending"), NoAnswer("lost")}
<1>1. \A ok, v : DOMAIN [ok |-> ok, value |-> v] = {"ok", "value"}
  OBVIOUS
<1>2. \A s : DOMAIN NoAnswer(s) = {"state"}
  BY DEF NoAnswer
<1>3. NoAnswer("pending") # NoAnswer("lost")
  BY DEF NoAnswer
<1>4. "state" # "ok" /\ {"ok", "value"} # {"state"}
  OBVIOUS
<1> QED BY <1>1, <1>2, <1>3, <1>4

LEMMA UnsettledIs ==
  /\ \A w : w \in Unsettled <=> \E c \in Clients : \E r \in Late(c) : w = <<c, r>>
  /\ \A w : w \in Unsettled' <=> \E c \in Clients : \E r \in Late(c)' : w = <<c, r>>
<1>1. \A w : w \in Unsettled <=> \E c \in Clients : \E r \in Late(c) : w = <<c, r>>
  <2>1. ASSUME NEW w \in Unsettled PROVE \E c \in Clients : \E r \in Late(c) : w = <<c, r>>
    <3>1. PICK x \in Connections : w \in GivenUp(x)
      BY <2>1 DEF Unsettled
    <3>2. PICK c \in Clients, k \in 0 .. MaxConns : x = <<c, k>>
      BY DEF Connections
    <3>3. PICK r \in Elements(Queue(c, k)) : r.op = "set" /\ Parse(r) /\ ~ InProgress(c, r) /\ w = <<c, r>>
      BY <3>1, <3>2 DEF GivenUp, Queue
    <3> QED BY <3>3 DEF Late, Queued
  <2>2. ASSUME NEW c \in Clients, NEW r \in Late(c) PROVE <<c, r>> \in Unsettled
    <3>1. PICK k \in 0 .. MaxConns : r \in Elements(Queue(c, k))
      BY <2>2 DEF Late, Queued
    <3>2. r.op = "set" /\ Parse(r) /\ ~ InProgress(c, r)
      BY <2>2 DEF Late
    <3>3. <<c, r>> \in GivenUp(<<c, k>>) /\ <<c, k>> \in Connections
      BY <3>1, <3>2 DEF GivenUp, Queue, Connections
    <3> QED BY <3>3 DEF Unsettled
  <2> QED BY <2>1, <2>2
<1>2. \A w : w \in Unsettled' <=> \E c \in Clients : \E r \in Late(c)' : w = <<c, r>>
  <2>1. ASSUME NEW w \in Unsettled' PROVE \E c \in Clients : \E r \in Late(c)' : w = <<c, r>>
    <3>1. PICK x \in Connections : w \in GivenUp(x)'
      BY <2>1 DEF Unsettled
    <3>2. PICK c \in Clients, k \in 0 .. MaxConns : x = <<c, k>>
      BY DEF Connections
    <3>3. PICK r \in Elements(Queue(c, k)') : r.op = "set" /\ Parse(r) /\ ~ InProgress(c, r)' /\ w = <<c, r>>
      BY <3>1, <3>2 DEF GivenUp, Queue, Parse
    <3> QED BY <3>3 DEF Late, Queued, Parse
  <2>2. ASSUME NEW c \in Clients, NEW r \in Late(c)' PROVE <<c, r>> \in Unsettled'
    <3>1. PICK k \in 0 .. MaxConns : r \in Elements(Queue(c, k)')
      BY <2>2 DEF Late, Queued
    <3>2. r.op = "set" /\ Parse(r) /\ ~ InProgress(c, r)'
      BY <2>2 DEF Late, Parse
    <3>3. <<c, r>> \in GivenUp(<<c, k>>)' /\ <<c, k>> \in Connections
      BY <3>1, <3>2 DEF GivenUp, Queue, Connections, Parse
    <3> QED BY <3>3 DEF Unsettled
  <2> QED BY <2>1, <2>2
<1> QED BY <1>1, <1>2

\* What a step of one client does to the mapped variables.
LEMMA MappedStep ==
  ASSUME TypeOK, NEW c \in Clients, \A d \in Clients : d # c => SameClient(d)
  PROVE  /\ CallOf' = [CallOf EXCEPT ![c] = InCallOf(c)']
         /\ AnswersOf' = [AnswersOf EXCEPT ![c] = AnswerOf(c)']
         /\ ResultsOf' = [ResultsOf EXCEPT ![c] = ResultOf(c)']
         /\ InCallOf(c)' = InCallOf(c) => CallOf' = CallOf
         /\ AnswerOf(c)' = AnswerOf(c) => AnswersOf' = AnswersOf
         /\ ResultOf(c)' = ResultOf(c) => ResultsOf' = ResultsOf
         /\ \A d \in Clients : d # c => Late(d)' = Late(d)
         /\ CallOf[c] = InCallOf(c) /\ AnswersOf[c] = AnswerOf(c)
         /\ Doubtful' = IF OutOfStep(c)' THEN Doubtful \cup {c} ELSE Doubtful \ {c}
         /\ (OutOfStep(c)' <=> OutOfStep(c)) => Doubtful' = Doubtful
<1>1. ASSUME NEW d \in Clients, d # c
      PROVE  /\ InCallOf(d)' = InCallOf(d) /\ ResultOf(d)' = ResultOf(d)
             /\ AnswerOf(d)' = AnswerOf(d) /\ Late(d)' = Late(d)
             /\ OutOfStep(d)' <=> OutOfStep(d)
  <2>1. SameClient(d) /\ conn[d] \in 0 .. MaxConns
    BY <1>1, Numbers
  <2>2. CurrentQueue(d)' = CurrentQueue(d)
    BY <2>1 DEF SameClient, CurrentQueue, Queue
  <2>3. InCallOf(d)' = InCallOf(d) /\ ResultOf(d)' = ResultOf(d)
    BY <2>1 DEF SameClient, InCallOf, ResultOf
  <2>4. AnswerOf(d)' = AnswerOf(d)
    BY <2>1, <2>2, AnswerIs DEF SameClient
  <2>5. Late(d)' = Late(d)
    <3>1. Queued(d)' = Queued(d) /\ phase'[d] = phase[d] /\ call'[d] = call[d]
      BY <2>1 DEF SameClient, Queued
    <3> QED BY <3>1 DEF Late, InProgress, Parse
  <2>6. OutOfStep(d)' <=> OutOfStep(d)
    <3>1. conn'[d] = conn[d] /\ (<<d, conn[d]>> \in repliesCut' <=> <<d, conn[d]>> \in repliesCut)
      BY <2>1 DEF SameClient
    <3> QED BY <3>1 DEF OutOfStep, Current
  <2> QED BY <2>3, <2>4, <2>5, <2>6
<1>2. CallOf' = [CallOf EXCEPT ![c] = InCallOf(c)'] /\ CallOf[c] = InCallOf(c)
  BY <1>1 DEF CallOf
<1>3. AnswersOf' = [AnswersOf EXCEPT ![c] = AnswerOf(c)'] /\ AnswersOf[c] = AnswerOf(c)
  BY <1>1 DEF AnswersOf
<1>4. ResultsOf' = [ResultsOf EXCEPT ![c] = ResultOf(c)']
  BY <1>1 DEF ResultsOf
<1>5. /\ InCallOf(c)' = InCallOf(c) => CallOf' = CallOf
      /\ AnswerOf(c)' = AnswerOf(c) => AnswersOf' = AnswersOf
      /\ ResultOf(c)' = ResultOf(c) => ResultsOf' = ResultsOf
  BY <1>1 DEF CallOf, AnswersOf, ResultsOf
<1>6. /\ Doubtful' = IF OutOfStep(c)' THEN Doubtful \cup {c} ELSE Doubtful \ {c}
      /\ (OutOfStep(c)' <=> OutOfStep(c)) => Doubtful' = Doubtful
  BY <1>1 DEF Doubtful
<1> QED BY <1>1, <1>2, <1>3, <1>4, <1>5, <1>6

LEMMA MappedLate ==
  ASSUME NEW c \in Clients, \A d \in Clients : d # c => Late(d)' = Late(d)
  PROVE  /\ Late(c)' = Late(c) => Unsettled' = Unsettled
         /\ Late(c)' \subseteq Late(c) => Unsettled' \subseteq Unsettled
         /\ \A r : Late(c)' = Late(c) \cup {r} => Unsettled' = Unsettled \cup {<<c, r>>}
         /\ \A r : Late(c)' = Late(c) \ {r} => Unsettled' = Unsettled \ {<<c, r>>}
         /\ \A r : Late(c)' \subseteq Late(c) \ {r} => Unsettled' \subseteq Unsettled \ {<<c, r>>}
<1>1. Late(c)' = Late(c) => Unsettled' = Unsettled
  BY UnsettledIs
<1>2. Late(c)' \subseteq Late(c) => Unsettled' \subseteq Unsettled
  BY UnsettledIs
<1>3. ASSUME NEW r, Late(c)' = Late(c) \cup {r} PROVE Unsettled' = Unsettled \cup {<<c, r>>}
  BY <1>3, UnsettledIs
<1>4. ASSUME NEW r, Late(c)' = Late(c) \ {r} PROVE Unsettled' = Unsettled \ {<<c, r>>}
  BY <1>4, UnsettledIs
<1>5. ASSUME NEW r, Late(c)' \subseteq Late(c) \ {r} PROVE Unsettled' \subseteq Unsettled \ {<<c, r>>}
  BY <1>5, UnsettledIs
<1> QED BY <1>1, <1>2, <1>3, <1>4, <1>5

\* A client that is in no call has no answer in front of it, and all its Set
\* requests are given up.
LEMMA Idle ==
  ASSUME NEW c \in Clients
  PROVE  /\ phase[c] = "idle" =>
              /\ AnswerOf(c) = NoAnswer("lost") /\ InCallOf(c) = NoRequest
              /\ Late(c) = {r \in Queued(c) : r.op = "set" /\ Parse(r)}
         /\ phase'[c] = "idle" =>
              /\ AnswerOf(c)' = NoAnswer("lost") /\ InCallOf(c)' = NoRequest
              /\ Late(c)' = {r \in Queued(c)' : r.op = "set" /\ Parse(r)}
<1>1. /\ phase[c] = "idle" => AnswerOf(c) = NoAnswer("lost")
      /\ phase'[c] = "idle" => AnswerOf(c)' = NoAnswer("lost")
  BY AnswerIs, AnswerLost, ZenonT(30)
<1>2. /\ phase[c] = "idle" => Late(c) = {r \in Queued(c) : r.op = "set" /\ Parse(r)}
      /\ phase'[c] = "idle" => Late(c)' = {r \in Queued(c)' : r.op = "set" /\ Parse(r)}
  BY DEF Late, InProgress, Parse
<1> QED BY <1>1, <1>2 DEF InCallOf

\* In a call, the requests given up are those with another number.
LEMMA Busy ==
  ASSUME NEW c \in Clients
  PROVE  /\ phase[c] # "idle" =>
              /\ InCallOf(c) = call[c]
              /\ Late(c) = {r \in Queued(c) : r.op = "set" /\ Parse(r) /\ r.n # call[c].n}
         /\ phase'[c] # "idle" =>
              /\ InCallOf(c)' = call'[c]
              /\ Late(c)' = {r \in Queued(c)' : r.op = "set" /\ Parse(r) /\ r.n # call'[c].n}
<1>1. /\ phase[c] # "idle" => Late(c) = {r \in Queued(c) : r.op = "set" /\ Parse(r) /\ r.n # call[c].n}
      /\ phase'[c] # "idle" => Late(c)' = {r \in Queued(c)' : r.op = "set" /\ Parse(r) /\ r.n # call'[c].n}
  BY DEF Late, InProgress, Parse
<1> QED BY <1>1 DEF InCallOf

LEMMA QueuedNumbers ==
  ASSUME TypeOK, NEW c \in Clients, CInv(c), NEW r \in Queued(c)
  PROVE  /\ r \in Requests /\ r.n \in Nat /\ r.n <= call[c].n
         /\ r.n = call[c].n => r = call[c] /\ (phase[c] # "idle" => r \in Elements(CurrentQueue(c)))
<1>1. PICK k \in 0 .. MaxConns : r \in Elements(Queue(c, k))
  BY DEF Queued
<1> QED BY <1>1, Numbers DEF CInv, QueuesOrdered, CurrentQueue

\* A new connection is in step, and that is all a caller notices of it.
LEMMA ConnectRefines ==
  ASSUME TypeOK, NEW c \in Clients, CInv(c), Connect(c) \/ Disconnect(c)
  PROVE  Store!Next \/ UNCHANGED Store!vars
<1>1. \A d \in Clients : d # c => SameClient(d)
  BY ConnectKeeps, DisconnectKeeps
<1>2. /\ UNCHANGED <<phase, requests, outcome, dataMap, broken, requestsCut, repliesCut>>
      /\ phase[c] = "idle"
  BY DEF Connect, Disconnect, cuts
<1>3. Queued(c)' = Queued(c) /\ ResultOf(c)' = ResultOf(c) /\ UNCHANGED Astray
  BY <1>2 DEF Queued, Queue, ResultOf, Astray
<1>4. InCallOf(c)' = InCallOf(c) /\ AnswerOf(c)' = AnswerOf(c) /\ Late(c)' = Late(c)
  BY <1>2, <1>3, Idle
<1>5. /\ CallOf' = CallOf /\ AnswersOf' = AnswersOf /\ ResultsOf' = ResultsOf
      /\ CallOf[c] = InCallOf(c)
      /\ ~ OutOfStep(c)' => Doubtful' = Doubtful \ {c}
      /\ (OutOfStep(c)' <=> OutOfStep(c)) => Doubtful' = Doubtful
  BY <1>1, <1>3, <1>4, MappedStep
<1>6. Unsettled' = Unsettled
  <2>1. \A d \in Clients : d # c => Late(d)' = Late(d)
    BY <1>1, MappedStep
  <2> QED BY <1>4, <2>1, MappedLate
<1>7. CallOf[c] = NoRequest
  BY <1>2, <1>5, Idle
<1>8. CASE Connect(c)
  <2>1. conn'[c] = conn[c] + 1 /\ conn'[c] \in 0 .. MaxConns /\ conn[c] \in Nat
    BY <1>8, BoundsAssumption DEF Connect, TypeOK
  <2>2. ~ OutOfStep(c)'
    BY <1>2, <2>1 DEF CInv, Strays, OutOfStep, Current
  <2> QED BY <1>2, <1>3, <1>5, <1>6, <1>7, <2>2, RenewIs
<1>9. CASE Disconnect(c)
  <2>1. OutOfStep(c)' <=> OutOfStep(c)
    BY <1>2, <1>9 DEF Disconnect, OutOfStep, Current
  <2> QED BY <1>2, <1>3, <1>5, <1>6, <2>1, StoreVars
<1> QED BY <1>8, <1>9

\* A call that goes out is invoked, with an answer to come or (when the server has
\* closed the connection) without one for ever; a call that does not is refused.
LEMMA CallRefines ==
  ASSUME TypeOK, NEW c \in Clients, CInv(c), Calling(c)
  PROVE  Store!Next
<1>1. /\ phase[c] = "idle" /\ conn'[c] = conn[c] /\ replies'[c] = replies[c]
      /\ call'[c] \in Requests /\ call'[c].n = call[c].n + 1
      /\ \A k \in 0 .. MaxConns : k # conn[c] => Queue(c, k)' = Queue(c, k)
      /\ \A d \in Clients : d # c => SameClient(d)
  BY CallSends DEF Calling
<1>2. /\ call[c].n \in Nat /\ conn[c] \in 0 .. MaxConns /\ CurrentQueue(c) \in Seq(Requests)
      /\ CurrentQueue(c) = Queue(c, conn[c]) /\ CurrentQueue(c)' = Queue(c, conn[c])'
  BY <1>1, Numbers DEF CurrentQueue, Queue
<1>3. /\ UNCHANGED <<dataMap, Doubtful, Astray>>
      /\ \A r \in Queued(c) : r.n # call'[c].n
      /\ \A m \in Elements(replies[c]) : m.n # call'[c].n
  <2>1. \A r \in Queued(c) : r.n \in Nat /\ r.n <= call[c].n
    BY QueuedNumbers
  <2>2. \A m \in Elements(replies[c]) : m.n \in Nat /\ m.n <= call[c].n
    BY Numbers DEF CInv, RepliesOrdered
  <2>3. UNCHANGED <<dataMap, conn, broken, requestsCut, repliesCut>>
    BY DEF Calling, Call, cuts
  <2>4. UNCHANGED <<dataMap, Doubtful, Astray>>
    BY <2>3 DEF Doubtful, OutOfStep, Current, Astray
  <2> QED BY <1>1, <1>2, <2>1, <2>2, <2>4
<1>4. CASE phase'[c] = "reading" /\ outcome'[c] = outcome[c]
           /\ CurrentQueue(c)' = Append(CurrentQueue(c), call'[c])
  <2>1. Elements(CurrentQueue(c)') = Elements(CurrentQueue(c)) \cup {call'[c]}
    BY <1>1, <1>2, <1>4, Appended
  <2>2. Queued(c)' = Queued(c) \cup {call'[c]}
    <3>1. \A k \in 0 .. MaxConns : k = conn[c] =>
            Elements(Queue(c, k)') = Elements(Queue(c, k)) \cup {call'[c]}
      BY <1>1, <1>2, <2>1 DEF CurrentQueue, Queue
    <3> QED BY <1>1, <1>2, <3>1 DEF Queued
  <2>3. AnswerOf(c)' = NoAnswer("pending")
    BY <1>4, <2>1, AnswerIs, AnswerPending
  <2>4. Late(c)' = Late(c)
    <3>1. Late(c) = {r \in Queued(c) : r.op = "set" /\ Parse(r)}
      BY <1>1, Idle
    <3>2. Late(c)' = {r \in Queued(c)' : r.op = "set" /\ Parse(r) /\ r.n # call'[c].n}
      BY <1>4, Busy
    <3> QED BY <1>3, <2>2, <3>1, <3>2
  <2>5. ResultOf(c)' = ResultOf(c) /\ InCallOf(c)' = call'[c]
    BY <1>4, Busy DEF ResultOf
  <2> QED BY <1>1, <1>3, <2>3, <2>4, <2>5, Idle, MappedStep, MappedLate, InvokeIs
<1>5. ASSUME CurrentQueue(c)' = CurrentQueue(c)
      PROVE  Queued(c)' = Queued(c)
  <2>1. \A k \in 0 .. MaxConns : Queue(c, k)' = Queue(c, k)
    BY <1>1, <1>2, <1>5 DEF CurrentQueue, Queue
  <2> QED BY <2>1 DEF Queued
<1>6. CASE phase'[c] = "reading" /\ outcome'[c] = outcome[c] /\ CurrentQueue(c)' = CurrentQueue(c)
  <2>1. \A r \in Elements(CurrentQueue(c)) : r \in Queued(c)
    BY <1>2 DEF Queued
  <2>2. AnswerOf(c)' = NoAnswer("lost")
    BY <1>1, <1>3, <1>6, <2>1, AnswerIs, AnswerLost
  <2>3. Late(c)' = Late(c)
    <3>1. Late(c) = {r \in Queued(c) : r.op = "set" /\ Parse(r)}
      BY <1>1, Idle
    <3>2. Late(c)' = {r \in Queued(c)' : r.op = "set" /\ Parse(r) /\ r.n # call'[c].n}
      BY <1>6, Busy
    <3> QED BY <1>3, <1>5, <1>6, <3>1, <3>2
  <2>4. ResultOf(c)' = ResultOf(c) /\ InCallOf(c)' = call'[c]
    BY <1>6, Busy DEF ResultOf
  <2> QED BY <1>1, <1>3, <2>2, <2>3, <2>4, Idle, MappedStep, MappedLate, InvokeIs
<1>7. CASE phase'[c] = "idle" /\ outcome'[c] = Failed /\ CurrentQueue(c)' = CurrentQueue(c)
  <2>1. AnswerOf(c)' = AnswerOf(c) /\ InCallOf(c)' = InCallOf(c) /\ Late(c)' = Late(c)
    BY <1>1, <1>5, <1>7, Idle
  <2>2. ResultOf(c)' = [ok |-> FALSE, value |-> NoValue]
    BY <1>7 DEF ResultOf, Failed
  <2> QED BY <1>1, <1>3, <2>1, <2>2, Idle, MappedStep, MappedLate, RefuseIs
<1> QED BY <1>4, <1>6, <1>7, CallSends DEF Calling

\* What a call that ends leaves behind: it is in no call, and its own request is
\* given up if the server has it still to read.
LEMMA ReturnLeaves ==
  ASSUME TypeOK, NEW c \in Clients, CInv(c), phase[c] # "idle", phase'[c] = "idle",
         UNCHANGED requests
  PROVE  /\ InCallOf(c) = call[c] /\ call[c] # NoRequest
         /\ InCallOf(c)' = NoRequest /\ AnswerOf(c)' = NoAnswer("lost")
         /\ Late(c)' = Late(c) \/ Late(c)' = Late(c) \cup {call[c]}
         /\ (\A r \in Queued(c) : r.n # call[c].n) => Late(c)' = Late(c)
<1>1. call[c] \in Requests /\ call[c] # NoRequest
  <2>1. call[c] \in Requests
    BY DEF CInv, InCall
  <2> QED BY <2>1, BoundsAssumption DEF Requests, NoRequest
<1>2. InCallOf(c) = call[c] /\ InCallOf(c)' = NoRequest /\ AnswerOf(c)' = NoAnswer("lost")
  BY Idle, Busy
<1>3. Queued(c)' = Queued(c)
  BY DEF Queued, Queue
<1>4. Late(c) = {r \in Queued(c) : r.op = "set" /\ Parse(r) /\ r.n # call[c].n}
  BY Busy
<1>5. Late(c)' = {r \in Queued(c) : r.op = "set" /\ Parse(r)}
  BY <1>3, Idle
<1>6. \A r \in Queued(c) : r.n = call[c].n => r = call[c]
  BY QueuedNumbers
<1>7. Late(c)' = Late(c) \/ Late(c)' = Late(c) \cup {call[c]}
  <2>1. CASE call[c] \in Queued(c) /\ call[c].op = "set" /\ Parse(call[c])
    BY <1>4, <1>5, <1>6, <2>1
  <2>2. CASE ~ (call[c] \in Queued(c) /\ call[c].op = "set" /\ Parse(call[c]))
    BY <1>4, <1>5, <1>6, <2>2
  <2> QED BY <2>1, <2>2
<1>8. (\A r \in Queued(c) : r.n # call[c].n) => Late(c)' = Late(c)
  BY <1>4, <1>5
<1> QED BY <1>1, <1>2, <1>7, <1>8

\* In a call of a careful caller, in step with the connection, only the reply to
\* this very call can arrive, and the message left over is none.
LEMMA OwnReply ==
  ASSUME Careful, TypeOK, NEW c \in Clients, CInv(c), phase[c] # "idle", ~ OutOfStep(c)
  PROVE  /\ readMsg[c] = NoMessage
         /\ \A m \in Elements(replies[c]) :
              /\ m.n = call[c].n /\ m.op = call[c].op
              /\ \A r \in Queued(c) : r.n # call[c].n
<1>1. ~ timedOut[c] /\ connected[c]
  BY DEF CInv, InCall
<1>2. readMsg[c] = NoMessage /\ \A m \in Elements(replies[c]) : m.n = call[c].n /\ m.op = call[c].op
  BY <1>1 DEF CInv, Fresh, RepliesOrdered
<1>3. ASSUME NEW m \in Elements(replies[c]), NEW r \in Queued(c), r.n = call[c].n
      PROVE  FALSE
  <2>1. r \in Elements(CurrentQueue(c)) /\ r.n \in Nat
    BY <1>3, QueuedNumbers
  <2>2. m.n < r.n
    BY <2>1 DEF CInv, RepliesOrdered
  <2> QED BY <1>2, <1>3, <2>1, <2>2
<1> QED BY <1>2, <1>3

\* The reply that is next is the answer to the call.
LEMMA ReplyIsAnswer ==
  ASSUME Careful, TypeOK, NEW c \in Clients, CInv(c), phase[c] # "idle", replies[c] # <<>>,
         NEW m, m = Head(replies[c])
  PROVE  /\ m.op = call[c].op /\ m \in Messages
         /\ \A r \in Queued(c) : r.n # call[c].n
         /\ AnswerOf(c) = [ok |-> m.ok, value |-> m.value]
<1>1. /\ m \in Elements(replies[c]) /\ m \in Messages
      /\ \A x \in Elements(replies[c]) : x.n = m.n => x = m
  <2>1. replies[c] \in Seq(Messages) /\ Rising(replies[c])
    BY DEF TypeOK, CInv, RepliesOrdered
  <2>2. /\ Elements(replies[c]) = {m} \cup Elements(Tail(replies[c])) /\ m \in Messages
        /\ \A e \in Elements(Tail(replies[c])) : m.n < e.n
    BY <2>1, Tailed
  <2>3. \A x \in Elements(replies[c]) : x.n \in Nat
    BY Numbers
  <2>4. \A e \in Elements(Tail(replies[c])) : m.n # e.n
    BY <2>2, <2>3
  <2> QED BY <2>2, <2>4
<1>2. ~ OutOfStep(c)
  BY DEF CInv, Strays
<1>3. /\ m.n = call[c].n /\ m.op = call[c].op
      /\ \A r \in Queued(c) : r.n # call[c].n
  BY <1>1, <1>2, OwnReply
<1>4. AnswerOf(c) = [ok |-> m.ok, value |-> m.value]
  <2>1. conn[c] \in 0 .. MaxConns
    BY Numbers
  <2>2. \A r \in Elements(CurrentQueue(c)) : r.n # call[c].n
    BY <1>3, <2>1 DEF Queued, CurrentQueue
  <2>3. \A x \in Elements(replies[c]) : x.n = call[c].n => x = m
    BY <1>1, <1>3
  <2> DEFINE Q == Elements(CurrentQueue(c))
             R == Elements(replies[c])
             n == call[c].n
  <2>4. m \in R /\ m.n = n /\ (\A r \in Q : r.n # n) /\ \A x \in R : x.n = n => x = m
    BY <1>1, <1>3, <2>2, <2>3
  <2>5. AnswerOf(c) = AnswerFor(Q, R, TRUE, n)
    <3>1. AnswerOf(c) = AnswerFor(Q, R, phase[c] # "idle", n)
      BY AnswerIs
    <3>2. (phase[c] # "idle") = TRUE
      OBVIOUS
    <3> QED BY <3>1, <3>2
  <2> HIDE DEF Q, R, n
  <2>6. AnswerFor(Q, R, TRUE, n) = [ok |-> m.ok, value |-> m.value]
    <3>1. (CHOOSE x \in R : TRUE /\ x.n = n) = m
      BY <2>4
    <3> QED BY <2>4, <3>1 DEF AnswerFor
  <2> QED BY <2>5, <2>6
<1> QED BY <1>1, <1>3, <1>4

\* What the end of a call does to the mapped variables.
LEMMA EndMapped ==
  ASSUME TypeOK, NEW c \in Clients, CInv(c), Ending(c)
  PROVE  /\ phase[c] # "idle" /\ phase'[c] = "idle" /\ call[c] # NoRequest
         /\ CallOf[c] = call[c] /\ CallOf' = [CallOf EXCEPT ![c] = NoRequest]
         /\ AnswersOf[c] = AnswerOf(c) /\ AnswersOf' = [AnswersOf EXCEPT ![c] = NoAnswer("lost")]
         /\ ResultsOf' = [ResultsOf EXCEPT ![c] = ResultOf(c)']
         /\ Unsettled' \in {Unsettled, Unsettled \cup {<<c, CallOf[c]>>}}
         /\ (\A r \in Queued(c) : r.n # call[c].n) => Unsettled' = Unsettled
         /\ Doubtful' = IF OutOfStep(c)' THEN Doubtful \cup {c} ELSE Doubtful \ {c}
         /\ (OutOfStep(c)' <=> OutOfStep(c)) => Doubtful' = Doubtful
         /\ UNCHANGED <<dataMap, Astray>>
<1>1. /\ phase[c] # "idle" /\ phase'[c] = "idle"
      /\ UNCHANGED <<requests, broken, requestsCut, dataMap>>
  BY EndingUses DEF Finish, TypeOK
<1>2. \A d \in Clients : d # c => SameClient(d)
  BY ReadKeeps
<1>3. /\ InCallOf(c) = call[c] /\ call[c] # NoRequest
      /\ InCallOf(c)' = NoRequest /\ AnswerOf(c)' = NoAnswer("lost")
      /\ Late(c)' = Late(c) \/ Late(c)' = Late(c) \cup {call[c]}
      /\ (\A r \in Queued(c) : r.n # call[c].n) => Late(c)' = Late(c)
  BY <1>1, ReturnLeaves
<1>4. /\ CallOf[c] = call[c] /\ CallOf' = [CallOf EXCEPT ![c] = NoRequest]
      /\ AnswersOf[c] = AnswerOf(c) /\ AnswersOf' = [AnswersOf EXCEPT ![c] = NoAnswer("lost")]
      /\ ResultsOf' = [ResultsOf EXCEPT ![c] = ResultOf(c)']
      /\ \A d \in Clients : d # c => Late(d)' = Late(d)
      /\ Doubtful' = IF OutOfStep(c)' THEN Doubtful \cup {c} ELSE Doubtful \ {c}
      /\ (OutOfStep(c)' <=> OutOfStep(c)) => Doubtful' = Doubtful
  BY <1>2, <1>3, MappedStep
<1>5. /\ Unsettled' \in {Unsettled, Unsettled \cup {<<c, CallOf[c]>>}}
      /\ (\A r \in Queued(c) : r.n # call[c].n) => Unsettled' = Unsettled
  BY <1>3, <1>4, MappedLate
<1>6. UNCHANGED Astray
  BY <1>1 DEF Astray
<1> QED BY <1>1, <1>3, <1>4, <1>5, <1>6

\* A reply returns the answer of the call.
LEMMA ReadReplyRefines ==
  ASSUME Careful, TypeOK, NEW c \in Clients, CInv(c), ReadReply(c)
  PROVE  Store!Next
<1> DEFINE m == Head(replies[c])
<1>1. replies[c] # <<>> /\ Finish(c, m) /\ Ending(c) /\ UNCHANGED <<conn, repliesCut>>
  BY DEF ReadReply, Ending, cuts
<1>2. /\ CallOf[c] # NoRequest /\ CallOf' = [CallOf EXCEPT ![c] = NoRequest]
      /\ AnswersOf[c] = AnswerOf(c) /\ AnswersOf' = [AnswersOf EXCEPT ![c] = NoAnswer("lost")]
      /\ ResultsOf' = [ResultsOf EXCEPT ![c] = ResultOf(c)']
      /\ (\A r \in Queued(c) : r.n # call[c].n) => Unsettled' = Unsettled
      /\ (OutOfStep(c)' <=> OutOfStep(c)) => Doubtful' = Doubtful
      /\ phase[c] # "idle" /\ UNCHANGED <<dataMap, Astray>>
  BY <1>1, EndMapped
<1>3. /\ m.op = call[c].op
      /\ \A r \in Queued(c) : r.n # call[c].n
      /\ AnswerOf(c) = [ok |-> m.ok, value |-> m.value]
  BY <1>1, <1>2, ReplyIsAnswer
<1> HIDE DEF m
<1>4. ResultOf(c)' = AnswerOf(c)
  <2>1. outcome'[c] = [n |-> m.n, ok |-> m.ok, value |-> m.value]
    BY <1>1, <1>3 DEF Finish, TypeOK
  <2> QED BY <1>3, <2>1 DEF ResultOf
<1>5. AnswerOf(c) \notin {NoAnswer("pending"), NoAnswer("lost")}
  BY <1>3, AnswersDiffer
<1>6. Doubtful' = Doubtful /\ Unsettled' = Unsettled
  BY <1>1, <1>2, <1>3 DEF OutOfStep, Current
<1> QED BY <1>2, <1>4, <1>5, <1>6, ReturnIs

\* A reply to a Get that is cut returns the answer without the end of the value.
LEMMA ReadCutReplyRefines ==
  ASSUME Careful, TypeOK, NEW c \in Clients, CInv(c), ReadCutReply(c)
  PROVE  Store!Next
<1> DEFINE m == Head(replies[c])
<1>1. /\ replies[c] # <<>> /\ Finish(c, CutOff(m)) /\ Ending(c) /\ m.op = "get"
      /\ conn' = conn /\ repliesCut' = repliesCut \cup {Current(c)}
  BY DEF ReadCutReply, LoseStep, Ending
<1>2. /\ CallOf[c] = call[c] /\ CallOf[c] # NoRequest /\ CallOf' = [CallOf EXCEPT ![c] = NoRequest]
      /\ AnswersOf[c] = AnswerOf(c) /\ AnswersOf' = [AnswersOf EXCEPT ![c] = NoAnswer("lost")]
      /\ ResultsOf' = [ResultsOf EXCEPT ![c] = ResultOf(c)']
      /\ (\A r \in Queued(c) : r.n # call[c].n) => Unsettled' = Unsettled
      /\ OutOfStep(c)' => Doubtful' = Doubtful \cup {c}
      /\ phase[c] # "idle" /\ UNCHANGED <<dataMap, Astray>>
  BY <1>1, EndMapped
<1>3. /\ m.op = call[c].op /\ m \in Messages
      /\ \A r \in Queued(c) : r.n # call[c].n
      /\ AnswerOf(c) = [ok |-> m.ok, value |-> m.value]
  BY <1>1, <1>2, ReplyIsAnswer
<1> HIDE DEF m
<1>4. /\ CutOff(m).op = m.op /\ CutOff(m).ok = m.ok
      /\ CutOff(m).value = IF m.ok THEN Garbled ELSE m.value
  BY <1>3 DEF CutOff, Messages
<1>5. ResultOf(c)' = Store!CutAnswer(AnswerOf(c))
  <2>1. outcome'[c] = [n |-> CutOff(m).n, ok |-> CutOff(m).ok, value |-> CutOff(m).value]
    BY <1>1, <1>3, <1>4 DEF Finish, TypeOK
  <2>2. ResultOf(c)' = [ok |-> m.ok, value |-> IF m.ok THEN Garbled ELSE m.value]
    BY <1>4, <2>1 DEF ResultOf
  <2> QED BY <1>3, <2>2 DEF Store!CutAnswer
<1>6. AnswerOf(c) \notin {NoAnswer("pending"), NoAnswer("lost")}
  BY <1>3, AnswersDiffer
<1>7. Doubtful' = Doubtful \cup {c} /\ Unsettled' = Unsettled
  BY <1>1, <1>2, <1>3 DEF OutOfStep, Current
<1> QED BY <1>1, <1>2, <1>3, <1>5, <1>6, <1>7, ReturnCutIs

\* Out of step a call may return anything.
LEMMA InDoubtRefines ==
  ASSUME TypeOK, TypeOK', NEW c \in Clients, CInv(c), Ending(c), OutOfStep(c)
  PROVE  Store!Next
<1>1. OutOfStep(c)'
  BY EndingUses
<1>2. ResultOf(c)' \in Store!Results
  BY DEF TypeOK, ResultOf, Store!Results
<1>3. c \in Doubtful
  BY DEF Doubtful
<1> QED BY <1>1, <1>2, <1>3, EndMapped, ReturnInDoubtIs

\* In step, without a reply, the call is given up.
LEMMA ReadFailsRefines ==
  ASSUME Careful, TypeOK, NEW c \in Clients, CInv(c), ReadFails(c), ~ OutOfStep(c)
  PROVE  Store!Next
<1>1. Finish(c, readMsg[c]) /\ Ending(c)
  BY DEF ReadFails, Ending
<1>2. /\ CallOf[c] # NoRequest /\ CallOf' = [CallOf EXCEPT ![c] = NoRequest]
      /\ AnswersOf' = [AnswersOf EXCEPT ![c] = NoAnswer("lost")]
      /\ ResultsOf' = [ResultsOf EXCEPT ![c] = ResultOf(c)']
      /\ Unsettled' \in {Unsettled, Unsettled \cup {<<c, CallOf[c]>>}}
      /\ Doubtful' \in {Doubtful, Doubtful \cup {c}}
      /\ phase[c] # "idle" /\ UNCHANGED <<dataMap, Astray>>
  BY <1>1, EndMapped DEF Doubtful
<1>3. readMsg[c] = NoMessage /\ NoMessage.op = "none"
  BY <1>2, OwnReply DEF NoMessage
<1>4. call[c].op # "none"
  BY <1>2 DEF CInv, InCall, Requests
<1>5. ResultOf(c)' = [ok |-> FALSE, value |-> NoValue]
  <2>1. outcome'[c] = Failed
    BY <1>1, <1>3, <1>4 DEF Finish, TypeOK
  <2> QED BY <2>1 DEF ResultOf, Failed
<1> QED BY <1>2, <1>5, ReturnIs

LEMMA ReadNothingRefines ==
  ASSUME TypeOK, NEW c \in Clients, CInv(c), ReadNothing(c)
  PROVE  UNCHANGED Store!vars
<1>1. \A d \in Clients : d # c => SameClient(d)
  BY ReadNothingKeeps
<1>2. /\ UNCHANGED <<call, requests, replies, conn, outcome, dataMap, Doubtful, Astray>>
      /\ phase[c] # "idle" /\ phase'[c] # "idle"
  BY DEF ReadNothing, TypeOK, cuts, Doubtful, OutOfStep, Current, Astray
<1>3. /\ Queued(c)' = Queued(c) /\ ResultOf(c)' = ResultOf(c)
      /\ CurrentQueue(c)' = CurrentQueue(c)
  BY <1>2 DEF Queued, Queue, CurrentQueue, ResultOf
<1>4. InCallOf(c)' = InCallOf(c) /\ Late(c)' = Late(c)
  BY <1>2, <1>3, Busy
<1>5. AnswerOf(c)' = AnswerOf(c)
  BY <1>2, <1>3, AnswerIs
<1>6. /\ CallOf' = CallOf /\ AnswersOf' = AnswersOf /\ ResultsOf' = ResultsOf
      /\ \A d \in Clients : d # c => Late(d)' = Late(d)
  BY <1>1, <1>3, <1>4, <1>5, MappedStep
<1>7. Unsettled' = Unsettled
  BY <1>4, <1>6, MappedLate
<1> QED BY <1>2, <1>6, <1>7, StoreVars

\* The request the server takes is the only one with its number, and the others
\* stay, or go with it.
LEMMA TakenOnce ==
  ASSUME TypeOK, NEW c \in Clients, CInv(c), NEW k \in 0 .. MaxConns,
         Queue(c, k) # <<>>, Queue(c, k)' \in {Tail(Queue(c, k)), <<>>},
         \A l \in 0 .. MaxConns : l # k => Queue(c, l)' = Queue(c, l)
  PROVE  /\ Head(Queue(c, k)) \in Elements(Queue(c, k)) /\ Head(Queue(c, k)) \in Requests
         /\ Head(Queue(c, k)) \in Queued(c) /\ Queued(c)' \subseteq Queued(c)
         /\ Queue(c, k)' = Tail(Queue(c, k)) => Queued(c) = Queued(c)' \cup {Head(Queue(c, k))}
         /\ \A e \in Queued(c)' : e.n # Head(Queue(c, k)).n
<1> DEFINE q == Queue(c, k)
           r == Head(q)
<1>1. q \in Seq(Requests) /\ Rising(q) /\ q # <<>>
  BY Numbers DEF CInv, QueuesOrdered
<1>2. /\ r \in Requests
      /\ Elements(q) = {r} \cup Elements(Tail(q))
      /\ \A e \in Elements(Tail(q)) : r.n < e.n
  BY <1>1, Tailed
<1>3. Elements(q') \subseteq Elements(Tail(q)) /\ (q' = Tail(q) => Elements(q') = Elements(Tail(q)))
  <2>1. q' \in {Tail(q), <<>>}
    OBVIOUS
  <2> HIDE DEF q
  <2> QED BY <2>1, Emptied
<1> HIDE DEF q, r
<1>4. r \in Queued(c) /\ Queued(c)' \subseteq Queued(c)
  <2>1. \A l \in 0 .. MaxConns : Elements(Queue(c, l)') \subseteq Elements(Queue(c, l))
    <3>1. Elements(Queue(c, k)') \subseteq Elements(Queue(c, k))
      BY <1>2, <1>3 DEF q
    <3> QED BY <3>1
  <2>2. r \in Elements(Queue(c, k))
    BY <1>2 DEF q
  <2> QED BY <2>1, <2>2 DEF Queued
<1>5. q' = Tail(q) => Queued(c) = Queued(c)' \cup {r}
  <2> SUFFICES ASSUME q' = Tail(q) PROVE Queued(c) = Queued(c)' \cup {r}
    OBVIOUS
  <2>1. Elements(Queue(c, k)) = {r} \cup Elements(Queue(c, k)')
    BY <1>2, <1>3 DEF q
  <2>2. \A l \in 0 .. MaxConns : l # k => Elements(Queue(c, l)') = Elements(Queue(c, l))
    OBVIOUS
  <2>3. \A e : (\E l \in 0 .. MaxConns : e \in Elements(Queue(c, l)))
               <=> (e = r \/ \E l \in 0 .. MaxConns : e \in Elements(Queue(c, l)'))
    BY <2>1, <2>2
  <2> QED BY <2>3 DEF Queued
<1>6. ASSUME NEW e \in Queued(c)' PROVE e.n # r.n
  <2>1. PICK l \in 0 .. MaxConns : e \in Elements(Queue(c, l)')
    BY <1>6 DEF Queued
  <2>2. CASE l = k
    <3>1. e \in Elements(Tail(q)) /\ e \in Elements(Queue(c, k)) /\ r \in Elements(Queue(c, k))
      BY <1>2, <1>3, <2>1, <2>2 DEF q
    <3>2. r.n < e.n /\ e.n \in Nat /\ r.n \in Nat
      BY <1>2, <3>1, Numbers
    <3> QED BY <3>2
  <2>3. CASE l # k
    <3>1. e \in Elements(Queue(c, l)) /\ r \in Elements(Queue(c, k))
      BY <1>2, <2>1, <2>3 DEF q
    <3>2. e.n \in Nat /\ r.n \in Nat
      BY <3>1, Numbers
    <3>3. k < l \/ l < k
      BY <2>3
    <3>4. r.n < e.n \/ e.n < r.n
      BY <3>1, <3>3 DEF CInv, QueuesOrdered
    <3> QED BY <3>2, <3>4
  <2> QED BY <2>2, <2>3
<1> QED BY <1>2, <1>4, <1>5, <1>6 DEF q, r

LEMMA ServedOnce ==
  ASSUME TypeOK, NEW c \in Clients, CInv(c), NEW k \in 0 .. MaxConns, Serve(<<c, k>>)
  PROVE  /\ Head(Queue(c, k)) \in Elements(Queue(c, k)) /\ Head(Queue(c, k)) \in Requests
         /\ Queued(c) = Queued(c)' \cup {Head(Queue(c, k))}
         /\ \A e \in Queued(c)' : e.n # Head(Queue(c, k)).n
<1>1. \A l \in 0 .. MaxConns : l # k => <<c, l>> # <<c, k>>
  OBVIOUS
<1>2. /\ Queue(c, k) # <<>> /\ Queue(c, k)' = Tail(Queue(c, k))
      /\ \A l \in 0 .. MaxConns : l # k => Queue(c, l)' = Queue(c, l)
  BY <1>1, ServeTakes
<1> QED BY <1>2, TakenOnce

\* What the server does leaves the calls and their results alone.
LEMMA ServerMapped ==
  ASSUME TypeOK, NEW c \in Clients, \A d \in Clients : d # c => SameClient(d),
         UNCHANGED <<phase, call, conn, outcome>>
  PROVE  /\ UNCHANGED <<CallOf, ResultsOf>>
         /\ UNCHANGED repliesCut => UNCHANGED Doubtful
         /\ AnswersOf' = [AnswersOf EXCEPT ![c] = AnswerOf(c)']
         /\ AnswerOf(c)' = AnswerOf(c) => AnswersOf' = AnswersOf
         /\ \A d \in Clients : d # c => Late(d)' = Late(d)
         /\ CallOf[c] = InCallOf(c) /\ AnswersOf[c] = AnswerOf(c)
<1>1. InCallOf(c)' = InCallOf(c) /\ ResultOf(c)' = ResultOf(c)
  BY DEF InCallOf, ResultOf
<1>2. UNCHANGED repliesCut => UNCHANGED Doubtful
  BY DEF Doubtful, OutOfStep, Current
<1> QED BY <1>1, <1>2, MappedStep

LEMMA LosesOne ==
  ASSUME NEW c \in Clients, AnswersOf[c] = AnswerOf(c), AnswerOf(c)' \in {AnswerOf(c), NoAnswer("lost")},
         AnswersOf' = [AnswersOf EXCEPT ![c] = AnswerOf(c)']
  PROVE  \E lost \in SUBSET Clients :
           AnswersOf' = [d \in Clients |-> IF d \in lost THEN NoAnswer("lost") ELSE AnswersOf[d]]
<1>1. CASE AnswerOf(c)' = NoAnswer("lost")
  <2>1. AnswersOf' = [d \in Clients |-> IF d \in {c} THEN NoAnswer("lost") ELSE AnswersOf[d]]
    BY <1>1 DEF AnswersOf
  <2> QED BY <2>1
<1>2. CASE AnswerOf(c)' = AnswerOf(c)
  <2> DEFINE none == {}
  <2>1. AnswersOf' = [d \in Clients |-> IF d \in none THEN NoAnswer("lost") ELSE AnswersOf[d]]
    BY <1>2 DEF AnswersOf
  <2>2. none \in SUBSET Clients
    OBVIOUS
  <2> HIDE DEF none
  <2> QED BY <2>1, <2>2
<1> QED BY <1>1, <1>2

\* The one request with the number of the call, and the call's answer before it
\* takes effect and afterwards, if the client gets the reply and if it does not.
LEMMA TakenCall ==
  ASSUME TypeOK, NEW c \in Clients, CInv(c), NEW k \in 0 .. MaxConns,
         Queue(c, k) # <<>>, Queue(c, k)' \in {Tail(Queue(c, k)), <<>>},
         \A l \in 0 .. MaxConns : l # k => Queue(c, l)' = Queue(c, l),
         UNCHANGED <<phase, call, connected, conn>>,
         NEW r, r = Head(Queue(c, k)), InProgress(c, r)
  PROVE  /\ r = call[c] /\ k = conn[c] /\ connected[c] /\ r \in Requests /\ InCallOf(c) = r
         /\ r # NoRequest /\ AnswerOf(c) = NoAnswer("pending") /\ Late(c)' \subseteq Late(c)
         /\ Queue(c, k)' = Tail(Queue(c, k)) => Late(c)' = Late(c)
         /\ Answering(c, k) <=> ~ OutOfStep(c)
         /\ replies'[c] = replies[c] => AnswerOf(c)' = NoAnswer("lost")
         /\ replies'[c] = Append(replies[c], ReplyTo(r)) =>
              AnswerOf(c)' = [ok |-> ReplyTo(r).ok, value |-> ReplyTo(r).value]
<1> DEFINE m == ReplyTo(r)
<1>1. phase[c] # "idle" /\ r.n = call[c].n
  BY DEF InProgress
<1>2. /\ r \in Elements(Queue(c, k)) /\ r \in Requests /\ Queued(c)' \subseteq Queued(c)
      /\ Queue(c, k)' = Tail(Queue(c, k)) => Queued(c) = Queued(c)' \cup {r}
      /\ \A e \in Queued(c)' : e.n # r.n
  BY TakenOnce
<1>3. r = call[c] /\ k = conn[c] /\ connected[c]
  BY <1>1, <1>2 DEF CInv, QueuesOrdered, InCall
<1>4. /\ r \in Elements(CurrentQueue(c)) /\ \A x \in Elements(replies[c]) : x.n < r.n
      /\ r.n \in Nat /\ \A x \in Elements(replies[c]) : x.n \in Nat
      /\ \A e \in Elements(CurrentQueue(c)') : e.n # r.n
  <2>1. r \in Elements(CurrentQueue(c)) /\ CurrentQueue(c)' = Queue(c, k)'
    BY <1>1, <1>2, <1>3 DEF CurrentQueue, Queue
  <2>2. \A e \in Elements(CurrentQueue(c)') : e \in Queued(c)'
    BY <2>1 DEF Queued
  <2> QED BY <1>2, <2>1, <2>2, Numbers DEF CInv, RepliesOrdered
<1>5. /\ Late(c)' \subseteq Late(c) /\ (Queue(c, k)' = Tail(Queue(c, k)) => Late(c)' = Late(c))
      /\ InCallOf(c) = r /\ r # NoRequest
  <2>1. Late(c) = {e \in Queued(c) : e.op = "set" /\ Parse(e) /\ e.n # r.n}
    BY <1>1, <1>3, Busy
  <2>2. Late(c)' = {e \in Queued(c)' : e.op = "set" /\ Parse(e) /\ e.n # r.n}
    BY <1>1, <1>3, Busy
  <2>3. r # NoRequest
    BY <1>2 DEF Requests, NoRequest
  <2>4. InCallOf(c) = r
    BY <1>1, <1>3, Busy
  <2> QED BY <1>2, <2>1, <2>2, <2>3, <2>4
<1>6. AnswerOf(c) = NoAnswer("pending")
  <2>1. AnswerOf(c) = AnswerFor(Elements(CurrentQueue(c)), Elements(replies[c]), TRUE, r.n)
    BY <1>1, <1>3, AnswerIs
  <2> QED BY <1>4, <2>1, AnswerPending
<1>7. Answering(c, k) <=> ~ OutOfStep(c)
  BY <1>3 DEF Answering
<1>8. ASSUME replies'[c] = replies[c] PROVE AnswerOf(c)' = NoAnswer("lost")
  <2>1. \A x \in Elements(replies'[c]) : x.n # r.n
    BY <1>4, <1>8
  <2> QED BY <1>1, <1>4, <2>1, AnswerIs, AnswerLost
<1>9. ASSUME replies'[c] = Append(replies[c], m)
      PROVE  AnswerOf(c)' = [ok |-> m.ok, value |-> m.value]
  <2>1. m \in Messages /\ m.n = r.n
    BY <1>2 DEF ReplyTo, Requests, Messages, TypeOK
  <2>2. Elements(replies'[c]) = Elements(replies[c]) \cup {m}
    <3>1. replies[c] \in Seq(Messages)
      BY Numbers
    <3> HIDE DEF m
    <3> QED BY <1>9, <2>1, <3>1, Appended
  <2> DEFINE Q == Elements(CurrentQueue(c)')
             R == Elements(replies'[c])
             n == r.n
  <2>3. AnswerOf(c)' = AnswerFor(Q, R, TRUE, n)
    <3>1. AnswerOf(c)' = AnswerFor(Q, R, phase'[c] # "idle", call'[c].n)
      BY AnswerIs
    <3>2. (phase'[c] # "idle") = TRUE /\ call'[c].n = n
      BY <1>1
    <3> QED BY <3>1, <3>2
  <2> HIDE DEF m
  <2>4. m \in R /\ m.n = n /\ \A x \in R : x.n = n => x = m
    <3>1. \A x \in Elements(replies[c]) : x.n # n
      BY <1>4
    <3> QED BY <2>1, <2>2, <3>1
  <2>5. \A e \in Q : e.n # n
    BY <1>4
  <2> HIDE DEF Q, R, n
  <2>6. (CHOOSE x \in R : TRUE /\ x.n = n) = m
    BY <2>4
  <2>7. AnswerFor(Q, R, TRUE, n) = [ok |-> m.ok, value |-> m.value]
    BY <2>4, <2>5, <2>6 DEF AnswerFor
  <2> QED BY <2>3, <2>7
<1> QED BY <1>2, <1>3, <1>5, <1>6, <1>7, <1>8, <1>9

\* The request of a call in progress takes effect, or it does not parse and its
\* answer is lost; the client still waits on this connection.
LEMMA ServeCallRefines ==
  ASSUME TypeOK, NEW c \in Clients, CInv(c), NEW k \in 0 .. MaxConns, Serve(<<c, k>>),
         InProgress(c, Head(Queue(c, k)))
  PROVE  Store!Next
<1>1. PICK r : r = Head(Queue(c, k))
  OBVIOUS
<1> DEFINE m == ReplyTo(r)
<1>2. /\ UNCHANGED <<phase, call, connected, conn, outcome, broken, requestsCut, repliesCut>>
      /\ Queue(c, k) # <<>> /\ Queue(c, k)' = Tail(Queue(c, k))
      /\ \A l \in 0 .. MaxConns : <<c, l>> # <<c, k>> => Queue(c, l)' = Queue(c, l)
      /\ dataMap' = IF Parse(r) THEN Perform(r) ELSE dataMap
      /\ replies'[c] = IF Parse(r) /\ Answering(c, k) THEN Append(replies[c], m) ELSE replies[c]
      /\ \A d \in Clients : d # c => SameClient(d)
  BY <1>1, ServeTakes, ServeKeeps
<1>3. \A l \in 0 .. MaxConns : l # k => Queue(c, l)' = Queue(c, l)
  BY <1>2
<1>4. /\ r \in Requests /\ InCallOf(c) = r /\ r # NoRequest
      /\ AnswerOf(c) = NoAnswer("pending") /\ Late(c)' = Late(c)
      /\ Answering(c, k) <=> ~ OutOfStep(c)
      /\ replies'[c] = replies[c] => AnswerOf(c)' = NoAnswer("lost")
      /\ replies'[c] = Append(replies[c], m) => AnswerOf(c)' = [ok |-> m.ok, value |-> m.value]
  BY <1>1, <1>2, <1>3, TakenCall
<1>5. /\ UNCHANGED <<CallOf, ResultsOf, Unsettled, Doubtful, Astray>>
      /\ AnswersOf' = [AnswersOf EXCEPT ![c] = AnswerOf(c)']
      /\ CallOf[c] = r /\ AnswersOf[c] = NoAnswer("pending")
  <2>1. /\ UNCHANGED <<CallOf, ResultsOf, Doubtful>>
        /\ CallOf[c] = InCallOf(c) /\ AnswersOf[c] = AnswerOf(c)
        /\ AnswersOf' = [AnswersOf EXCEPT ![c] = AnswerOf(c)']
        /\ \A d \in Clients : d # c => Late(d)' = Late(d)
    BY <1>2, ServerMapped
  <2>2. UNCHANGED Astray
    BY <1>2 DEF Astray
  <2> QED BY <1>4, <2>1, <2>2, MappedLate
<1>6. CASE Parse(r)
  <2>1. /\ dataMap' = Store!After(r, dataMap)
        /\ [ok |-> m.ok, value |-> m.value] = Store!AnswerTo(r, dataMap)
    BY <1>2, <1>4, <1>6 DEF Perform, ReplyTo, Store!After, Store!AnswerTo, Requests
  <2>2. AnswerOf(c)' = IF c \in Doubtful THEN NoAnswer("lost") ELSE Store!AnswerTo(r, dataMap)
    <3>1. c \in Doubtful <=> OutOfStep(c)
      BY DEF Doubtful
    <3> HIDE DEF m
    <3> QED BY <1>2, <1>4, <1>6, <2>1, <3>1
  <2> HIDE DEF m
  <2>3. /\ CallOf[c] # NoRequest /\ Parse(CallOf[c])
        /\ dataMap' = Store!After(CallOf[c], dataMap)
        /\ AnswersOf' = [AnswersOf EXCEPT ![c] = IF c \in Doubtful THEN NoAnswer("lost")
                                                 ELSE Store!AnswerTo(CallOf[c], dataMap)]
    BY <1>4, <1>5, <1>6, <2>1, <2>2
  <2> QED BY <1>5, <2>3, EffectIs
<1>7. CASE ~ Parse(r)
  <2>1. AnswerOf(c)' = NoAnswer("lost")
    BY <1>2, <1>4, <1>7
  <2>2. AnswersOf' = [d \in Clients |-> IF d \in {c} THEN NoAnswer("lost") ELSE AnswersOf[d]]
    BY <1>5, <2>1 DEF AnswersOf
  <2>3. dataMap' = dataMap /\ Unsettled' \in SUBSET Unsettled /\ {c} \in SUBSET Clients
    BY <1>2, <1>5, <1>7
  <2> QED BY <1>5, <2>2, <2>3, LoseIs
<1> QED BY <1>6, <1>7

\* A request nobody waits for changes no answer: it takes effect late if it is a
\* Set that parses, and passes unnoticed otherwise.
LEMMA ServeLateRefines ==
  ASSUME Careful, TypeOK, NEW c \in Clients, CInv(c), NEW k \in 0 .. MaxConns, Serve(<<c, k>>),
         ~ InProgress(c, Head(Queue(c, k)))
  PROVE  Store!Next \/ UNCHANGED Store!vars
<1> DEFINE r == Head(Queue(c, k))
<1>1. /\ UNCHANGED <<phase, call, conn, outcome>>
      /\ dataMap' = IF Parse(r) THEN Perform(r) ELSE dataMap
      /\ k # conn[c] => replies'[c] = replies[c] /\ CurrentQueue(c)' = CurrentQueue(c)
      /\ OutOfStep(c) => replies'[c] = replies[c]
      /\ UNCHANGED <<repliesCut, Astray>>
      /\ \A d \in Clients : d # c => SameClient(d)
  <2>1. /\ UNCHANGED <<phase, call, conn, outcome, broken, requestsCut, repliesCut>>
        /\ dataMap' = IF Parse(r) THEN Perform(r) ELSE dataMap
        /\ k # conn[c] \/ OutOfStep(c) => replies'[c] = replies[c]
        /\ \A l \in 0 .. MaxConns : <<c, l>> # <<c, k>> => Queue(c, l)' = Queue(c, l)
    BY ServeTakes DEF Answering
  <2>2. conn[c] \in 0 .. MaxConns
    BY Numbers
  <2>3. k # conn[c] => CurrentQueue(c)' = CurrentQueue(c)
    BY <2>1, <2>2 DEF CurrentQueue, Queue
  <2> QED BY <2>1, <2>3, ServeKeeps DEF Astray
<1>2. /\ r \in Elements(Queue(c, k)) /\ r \in Requests
      /\ Queued(c) = Queued(c)' \cup {r}
      /\ \A e \in Queued(c)' : e.n # r.n
  BY ServedOnce
<1>3. phase[c] # "idle" => k # conn[c] \/ OutOfStep(c)
  <2> SUFFICES ASSUME phase[c] # "idle", k = conn[c], ~ OutOfStep(c) PROVE FALSE
    OBVIOUS
  <2>1. r \in Elements(CurrentQueue(c))
    BY <1>2 DEF CurrentQueue
  <2>2. r.n = call[c].n
    BY <2>1 DEF CInv, InCall, Fresh
  <2> QED BY <2>2 DEF InProgress
<1>4. AnswerOf(c)' = AnswerOf(c)
  <2>1. CASE phase[c] = "idle"
    BY <1>1, <2>1, Idle
  <2>2. CASE phase[c] # "idle" /\ k # conn[c]
    BY <1>1, <2>2, AnswerIs
  <2>3. CASE phase[c] # "idle" /\ k = conn[c] /\ OutOfStep(c)
    <3> DEFINE Q == Elements(CurrentQueue(c))
               P == Elements(CurrentQueue(c)')
               R == Elements(replies[c])
               n == call[c].n
    <3>1. Q = P \cup {r}
      <4>1. Queue(c, k) \in Seq(Requests) /\ Queue(c, k) # <<>> /\ Queue(c, k)' = Tail(Queue(c, k))
        BY Numbers, ServeTakes
      <4>2. CurrentQueue(c) = Queue(c, k) /\ CurrentQueue(c)' = Tail(Queue(c, k))
        BY <1>1, <2>3, <4>1 DEF CurrentQueue, Queue
      <4> QED BY <4>1, <4>2, Tailed
    <3>2. r.n # n
      BY <2>3 DEF InProgress
    <3>3. /\ AnswerOf(c) = AnswerFor(Q, R, phase[c] # "idle", n)
          /\ AnswerOf(c)' = AnswerFor(P, R, phase[c] # "idle", n)
      BY <1>1, <2>3, AnswerIs
    <3> HIDE DEF Q, P, R, n, r
    <3>4. \A busy : (\E e \in Q : busy /\ e.n = n) <=> (\E e \in P : busy /\ e.n = n)
      BY <3>1, <3>2
    <3> QED BY <3>3, <3>4 DEF AnswerFor
  <2> QED BY <1>3, <2>1, <2>2, <2>3
<1> HIDE DEF r
<1>5. Late(c)' = {e \in Queued(c)' : e.op = "set" /\ Parse(e) /\ ~ InProgress(c, e)}
  BY <1>1 DEF Late, InProgress, Parse
<1>6. /\ UNCHANGED <<CallOf, ResultsOf, AnswersOf, Doubtful, Astray>>
      /\ \A d \in Clients : d # c => Late(d)' = Late(d)
  BY <1>1, <1>4, ServerMapped
<1>7. ~ InProgress(c, r) /\ r \notin Queued(c)'
  BY <1>2 DEF r
<1>8. CASE r.op = "set" /\ Parse(r)
  <2>1. r \in Late(c) /\ Late(c)' = Late(c) \ {r}
    BY <1>2, <1>5, <1>7, <1>8 DEF Late
  <2> DEFINE w == <<c, r>>
  <2>2. w \in Unsettled /\ w[2] = r
    BY <2>1, UnsettledIs
  <2>3. Unsettled' = Unsettled \ {w}
    BY <1>6, <2>1, MappedLate
  <2>4. dataMap' = Store!After(r, dataMap)
    BY <1>1, <1>8 DEF Perform, Store!After
  <2>5. dataMap' = Store!After(w[2], dataMap)
    BY <2>2, <2>4
  <2> HIDE DEF w
  <2> QED BY <1>6, <2>2, <2>3, <2>5, LateEffectIs
<1>9. CASE ~ (r.op = "set" /\ Parse(r))
  <2>1. Late(c)' = Late(c)
    BY <1>2, <1>5, <1>9 DEF Late
  <2>2. dataMap' = dataMap
    BY <1>1, <1>9 DEF Perform
  <2>3. Unsettled' = Unsettled
    BY <1>6, <2>1, MappedLate
  <2> QED BY <1>6, <2>2, <2>3, StoreVars
<1> QED BY <1>8, <1>9

\* A request that is cut takes effect without the end of its value, at once or
\* late, or is lost; with it go those behind it on the connection.
LEMMA ServeCutRefines ==
  ASSUME Careful, TypeOK, NEW c \in Clients, CInv(c), NEW k \in 0 .. MaxConns,
         ServeCutRequest(<<c, k>>)
  PROVE  Store!Next
<1>1. PICK r : r = Head(Queue(c, k))
  OBVIOUS
<1> DEFINE m == ReplyTo(r)
<1>2. /\ UNCHANGED <<phase, call, connected, conn, outcome, repliesCut>>
      /\ Queue(c, k) # <<>> /\ Queue(c, k)' = <<>>
      /\ \A l \in 0 .. MaxConns : <<c, l>> # <<c, k>> => Queue(c, l)' = Queue(c, l)
      /\ \A d \in Clients : d # c => SameClient(d)
      /\ \/ /\ r.op = "set" /\ Parse(r) /\ dataMap' = Store!AfterCut(r.key, dataMap)
            /\ replies'[c] = IF Answering(c, k) THEN Append(replies[c], m) ELSE replies[c]
         \/ UNCHANGED <<dataMap, replies>>
  BY <1>1, ServeCutTakes, ServeKeeps
<1>3. \A l \in 0 .. MaxConns : l # k => Queue(c, l)' = Queue(c, l)
  BY <1>2
<1>4. Astray'
  <2>1. broken' = broken /\ requestsCut' = requestsCut \cup {<<c, k>>} /\ <<c, k>> \notin broken
    BY ServeCutTakes
  <2> QED BY <2>1 DEF Astray
<1>5. /\ r \in Elements(Queue(c, k)) /\ r \in Queued(c) /\ Queued(c)' \subseteq Queued(c)
      /\ \A e \in Queued(c)' : e.n # r.n
  BY <1>1, <1>2, <1>3, TakenOnce
<1>6. Late(c)' \subseteq Late(c) \ {r}
  <2>1. Late(c)' = {e \in Queued(c)' : e.op = "set" /\ Parse(e) /\ ~ InProgress(c, e)}
    BY <1>2 DEF Late, InProgress, Parse
  <2> QED BY <1>5, <2>1 DEF Late
<1>7. /\ UNCHANGED <<CallOf, ResultsOf, Doubtful>>
      /\ CallOf[c] = InCallOf(c) /\ AnswersOf[c] = AnswerOf(c)
      /\ AnswersOf' = [AnswersOf EXCEPT ![c] = AnswerOf(c)']
      /\ Unsettled' \subseteq Unsettled \ {<<c, r>>}
  <2>1. /\ UNCHANGED <<CallOf, ResultsOf, Doubtful>>
        /\ CallOf[c] = InCallOf(c) /\ AnswersOf[c] = AnswerOf(c)
        /\ AnswersOf' = [AnswersOf EXCEPT ![c] = AnswerOf(c)']
        /\ \A d \in Clients : d # c => Late(d)' = Late(d)
    BY <1>2, ServerMapped
  <2> QED BY <1>6, <2>1, MappedLate
<1>8. Elements(CurrentQueue(c)') \in {Elements(CurrentQueue(c)), {}}
  <2>1. conn[c] \in 0 .. MaxConns
    BY Numbers
  <2> QED BY <1>2, <1>3, <2>1, Emptied DEF CurrentQueue, Queue
<1>9. replies'[c] = replies[c] => AnswerOf(c)' \in {AnswerOf(c), NoAnswer("lost")}
  BY <1>2, <1>8, AnswerKeptOrLost
<1>10. CASE r.op = "set" /\ Parse(r) /\ InProgress(c, r) /\ ~ UNCHANGED <<dataMap, replies>>
  <2>1. /\ InCallOf(c) = r /\ r # NoRequest /\ AnswerOf(c) = NoAnswer("pending")
        /\ Answering(c, k) <=> ~ OutOfStep(c)
        /\ replies'[c] = replies[c] => AnswerOf(c)' = NoAnswer("lost")
        /\ replies'[c] = Append(replies[c], m) => AnswerOf(c)' = [ok |-> m.ok, value |-> m.value]
    BY <1>1, <1>2, <1>3, <1>10, TakenCall
  <2>2. [ok |-> m.ok, value |-> m.value] = Store!AnswerTo(r, dataMap)
    BY <1>10 DEF ReplyTo, Store!AnswerTo
  <2> HIDE DEF m
  <2>3. c \in Doubtful <=> OutOfStep(c)
    BY DEF Doubtful
  <2>4. AnswerOf(c)' = IF c \in Doubtful THEN NoAnswer("lost") ELSE Store!AnswerTo(r, dataMap)
    BY <1>2, <1>10, <2>1, <2>2, <2>3
  <2>5. dataMap' = Store!AfterCut(r.key, dataMap)
    BY <1>2, <1>10
  <2> QED BY <1>4, <1>7, <1>10, <2>1, <2>4, <2>5, CutEffectIs
<1>11. CASE r.op = "set" /\ Parse(r) /\ ~ InProgress(c, r) /\ ~ UNCHANGED <<dataMap, replies>>
  <2>1. r \in Late(c)
    BY <1>5, <1>11 DEF Late
  <2>2. <<c, r>> \in Unsettled
    BY <2>1, UnsettledIs
  <2>3. dataMap' = Store!AfterCut(r.key, dataMap)
    BY <1>2, <1>11
  <2>4. AnswerOf(c)' \in {AnswerOf(c), NoAnswer("lost")}
    <3>1. CASE phase[c] = "idle"
      BY <1>2, <3>1, Idle
    <3>2. CASE phase[c] # "idle"
      <4>1. k # conn[c] \/ OutOfStep(c)
        <5> SUFFICES ASSUME k = conn[c], ~ OutOfStep(c) PROVE FALSE
          OBVIOUS
        <5>1. r \in Elements(CurrentQueue(c))
          BY <1>5 DEF CurrentQueue
        <5>2. r.n = call[c].n
          BY <3>2, <5>1 DEF CInv, InCall, Fresh
        <5> QED BY <1>11, <3>2, <5>2 DEF InProgress
      <4>2. replies'[c] = replies[c]
        BY <1>2, <4>1 DEF Answering
      <4> QED BY <1>9, <4>2
    <3> QED BY <3>1, <3>2
  <2>5. AnswersOf' \in {AnswersOf, [AnswersOf EXCEPT ![c] = NoAnswer("lost")]}
    <3>1. CASE AnswerOf(c)' = AnswerOf(c)
      BY <1>7, <3>1 DEF AnswersOf
    <3>2. CASE AnswerOf(c)' = NoAnswer("lost")
      BY <1>7, <3>2
    <3> QED BY <2>4, <3>1, <3>2
  <2> QED BY <1>4, <1>7, <2>2, <2>3, <2>5, LateCutEffectIs
<1>12. CASE UNCHANGED <<dataMap, replies>>
  <2>1. AnswerOf(c)' \in {AnswerOf(c), NoAnswer("lost")}
    BY <1>9, <1>12
  <2>2. PICK lost \in SUBSET Clients :
          AnswersOf' = [d \in Clients |-> IF d \in lost THEN NoAnswer("lost") ELSE AnswersOf[d]]
    BY <1>7, <2>1, LosesOne
  <2> QED BY <1>7, <1>12, <2>2, LoseIs
<1> QED BY <1>2, <1>10, <1>11, <1>12

\* Out of step, the server does what nobody has asked for, and leaves the client
\* that is still on this connection in doubt.
LEMMA ServeGarbageRefines ==
  ASSUME TypeOK, NEW c \in Clients, CInv(c), NEW k \in 0 .. MaxConns, ServeGarbage(<<c, k>>)
  PROVE  Store!Next
<1>1. /\ UNCHANGED <<phase, call, conn, outcome, broken, requests, requestsCut>>
      /\ <<c, k>> \in requestsCut \ broken
      /\ dataMap' \in {dataMap} \cup {Store!AfterCut(key, dataMap) : key \in Keys}
  BY DEF ServeGarbage, Store!AfterCut
<1>2. /\ \A d \in Clients : d # c => SameClient(d)
      /\ replies'[c] = IF k = conn[c] THEN <<>> ELSE replies[c]
      /\ OutOfStep(c)' <=> OutOfStep(c) \/ k = conn[c]
  BY ServeGarbageKeeps
<1>3. Astray /\ UNCHANGED Astray
  BY <1>1 DEF Astray
<1>4. CurrentQueue(c)' = CurrentQueue(c) /\ Late(c)' = Late(c)
  <2>1. CurrentQueue(c)' = CurrentQueue(c) /\ Queued(c)' = Queued(c)
    BY <1>1 DEF CurrentQueue, Queue, Queued
  <2> QED BY <1>1, <2>1 DEF Late, InProgress, Parse
<1>5. /\ UNCHANGED <<CallOf, ResultsOf>> /\ AnswersOf[c] = AnswerOf(c)
      /\ AnswersOf' = [AnswersOf EXCEPT ![c] = AnswerOf(c)']
      /\ AnswerOf(c)' = AnswerOf(c) => AnswersOf' = AnswersOf
      /\ \A d \in Clients : d # c => Late(d)' = Late(d)
  BY <1>1, <1>2, ServerMapped
<1>6. /\ Doubtful' = IF OutOfStep(c)' THEN Doubtful \cup {c} ELSE Doubtful \ {c}
      /\ (OutOfStep(c)' <=> OutOfStep(c)) => Doubtful' = Doubtful
  BY <1>2, MappedStep
<1>7. UNCHANGED Unsettled
  BY <1>4, <1>5, MappedLate
<1>8. CASE k = conn[c]
  <2>1. Elements(replies'[c]) \in {Elements(replies[c]), {}}
    BY <1>2, <1>8, Emptied
  <2>2. AnswerOf(c)' \in {AnswerOf(c), NoAnswer("lost")}
    BY <1>1, <1>4, <2>1, AnswerKeptOrLost
  <2>3. AnswersOf' \in {AnswersOf, [AnswersOf EXCEPT ![c] = NoAnswer("lost")]}
    BY <1>5, <2>2
  <2>4. Doubtful' = Doubtful \cup {c}
    BY <1>2, <1>6, <1>8
  <2> QED BY <1>1, <1>3, <1>5, <1>7, <2>3, <2>4, StrayIs
<1>9. CASE k # conn[c]
  <2>1. AnswerOf(c)' = AnswerOf(c)
    BY <1>1, <1>2, <1>4, <1>9, AnswerIs
  <2> QED BY <1>1, <1>2, <1>3, <1>5, <1>6, <1>7, <1>9, <2>1, StrayIs
<1> QED BY <1>8, <1>9

\* A connection that breaks loses the requests on it, and perhaps the answer.
LEMMA HangUpRefines ==
  ASSUME TypeOK, NEW c \in Clients, CInv(c), NEW k \in 0 .. MaxConns, HangUp(<<c, k>>)
  PROVE  Store!Next
<1> DEFINE x == <<c, k>>
<1>1. /\ UNCHANGED <<phase, call, conn, outcome, dataMap, repliesCut>>
      /\ \A l \in 0 .. MaxConns : Queue(c, l)' = IF l = k THEN <<>> ELSE Queue(c, l)
      /\ replies'[c] = replies[c] \/ (k = conn[c] /\ replies'[c] = <<>>)
      /\ \A d \in Clients : d # c => SameClient(d)
  <2>1. x \in Connections /\ \A d \in Clients : x = Current(d) <=> d = c /\ k = conn[c]
    BY DEF Connections, Current
  <2>2. /\ UNCHANGED <<phase, call, conn, outcome, dataMap, repliesCut>>
        /\ requests' = [requests EXCEPT ![x] = <<>>]
        /\ replies' = replies \/ (k = conn[c] /\ replies' = [replies EXCEPT ![c] = <<>>])
    BY <2>1 DEF HangUp, cuts
  <2>3. \A l \in 0 .. MaxConns : Queue(c, l)' = IF l = k THEN <<>> ELSE Queue(c, l)
    BY <2>1, <2>2 DEF Queue, TypeOK, Connections
  <2>4. replies'[c] = replies[c] \/ (k = conn[c] /\ replies'[c] = <<>>)
    BY <2>2 DEF TypeOK
  <2> QED BY <2>2, <2>3, <2>4, HangUpKeeps
<1>2. conn[c] \in 0 .. MaxConns /\ CurrentQueue(c)' = IF k = conn[c] THEN <<>> ELSE CurrentQueue(c)
  BY <1>1, Numbers DEF CurrentQueue, Queue
<1>3. Late(c)' \subseteq Late(c)
  <2>1. Queued(c)' \subseteq Queued(c)
    <3>1. \A l \in 0 .. MaxConns : Elements(Queue(c, l)') \subseteq Elements(Queue(c, l))
      BY <1>1, Emptied
    <3> QED BY <3>1 DEF Queued
  <2>2. Late(c)' = {e \in Queued(c)' : e.op = "set" /\ Parse(e) /\ ~ InProgress(c, e)}
    BY <1>1 DEF Late, InProgress, Parse
  <2> QED BY <2>1, <2>2 DEF Late
<1>4. AnswerOf(c)' \in {AnswerOf(c), NoAnswer("lost")}
  BY <1>1, <1>2, Emptied, AnswerKeptOrLost
<1>5. /\ UNCHANGED <<CallOf, ResultsOf, Doubtful>> /\ AnswersOf[c] = AnswerOf(c)
      /\ AnswersOf' = [AnswersOf EXCEPT ![c] = AnswerOf(c)']
      /\ \A d \in Clients : d # c => Late(d)' = Late(d)
  BY <1>1, ServerMapped
<1>6. Unsettled' \subseteq Unsettled
  BY <1>3, <1>5, MappedLate
<1>7. PICK lost \in SUBSET Clients :
        AnswersOf' = [d \in Clients |-> IF d \in lost THEN NoAnswer("lost") ELSE AnswersOf[d]]
  BY <1>4, <1>5, LosesOne
<1> QED BY <1>1, <1>5, <1>6, <1>7, LoseIs

LEMMA InitRefines ==
  ASSUME Init
  PROVE  Store!Init
<1>1. /\ CallOf = [c \in Clients |-> NoRequest]
      /\ ResultsOf = [c \in Clients |-> [ok |-> FALSE, value |-> NoValue]]
  BY DEF Init, CallOf, InCallOf, ResultsOf, ResultOf, Failed
<1>2. AnswersOf = [c \in Clients |-> NoAnswer("lost")]
  <2>1. \A c \in Clients : AnswerOf(c) = NoAnswer("lost")
    BY Idle DEF Init
  <2> QED BY <2>1 DEF AnswersOf
<1>3. Unsettled = {}
  <2>1. \A c \in Clients, k \in 0 .. MaxConns : Queue(c, k) = <<>>
    BY DEF Init, Queue, Connections
  <2>2. \A c \in Clients : Late(c) = {}
    BY <2>1, Emptied DEF Late, Queued
  <2> QED BY <2>2, UnsettledIs
<1>4. {c \in Clients : Current(c) \in repliesCut} = {} /\ (requestsCut \ broken # {}) = FALSE
  BY DEF Init
<1> QED BY <1>1, <1>2, <1>3, <1>4
      DEF Init, Store!Init, Store!Failed, CallOf, InCallOf, AnswersOf, ResultsOf, ResultOf, Unsettled

LEMMA StepRefines ==
  ASSUME Careful, IInv, Next
  PROVE  Store!Next \/ UNCHANGED Store!vars
<1>1. TypeOK /\ TypeOK' /\ \A c \in Clients : CInv(c)
  BY StepTypeOK DEF IInv
<1>2. ASSUME NEW c \in Clients, Client(c) PROVE Store!Next \/ UNCHANGED Store!vars
  <2>1. CASE Connect(c) \/ Disconnect(c) \/ Calling(c)
    BY <1>1, <2>1, ConnectRefines, CallRefines
  <2>2. CASE ReadReply(c) \/ ReadCutReply(c) \/ ReadNothing(c)
    BY <1>1, <2>2, ReadReplyRefines, ReadCutReplyRefines, ReadNothingRefines
  <2>3. CASE ReadGarbage(c)
    <3>1. Ending(c) /\ OutOfStep(c)
      BY <2>3 DEF Ending, ReadGarbage, OutOfStep
    <3> QED BY <1>1, <3>1, InDoubtRefines
  <2>4. CASE ReadFails(c)
    <3>1. Ending(c)
      BY <2>4 DEF Ending
    <3> QED BY <1>1, <2>4, <3>1, InDoubtRefines, ReadFailsRefines
  <2> QED BY <1>2, <2>1, <2>2, <2>3, <2>4 DEF Client, Reading
<1>3. ASSUME NEW x \in Connections, Server(x) PROVE Store!Next \/ UNCHANGED Store!vars
  <2>1. PICK c \in Clients, k \in 0 .. MaxConns : x = <<c, k>>
    BY DEF Connections
  <2>2. CASE Serve(<<c, k>>)
    BY <1>1, <2>2, ServeCallRefines, ServeLateRefines
  <2>3. CASE HangUp(<<c, k>>)
    BY <1>1, <2>3, HangUpRefines
  <2>4. CASE ServeCutRequest(<<c, k>>)
    BY <1>1, <2>4, ServeCutRefines
  <2>5. CASE ServeGarbage(<<c, k>>)
    BY <1>1, <2>5, ServeGarbageRefines
  <2> QED BY <1>3, <2>1, <2>2, <2>3, <2>4, <2>5 DEF Server
<1> QED BY <1>2, <1>3 DEF Next

LEMMA StutterRefines ==
  ASSUME UNCHANGED vars
  PROVE  UNCHANGED Store!vars
<1>1. UNCHANGED <<CallOf, AnswersOf, ResultsOf>>
  BY AnswerIs DEF vars, CallOf, InCallOf, AnswersOf, AnswerOf, InProgress, Current, ResultsOf, ResultOf
<1>2. Unsettled' = Unsettled
  BY DEF vars, Unsettled, GivenUp, InProgress, Parse
<1>3. UNCHANGED <<Doubtful, Astray>>
  BY DEF vars, cuts, Doubtful, OutOfStep, Current, Astray
<1> QED BY <1>1, <1>2, <1>3, StoreVars DEF vars

\* MemcacheClient.h:66-86: for callers who reconnect after a call that went
\* without a reply, the clients and the server are a key-value store: every call
\* takes effect at most once, while it is in progress or (a Set that was given up)
\* later, and a call that succeeds returns the answer to that very call.  A reply
\* that is cut by a time-out (MemcacheSocket.cpp:289-301) spoils this for its
\* client until it connects again, and a request that is cut spoils the store as
\* long as the server goes on with that connection.
THEOREM SessionImplementsKVStore == Careful => (Spec => ImplementsKVStore)
<1> SUFFICES ASSUME Careful PROVE Spec => ImplementsKVStore
  OBVIOUS
<1>1. Init => Store!Init
  BY InitRefines
<1>2. IInv /\ [Next]_vars => [Store!Next]_(Store!vars)
  BY StepRefines, StutterRefines
<1> QED BY <1>1, <1>2, SessionInductive, PTL DEF Spec, ImplementsKVStore, Store!Spec
=============================================================================
