# A formal model of memcached-example

This directory holds TLA+ specifications of the memcache server and client in
`src/MemcachedLib`, the TLC configurations that check them on small instances,
and proofs that TLAPS checks for every instance. `PROJECT.json` maps every
definition to the lines it models. Paths below are relative to
`src/MemcachedLib/MemcachedLib/` unless they say otherwise.

## 1. The system

The library (about 2000 lines of C++ for Windows) implements a small part of the
memcached binary protocol, with a server and a client on top of it.

| Component | State it keeps | Operations | Shared with |
|---|---|---|---|
| `Event` | signal, parked threads | `Set`, `Reset`, `Wait`, `TimedWait` | every thread that has the object |
| `Mutex`, `LockHelper` | owner, depth (recursive) | `Lock`, `Unlock` | as above |
| `ReadWriteLock` | `_readCount`, `_writeCount`, `_writeMutex`, `_readEvent`, `_writeEvent` | `LockRead`, `UnlockRead`, `LockWrite`, `UnlockWrite` | select threads, console thread |
| `Thread` | `_shouldTerminate`, the handle | `Start`, `Stop(join)` | the owner and the thread itself |
| `MemcacheSocket` | handle, session ID, select thread, read buffer, current message | `Listen`, `Connect`, `Close`, `Run`, `ReadMessage`, `SendBuiltMessage` | its select thread and whoever closes it |
| `MemcacheServer` | `_dataMap`, `_socketMap`, `_socketDisposal`, two mutexes, `_thread`, `_threadEvent`, `_listenSock` | `Start`, `Shutdown`, `Run`, `OnAcceptConn`, `OnReceivedMessage`, `OnSocketClosed`, `ClearDataCache` | all server threads |
| `MemcacheClient` | one socket, `_readMsg` | `Connect`, `Disconnect`, `Set`, `Get` | one caller; the server over TCP |
| Messages | header, key, extras, value, buffer | `Build`, `Parse` | - |
| `DataBuffer` | bytes, size, read and write offset | reads, writes, `Realloc`, copying | - |
| console programs | - | `clearcache`, `printcache`, `quit`; `set`, `get`, `quit` | - |
| unit tests | - | cases on messages, the request handler, threads and the lock | - |

How they interact. The server runs one select thread for the listening socket,
one per accepted connection and one management thread. The listening thread
calls `OnAcceptConn`, which puts the socket in `_socketMap`. A session's thread
calls `OnReceivedMessage` for each message and sends the reply, and calls
`OnSocketClosed` when a peek finds less than a header: the socket's `shared_ptr`
is copied to `_socketDisposal`, `_threadEvent` is set and the map entry erased.
The management thread (and `Shutdown`) resets the entries of the list, and the
last reference runs `~MemcacheSocket`, which joins the select thread. A client
writes a request and reads the reply in the caller's thread, for at most one
second per `recv`.

What is hard, and therefore what the models are about:

- *Concurrency.* The lock is made of two events and a counter that are not
  changed together, and the sections it guards touch an entry of the cache in
  two steps. The server has two mutexes, joins under mutexes, and
  destructors that run on whichever thread drops the last reference.
- *Ordering.* A select thread runs before its socket is in the map; an entry is
  on the disposal list before it has left the map; `Shutdown` relies on the order
  of six steps.
- *Failure and time-outs.* Connections break at any point, replies come late,
  some requests get no reply at all, and nothing in a message says which request
  it answers.

What makes each component correct: the lock keeps readers and writers apart and
strands nobody; an entry of the cache has the flags and the value of one `Set`; a socket is destroyed once, by a thread that can, after its own
thread has ended, and it always is; `Shutdown` ends with everything cleaned up;
a call that returns true has done what it says; a message that is parsed is the
message that was built.

## 2. The modules

| Module | Models | Kind |
|---|---|---|
| `Event` | the states of an event | operators |
| `ReadWriteLock` | `ReadWriteLock.cpp` | specification |
| `Turnstile` | what the lock does guarantee | abstract specification |
| `ReadWriteLockProofs` | theorems about the lock | proofs |
| `CacheAccess` | the cache handlers' sections under that lock | specification, extends `ReadWriteLock` |
| `CacheAccessProofs` | theorems about the cache | proofs |
| `ConnectionLifecycle` | `MemcacheServer.cpp`, `MemcacheSocket::Run`, `Close`, `Threading.cpp` | specification |
| `LifecycleProofs` | theorems about sockets, their threads and `Shutdown` | proofs |
| `ClientSession` | `MemcacheClient.cpp`, `ReadMessage` as the client meets it, `OnReceivedMessage` | specification |
| `KVStore` | what `MemcacheClient.h` promises | abstract specification |
| `ClientSessionProofs` | theorems about calls and replies, and the refinement of `KVStore` | proofs |
| `DataBuffer` | `DataBuffer.cpp` | operators |
| `Messages` | `MemcacheMessages.cpp`: `Build` and `Parse` of the four classes | operators |
| `RequestHandler` | what `OnReceivedMessage` stores and replies, in bytes | operators |
| `Framing` | `ReadMessage` over bytes and segments, the handlers' dispatch, cache and replies | specification |
| `UnitTests` | the cases of `MessageTests.cpp` and `ServerTests.cpp` | assumptions that TLC evaluates |
| `MessagesProofs` | theorems about buffers and messages: what is built and what is parsed of it | proofs |
| `FramingProofs` | theorems about receives, casts and types, whatever the bytes are | proofs |
| `AlignmentProofs` | theorems about a receiver in step: where messages begin, what is handled | proofs |
| `AnswerProofs` | theorem about the replies of the server | proofs |
| `MC...` | small interchangeable sets for TLC | model checking |

Definitions whose comment begins with "Mistake:" are variants of the definition
below them with a plausible slip in it. They are part of no specification: each
property is shown to fail when one of them takes the place of the right
definition, so that no property holds by accident.

### 2.1 ReadWriteLock and CacheAccess

`ReadWriteLock` has one action per access to shared state: an atomic operation on
`_readCount`, a call on an event, a call on the mutex. `pc` is the next such
access of a thread. An event keeps the set of threads parked on it, because
Windows satisfies every pending wait when a manual-reset event is set: a parked
reader gets through even if the event is reset before the reader is scheduled. A
wait that finds the event signaled returns at once. `_writeCount` is read and
written only under `_writeMutex`, so testing and changing it is one step. A thread
may nest write sections up to `MaxDepth`. Nesting read sections, or taking the
lock for writing while holding it for reading, is left out: no caller does
either.

`Turnstile` says what is left of the documented guarantee when the race of
finding 1 is taken into account: writers take turns, and readers are *admitted*
only while the turnstile is open. It does not say that a writer waits for every
admitted reader.

`CacheAccess` composes the lock with the four sections it guards: `Get`, `Set`,
`ClearDataCache` and `PrintDataCache`. `Get` finds an entry and takes its flags in
one step (`FindFlags`) and copies its buffer in another (`CopyValue`); `Set` makes
the entry and puts its flags (`PutFlags`), then its buffer (`PutValue`), as
`operator=` of `DataEntry` does. `local` is what a thread has in hand. A datum
stands for the flags and the value of one `Set`, so that a mixture can be told;
`Nil` is also what a `Get` finds in an entry that has been freed under it. Every step
of this module is a step of the lock or leaves the lock alone (theorem `UsesLock`),
so the lock is run here, with sections that really do something, and has no run
of its own. A thread in a write section may take the lock again before it does
anything else, which the lock promises to allow; no handler of this server does.

### 2.2 ConnectionLifecycle

A session stands for a `MemcacheSocket` and its select thread. Threads are
`Main` (the console thread), `Manager`, `Listener` and the sessions. The points
of `pc` are the places between which another thread can act. The `shared_ptr`
copies of a socket are its entries in `socketMap` and `socketDisposal`;
`LastReference` decides who runs the destructor. `target` is the session that a
thread has in its hands: accepted and not yet inserted, being closed, or being
destroyed. `wire` is what the remote end has made of the connection: nothing to
read, a message, less than a header (also what a hang-up looks like to the
peek), or a message cut off by a hang-up.

A critical section is one action when nothing in it blocks and nobody outside the
mutex sees its middle (`OnAcceptConn`, `PushDisposal`, `PushClosed`). The
sections of `OnSocketClosed`, `CloseAllSockets` and `ProcessClosedSockets` take
and release their mutex in actions of their own, since they block or are seen.
`Stop(false)` and `closesocket` are one action: the flag and the handle are read
in separate actions by the select thread, and no point between them tells the
two moments apart. When a select thread runs its own destructor, `join` throws
out of a destructor and `terminated` ends the behaviour.

`TimedWait` returns at any time, because it waits at most 100 ms; the event only
makes that sooner. The iteration of `_socketMap` may take sessions in any order.
`SelectErrors` lets `select` fail on a socket that nobody closed. `Start` has
three outcomes: `Listen` succeeds; it fails, and `Start` shuts the server down;
or the port is 0 and the server runs without a listening socket. `Shutdown` may be
called a second time, as the destructor of `MemcacheServer` does after `quit`.

### 2.3 ClientSession and KVStore

A connection is a queue of requests and a queue of replies. `Connect` starts a
new one; the server's select thread of the old one may still work off what it
has received. `ReadFails` is `recv` failing in the header, after the one-second
time-out of `SetSockOpts` or on a reset connection; `ReadNothing` is `recv`
returning 0 on a connection closed by the server, where the loop over the header
never ends. The numbers in requests and replies are history: the code has none.
The cache lock is taken at its word here, so handling a request is one step; what
the race in the lock adds to that is the matter of `CacheAccess`.

A time-out may also come in the middle of a message. `Framing` has it byte by
byte; here it is an event of the calls. In the body the loop of lines 289-301 is
left by `break`, and what has arrived is parsed and handed over: `ReadCutReply` is
a `Get` that returns true with the end of its value missing, `ServeCutRequest` a
`Set` that is stored so, and answered like any other. In the header `ReadMessage`
returns and drops the first part of it (the second branch of `ReadFails`). In all
three the reader is out of step with the connection from then on, and what it
reads depends on the bytes of values. The model does not guess: `ReadGarbage` lets
the client's `ReadMessage` come back with any message (or with none that it
understands), `ServeGarbage` lets the server find any request, store a value that
nobody sent under any key, and reply, after which the client is out of step too.
`Garbled` stands for every such value. `requestsCut` and `repliesCut` are the
connections this has happened on; what is still on its way there is not in the
queues any more. The number 0 marks a message that is nobody's.

`KVStore` is the promise: a call takes effect at most once, and if it returns
true it returns its own answer; a call that was given up may still take effect
later, or never. It has two exceptions, one for each direction. A cut reply
(`ReturnCut`) returns a value nobody has stored and leaves the client `inDoubt`:
until it has a new connection its calls may return anything. A cut request
(`CutEffect`) stores such a value and leaves the store `astray`: the server may do
what nobody asked for, and reply, until it closes that connection (`Stray`). The
refinement maps `dataMap` to the store, the requests in queues to calls that are
pending or given up, a reply in front of a client to the answer of its call, and
the connections out of step to `inDoubt` and `astray`.

### 2.4 DataBuffer, Messages, RequestHandler and Framing

A buffer is a record of its bytes and its two offsets; each method is an operator
that returns the new buffer. `InOrder` is what all of them keep except three:
`ReadByte` and `ReadLongLong` test against the size of the buffer and not against
what has been written, and `MoveWriteBackward` leaves the read offset where it is. Memory that nobody has written holds `Junk`, which
is no byte, so a value that was never received can be told from one that was
(only what `new unsigned char[len]` leaves uninitialized is `Junk`; the read buffer
keeps the bytes of earlier messages, as in the code). Integers of more than a byte
are sequences of bytes wherever the code only passes them on, and numbers where
it computes with them: `KeyLen` and `TotalBodyLen` are written and parsed byte by
byte. The private `_expires` that the client never sets is any four bytes.

`Messages` has one operator per virtual method, with the class as a parameter
where the classes differ. `KeyLenLimit` is the number of values of the short
`KeyLen` (65536 in the code) and `BuildSize` the size of a new message's buffer
(2048); both are constants, so that TLC meets a key that is too long for its
length field and a buffer that has to grow with messages of a few bytes. The 32
bits of `TotalBodyLen` do not wrap in the model: `Constructible` says which messages
can be built at all (flags and expiration are words, the status is a short, the
length of the body fits `TotalBodyLen`, and a class has only its own parts), and
`OutgoingAssumption` asks it of every message that is sent. `WriteGrowing` stands for
`WriteKey` and both `WriteValue`s, which do the same. Every message is built once,
on a new object, which is what the programs do. An object may well parse a second message: with an
unknown opcode `ReadMessage` uses the last one again (lines 319 and 339), and
`Dispatch` in `Framing` has that.

`Realloc` is written as the code does it: the read offset is set to zero, the new
array is filled by reading, which moves the read offset, and both offsets are held
back to the new size.

`RequestHandler` says what a request that has been parsed does to the cache
(`Stored`) and what is replied (`ReplyTo`). Every entry of the cache has a buffer, but
for one that a `Set` is just making (`CacheAccess` has those), so the branch that
answers `kResNotStored` is left out.

`Framing` is one connection, with a sender at one end and `ReadMessage` at the
other. `stream` is what has been sent and not yet received; `Received` lets `recv`
return any part of it, at least a byte. `role` is chosen once: a server's session
peeks before it reads, keeps what it is sent in `dataMap` and replies; a client's
socket reads when a request has been sent. `handled` records what a handler acts
on, with the class of the object and the class it is cast to; `messages` and
`cuts` are history. When a receive has timed out in the middle of a message
(`HeaderTimeout` with a part of a header received, `BodyTimeout`), the rest of the
message is read as the next header, and the model goes on with whatever that
header says: `InStep` is false from then on. It stops where `new` throws
`bad_alloc`, which no caller catches. That is so when a header announces more than
`MaxBody` bytes, or a value has more, and there is no memory for them
(`"exhausted"`); `MaxBody` is a constant, so that nothing depends on where the limit
is, as long as it is below 4294836224 bytes (`MemoryAssumption`: the program is
built for Win32 only). And it is so where `ReadValue` subtracts lengths that do not
add up: the unsigned difference is close to 2^32 (`"terminated"`). The length of
the message, `TotalBodyLen + 24`, is computed in 32 bits as well: in the last 24
values it wraps (`Wraps`), is less than a header, and no body is read at all. Hang-ups
are the matter of the other specifications.

`UnitTests` asks the test cases of the repository of `Messages` and
`RequestHandler`, with the sizes of the program (2048 and 65536) instead of those of
the runs. They are `ASSUME`s, which TLC evaluates before the runs of
`MCClientSession`, which extends the module; no proof uses them.

## 3. The runs

| Run | Instance | What it shows |
|---|---|---|
| `cache_access` | 3 threads, nesting 2, 1 key, 2 data | counters, gate, nesting, wake-ups, refinement of `Turnstile`, progress of readers and writers; whole entries, Sets that stay |
| `cache_torn` | 2 threads, 1 key, 2 data | a `Get` answers with a mixture of two `Set`s |
| `lifecycle_safety` | 2 sessions, failing select | ownership, disposal, event, order of `Shutdown` |
| `lifecycle_liveness` | 1 session, failing select | hang-ups, disposal and `Shutdown` make progress |
| `lifecycle_shutdown` | 1 session | `Shutdown` deadlocks |
| `lifecycle_self_destruction` | 1 session | a select thread joins itself |
| `lifecycle_stranded` | 1 session | a dead session stays in the map |
| `client_session` | 1 client, 2 keys, 3 calls, 2 connections, 1 of them out of step | order and use of replies, calls end |
| `client_store` | 2 clients, 1 key, 2 values, 3 calls each, 2 connections in all, 1 of them out of step | implements `KVStore` when callers reconnect |
| `client_stale` | 1 client | a late reply is taken for the next call's |
| `framing` | 2 messages of 10 kinds, 1 time-out, `MaxBody` 64, `BuildSize` 34, `KeyLenLimit` 4 | buffers not overrun and casts right even out of step; stream aligned, content kept, replies current in step |
| `framing_cut` | 1 message, 1 time-out | a truncated message is handled |

Why the bounds are enough. The lock's races need one reader, one writer and a
third thread that is the "other" reader or the next writer; depth 2 tells inner
from outer sections. In the cache every section touches one key, so that one
key and two different `Set`s are enough for a mixture, and the third thread is the
clear that frees an entry, or the second writer. Two sessions let `Shutdown` close one while the other
retires, and let the listening thread insert one while another is destroyed
(three sessions were explored once, 3.5 million states, with the same result).
The liveness run has one session, because contention for the mutexes then still
comes from `Main` and `Manager`. Stale replies need a call that times out, one
that meets a reply of the wrong type and one that uses it: three calls; the
second connection shows what survives a reconnect. In `client_store` a write that
is given up on an old connection is applied after a newer one: two calls, two
values and two connections of one client, and a third call that reads. `MaxOpened`
gives two connections to one client or one to each, so that what one client's cut
request does to the store is met by the other. `MaxCuts` lets one connection get out
of step by a time-out, in either direction (the server that is out of step carries it
to its client without counting); a second one would put another client, or another
connection, into a state that the first one has been in. Three connections, with two
calls each, were explored once: 1.9 million states, with the same result. In `framing` two messages
are the least for a first one to leave something behind (a buffer that has
grown, a `_currentMsg` of another class, a stream out of step) and a second one
to meet it. The ten kinds are every class, with and without a value; a key or a
value that makes the sender's buffer of 34 bytes grow, or both; a key of 4 and
one of 5 bytes, whose length is announced modulo 4; a set without a value, which
does not parse; and an unknown opcode. One time-out puts the receiver out of
step, and it stays so; allowing a second one took five minutes and showed no
more. `MaxBody` lets lengths through that are too small, right, or too large by
a few bytes for what is there; the largest real body here has 16 bytes. No run
comes to a length that wraps (`Wraps`): no message of the run has three bytes 255
in a row, and TLC's own integers have 32 bits. That case is the theorem's
(`ReceiveFits`).

`CHECK_DEADLOCK FALSE` is set where the system may stop: after `Shutdown`, in the
deadlock that `lifecycle_shutdown` is about, and when the bounded calls of a
client, or the bounded messages of `Framing`, are used up. The cache and its lock
never stop, and their runs check for deadlock.

Fairness. Threads that can run are scheduled (weak fairness per thread). In
`CacheFairness` no thread has to start anything, but one that is inside the lock or
a section goes on: a section is a bounded operation on the map. Write sections
end, so the outermost `UnlockWrite` gets strong fairness: a writer
does not nest sections for ever; `_writeMutex` promises nothing, so
`AcquireMutex` has weak fairness only, and no property says that a particular
writer gets the mutex. In the life cycle, the waits for `_sockListMutex` get
strong fairness, since its most frequent user, `Manager`, sleeps on the event
between two uses. In `ClientSession` only a client in a call is fair; the server
may be slow or silent, which is what time-outs are for. Remote ends, callers and
the console owe nothing.

## 4. What disagrees with the documentation

Each of these is a run that TLC finds violated; the lines are in
`PROJECT.json`.

1. **The lock does not keep readers and writers apart** (`cache_torn`).
   `LockRead` waits for the gate, counts itself and then resets `_readEvent`, and
   until the reset a writer finds the event signaled and enters. In TLC's schedule
   the reader has counted itself already (`readCount = 1`, `pc = "resetRead"`). What
   it does to the cache: a `Get` answers with the flags of one `Set` and the value of
   another, or copies the value of an entry that a clear has freed. Making the
   increment and the reset one step would not help: a reader between the gate and
   its increment is overtaken in the same way. Two further schedules have the same
   effect: the last reader's `Set` comes after a new reader's `Reset`, and a second
   reader reads before the first has done its `Reset`. What remains true is proved in section
   5: writers are kept apart, so what the cache holds is whole.
2. **`Shutdown` can deadlock** (`lifecycle_shutdown`): `CloseAllSockets` joins a
   select thread that waits in `OnSocketClosed` for the mutex held by
   `CloseAllSockets`. `ShutdownEndsOrDeadlocks` shows that nothing else hangs it.
3. **A select thread can destroy its own socket**
   (`lifecycle_self_destruction`), which terminates the server.
4. **A session can be stranded in the map** (`lifecycle_stranded`) when the
   client hangs up before `OnAcceptConn` runs.
5. **A call can return another call's answer** (`client_stale`) after a
   time-out. Callers who reconnect whenever a call goes unanswered do not meet
   this: `client_store` shows it, with the exceptions that finding 6 makes
   necessary.
6. **A truncated message is handled** (`framing_cut`). When `recv` fails in the
   body, `ReadMessage` leaves its loop and goes on: a value is stored, or
   returned, whose end was never received. `CutOnlyInValue` bounds the damage at
   the server: such a value is still stored under its own key and flags, because
   an incomplete key does not parse. What is read from then on is out of step;
   `RecvFits` and `CastsSafe` hold even so, and `WrapsOnlyOutOfStep` says that only
   then the subtraction of lengths in `ReadValue` can wrap and end the process (of
   messages that this library has built; nothing tests a header of another
   program). Reconnecting is no cure for this one, because a call that returns
   true gives no reason to: `ReadCutReply` is a `Get` that returns true with a
   truncated value, `ServeCutRequest` a `Set` that returns true and has stored one.
   What `client_store` shows is how far it reaches. A cut reply does harm to its own
   client only, until that client reconnects. A cut request does harm to everybody:
   the server may go on storing what nobody sent, until it closes that connection.

The model also shows two ways to spin that no document contradicts: a client
whose server closes the connection during a call (`ReadNothing`, excluded in
`CallEnds`), and a select thread whose client hangs up in the middle of a
message (`wire = "cut"`). `HangupRetires` promises nothing about that thread: it says
that a session whose thread has seen the hang-up (`wire = "short"`, about to check its
flag) leaves the map, unless the server ends or `Shutdown` deadlocks. A thread whose
`select` fails ends without `OnSocketClosed` and is not covered either; its session
stays in the map until `Shutdown`, which `ShutdownComplete` shows to remove it. Three
slips in the data layer have no run of their own. `ReadLongLong` sets the upper
half of a value whose fifth byte is 0x80 or more to ones; only the unused CAS is
read with it. A message that is built twice announces twice its length
(`BuildAgain`); nobody builds one twice. A key of 65536 characters or more is
announced with the remainder of its length, and as many bytes less are sent: the
server stores, under the beginning of the key, a value made of the bytes that
follow there, or cannot parse the request if the remainder is 0. `StreamAligned`
holds even so; `Fits` excludes such keys from `HandledAsSent` and
`CutOnlyInValue`, which fail without it.

## 5. What is proved

`ReadWriteLockProofs` proves the safety properties of the lock for every finite
set of threads and every nesting depth, from `ThreadsAssumption` and
`DepthAssumption` alone. The inductive invariant `IInv` is the conjunction of the
type invariant, the four safety properties of the lock that `cache_access` checks
(`ReadCountExact` to `NoLostWakeup`) and the facts they lean
on: which thread owns the mutex, what the counted readers are, and that a first
reader on its way to `Reset` keeps the event from being waited on for ever. The
proof has one step per action; the reader count is a cardinality, so the two
actions that change it use the library's theorems on adding and removing one
element of a finite set. The refinement of `Turnstile` is proved step by step:
each action is a step of the turnstile or leaves its two variables alone.

`CacheAccessProofs` is about `CacheAccess` for every set of threads, keys and data,
from the two assumptions on the lock and `DataAssumption`. `UsesLock` shows that every
behaviour of the cache is one of the lock, so all that is proved of the lock
holds of it. The inductive invariant `CacheInv` adds to `EntriesWhole` and `SetStays`
the types, that a thread has something in hand only in a section (`InSection`), and
that a `Set` that is half done finds its flags in the entry (`HalfPut`). The step
that matters is `OneWriter`: two threads in a write section are the same, which is
`NestingBalanced` of the lock. Readers change nothing, so it does not matter that
they are not kept out.

`LifecycleProofs` is about `ConnectionLifecycle` for every set of sessions, from
`ThreadsAssumption` (the threads are different from each other). `IInv` is `TypeOK` and
`Orderly`, which says of every point in the code what is true there. `MutexesHeld`
ties the owner of a mutex to the points inside its sections, `TargetsInHand` a
thread's `target` to the points where it has one. `SessionPlaced` and `TargetPlaced`
say where a session can be (in the map, on the disposal list, in a thread's hands)
depending on the point its own select thread has reached; `Owned`, `Unique` and
`EventPending` are what the properties need of that. `StartupOrder` and
`ShutdownOrder` say what has been done once `Main` has passed a point: this is how
`CacheStaysClear` and `ShutdownComplete` follow from the order of the steps of
`Shutdown`. The invariant holds although
`Shutdown` can deadlock and a select thread can destroy itself: the theorems are
about the runs that get further, too.

`ClientSessionProofs` is about `ClientSession` for any clients, keys, values and
numbers of calls and connections, from `BoundsAssumption` and `ValuesAssumption`.
`IInv` is `TypeOK` and, for each client, `CInv`: along a connection the numbers of the
calls rise, from the replies read to the replies sent and on to the requests not yet
served (`QueuesOrdered`, `RepliesOrdered`), no number is used twice (`UsedOnce`), a
connection in step on which no call has gone unanswered holds nothing but the call in
progress (`Fresh`, `InCall`), and a client out of step has nothing in front of it that
is its own (`Strays`). The code has no numbers; that they rise is what a
client can rely on because TCP keeps the order and the server works off one request
at a time. `SessionImplementsKVStore` proves the refinement for callers that
reconnect (`Careful`, which `client_store` sets; without it finding 5 refutes it). There
is a lemma for each action: `ReadReply` is `Return` of the store, `ReadCutReply` is
`ReturnCut`, `ReadGarbage` is `ReturnInDoubt`, `ReadFails` is `Return` without an answer, or
`ReturnInDoubt`; `Serve` is `Effect` or, for a call that was given up, `LateEffect`; a cut
request is `CutEffect` or `LateCutEffect` or, if it is not stored, `Lose`; `ServeGarbage`
is `Stray`, `HangUp` is `Lose`; `Connect` is `Renew`, or leaves the store alone.

`MessagesProofs` follows a buffer through each operation of `DataBuffer`. `Sound` (the
offsets are integers, no byte is written behind the end of the data, the data are
bytes or `Junk`) is kept by all of them, `Ordered` (`InOrder` as well) by those that
messages use. `ReallocKeepsWritten` is what `DataBuffer.h:18` says of `Realloc`, for every
new size: although the copy goes by way of the read offset, which may be anywhere, the
new array begins with what had been written, as far as it fits. On them rest the two theorems about messages. `BuiltBytes`: what is sent is
the header and as many bytes of the body as it announces, whichever part made the
buffer grow. `RoundTrip`: a buffer that holds the first bytes of a message and room
for the rest of it, as a receiver has it whether or not a time-out came between, is
parsed to what the message was built from, except for the end of the value if that is
what has not arrived. The condition on the key's length is the one that the code
does not test (section 4). The assumptions are `SizesAssumption` (a `KeyLen` is a
short, and the first buffer has room for header and extras) and that the message is
`Constructible`.

`FramingProofs`, `AlignmentProofs` and `AnswerProofs` are about `Framing` for every set
of messages and every number of them, from `OutgoingAssumption`,
`BoundsAssumption`, `SizesAssumption` and `MemoryAssumption`. They divide the
properties by what they need.

- *Nothing about the bytes* (`FramingProofs`). `ReadInv`: the read buffer is sound, has
  room for a header, holds less than one while the header is read, and has room for
  `reqSize` bytes while the body is read. It needs nothing of what a header says, so
  `ReceiveFits` holds for any header whatever: for those that are read out of step, for
  every one of the 2^32 lengths and for any `MaxBody`. Where the length of the message
  wraps, what is left of it is less than 24, and the buffer has room for a header; where
  there is no memory, nothing is received any more. The same is true of
  `FramingTypeCorrect`, whose invariant adds `ReadTypes` and `HandlerTypes`; that the read
  offset never passes what was received is the part of it that takes work, since
  `ReadValue` moves it twice. `CastsAreSafe` needs `CastInv`: a known header
  makes an object of its own class, and with an unknown one the handlers cast
  nothing, although `_currentMsg` is an old object.
- *Where messages begin* (`AlignmentProofs`). `Aligned` says that in step what is in the
  read buffer and what is in the stream, put together, are the messages from the
  one being read on; while a body is read, `reqSize` is the size of that message. Each
  receive moves bytes from the front of the stream to the buffer, and `BuiltBytes`
  gives the length at which the next message begins. `WrapsOnlyOutOfStep` and
  `StreamAligned` follow. `CutOnlyInValue` and `HandledAsSent` add `RoundTrip` and what
  is known of the history: `Numbered` (a message handled has been read) and
  `InSequence`. `HandledAsSent` is stated entry by entry for this reason: the
  theory of `SelectSeq` needs induction with an operator as its argument. `StreamAligned` keeps
  `FlattenSeq`; the two facts about it that are needed are proved by an induction
  over a set of numbers (`AllNumbers`, from the least number of a set).
- *What is replied* (`AnswerProofs`). This needs no alignment: the server answers what it
  has stored, whatever it took for a request. `Served` is the property with
  `Current` (the cache has of every key what the last `Set` brought, and of no
  other key anything) and `Storable` (every entry fits into a response: four bytes of
  flags, and no more than `MaxBody` bytes of value). The latter is `ParsedSizes`: for a
  longer value there is no memory (`ValueTooLong`). `MemoryAssumption` then lets the
  length of the reply fit `TotalBodyLen`. That a client can parse the reply is
  `RoundTrip` once more, with `Filled` for a buffer of just that length.

TLC checks the parts of the inductive invariants that it can evaluate, too. `Orderly`
holds in the 174,852 states of `lifecycle_safety` (under its symmetry), `IInv` of
the client sessions in the 165,359 of `client_session` and the 1,048,154 of
`client_store`; `Aligned`, `Numbered`, `Current` and `Storable` in the 183,789 of
`framing`.

With this every safety property of every run that passes is a theorem,
`NoReplyUsedTwice` and both refinements included.
What is only model-checked is liveness: `ReaderGetsIn`, `WriterGetsIn` and
`WritersMove` of the lock, `ShutdownEndsOrDeadlocks`, `DisposalDrains` and
`HangupRetires` of the life cycle, and `CallEnds` of the client. The unit
tests are evaluated by TLC. Three things are not claimed by any theorem: what the
findings of section 4 refute; that no more than `KeyLenLimit` - 1 bytes of key are ever
sent (`Fits` is a hypothesis where it is needed); and what the server does after it has run out
of memory.

## 6. Not modelled

- The stale size after `Cleanup` in `DataBuffer`: a cleaned-up buffer is never read.
- Running out of memory other than for a received message (`MaxBody`): in the copies
  that the cache and the replies make of a value, in a new message or a new thread.
- What becomes of the process when `new` throws (`"exhausted"`, `"terminated"`): on
  the server's threads nobody catches, and that is its end.
- `StatusToString`, which only output uses.
- Flags in `ClientSession`, where they travel with the value (`Framing` follows them
  to the handler and into the reply); status codes other than success and
  not-found; what `PrintDataCache` prints, usage texts and console input.
- Reuse of a socket object by a second `Listen` or `Connect`, and `Start` after
  `Shutdown`: no program does it.
- The wrap of the 32-bit session ID.
- `ThreadingTests.cpp`, which drives one thread and one lock with sleeps: the runs of
  `cache_access` and of the life cycle take the same operations in every order. The
  test itself relies on its timing. Its writer calls `Set` and then `Reset` on the event
  that the test waits for next, and a test that comes to its `Wait` after both sleeps
  for ever.
- `catch.hpp`, the third-party test framework. It is 8997 of the 12630 lines of
  code in the repository, so the map covers about half of what is the project's
  own and a seventh of the whole.

## 7. Plan

1. *Done:* the lock, its turnstile and its proofs.
2. *Done:* the life cycle of connections, with `Shutdown`.
3. *Done:* the client's calls against the abstract store.
4. *Done:* `DataBuffer` and `Messages` as operator modules.
5. *Done:* framing, with time-outs in the header and the body.
6. *Done:* proofs that receives fit and casts are safe.
7. *Done:* the composition of the cache's handlers with the lock as it is, and
   proofs of what holds in spite of its race.
8. *Done:* what the receiver makes of the bytes behind a time-out, the replies of
   the server in bytes, and the unit tests asked of the model.
9. *Done:* proofs about the life cycle, for any number of sessions.
10. *Done:* proofs about `ClientSession`: the order of replies and the refinement of
    `KVStore`.
11. *Done:* proofs about `Messages`, the typing of `Framing`, its alignment, what is
    handled and what is answered.
12. Lemmas that say more of the operators than the properties need: which moves of a
    buffer keep `InOrder` and which do not; what a key that is too long does to its
    own request (the remainder that is announced), so that `Fits` becomes a result.
13. *Done:* receives and answers for bodies of any length that there is memory for, and
    cut messages in the calls of clients.
