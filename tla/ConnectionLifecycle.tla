------------------------ MODULE ConnectionLifecycle ------------------------
(***************************************************************************)
(* The threads of a memcache server and the connections they share         *)
(* (MemcacheServer.cpp, MemcacheSocket.cpp, Threading.cpp):                *)
(*                                                                         *)
(*  - Main starts the server, serves the console and shuts the server down; *)
(*  - Listener is the select thread of _listenSock, which accepts;         *)
(*  - each session has the select thread of its MemcacheSocket;            *)
(*  - Manager is _thread, which destroys disconnected sockets.             *)
(*                                                                         *)
(* A session names both the MemcacheSocket and its select thread.  Its     *)
(* shared_ptr copies are its entries in socketMap and socketDisposal, and  *)
(* the thread that drops the last copy runs the destructor.  A critical    *)
(* section is one step where nothing inside it blocks or is seen outside   *)
(* the mutex; the others take the mutex and give it back in steps of their *)
(* own.  What a message holds is left out: a request stores or it does not. *)
(***************************************************************************)
EXTENDS Naturals, Sequences, FiniteSets

CONSTANTS Sessions,            \* bound: the connections a client ever opens
          Main, Manager, Listener,  \* the other threads
          Nobody,              \* the owner of a free mutex, no session
          SelectErrors         \* may select fail on a socket nobody closed?

Threads == Sessions \cup {Main, Manager, Listener}

ASSUME SessionsAssumption == IsFiniteSet(Sessions)
ASSUME ThreadsAssumption ==
  /\ {Main, Manager, Listener, Nobody} \cap Sessions = {}
  /\ Main # Manager /\ Main # Listener /\ Main # Nobody
  /\ Manager # Listener /\ Manager # Nobody /\ Listener # Nobody
ASSUME SelectErrorsAssumption == SelectErrors \in BOOLEAN

VARIABLES
  pc,              \* where each thread is
  shouldTerminate, \* Thread::_shouldTerminate of each thread object
  connected,       \* the threads whose _socket is not INVALID_SOCKET
  wire,            \* what select and the peek will find on a session's socket
  socketMap,       \* the sessions in _socketMap
  socketDisposal,  \* _socketDisposal: the entries that are not reset yet
  mapMutex,        \* the thread that holds _sockMapMutex
  listMutex,       \* the thread that holds _sockListMutex
  threadEvent,     \* _threadEvent (auto-reset) is signaled
  target,          \* the session a thread is inserting, closing or destroying
  destroyed,       \* the sessions whose destructor has finished
  stored,          \* the sessions with an entry in _dataMap
  terminated       \* std::terminate has ended the process

vars == <<pc, shouldTerminate, connected, wire, socketMap, socketDisposal,
          mapMutex, listMutex, threadEvent, target, destroyed, stored,
          terminated>>

\* The variables that belong to sockets, to the containers and to the mutexes.
socketVars    == <<shouldTerminate, connected, wire, destroyed>>
containerVars == <<socketMap, socketDisposal, target>>
mutexVars     == <<mapMutex, listMutex>>
otherVars     == <<threadEvent, stored, terminated>>

SessionPoints  == {"unborn", "select", "check", "peek", "read", "lockMap",
                   "push", "notify", "erase", "unlockMap", "done"}
ListenerPoints == {"unborn", "select", "check", "accept", "insert", "done"}
DisposalPoints == {"lockList", "resetNext", "join"}
ManagerPoints  == {"unborn", "loop", "wait", "check", "done"} \cup DisposalPoints
ShutdownPoints == {"closeListen", "joinListen", "lockMap", "closeNext",
                   "joinSession", "push", "erase", "clear", "stopManager",
                   "setEvent", "joinManager", "down"} \cup DisposalPoints
MainPoints     == {"start", "listen", "serving"} \cup ShutdownPoints

Goto(t, from, to) == pc[t] = from /\ pc' = [pc EXCEPT ![t] = to]

\* Thread::Stop(true) returns: the thread never started, or has ended.
Joinable(t) == pc[t] \in {"unborn", "done"}

\* MemcacheSocket::Close, up to the join: the flag goes up, then the handle is
\* closed; the select thread cannot tell the two moments apart.
CloseHandle(t) ==
  /\ shouldTerminate' = [shouldTerminate EXCEPT ![t] = TRUE]
  /\ connected' = connected \ {t}
  /\ UNCHANGED <<wire, destroyed>>

\* No shared_ptr to session s is left in the two containers.
LastReference(s, map, list) ==
  s \notin map /\ \A i \in 1 .. Len(list) : list[i] # s

Init ==
  /\ pc = [t \in Threads |-> IF t = Main THEN "start" ELSE "unborn"]
  /\ shouldTerminate = [t \in Threads |-> FALSE]
  /\ connected = {}
  /\ wire = [s \in Sessions |-> "quiet"]
  /\ socketMap = {}
  /\ socketDisposal = <<>>
  /\ mapMutex = Nobody
  /\ listMutex = Nobody
  /\ threadEvent = FALSE
  /\ target = [t \in {Main, Manager, Listener} |-> Nobody]
  /\ destroyed = {}
  /\ stored = {}
  /\ terminated = FALSE
-----------------------------------------------------------------------------
(* The remote ends *)

\* Bytes arrive on a session: a message; less than one header, which is what the
\* peek also finds when the remote end has hung up; or a header whose body is
\* cut off by a hang-up.
Remote(s) ==
  /\ pc[s] # "unborn" /\ s \in connected /\ wire[s] = "quiet"
  /\ \E found \in {"message", "short", "cut"} : wire' = [wire EXCEPT ![s] = found]
  /\ UNCHANGED <<pc, shouldTerminate, connected, destroyed, containerVars,
                 mutexVars, otherVars>>
-----------------------------------------------------------------------------
(* MemcacheSocket::Run on an accepted socket *)

\* select returns: something can be read, or the handle has been closed.
Readable(s) ==
  /\ wire[s] # "quiet" \/ s \notin connected
  /\ Goto(s, "select", "check")
  /\ UNCHANGED <<socketVars, containerVars, mutexVars, otherVars>>

\* select fails, or times out after 10 s and the loop condition is false: the
\* thread ends, and OnSocketClosed is not called.
SelectEnds(s) ==
  /\ s \notin connected \/ shouldTerminate[s] \/ SelectErrors
  /\ Goto(s, "select", "done")
  /\ UNCHANGED <<socketVars, containerVars, mutexVars, otherVars>>

CheckTerminate(s) ==
  /\ Goto(s, "check", IF shouldTerminate[s] THEN "done" ELSE "peek")
  /\ UNCHANGED <<socketVars, containerVars, mutexVars, otherVars>>

\* Mistake: the thread ends without a call of OnSocketClosed.
PeekTellsNobody(s) ==
  /\ Goto(s, "peek", IF wire[s] \in {"message", "cut"} /\ s \in connected
                     THEN "read" ELSE "done")
  /\ UNCHANGED <<socketVars, containerVars, mutexVars, otherVars>>

\* recv with MSG_PEEK: a whole header, or the connection counts as closed.
Peek(s) ==
  /\ Goto(s, "peek", IF wire[s] \in {"message", "cut"} /\ s \in connected
                     THEN "read" ELSE "lockMap")
  /\ UNCHANGED <<socketVars, containerVars, mutexVars, otherVars>>

\* ReadMessage and OnReceivedMessage: a Set stores an entry; a Get, an unknown
\* opcode, a message that does not parse or a failed recv stores none.  After a
\* hang-up recv returns 0 again and again, and the loop over the body ends only
\* when the handle is closed.
ReadMessage(s) ==
  /\ wire[s] # "cut" \/ s \notin connected
  /\ Goto(s, "read", "select")
  /\ wire' = [wire EXCEPT ![s] = "quiet"]
  /\ stored' \in {stored, stored \cup {s}}
  /\ UNCHANGED <<shouldTerminate, connected, destroyed, containerVars,
                 mutexVars, threadEvent, terminated>>
-----------------------------------------------------------------------------
(* MemcacheServer::OnSocketClosed, on the session's select thread *)

\* Lock _sockMapMutex and look the session up; Run ends if it is not there.
OnSocketClosed(s) ==
  /\ mapMutex = Nobody
  /\ \/ /\ s \in socketMap
        /\ Goto(s, "lockMap", "push")
        /\ mapMutex' = s
     \/ /\ s \notin socketMap
        /\ Goto(s, "lockMap", "done")
        /\ UNCHANGED mapMutex
  /\ UNCHANGED <<socketVars, containerVars, listMutex, otherVars>>

\* Copy the pointer to the disposal list, under _sockListMutex.
PushDisposal(s) ==
  /\ listMutex = Nobody
  /\ Goto(s, "push", "notify")
  /\ socketDisposal' = Append(socketDisposal, s)
  /\ UNCHANGED <<socketVars, socketMap, target, mutexVars, otherVars>>

\* Mistake: the event is not set, and disposal is left to the timeout.
NotifyNobody(s) ==
  /\ Goto(s, "notify", "erase")
  /\ UNCHANGED <<socketVars, containerVars, mutexVars, otherVars>>

\* Mistake: the select thread goes on to dispose of closed sockets itself.
NotifyInline(s) ==
  /\ Goto(s, "notify", "lockList")
  /\ UNCHANGED <<socketVars, containerVars, mutexVars, otherVars>>

\* _threadEvent.Set()
Notify(s) ==
  /\ Goto(s, "notify", "erase")
  /\ threadEvent' = TRUE
  /\ UNCHANGED <<socketVars, containerVars, mutexVars, stored, terminated>>

\* Mistake: the session stays in the map.
EraseForgotten(s) ==
  /\ Goto(s, "erase", "unlockMap")
  /\ UNCHANGED <<socketVars, containerVars, mutexVars, otherVars>>

\* _socketMap.erase(it).  If the copy in the list has been reset already, the
\* destructor runs here, on the select thread it is to join: join throws out of
\* a destructor, and the process terminates.
EraseSession(s) ==
  /\ Goto(s, "erase", "unlockMap")
  /\ socketMap' = socketMap \ {s}
  /\ terminated' = LastReference(s, socketMap', socketDisposal)
  /\ UNCHANGED <<socketVars, socketDisposal, target, mutexVars, threadEvent,
                 stored>>

UnlockMap(s) ==
  /\ Goto(s, "unlockMap", "done")
  /\ mapMutex' = Nobody
  /\ UNCHANGED <<socketVars, containerVars, listMutex, otherVars>>
-----------------------------------------------------------------------------
(* MemcacheSocket::Run on the listening socket *)

\* A connection is waiting, or the handle has been closed.
ListenReadable ==
  /\ Goto(Listener, "select", "check")
  /\ UNCHANGED <<socketVars, containerVars, mutexVars, otherVars>>

ListenEnds ==
  /\ Listener \notin connected \/ shouldTerminate[Listener] \/ SelectErrors
  /\ Goto(Listener, "select", "done")
  /\ UNCHANGED <<socketVars, containerVars, mutexVars, otherVars>>

ListenCheck ==
  /\ Goto(Listener, "check",
          IF shouldTerminate[Listener] THEN "done" ELSE "accept")
  /\ UNCHANGED <<socketVars, containerVars, mutexVars, otherVars>>

\* accept, and the constructor that starts the new session's select thread; or
\* accept fails.
Accept ==
  /\ \/ /\ Listener \in connected
        /\ \E s \in Sessions :
             /\ pc[s] = "unborn" /\ pc[Listener] = "accept"
             /\ pc' = [pc EXCEPT ![s] = "select", ![Listener] = "insert"]
             /\ connected' = connected \cup {s}
             /\ target' = [target EXCEPT ![Listener] = s]
     \/ /\ Goto(Listener, "accept", "select")
        /\ UNCHANGED <<connected, target>>
  /\ UNCHANGED <<shouldTerminate, wire, destroyed, socketMap, socketDisposal,
                 mutexVars, otherVars>>

\* The whole of OnAcceptConn: only now is the session in the map.
OnAcceptConn ==
  /\ mapMutex = Nobody
  /\ Goto(Listener, "insert", "select")
  /\ socketMap' = socketMap \cup {target[Listener]}
  /\ target' = [target EXCEPT ![Listener] = Nobody]
  /\ UNCHANGED <<socketVars, socketDisposal, mutexVars, otherVars>>
-----------------------------------------------------------------------------
(* MemcacheServer::ProcessClosedSockets, on Manager and in Shutdown on Main *)

LockList(t) ==
  /\ listMutex = Nobody
  /\ Goto(t, "lockList", "resetNext")
  /\ listMutex' = t
  /\ UNCHANGED <<socketVars, containerVars, mapMutex, otherVars>>

\* Mistake: the list holds plain pointers and always destroys.
ResetPlainPointer(t) ==
  /\ socketDisposal # <<>>
  /\ socketDisposal' = Tail(socketDisposal)
  /\ Goto(t, "resetNext", "join")
  /\ CloseHandle(Head(socketDisposal))
  /\ target' = [target EXCEPT ![t] = Head(socketDisposal)]
  /\ UNCHANGED <<socketMap, mutexVars, otherVars>>

\* it->reset() on the next entry: drop a copy, or run the destructor.
ResetNext(t) ==
  /\ socketDisposal # <<>>
  /\ socketDisposal' = Tail(socketDisposal)
  /\ LET s == Head(socketDisposal)
     IN  \/ /\ LastReference(s, socketMap, socketDisposal')
            /\ Goto(t, "resetNext", "join")
            /\ CloseHandle(s)
            /\ target' = [target EXCEPT ![t] = s]
         \/ /\ ~ LastReference(s, socketMap, socketDisposal')
            /\ Goto(t, "resetNext", "resetNext")
            /\ UNCHANGED <<socketVars, target>>
  /\ UNCHANGED <<socketMap, mutexVars, otherVars>>

\* Mistake: the destructor does not join the select thread.
DestroyWithoutJoin(t) ==
  /\ Goto(t, "join", "resetNext")
  /\ destroyed' = destroyed \cup {target[t]}
  /\ target' = [target EXCEPT ![t] = Nobody]
  /\ UNCHANGED <<shouldTerminate, connected, wire, socketMap, socketDisposal,
                 mutexVars, otherVars>>

\* The destructor has joined the select thread, and the socket is gone.
JoinDestroyed(t) ==
  /\ target[t] \in Sessions /\ Joinable(target[t])
  /\ Goto(t, "join", "resetNext")
  /\ destroyed' = destroyed \cup {target[t]}
  /\ target' = [target EXCEPT ![t] = Nobody]
  /\ UNCHANGED <<shouldTerminate, connected, wire, socketMap, socketDisposal,
                 mutexVars, otherVars>>

\* The list is all reset: clear it and return.
UnlockList(t) ==
  /\ socketDisposal = <<>>
  /\ Goto(t, "resetNext", IF t = Main THEN "clear" ELSE "loop")
  /\ listMutex' = Nobody
  /\ UNCHANGED <<socketVars, containerVars, mapMutex, otherVars>>

ProcessClosedSockets(t) ==
  LockList(t) \/ ResetNext(t) \/ JoinDestroyed(t) \/ UnlockList(t)
-----------------------------------------------------------------------------
(* MemcacheServer::Run *)

RunLoop ==
  /\ Goto(Manager, "loop", IF shouldTerminate[Manager] THEN "done" ELSE "wait")
  /\ UNCHANGED <<socketVars, containerVars, mutexVars, otherVars>>

\* TimedWait(100) returns, on the event or on the timeout.
TimedWait ==
  /\ Goto(Manager, "wait", "check")
  /\ threadEvent' = FALSE
  /\ UNCHANGED <<socketVars, containerVars, mutexVars, stored, terminated>>

\* Mistake: the management thread does not process the closed sockets.
RunCheckOnly ==
  /\ Goto(Manager, "check",
          IF shouldTerminate[Manager] THEN "done" ELSE "loop")
  /\ UNCHANGED <<socketVars, containerVars, mutexVars, otherVars>>

RunCheck ==
  /\ Goto(Manager, "check",
          IF shouldTerminate[Manager] THEN "done" ELSE "lockList")
  /\ UNCHANGED <<socketVars, containerVars, mutexVars, otherVars>>
-----------------------------------------------------------------------------
(* MemcacheServer::Start and the console of the server program *)

StartManager ==
  /\ pc[Main] = "start"
  /\ pc' = [pc EXCEPT ![Main] = "listen", ![Manager] = "loop"]
  /\ UNCHANGED <<socketVars, containerVars, mutexVars, otherVars>>

\* Listen succeeds and starts the Listener; or it fails, and Start shuts the server
\* down; or the port is 0, and the server is used without a socket.
Listen ==
  /\ \/ /\ pc[Main] = "listen"
        /\ pc' = [pc EXCEPT ![Main] = "serving", ![Listener] = "select"]
        /\ connected' = connected \cup {Listener}
     \/ /\ \E to \in {"closeListen", "serving"} : Goto(Main, "listen", to)
        /\ UNCHANGED connected
  /\ UNCHANGED <<shouldTerminate, wire, destroyed, containerVars, mutexVars,
                 otherVars>>

\* "clearcache"
ClearDataCache ==
  /\ \/ Goto(Main, "serving", "serving")
     \/ Goto(Main, "clear", "stopManager")
  /\ stored' = {}
  /\ UNCHANGED <<socketVars, containerVars, mutexVars, threadEvent, terminated>>

\* "quit": ~MemcacheServer calls Shutdown, again if the server is down already.
Quit ==
  /\ \E from \in {"serving", "down"} : Goto(Main, from, "closeListen")
  /\ UNCHANGED <<socketVars, containerVars, mutexVars, otherVars>>
-----------------------------------------------------------------------------
(* MemcacheServer::Shutdown *)

CloseListen ==
  /\ Goto(Main, "closeListen", "joinListen")
  /\ CloseHandle(Listener)
  /\ UNCHANGED <<containerVars, mutexVars, otherVars>>

\* Mistake: Close does not wait for the listening thread.
ListenNotJoined ==
  /\ Goto(Main, "joinListen", "lockMap")
  /\ UNCHANGED <<socketVars, containerVars, mutexVars, otherVars>>

JoinListen ==
  /\ Joinable(Listener)
  /\ Goto(Main, "joinListen", "lockMap")
  /\ UNCHANGED <<socketVars, containerVars, mutexVars, otherVars>>

CloseAllSockets ==
  /\ mapMutex = Nobody
  /\ Goto(Main, "lockMap", "closeNext")
  /\ mapMutex' = Main
  /\ UNCHANGED <<socketVars, containerVars, listMutex, otherVars>>

\* Mistake: Shutdown leaves the disposal list to the management thread.
CloseNextNoDisposal ==
  \/ \E s \in socketMap :
       /\ Goto(Main, "closeNext", "joinSession")
       /\ CloseHandle(s)
       /\ target' = [target EXCEPT ![Main] = s]
       /\ UNCHANGED <<socketMap, socketDisposal, mutexVars, otherVars>>
  \/ /\ socketMap = {}
     /\ Goto(Main, "closeNext", "clear")
     /\ mapMutex' = Nobody
     /\ UNCHANGED <<socketVars, containerVars, listMutex, otherVars>>

\* it->second->Close(), with _sockMapMutex held.  (The map is ordered by session
\* ID; any order is allowed here.)
CloseNext ==
  \/ \E s \in socketMap :
       /\ Goto(Main, "closeNext", "joinSession")
       /\ CloseHandle(s)
       /\ target' = [target EXCEPT ![Main] = s]
       /\ UNCHANGED <<socketMap, socketDisposal, mutexVars, otherVars>>
  \/ /\ socketMap = {}
     /\ Goto(Main, "closeNext", "lockList")
     /\ mapMutex' = Nobody
     /\ UNCHANGED <<socketVars, containerVars, listMutex, otherVars>>

JoinSession ==
  /\ target[Main] \in Sessions /\ Joinable(target[Main])
  /\ Goto(Main, "joinSession", "push")
  /\ UNCHANGED <<socketVars, containerVars, mutexVars, otherVars>>

PushClosed ==
  /\ listMutex = Nobody
  /\ Goto(Main, "push", "erase")
  /\ socketDisposal' = Append(socketDisposal, target[Main])
  /\ UNCHANGED <<socketVars, socketMap, target, mutexVars, otherVars>>

\* _socketMap.erase(it): Main runs the destructor if Manager was faster.
EraseClosed ==
  /\ Goto(Main, "erase", "closeNext")
  /\ socketMap' = socketMap \ {target[Main]}
  /\ destroyed' = IF LastReference(target[Main], socketMap', socketDisposal)
                  THEN destroyed \cup {target[Main]} ELSE destroyed
  /\ target' = [target EXCEPT ![Main] = Nobody]
  /\ UNCHANGED <<shouldTerminate, connected, wire, socketDisposal, mutexVars,
                 otherVars>>

\* Mistake: the management thread is woken and joined, but not told to stop.
StopForgotten ==
  /\ Goto(Main, "stopManager", "setEvent")
  /\ UNCHANGED <<socketVars, containerVars, mutexVars, otherVars>>

StopManager ==
  /\ Goto(Main, "stopManager", "setEvent")
  /\ shouldTerminate' = [shouldTerminate EXCEPT ![Manager] = TRUE]
  /\ UNCHANGED <<connected, wire, destroyed, containerVars, mutexVars, otherVars>>

WakeManager ==
  /\ Goto(Main, "setEvent", "joinManager")
  /\ threadEvent' = TRUE
  /\ UNCHANGED <<socketVars, containerVars, mutexVars, stored, terminated>>

JoinManager ==
  /\ Joinable(Manager)
  /\ Goto(Main, "joinManager", "down")
  /\ UNCHANGED <<socketVars, containerVars, mutexVars, otherVars>>
-----------------------------------------------------------------------------
SelectThread(s) ==
  \/ Readable(s) \/ SelectEnds(s) \/ CheckTerminate(s) \/ Peek(s)
  \/ ReadMessage(s) \/ OnSocketClosed(s) \/ PushDisposal(s) \/ Notify(s)
  \/ EraseSession(s) \/ UnlockMap(s)

ListenThread ==
  ListenReadable \/ ListenEnds \/ ListenCheck \/ Accept \/ OnAcceptConn

ManagementThread ==
  RunLoop \/ TimedWait \/ RunCheck \/ ProcessClosedSockets(Manager)

Shutdown ==
  \/ CloseListen \/ JoinListen \/ CloseAllSockets \/ CloseNext \/ JoinSession
  \/ PushClosed \/ EraseClosed \/ ProcessClosedSockets(Main)
  \/ StopManager \/ WakeManager \/ JoinManager

MainThread == StartManager \/ Listen \/ ClearDataCache \/ Quit \/ Shutdown

Next ==
  /\ ~ terminated
  /\ \/ \E s \in Sessions : Remote(s) \/ SelectThread(s)
     \/ ListenThread
     \/ ManagementThread
     \/ MainThread

Spec == Init /\ [][Next]_vars

(***************************************************************************)
(* Fairness: every thread that can run is scheduled.  Manager sleeps on    *)
(* _threadEvent between two uses of _sockListMutex, so a thread that waits *)
(* for that mutex finds it free again and again and gets it: strong        *)
(* fairness of those steps.  Remote ends, the console and the arrival of   *)
(* connections promise nothing.                                            *)
(***************************************************************************)
MainProgress ==
  StartManager \/ Listen \/ Shutdown \/ (pc[Main] = "clear" /\ ClearDataCache)

Running(A) == ~ terminated /\ A

Fairness ==
  /\ \A s \in Sessions : /\ WF_vars(Running(SelectThread(s)))
                         /\ SF_vars(Running(PushDisposal(s)))
  /\ WF_vars(Running(ListenThread))
  /\ WF_vars(Running(ManagementThread))
  /\ WF_vars(Running(MainProgress))
  /\ SF_vars(Running(PushClosed))
  /\ SF_vars(Running(LockList(Main)))

FairSpec == Spec /\ Fairness
-----------------------------------------------------------------------------
(* Properties *)

\* Every variable holds a value of its type, and each thread is at a point of
\* the code it runs.
TypeOK ==
  /\ pc \in [Threads -> SessionPoints \cup ListenerPoints \cup ManagerPoints \cup MainPoints]
  /\ \A s \in Sessions : pc[s] \in SessionPoints
  /\ pc[Listener] \in ListenerPoints
  /\ pc[Manager] \in ManagerPoints
  /\ pc[Main] \in MainPoints
  /\ shouldTerminate \in [Threads -> BOOLEAN]
  /\ connected \subseteq Sessions \cup {Listener}
  /\ wire \in [Sessions -> {"quiet", "message", "short", "cut"}]
  /\ socketMap \subseteq Sessions
  /\ socketDisposal \in Seq(Sessions)
  /\ mapMutex \in Sessions \cup {Main, Nobody}
  /\ listMutex \in {Main, Manager, Nobody}
  /\ threadEvent \in BOOLEAN
  /\ target \in [{Main, Manager, Listener} -> Sessions \cup {Nobody}]
  /\ destroyed \subseteq Sessions
  /\ stored \subseteq Sessions
  /\ terminated \in BOOLEAN

InDisposal(s) == \E i \in 1 .. Len(socketDisposal) : socketDisposal[i] = s

\* A socket is never leaked and never used after it is gone: from accept to the
\* end of its destructor some container or thread has it, afterwards none has,
\* and its select thread has ended by then.
OwnedUntilDestroyed ==
  ~ terminated =>
    \A s \in Sessions :
      /\ pc[s] # "unborn" =>
           (s \notin destroyed
              <=> \/ s \in socketMap \/ InDisposal(s)
                  \/ \E t \in {Main, Manager, Listener} : target[t] = s)
      /\ s \in destroyed => pc[s] = "done"

\* Whoever runs a destructor in ProcessClosedSockets holds _sockListMutex while
\* it joins the select thread; that thread needs no mutex any more.
DisposalJoinNeverBlocks ==
  \A t \in {Main, Manager} :
    pc[t] = "join" => pc[target[t]] \in {"unlockMap", "done"}

\* A session waits for disposal once, although both its own select thread and
\* Shutdown put sessions on the list.
DisposedOnce ==
  /\ \A i, j \in 1 .. Len(socketDisposal) :
       socketDisposal[i] = socketDisposal[j] => i = j
  /\ \A s \in destroyed : ~ InDisposal(s)

\* The event loses no wake-up: Manager does not sleep over an entry of the list
\* unless the event is up or about to be set (or Shutdown empties the list).
WakeupPending ==
  pc[Manager] = "wait" /\ socketDisposal # <<>> =>
    \/ threadEvent
    \/ \E s \in Sessions : pc[s] = "notify"
    \/ pc[Main] \in ShutdownPoints

\* Once Shutdown has cleared the cache nothing is stored again: no select
\* thread is left that could handle a request.
CacheStaysClear ==
  pc[Main] \in {"stopManager", "setEvent", "joinManager", "down"} =>
    stored = {} /\ \A s \in Sessions : Joinable(s)

\* MemcacheServer.h:42, "Closes all connections and clears the data cache": when
\* Shutdown returns, every socket is destroyed, every thread has ended and
\* every container is empty.
ShutdownComplete ==
  pc[Main] = "down" /\ ~ terminated =>
    /\ socketMap = {} /\ socketDisposal = <<>> /\ stored = {}
    /\ \A s \in Sessions : s \in destroyed \/ pc[s] = "unborn"
    /\ \A t \in Threads \ {Main} : Joinable(t)
    /\ mapMutex = Nobody /\ listMutex = Nobody

\* MemcacheServer.h:115, "thread that will be used to remove disconnected
\* sockets": no select thread destroys its own socket.
SelectThreadNeverDestroysItself == ~ terminated

\* MemcacheServer.h:79-80, OnSocketClosed is called when the connection "has
\* been severed" and the instance is "to be destroyed": no session whose select
\* thread has ended stays in the map of a server that is serving.
NoStrandedSession ==
  pc[Main] = "serving" => \A s \in socketMap : pc[s] # "done"

\* The select thread is waiting for the mutex held by the thread that joins it.
ShutdownDeadlock ==
  /\ pc[Main] = "joinSession"
  /\ pc[target[Main]] = "lockMap"

\* MemcacheServer.h:42, "Closes all connections and clears the data cache":
\* Shutdown comes to an end.
ShutdownEnds == pc[Main] = "closeListen" ~> (pc[Main] = "down" \/ terminated)

\* The only thing that can keep Shutdown from ending is that deadlock.
ShutdownEndsOrDeadlocks ==
  pc[Main] = "closeListen" ~> (pc[Main] = "down" \/ terminated \/ ShutdownDeadlock)

\* A session that has been put on the disposal list is destroyed.
DisposalDrains ==
  \A s \in Sessions : InDisposal(s) ~> (s \in destroyed \/ terminated)

\* Once select has returned for a hang-up on a session that is in the map, the
\* session leaves the map, unless Shutdown hangs.  That its thread has ended is not
\* enough.
HangupRetires ==
  \A s \in Sessions :
    wire[s] = "short" /\ s \in socketMap /\ pc[s] = "check"
      ~> (s \notin socketMap \/ terminated \/ ShutdownDeadlock)
=============================================================================
