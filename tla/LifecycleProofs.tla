-------------------------- MODULE LifecycleProofs --------------------------
(***************************************************************************)
(* Proofs about ConnectionLifecycle for any number of sessions.  The       *)
(* inductive invariant says where a socket may be at each point of its     *)
(* select thread (in the map, on the disposal list, in the hands of a      *)
(* thread), what each mutex and each thread in a critical section stands   *)
(* for, and what Shutdown has established so far.                          *)
(***************************************************************************)
EXTENDS ConnectionLifecycle, SequenceTheorems, TLAPS

\* A mutex is held by the thread that is in its section.
MutexesHeld ==
  /\ \A s \in Sessions : mapMutex = s <=> pc[s] \in {"push", "notify", "erase", "unlockMap"}
  /\ mapMutex = Main <=> pc[Main] \in {"closeNext", "joinSession", "push", "erase"}
  /\ \A t \in {Main, Manager} : listMutex = t <=> pc[t] \in {"resetNext", "join"}

\* A thread has a session in its hands exactly where the code has one.
TargetsInHand ==
  /\ target[Listener] \in Sessions <=> pc[Listener] = "insert"
  /\ target[Manager] \in Sessions <=> pc[Manager] = "join"
  /\ target[Main] \in Sessions <=> pc[Main] \in {"joinSession", "push", "erase", "join"}

Nowhere(s) == s \notin socketMap /\ ~ InDisposal(s)
InNoHands(s) == \A t \in {Main, Manager, Listener} : target[t] # s

\* Where a session can be at a point of its select thread.
SessionPlaced(s) ==
  /\ pc[s] = "unborn" => Nowhere(s) /\ InNoHands(s)
  /\ pc[s] \in {"push", "notify", "erase"} => s \in socketMap
  /\ InDisposal(s) => pc[s] \in {"notify", "erase", "unlockMap", "done"}
  /\ InDisposal(s) /\ s \in socketMap =>
       pc[s] \in {"notify", "erase"} \/ (pc[Main] = "erase" /\ target[Main] = s)
  /\ s \in destroyed => pc[s] = "done" /\ Nowhere(s) /\ InNoHands(s)

\* Where a session is that a thread has in its hands: not in the map yet, no
\* more in a container, or still in the map and being closed.
TargetPlaced(s) ==
  /\ target[Listener] = s => Nowhere(s) /\ target[Main] # s /\ target[Manager] # s
  /\ \A t \in {Main, Manager} :
       pc[t] = "join" /\ target[t] = s => Nowhere(s) /\ pc[s] \in {"unlockMap", "done"}
  /\ pc[Main] \in {"joinSession", "push", "erase"} /\ target[Main] = s => s \in socketMap
  /\ pc[Main] \in {"push", "erase"} /\ target[Main] = s => pc[s] = "done"

Owned ==
  ~ terminated =>
    \A s \in Sessions :
      \/ pc[s] = "unborn" \/ s \in destroyed
      \/ s \in socketMap \/ InDisposal(s) \/ ~ InNoHands(s)

Unique == \A i, j \in 1 .. Len(socketDisposal) : socketDisposal[i] = socketDisposal[j] => i = j

\* The event is up, or about to be, whenever Manager may go to sleep over a list
\* that is not empty.
EventPending ==
  pc[Manager] \in {"unborn", "loop", "wait"} /\ socketDisposal # <<>> =>
    \/ threadEvent
    \/ \E s \in Sessions : pc[s] = "notify"
    \/ pc[Main] \in ShutdownPoints

StoppedPoints  == {"stopManager", "setEvent", "joinManager", "down"}
DisposedPoints == {"clear"} \cup StoppedPoints
ClosedPoints   == DisposalPoints \cup DisposedPoints
DeafPoints     == {"lockMap", "closeNext", "joinSession", "push", "erase"} \cup ClosedPoints

\* What Start has not done yet, and what Shutdown has done already.
StartupOrder ==
  /\ pc[Main] = "start" => pc[Manager] = "unborn"
  /\ pc[Main] \in {"start", "listen"} => pc[Listener] = "unborn"
ShutdownOrder ==
  /\ pc[Main] \in DeafPoints => Joinable(Listener)
  /\ pc[Main] \in ClosedPoints => socketMap = {}
  /\ pc[Main] \in DisposedPoints =>
       socketDisposal = <<>> /\ \A s \in Sessions : pc[s] = "unborn" \/ s \in destroyed
  /\ pc[Main] \in StoppedPoints => stored = {}
  /\ pc[Main] = "down" => Joinable(Manager)

Orderly ==
  /\ MutexesHeld
  /\ TargetsInHand
  /\ \A s \in Sessions : SessionPlaced(s) /\ TargetPlaced(s)
  /\ Owned
  /\ Unique
  /\ EventPending
  /\ StartupOrder
  /\ ShutdownOrder

IInv == TypeOK /\ Orderly
-----------------------------------------------------------------------------
(* The disposal list *)

\* The threads and Nobody are all different.
LEMMA AllDifferent ==
  /\ \A s \in Sessions : s # Main /\ s # Manager /\ s # Listener /\ s # Nobody
  /\ Main # Manager /\ Main # Listener /\ Main # Nobody
  /\ Manager # Listener /\ Manager # Nobody /\ Listener # Nobody
BY ThreadsAssumption

LEMMA ListKept ==
  ASSUME UNCHANGED socketDisposal
  PROVE  /\ \A s \in Sessions : InDisposal(s)' <=> InDisposal(s)
         /\ Unique => Unique'
BY DEF InDisposal, Unique

\* Appending puts one session on the list, which stays without duplicates if
\* the session was not on it.
LEMMA ListPushed ==
  ASSUME socketDisposal \in Seq(Sessions), NEW s \in Sessions,
         socketDisposal' = Append(socketDisposal, s)
  PROVE  /\ socketDisposal' \in Seq(Sessions)
         /\ \A x \in Sessions : InDisposal(x)' <=> InDisposal(x) \/ x = s
         /\ Unique /\ ~ InDisposal(s) => Unique'
<1> DEFINE q == socketDisposal
<1>1. /\ q' \in Seq(Sessions) /\ Len(q') = Len(q) + 1
      /\ \A i \in 1 .. Len(q) : q'[i] = q[i]
      /\ q'[Len(q) + 1] = s /\ Len(q) \in Nat
  BY AppendProperties
<1>2. \A x \in Sessions : InDisposal(x)' <=> InDisposal(x) \/ x = s
  BY <1>1 DEF InDisposal
<1>3. Unique /\ ~ InDisposal(s) => Unique'
  BY <1>1 DEF InDisposal, Unique
<1> QED BY <1>1, <1>2, <1>3

\* Resetting the first entry takes its session off a list without duplicates.
LEMMA ListPopped ==
  ASSUME socketDisposal \in Seq(Sessions), socketDisposal # <<>>, Unique,
         socketDisposal' = Tail(socketDisposal)
  PROVE  /\ socketDisposal' \in Seq(Sessions)
         /\ Head(socketDisposal) \in Sessions /\ InDisposal(Head(socketDisposal))
         /\ \A x \in Sessions : InDisposal(x)' <=> InDisposal(x) /\ x # Head(socketDisposal)
         /\ Unique'
<1> DEFINE q == socketDisposal
<1>1. /\ q' \in Seq(Sessions) /\ Len(q') = Len(q) - 1 /\ Len(q) \in Nat \ {0}
      /\ \A i \in 1 .. Len(q') : q'[i] = q[i + 1]
      /\ Head(q) \in Sessions /\ Head(q) = q[1]
  BY HeadTailProperties, EmptySeq
<1>2. \A x \in Sessions : InDisposal(x)' <=> InDisposal(x) /\ x # Head(q)
  <2> SUFFICES ASSUME NEW x \in Sessions PROVE InDisposal(x)' <=> InDisposal(x) /\ x # Head(q)
    OBVIOUS
  <2>1. ASSUME InDisposal(x)' PROVE InDisposal(x) /\ x # Head(q)
    BY <1>1, <2>1 DEF InDisposal, Unique
  <2>2. ASSUME InDisposal(x), x # Head(q) PROVE InDisposal(x)'
    <3>1. PICK i \in 1 .. Len(q) : q[i] = x
      BY <2>2 DEF InDisposal
    <3>2. i - 1 \in 1 .. Len(q') /\ q'[i - 1] = x
      BY <1>1, <2>2, <3>1
    <3> QED BY <3>2 DEF InDisposal
  <2> QED BY <2>1, <2>2
<1>3. Unique'
  BY <1>1 DEF Unique
<1>4. InDisposal(Head(q))
  BY <1>1 DEF InDisposal
<1> QED BY <1>1, <1>2, <1>3, <1>4
-----------------------------------------------------------------------------
(* The types *)

Points == SessionPoints \cup ListenerPoints \cup ManagerPoints \cup MainPoints

PcTypeOK ==
  /\ pc \in [Threads -> Points]
  /\ \A s \in Sessions : pc[s] \in SessionPoints
  /\ pc[Listener] \in ListenerPoints
  /\ pc[Manager] \in ManagerPoints
  /\ pc[Main] \in MainPoints

\* A thread that moves stays in its code.
LEMMA PcMoves ==
  ASSUME PcTypeOK, NEW t \in Threads, pc' = [pc EXCEPT ![t] = pc'[t]],
         t \in Sessions => pc'[t] \in SessionPoints,
         t = Listener => pc'[t] \in ListenerPoints,
         t = Manager => pc'[t] \in ManagerPoints,
         t = Main => pc'[t] \in MainPoints
  PROVE  PcTypeOK'
<1>1. pc'[t] \in Points
  BY DEF Points, Threads
<1>2. pc' \in [Threads -> Points]
  BY <1>1 DEF PcTypeOK
<1>3. \A x \in Threads : x # t => pc'[x] = pc[x]
  BY DEF PcTypeOK
<1> QED BY <1>2, <1>3, AllDifferent DEF PcTypeOK, Threads

\* A thread at work moves no other thread.
LEMMA SessionMoves ==
  ASSUME PcTypeOK, NEW s \in Sessions, Remote(s) \/ SelectThread(s)
  PROVE  /\ pc' = [pc EXCEPT ![s] = pc'[s]]
         /\ pc'[s] \in SessionPoints
<1> s \in Threads /\ pc[s] \in SessionPoints
  BY DEF Threads, PcTypeOK
<1>1. CASE Remote(s)
  BY <1>1 DEF Remote, PcTypeOK
<1>2. CASE SelectThread(s)
  <2>1. PICK from, to \in SessionPoints : Goto(s, from, to)
    BY <1>2 DEF SelectThread, Readable, SelectEnds, CheckTerminate, Peek, ReadMessage,
       OnSocketClosed, PushDisposal, Notify, EraseSession, UnlockMap, SessionPoints
  <2> QED BY <2>1 DEF Goto, PcTypeOK
<1> QED BY <1>1, <1>2

LEMMA ListenerMoves ==
  ASSUME PcTypeOK, ListenThread
  PROVE  \/ /\ pc' = [pc EXCEPT ![Listener] = pc'[Listener]]
            /\ pc[Listener] # "unborn" /\ pc'[Listener] \in ListenerPoints \ {"unborn"}
         \/ \E s \in Sessions :
              /\ Accept /\ pc[s] = "unborn"
              /\ pc' = [pc EXCEPT ![s] = "select", ![Listener] = "insert"]
              /\ target' = [target EXCEPT ![Listener] = s]
              /\ connected' = connected \cup {s}
<1> Listener \in Threads
  BY DEF Threads
<1>1. CASE ListenReadable \/ ListenEnds \/ ListenCheck \/ OnAcceptConn
  <2>1. PICK from, to \in ListenerPoints \ {"unborn"} : Goto(Listener, from, to)
    BY <1>1 DEF ListenReadable, ListenEnds, ListenCheck, OnAcceptConn, ListenerPoints
  <2> QED BY <2>1 DEF Goto, PcTypeOK
<1>2. CASE Accept
  <2>1. CASE Goto(Listener, "accept", "select")
    BY <2>1 DEF Goto, PcTypeOK, ListenerPoints
  <2>2. CASE ~ Goto(Listener, "accept", "select")
    BY <1>2, <2>2 DEF Accept
  <2> QED BY <2>1, <2>2
<1> QED BY <1>1, <1>2 DEF ListenThread

LEMMA ManagerMoves ==
  ASSUME PcTypeOK, ManagementThread
  PROVE  /\ pc' = [pc EXCEPT ![Manager] = pc'[Manager]]
         /\ pc[Manager] # "unborn" /\ pc'[Manager] \in ManagerPoints \ {"unborn"}
<1> Manager \in Threads
  BY DEF Threads
<1>1. PICK from, to \in ManagerPoints \ {"unborn"} : Goto(Manager, from, to)
  BY ThreadsAssumption DEF ManagementThread, RunLoop, TimedWait, RunCheck, ProcessClosedSockets, LockList,
     ResetNext, JoinDestroyed, UnlockList, ManagerPoints, DisposalPoints
<1> QED BY <1>1 DEF Goto, PcTypeOK

LEMMA MainMoves ==
  ASSUME PcTypeOK, MainThread
  PROVE  \/ /\ pc' = [pc EXCEPT ![Main] = pc'[Main]]
            /\ pc'[Main] \in MainPoints
         \/ /\ StartManager
            /\ pc' = [pc EXCEPT ![Main] = "listen", ![Manager] = "loop"]
         \/ /\ Listen
            /\ pc' = [pc EXCEPT ![Main] = "serving", ![Listener] = "select"]
<1> Main \in Threads
  BY DEF Threads
<1> USE DEF MainPoints, ShutdownPoints, DisposalPoints
<1>1. CASE StartManager
  BY <1>1 DEF StartManager
<1>2. CASE Listen
  BY <1>2 DEF Listen, Goto, PcTypeOK
<1>3. CASE ClearDataCache \/ Quit
  <2>1. PICK from, to \in MainPoints : Goto(Main, from, to)
    BY <1>3 DEF ClearDataCache, Quit
  <2> QED BY <2>1 DEF Goto, PcTypeOK
<1>4. CASE Shutdown
  <2>1. PICK from, to \in MainPoints : Goto(Main, from, to)
    BY <1>4 DEF Shutdown, CloseListen, JoinListen, CloseAllSockets, CloseNext, JoinSession, PushClosed,
       EraseClosed, StopManager, WakeManager, JoinManager, ProcessClosedSockets, LockList, ResetNext,
       JoinDestroyed, UnlockList
  <2> QED BY <2>1 DEF Goto, PcTypeOK
<1> QED BY <1>1, <1>2, <1>3, <1>4 DEF MainThread

LEMMA TypeIsPcType == TypeOK => PcTypeOK
BY DEF TypeOK, PcTypeOK, Points

LEMMA StepPcType ==
  ASSUME PcTypeOK, Next
  PROVE  PcTypeOK'
<1> Main \in Threads /\ Manager \in Threads /\ Listener \in Threads /\ \A s \in Sessions : s \in Threads
  BY DEF Threads
<1>1. ASSUME NEW s \in Sessions, Remote(s) \/ SelectThread(s) PROVE PcTypeOK'
  BY <1>1, SessionMoves, PcMoves, AllDifferent
<1>2. CASE ListenThread
  <2>1. CASE pc' = [pc EXCEPT ![Listener] = pc'[Listener]] /\ pc'[Listener] \in ListenerPoints
    BY <2>1, PcMoves, AllDifferent
  <2>2. ASSUME NEW s \in Sessions, pc' = [pc EXCEPT ![s] = "select", ![Listener] = "insert"]
        PROVE PcTypeOK'
    BY <2>2, AllDifferent DEF PcTypeOK, Points, SessionPoints, ListenerPoints
  <2> QED BY <1>2, <2>1, <2>2, ListenerMoves
<1>3. CASE ManagementThread
  BY <1>3, ManagerMoves, PcMoves, AllDifferent
<1>4. CASE MainThread
  <2>1. CASE pc' = [pc EXCEPT ![Main] = pc'[Main]] /\ pc'[Main] \in MainPoints
    BY <2>1, PcMoves, AllDifferent
  <2>2. CASE pc' = [pc EXCEPT ![Main] = "listen", ![Manager] = "loop"]
    BY <2>2, AllDifferent DEF PcTypeOK, Points, MainPoints, ManagerPoints
  <2>3. CASE pc' = [pc EXCEPT ![Main] = "serving", ![Listener] = "select"]
    BY <2>3, AllDifferent DEF PcTypeOK, Points, MainPoints, ListenerPoints
  <2> QED BY <1>4, <2>1, <2>2, <2>3, MainMoves
<1> QED BY <1>1, <1>2, <1>3, <1>4 DEF Next

LEMMA StepTypeOK ==
  ASSUME IInv, Next
  PROVE  TypeOK'
<1> USE AllDifferent DEF IInv, Orderly, TypeOK, CloseHandle, socketVars, containerVars, mutexVars, otherVars
<1>0. PcTypeOK'
  BY TypeIsPcType, StepPcType
<1> DEFINE SocketsOK == /\ shouldTerminate \in [Threads -> BOOLEAN]
                        /\ connected \subseteq Sessions \cup {Listener}
                        /\ wire \in [Sessions -> {"quiet", "message", "short", "cut"}]
                        /\ destroyed \subseteq Sessions
           ContainersOK == /\ socketMap \subseteq Sessions
                           /\ socketDisposal \in Seq(Sessions)
                           /\ target \in [{Main, Manager, Listener} -> Sessions \cup {Nobody}]
           RestOK == /\ mapMutex \in Sessions \cup {Main, Nobody}
                     /\ listMutex \in {Main, Manager, Nobody}
                     /\ threadEvent \in BOOLEAN
                     /\ stored \subseteq Sessions
                     /\ terminated \in BOOLEAN
<1>1. ASSUME NEW s \in Sessions, Remote(s) \/ SelectThread(s)
      PROVE  SocketsOK' /\ ContainersOK' /\ RestOK'
  <2>1. SocketsOK'
    BY <1>1 DEF Remote, SelectThread, Readable, SelectEnds, CheckTerminate, Peek, ReadMessage,
       OnSocketClosed, PushDisposal, Notify, EraseSession, UnlockMap
  <2>2. ContainersOK'
    BY <1>1, ListPushed DEF Remote, SelectThread, Readable, SelectEnds, CheckTerminate, Peek, ReadMessage,
       OnSocketClosed, PushDisposal, Notify, EraseSession, UnlockMap
  <2>3. RestOK'
    BY <1>1 DEF Remote, SelectThread, Readable, SelectEnds, CheckTerminate, Peek, ReadMessage,
       OnSocketClosed, PushDisposal, Notify, EraseSession, UnlockMap, LastReference
  <2> QED BY <2>1, <2>2, <2>3
<1>2. ASSUME ListenThread PROVE SocketsOK' /\ ContainersOK' /\ RestOK'
  <2>1. CASE ListenReadable \/ ListenEnds \/ ListenCheck
    BY <2>1 DEF ListenReadable, ListenEnds, ListenCheck
  <2>2. CASE Accept
    BY <2>2 DEF Accept
  <2>3. CASE OnAcceptConn
    <3>1. target[Listener] \in Sessions
      BY <2>3 DEF OnAcceptConn, Goto, TargetsInHand
    <3> QED BY <2>3, <3>1 DEF OnAcceptConn
  <2> QED BY <1>2, <2>1, <2>2, <2>3 DEF ListenThread
<1>3. ASSUME NEW t \in {Main, Manager}, ProcessClosedSockets(t)
      PROVE SocketsOK' /\ ContainersOK' /\ RestOK'
  <2>1. CASE LockList(t) \/ UnlockList(t)
    BY <2>1 DEF LockList, UnlockList
  <2>2. CASE ResetNext(t)
    <3>1. socketDisposal' \in Seq(Sessions) /\ Head(socketDisposal) \in Sessions
      BY <2>2, ListPopped DEF ResetNext
    <3>2. SocketsOK'
      BY <2>2 DEF ResetNext
    <3>3. ContainersOK'
      BY <2>2, <3>1 DEF ResetNext
    <3>4. RestOK'
      BY <2>2 DEF ResetNext
    <3> QED BY <3>2, <3>3, <3>4
  <2>3. CASE JoinDestroyed(t)
    BY <2>3 DEF JoinDestroyed
  <2> QED BY <1>3, <2>1, <2>2, <2>3 DEF ProcessClosedSockets
<1>4. ASSUME RunLoop \/ TimedWait \/ RunCheck \/ StartManager \/ Listen \/ ClearDataCache \/ Quit
      PROVE  SocketsOK' /\ ContainersOK' /\ RestOK'
  BY <1>4 DEF RunLoop, TimedWait, RunCheck, StartManager, Listen, ClearDataCache, Quit
<1>5. ASSUME CloseListen \/ JoinListen \/ CloseAllSockets \/ CloseNext \/ JoinSession
      PROVE  SocketsOK' /\ ContainersOK' /\ RestOK'
  <2>1. CASE CloseListen
    BY <2>1 DEF CloseListen, Threads
  <2>2. CASE JoinListen \/ CloseAllSockets \/ JoinSession
    BY <2>2 DEF JoinListen, CloseAllSockets, JoinSession
  <2>3. CASE CloseNext
    <3>1. SocketsOK'
      BY <2>3 DEF CloseNext
    <3>2. ContainersOK'
      BY <2>3 DEF CloseNext
    <3>3. RestOK'
      BY <2>3 DEF CloseNext
    <3> QED BY <3>1, <3>2, <3>3
  <2> QED BY <1>5, <2>1, <2>2, <2>3
<1>6. ASSUME EraseClosed \/ PushClosed \/ StopManager \/ WakeManager \/ JoinManager
      PROVE  SocketsOK' /\ ContainersOK' /\ RestOK'
  <2>1. pc[Main] \in {"push", "erase"} => target[Main] \in Sessions
    BY DEF TargetsInHand
  <2> QED BY <1>6, <2>1, ListPushed, ZenonT(30) DEF EraseClosed, PushClosed, StopManager, WakeManager, JoinManager, Goto
<1>7. SocketsOK' /\ ContainersOK' /\ RestOK'
  BY <1>1, <1>2, <1>3, <1>4, <1>5, <1>6 DEF Next, ManagementThread, MainThread, Shutdown
<1> QED BY <1>0, <1>7 DEF PcTypeOK, Points
-----------------------------------------------------------------------------
(* The initial state *)

LEMMA InitIInv == Init => IInv
<1> SUFFICES ASSUME Init PROVE IInv
  OBVIOUS
<1> USE AllDifferent DEF Init
<1>1. TypeOK
  <2>1. PcTypeOK
    BY DEF PcTypeOK, Points, Threads, SessionPoints, ListenerPoints, ManagerPoints, MainPoints
  <2>2. socketDisposal \in Seq(Sessions)
    BY EmptySeq
  <2> QED BY <2>1, <2>2 DEF TypeOK, PcTypeOK, Points
<1>2. MutexesHeld /\ TargetsInHand
  BY DEF MutexesHeld, TargetsInHand, Threads
<1>3. ASSUME NEW s \in Sessions PROVE SessionPlaced(s) /\ TargetPlaced(s)
  BY DEF SessionPlaced, TargetPlaced, Nowhere, InNoHands, InDisposal, Threads
<1>4. Owned /\ Unique /\ EventPending /\ StartupOrder /\ ShutdownOrder
  BY DEF Owned, Unique, EventPending, StartupOrder, ShutdownOrder, Threads, DeafPoints,
     ClosedPoints, DisposedPoints, StoppedPoints, DisposalPoints
<1> QED BY <1>1, <1>2, <1>3, <1>4 DEF IInv, Orderly
-----------------------------------------------------------------------------
(* The steps of a select thread *)

LEMMA ThreadsAre ==
  /\ Main \in Threads /\ Manager \in Threads /\ Listener \in Threads
  /\ \A s \in Sessions : s \in Threads
BY DEF Threads

LEMMA GotoMoves ==
  ASSUME PcTypeOK, NEW t \in Threads, NEW from, NEW to, Goto(t, from, to)
  PROVE  /\ pc[t] = from /\ pc'[t] = to
         /\ \A x \in Threads : x # t => pc'[x] = pc[x]
BY DEF Goto, PcTypeOK

\* A select thread outside OnSocketClosed touches no container and no mutex.
LEMMA SelectLoopKeeps ==
  ASSUME IInv, ~ terminated, NEW s \in Sessions,
         Remote(s) \/ Readable(s) \/ SelectEnds(s) \/ CheckTerminate(s) \/ Peek(s) \/ ReadMessage(s)
  PROVE  Orderly'
<1> USE AllDifferent, ThreadsAre DEF IInv, Orderly
<1> DEFINE from == pc[s]
           to == pc'[s]
<1>1. PcTypeOK
  BY TypeIsPcType
<1>2. UNCHANGED <<socketMap, socketDisposal, target, mapMutex, listMutex, threadEvent, destroyed, terminated>>
  BY DEF Remote, Readable, SelectEnds, CheckTerminate, Peek, ReadMessage, socketVars, containerVars, mutexVars, otherVars
<1>3. \A x \in Threads : x # s => pc'[x] = pc[x]
  BY <1>1, GotoMoves DEF Remote, Readable, SelectEnds, CheckTerminate, Peek, ReadMessage
<1>4. \/ from = to /\ from # "unborn" /\ UNCHANGED stored
      \/ /\ from \in {"select", "check", "peek", "read"}
         /\ to \in {"select", "check", "peek", "read", "lockMap", "done"}
         /\ stored' = stored \/ from = "read"
  BY <1>1, GotoMoves DEF Remote, Readable, SelectEnds, CheckTerminate, Peek, ReadMessage, otherVars
<1>5. \A x \in Sessions : InDisposal(x)' <=> InDisposal(x)
  BY <1>2, ListKept
<1>6. MutexesHeld' /\ TargetsInHand'
  BY <1>2, <1>3, <1>4 DEF MutexesHeld, TargetsInHand
<1>7. ASSUME NEW x \in Sessions PROVE SessionPlaced(x)' /\ TargetPlaced(x)'
  <2>1. SessionPlaced(x)'
    BY <1>2, <1>3, <1>4, <1>5 DEF SessionPlaced, Nowhere, InNoHands
  <2>2. TargetPlaced(x)'
    BY <1>2, <1>3, <1>4, <1>5 DEF TargetPlaced, Nowhere
  <2> QED BY <2>1, <2>2
<1>8. Owned' /\ Unique'
  BY <1>2, <1>3, <1>4, <1>5, ListKept DEF Owned, InNoHands
<1>9. EventPending'
  BY <1>2, <1>3, <1>4 DEF EventPending
<1>10. StartupOrder' /\ ShutdownOrder'
  <2>1. pc[Main] \in DisposedPoints => from = to /\ UNCHANGED stored
    BY <1>4 DEF ShutdownOrder, SessionPlaced
  <2> QED BY <1>2, <1>3, <1>4, <2>1 DEF StartupOrder, ShutdownOrder, Joinable, DisposedPoints
<1> QED BY <1>6, <1>7, <1>8, <1>9, <1>10

\* OnSocketClosed up to the copy of the pointer: with _sockMapMutex held the
\* session is in the map.
LEMMA OnSocketClosedKeeps ==
  ASSUME IInv, ~ terminated, NEW s \in Sessions, OnSocketClosed(s)
  PROVE  Orderly'
<1> USE AllDifferent, ThreadsAre DEF IInv, Orderly
<1>1. UNCHANGED <<socketMap, socketDisposal, target, listMutex, threadEvent, stored, destroyed, terminated>>
  BY DEF OnSocketClosed, socketVars, containerVars, otherVars
<1>2. \A x \in Threads : x # s => pc'[x] = pc[x]
  BY TypeIsPcType, GotoMoves DEF OnSocketClosed
<1>3. /\ pc[s] = "lockMap" /\ mapMutex = Nobody
      /\ \/ s \in socketMap /\ pc'[s] = "push" /\ mapMutex' = s
         \/ pc'[s] = "done" /\ UNCHANGED mapMutex
  BY TypeIsPcType, GotoMoves DEF OnSocketClosed
<1>4. \A x \in Sessions : InDisposal(x)' <=> InDisposal(x)
  BY <1>1, ListKept
<1>5. MutexesHeld' /\ TargetsInHand'
  BY <1>1, <1>2, <1>3 DEF MutexesHeld, TargetsInHand
<1>6. ASSUME NEW x \in Sessions PROVE SessionPlaced(x)' /\ TargetPlaced(x)'
  BY <1>1, <1>2, <1>3, <1>4 DEF SessionPlaced, TargetPlaced, Nowhere, InNoHands
<1>7. Owned' /\ Unique' /\ EventPending'
  BY <1>1, <1>2, <1>3, <1>4, ListKept DEF Owned, InNoHands, EventPending
<1>8. StartupOrder' /\ ShutdownOrder'
  BY <1>1, <1>2, <1>3 DEF StartupOrder, ShutdownOrder, Joinable, SessionPlaced
<1> QED BY <1>5, <1>6, <1>7, <1>8

\* The select thread puts its session on the list, where it was not yet.
LEMMA PushDisposalKeeps ==
  ASSUME IInv, ~ terminated, NEW s \in Sessions, PushDisposal(s)
  PROVE  Orderly'
<1> USE AllDifferent, ThreadsAre DEF IInv, Orderly
<1>1. UNCHANGED <<socketMap, target, mapMutex, listMutex, threadEvent, stored, destroyed, terminated>>
  BY DEF PushDisposal, socketVars, mutexVars, otherVars
<1>2. /\ pc[s] = "push" /\ pc'[s] = "notify"
      /\ \A x \in Threads : x # s => pc'[x] = pc[x]
  BY TypeIsPcType, GotoMoves DEF PushDisposal
<1>3. s \in socketMap /\ ~ InDisposal(s)
  BY <1>2 DEF SessionPlaced
<1>4. /\ \A x \in Sessions : InDisposal(x)' <=> InDisposal(x) \/ x = s
      /\ Unique'
  BY <1>3, ListPushed DEF PushDisposal, TypeOK
<1>5. MutexesHeld' /\ TargetsInHand'
  BY <1>1, <1>2 DEF MutexesHeld, TargetsInHand
<1>6. ASSUME NEW x \in Sessions PROVE SessionPlaced(x)' /\ TargetPlaced(x)'
  BY <1>1, <1>2, <1>3, <1>4 DEF SessionPlaced, TargetPlaced, Nowhere, InNoHands
<1>7. Owned' /\ EventPending'
  BY <1>1, <1>2, <1>4 DEF Owned, InNoHands, EventPending
<1>8. pc[Main] \notin ClosedPoints
  BY <1>3 DEF ShutdownOrder
<1>9. StartupOrder' /\ ShutdownOrder'
  BY <1>1, <1>2, <1>8 DEF StartupOrder, ShutdownOrder, Joinable, ClosedPoints
<1> QED BY <1>4, <1>5, <1>6, <1>7, <1>9

LEMMA NotifyKeeps ==
  ASSUME IInv, ~ terminated, NEW s \in Sessions, Notify(s)
  PROVE  Orderly'
<1> USE AllDifferent, ThreadsAre DEF IInv, Orderly
<1>1. UNCHANGED <<socketMap, socketDisposal, target, mapMutex, listMutex, stored, destroyed, terminated>>
  BY DEF Notify, socketVars, containerVars, mutexVars
<1>2. /\ pc[s] = "notify" /\ pc'[s] = "erase" /\ threadEvent'
      /\ \A x \in Threads : x # s => pc'[x] = pc[x]
  BY TypeIsPcType, GotoMoves DEF Notify
<1>3. \A x \in Sessions : InDisposal(x)' <=> InDisposal(x)
  BY <1>1, ListKept
<1>4. MutexesHeld' /\ TargetsInHand'
  BY <1>1, <1>2 DEF MutexesHeld, TargetsInHand
<1>5. ASSUME NEW x \in Sessions PROVE SessionPlaced(x)' /\ TargetPlaced(x)'
  BY <1>1, <1>2, <1>3 DEF SessionPlaced, TargetPlaced, Nowhere, InNoHands
<1>6. Owned' /\ Unique' /\ EventPending'
  BY <1>1, <1>2, <1>3, ListKept DEF Owned, InNoHands, EventPending
<1>7. StartupOrder' /\ ShutdownOrder'
  BY <1>1, <1>2 DEF StartupOrder, ShutdownOrder, Joinable, SessionPlaced
<1> QED BY <1>4, <1>5, <1>6, <1>7

\* The select thread gives up the copy in the map; the process ends if it was
\* the last one.  Main closes no session meanwhile, for that takes _sockMapMutex.
LEMMA EraseSessionKeeps ==
  ASSUME IInv, ~ terminated, NEW s \in Sessions, EraseSession(s)
  PROVE  Orderly'
<1> USE AllDifferent, ThreadsAre DEF IInv, Orderly
<1>1. /\ UNCHANGED <<socketDisposal, target, mapMutex, listMutex, threadEvent, stored, destroyed>>
      /\ socketMap' = socketMap \ {s}
  BY DEF EraseSession, socketVars, mutexVars
<1>2. /\ pc[s] = "erase" /\ pc'[s] = "unlockMap"
      /\ \A x \in Threads : x # s => pc'[x] = pc[x]
  BY TypeIsPcType, GotoMoves DEF EraseSession
<1>3. ~ terminated' => InDisposal(s)
  BY DEF EraseSession, LastReference, InDisposal
<1>4. /\ \A x \in Sessions : InDisposal(x)' <=> InDisposal(x)
      /\ pc[Main] \notin {"joinSession", "push", "erase"}
  BY <1>1, <1>2, ListKept DEF MutexesHeld
<1>5. MutexesHeld' /\ TargetsInHand'
  BY <1>1, <1>2 DEF MutexesHeld, TargetsInHand
<1>6. ASSUME NEW x \in Sessions PROVE SessionPlaced(x)' /\ TargetPlaced(x)'
  BY <1>1, <1>2, <1>4 DEF SessionPlaced, TargetPlaced, Nowhere, InNoHands
<1>7. Owned' /\ Unique' /\ EventPending'
  BY <1>1, <1>2, <1>3, <1>4, ListKept DEF Owned, InNoHands, EventPending
<1>8. StartupOrder' /\ ShutdownOrder'
  BY <1>1, <1>2 DEF StartupOrder, ShutdownOrder, Joinable, SessionPlaced
<1> QED BY <1>5, <1>6, <1>7, <1>8

LEMMA UnlockMapKeeps ==
  ASSUME IInv, ~ terminated, NEW s \in Sessions, UnlockMap(s)
  PROVE  Orderly'
<1> USE AllDifferent, ThreadsAre DEF IInv, Orderly
<1>1. UNCHANGED <<socketMap, socketDisposal, target, listMutex, threadEvent, stored, destroyed, terminated>>
  BY DEF UnlockMap, socketVars, containerVars, otherVars
<1>2. /\ pc[s] = "unlockMap" /\ pc'[s] = "done" /\ mapMutex' = Nobody
      /\ \A x \in Threads : x # s => pc'[x] = pc[x]
  BY TypeIsPcType, GotoMoves DEF UnlockMap
<1>3. \A x \in Sessions : InDisposal(x)' <=> InDisposal(x)
  BY <1>1, ListKept
<1>4. MutexesHeld' /\ TargetsInHand'
  BY <1>1, <1>2 DEF MutexesHeld, TargetsInHand
<1>5. ASSUME NEW x \in Sessions PROVE SessionPlaced(x)' /\ TargetPlaced(x)'
  BY <1>1, <1>2, <1>3 DEF SessionPlaced, TargetPlaced, Nowhere, InNoHands
<1>6. Owned' /\ Unique' /\ EventPending'
  BY <1>1, <1>2, <1>3, ListKept DEF Owned, InNoHands, EventPending
<1>7. StartupOrder' /\ ShutdownOrder'
  BY <1>1, <1>2 DEF StartupOrder, ShutdownOrder, Joinable, SessionPlaced
<1> QED BY <1>4, <1>5, <1>6, <1>7
-----------------------------------------------------------------------------
(* The steps of the listening thread *)

LEMMA ListenLoopKeeps ==
  ASSUME IInv, ~ terminated, ListenReadable \/ ListenEnds \/ ListenCheck
  PROVE  Orderly'
<1> USE AllDifferent, ThreadsAre DEF IInv, Orderly
<1>1. UNCHANGED <<socketMap, socketDisposal, target, mapMutex, listMutex, threadEvent, stored, destroyed, terminated>>
  BY DEF ListenReadable, ListenEnds, ListenCheck, socketVars, containerVars, mutexVars, otherVars
<1>2. /\ pc[Listener] \in {"select", "check"} /\ pc'[Listener] \in {"check", "accept", "done"}
      /\ \A x \in Threads : x # Listener => pc'[x] = pc[x]
  BY TypeIsPcType, GotoMoves DEF ListenReadable, ListenEnds, ListenCheck
<1>3. \A x \in Sessions : InDisposal(x)' <=> InDisposal(x)
  BY <1>1, ListKept
<1>4. MutexesHeld' /\ TargetsInHand'
  BY <1>1, <1>2 DEF MutexesHeld, TargetsInHand
<1>5. ASSUME NEW x \in Sessions PROVE SessionPlaced(x)' /\ TargetPlaced(x)'
  BY <1>1, <1>2, <1>3 DEF SessionPlaced, TargetPlaced, Nowhere, InNoHands
<1>6. Owned' /\ Unique' /\ EventPending'
  BY <1>1, <1>2, <1>3, ListKept DEF Owned, InNoHands, EventPending
<1>7. StartupOrder' /\ ShutdownOrder'
  BY <1>1, <1>2 DEF StartupOrder, ShutdownOrder, Joinable
<1> QED BY <1>4, <1>5, <1>6, <1>7

\* A new session is in the hands of the listening thread, and Shutdown has not
\* joined that thread yet.
LEMMA AcceptKeeps ==
  ASSUME IInv, ~ terminated, Accept
  PROVE  Orderly'
<1> USE AllDifferent, ThreadsAre DEF IInv, Orderly
<1>1. UNCHANGED <<socketMap, socketDisposal, mapMutex, listMutex, threadEvent, stored, destroyed, terminated>>
  BY DEF Accept, mutexVars, otherVars
<1>2. \A x \in Sessions : InDisposal(x)' <=> InDisposal(x)
  BY <1>1, ListKept
<1>3. CASE Goto(Listener, "accept", "select") /\ UNCHANGED target
  <2>1. /\ pc[Listener] = "accept" /\ pc'[Listener] = "select"
        /\ \A x \in Threads : x # Listener => pc'[x] = pc[x]
    BY <1>3, TypeIsPcType, GotoMoves
  <2>2. MutexesHeld' /\ TargetsInHand'
    BY <1>1, <1>3, <2>1 DEF MutexesHeld, TargetsInHand
  <2>3. ASSUME NEW x \in Sessions PROVE SessionPlaced(x)' /\ TargetPlaced(x)'
    BY <1>1, <1>2, <1>3, <2>1 DEF SessionPlaced, TargetPlaced, Nowhere, InNoHands
  <2>4. Owned' /\ Unique' /\ EventPending'
    BY <1>1, <1>2, <1>3, <2>1, ListKept DEF Owned, InNoHands, EventPending
  <2>5. StartupOrder' /\ ShutdownOrder'
    BY <1>1, <2>1 DEF StartupOrder, ShutdownOrder, Joinable
  <2> QED BY <2>2, <2>3, <2>4, <2>5
<1>4. ASSUME NEW s \in Sessions, pc[s] = "unborn", pc[Listener] = "accept",
             pc' = [pc EXCEPT ![s] = "select", ![Listener] = "insert"],
             target' = [target EXCEPT ![Listener] = s]
      PROVE  Orderly'
  <2>1. /\ pc'[s] = "select" /\ pc'[Listener] = "insert"
        /\ \A x \in Threads : x # s /\ x # Listener => pc'[x] = pc[x]
    BY <1>4, TypeIsPcType DEF PcTypeOK
  <2>2. /\ target'[Listener] = s /\ target[Listener] \notin Sessions
        /\ target'[Main] = target[Main] /\ target'[Manager] = target[Manager]
    BY <1>4 DEF TypeOK, TargetsInHand
  <2>3. Nowhere(s) /\ InNoHands(s) /\ s \notin destroyed
    BY <1>4 DEF SessionPlaced
  <2>4. MutexesHeld' /\ TargetsInHand'
    BY <1>1, <1>4, <2>1, <2>2 DEF MutexesHeld, TargetsInHand
  <2>5. ASSUME NEW x \in Sessions PROVE SessionPlaced(x)' /\ TargetPlaced(x)'
    BY <1>1, <1>2, <2>1, <2>2, <2>3, SMTT(30) DEF SessionPlaced, TargetPlaced, Nowhere, InNoHands
  <2>6. Owned' /\ Unique' /\ EventPending'
    BY <1>1, <1>2, <1>4, <2>1, <2>2, ListKept, ZenonT(30) DEF Owned, InNoHands, EventPending
  <2>7. pc[Main] \notin DeafPoints /\ pc[Main] \notin {"start", "listen"}
    BY <1>4 DEF ShutdownOrder, StartupOrder, Joinable
  <2>8. StartupOrder' /\ ShutdownOrder'
    BY <2>1, <2>7 DEF StartupOrder, ShutdownOrder, DeafPoints, ClosedPoints, DisposedPoints, StoppedPoints
  <2> QED BY <2>4, <2>5, <2>6, <2>8
<1> QED BY <1>3, <1>4 DEF Accept

\* The session passes from the listening thread to the map.
LEMMA OnAcceptConnKeeps ==
  ASSUME IInv, ~ terminated, OnAcceptConn
  PROVE  Orderly'
<1> USE AllDifferent, ThreadsAre DEF IInv, Orderly
<1> DEFINE s == target[Listener]
<1>1. /\ UNCHANGED <<socketDisposal, mapMutex, listMutex, threadEvent, stored, destroyed, terminated>>
      /\ socketMap' = socketMap \cup {s}
  BY DEF OnAcceptConn, socketVars, mutexVars, otherVars
<1>2. /\ pc[Listener] = "insert" /\ pc'[Listener] = "select"
      /\ \A x \in Threads : x # Listener => pc'[x] = pc[x]
  BY TypeIsPcType, GotoMoves DEF OnAcceptConn
<1>3. \A x \in Sessions : InDisposal(x)' <=> InDisposal(x)
  BY <1>1, ListKept
<1>4. /\ target'[Listener] = Nobody
      /\ target'[Main] = target[Main] /\ target'[Manager] = target[Manager]
  BY DEF OnAcceptConn, TypeOK
<1>5. s \in Sessions /\ Nowhere(s) /\ target[Main] # s /\ target[Manager] # s
  BY <1>2 DEF TargetsInHand, TargetPlaced
<1>6. s \notin destroyed /\ pc[s] # "unborn"
  BY <1>5 DEF SessionPlaced, InNoHands
<1>7. MutexesHeld' /\ TargetsInHand'
  BY <1>1, <1>2, <1>4 DEF MutexesHeld, TargetsInHand
<1>8. ASSUME NEW x \in Sessions PROVE SessionPlaced(x)' /\ TargetPlaced(x)'
  <2>1. SessionPlaced(x)'
    BY <1>1, <1>2, <1>3, <1>4, <1>5, <1>6 DEF SessionPlaced, Nowhere, InNoHands
  <2>2. TargetPlaced(x)'
    BY <1>1, <1>2, <1>3, <1>4, <1>5, <1>6 DEF TargetPlaced, Nowhere
  <2> QED BY <2>1, <2>2
<1>9. Owned' /\ Unique' /\ EventPending'
  BY <1>1, <1>2, <1>3, <1>4, ListKept DEF Owned, InNoHands, EventPending
<1>10. pc[Main] \notin DeafPoints /\ pc[Main] \notin {"start", "listen"}
  BY <1>2 DEF ShutdownOrder, StartupOrder, Joinable
<1>11. StartupOrder' /\ ShutdownOrder'
  BY <1>2, <1>10 DEF StartupOrder, ShutdownOrder, DeafPoints, ClosedPoints, DisposedPoints, StoppedPoints
<1> QED BY <1>7, <1>8, <1>9, <1>11
-----------------------------------------------------------------------------
(* The steps of ProcessClosedSockets and of the management thread *)

LEMMA RunKeeps ==
  ASSUME IInv, ~ terminated, RunLoop \/ TimedWait \/ RunCheck
  PROVE  Orderly'
<1> USE AllDifferent, ThreadsAre DEF IInv, Orderly
<1>1. UNCHANGED <<socketMap, socketDisposal, target, mapMutex, listMutex, stored, destroyed, terminated>>
  BY DEF RunLoop, TimedWait, RunCheck, socketVars, containerVars, mutexVars, otherVars
<1>2. /\ \/ pc[Manager] = "loop" /\ pc'[Manager] \in {"wait", "done"} /\ UNCHANGED threadEvent
         \/ pc[Manager] \in {"wait", "check"} /\ pc'[Manager] \in {"check", "done", "lockList"}
      /\ \A x \in Threads : x # Manager => pc'[x] = pc[x]
  BY TypeIsPcType, GotoMoves DEF RunLoop, TimedWait, RunCheck, otherVars
<1>3. \A x \in Sessions : InDisposal(x)' <=> InDisposal(x)
  BY <1>1, ListKept
<1>4. MutexesHeld' /\ TargetsInHand'
  BY <1>1, <1>2 DEF MutexesHeld, TargetsInHand
<1>5. ASSUME NEW x \in Sessions PROVE SessionPlaced(x)' /\ TargetPlaced(x)'
  BY <1>1, <1>2, <1>3 DEF SessionPlaced, TargetPlaced, Nowhere, InNoHands
<1>6. Owned' /\ Unique' /\ EventPending'
  BY <1>1, <1>2, <1>3, ListKept DEF Owned, InNoHands, EventPending
<1>7. StartupOrder' /\ ShutdownOrder'
  BY <1>1, <1>2 DEF StartupOrder, ShutdownOrder, Joinable
<1> QED BY <1>4, <1>5, <1>6, <1>7

\* The two threads that process closed sockets are the ones that can hold
\* _sockListMutex.
LEMMA LockListKeeps ==
  ASSUME IInv, ~ terminated, NEW t \in {Main, Manager}, LockList(t)
  PROVE  Orderly'
<1> USE AllDifferent, ThreadsAre DEF IInv, Orderly
<1>1. UNCHANGED <<socketMap, socketDisposal, target, mapMutex, threadEvent, stored, destroyed, terminated>>
  BY DEF LockList, socketVars, containerVars, otherVars
<1>2. /\ pc[t] = "lockList" /\ pc'[t] = "resetNext" /\ listMutex = Nobody /\ listMutex' = t
      /\ \A x \in Threads : x # t => pc'[x] = pc[x]
  BY TypeIsPcType, GotoMoves DEF LockList
<1>3. \A x \in Sessions : InDisposal(x)' <=> InDisposal(x)
  BY <1>1, ListKept
<1>4. MutexesHeld' /\ TargetsInHand'
  BY <1>1, <1>2 DEF MutexesHeld, TargetsInHand
<1>5. ASSUME NEW x \in Sessions PROVE SessionPlaced(x)' /\ TargetPlaced(x)'
  BY <1>1, <1>2, <1>3 DEF SessionPlaced, TargetPlaced, Nowhere, InNoHands
<1>6. Owned' /\ Unique'
  BY <1>1, <1>2, <1>3, ListKept DEF Owned, InNoHands
<1>7. EventPending'
  BY <1>1, <1>2 DEF EventPending, ShutdownPoints, DisposalPoints
<1>8. StartupOrder' /\ ShutdownOrder'
  BY <1>1, <1>2 DEF StartupOrder, ShutdownOrder, Joinable, DeafPoints, ClosedPoints, DisposedPoints,
     StoppedPoints, DisposalPoints
<1> QED BY <1>4, <1>5, <1>6, <1>7, <1>8

\* The copy in the list goes: the session is still in the map, or it goes from
\* the list into the hands of the thread that destroys it, and then its select
\* thread has erased it from the map.
LEMMA ResetNextKeeps ==
  ASSUME IInv, ~ terminated, NEW t \in {Main, Manager}, ResetNext(t)
  PROVE  Orderly'
<1> USE AllDifferent, ThreadsAre DEF IInv, Orderly
<1> DEFINE s == Head(socketDisposal)
<1>1. /\ s \in Sessions /\ InDisposal(s) /\ Unique'
      /\ \A x \in Sessions : InDisposal(x)' <=> InDisposal(x) /\ x # s
      /\ socketDisposal # <<>>
  BY ListPopped DEF ResetNext, TypeOK
<1>2. UNCHANGED <<socketMap, mapMutex, listMutex, threadEvent, stored, destroyed, terminated>>
  BY DEF ResetNext, socketVars, mutexVars, otherVars, CloseHandle
<1>3. /\ pc[t] = "resetNext" /\ \A x \in Threads : x # t => pc'[x] = pc[x]
      /\ \/ /\ s \notin socketMap /\ pc'[t] = "join"
            /\ target' = [target EXCEPT ![t] = s]
         \/ /\ s \in socketMap /\ pc'[t] = "resetNext"
            /\ UNCHANGED target
  <2>1. LastReference(s, socketMap, socketDisposal') <=> s \notin socketMap
    BY <1>1 DEF LastReference, InDisposal
  <2> QED BY <2>1, TypeIsPcType, GotoMoves DEF ResetNext
<1>4. /\ target[t] \notin Sessions
      /\ \A x \in {Main, Manager, Listener} : x # t => target'[x] = target[x]
      /\ pc'[t] = "join" => target'[t] = s
  BY <1>3 DEF TypeOK, TargetsInHand
<1>5. /\ s \notin socketMap => pc[s] \in {"unlockMap", "done"}
      /\ pc[s] # "unborn" /\ s \notin destroyed /\ target[Listener] # s
      /\ s \notin socketMap => target[Main] # s /\ target[Manager] # s
  BY <1>1 DEF SessionPlaced, TargetPlaced, Nowhere, TargetsInHand
<1>6. MutexesHeld'
  BY <1>2, <1>3 DEF MutexesHeld
<1>7. TargetsInHand'
  BY <1>1, <1>3, <1>4 DEF TargetsInHand
<1>8. ASSUME NEW x \in Sessions PROVE SessionPlaced(x)' /\ TargetPlaced(x)'
  <2>1. SessionPlaced(x)'
    BY <1>1, <1>2, <1>3, <1>4, <1>5 DEF SessionPlaced, Nowhere, InNoHands
  <2>2. TargetPlaced(x)'
    BY <1>1, <1>2, <1>3, <1>4, <1>5 DEF TargetPlaced, Nowhere, InNoHands
  <2> QED BY <2>1, <2>2
<1>9. Owned'
  BY <1>1, <1>2, <1>3, <1>4 DEF Owned, InNoHands
<1>10. EventPending'
  BY <1>1, <1>2, <1>3 DEF EventPending, ShutdownPoints, DisposalPoints
<1>11. StartupOrder' /\ ShutdownOrder'
  BY <1>1, <1>2, <1>3 DEF StartupOrder, ShutdownOrder, Joinable, DeafPoints, ClosedPoints, DisposedPoints,
     StoppedPoints, DisposalPoints
<1> QED BY <1>1, <1>6, <1>7, <1>8, <1>9, <1>10, <1>11

\* The destructor ends: no container and no other thread has the session.
LEMMA JoinDestroyedKeeps ==
  ASSUME IInv, ~ terminated, NEW t \in {Main, Manager}, JoinDestroyed(t)
  PROVE  Orderly'
<1> USE AllDifferent, ThreadsAre DEF IInv, Orderly
<1> DEFINE s == target[t]
<1>1. /\ UNCHANGED <<socketMap, socketDisposal, mapMutex, listMutex, threadEvent, stored, terminated>>
      /\ destroyed' = destroyed \cup {s} /\ s \in Sessions /\ Joinable(s)
  BY DEF JoinDestroyed, mutexVars, otherVars
<1>2. /\ pc[t] = "join" /\ pc'[t] = "resetNext"
      /\ \A x \in Threads : x # t => pc'[x] = pc[x]
  BY TypeIsPcType, GotoMoves DEF JoinDestroyed
<1>3. /\ target'[t] = Nobody
      /\ \A x \in {Main, Manager, Listener} : x # t => target'[x] = target[x]
  BY DEF JoinDestroyed, TypeOK
<1>4. \A x \in Sessions : InDisposal(x)' <=> InDisposal(x)
  BY <1>1, ListKept
<1>5. Nowhere(s) /\ pc[s] = "done"
  BY <1>1, <1>2 DEF TargetPlaced, Joinable
<1>6. \A x \in {Main, Manager, Listener} : target'[x] # s
  <2>1. target[Listener] # s
    BY <1>1 DEF TargetPlaced
  <2>2. ASSUME NEW x \in {Main, Manager}, x # t PROVE target[x] # s
    BY <1>1, <1>2, <1>5, <2>2 DEF TargetsInHand, TargetPlaced, MutexesHeld, Nowhere
  <2> QED BY <1>1, <1>3, <2>1, <2>2
<1>7. MutexesHeld' /\ TargetsInHand'
  BY <1>1, <1>2, <1>3 DEF MutexesHeld, TargetsInHand
<1>8. ASSUME NEW x \in Sessions PROVE SessionPlaced(x)' /\ TargetPlaced(x)'
  <2>1. SessionPlaced(x)'
    BY <1>1, <1>2, <1>3, <1>4, <1>5, <1>6 DEF SessionPlaced, Nowhere, InNoHands
  <2>2. TargetPlaced(x)'
    BY <1>1, <1>2, <1>3, <1>4, <1>5, <1>6 DEF TargetPlaced, Nowhere
  <2> QED BY <2>1, <2>2
<1>9. Owned' /\ Unique'
  BY <1>1, <1>2, <1>3, <1>4, ListKept DEF Owned, InNoHands
<1>10. EventPending'
  BY <1>1, <1>2 DEF EventPending, ShutdownPoints, DisposalPoints
<1>11. StartupOrder' /\ ShutdownOrder'
  BY <1>1, <1>2 DEF StartupOrder, ShutdownOrder, Joinable, DeafPoints, ClosedPoints, DisposedPoints,
     StoppedPoints, DisposalPoints
<1> QED BY <1>7, <1>8, <1>9, <1>10, <1>11

\* When Main has worked off the list, every session is destroyed: the map is
\* empty, the listening thread has ended, and Manager destroys nothing while
\* Main holds _sockListMutex.
LEMMA UnlockListKeeps ==
  ASSUME IInv, ~ terminated, NEW t \in {Main, Manager}, UnlockList(t)
  PROVE  Orderly'
<1> USE AllDifferent, ThreadsAre DEF IInv, Orderly
<1>1. /\ UNCHANGED <<socketMap, socketDisposal, target, mapMutex, threadEvent, stored, destroyed, terminated>>
      /\ listMutex' = Nobody /\ socketDisposal = <<>>
  BY DEF UnlockList, socketVars, containerVars, otherVars
<1>2. /\ pc[t] = "resetNext" /\ pc'[t] = IF t = Main THEN "clear" ELSE "loop"
      /\ \A x \in Threads : x # t => pc'[x] = pc[x]
  BY TypeIsPcType, GotoMoves DEF UnlockList
<1>3. \A x \in Sessions : ~ InDisposal(x) /\ ~ InDisposal(x)'
  BY <1>1 DEF InDisposal
<1>4. ASSUME t = Main, NEW x \in Sessions PROVE pc[x] = "unborn" \/ x \in destroyed
  <2>1. socketMap = {} /\ Joinable(Listener)
    BY <1>2, <1>4 DEF ShutdownOrder, DeafPoints, ClosedPoints, DisposalPoints
  <2>2. InNoHands(x)
    BY <1>2, <1>4, <2>1 DEF InNoHands, TargetsInHand, MutexesHeld, Joinable
  <2> QED BY <1>3, <2>1, <2>2 DEF Owned
<1>5. MutexesHeld' /\ TargetsInHand'
  BY <1>1, <1>2 DEF MutexesHeld, TargetsInHand
<1>6. ASSUME NEW x \in Sessions PROVE SessionPlaced(x)' /\ TargetPlaced(x)'
  BY <1>1, <1>2, <1>3 DEF SessionPlaced, TargetPlaced, Nowhere, InNoHands
<1>7. Owned' /\ Unique' /\ EventPending'
  BY <1>1, <1>2, <1>3, ListKept DEF Owned, InNoHands, EventPending
<1>8. StartupOrder' /\ ShutdownOrder'
  BY <1>1, <1>2, <1>4 DEF StartupOrder, ShutdownOrder, Joinable, DeafPoints, ClosedPoints, DisposedPoints,
     StoppedPoints, DisposalPoints
<1> QED BY <1>5, <1>6, <1>7, <1>8
-----------------------------------------------------------------------------
(* The steps of Main *)

LEMMA StartKeeps ==
  ASSUME IInv, ~ terminated, StartManager \/ Listen
  PROVE  Orderly'
<1> USE AllDifferent, ThreadsAre DEF IInv, Orderly
<1>1. UNCHANGED <<socketMap, socketDisposal, target, mapMutex, listMutex, threadEvent, stored, destroyed, terminated>>
  BY DEF StartManager, Listen, socketVars, containerVars, mutexVars, otherVars
<1>2. /\ \/ /\ pc[Main] = "start" /\ pc'[Main] = "listen" /\ pc'[Manager] = "loop"
            /\ pc'[Listener] = pc[Listener]
         \/ /\ pc[Main] = "listen" /\ pc'[Main] = "serving" /\ pc'[Listener] = "select"
            /\ pc'[Manager] = pc[Manager]
         \/ /\ pc[Main] = "listen" /\ pc'[Main] \in {"closeListen", "serving"}
            /\ pc'[Manager] = pc[Manager] /\ pc'[Listener] = pc[Listener]
      /\ \A x \in Sessions : pc'[x] = pc[x]
  <2>1. CASE StartManager
    BY <2>1, TypeIsPcType DEF StartManager, PcTypeOK
  <2>2. CASE Listen
    BY <2>2, TypeIsPcType DEF Listen, Goto, PcTypeOK
  <2> QED BY <2>1, <2>2
<1>3. \A x \in Sessions : InDisposal(x)' <=> InDisposal(x)
  BY <1>1, ListKept
<1>4. pc[Listener] = "unborn" /\ (pc[Main] = "start" => pc[Manager] = "unborn")
  BY <1>2 DEF StartupOrder
<1>5. MutexesHeld' /\ TargetsInHand'
  BY <1>1, <1>2, <1>4 DEF MutexesHeld, TargetsInHand
<1>6. ASSUME NEW x \in Sessions PROVE SessionPlaced(x)' /\ TargetPlaced(x)'
  BY <1>1, <1>2, <1>3, <1>4 DEF SessionPlaced, TargetPlaced, Nowhere, InNoHands
<1>7. Owned' /\ Unique' /\ EventPending'
  BY <1>1, <1>2, <1>3, <1>4, ListKept DEF Owned, InNoHands, EventPending, ShutdownPoints, DisposalPoints
<1>8. StartupOrder' /\ ShutdownOrder'
  BY <1>1, <1>2, <1>4 DEF StartupOrder, ShutdownOrder, Joinable, DeafPoints, ClosedPoints, DisposedPoints,
     StoppedPoints, DisposalPoints
<1> QED BY <1>5, <1>6, <1>7, <1>8

LEMMA ConsoleKeeps ==
  ASSUME IInv, ~ terminated, ClearDataCache \/ Quit
  PROVE  Orderly'
<1> USE AllDifferent, ThreadsAre DEF IInv, Orderly
<1>1. UNCHANGED <<socketMap, socketDisposal, target, mapMutex, listMutex, threadEvent, destroyed, terminated>>
  BY DEF ClearDataCache, Quit, socketVars, containerVars, mutexVars, otherVars
<1>2. /\ \/ pc[Main] = "serving" /\ pc'[Main] = "serving"
         \/ pc[Main] = "clear" /\ pc'[Main] = "stopManager" /\ stored' = {}
         \/ pc[Main] \in {"serving", "down"} /\ pc'[Main] = "closeListen"
      /\ \A x \in Threads : x # Main => pc'[x] = pc[x]
  BY TypeIsPcType, GotoMoves DEF ClearDataCache, Quit
<1>3. \A x \in Sessions : InDisposal(x)' <=> InDisposal(x)
  BY <1>1, ListKept
<1>4. MutexesHeld' /\ TargetsInHand'
  BY <1>1, <1>2 DEF MutexesHeld, TargetsInHand
<1>5. ASSUME NEW x \in Sessions PROVE SessionPlaced(x)' /\ TargetPlaced(x)'
  BY <1>1, <1>2, <1>3 DEF SessionPlaced, TargetPlaced, Nowhere, InNoHands
<1>6. Owned' /\ Unique' /\ EventPending'
  BY <1>1, <1>2, <1>3, ListKept DEF Owned, InNoHands, EventPending, ShutdownPoints, DisposalPoints
<1>7. StartupOrder' /\ ShutdownOrder'
  BY <1>1, <1>2 DEF StartupOrder, ShutdownOrder, Joinable, DeafPoints, ClosedPoints, DisposedPoints,
     StoppedPoints, DisposalPoints
<1> QED BY <1>4, <1>5, <1>6, <1>7

\* Shutdown before it takes _sockMapMutex: the listening thread is joined, and
\* no session is accepted from here on.
LEMMA CloseListenKeeps ==
  ASSUME IInv, ~ terminated, CloseListen \/ JoinListen \/ CloseAllSockets
  PROVE  Orderly'
<1> USE AllDifferent, ThreadsAre DEF IInv, Orderly
<1>1. UNCHANGED <<socketMap, socketDisposal, target, listMutex, threadEvent, stored, destroyed, terminated>>
  BY DEF CloseListen, JoinListen, CloseAllSockets, CloseHandle, socketVars, containerVars, mutexVars, otherVars
<1>2. /\ \/ pc[Main] = "closeListen" /\ pc'[Main] = "joinListen" /\ UNCHANGED mapMutex
         \/ pc[Main] = "joinListen" /\ pc'[Main] = "lockMap" /\ UNCHANGED mapMutex /\ Joinable(Listener)
         \/ pc[Main] = "lockMap" /\ pc'[Main] = "closeNext" /\ mapMutex = Nobody /\ mapMutex' = Main
      /\ \A x \in Threads : x # Main => pc'[x] = pc[x]
  BY TypeIsPcType, GotoMoves DEF CloseListen, JoinListen, CloseAllSockets, mutexVars
<1>3. \A x \in Sessions : InDisposal(x)' <=> InDisposal(x)
  BY <1>1, ListKept
<1>4. MutexesHeld' /\ TargetsInHand'
  BY <1>1, <1>2 DEF MutexesHeld, TargetsInHand
<1>5. ASSUME NEW x \in Sessions PROVE SessionPlaced(x)' /\ TargetPlaced(x)'
  BY <1>1, <1>2, <1>3 DEF SessionPlaced, TargetPlaced, Nowhere, InNoHands
<1>6. Owned' /\ Unique' /\ EventPending'
  BY <1>1, <1>2, <1>3, ListKept DEF Owned, InNoHands, EventPending, ShutdownPoints
<1>7. StartupOrder' /\ ShutdownOrder'
  BY <1>1, <1>2 DEF StartupOrder, ShutdownOrder, Joinable, DeafPoints, ClosedPoints, DisposedPoints,
     StoppedPoints, DisposalPoints
<1> QED BY <1>4, <1>5, <1>6, <1>7

\* Main takes a session of the map into its hands, or the map is empty.
LEMMA CloseNextKeeps ==
  ASSUME IInv, ~ terminated, CloseNext
  PROVE  Orderly'
<1> USE AllDifferent, ThreadsAre DEF IInv, Orderly
<1>1. UNCHANGED <<socketMap, socketDisposal, listMutex, threadEvent, stored, destroyed, terminated>>
  BY DEF CloseNext, CloseHandle, socketVars, containerVars, mutexVars, otherVars
<1>2. /\ pc[Main] = "closeNext" /\ \A x \in Threads : x # Main => pc'[x] = pc[x]
      /\ \/ /\ pc'[Main] = "joinSession" /\ UNCHANGED mapMutex
            /\ \E s \in socketMap : target' = [target EXCEPT ![Main] = s]
         \/ /\ pc'[Main] = "lockList" /\ socketMap = {} /\ mapMutex' = Nobody /\ UNCHANGED target
  BY TypeIsPcType, GotoMoves DEF CloseNext, containerVars, mutexVars
<1>3. /\ pc'[Main] = "joinSession" => target'[Main] \in socketMap
      /\ pc'[Main] = "lockList" => target'[Main] = target[Main]
      /\ target'[Manager] = target[Manager] /\ target'[Listener] = target[Listener]
      /\ target[Main] \notin Sessions /\ socketMap \subseteq Sessions
  BY <1>2 DEF TypeOK, TargetsInHand
<1>4. \A x \in Sessions : InDisposal(x)' <=> InDisposal(x)
  BY <1>1, ListKept
<1>5. MutexesHeld' /\ TargetsInHand'
  BY <1>1, <1>2, <1>3 DEF MutexesHeld, TargetsInHand
<1>6. ASSUME NEW x \in Sessions PROVE SessionPlaced(x)' /\ TargetPlaced(x)'
  <2>1. SessionPlaced(x)'
    BY <1>1, <1>2, <1>3, <1>4 DEF SessionPlaced, Nowhere, InNoHands
  <2>2. TargetPlaced(x)'
    BY <1>1, <1>2, <1>3, <1>4 DEF TargetPlaced, Nowhere
  <2> QED BY <2>1, <2>2
<1>7. Owned' /\ Unique' /\ EventPending'
  BY <1>1, <1>2, <1>3, <1>4, ListKept DEF Owned, InNoHands, EventPending, ShutdownPoints, DisposalPoints
<1>8. StartupOrder' /\ ShutdownOrder'
  BY <1>1, <1>2 DEF StartupOrder, ShutdownOrder, Joinable, DeafPoints, ClosedPoints, DisposedPoints,
     StoppedPoints, DisposalPoints
<1> QED BY <1>5, <1>6, <1>7, <1>8

\* The select thread of the session that is being closed has ended.
LEMMA JoinSessionKeeps ==
  ASSUME IInv, ~ terminated, JoinSession
  PROVE  Orderly'
<1> USE AllDifferent, ThreadsAre DEF IInv, Orderly
<1>1. UNCHANGED <<socketMap, socketDisposal, target, mapMutex, listMutex, threadEvent, stored, destroyed, terminated>>
  BY DEF JoinSession, socketVars, containerVars, mutexVars, otherVars
<1>2. /\ pc[Main] = "joinSession" /\ pc'[Main] = "push"
      /\ \A x \in Threads : x # Main => pc'[x] = pc[x]
  BY TypeIsPcType, GotoMoves DEF JoinSession
<1>3. target[Main] \in socketMap /\ pc[target[Main]] = "done"
  BY <1>2 DEF JoinSession, TargetPlaced, SessionPlaced, Joinable, Nowhere
<1>4. \A x \in Sessions : InDisposal(x)' <=> InDisposal(x)
  BY <1>1, ListKept
<1>5. MutexesHeld' /\ TargetsInHand'
  BY <1>1, <1>2 DEF MutexesHeld, TargetsInHand
<1>6. ASSUME NEW x \in Sessions PROVE SessionPlaced(x)' /\ TargetPlaced(x)'
  BY <1>1, <1>2, <1>3, <1>4 DEF SessionPlaced, TargetPlaced, Nowhere, InNoHands
<1>7. Owned' /\ Unique' /\ EventPending'
  BY <1>1, <1>2, <1>4, ListKept DEF Owned, InNoHands, EventPending, ShutdownPoints
<1>8. StartupOrder' /\ ShutdownOrder'
  BY <1>1, <1>2 DEF StartupOrder, ShutdownOrder, Joinable, DeafPoints, ClosedPoints, DisposedPoints,
     StoppedPoints, DisposalPoints
<1> QED BY <1>5, <1>6, <1>7, <1>8

\* The closed session is not on the list: its select thread has ended, and it
\* would have erased the session from the map before that.
LEMMA PushClosedKeeps ==
  ASSUME IInv, ~ terminated, PushClosed
  PROVE  Orderly'
<1> USE AllDifferent, ThreadsAre DEF IInv, Orderly
<1> DEFINE s == target[Main]
<1>1. UNCHANGED <<socketMap, target, mapMutex, listMutex, threadEvent, stored, destroyed, terminated>>
  BY DEF PushClosed, socketVars, mutexVars, otherVars
<1>2. /\ pc[Main] = "push" /\ pc'[Main] = "erase"
      /\ \A x \in Threads : x # Main => pc'[x] = pc[x]
  BY TypeIsPcType, GotoMoves DEF PushClosed
<1>3. s \in Sessions /\ s \in socketMap /\ pc[s] = "done"
  BY <1>2 DEF TargetPlaced, TargetsInHand
<1>4. ~ InDisposal(s)
  BY <1>2, <1>3 DEF SessionPlaced
<1>5. /\ \A x \in Sessions : InDisposal(x)' <=> InDisposal(x) \/ x = s
      /\ Unique'
  BY <1>3, <1>4, ListPushed DEF PushClosed, TypeOK
<1>6. MutexesHeld' /\ TargetsInHand'
  BY <1>1, <1>2 DEF MutexesHeld, TargetsInHand
<1>7. ASSUME NEW x \in Sessions PROVE SessionPlaced(x)' /\ TargetPlaced(x)'
  BY <1>1, <1>2, <1>3, <1>5 DEF SessionPlaced, TargetPlaced, Nowhere, InNoHands
<1>8. Owned' /\ EventPending'
  BY <1>1, <1>2, <1>5 DEF Owned, InNoHands, EventPending, ShutdownPoints
<1>9. StartupOrder' /\ ShutdownOrder'
  BY <1>1, <1>2 DEF StartupOrder, ShutdownOrder, Joinable, DeafPoints, ClosedPoints, DisposedPoints,
     StoppedPoints, DisposalPoints
<1> QED BY <1>5, <1>6, <1>7, <1>8, <1>9

\* Main gives up the copy in the map: the session is on the list, or Manager has
\* reset that copy already and Main destroys the session.
LEMMA EraseClosedKeeps ==
  ASSUME IInv, ~ terminated, EraseClosed
  PROVE  Orderly'
<1> USE AllDifferent, ThreadsAre DEF IInv, Orderly
<1> DEFINE s == target[Main]
<1>1. /\ UNCHANGED <<socketDisposal, mapMutex, listMutex, threadEvent, stored, terminated>>
      /\ socketMap' = socketMap \ {s}
  BY DEF EraseClosed, mutexVars, otherVars
<1>2. /\ pc[Main] = "erase" /\ pc'[Main] = "closeNext"
      /\ \A x \in Threads : x # Main => pc'[x] = pc[x]
  BY TypeIsPcType, GotoMoves DEF EraseClosed
<1>3. s \in Sessions /\ s \in socketMap /\ pc[s] = "done"
  BY <1>2 DEF TargetPlaced, TargetsInHand
<1>4. \A x \in Sessions : InDisposal(x)' <=> InDisposal(x)
  BY <1>1, ListKept
<1>5. \/ InDisposal(s) /\ destroyed' = destroyed
      \/ ~ InDisposal(s) /\ destroyed' = destroyed \cup {s}
  BY <1>1 DEF EraseClosed, LastReference, InDisposal
<1>6. /\ target'[Main] = Nobody
      /\ target'[Manager] = target[Manager] /\ target'[Listener] = target[Listener]
  BY DEF EraseClosed, TypeOK
<1>7. target[Manager] # s /\ target[Listener] # s
  BY <1>3 DEF TargetPlaced, TargetsInHand, Nowhere
<1>8. MutexesHeld' /\ TargetsInHand'
  BY <1>1, <1>2, <1>6 DEF MutexesHeld, TargetsInHand
<1>9. ASSUME NEW x \in Sessions PROVE SessionPlaced(x)' /\ TargetPlaced(x)'
  <2>1. SessionPlaced(x)'
    BY <1>1, <1>2, <1>3, <1>4, <1>5, <1>6, <1>7 DEF SessionPlaced, Nowhere, InNoHands
  <2>2. TargetPlaced(x)'
    BY <1>1, <1>2, <1>3, <1>4, <1>6, <1>7 DEF TargetPlaced, Nowhere
  <2> QED BY <2>1, <2>2
<1>10. Owned' /\ Unique' /\ EventPending'
  BY <1>1, <1>2, <1>4, <1>5, <1>6, ListKept DEF Owned, InNoHands, EventPending, ShutdownPoints
<1>11. StartupOrder' /\ ShutdownOrder'
  BY <1>1, <1>2 DEF StartupOrder, ShutdownOrder, Joinable, DeafPoints, ClosedPoints, DisposedPoints,
     StoppedPoints, DisposalPoints
<1> QED BY <1>8, <1>9, <1>10, <1>11

\* Shutdown after the cache is cleared: nothing is left but the management thread.
LEMMA StopManagerKeeps ==
  ASSUME IInv, ~ terminated, StopManager \/ WakeManager \/ JoinManager
  PROVE  Orderly'
<1> USE AllDifferent, ThreadsAre DEF IInv, Orderly
<1>1. UNCHANGED <<socketMap, socketDisposal, target, mapMutex, listMutex, stored, destroyed, terminated>>
  BY DEF StopManager, WakeManager, JoinManager, socketVars, containerVars, mutexVars, otherVars
<1>2. /\ \/ pc[Main] = "stopManager" /\ pc'[Main] = "setEvent"
         \/ pc[Main] = "setEvent" /\ pc'[Main] = "joinManager"
         \/ pc[Main] = "joinManager" /\ pc'[Main] = "down" /\ Joinable(Manager)
      /\ \A x \in Threads : x # Main => pc'[x] = pc[x]
  BY TypeIsPcType, GotoMoves DEF StopManager, WakeManager, JoinManager
<1>3. \A x \in Sessions : InDisposal(x)' <=> InDisposal(x)
  BY <1>1, ListKept
<1>4. MutexesHeld' /\ TargetsInHand'
  BY <1>1, <1>2 DEF MutexesHeld, TargetsInHand
<1>5. ASSUME NEW x \in Sessions PROVE SessionPlaced(x)' /\ TargetPlaced(x)'
  BY <1>1, <1>2, <1>3 DEF SessionPlaced, TargetPlaced, Nowhere, InNoHands
<1>6. Owned' /\ Unique' /\ EventPending'
  BY <1>1, <1>2, <1>3, ListKept DEF Owned, InNoHands, EventPending, ShutdownPoints
<1>7. StartupOrder' /\ ShutdownOrder'
  BY <1>1, <1>2 DEF StartupOrder, ShutdownOrder, Joinable, DeafPoints, ClosedPoints, DisposedPoints,
     StoppedPoints, DisposalPoints
<1> QED BY <1>4, <1>5, <1>6, <1>7
-----------------------------------------------------------------------------
(* The inductive invariant *)

LEMMA StepIInv ==
  ASSUME IInv, Next
  PROVE  IInv'
<1>1. TypeOK'
  BY StepTypeOK
<1>2. ~ terminated
  BY DEF Next
<1>3. ASSUME NEW s \in Sessions, Remote(s) \/ SelectThread(s) PROVE Orderly'
  BY <1>2, <1>3, SelectLoopKeeps, OnSocketClosedKeeps, PushDisposalKeeps, NotifyKeeps,
     EraseSessionKeeps, UnlockMapKeeps DEF SelectThread
<1>4. ASSUME ListenThread PROVE Orderly'
  BY <1>2, <1>4, ListenLoopKeeps, AcceptKeeps, OnAcceptConnKeeps DEF ListenThread
<1>5. ASSUME NEW t \in {Main, Manager}, ProcessClosedSockets(t) PROVE Orderly'
  BY <1>2, <1>5, LockListKeeps, ResetNextKeeps, JoinDestroyedKeeps, UnlockListKeeps DEF ProcessClosedSockets
<1>6. ASSUME ManagementThread PROVE Orderly'
  BY <1>2, <1>5, <1>6, RunKeeps DEF ManagementThread
<1>7. ASSUME MainThread PROVE Orderly'
  BY <1>2, <1>5, <1>7, StartKeeps, ConsoleKeeps, CloseListenKeeps, CloseNextKeeps, JoinSessionKeeps,
     PushClosedKeeps, EraseClosedKeeps, StopManagerKeeps DEF MainThread, Shutdown
<1>8. Orderly'
  BY <1>3, <1>4, <1>6, <1>7 DEF Next
<1> QED BY <1>1, <1>8 DEF IInv

LEMMA StutterIInv ==
  ASSUME IInv, UNCHANGED vars
  PROVE  IInv'
<1>1. TypeOK'
  BY DEF IInv, TypeOK, vars
<1>2. MutexesHeld' /\ TargetsInHand' /\ Owned' /\ Unique'
  BY DEF IInv, Orderly, vars, MutexesHeld, TargetsInHand, Owned, InNoHands, InDisposal, Unique
<1>3. ASSUME NEW s \in Sessions PROVE SessionPlaced(s)' /\ TargetPlaced(s)'
  BY DEF IInv, Orderly, vars, SessionPlaced, TargetPlaced, Nowhere, InNoHands, InDisposal
<1>4. EventPending' /\ StartupOrder' /\ ShutdownOrder'
  BY DEF IInv, Orderly, vars, EventPending, StartupOrder, ShutdownOrder, Joinable
<1> QED BY <1>1, <1>2, <1>3, <1>4 DEF IInv, Orderly

\* The invariant of all the theorems below: at every point of its select thread a
\* session is where the code has put it, and Shutdown has done what it has passed.
THEOREM LifecycleInductive == Spec => []IInv
<1>1. IInv /\ [Next]_vars => IInv'
  BY StepIInv, StutterIInv
<1> QED BY InitIInv, <1>1, PTL DEF Spec
-----------------------------------------------------------------------------
(* The properties *)

\* Every variable of the server keeps its type and every thread stays in its code,
\* for any number of connections.
THEOREM LifecycleTypeCorrect == Spec => []TypeOK
<1>1. IInv => TypeOK
  BY DEF IInv
<1> QED BY <1>1, LifecycleInductive, PTL

\* A socket is never leaked and never used after it is gone: the shared_ptr copies
\* in _socketMap and _socketDisposal, and the threads at work on them, own each
\* session until its destructor is over, which joins the select thread.
THEOREM SocketsOwned == Spec => []OwnedUntilDestroyed
<1>1. IInv => OwnedUntilDestroyed
  BY DEF IInv, Orderly, OwnedUntilDestroyed, Owned, SessionPlaced, Nowhere, InNoHands
<1> QED BY <1>1, LifecycleInductive, PTL

\* The thread that joins a select thread in ProcessClosedSockets, with
\* _sockListMutex held, never waits for one that needs a mutex.
THEOREM DisposalJoinsFreely == Spec => []DisposalJoinNeverBlocks
<1>1. IInv => DisposalJoinNeverBlocks
  BY DEF IInv, Orderly, DisposalJoinNeverBlocks, TargetsInHand, TargetPlaced
<1> QED BY <1>1, LifecycleInductive, PTL

\* OnSocketClosed and CloseAllSockets never both put a session on the list, and
\* neither puts one there that is destroyed.
THEOREM DisposedAtMostOnce == Spec => []DisposedOnce
<1>1. IInv => DisposedOnce
  BY DEF IInv, Orderly, DisposedOnce, TypeOK, Unique, SessionPlaced, Nowhere
<1> QED BY <1>1, LifecycleInductive, PTL

\* TimedWait in MemcacheServer::Run loses no wake-up for an entry of the list.
THEOREM WakeupNotLost == Spec => []WakeupPending
<1>1. IInv => WakeupPending
  BY DEF IInv, Orderly, WakeupPending, EventPending
<1> QED BY <1>1, LifecycleInductive, PTL

\* After ClearDataCache in Shutdown no select thread is left that could store.
THEOREM CacheClearedForGood == Spec => []CacheStaysClear
<1>1. IInv => CacheStaysClear
  <2> SUFFICES ASSUME IInv, pc[Main] \in StoppedPoints
               PROVE  stored = {} /\ \A s \in Sessions : Joinable(s)
    BY DEF CacheStaysClear, StoppedPoints
  <2> QED BY DEF IInv, Orderly, ShutdownOrder, SessionPlaced, Joinable, DisposedPoints
<1> QED BY <1>1, LifecycleInductive, PTL

\* When Shutdown returns the server is empty: no thread runs, no mutex is held,
\* and no socket, list entry or cache entry is left.
THEOREM ShutdownLeavesNothing == Spec => []ShutdownComplete
<1>1. IInv => ShutdownComplete
  <2> SUFFICES ASSUME IInv, pc[Main] = "down"
               PROVE  /\ socketMap = {} /\ socketDisposal = <<>> /\ stored = {}
                      /\ \A s \in Sessions : s \in destroyed \/ pc[s] = "unborn"
                      /\ \A t \in Threads \ {Main} : Joinable(t)
                      /\ mapMutex = Nobody /\ listMutex = Nobody
    BY DEF ShutdownComplete
  <2> USE AllDifferent DEF IInv, Orderly
  <2>1. /\ socketMap = {} /\ socketDisposal = <<>> /\ stored = {}
        /\ \A s \in Sessions : s \in destroyed \/ pc[s] = "unborn"
        /\ Joinable(Listener) /\ Joinable(Manager)
    BY DEF ShutdownOrder, DeafPoints, ClosedPoints, DisposedPoints, StoppedPoints
  <2>2. \A s \in Sessions : Joinable(s)
    BY <2>1 DEF SessionPlaced, Joinable
  <2>3. mapMutex = Nobody /\ listMutex = Nobody
    BY <2>1, <2>2 DEF MutexesHeld, TypeOK, Joinable
  <2> QED BY <2>1, <2>2, <2>3 DEF Threads
<1> QED BY <1>1, LifecycleInductive, PTL
=============================================================================
