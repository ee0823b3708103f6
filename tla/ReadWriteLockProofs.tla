------------------------ MODULE ReadWriteLockProofs ------------------------
(***************************************************************************)
(* Proofs about ReadWriteLock for any finite set of threads and any depth  *)
(* of nested write sections.  IInv is inductive; each invariant of the     *)
(* model is a conjunct of it, and the refinement of Turnstile rests on it. *)
(***************************************************************************)
EXTENDS ReadWriteLock, FiniteSetTheorems, TLAPS

IInv == /\ TypeOK
        /\ ReadCountExact
        /\ NestingBalanced
        /\ GateTracksWriter
        /\ NoLostWakeup

Actions(t) == Reader(t) \/ Writer(t)

\* The event operations map events to events.
LEMMA EventTypes ==
  ASSUME NEW T, NEW e \in EventState(T), NEW t \in T
  PROVE  /\ SetEvent \in EventState(T)
         /\ ResetEvent(e) \in EventState(T)
         /\ Park(e, t) \in EventState(T)
  BY DEF EventState, SetEvent, ResetEvent, Park

\* The counted readers form a finite set, and a member makes the count positive.
LEMMA CountedFinite ==
  ASSUME TypeOK
  PROVE  /\ IsFiniteSet(Counted)
         /\ Cardinality(Counted) \in Nat
         /\ \A t \in Counted : Cardinality(Counted) > 0
<1>1. IsFiniteSet(Counted)
  BY ThreadsAssumption, FS_Subset DEF Counted
<1>2. Cardinality(Counted) \in Nat
  BY <1>1, FS_CardinalityType
<1>3. \A t \in Counted : Cardinality(Counted) # 0
  BY <1>1, FS_EmptySet
<1> QED BY <1>1, <1>2, <1>3

\* Every action moves one thread and leaves the others where they are.
LEMMA OnlySelfMoves ==
  ASSUME TypeOK, NEW t \in Threads, Actions(t)
  PROVE  /\ pc' = [pc EXCEPT ![t] = pc'[t]]
         /\ pc'[t] \in {"idle"} \cup ReadPoints \cup WritePoints
         /\ \A u \in Threads \ {t} : pc'[u] = pc[u]
  BY DEF TypeOK, Actions, Reader, Writer, Goto, ReadPoints, WritePoints,
         LockRead, LeaveGate, CountIn, ResetRead, UnlockRead, SetRead,
         LockWrite, AcquireMutex, CloseGate, CountWrite, Drain, Drained,
         UnlockWrite, OpenGate, ReleaseMutex
-----------------------------------------------------------------------------
LEMMA InitIInv == Init => IInv
<1> SUFFICES ASSUME Init PROVE IInv
  OBVIOUS
<1>1. TypeOK
  BY DepthAssumption DEF Init, TypeOK, NewEvent, EventState
<1>2. ReadCountExact
  <2>1. Counted = {}
    BY DEF Init, Counted
  <2> QED BY <2>1, FS_EmptySet DEF Init, ReadCountExact
<1>3. NestingBalanced
  BY ThreadsAssumption DEF Init, NestingBalanced, Holders, WritePoints
<1>4. GateTracksWriter
  BY DEF Init, GateTracksWriter, NewEvent
<1>5. NoLostWakeup
  BY DEF Init, NoLostWakeup, NewEvent
<1> QED BY <1>1, <1>2, <1>3, <1>4, <1>5 DEF IInv

\* The reader count follows the set of counted readers.
LEMMA StepReadCountExact ==
  ASSUME IInv, NEW t \in Threads, Actions(t)
  PROVE  ReadCountExact'
<1> USE DEF IInv
<1>0. TypeOK
  OBVIOUS
<1>1. \A u \in Threads \ {t} : u \in Counted' <=> u \in Counted
  BY OnlySelfMoves DEF Counted
<1>2. CASE CountIn(t)
  <2>1. Counted' = Counted \cup {t} /\ t \notin Counted
    BY <1>0, <1>1, <1>2 DEF CountIn, Goto, Counted, TypeOK
  <2>2. Cardinality(Counted') = Cardinality(Counted) + 1
    BY <2>1, CountedFinite, FS_AddElement
  <2> QED BY <1>2, <2>2 DEF CountIn, ReadCountExact
<1>3. CASE UnlockRead(t)
  <2>1. Counted' = Counted \ {t} /\ t \in Counted
    BY <1>0, <1>1, <1>3 DEF UnlockRead, Goto, Counted, TypeOK
  <2>2. Cardinality(Counted') = Cardinality(Counted) - 1
    BY <2>1, CountedFinite, FS_RemoveElement
  <2> QED BY <1>3, <2>2 DEF UnlockRead, ReadCountExact
<1>4. CASE ~ CountIn(t) /\ ~ UnlockRead(t)
  <2>1. t \in Counted' <=> t \in Counted
    BY <1>0, <1>4 DEF Actions, Reader, Writer, Counted, Goto, TypeOK,
          LockRead, LeaveGate, ResetRead, SetRead, LockWrite, AcquireMutex,
          CloseGate, CountWrite, Drain, Drained, UnlockWrite, OpenGate, ReleaseMutex
  <2>2. Counted' = Counted
    BY <1>1, <2>1 DEF Counted
  <2>3. readCount' = readCount
    BY <1>4 DEF Actions, Reader, Writer,
          LockRead, LeaveGate, ResetRead, SetRead, LockWrite, AcquireMutex,
          CloseGate, CountWrite, Drain, Drained, UnlockWrite, OpenGate, ReleaseMutex
  <2> QED BY <2>2, <2>3 DEF ReadCountExact
<1> QED BY <1>2, <1>3, <1>4

\* A counter that is about to be decremented is positive.
LEMMA CountersPositive ==
  ASSUME IInv, NEW t \in Threads
  PROVE  /\ pc[t] \in {"resetRead", "reading"} => readCount > 0
         /\ pc[t] = "writing" => writeCount > 0
         /\ pc[t] \in WritePoints \ {"wantWrite"} => owner = t /\ depth > 0
<1>1. pc[t] \in {"resetRead", "reading"} => readCount > 0
  BY CountedFinite DEF IInv, ReadCountExact, Counted
<1>2. pc[t] \in WritePoints \ {"wantWrite"} => t \in Holders
  BY DEF Holders
<1>3. pc[t] = "writing" => writeCount > 0
  BY <1>2 DEF IInv, TypeOK, NestingBalanced, WritePoints
<1> QED BY <1>1, <1>2, <1>3 DEF IInv, NestingBalanced

LEMMA StepTypeOK ==
  ASSUME IInv, NEW t \in Threads, Actions(t)
  PROVE  TypeOK'
<1>1. pc' \in [Threads -> {"idle"} \cup ReadPoints \cup WritePoints]
  BY OnlySelfMoves DEF IInv, TypeOK
<1>2. readCount' \in Nat
  <2>1. UnlockRead(t) => readCount > 0
    BY CountersPositive DEF UnlockRead, Goto
  <2> QED BY <2>1 DEF IInv, TypeOK, Actions, Reader, Writer,
        LockRead, LeaveGate, CountIn, ResetRead, UnlockRead, SetRead,
        LockWrite, AcquireMutex, CloseGate, CountWrite, Drain, Drained,
        UnlockWrite, OpenGate, ReleaseMutex
<1>3. writeCount' \in Nat
  <2>1. UnlockWrite(t) => writeCount > 0
    BY CountersPositive DEF UnlockWrite, Goto
  <2> QED BY <2>1 DEF IInv, TypeOK, Actions, Reader, Writer,
        LockRead, LeaveGate, CountIn, ResetRead, UnlockRead, SetRead,
        LockWrite, AcquireMutex, CloseGate, CountWrite, Drain, Drained,
        UnlockWrite, OpenGate, ReleaseMutex
<1>4. owner' \in Threads \cup {NoThread} /\ depth' \in 0 .. MaxDepth
  <2>1. ReleaseMutex(t) => depth > 0
    BY CountersPositive DEF ReleaseMutex, Goto, WritePoints
  <2>2. AcquireMutex(t) => depth < MaxDepth
    BY DepthAssumption DEF AcquireMutex, IInv, NestingBalanced
  <2> QED BY <2>1, <2>2, DepthAssumption DEF IInv, TypeOK, Actions, Reader, Writer,
        LockRead, LeaveGate, CountIn, ResetRead, UnlockRead, SetRead,
        LockWrite, AcquireMutex, CloseGate, CountWrite, Drain, Drained,
        UnlockWrite, OpenGate, ReleaseMutex
<1>5. readEvent' \in EventState(Threads) /\ writeEvent' \in EventState(Threads)
  BY EventTypes DEF IInv, TypeOK, Actions, Reader, Writer,
        LockRead, LeaveGate, CountIn, ResetRead, UnlockRead, SetRead,
        LockWrite, AcquireMutex, CloseGate, CountWrite, Drain, Drained,
        UnlockWrite, OpenGate, ReleaseMutex
<1> QED BY <1>1, <1>2, <1>3, <1>4, <1>5 DEF TypeOK

\* The mutex and the two counters of nested write sections stay in step.
LEMMA StepNestingBalanced ==
  ASSUME IInv, NEW t \in Threads, Actions(t)
  PROVE  NestingBalanced'
<1> USE DEF IInv
<1>0. /\ TypeOK
      /\ NestingBalanced
      /\ pc' = [pc EXCEPT ![t] = pc'[t]]
  BY OnlySelfMoves
<1>1. CASE Reader(t)
  BY <1>0, <1>1 DEF TypeOK, NestingBalanced, Holders, WritePoints, Reader, Goto,
        LockRead, LeaveGate, CountIn, ResetRead, UnlockRead, SetRead
<1>2. CASE LockWrite(t) \/ CloseGate(t) \/ Drain(t) \/ Drained(t)
  BY <1>0, <1>2 DEF TypeOK, NestingBalanced, Holders, WritePoints, Goto,
        LockWrite, CloseGate, Drain, Drained
<1>3. CASE AcquireMutex(t)
  BY <1>0, <1>3, ThreadsAssumption DEF TypeOK, NestingBalanced, Holders, WritePoints, Goto, AcquireMutex
<1>4. CASE CountWrite(t)
  BY <1>0, <1>4 DEF TypeOK, NestingBalanced, Holders, WritePoints, Goto, CountWrite
<1>5. CASE UnlockWrite(t)
  BY <1>0, <1>5 DEF TypeOK, NestingBalanced, Holders, WritePoints, Goto, UnlockWrite
<1>6. CASE OpenGate(t)
  BY <1>0, <1>6 DEF TypeOK, NestingBalanced, Holders, WritePoints, Goto, OpenGate
<1>7. CASE ReleaseMutex(t)
  BY <1>0, <1>7 DEF TypeOK, NestingBalanced, Holders, WritePoints, Goto, ReleaseMutex
<1> QED BY <1>1, <1>2, <1>3, <1>4, <1>5, <1>6, <1>7 DEF Actions, Writer

\* The gate is closed by the outermost LockWrite and opened by its UnlockWrite.
LEMMA StepGateTracksWriter ==
  ASSUME IInv, NEW t \in Threads, Actions(t)
  PROVE  GateTracksWriter'
<1> USE DEF IInv
<1>0. /\ TypeOK
      /\ NestingBalanced
      /\ GateTracksWriter
      /\ pc' = [pc EXCEPT ![t] = pc'[t]]
  BY OnlySelfMoves
<1>1. CASE Reader(t)
  BY <1>0, <1>1 DEF TypeOK, GateTracksWriter, Park, Reader, Goto, ReadPoints,
        LockRead, LeaveGate, CountIn, ResetRead, UnlockRead, SetRead
<1>2. CASE LockWrite(t) \/ AcquireMutex(t) \/ Drain(t) \/ Drained(t) \/ ReleaseMutex(t)
  BY <1>0, <1>2 DEF TypeOK, GateTracksWriter, Goto,
        LockWrite, AcquireMutex, Drain, Drained, ReleaseMutex
<1>3. CASE CloseGate(t)
  BY <1>0, <1>3 DEF TypeOK, GateTracksWriter, Goto, CloseGate, ResetEvent
<1>4. CASE CountWrite(t)
  BY <1>0, <1>4 DEF TypeOK, GateTracksWriter, Goto, CountWrite
<1>5. CASE UnlockWrite(t)
  <2>1. writeCount > 0
    BY <1>5, CountersPositive DEF UnlockWrite, Goto
  <2> QED BY <1>0, <1>5, <2>1 DEF TypeOK, GateTracksWriter, Goto, UnlockWrite
<1>6. CASE OpenGate(t)
  BY <1>0, <1>6 DEF TypeOK, GateTracksWriter, NestingBalanced, Holders, WritePoints,
        Goto, OpenGate, SetEvent
<1> QED BY <1>1, <1>2, <1>3, <1>4, <1>5, <1>6 DEF Actions, Writer

\* The last reader out is always about to raise _readEvent, and only sleeping
\* threads are parked.
LEMMA StepNoLostWakeup ==
  ASSUME IInv, NEW t \in Threads, Actions(t)
  PROVE  NoLostWakeup'
<1> USE DEF IInv
<1>0. /\ TypeOK
      /\ NoLostWakeup
      /\ pc' = [pc EXCEPT ![t] = pc'[t]]
  BY OnlySelfMoves
<1>1. CASE LockRead(t)
  BY <1>0, <1>1 DEF TypeOK, NoLostWakeup, Goto, LockRead, Park
<1>2. CASE LeaveGate(t)
  BY <1>0, <1>2 DEF TypeOK, NoLostWakeup, Goto, LeaveGate, Released
<1>3. CASE CountIn(t)
  BY <1>0, <1>3 DEF TypeOK, NoLostWakeup, Goto, CountIn
<1>4. CASE ResetRead(t)
  <2>1. readCount > 0
    BY <1>4, CountersPositive DEF ResetRead, Goto
  <2> QED BY <1>0, <1>4, <2>1 DEF TypeOK, NoLostWakeup, Goto, ResetRead, ResetEvent
<1>5. CASE UnlockRead(t)
  <2>1. readCount > 0
    BY <1>5, CountersPositive DEF UnlockRead, Goto
  <2> QED BY <1>0, <1>5, <2>1 DEF TypeOK, NoLostWakeup, Goto, UnlockRead
<1>6. CASE SetRead(t)
  BY <1>0, <1>6 DEF TypeOK, NoLostWakeup, Goto, SetRead, SetEvent
<1>7. CASE Drain(t)
  BY <1>0, <1>7 DEF TypeOK, NoLostWakeup, Goto, Drain, Park
<1>8. CASE Drained(t)
  BY <1>0, <1>8 DEF TypeOK, NoLostWakeup, Goto, Drained, Released
<1>9. CASE OpenGate(t)
  BY <1>0, <1>9 DEF TypeOK, NoLostWakeup, Goto, OpenGate, SetEvent
<1>10. CASE CloseGate(t)
  BY <1>0, <1>10 DEF TypeOK, NoLostWakeup, Goto, CloseGate, ResetEvent
<1>11. CASE LockWrite(t) \/ AcquireMutex(t) \/ CountWrite(t) \/ UnlockWrite(t) \/ ReleaseMutex(t)
  BY <1>0, <1>11 DEF TypeOK, NoLostWakeup, Goto,
        LockWrite, AcquireMutex, CountWrite, UnlockWrite, ReleaseMutex
<1> QED BY <1>1, <1>2, <1>3, <1>4, <1>5, <1>6, <1>7, <1>8, <1>9, <1>10, <1>11
        DEF Actions, Reader, Writer

LEMMA StutterIInv ==
  ASSUME IInv, UNCHANGED vars
  PROVE  IInv'
<1>1. Counted' = Counted /\ Holders' = Holders
  BY DEF Counted, Holders, vars
<1> QED BY <1>1 DEF IInv, TypeOK, ReadCountExact, NestingBalanced, GateTracksWriter,
           NoLostWakeup, vars

\* The inductive invariant holds in every reachable state.
THEOREM Inductive == Spec => []IInv
<1>1. IInv /\ [Next]_vars => IInv'
  <2> SUFFICES ASSUME IInv, [Next]_vars PROVE IInv'
    OBVIOUS
  <2>1. ASSUME NEW t \in Threads, Actions(t) PROVE IInv'
    BY <2>1, StepTypeOK, StepReadCountExact, StepNestingBalanced,
       StepGateTracksWriter, StepNoLostWakeup DEF IInv
  <2>2. CASE UNCHANGED vars
    BY <2>2, StutterIInv
  <2> QED BY <2>1, <2>2 DEF Next, Actions
<1> QED BY InitIInv, <1>1, PTL DEF Spec

\* Every variable keeps its type; in particular neither counter of the lock
\* ever wraps below zero.
THEOREM TypeCorrect == Spec => []TypeOK
<1>1. IInv => TypeOK
  BY DEF IInv
<1> QED BY Inductive, <1>1, PTL

\* _readCount is exactly the number of readers inside.
THEOREM ReadersCounted == Spec => []ReadCountExact
<1>1. IInv => ReadCountExact
  BY DEF IInv
<1> QED BY Inductive, <1>1, PTL

\* At most one thread is in a write section, at the nesting depth the counters
\* say.
THEOREM WritersAlone == Spec => []NestingBalanced
<1>1. IInv => NestingBalanced
  BY DEF IInv
<1> QED BY Inductive, <1>1, PTL

\* The gate is closed exactly while a writer keeps it closed.
THEOREM GateCorrect == Spec => []GateTracksWriter
<1>1. IInv => GateTracksWriter
  BY DEF IInv
<1> QED BY Inductive, <1>1, PTL

\* No wake-up is lost: whoever sleeps has somebody who will wake it.
THEOREM WakeupsKept == Spec => []NoLostWakeup
<1>1. IInv => NoLostWakeup
  BY DEF IInv
<1> QED BY Inductive, <1>1, PTL
-----------------------------------------------------------------------------
(* The lock implements the turnstile *)

\* The writer of the turnstile that the lock implements.
Shutter == IF writeEvent.signaled THEN NoThread ELSE owner

LEMMA InitRefines == Init => TurnstileImpl!Init
BY DEF Init, TurnstileImpl!Init, NewEvent, Admitted, Released

\* With no writer in a write section the gate is open.
LEMMA NoHolderGateOpen ==
  ASSUME IInv
  PROVE  owner = NoThread => writeEvent.signaled
<1> SUFFICES ASSUME owner = NoThread PROVE writeEvent.signaled
  OBVIOUS
<1>1. writeCount = 0 /\ Holders = {}
  BY DEF IInv, NestingBalanced
<1>2. ~ \E t \in Threads : pc[t] \in {"countWrite", "openGate"}
  BY <1>1 DEF Holders, WritePoints
<1> QED BY <1>1, <1>2 DEF IInv, GateTracksWriter

LEMMA ReaderStepRefines ==
  ASSUME IInv, NEW t \in Threads, Reader(t)
  PROVE  [TurnstileImpl!Next]_(TurnstileImpl!vars)
<1>0. /\ TypeOK
      /\ pc' = [pc EXCEPT ![t] = pc'[t]]
  BY OnlySelfMoves DEF IInv, Actions
<1>1. CASE LockRead(t) /\ writeEvent.signaled
  <2>1. Admitted' = Admitted \cup {t}
    BY <1>0, <1>1 DEF LockRead, Goto, Admitted, Released, TypeOK
  <2>2. TurnstileImpl!Admit(t)
    BY <1>1, <2>1 DEF LockRead, TurnstileImpl!Admit
  <2> QED BY <2>2 DEF TurnstileImpl!Next
<1>2. CASE LockRead(t) /\ ~ writeEvent.signaled
  <2>1. Admitted' = Admitted
    BY <1>0, <1>2 DEF LockRead, Goto, Admitted, Released, Park, TypeOK
  <2> QED BY <1>2, <2>1 DEF LockRead, Park, TurnstileImpl!vars
<1>3. CASE LeaveGate(t) \/ CountIn(t) \/ ResetRead(t) \/ SetRead(t)
  <2>1. Admitted' = Admitted
    BY <1>0, <1>3 DEF LeaveGate, CountIn, ResetRead, SetRead, Goto, Admitted, Released, TypeOK
  <2> QED BY <1>3, <2>1 DEF LeaveGate, CountIn, ResetRead, SetRead, TurnstileImpl!vars
<1>4. CASE UnlockRead(t)
  <2>1. t \in Admitted /\ Admitted' = Admitted \ {t}
    BY <1>0, <1>4 DEF UnlockRead, Goto, Admitted, Released, TypeOK
  <2>2. TurnstileImpl!Leave(t)
    BY <1>4, <2>1 DEF UnlockRead, TurnstileImpl!Leave
  <2> QED BY <2>2 DEF TurnstileImpl!Next
<1> QED BY <1>1, <1>2, <1>3, <1>4 DEF Reader

LEMMA WriterStepRefines ==
  ASSUME IInv, NEW t \in Threads, Writer(t)
  PROVE  [TurnstileImpl!Next]_(TurnstileImpl!vars)
<1>0. /\ TypeOK
      /\ pc' = [pc EXCEPT ![t] = pc'[t]]
  BY OnlySelfMoves DEF IInv, Actions
<1>1. pc[t] \in WritePoints \ {"wantWrite"} => owner = t
  BY CountersPositive
<1>2. CASE LockWrite(t) \/ CountWrite(t) \/ Drain(t) \/ Drained(t) \/ UnlockWrite(t)
  <2>1. Admitted' = Admitted
    BY <1>0, <1>2 DEF LockWrite, CountWrite, Drain, Drained, UnlockWrite, Goto, Admitted,
          Released, TypeOK
  <2> QED BY <1>2, <2>1 DEF LockWrite, CountWrite, Drain, Drained, UnlockWrite,
          TurnstileImpl!vars
<1>3. CASE AcquireMutex(t)
  <2>1. Admitted' = Admitted
    BY <1>0, <1>3 DEF AcquireMutex, Goto, Admitted, Released, TypeOK
  <2>2. Shutter' = Shutter
    BY <1>3, NoHolderGateOpen DEF AcquireMutex, Shutter
  <2> QED BY <2>1, <2>2 DEF Shutter, TurnstileImpl!vars
<1>4. CASE CloseGate(t)
  <2>1. Admitted' = Admitted
    BY <1>0, <1>4 DEF CloseGate, Goto, Admitted, Released, ResetEvent, TypeOK
  <2>2. owner = t /\ owner' = t /\ Shutter' = t
    BY <1>1, <1>4 DEF CloseGate, Goto, WritePoints, ResetEvent, Shutter
  <2>3. CASE writeEvent.signaled
    BY <2>1, <2>2, <2>3 DEF Shutter, TurnstileImpl!Shut, TurnstileImpl!Next
  <2>4. CASE ~ writeEvent.signaled
    BY <2>1, <2>2, <2>4 DEF Shutter, TurnstileImpl!vars
  <2> QED BY <2>3, <2>4
<1>5. CASE OpenGate(t)
  <2>1. Shutter = t /\ Shutter' = NoThread
    BY <1>0, <1>1, <1>5 DEF OpenGate, Goto, WritePoints, SetEvent, Shutter, IInv, GateTracksWriter
  <2>2. Admitted' = Admitted \cup writeEvent.waiters
    BY <1>0, <1>5 DEF OpenGate, Goto, SetEvent, Admitted, Released, IInv, NoLostWakeup, TypeOK
  <2>3. writeEvent.waiters \in SUBSET Threads
    BY <1>0 DEF TypeOK, EventState
  <2>4. TurnstileImpl!Open(t)
    BY <2>1, <2>2, <2>3 DEF Shutter, TurnstileImpl!Open
  <2> QED BY <2>4 DEF TurnstileImpl!Next
<1>6. CASE ReleaseMutex(t)
  <2>1. Admitted' = Admitted
    BY <1>0, <1>6 DEF ReleaseMutex, Goto, Admitted, Released, TypeOK
  <2>2. depth = 1 => writeEvent.signaled
    <3> SUFFICES ASSUME depth = 1 PROVE writeEvent.signaled
      OBVIOUS
    <3>1. t \in Holders /\ Holders = {t}
      BY <1>1, <1>6 DEF ReleaseMutex, Goto, Holders, WritePoints, IInv, NestingBalanced
    <3>2. writeCount = 0
      BY <1>0, <1>6, <3>1 DEF ReleaseMutex, Goto, IInv, NestingBalanced, TypeOK
    <3>3. \A u \in Threads : pc[u] \notin {"countWrite", "openGate"}
      BY <1>6, <3>1 DEF ReleaseMutex, Goto, Holders, WritePoints
    <3> QED BY <3>2, <3>3 DEF IInv, GateTracksWriter
  <2>3. Shutter' = Shutter
    BY <1>6, <2>2 DEF ReleaseMutex, Shutter
  <2> QED BY <2>1, <2>3 DEF Shutter, TurnstileImpl!vars
<1> QED BY <1>2, <1>3, <1>4, <1>5, <1>6 DEF Writer

\* Writers take turns at the gate and no reader passes it while it is closed,
\* for any number of threads.
THEOREM Refinement == Spec => ImplementsTurnstile
<1>1. IInv /\ [Next]_vars => [TurnstileImpl!Next]_(TurnstileImpl!vars)
  <2> SUFFICES ASSUME IInv, [Next]_vars
               PROVE  [TurnstileImpl!Next]_(TurnstileImpl!vars)
    OBVIOUS
  <2>1. ASSUME NEW t \in Threads, Reader(t) \/ Writer(t)
        PROVE  [TurnstileImpl!Next]_(TurnstileImpl!vars)
    BY <2>1, ReaderStepRefines, WriterStepRefines
  <2>2. CASE UNCHANGED vars
    BY <2>2 DEF vars, TurnstileImpl!vars, Admitted, Released
  <2> QED BY <2>1, <2>2 DEF Next
<1> QED BY InitRefines, Inductive, <1>1, PTL DEF Spec, ImplementsTurnstile, TurnstileImpl!Spec
=============================================================================
