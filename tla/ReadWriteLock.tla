--------------------------- MODULE ReadWriteLock ---------------------------
(***************************************************************************)
(* Class ReadWriteLock (ReadWriteLock.cpp), at the grain of its accesses   *)
(* to shared state: one action for each atomic operation on the reader     *)
(* count, each call on an event and each call on the writers' mutex.       *)
(*                                                                         *)
(* Every thread may take the lock as a reader or as a writer.  A writer    *)
(* may lock again while it holds the lock (the mutex is recursive and      *)
(* _writeCount counts the nesting), at most MaxDepth deep.                 *)
(***************************************************************************)
EXTENDS Naturals, FiniteSets, Event

CONSTANTS Threads,   \* the threads that share the lock
          NoThread,  \* the owner of a mutex nobody holds
          MaxDepth   \* bound: how deep a writer nests LockWrite

ASSUME ThreadsAssumption == IsFiniteSet(Threads) /\ NoThread \notin Threads
ASSUME DepthAssumption   == MaxDepth \in Nat \ {0}

VARIABLES
  pc,          \* where each thread is in the four operations
  readCount,   \* _readCount
  writeCount,  \* _writeCount
  owner,       \* the thread that holds _writeMutex
  depth,       \* how many times it holds it
  readEvent,   \* _readEvent: signaled when all readers are done
  writeEvent   \* _writeEvent: not signaled while a writer keeps readers out

vars == <<pc, readCount, writeCount, owner, depth, readEvent, writeEvent>>

(***************************************************************************)
(* Control points.  Each names the next thing the thread does, except      *)
(* "gate" and "parked" (asleep in a wait) and the three resting points     *)
(* "idle", "reading" and "writing".                                        *)
(***************************************************************************)
ReadPoints  == {"gate", "countIn", "resetRead", "reading", "setRead"}
WritePoints == {"wantWrite", "closeGate", "countWrite", "drain", "parked",
                "writing", "openGate", "unlockWrite"}

\* Threads that _readCount counts.
Counted == {t \in Threads : pc[t] \in {"resetRead", "reading"}}

\* Threads whose wait on _writeEvent is over and that are not done reading.
Admitted == {t \in Threads :
               \/ pc[t] \in {"countIn", "resetRead", "reading"}
               \/ pc[t] = "gate" /\ Released(writeEvent, t)}

\* Threads that have the writers' mutex.
Holders == {t \in Threads : pc[t] \in WritePoints \ {"wantWrite"}}

Goto(t, from, to) == pc[t] = from /\ pc' = [pc EXCEPT ![t] = to]

Init ==
  /\ pc = [t \in Threads |-> "idle"]
  /\ readCount = 0
  /\ writeCount = 0
  /\ owner = NoThread
  /\ depth = 0
  /\ readEvent = NewEvent(TRUE)
  /\ writeEvent = NewEvent(TRUE)
-----------------------------------------------------------------------------
(* LockRead *)

\* _writeEvent.Wait() returns at once, or parks the thread.
LockRead(t) ==
  /\ \/ /\ writeEvent.signaled
        /\ Goto(t, "idle", "countIn")
        /\ UNCHANGED writeEvent
     \/ /\ ~ writeEvent.signaled
        /\ Goto(t, "idle", "gate")
        /\ writeEvent' = Park(writeEvent, t)
  /\ UNCHANGED <<readCount, writeCount, owner, depth, readEvent>>

\* Mistake: a reader that had to wait is not counted.
LeaveGateUncounted(t) ==
  /\ Goto(t, "gate", "reading")
  /\ Released(writeEvent, t)
  /\ UNCHANGED <<readCount, writeCount, owner, depth, readEvent, writeEvent>>

\* The parked reader wakes up.
LeaveGate(t) ==
  /\ Goto(t, "gate", "countIn")
  /\ Released(writeEvent, t)
  /\ UNCHANGED <<readCount, writeCount, owner, depth, readEvent, writeEvent>>

\* _readCount++: the first reader goes on to reset _readEvent.
CountIn(t) ==
  /\ Goto(t, "countIn", IF readCount = 0 THEN "resetRead" ELSE "reading")
  /\ readCount' = readCount + 1
  /\ UNCHANGED <<writeCount, owner, depth, readEvent, writeEvent>>

ResetRead(t) ==
  /\ Goto(t, "resetRead", "reading")
  /\ readEvent' = ResetEvent(readEvent)
  /\ UNCHANGED <<readCount, writeCount, owner, depth, writeEvent>>
-----------------------------------------------------------------------------
(* UnlockRead *)

\* Mistake: _readCount-- == 0, a test of the old value.
UnlockReadOldValue(t) ==
  /\ Goto(t, "reading", IF readCount = 0 THEN "setRead" ELSE "idle")
  /\ readCount' = readCount - 1
  /\ UNCHANGED <<writeCount, owner, depth, readEvent, writeEvent>>

\* --_readCount: the last reader goes on to set _readEvent.
UnlockRead(t) ==
  /\ Goto(t, "reading", IF readCount = 1 THEN "setRead" ELSE "idle")
  /\ readCount' = readCount - 1
  /\ UNCHANGED <<writeCount, owner, depth, readEvent, writeEvent>>

SetRead(t) ==
  /\ Goto(t, "setRead", "idle")
  /\ readEvent' = SetEvent
  /\ UNCHANGED <<readCount, writeCount, owner, depth, writeEvent>>
-----------------------------------------------------------------------------
(* LockWrite *)

\* The call: from here on the thread waits for the mutex.
LockWrite(t) ==
  /\ Goto(t, "idle", "wantWrite")
  /\ UNCHANGED <<readCount, writeCount, owner, depth, readEvent, writeEvent>>

\* Mistake: LockWrite does not wait for the mutex.
AcquireAtOnce(t) ==
  /\ Goto(t, "wantWrite", "closeGate")
  /\ owner' = t
  /\ depth' = depth + 1
  /\ UNCHANGED <<readCount, writeCount, readEvent, writeEvent>>

\* _writeMutex.Lock(), by a thread without it or by its owner.
AcquireMutex(t) ==
  /\ \/ Goto(t, "wantWrite", "closeGate") /\ owner = NoThread
     \/ Goto(t, "writing", "closeGate") /\ owner = t /\ depth < MaxDepth
  /\ owner' = t
  /\ depth' = depth + 1
  /\ UNCHANGED <<readCount, writeCount, readEvent, writeEvent>>

CloseGate(t) ==
  /\ Goto(t, "closeGate", "countWrite")
  /\ writeEvent' = ResetEvent(writeEvent)
  /\ UNCHANGED <<readCount, writeCount, owner, depth, readEvent>>

\* Mistake: a flag instead of a counter.
CountWriteFlag(t) ==
  /\ Goto(t, "countWrite", IF writeCount = 0 THEN "drain" ELSE "writing")
  /\ writeCount' = 1
  /\ UNCHANGED <<readCount, owner, depth, readEvent, writeEvent>>

\* _writeCount++: only the outermost LockWrite waits for the readers.
CountWrite(t) ==
  /\ Goto(t, "countWrite", IF writeCount = 0 THEN "drain" ELSE "writing")
  /\ writeCount' = writeCount + 1
  /\ UNCHANGED <<readCount, owner, depth, readEvent, writeEvent>>

\* _readEvent.Wait() returns at once, or parks the thread.
Drain(t) ==
  /\ \/ /\ readEvent.signaled
        /\ Goto(t, "drain", "writing")
        /\ UNCHANGED readEvent
     \/ /\ ~ readEvent.signaled
        /\ Goto(t, "drain", "parked")
        /\ readEvent' = Park(readEvent, t)
  /\ UNCHANGED <<readCount, writeCount, owner, depth, writeEvent>>

\* The parked writer wakes up.
Drained(t) ==
  /\ Goto(t, "parked", "writing")
  /\ Released(readEvent, t)
  /\ UNCHANGED <<readCount, writeCount, owner, depth, readEvent, writeEvent>>
-----------------------------------------------------------------------------
(* UnlockWrite *)

\* Mistake: an inner UnlockWrite opens the gate too.
UnlockWriteInner(t) ==
  /\ Goto(t, "writing", "openGate")
  /\ writeCount' = writeCount - 1
  /\ UNCHANGED <<readCount, owner, depth, readEvent, writeEvent>>

\* Mistake: _writeCount-- == 0, so that nobody opens the gate.
UnlockWriteOldValue(t) ==
  /\ Goto(t, "writing", IF writeCount = 0 THEN "openGate" ELSE "unlockWrite")
  /\ writeCount' = writeCount - 1
  /\ UNCHANGED <<readCount, owner, depth, readEvent, writeEvent>>

\* --_writeCount: only the outermost UnlockWrite opens the gate.
UnlockWrite(t) ==
  /\ Goto(t, "writing", IF writeCount = 1 THEN "openGate" ELSE "unlockWrite")
  /\ writeCount' = writeCount - 1
  /\ UNCHANGED <<readCount, owner, depth, readEvent, writeEvent>>

OpenGate(t) ==
  /\ Goto(t, "openGate", "unlockWrite")
  /\ writeEvent' = SetEvent
  /\ UNCHANGED <<readCount, writeCount, owner, depth, readEvent>>

\* _writeMutex.Unlock(): an inner unlock returns to the outer section.
ReleaseMutex(t) ==
  /\ Goto(t, "unlockWrite", IF depth = 1 THEN "idle" ELSE "writing")
  /\ owner' = IF depth = 1 THEN NoThread ELSE owner
  /\ depth' = depth - 1
  /\ UNCHANGED <<readCount, writeCount, readEvent, writeEvent>>
-----------------------------------------------------------------------------
Reader(t) == LockRead(t) \/ LeaveGate(t) \/ CountIn(t) \/ ResetRead(t)
             \/ UnlockRead(t) \/ SetRead(t)

Writer(t) == LockWrite(t) \/ AcquireMutex(t) \/ CloseGate(t) \/ CountWrite(t)
             \/ Drain(t) \/ Drained(t)
             \/ UnlockWrite(t) \/ OpenGate(t) \/ ReleaseMutex(t)

Next == \E t \in Threads : Reader(t) \/ Writer(t)

Spec == Init /\ [][Next]_vars
-----------------------------------------------------------------------------
(* Properties *)

\* Every variable holds a value of its type.
TypeOK ==
  /\ pc \in [Threads -> {"idle"} \cup ReadPoints \cup WritePoints]
  /\ readCount \in Nat
  /\ writeCount \in Nat
  /\ owner \in Threads \cup {NoThread}
  /\ depth \in 0 .. MaxDepth
  /\ readEvent \in EventState(Threads)
  /\ writeEvent \in EventState(Threads)

\* _readCount is the number of readers between their increment and their
\* decrement, so --_readCount never wraps below zero.
ReadCountExact == readCount = Cardinality(Counted)

\* The thread that owns _writeMutex is the only one in a write section, and
\* _writeCount is its nesting: one less than the mutex depth while a LockWrite
\* has not counted yet or an UnlockWrite has counted already.
NestingBalanced ==
  /\ Holders = {owner} \ {NoThread}
  /\ owner = NoThread => depth = 0 /\ writeCount = 0
  /\ \A t \in Holders :
       /\ depth > 0
       /\ depth = writeCount + IF pc[t] \in {"closeGate", "countWrite",
                                             "openGate", "unlockWrite"}
                               THEN 1 ELSE 0
       /\ pc[t] \in {"drain", "parked", "openGate"} => depth = 1

\* Readers are kept out exactly while a writer that has closed the gate has not
\* opened it again: an inner UnlockWrite does not let them in.
GateTracksWriter ==
  ~ writeEvent.signaled <=>
      \/ writeCount > 0
      \/ \E t \in Threads : pc[t] \in {"countWrite", "openGate"}

\* No thread sleeps with nobody left to wake it: while _readEvent is down (a
\* writer may sleep on it) a reader is still counted or is about to set it, and
\* a reader sleeps at the gate only while a writer keeps the gate closed.
NoLostWakeup ==
  /\ ~ readEvent.signaled => readCount > 0 \/ \E t \in Threads : pc[t] = "setRead"
  /\ readEvent.waiters \subseteq {t \in Threads : pc[t] = "parked"}
  /\ writeEvent.waiters \subseteq {t \in Threads : pc[t] = "gate"}
  /\ readEvent.waiters # {} => ~ readEvent.signaled
  /\ writeEvent.waiters # {} => ~ writeEvent.signaled

\* The lock implements the turnstile: writers take turns, and no reader gets
\* past _writeEvent.Wait() while a writer holds the gate closed.
TurnstileImpl == INSTANCE Turnstile WITH
                   writer   <- IF writeEvent.signaled THEN NoThread ELSE owner,
                   admitted <- Admitted
ImplementsTurnstile == TurnstileImpl!Spec

\* A reader that found the gate closed gets to read: the opening of the gate
\* releases it even if the next writer closes the gate at once.
ReaderGetsIn == \A t \in Threads : pc[t] = "gate" ~> pc[t] = "reading"

\* A writer that has _writeMutex gets to write: readers that arrive later
\* cannot starve it, and the last one inside wakes it.
WriterGetsIn == \A t \in Threads : pc[t] = "closeGate" ~> pc[t] = "writing"

\* Whenever somebody wants to write, somebody writes.
WritersMove == (\E t \in Threads : pc[t] = "wantWrite")
                 ~> (\E t \in Threads : pc[t] = "writing")
=============================================================================
