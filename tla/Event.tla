------------------------------- MODULE Event -------------------------------
(***************************************************************************)
(* Class Event (Event.h, Event.cpp): a Win32 event object.  The state of a *)
(* manual-reset event is its signal and the set of threads that the kernel *)
(* has parked on it.  SetEvent satisfies every pending wait at once, so a  *)
(* parked thread that has been released gets through even if the event is  *)
(* reset before the thread is scheduled.                                   *)
(***************************************************************************)

\* The states of an event on which threads of the set T may wait.
EventState(T) == [signaled : BOOLEAN, waiters : SUBSET T]

\* Event::Event(manualReset = true, initialState).
NewEvent(initialState) == [signaled |-> initialState, waiters |-> {}]

\* The event after Event::Set, whatever it was before.
SetEvent == [signaled |-> TRUE, waiters |-> {}]

\* Event::Reset.
ResetEvent(e) == [signaled |-> FALSE, waiters |-> e.waiters]

\* Event::Wait by thread t on an event that is not signaled.
Park(e, t) == [signaled |-> e.signaled, waiters |-> e.waiters \cup {t}]

\* The pending wait of thread t has been satisfied.
Released(e, t) == t \notin e.waiters
=============================================================================
