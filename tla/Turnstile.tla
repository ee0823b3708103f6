----------------------------- MODULE Turnstile -----------------------------
(***************************************************************************)
(* What ReadWriteLock does guarantee, as a turnstile: one writer at a time *)
(* holds it shut, and readers are admitted only while it is open.  (The    *)
(* header of ReadWriteLock promises more: that a writer waits until every  *)
(* admitted reader has left.  The code does not keep that part: see        *)
(* GetsWhole in CacheAccess.)                                              *)
(***************************************************************************)
CONSTANTS Threads, NoThread

VARIABLES writer,   \* the writer that holds the turnstile shut
          admitted  \* the readers that are through and have not left

vars == <<writer, admitted>>

Init == writer = NoThread /\ admitted = {}

Shut(t) == writer = NoThread /\ writer' = t /\ UNCHANGED admitted

\* The writer opens the turnstile: readers queued at it get through with it.
Open(t) == /\ writer = t
           /\ writer' = NoThread
           /\ \E queued \in SUBSET Threads : admitted' = admitted \cup queued

Admit(t) == writer = NoThread /\ admitted' = admitted \cup {t} /\ UNCHANGED writer

Leave(t) == t \in admitted /\ admitted' = admitted \ {t} /\ UNCHANGED writer

Next == \E t \in Threads : Shut(t) \/ Open(t) \/ Admit(t) \/ Leave(t)

Spec == Init /\ [][Next]_vars
=============================================================================
