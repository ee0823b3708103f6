---------------------------- MODULE CacheAccess ----------------------------
(***************************************************************************)
(* The cache of MemcacheServer as its threads share it: OnReceivedMessage  *)
(* for Get and Set, ClearDataCache and PrintDataCache, each in a section   *)
(* of _dataMapLock.  Get and Set touch an entry twice, its flags and its   *)
(* buffer, in a step each.  What they make of a request and of its reply   *)
(* is in RequestHandler.                                                   *)
(*                                                                         *)
(* A thread in a write section may take the lock again before it does      *)
(* anything else, which the lock allows and no handler does.               *)
(***************************************************************************)
EXTENDS ReadWriteLock

CONSTANTS Keys,  \* the keys that are used
          Data,  \* what a Set brings: its flags and its value
          Nil    \* no key, no flags, no value

ASSUME DataAssumption == Nil \notin Keys \cup Data

VARIABLES dataMap,  \* _dataMap: flags and value of each key
          local     \* of each thread, what it has in hand in its section

cacheVars == <<dataMap, local>>

Nothing == [key |-> Nil, flags |-> Nil, value |-> Nil, done |-> FALSE]

CacheInit == Init /\ dataMap = <<>> /\ local = [t \in Threads |-> Nothing]

\* In the section, thread t takes or puts that part of an entry.
Has(t, key, flags, value, done) ==
  local' = [local EXCEPT ![t] = [key |-> key, flags |-> flags, value |-> value, done |-> done]]

\* The map with entry e at key k, made by operator[] if there is none.
WithEntry(k, e) ==
  [x \in DOMAIN dataMap \cup {k} |-> IF x = k THEN e ELSE dataMap[x]]

Starts(t, point) == pc[t] = point /\ local[t] = Nothing
-----------------------------------------------------------------------------
(* Get and PrintDataCache *)

\* Mistake: Get looks the key up with operator[], which makes an entry.
FindByIndex(t, k) ==
  /\ Starts(t, "reading")
  /\ dataMap' = WithEntry(k, [flags |-> Nil, value |-> Nil])
  /\ Has(t, Nil, Nil, Nil, TRUE)
  /\ UNCHANGED vars

\* find, and the flags of an entry that has a buffer; else the Get is over.
FindFlags(t, k) ==
  /\ Starts(t, "reading")
  /\ IF k \in DOMAIN dataMap /\ dataMap[k].value # Nil
     THEN Has(t, k, dataMap[k].flags, Nil, FALSE)
     ELSE Has(t, Nil, Nil, Nil, TRUE)
  /\ UNCHANGED <<vars, dataMap>>

\* The buffer is copied.  Nil stands for what is found in the freed memory of an
\* entry that has been erased meanwhile.
CopyValue(t) ==
  LET k == local[t].key
  IN  /\ pc[t] = "reading" /\ k # Nil /\ ~ local[t].done
      /\ Has(t, k, local[t].flags, IF k \in DOMAIN dataMap THEN dataMap[k].value ELSE Nil, TRUE)
      /\ UNCHANGED <<vars, dataMap>>

PrintDataCache(t) ==
  Starts(t, "reading") /\ Has(t, Nil, Nil, Nil, TRUE) /\ UNCHANGED <<vars, dataMap>>
-----------------------------------------------------------------------------
(* Set and ClearDataCache *)

\* operator[] makes an entry without a buffer if there is none; the assignment
\* copies the flags first.
PutFlags(t, k, d) ==
  /\ Starts(t, "writing")
  /\ Has(t, k, d, Nil, FALSE)
  /\ dataMap' = WithEntry(k, [flags |-> d, value |-> IF k \in DOMAIN dataMap
                                                     THEN dataMap[k].value ELSE Nil])
  /\ UNCHANGED vars

\* Then it replaces the buffer, if the entry is still there.
PutValue(t) ==
  LET k == local[t].key
      d == local[t].flags
  IN  /\ pc[t] = "writing" /\ k # Nil /\ ~ local[t].done
      /\ k \in DOMAIN dataMap
      /\ Has(t, k, d, d, TRUE)
      /\ dataMap' = [dataMap EXCEPT ![k].value = d]
      /\ UNCHANGED vars

\* Mistake: ClearDataCache takes the lock for reading.
ClearDataCacheReading(t) ==
  /\ Starts(t, "reading")
  /\ Has(t, Nil, Nil, Nil, TRUE)
  /\ dataMap' = <<>>
  /\ UNCHANGED vars

ClearDataCache(t) ==
  /\ Starts(t, "writing")
  /\ Has(t, Nil, Nil, Nil, TRUE)
  /\ dataMap' = <<>>
  /\ UNCHANGED vars
-----------------------------------------------------------------------------
(* The lock, which is left when the work is done *)

EndRead(t) ==
  /\ UnlockRead(t) /\ local[t].done
  /\ local' = [local EXCEPT ![t] = Nothing]
  /\ UNCHANGED dataMap

EndWrite(t) == UnlockWrite(t) /\ local[t].done /\ UNCHANGED cacheVars

Release(t) ==
  /\ ReleaseMutex(t)
  /\ local' = IF depth = 1 THEN [local EXCEPT ![t] = Nothing] ELSE local
  /\ UNCHANGED dataMap

LockStep(t) ==
  /\ \/ LeaveGate(t) \/ CountIn(t) \/ ResetRead(t) \/ SetRead(t)
     \/ CloseGate(t) \/ CountWrite(t) \/ Drain(t) \/ Drained(t) \/ OpenGate(t)
  /\ UNCHANGED cacheVars

Section(t) ==
  \/ \E k \in Keys : FindFlags(t, k) \/ \E d \in Data : PutFlags(t, k, d)
  \/ CopyValue(t) \/ PrintDataCache(t)
  \/ PutValue(t) \/ ClearDataCache(t)

Begin(t) ==
  /\ LockRead(t) \/ LockWrite(t) \/ AcquireMutex(t)
  /\ local[t] = Nothing
  /\ UNCHANGED cacheVars

CacheNext ==
  \E t \in Threads : Begin(t) \/ LockStep(t) \/ Section(t) \/ EndRead(t) \/ EndWrite(t) \/ Release(t)

allVars == <<vars, cacheVars>>
CacheSpec == CacheInit /\ [][CacheNext]_allVars

(***************************************************************************)
(* Fairness: the operating system keeps scheduling a thread that is inside *)
(* an operation of the lock or in a section, which is a bounded operation  *)
(* on the map, and no writer nests sections for ever inside its outermost  *)
(* one.  No thread is forced to start an operation, and the mutex promises *)
(* nothing: a thread may lose _writeMutex to others for ever, so           *)
(* AcquireMutex has weak fairness only.                                    *)
(***************************************************************************)
CacheFairness ==
  \A t \in Threads :
    /\ WF_allVars(LockStep(t) \/ Section(t) \/ EndRead(t) \/ Release(t))
    /\ WF_allVars(EndWrite(t))
    /\ SF_allVars(depth = 1 /\ EndWrite(t))
    /\ WF_allVars(Begin(t) /\ AcquireMutex(t))

FairCacheSpec == CacheSpec /\ CacheFairness
-----------------------------------------------------------------------------
(* Properties *)

\* Every variable of the cache holds a value of its type.
CacheTypeOK ==
  /\ DOMAIN dataMap \subseteq Keys
  /\ \A k \in DOMAIN dataMap : dataMap[k] \in [flags : Data, value : Data \cup {Nil}]
  /\ local \in [Threads -> [key : Keys \cup {Nil}, flags : Data \cup {Nil},
                            value : Data \cup {Nil}, done : BOOLEAN]]

\* Whatever Sets and clears come together, an entry that no Set is just
\* assigning has the flags and the value of one and the same Set.
EntriesWhole ==
  \A k \in DOMAIN dataMap :
    \/ dataMap[k].flags = dataMap[k].value
    \/ \E t \in Threads : pc[t] \in WritePoints /\ local[t].key = k /\ ~ local[t].done

\* A Set that has not given up the lock finds its entry as it has left it: no
\* other Set and no clear gets between.
SetStays ==
  \A t \in Threads :
    pc[t] \in WritePoints /\ local[t].key # Nil /\ local[t].done =>
      /\ local[t].key \in DOMAIN dataMap
      /\ dataMap[local[t].key] = [flags |-> local[t].flags, value |-> local[t].value]

\* MemcacheServer.h:109, _dataMapLock is "used to protect the cache": a Get
\* answers with the flags and the value of one and the same Set.
GetsWhole ==
  \A t \in Threads : pc[t] = "reading" /\ local[t].done => local[t].flags = local[t].value
=============================================================================
