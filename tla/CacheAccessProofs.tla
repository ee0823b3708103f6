------------------------ MODULE CacheAccessProofs --------------------------
(***************************************************************************)
(* Proofs about CacheAccess for any set of threads, keys and data.  The    *)
(* cache's threads use the lock as ReadWriteLock says, so that what is     *)
(* proved there holds here; and although readers may see a write section   *)
(* from inside, what Sets and clears leave in the cache is whole, because  *)
(* the writers' mutex keeps writers apart.                                 *)
(***************************************************************************)
EXTENDS CacheAccess, ReadWriteLockProofs

\* Thread t has begun with its section.
Busy(t) == local[t].key # Nil \/ local[t].done

\* A thread has something in hand only in a section, or on its way out of a
\* write section that is done.
InSection ==
  \A t \in Threads : Busy(t) =>
    /\ pc[t] \in {"reading", "writing", "openGate", "unlockWrite"}
    /\ pc[t] \in {"openGate", "unlockWrite"} => local[t].done

\* The entry that a Set is assigning has its flags already.
HalfPut ==
  \A t \in Threads :
    pc[t] = "writing" /\ local[t].key # Nil /\ ~ local[t].done =>
      /\ local[t].key \in DOMAIN dataMap
      /\ dataMap[local[t].key].flags = local[t].flags
      /\ local[t].flags \in Data

CacheInv == CacheTypeOK /\ InSection /\ HalfPut /\ EntriesWhole /\ SetStays

\* The type of what a thread has in hand.
Hands == [key : Keys \cup {Nil}, flags : Data \cup {Nil}, value : Data \cup {Nil}, done : BOOLEAN]
-----------------------------------------------------------------------------
(* The cache uses the lock *)

\* Every step of the cache is a step of the lock or none.
LEMMA StepUsesLock == [CacheNext]_allVars => [Next]_vars
<1> SUFFICES ASSUME NEW t \in Threads,
                    Begin(t) \/ LockStep(t) \/ Section(t) \/ EndRead(t) \/ EndWrite(t) \/ Release(t)
             PROVE  [Next]_vars
  BY DEF CacheNext, allVars, vars
<1>1. CASE Section(t)
  BY <1>1 DEF Section, FindFlags, CopyValue, PrintDataCache, PutFlags, PutValue, ClearDataCache
<1>2. CASE Begin(t) \/ LockStep(t) \/ EndRead(t) \/ EndWrite(t) \/ Release(t)
  <2>1. Reader(t) \/ Writer(t)
    BY <1>2 DEF Begin, LockStep, EndRead, EndWrite, Release, Reader, Writer
  <2> QED BY <2>1 DEF Next
<1> QED BY <1>1, <1>2

\* The threads of the server use the lock as ReadWriteLock describes it: what
\* is proved of the lock holds of it in the cache.
THEOREM UsesLock == CacheSpec => Spec
<1>1. CacheInit => Init
  BY DEF CacheInit
<1> QED BY <1>1, StepUsesLock, PTL DEF CacheSpec, Spec
-----------------------------------------------------------------------------
LEMMA InitCacheInv == CacheInit => CacheInv
<1> SUFFICES ASSUME CacheInit PROVE CacheInv
  OBVIOUS
<1>1. local = [t \in Threads |-> Nothing] /\ DOMAIN dataMap = {}
  BY DEF CacheInit
<1>2. CacheTypeOK
  BY <1>1 DEF CacheTypeOK, Nothing
<1> QED BY <1>1, <1>2 DEF CacheInv, InSection, Busy, HalfPut, EntriesWhole, SetStays, Nothing

\* Two threads are not both in a write section beyond LockWrite's wait.
LEMMA OneWriter ==
  ASSUME NestingBalanced, NEW t \in Threads, NEW u \in Threads,
         pc[t] \in WritePoints \ {"wantWrite"}, pc[u] \in WritePoints \ {"wantWrite"}
  PROVE  t = u
  BY DEF NestingBalanced, Holders

\* A step of the lock leaves the cache alone, and a thread leaves a section with
\* its work done.
LEMMA LockStepKeeps ==
  ASSUME IInv, CacheInv, NEW t \in Threads,
         Begin(t) \/ LockStep(t) \/ EndRead(t) \/ EndWrite(t) \/ Release(t)
  PROVE  CacheInv'
<1>1. Actions(t)
  BY DEF Begin, LockStep, EndRead, EndWrite, Release, Actions, Reader, Writer
<1>2. /\ \A u \in Threads \ {t} : pc'[u] = pc[u]
      /\ pc \in [Threads -> {"idle"} \cup ReadPoints \cup WritePoints]
  BY <1>1, OnlySelfMoves DEF IInv, TypeOK
<1>3. /\ dataMap' = dataMap
      /\ \A u \in Threads \ {t} : local'[u] = local[u]
      /\ local'[t] = local[t] \/ local'[t] = Nothing
      /\ CacheTypeOK'
  <2>1. dataMap' = dataMap /\ (local' = local \/ local' = [local EXCEPT ![t] = Nothing])
    BY DEF Begin, LockStep, EndRead, EndWrite, Release, cacheVars
  <2>2. Nothing \in [key : Keys \cup {Nil}, flags : Data \cup {Nil},
                    value : Data \cup {Nil}, done : BOOLEAN]
    BY DEF Nothing
  <2> QED BY <2>1, <2>2 DEF CacheInv, CacheTypeOK
<1>4. Nothing.key = Nil /\ Nothing.done = FALSE
  BY DEF Nothing
\* Thread t either has nothing in hand afterwards, or is done in its section.
<1>5. \/ ~ Busy(t)' /\ (~ Busy(t) \/ local[t].done)
      \/ /\ local'[t] = local[t] /\ local[t].done
         /\ pc[t] \in {"writing", "openGate", "unlockWrite"}
         /\ pc'[t] \in {"writing", "openGate", "unlockWrite"}
  <2>1. CASE Begin(t)
    BY <2>1, <1>4 DEF Begin, cacheVars, Busy
  <2>2. CASE LockStep(t)
    BY <2>2, <1>2 DEF LockStep, cacheVars, Busy, CacheInv, InSection, Goto,
       LeaveGate, CountIn, ResetRead, SetRead, CloseGate, CountWrite, Drain, Drained, OpenGate
  <2>3. CASE EndRead(t)
    BY <2>3, <1>4 DEF EndRead, Busy, CacheInv, CacheTypeOK
  <2>4. CASE EndWrite(t)
    BY <2>4, <1>2 DEF EndWrite, UnlockWrite, Goto, cacheVars
  <2>5. CASE Release(t)
    <3>1. pc[t] = "unlockWrite"
      BY <2>5 DEF Release, ReleaseMutex, Goto
    <3>2. CASE depth = 1
      BY <2>5, <3>1, <3>2, <1>4 DEF Release, Busy, CacheInv, CacheTypeOK, InSection
    <3>3. CASE depth # 1
      BY <2>5, <3>1, <3>3, <1>2 DEF Release, ReleaseMutex, Goto, Busy, CacheInv, InSection
    <3> QED BY <3>2, <3>3
  <2> QED BY <2>1, <2>2, <2>3, <2>4, <2>5
<1>6. InSection'
  BY <1>2, <1>3, <1>5 DEF CacheInv, InSection, Busy
<1>7. HalfPut'
  BY <1>2, <1>3, <1>5 DEF CacheInv, HalfPut, Busy
<1>8. SetStays'
  BY <1>2, <1>3, <1>5 DEF CacheInv, SetStays, Busy, WritePoints
<1>9. EntriesWhole'
  <2> SUFFICES ASSUME NEW k \in DOMAIN dataMap', dataMap'[k].flags # dataMap'[k].value
               PROVE  \E u \in Threads : pc'[u] \in WritePoints /\ local'[u].key = k
                                         /\ ~ local'[u].done
    BY DEF EntriesWhole
  <2>1. PICK u \in Threads : pc[u] \in WritePoints /\ local[u].key = k /\ ~ local[u].done
    BY <1>3 DEF CacheInv, EntriesWhole
  <2>2. k # Nil
    BY <1>3, DataAssumption DEF CacheInv, CacheTypeOK
  <2>3. u # t
    BY <2>1, <2>2, <1>5 DEF Busy
  <2> QED BY <2>1, <2>3, <1>2, <1>3
<1> QED BY <1>3, <1>6, <1>7, <1>8, <1>9 DEF CacheInv

\* A reader changes nothing but what it has in its hands.
LEMMA ReadingKeeps ==
  ASSUME IInv, CacheInv, NEW t \in Threads,
         \/ \E k \in Keys : FindFlags(t, k)
         \/ CopyValue(t) \/ PrintDataCache(t)
  PROVE  CacheInv'
<1> DEFINE hand == Data \cup {Nil}
<1>1. pc[t] = "reading" /\ pc' = pc /\ dataMap' = dataMap
  BY DEF FindFlags, CopyValue, PrintDataCache, Starts, vars
<1>2. \E h \in Hands : local' = [local EXCEPT ![t] = h]
  <2>1. ASSUME NEW k \in Keys \cup {Nil}, NEW f \in hand, NEW v \in hand,
               Has(t, k, f, v, TRUE) \/ Has(t, k, f, v, FALSE)
        PROVE  \E h \in Hands : local' = [local EXCEPT ![t] = h]
    BY <2>1 DEF Has, Hands
  <2>2. ASSUME NEW k \in Keys, FindFlags(t, k)
        PROVE  \E h \in Hands : local' = [local EXCEPT ![t] = h]
    BY <2>1, <2>2 DEF FindFlags, CacheInv, CacheTypeOK
  <2>3. CASE CopyValue(t)
    <3> DEFINE v == IF local[t].key \in DOMAIN dataMap THEN dataMap[local[t].key].value ELSE Nil
    <3>1. local[t].key \in Keys \cup {Nil} /\ local[t].flags \in hand /\ v \in hand
      BY DEF CacheInv, CacheTypeOK
    <3>2. Has(t, local[t].key, local[t].flags, v, TRUE)
      BY <2>3 DEF CopyValue
    <3> HIDE DEF v
    <3> QED BY <2>1, <3>1, <3>2
  <2>4. CASE PrintDataCache(t)
    BY <2>1, <2>4 DEF PrintDataCache
  <2> QED BY <2>2, <2>3, <2>4
<1>3. /\ \A u \in Threads \ {t} : local'[u] = local[u]
      /\ CacheTypeOK'
  BY <1>1, <1>2 DEF CacheInv, CacheTypeOK, Hands
<1>4. pc[t] \notin WritePoints
  BY <1>1 DEF WritePoints
<1>5. InSection'
  BY <1>1, <1>3 DEF CacheInv, InSection, Busy
<1>6. HalfPut'
  BY <1>1, <1>3 DEF CacheInv, HalfPut
<1>7. SetStays'
  BY <1>1, <1>3, <1>4 DEF CacheInv, SetStays
<1>8. EntriesWhole'
  BY <1>1, <1>3, <1>4 DEF CacheInv, EntriesWhole
<1> QED BY <1>3, <1>5, <1>6, <1>7, <1>8 DEF CacheInv

\* A thread that writes is the only one with a write section's work in hand.
LEMMA WriterAlone ==
  ASSUME IInv, CacheInv, NEW t \in Threads, pc[t] = "writing", NEW u \in Threads \ {t},
         pc[u] \in WritePoints
  PROVE  ~ Busy(u)
BY OneWriter DEF IInv, CacheInv, InSection, WritePoints
-----------------------------------------------------------------------------
LEMMA PutFlagsKeeps ==
  ASSUME IInv, CacheInv, NEW t \in Threads, NEW k \in Keys, NEW d \in Data, PutFlags(t, k, d)
  PROVE  CacheInv'
<1> DEFINE e == [flags |-> d, value |-> IF k \in DOMAIN dataMap
                                        THEN dataMap[k].value ELSE Nil]
<1>1. pc[t] = "writing" /\ pc' = pc /\ dataMap' = WithEntry(k, e)
  BY DEF PutFlags, Starts, vars
<1>2. e \in [flags : Data, value : Data \cup {Nil}] /\ e.flags = d
  BY DEF CacheInv, CacheTypeOK
<1> HIDE DEF e
<1>3. /\ DOMAIN dataMap' = {k} \cup DOMAIN dataMap
      /\ dataMap'[k] = e
      /\ \A x \in DOMAIN dataMap \ {k} : dataMap'[x] = dataMap[x]
  BY <1>1 DEF WithEntry
<1>4. /\ local'[t] = [key |-> k, flags |-> d, value |-> Nil, done |-> FALSE]
      /\ \A u \in Threads \ {t} : local'[u] = local[u]
      /\ local' \in [Threads -> Hands]
  BY DEF PutFlags, Has, Hands, CacheInv, CacheTypeOK
<1>5. /\ local[t].key = Nil /\ ~ local[t].done
      /\ k # Nil
  BY DataAssumption DEF PutFlags, Starts, Nothing
<1>6. CacheTypeOK'
  BY <1>2, <1>3, <1>4 DEF CacheInv, CacheTypeOK, Hands
<1>7. InSection'
  BY <1>1, <1>4 DEF CacheInv, InSection, Busy
<1>8. HalfPut'
  BY <1>1, <1>2, <1>3, <1>4, WriterAlone DEF HalfPut, Busy, WritePoints
<1>9. SetStays'
  BY <1>1, <1>4, WriterAlone DEF SetStays, Busy
<1>10. EntriesWhole'
  <2> SUFFICES ASSUME NEW x \in DOMAIN dataMap'
               PROVE  \/ dataMap'[x].flags = dataMap'[x].value
                      \/ \E u \in Threads : pc'[u] \in WritePoints /\ local'[u].key = x
                                            /\ ~ local'[u].done
    BY DEF EntriesWhole
  <2>1. CASE x = k
    BY <2>1, <1>1, <1>4 DEF WritePoints
  <2>2. CASE x # k
    <3>1. x \in DOMAIN dataMap /\ dataMap'[x] = dataMap[x] /\ x # Nil
      BY <2>2, <1>3, DataAssumption DEF CacheInv, CacheTypeOK
    <3>2. \A u \in Threads : pc[u] \in WritePoints => local[u].key # x
      BY <3>1, <1>1, <1>5, WriterAlone DEF Busy
    <3> QED BY <3>1, <3>2 DEF CacheInv, EntriesWhole
  <2> QED BY <2>1, <2>2
<1> QED BY <1>6, <1>7, <1>8, <1>9, <1>10 DEF CacheInv

LEMMA PutValueKeeps ==
  ASSUME IInv, CacheInv, NEW t \in Threads, PutValue(t)
  PROVE  CacheInv'
<1> DEFINE k == local[t].key
           d == local[t].flags
<1>1. /\ pc[t] = "writing" /\ pc' = pc
      /\ k \in DOMAIN dataMap /\ k # Nil /\ ~ local[t].done
      /\ dataMap' = [dataMap EXCEPT ![k].value = d]
      /\ Has(t, k, d, d, TRUE)
  BY DEF PutValue, vars
<1>2. k \in Keys /\ d \in Data /\ dataMap[k].flags = d
      /\ dataMap[k] \in [flags : Data, value : Data \cup {Nil}]
  BY <1>1 DEF CacheInv, CacheTypeOK, HalfPut
<1>3. /\ DOMAIN dataMap' = DOMAIN dataMap
      /\ dataMap'[k] = [flags |-> d, value |-> d]
      /\ \A x \in DOMAIN dataMap \ {k} : dataMap'[x] = dataMap[x]
  BY <1>1, <1>2
<1>4. /\ local'[t] = [key |-> k, flags |-> d, value |-> d, done |-> TRUE]
      /\ \A u \in Threads \ {t} : local'[u] = local[u]
      /\ local' \in [Threads -> Hands]
  BY <1>1, <1>2 DEF Has, Hands, CacheInv, CacheTypeOK
<1> HIDE DEF k, d
<1>5. CacheTypeOK'
  BY <1>2, <1>3, <1>4 DEF CacheInv, CacheTypeOK, Hands
<1>6. InSection'
  BY <1>1, <1>4 DEF CacheInv, InSection, Busy
<1>7. HalfPut'
  BY <1>1, <1>4, WriterAlone DEF HalfPut, Busy, WritePoints
<1>8. SetStays'
  BY <1>1, <1>3, <1>4, WriterAlone DEF SetStays, Busy
<1>9. EntriesWhole'
  <2> SUFFICES ASSUME NEW x \in DOMAIN dataMap', x # k
               PROVE  dataMap'[x].flags = dataMap'[x].value
    BY <1>3 DEF EntriesWhole
  <2>1. x \in DOMAIN dataMap /\ dataMap'[x] = dataMap[x] /\ x # Nil
    BY <1>3, DataAssumption DEF CacheInv, CacheTypeOK
  <2>2. \A u \in Threads : pc[u] \in WritePoints => local[u].key # x
    BY <2>1, <1>1, WriterAlone DEF Busy, k
  <2> QED BY <2>1, <2>2 DEF CacheInv, EntriesWhole
<1> QED BY <1>5, <1>6, <1>7, <1>8, <1>9 DEF CacheInv

LEMMA ClearKeeps ==
  ASSUME IInv, CacheInv, NEW t \in Threads, ClearDataCache(t)
  PROVE  CacheInv'
<1>1. pc[t] = "writing" /\ pc' = pc /\ DOMAIN dataMap' = {}
  BY DEF ClearDataCache, Starts, vars
<1>2. /\ local'[t] = [key |-> Nil, flags |-> Nil, value |-> Nil, done |-> TRUE]
      /\ \A u \in Threads \ {t} : local'[u] = local[u]
      /\ local' \in [Threads -> Hands]
  BY DEF ClearDataCache, Has, Hands, CacheInv, CacheTypeOK
<1>3. CacheTypeOK'
  BY <1>1, <1>2 DEF CacheTypeOK, Hands
<1>4. InSection'
  BY <1>1, <1>2 DEF CacheInv, InSection, Busy
<1>5. HalfPut'
  BY <1>1, <1>2, WriterAlone DEF HalfPut, Busy, WritePoints
<1>6. SetStays'
  BY <1>1, <1>2, WriterAlone DEF SetStays, Busy
<1>7. EntriesWhole'
  BY <1>1 DEF EntriesWhole
<1> QED BY <1>3, <1>4, <1>5, <1>6, <1>7 DEF CacheInv
-----------------------------------------------------------------------------
(* Theorems *)

THEOREM CacheInductive == CacheSpec => []CacheInv
<1>1. IInv /\ CacheInv /\ [CacheNext]_allVars => CacheInv'
  <2> SUFFICES ASSUME IInv, CacheInv, [CacheNext]_allVars PROVE CacheInv'
    OBVIOUS
  <2>1. CASE UNCHANGED allVars
    BY <2>1 DEF allVars, vars, cacheVars, CacheInv, CacheTypeOK, InSection, Busy, HalfPut,
                EntriesWhole, SetStays
  <2>2. ASSUME NEW t \in Threads,
               Begin(t) \/ LockStep(t) \/ EndRead(t) \/ EndWrite(t) \/ Release(t)
        PROVE  CacheInv'
    BY <2>2, LockStepKeeps
  <2>3. ASSUME NEW t \in Threads, Section(t)
        PROVE  CacheInv'
    <3>1. CASE (\E k \in Keys : FindFlags(t, k)) \/ CopyValue(t) \/ PrintDataCache(t)
      BY <3>1, ReadingKeeps
    <3>2. ASSUME NEW k \in Keys, NEW d \in Data, PutFlags(t, k, d)
          PROVE  CacheInv'
      BY <3>2, PutFlagsKeeps
    <3>3. CASE PutValue(t) \/ ClearDataCache(t)
      BY <3>3, PutValueKeeps, ClearKeeps
    <3> QED BY <2>3, <3>1, <3>2, <3>3 DEF Section
  <2> QED BY <2>1, <2>2, <2>3 DEF CacheNext
<1> QED BY InitCacheInv, <1>1, UsesLock, Inductive, PTL DEF CacheSpec

\* The cache keeps its types.
THEOREM CacheTyped == CacheSpec => []CacheTypeOK
<1>1. CacheInv => CacheTypeOK
  BY DEF CacheInv
<1> QED BY CacheInductive, <1>1, PTL

\* Whatever Sets and clears come together, no entry is left with the flags of one
\* Set and the value of another.
THEOREM EntriesStayWhole == CacheSpec => []EntriesWhole
<1>1. CacheInv => EntriesWhole
  BY DEF CacheInv
<1> QED BY CacheInductive, <1>1, PTL

\* No thread changes what a Set has stored before it has given up the lock.
THEOREM SetsStay == CacheSpec => []SetStays
<1>1. CacheInv => SetStays
  BY DEF CacheInv
<1> QED BY CacheInductive, <1>1, PTL
=============================================================================
