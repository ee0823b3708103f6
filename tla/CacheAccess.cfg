\* Three threads, nested write sections, one entry, two Sets that differ.
CONSTANTS
  t1 = t1
  t2 = t2
  t3 = t3
  Threads = {t1, t2, t3}
  NoThread = NoThread
  MaxDepth = 2
  k1 = k1
  Keys = {k1}
  d1 = d1
  d2 = d2
  Data = {d1, d2}
  Nil = Nil
SPECIFICATION FairCacheSpec
INVARIANTS
  TypeOK
  ReadCountExact
  NestingBalanced
  GateTracksWriter
  NoLostWakeup
  CacheTypeOK
  EntriesWhole
  SetStays
PROPERTIES
  ImplementsTurnstile
  ReaderGetsIn
  WriterGetsIn
  WritersMove
