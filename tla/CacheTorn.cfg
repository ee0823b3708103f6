\* Two threads are enough for a Get and a Set to overlap.
CONSTANTS
  t1 = t1
  t2 = t2
  Threads = {t1, t2}
  NoThread = NoThread
  MaxDepth = 1
  k1 = k1
  Keys = {k1}
  d1 = d1
  d2 = d2
  Data = {d1, d2}
  Nil = Nil
SPECIFICATION CacheSpec
INVARIANT GetsWhole
