\* One client and its connections, callers who never reconnect on purpose.
CONSTANTS
  c1 = c1
  k1 = k1
  k2 = k2
  v1 = v1
  Clients = {c1}
  Keys = {k1, k2}
  Values = {v1}
  NoValue = NoValue
  Garbled = Garbled
  MaxCalls = 3
  MaxConns = 2
  MaxOpened = 2
  MaxCuts = 1
  Careful = FALSE
SPECIFICATION FairSpec
\* The bounded calls and connections come to an end.
CHECK_DEADLOCK FALSE
INVARIANTS
  TypeOK
  PipelineInOrder
  StaleOnlyAfterTimeout
PROPERTIES
  NoReplyUsedTwice
  CallEnds
