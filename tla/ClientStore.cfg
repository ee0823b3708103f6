\* Two clients whose callers reconnect when a call goes unanswered.
CONSTANTS
  c1 = c1
  c2 = c2
  k1 = k1
  v1 = v1
  v2 = v2
  Clients = {c1, c2}
  Keys = {k1}
  Values = {v1, v2}
  NoValue = NoValue
  Garbled = Garbled
  MaxCalls = 3
  MaxConns = 2
  MaxOpened = 2
  MaxCuts = 1
  Careful = TRUE
SPECIFICATION Spec
SYMMETRY Symmetry
\* The bounded calls and connections come to an end.
CHECK_DEADLOCK FALSE
PROPERTY ImplementsKVStore
