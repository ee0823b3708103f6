\* One client that goes on after a call without an answer.
CONSTANTS
  c1 = c1
  k1 = k1
  k2 = k2
  v1 = v1
  Clients = {c1}
  Keys = {k1, k2}
  Values = {v1}
  NoValue = NoValue
  Garbled = Garbled
  MaxCalls = 3
  MaxConns = 2
  MaxOpened = 2
  MaxCuts = 0
  Careful = FALSE
SPECIFICATION Spec
CHECK_DEADLOCK FALSE
INVARIANT TrueMeansThisCall
