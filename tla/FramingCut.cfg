\* A receive timeout in the body.
SPECIFICATION Spec
CONSTANTS
  BuildSize = 34
  KeyLenLimit = 4
  Outgoing <- MCOutgoing
  MaxSent = 1
  MaxCuts = 1
  MaxBody = 64
INVARIANTS
  WholeMessagesOnly
CHECK_DEADLOCK FALSE
