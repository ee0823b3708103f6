\* Two messages of ten kinds; a new message has room for the header, the extras
\* and two bytes; KeyLen counts modulo 4.
SPECIFICATION Spec
CONSTANTS
  BuildSize = 34
  KeyLenLimit = 4
  Outgoing <- MCOutgoing
  MaxSent = 2
  MaxCuts = 1
  MaxBody = 64
INVARIANTS
  TypeOK
  RecvFits
  WrapsOnlyOutOfStep
  CastsSafe
  StreamAligned
  HandledAsSent
  CutOnlyInValue
  AnswersCurrent
\* The bounded messages are used up, or the receiver has stopped.
CHECK_DEADLOCK FALSE
