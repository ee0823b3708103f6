\* One session; select may fail.
CONSTANTS
  s1 = s1
  Sessions = {s1}
  Main = Main
  Manager = Manager
  Listener = Listener
  Nobody = Nobody
  SelectErrors = TRUE
SPECIFICATION FairSpec
\* The system stops when Shutdown returns, and when it deadlocks.
CHECK_DEADLOCK FALSE
PROPERTIES
  ShutdownEndsOrDeadlocks
  DisposalDrains
  HangupRetires
