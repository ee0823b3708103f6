\* Two sessions; select may fail.
CONSTANTS
  s1 = s1
  s2 = s2
  Sessions = {s1, s2}
  Main = Main
  Manager = Manager
  Listener = Listener
  Nobody = Nobody
  SelectErrors = TRUE
SPECIFICATION Spec
SYMMETRY Symmetry
\* The system stops when Shutdown returns, and when it deadlocks.
CHECK_DEADLOCK FALSE
INVARIANTS
  TypeOK
  OwnedUntilDestroyed
  DisposalJoinNeverBlocks
  DisposedOnce
  WakeupPending
  CacheStaysClear
  ShutdownComplete
