\* One session, no failing select: the server hangs in Shutdown.
CONSTANTS
  s1 = s1
  Sessions = {s1}
  Main = Main
  Manager = Manager
  Listener = Listener
  Nobody = Nobody
  SelectErrors = FALSE
SPECIFICATION FairSpec
CHECK_DEADLOCK FALSE
PROPERTY ShutdownEnds
