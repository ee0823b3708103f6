\* One session, no failing select: a hang-up before OnAcceptConn.
CONSTANTS
  s1 = s1
  Sessions = {s1}
  Main = Main
  Manager = Manager
  Listener = Listener
  Nobody = Nobody
  SelectErrors = FALSE
SPECIFICATION Spec
CHECK_DEADLOCK FALSE
INVARIANT NoStrandedSession
