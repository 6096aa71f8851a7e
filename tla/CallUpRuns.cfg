\* The runs alone, two requests, capacity one.
SPECIFICATION RunLiveSpec
CONSTANTS
  Requests = {"q1", "q2"}
  Terminals = {"T1"}
  Terminal <- MCTerminal
  Class <- MCClass
  Capacities = {1}
  GraceWindow = 1
  StaleAfter = 1
  NoDeadline = NoDeadline
  MaxRequeued = 0
  MaxTime = 2
PROPERTIES
  GraceTimerResolves
CHECK_DEADLOCK FALSE
