\* Two requests, capacity one, fairness for the sweeper only.
SPECIFICATION SweepLiveSpec
CONSTANTS
  Requests = {"q1", "q2"}
  Terminals = {"T1"}
  Terminal <- MCTerminal
  Class <- MCClass
  Capacities = {1}
  GraceWindow = 1
  StaleAfter = 1
  NoDeadline = NoDeadline
  MaxRequeued = 0
  MaxTime = 2
PROPERTIES
  ImplementsQueue
  FirstGraceHonoured
  CallUpResolves
  CapacityIsFilled
CHECK_DEADLOCK FALSE
