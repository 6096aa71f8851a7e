\* An arrival whose signal is lost.
SPECIFICATION ArrivalRetrySpec
CONSTANTS
  Requests = {"q1"}
  Terminals = {"T1"}
  Terminal <- MCTerminal
  Class <- MCClass
  Capacities = {1}
  GraceWindow = 1
  StaleAfter = 1
  NoDeadline = NoDeadline
  MaxRequeued = 0
  MaxTime = 2
PROPERTY ArrivalReachesRun
CHECK_DEADLOCK FALSE
