\* The timer of a first call-up ends the second one.
SPECIFICATION FlowSpec
CONSTANTS
  Requests = {"q1"}
  Terminals = {"T1"}
  Terminal <- MCTerminal
  Class <- MCClass
  Capacities = {1}
  GraceWindow = 2
  StaleAfter = 3
  NoDeadline = NoDeadline
  MaxRequeued = 1
  MaxTime = 3
PROPERTY GraceHonoured
CHECK_DEADLOCK FALSE
