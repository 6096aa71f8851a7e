\* A stale request is called up between two sweeps.
SPECIFICATION QueueSpec
CONSTANTS
  q1 = q1
  q2 = q2
  q3 = q3
  Requests = {q1, q2}
  Terminals = {"T1"}
  Terminal <- MCTerminal
  Class <- MCClass
  Capacities = {1}
  GraceWindow = 1
  StaleAfter = 1
  NoDeadline = NoDeadline
  MaxRequeued = 0
  MaxTime = 3
PROPERTY StaleNeverCalledUp
CHECK_DEADLOCK FALSE
