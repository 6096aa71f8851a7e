\* Three requests, one terminal, capacity 1 or 2.
SPECIFICATION QueueSpec
CONSTANTS
  q1 = q1
  q2 = q2
  q3 = q3
  Requests = {q1, q2, q3}
  Terminals = {"T1"}
  Terminal <- MCTerminal
  Class <- MCClass
  Capacities = {1, 2}
  GraceWindow = 1
  StaleAfter = 1
  NoDeadline = NoDeadline
  MaxRequeued = 1
  MaxTime = 2
INVARIANTS
  PositionsUnique
PROPERTIES
  PromotionWithinCapacity
  PriorityFIFO
SYMMETRY MCSymmetry
CHECK_DEADLOCK FALSE
