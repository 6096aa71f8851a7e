\* The first cycle of an event aborts after its send.
SPECIFICATION DeliverySpec
CONSTANTS
  e1 = e1
  e2 = e2
  r1 = r1
  r2 = r2
  Events = {e1}
  Runners = {r1}
  BatchSize = 1
  MaxAttempts = 2
  BackoffBase = 1
  BackoffMax = 2
  MaxAborts = 1
INVARIANT AcceptedOnce
CHECK_DEADLOCK FALSE
