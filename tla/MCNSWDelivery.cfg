\* Two events, two runners, two attempts each, one aborted transaction.
SPECIFICATION DeliveryLiveSpec
CONSTANTS
  e1 = e1
  e2 = e2
  r1 = r1
  r2 = r2
  Events = {e1, e2}
  Runners = {r1, r2}
  BatchSize = 2
  MaxAttempts = 2
  BackoffBase = 1
  BackoffMax = 2
  MaxAborts = 1
INVARIANTS
  DeliveredIsAccepted
PROPERTIES
  LedgerNeverRewrites
  EventResolves
CHECK_DEADLOCK FALSE
