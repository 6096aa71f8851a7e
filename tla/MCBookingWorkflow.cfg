\* Two bookings, one made offline, compete for one slot and one payment request;
\* the other carries declared cargo. Worker fairness.
SPECIFICATION SysLiveSpec
CONSTANTS
  Bookings = {"b1", "b2"}
  Slots = {"s1"}
  PayRequests = {"p1"}
  TxRefs = {"p1"}
  NoSlot = NoSlot
  NoReceipt = NoReceipt
  Terminal <- MCTerminal
  Offline = {"b2"}
  Declared = {"b1"}
  Amount <- MCAmount
  ExpiresAt <- MCExpiresAt
  SlotTerminal <- MCSlotTerminal
  StartsAt <- MCStartsAt
  EndsAt <- MCEndsAt
  Capacity <- MCCapacity
  TxRef <- MCTxRef
  FgnShareBPS = 250
  MaxTime = 3
INVARIANTS
  SettledThenCompleted
  PaidAtSwitch
  OutcomeAgrees
PROPERTIES
  ImplementsStore
  ValidationResolves
  SettlementFinishes
CHECK_DEADLOCK FALSE
