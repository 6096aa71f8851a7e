\* The slot ends before the booking expires.
SPECIFICATION SysSpec
CONSTANTS
  Bookings = {"b1"}
  Slots = {"s1"}
  PayRequests = {"p1"}
  TxRefs = {"p1"}
  NoSlot = NoSlot
  NoReceipt = NoReceipt
  Terminal <- MCTerminal
  Offline = {}
  Declared = {"b1"}
  Amount <- MCAmount
  ExpiresAt <- MCExpiresAt
  SlotTerminal <- MCSlotTerminal
  StartsAt <- MCStartsAt
  EndsAt <- MCEndsAt
  Capacity <- MCCapacity
  TxRef <- MCTxRef
  FgnShareBPS = 250
  MaxTime = 3
INVARIANT GateDeadlineClosesBooking
CHECK_DEADLOCK FALSE
