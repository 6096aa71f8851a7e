\* A refund whose transaction aborts, then a settlement.
SPECIFICATION SysSpec
CONSTANTS
  Bookings = {"b1"}
  Slots = {"s1"}
  PayRequests = {"p1", "p2"}
  TxRefs = {"p1", "p2"}
  NoSlot = NoSlot
  NoReceipt = NoReceipt
  Terminal <- MCTerminal
  Offline = {}
  Declared = {"b1"}
  Amount <- MCAmount
  ExpiresAt <- MCExpiresAt
  SlotTerminal <- MCSlotTerminal
  StartsAt <- MCStartsAt
  EndsAt <- MCEndsAt
  Capacity <- MCCapacity
  TxRef <- MCTxRef
  FgnShareBPS = 250
  MaxTime = 3
INVARIANT RefundExcludesSettlement
CHECK_DEADLOCK FALSE
