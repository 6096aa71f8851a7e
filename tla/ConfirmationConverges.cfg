\* One undeclared booking, confirmations and scans retried for ever.
SPECIFICATION SysRetrySpec
CONSTANTS
  Bookings = {"b1"}
  Slots = {"s1"}
  PayRequests = {"p1"}
  TxRefs = {"p1"}
  NoSlot = NoSlot
  NoReceipt = NoReceipt
  Terminal <- MCTerminal
  Offline = {}
  Declared = {}
  Amount <- MCAmount
  ExpiresAt <- MCExpiresAt
  SlotTerminal <- MCSlotTerminal
  StartsAt <- MCStartsAt
  EndsAt <- MCEndsAt
  Capacity <- MCCapacity
  TxRef <- MCTxRef
  FgnShareBPS = 250
  MaxTime = 3
PROPERTY ConfirmationConverges
CHECK_DEADLOCK FALSE
