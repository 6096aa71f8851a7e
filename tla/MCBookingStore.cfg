\* Two bookings, two slots, three payment requests, a clock up to 2.
SPECIFICATION StoreSpec
CONSTANTS
  b1 = b1
  b2 = b2
  s1 = s1
  s2 = s2
  p1 = p1
  p2 = p2
  p3 = p3
  x1 = x1
  x2 = x2
  Bookings = {b1, b2}
  Slots = {s1, s2}
  PayRequests = {p1, p2, p3}
  TxRefs = {x1, x2}
  NoSlot = NoSlot
  NoReceipt = NoReceipt
  Terminal <- MCTerminal
  Offline <- MCOffline
  Declared <- MCDeclared
  Amount <- MCAmount
  ExpiresAt <- MCExpiresAt
  SlotTerminal <- MCSlotTerminal
  StartsAt <- MCStartsAt
  EndsAt <- MCEndsAt
  Capacity <- MCCapacity
  TxRef <- MCTxRef
  FgnShareBPS = 250
  MaxTime = 2
INVARIANTS
  NoOverbooking
  ReceiptPaysOneBooking
  PaidByOwnIntent
  ClearedBeforeGate
PROPERTIES
  PaidMoneyIsReturned
  LifecycleSpec
CHECK_DEADLOCK FALSE
