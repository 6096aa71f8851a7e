------------------------- MODULE MCBookingWorkflow --------------------------
(***************************************************************************)
(* Small instances of the composed booking system: every booking is for    *)
(* the same terminal, whose slots have capacity one and end before the     *)
(* bookings expire.                                                        *)
(***************************************************************************)
EXTENDS BookingWorkflow, TLC

MCTerminal == [b \in Bookings |-> "T1"]
MCAmount == [b \in Bookings |-> 100]
MCExpiresAt == [b \in Bookings |-> 2]
MCSlotTerminal == [s \in Slots |-> "T1"]
MCStartsAt == [s \in Slots |-> 0]
MCEndsAt == [s \in Slots |-> 1]
MCCapacity == [s \in Slots |-> 1]
\* Each payment request has a transaction reference of its own.
MCTxRef == [p \in PayRequests |-> p]
=============================================================================
