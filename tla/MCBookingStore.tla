--------------------------- MODULE MCBookingStore ---------------------------
(***************************************************************************)
(* Two bookings, one with declared cargo and one made offline, compete for *)
(* a slot of capacity one; a second slot belongs to another terminal.  The *)
(* switch answers the same reference to two payment requests.              *)
(***************************************************************************)
EXTENDS BookingStore, TLC

CONSTANTS b1, b2, s1, s2, p1, p2, p3, x1, x2

MCTerminal == [b \in Bookings |-> "T1"]
MCAmount == [b \in Bookings |-> 100]
\* At 250 basis points the FGN share of 39 kobo rounds to zero.
MCSmallAmount == [b \in Bookings |-> IF b = b2 THEN 39 ELSE 100]
MCExpiresAt == [b \in Bookings |-> 1]
MCSlotTerminal == [s \in Slots |-> IF s = s1 THEN "T1" ELSE "T2"]
MCStartsAt == [s \in Slots |-> 0]
MCEndsAt == [s \in Slots |-> 2]
MCCapacity == [s \in Slots |-> 1]
MCTwoPlaces == [s \in Slots |-> 2]
MCTxRef == (p1 :> x1) @@ (p2 :> x1) @@ (p3 :> x2)
MCOffline == {b2}
MCDeclared == {b1}
=============================================================================
