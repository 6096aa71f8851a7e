-------------------------- MODULE BookingLifecycle --------------------------
(***************************************************************************)
(* What the booking store promises to whoever reads a booking: a row moves *)
(* only along the transition table, one optimistic-lock version per move,  *)
(* and no row ever disappears.  A sweep may move several rows at once.     *)
(***************************************************************************)
EXTENDS BookingModel

CONSTANT Bookings

VARIABLES status, version

Init == /\ status = [b \in Bookings |-> Absent]
        /\ version = [b \in Bookings |-> 0]

\* b is inserted as a draft or as an offline booking awaiting reconciliation.
Inserted(b) == /\ status[b] = Absent
               /\ status'[b] \in {"DRAFTED", "PENDING_SYNC"}
               /\ version'[b] = 1

\* b takes one transition of the table and one new version.
Moved(b) == /\ ValidTransition(status[b], status'[b])
            /\ version'[b] = version[b] + 1

Kept(b) == status'[b] = status[b] /\ version'[b] = version[b]

Next == /\ DOMAIN status' = Bookings
        /\ DOMAIN version' = Bookings
        /\ \A b \in Bookings : Inserted(b) \/ Moved(b) \/ Kept(b)

Spec == Init /\ [][Next]_<<status, version>>
=============================================================================
