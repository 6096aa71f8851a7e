---------------------------- MODULE BookingModel ----------------------------
(***************************************************************************)
(* The booking domain model (internal/booking/model.go): the statuses of a *)
(* truck booking and the fail-closed transition table that every mutation  *)
(* of internal/booking/store.go goes through.                              *)
(***************************************************************************)
EXTENDS Naturals

\* A booking id whose row does not exist yet.
Absent == "ABSENT"

Status == {"DRAFTED", "PENDING_SYNC", "SLOT_RESERVED", "PAID",
           "VALIDATION_PENDING", "GATE_APPROVED", "COMPLETED", "CANCELLED",
           "EXPIRED", "REJECTED", "RECONCILIATION_REQUIRED", "REFUNDED"}

\* The complete booking state machine; any pair not listed is prohibited.
transitions ==
  {<<"DRAFTED", "SLOT_RESERVED">>, <<"DRAFTED", "CANCELLED">>,
   <<"PENDING_SYNC", "SLOT_RESERVED">>, <<"PENDING_SYNC", "CANCELLED">>,
   <<"PENDING_SYNC", "RECONCILIATION_REQUIRED">>,
   <<"SLOT_RESERVED", "PAID">>, <<"SLOT_RESERVED", "EXPIRED">>,
   <<"SLOT_RESERVED", "CANCELLED">>,
   <<"PAID", "GATE_APPROVED">>, <<"PAID", "VALIDATION_PENDING">>,
   <<"PAID", "EXPIRED">>, <<"PAID", "CANCELLED">>, <<"PAID", "REFUNDED">>,
   <<"VALIDATION_PENDING", "PAID">>, <<"VALIDATION_PENDING", "REJECTED">>,
   <<"VALIDATION_PENDING", "EXPIRED">>, <<"VALIDATION_PENDING", "CANCELLED">>,
   <<"VALIDATION_PENDING", "REFUNDED">>,
   <<"GATE_APPROVED", "COMPLETED">>,
   <<"REJECTED", "CANCELLED">>,
   <<"RECONCILIATION_REQUIRED", "SLOT_RESERVED">>,
   <<"RECONCILIATION_REQUIRED", "CANCELLED">>}

ValidTransition(current, next) == <<current, next>> \in transitions

\* Statuses in which the booking holds trucker money that a cancellation or
\* an expiry must give back (refundIfPaid).
HoldsMoney == {"PAID", "VALIDATION_PENDING"}

\* Mutant: the statuses the capacity guard counted before migration 0011.
CapacityHolding0009 == {"SLOT_RESERVED", "PAID", "GATE_APPROVED"}

\* Statuses counted against the capacity of a terminal slot.
CapacityHolding == {"SLOT_RESERVED", "PAID", "VALIDATION_PENDING",
                    "GATE_APPROVED"}
=============================================================================
