---------------------------- MODULE BookingStore ----------------------------
(***************************************************************************)
(* The booking store (internal/booking/store.go) of one tenant.  Every     *)
(* operation runs in one PostgreSQL transaction that locks the booking row *)
(* and, when it reserves, the slot row (SELECT ... FOR UPDATE), so an      *)
(* operation is one action.  The refund rail is the exception the code     *)
(* makes: TigerBeetle is called inside the open transaction, so a refund   *)
(* can be posted by a transaction that never commits.                      *)
(*                                                                         *)
(* A request id is bound to the first content it arrives with: a replay    *)
(* returns the row, different content is ErrIdempotencyConflict.  So the   *)
(* request's fields are constant functions of the booking.  The expected   *)
(* version only ever refuses a call (ErrOptimisticConflict); a refused     *)
(* call changes nothing and is no step.  Columns that no guard reads       *)
(* (gate_id, reconciliation_reason, timestamps) are left out, and so are   *)
(* the outbox rows; the promotion that a released slot triggers in the     *)
(* same transaction (capacityReleased) changes only the call-up queue and  *)
(* is CallUpQueue's PromoteNext.                                           *)
(***************************************************************************)
EXTENDS BookingModel, Sequences, FiniteSets

CONSTANTS
  Bookings,      \* bookings, named by their request id
  Slots,         \* terminal slots that may be created
  PayRequests,   \* request ids of payment intents
  TxRefs,        \* transaction references issued by the payment switch
  NoSlot, NoReceipt,
  Terminal,      \* terminal of a booking
  Offline,       \* bookings made on the OFFLINE channel
  Declared,      \* bookings that reference a cargo declaration
  Amount,        \* amount_kobo of a booking
  ExpiresAt,     \* expires_at of a booking
  SlotTerminal, StartsAt, EndsAt, Capacity,   \* terminal_slots columns
  TxRef,         \* the reference the switch answers to a payment request
  FgnShareBPS,   \* FGN share in basis points
  MaxTime        \* bound on the clock

ASSUME StoreConstants ==
  /\ IsFiniteSet(Bookings)
  /\ NoSlot \notin Slots /\ NoReceipt \notin TxRefs
  /\ Offline \subseteq Bookings /\ Declared \subseteq Bookings
  /\ Amount \in [Bookings -> Nat \ {0}]
  /\ ExpiresAt \in [Bookings -> Nat]
  /\ StartsAt \in [Slots -> Nat] /\ EndsAt \in [Slots -> Nat]
  /\ \A s \in Slots : StartsAt[s] < EndsAt[s]      \* ValidateSlotWindow
  /\ Capacity \in [Slots -> Nat \ {0}]
  /\ TxRef \in [PayRequests -> TxRefs]
  /\ FgnShareBPS \in 1..9999                       \* SetRefundPoster
  /\ MaxTime \in Nat

VARIABLES
  now,        \* wall clock of the servers and the worker
  slots,      \* terminal_slots rows
  status, slot, receipt, version, commitHash,   \* truck_bookings columns
  intents,    \* booking_payment_intents rows, in created_at order
  customs,    \* customs_validations rows: <<booking, decision>>
  scans,      \* gate_scans rows: <<booking, decision>>
  answered,   \* history: gate decisions returned to a gate officer
  refunded    \* bookings whose refund transfers TigerBeetle has posted

rowVars   == <<status, slot, receipt, version, commitHash>>
storeVars == <<now, slots, rowVars, intents, customs, scans, answered,
               refunded>>

Decisions == {"MATCH", "MISMATCH"}
IntentRow == [booking : Bookings, request : PayRequests,
              status : {"REQUESTED", "COMPLETED"}]

StoreTypeOK ==
  /\ now \in 0..MaxTime
  /\ slots \subseteq Slots
  /\ status \in [Bookings -> Status \cup {Absent}]
  /\ slot \in [Bookings -> Slots \cup {NoSlot}]
  /\ receipt \in [Bookings -> TxRefs \cup {NoReceipt}]
  /\ version \in [Bookings -> Nat]
  /\ commitHash \in [Bookings -> {"none", "settlement", "refund"}]
  /\ intents \in Seq(IntentRow)
  /\ customs \subseteq Bookings \X Decisions
  /\ scans \subseteq Bookings \X {"APPROVED", "DENIED"}
  /\ answered \subseteq Bookings \X {"APPROVED", "DENIED"}
  /\ refunded \subseteq Bookings

StoreInit ==
  /\ now = 0
  /\ slots = {}
  /\ status = [b \in Bookings |-> Absent]
  /\ slot = [b \in Bookings |-> NoSlot]
  /\ receipt = [b \in Bookings |-> NoReceipt]
  /\ version = [b \in Bookings |-> 0]
  /\ commitHash = [b \in Bookings |-> "none"]
  /\ intents = <<>>
  /\ customs = {}
  /\ scans = {}
  /\ answered = {}
  /\ refunded = {}

-----------------------------------------------------------------------------
\* Slot capacity and the row update shared by every mutation.

\* Bookings other than b that the capacity guard counts against slot s.
Occupants(s, b) ==
  {c \in Bookings \ {b} : slot[c] = s /\ status[c] \in CapacityHolding}

\* The BEFORE UPDATE trigger on truck_bookings: a row may enter a
\* capacity-holding status only while the others leave it a place.
enforce_slot_capacity(b, s, next) ==
  s # NoSlot /\ next \in CapacityHolding =>
    Cardinality(Occupants(s, b)) < Capacity[s]

slotCapacityFree(s, b) == Cardinality(Occupants(s, b)) < Capacity[s]

\* Mutant: the row is updated without consulting the transition table.
transitionTxUnchecked(b, next, s, r, h) ==
  /\ enforce_slot_capacity(b, s, next)
  /\ status' = [status EXCEPT ![b] = next]
  /\ slot' = [slot EXCEPT ![b] = s]
  /\ receipt' = [receipt EXCEPT ![b] = r]
  /\ commitHash' = [commitHash EXCEPT ![b] = h]
  /\ version' = [version EXCEPT ![b] = @ + 1]

\* UPDATE truck_bookings ... WHERE status and version still match.  The row
\* takes slot s, receipt r and ledger commit hash h.
transitionTx(b, next, s, r, h) ==
  /\ ValidTransition(status[b], next)
  /\ enforce_slot_capacity(b, s, next)
  /\ status' = [status EXCEPT ![b] = next]
  /\ slot' = [slot EXCEPT ![b] = s]
  /\ receipt' = [receipt EXCEPT ![b] = r]
  /\ commitHash' = [commitHash EXCEPT ![b] = h]
  /\ version' = [version EXCEPT ![b] = @ + 1]

\* A transition that sets no other column.
moveTx(b, next) == transitionTx(b, next, slot[b], receipt[b], commitHash[b])

-----------------------------------------------------------------------------
\* Slots and the creation of bookings.

CreateSlot(s) ==
  /\ s \notin slots
  /\ \A t \in slots : SlotTerminal[t] = SlotTerminal[s] =>
                        StartsAt[t] # StartsAt[s]
  /\ slots' = slots \cup {s}
  /\ UNCHANGED <<now, rowVars, intents, customs, scans, answered, refunded>>

Create(b) ==
  /\ status[b] = Absent
  /\ now <= ExpiresAt[b]
  /\ status' = [status EXCEPT ![b] = IF b \in Offline THEN "PENDING_SYNC"
                                                      ELSE "DRAFTED"]
  /\ version' = [version EXCEPT ![b] = 1]
  /\ UNCHANGED <<now, slots, slot, receipt, commitHash, intents, customs,
                 scans, answered, refunded>>

ReserveSlot(b, s) ==
  /\ status[b] \in {"DRAFTED", "RECONCILIATION_REQUIRED"}
  /\ s \in slots
  /\ SlotTerminal[s] = Terminal[b]
  /\ now < EndsAt[s]
  /\ slotCapacityFree(s, b)
  /\ transitionTx(b, "SLOT_RESERVED", s, receipt[b], commitHash[b])
  /\ UNCHANGED <<now, slots, intents, customs, scans, answered, refunded>>

\* An offline booking meets a slot it cannot have: never a silent drop.
ReconcileConflict(b, s) ==
  \/ SlotTerminal[s] # Terminal[b]
  \/ now >= EndsAt[s]
  \/ ~slotCapacityFree(s, b)

Reconcile(b, s) ==
  /\ status[b] = "PENDING_SYNC"
  /\ s \in slots
  /\ \/ /\ ReconcileConflict(b, s)
        /\ moveTx(b, "RECONCILIATION_REQUIRED")
     \/ /\ ~ReconcileConflict(b, s)
        /\ transitionTx(b, "SLOT_RESERVED", s, receipt[b], commitHash[b])
  /\ UNCHANGED <<now, slots, intents, customs, scans, answered, refunded>>

-----------------------------------------------------------------------------
\* Payment.

CreatePaymentIntent(b, p) ==
  /\ status[b] = "SLOT_RESERVED"
  /\ \A i \in DOMAIN intents : intents[i].request # p
  /\ intents' = Append(intents, [booking |-> b, request |-> p,
                                 status |-> "REQUESTED"])
  /\ UNCHANGED <<now, slots, rowVars, customs, scans, answered, refunded>>

\* Mutant: the intent of any booking will do.
MatchingIntentsAny(b, r) ==
  {i \in DOMAIN intents : /\ intents[i].status = "REQUESTED"
                          /\ TxRef[intents[i].request] = r}

\* Rows of the REQUESTED intents of b that carry switch reference r.
MatchingIntents(b, r) ==
  {i \in DOMAIN intents : /\ intents[i].booking = b
                          /\ intents[i].status = "REQUESTED"
                          /\ TxRef[intents[i].request] = r}

\* Mutant: no unique index.
ReceiptUnusedNoIndex(b, r) == TRUE

\* The partial unique index on payment_receipt_ref: r is bound to no other row.
ReceiptUnused(b, r) == \A c \in Bookings \ {b} : receipt[c] # r

ConfirmPayment(b, r) ==
  /\ status[b] = "SLOT_RESERVED"
  /\ MatchingIntents(b, r) # {}
  /\ intents' = [i \in DOMAIN intents |->
                   IF i \in MatchingIntents(b, r)
                     THEN [intents[i] EXCEPT !.status = "COMPLETED"]
                     ELSE intents[i]]
  /\ ReceiptUnused(b, r)
  /\ transitionTx(b, "PAID", slot[b], r, commitHash[b])
  /\ UNCHANGED <<now, slots, customs, scans, answered, refunded>>

-----------------------------------------------------------------------------
\* Customs cross-validation and the gate.

hasCustomsMatch(b) == <<b, "MATCH">> \in customs

BeginCustomsValidation(b) ==
  /\ b \in Declared
  /\ status[b] = "PAID"
  /\ ~hasCustomsMatch(b)
  /\ moveTx(b, "VALIDATION_PENDING")
  /\ UNCHANGED <<now, slots, intents, customs, scans, answered, refunded>>

RecordCustomsValidation(b, decision) ==
  /\ b \in Declared
  /\ status[b] = "VALIDATION_PENDING"
  /\ customs' = customs \cup {<<b, decision>>}
  /\ moveTx(b, IF decision = "MATCH" THEN "PAID" ELSE "REJECTED")
  /\ UNCHANGED <<now, slots, intents, scans, answered, refunded>>

\* Mutant: the gate trusts PAID and does not look for a MATCH row.
GateChecksNoCustoms(b, scannedAt) ==
  /\ status[b] = "PAID"
  /\ receipt[b] # NoReceipt
  /\ slot[b] # NoSlot
  /\ scannedAt \in StartsAt[slot[b]]..EndsAt[slot[b]]

\* The checks of the gate controller; scannedAt comes from the scan request.
GateChecks(b, scannedAt) ==
  /\ status[b] = "PAID"
  /\ receipt[b] # NoReceipt
  /\ b \in Declared => hasCustomsMatch(b)
  /\ slot[b] # NoSlot
  /\ scannedAt \in StartsAt[slot[b]]..EndsAt[slot[b]]

\* A denied scan inserts its row and then returns ErrGateDenied, on which
\* tenantdb.WithTx rolls the row back: only the officer sees the denial.
RecordGateScan(b, scannedAt) ==
  /\ status[b] # Absent
  /\ \/ /\ GateChecks(b, scannedAt)
        /\ scans' = scans \cup {<<b, "APPROVED">>}
        /\ answered' = answered \cup {<<b, "APPROVED">>}
        /\ moveTx(b, "GATE_APPROVED")
     \/ /\ ~GateChecks(b, scannedAt)
        /\ answered' = answered \cup {<<b, "DENIED">>}
        /\ UNCHANGED <<scans, rowVars>>
  /\ UNCHANGED <<now, slots, intents, customs, refunded>>

\* The caller hands over the commit hash of the posted settlement.
Complete(b) ==
  /\ status[b] # Absent
  /\ transitionTx(b, "COMPLETED", slot[b], receipt[b], "settlement")
  /\ UNCHANGED <<now, slots, intents, customs, scans, answered, refunded>>

-----------------------------------------------------------------------------
\* Cancellation, expiry and the refund rail.

FgnShare(b) == (Amount[b] * FgnShareBPS) \div 10000

\* TigerBeetle accepts a settlement or a refund only if both shares are
\* positive; transfer ids are deterministic, so a repeat is absorbed.
LedgerAccepts(b) == FgnShare(b) > 0 /\ FgnShare(b) < Amount[b]

\* Mutant: a booking in customs validation is cancelled without a refund.
CancelNoRefund(b) ==
  /\ status[b] # Absent
  /\ \/ /\ status[b] # "PAID"
        /\ moveTx(b, "CANCELLED")
        /\ UNCHANGED refunded
     \/ /\ status[b] = "PAID" /\ LedgerAccepts(b)
        /\ refunded' = refunded \cup {b}
        /\ transitionTx(b, "REFUNDED", slot[b], receipt[b], "refund")
  /\ UNCHANGED <<now, slots, intents, customs, scans, answered>>

Cancel(b) ==
  /\ status[b] # Absent
  /\ \/ /\ status[b] \notin HoldsMoney
        /\ moveTx(b, "CANCELLED")
        /\ UNCHANGED refunded
     \/ /\ status[b] \in HoldsMoney /\ LedgerAccepts(b)
        /\ refunded' = refunded \cup {b}
        /\ transitionTx(b, "REFUNDED", slot[b], receipt[b], "refund")
  /\ UNCHANGED <<now, slots, intents, customs, scans, answered>>

\* The rows ExpireDue selects when none of them is locked.
Due == {b \in Bookings : /\ status[b] \in {"SLOT_RESERVED"} \cup HoldsMoney
                         /\ ExpiresAt[b] < now}

ExpiryOf(b) == IF status[b] \in HoldsMoney THEN "REFUNDED" ELSE "EXPIRED"

\* The sweep handles the due rows S that no other transaction has locked (FOR
\* UPDATE SKIP LOCKED), all in one transaction: one refused refund fails it.
ExpireDue(S) ==
  /\ S \subseteq Due
  /\ \A b \in S : status[b] \in HoldsMoney => LedgerAccepts(b)
  /\ refunded' = refunded \cup {b \in S : status[b] \in HoldsMoney}
  /\ status' = [b \in Bookings |-> IF b \in S THEN ExpiryOf(b) ELSE status[b]]
  /\ version' = [b \in Bookings |-> IF b \in S THEN version[b] + 1
                                               ELSE version[b]]
  /\ commitHash' = [b \in Bookings |->
                      IF b \in S /\ status[b] \in HoldsMoney THEN "refund"
                                                             ELSE commitHash[b]]
  /\ UNCHANGED <<now, slots, slot, receipt, intents, customs, scans, answered>>

\* A Cancel or an ExpireDue that posts refunds and then does not commit: a
\* later row of the sweep fails, the commit fails, or the process dies.
AbortAfterRefund(S) ==
  /\ S # {}
  /\ \/ \E b \in Bookings : S = {b} /\ status[b] \in HoldsMoney
     \/ S \subseteq {b \in Due : status[b] \in HoldsMoney}
  /\ \A b \in S : LedgerAccepts(b)
  /\ refunded' = refunded \cup S
  /\ UNCHANGED <<now, slots, rowVars, intents, customs, scans, answered>>

Tick == /\ now < MaxTime
        /\ now' = now + 1
        /\ UNCHANGED <<slots, rowVars, intents, customs, scans, answered,
                       refunded>>

-----------------------------------------------------------------------------
StoreNext ==
  \/ Tick
  \/ \E s \in Slots : CreateSlot(s)
  \/ \E b \in Bookings :
       \/ Create(b)
       \/ \E s \in Slots : ReserveSlot(b, s) \/ Reconcile(b, s)
       \/ \E p \in PayRequests : CreatePaymentIntent(b, p)
       \/ \E r \in TxRefs : ConfirmPayment(b, r)
       \/ BeginCustomsValidation(b)
       \/ \E d \in Decisions : RecordCustomsValidation(b, d)
       \/ \E t \in 0..MaxTime : RecordGateScan(b, t)
       \/ Complete(b)
       \/ Cancel(b)
  \/ \E S \in SUBSET Bookings : ExpireDue(S) \/ AbortAfterRefund(S)

StoreSpec == StoreInit /\ [][StoreNext]_storeVars

\* The retry that ExpireDue's comment counts on: time passes, and the sweep is
\* repeated, finding no row locked, for as long as something is due.
SweepRetrySpec == /\ StoreSpec
                  /\ WF_storeVars(Tick)
                  /\ WF_storeVars(Due # {} /\ ExpireDue(Due))

-----------------------------------------------------------------------------
\* Properties.

\* No slot ever holds more bookings than its capacity, whatever reservations,
\* reconciliations, customs pauses and expiries interleave (slotCapacityFree,
\* enforce_slot_capacity).
NoOverbooking ==
  \A s \in Slots :
    Cardinality({b \in Bookings :
                   slot[b] = s /\ status[b] \in {"SLOT_RESERVED", "PAID",
                                     "VALIDATION_PENDING", "GATE_APPROVED"}})
      <= Capacity[s]

\* One switch receipt pays for one booking, even when the switch answers the
\* same reference to two payment requests (ConfirmPayment).
ReceiptPaysOneBooking ==
  \A b, c \in Bookings :
    receipt[b] # NoReceipt /\ receipt[b] = receipt[c] => b = c

\* A booking is paid by a completed intent of its own, and a completed intent
\* has paid its booking (CreatePaymentIntent, ConfirmPayment).
PaidByOwnIntent ==
  /\ \A b \in Bookings :
       receipt[b] # NoReceipt =>
         \E i \in DOMAIN intents : /\ intents[i].booking = b
                                   /\ intents[i].status = "COMPLETED"
                                   /\ TxRef[intents[i].request] = receipt[b]
  /\ \A i \in DOMAIN intents :
       intents[i].status = "COMPLETED" =>
         receipt[intents[i].booking] = TxRef[intents[i].request]

\* No truck with declared cargo passes the gate unless customs matched it, and
\* none that customs refused (RecordCustomsValidation, RecordGateScan).
ClearedBeforeGate ==
  \A b \in Declared :
    status[b] \in {"GATE_APPROVED", "COMPLETED"} =>
      <<b, "MATCH">> \in customs /\ <<b, "MISMATCH">> \notin customs

\* A booking that is cancelled or expires while it holds trucker money ends
\* REFUNDED with the refund posted, never CANCELLED or EXPIRED.
PaidMoneyIsReturned ==
  [][\A b \in Bookings :
       /\ status[b] \in {"PAID", "VALIDATION_PENDING"}
       /\ status'[b] \in {"CANCELLED", "EXPIRED", "REFUNDED"}
       => status'[b] = "REFUNDED" /\ b \in refunded']_storeVars

Lifecycle == INSTANCE BookingLifecycle

\* The store implements the booking lifecycle: rows move along the transition
\* table only, one version per move (transitionTx and its callers).
LifecycleSpec == Lifecycle!Spec

\* What ExpireDue says of a refused refund: the affected booking keeps its
\* state; any other due booking still expires.
UnaffectedBookingExpires ==
  \A b \in Bookings :
    b \in Due /\ LedgerAccepts(b) ~> b \notin Due

\* What the README says of gate scans: every scan, approved or denied, is
\* persisted for audit.
ScanAudited == answered \subseteq scans

\* What migration 0014 says of the refund rail: no terminal state forgets that
\* the trucker paid.
NoStrandedMoney ==
  \A b \in Bookings :
    status[b] \in {"CANCELLED", "EXPIRED"} => receipt[b] = NoReceipt
=============================================================================
