---------------------------- MODULE BookingProofs ----------------------------
(***************************************************************************)
(* Theorems about bookings, for every set of bookings, slots and payment   *)
(* requests: first of the store, then of the system that the handlers and  *)
(* the workflow make with it.                                              *)
(*                                                                         *)
(* RowSteps sorts the store's steps by what they do to truck_bookings,     *)
(* which is all that the capacity and lifecycle theorems depend on.  The   *)
(* handlers and the workflow use the store only through its operations, so *)
(* everything proved of it holds of the system.  What the system promises  *)
(* beyond the store rests on RunInv: an approved scan, on its way to the   *)
(* run or in it, means that the truck is through, and the audit stage that *)
(* the settlement is posted; and on DeadlineInv: a run belongs to a        *)
(* booking with a slot, whose end is its deadline, and past the payment to *)
(* one with a receipt, which no step takes back.                           *)
(***************************************************************************)
EXTENDS BookingWorkflow, FiniteSetTheorems, TLAPS


-----------------------------------------------------------------------------
\* Type correctness.

Hashes == {"none", "settlement", "refund"}

\* The part of StoreTypeOK about the columns of truck_bookings.
RowsTyped ==
  /\ status \in [Bookings -> Status \cup {Absent}]
  /\ slot \in [Bookings -> Slots \cup {NoSlot}]
  /\ receipt \in [Bookings -> TxRefs \cup {NoReceipt}]
  /\ version \in [Bookings -> Nat]
  /\ commitHash \in [Bookings -> Hashes]

\* The part of StoreTypeOK about the other tables, the clock and the ledger.
OthersTyped ==
  /\ now \in 0..MaxTime
  /\ slots \subseteq Slots
  /\ intents \in Seq(IntentRow)
  /\ customs \subseteq Bookings \X Decisions
  /\ scans \subseteq Bookings \X {"APPROVED", "DENIED"}
  /\ answered \subseteq Bookings \X {"APPROVED", "DENIED"}
  /\ refunded \subseteq Bookings

\* A state whose two parts are typed is typed.
LEMMA PartsTyped ==
  ASSUME RowsTyped', OthersTyped'
  PROVE  StoreTypeOK'
BY DEF RowsTyped, OthersTyped, StoreTypeOK, Hashes

\* A typed state has typed parts.
LEMMA TypedParts ==
  ASSUME StoreTypeOK
  PROVE  RowsTyped /\ OthersTyped
BY DEF RowsTyped, OthersTyped, StoreTypeOK, Hashes

\* The row a booking already has is of the columns' types.
LEMMA RowTyped ==
  ASSUME StoreTypeOK, NEW b \in Bookings
  PROVE  /\ slot[b] \in Slots \cup {NoSlot}
         /\ receipt[b] \in TxRefs \cup {NoReceipt}
         /\ commitHash[b] \in Hashes
BY DEF StoreTypeOK, Hashes

\* The row update of transitionTx writes values of the columns' types.
LEMMA TransitionTyped ==
  ASSUME StoreTypeOK,
         NEW b \in Bookings, NEW next, NEW s \in Slots \cup {NoSlot},
         NEW r \in TxRefs \cup {NoReceipt}, NEW h \in Hashes,
         transitionTx(b, next, s, r, h)
  PROVE  next \in Status /\ RowsTyped'
<1>1. next \in Status
  BY DEF transitionTx, ValidTransition, transitions, Status
<1> QED
  BY <1>1 DEF StoreTypeOK, RowsTyped, transitionTx, Hashes

\* So does a transition that sets no other column.
LEMMA MoveTyped ==
  ASSUME StoreTypeOK, NEW b \in Bookings, NEW next, moveTx(b, next)
  PROVE  next \in Status /\ RowsTyped'
BY RowTyped, TransitionTyped DEF moveTx

\* Completing the intents of a confirmation keeps the table a sequence of rows.
LEMMA IntentsTyped ==
  ASSUME StoreTypeOK, NEW b \in Bookings, NEW r \in TxRefs, ConfirmPayment(b, r)
  PROVE  intents' \in Seq(IntentRow)
<1>1. intents \in Seq(IntentRow) /\ DOMAIN intents = 1..Len(intents)
  BY DEF StoreTypeOK
<1>2. /\ DOMAIN intents' = 1..Len(intents)
      /\ intents' = [i \in DOMAIN intents' |-> intents'[i]]
  BY <1>1 DEF ConfirmPayment
<1>3. ASSUME NEW i \in 1..Len(intents)
      PROVE  intents'[i] \in IntentRow
  <2>1. intents[i] \in IntentRow
    BY <1>1
  <2>2. [intents[i] EXCEPT !.status = "COMPLETED"] \in IntentRow
    BY <2>1 DEF IntentRow
  <2> QED
    BY <1>1, <2>1, <2>2 DEF ConfirmPayment
<1> QED
  BY <1>1, <1>2, <1>3

\* Every step of the store keeps its state within its types.
LEMMA TypeStep ==
  ASSUME StoreTypeOK, StoreNext
  PROVE  StoreTypeOK'
<1> USE TypedParts
<1>1. CASE Tick
  <2>1. RowsTyped'
    BY <1>1 DEF Tick, rowVars, RowsTyped
  <2>2. now' \in 0..MaxTime
    BY <1>1, StoreConstants DEF Tick, OthersTyped
  <2>3. UNCHANGED <<slots, intents, customs, scans, answered, refunded>>
    BY <1>1 DEF Tick
  <2>4. OthersTyped'
    BY <2>2, <2>3 DEF OthersTyped
  <2> QED
    BY <2>1, <2>4, PartsTyped
<1>2. ASSUME NEW s \in Slots, CreateSlot(s)
      PROVE  StoreTypeOK'
  <2>1. RowsTyped'
    BY <1>2 DEF CreateSlot, rowVars, RowsTyped
  <2>2. /\ slots' \subseteq Slots
        /\ UNCHANGED <<now, intents, customs, scans, answered, refunded>>
    BY <1>2 DEF CreateSlot, OthersTyped
  <2>3. OthersTyped'
    BY <2>2 DEF OthersTyped
  <2> QED
    BY <2>1, <2>3, PartsTyped
<1>3. ASSUME NEW b \in Bookings, Create(b)
      PROVE  StoreTypeOK'
  <2>1. RowsTyped'
    BY <1>3 DEF Create, RowsTyped, Status
  <2>2. UNCHANGED <<now, slots, intents, customs, scans, answered, refunded>>
    BY <1>3 DEF Create
  <2>3. OthersTyped'
    BY <2>2 DEF OthersTyped
  <2> QED
    BY <2>1, <2>3, PartsTyped
<1>4. ASSUME NEW b \in Bookings, NEW s \in Slots, ReserveSlot(b, s)
      PROVE  StoreTypeOK'
  <2>1. RowsTyped'
    BY <1>4, RowTyped, TransitionTyped DEF ReserveSlot
  <2>2. UNCHANGED <<now, slots, intents, customs, scans, answered, refunded>>
    BY <1>4 DEF ReserveSlot
  <2>3. OthersTyped'
    BY <2>2 DEF OthersTyped
  <2> QED
    BY <2>1, <2>3, PartsTyped
<1>5. ASSUME NEW b \in Bookings, NEW s \in Slots, Reconcile(b, s)
      PROVE  StoreTypeOK'
  <2>1. RowsTyped'
    BY <1>5, RowTyped, TransitionTyped, MoveTyped DEF Reconcile
  <2>2. UNCHANGED <<now, slots, intents, customs, scans, answered, refunded>>
    BY <1>5 DEF Reconcile
  <2>3. OthersTyped'
    BY <2>2 DEF OthersTyped
  <2> QED
    BY <2>1, <2>3, PartsTyped
<1>6. ASSUME NEW b \in Bookings, NEW p \in PayRequests, CreatePaymentIntent(b, p)
      PROVE  StoreTypeOK'
  <2>1. [booking |-> b, request |-> p, status |-> "REQUESTED"] \in IntentRow
    BY DEF IntentRow
  <2>2. intents' \in Seq(IntentRow)
    BY <1>6, <2>1 DEF StoreTypeOK, CreatePaymentIntent
  <2>3. RowsTyped'
    BY <1>6 DEF CreatePaymentIntent, rowVars, RowsTyped, StoreTypeOK, Hashes
  <2>4. UNCHANGED <<now, slots, customs, scans, answered, refunded>>
    BY <1>6 DEF CreatePaymentIntent
  <2>5. OthersTyped'
    BY <2>2, <2>4 DEF OthersTyped
  <2> QED
    BY <2>3, <2>5, PartsTyped
<1>7. ASSUME NEW b \in Bookings, NEW r \in TxRefs, ConfirmPayment(b, r)
      PROVE  StoreTypeOK'
  <2>1. RowsTyped'
    BY <1>7, RowTyped, TransitionTyped DEF ConfirmPayment
  <2>2. intents' \in Seq(IntentRow)
    BY <1>7, IntentsTyped
  <2>3. UNCHANGED <<now, slots, customs, scans, answered, refunded>>
    BY <1>7 DEF ConfirmPayment
  <2>4. OthersTyped'
    BY <2>2, <2>3 DEF OthersTyped
  <2> QED
    BY <2>1, <2>4, PartsTyped
<1>8. ASSUME NEW b \in Bookings, BeginCustomsValidation(b)
      PROVE  StoreTypeOK'
  <2>1. RowsTyped'
    BY <1>8, MoveTyped DEF BeginCustomsValidation
  <2>2. UNCHANGED <<now, slots, intents, customs, scans, answered, refunded>>
    BY <1>8 DEF BeginCustomsValidation
  <2>3. OthersTyped'
    BY <2>2 DEF OthersTyped
  <2> QED
    BY <2>1, <2>3, PartsTyped
<1>9. ASSUME NEW b \in Bookings, NEW d \in Decisions,
             RecordCustomsValidation(b, d)
      PROVE  StoreTypeOK'
  <2>1. RowsTyped'
    BY <1>9, MoveTyped DEF RecordCustomsValidation
  <2>2. /\ customs' \subseteq Bookings \X Decisions
        /\ UNCHANGED <<now, slots, intents, scans, answered, refunded>>
    BY <1>9 DEF StoreTypeOK, RecordCustomsValidation
  <2>3. OthersTyped'
    BY <2>2 DEF OthersTyped
  <2> QED
    BY <2>1, <2>3, PartsTyped
<1>10. ASSUME NEW b \in Bookings, NEW t \in 0..MaxTime, RecordGateScan(b, t)
       PROVE  StoreTypeOK'
  <2>1. CASE GateChecks(b, t)
    <3>1. RowsTyped'
      BY <1>10, <2>1, MoveTyped DEF RecordGateScan
    <3>2. /\ scans' = scans \cup {<<b, "APPROVED">>}
          /\ answered' = answered \cup {<<b, "APPROVED">>}
          /\ UNCHANGED <<now, slots, intents, customs, refunded>>
      BY <1>10, <2>1 DEF RecordGateScan
    <3>3. OthersTyped'
      BY <3>2 DEF OthersTyped
    <3> QED
      BY <3>1, <3>3, PartsTyped
  <2>2. CASE ~GateChecks(b, t)
    <3>1. RowsTyped'
      BY <1>10, <2>2 DEF RecordGateScan, rowVars, RowsTyped
    <3>2. /\ answered' = answered \cup {<<b, "DENIED">>}
          /\ UNCHANGED <<now, slots, intents, customs, scans, refunded>>
      BY <1>10, <2>2 DEF RecordGateScan
    <3>3. OthersTyped'
      BY <3>2 DEF OthersTyped
    <3> QED
      BY <3>1, <3>3, PartsTyped
  <2> QED
    BY <2>1, <2>2
<1>11. ASSUME NEW b \in Bookings, Complete(b)
       PROVE  StoreTypeOK'
  <2>1. RowsTyped'
    <3>1. "settlement" \in Hashes
      BY DEF Hashes
    <3> QED
      BY <1>11, <3>1, RowTyped, TransitionTyped DEF Complete
  <2>2. UNCHANGED <<now, slots, intents, customs, scans, answered, refunded>>
    BY <1>11 DEF Complete
  <2>3. OthersTyped'
    BY <2>2 DEF OthersTyped
  <2> QED
    BY <2>1, <2>3, PartsTyped
<1>12. ASSUME NEW b \in Bookings, Cancel(b)
       PROVE  StoreTypeOK'
  <2>1. RowsTyped'
    <3>1. "refund" \in Hashes
      BY DEF Hashes
    <3> QED
      BY <1>12, <3>1, RowTyped, TransitionTyped, MoveTyped DEF Cancel
  <2>2. /\ refunded' \subseteq Bookings
        /\ UNCHANGED <<now, slots, intents, customs, scans, answered>>
    BY <1>12 DEF StoreTypeOK, Cancel
  <2>3. OthersTyped'
    BY <2>2 DEF OthersTyped
  <2> QED
    BY <2>1, <2>3, PartsTyped
<1>13. ASSUME NEW S \in SUBSET Bookings, ExpireDue(S)
       PROVE  StoreTypeOK'
  <2>1. status' \in [Bookings -> Status \cup {Absent}]
    <3>1. \A b \in Bookings : ExpiryOf(b) \in Status
      BY DEF ExpiryOf, Status
    <3> QED
      BY <1>13, <3>1 DEF StoreTypeOK, ExpireDue
  <2>2. version' \in [Bookings -> Nat]
    BY <1>13 DEF StoreTypeOK, ExpireDue
  <2>3. commitHash' \in [Bookings -> Hashes]
    BY <1>13 DEF StoreTypeOK, ExpireDue, Hashes
  <2>4. RowsTyped'
    <3>1. UNCHANGED <<slot, receipt>>
      BY <1>13 DEF ExpireDue
    <3> QED
      BY <2>1, <2>2, <2>3, <3>1 DEF StoreTypeOK, RowsTyped
  <2>5. /\ refunded' \subseteq Bookings
        /\ UNCHANGED <<now, slots, intents, customs, scans, answered>>
    BY <1>13 DEF StoreTypeOK, ExpireDue
  <2>6. OthersTyped'
    BY <2>5 DEF OthersTyped
  <2> QED
    BY <2>4, <2>6, PartsTyped
<1>14. ASSUME NEW S \in SUBSET Bookings, AbortAfterRefund(S)
       PROVE  StoreTypeOK'
  <2>1. RowsTyped'
    BY <1>14 DEF AbortAfterRefund, rowVars, RowsTyped
  <2>2. /\ refunded' \subseteq Bookings
        /\ UNCHANGED <<now, slots, intents, customs, scans, answered>>
    BY <1>14 DEF AbortAfterRefund, OthersTyped
  <2>3. OthersTyped'
    BY <2>2 DEF OthersTyped
  <2> QED
    BY <2>1, <2>3, PartsTyped
<1> QED
  BY <1>1, <1>2, <1>3, <1>4, <1>5, <1>6, <1>7, <1>8, <1>9, <1>10, <1>11, <1>12,
     <1>13, <1>14 DEF StoreNext

\* The store's state keeps its types (every operation of store.go).
THEOREM StoreTyped == StoreSpec => []StoreTypeOK
<1>1. StoreInit => StoreTypeOK
  <2>1. <<>> \in Seq(IntentRow)
    OBVIOUS
  <2> QED
    BY <2>1, StoreConstants DEF StoreInit, StoreTypeOK
<1>2. StoreTypeOK /\ [StoreNext]_storeVars => StoreTypeOK'
  <2> SUFFICES ASSUME StoreTypeOK, [StoreNext]_storeVars
               PROVE  StoreTypeOK'
    OBVIOUS
  <2>1. CASE StoreNext
    BY <2>1, TypeStep
  <2>2. CASE UNCHANGED storeVars
    BY <2>2 DEF StoreTypeOK, storeVars, rowVars
  <2> QED
    BY <2>1, <2>2
<1> QED
  BY <1>1, <1>2, PTL DEF StoreSpec

-----------------------------------------------------------------------------
\* What a step of the store does to the booking rows.

\* One row takes one transition of the table.
RowMoves == \E b \in Bookings, next \in Status, s \in Slots \cup {NoSlot},
               r \in TxRefs \cup {NoReceipt}, h \in Hashes :
              transitionTx(b, next, s, r, h)

\* transitionTx, with the columns it is given, is a RowMoves.
LEMMA TransitionMoves ==
  ASSUME StoreTypeOK,
         NEW b \in Bookings, NEW next, NEW s \in Slots \cup {NoSlot},
         NEW r \in TxRefs \cup {NoReceipt}, NEW h \in Hashes,
         transitionTx(b, next, s, r, h)
  PROVE  RowMoves
BY TransitionTyped DEF RowMoves

\* So is a moveTx.
LEMMA MoveMoves ==
  ASSUME StoreTypeOK, NEW b \in Bookings, NEW next, moveTx(b, next)
  PROVE  RowMoves
BY RowTyped, TransitionMoves DEF moveTx

\* A step of the store leaves the rows alone, inserts one, moves one along the
\* table, or is an expiry sweep: no operation writes a row in any other way.
LEMMA RowSteps ==
  ASSUME StoreTypeOK, StoreNext
  PROVE  \/ UNCHANGED rowVars
         \/ \E b \in Bookings : Create(b)
         \/ RowMoves
         \/ \E S \in SUBSET Bookings : ExpireDue(S)
<1>1. CASE Tick \/ \E s \in Slots : CreateSlot(s)
  BY <1>1 DEF Tick, CreateSlot
<1>2. ASSUME NEW b \in Bookings, NEW s \in Slots, ReserveSlot(b, s)
      PROVE  RowMoves
  BY <1>2, RowTyped, TransitionMoves DEF ReserveSlot
<1>3. ASSUME NEW b \in Bookings, NEW s \in Slots, Reconcile(b, s)
      PROVE  RowMoves
  BY <1>3, RowTyped, TransitionMoves, MoveMoves DEF Reconcile
<1>4. ASSUME NEW b \in Bookings, NEW p \in PayRequests, CreatePaymentIntent(b, p)
      PROVE  UNCHANGED rowVars
  BY <1>4 DEF CreatePaymentIntent
<1>5. ASSUME NEW b \in Bookings, NEW r \in TxRefs, ConfirmPayment(b, r)
      PROVE  RowMoves
  BY <1>5, RowTyped, TransitionMoves DEF ConfirmPayment
<1>6. ASSUME NEW b \in Bookings, BeginCustomsValidation(b)
      PROVE  RowMoves
  BY <1>6, MoveMoves DEF BeginCustomsValidation
<1>7. ASSUME NEW b \in Bookings, NEW d \in Decisions,
             RecordCustomsValidation(b, d)
      PROVE  RowMoves
  BY <1>7, MoveMoves DEF RecordCustomsValidation
<1>8. ASSUME NEW b \in Bookings, NEW t \in 0..MaxTime, RecordGateScan(b, t)
      PROVE  RowMoves \/ UNCHANGED rowVars
  BY <1>8, MoveMoves DEF RecordGateScan
<1>9. ASSUME NEW b \in Bookings, Complete(b)
      PROVE  RowMoves
  <2>1. "settlement" \in Hashes
    BY DEF Hashes
  <2> QED
    BY <1>9, <2>1, RowTyped, TransitionMoves DEF Complete
<1>10. ASSUME NEW b \in Bookings, Cancel(b)
       PROVE  RowMoves
  <2>1. "refund" \in Hashes
    BY DEF Hashes
  <2> QED
    BY <1>10, <2>1, RowTyped, TransitionMoves, MoveMoves DEF Cancel
<1>11. ASSUME NEW S \in SUBSET Bookings, AbortAfterRefund(S)
       PROVE  UNCHANGED rowVars
  BY <1>11 DEF AbortAfterRefund
<1> QED
  BY <1>1, <1>2, <1>3, <1>4, <1>5, <1>6, <1>7, <1>8, <1>9, <1>10, <1>11
  DEF StoreNext

-----------------------------------------------------------------------------
\* Slot capacity.

\* The bookings that hold a place of slot s.
Holders(s) == {b \in Bookings : slot[b] = s /\ status[b] \in CapacityHolding}

\* A slot whose holders only become fewer stays within its capacity.
LEMMA FewerHolders ==
  ASSUME NEW s \in Slots, Cardinality(Holders(s)) <= Capacity[s],
         Holders(s)' \subseteq Holders(s)
  PROVE  Cardinality(Holders(s)') <= Capacity[s]
<1>1. IsFiniteSet(Holders(s))
  BY StoreConstants, FS_Subset DEF Holders
<1>2. /\ Cardinality(Holders(s)) \in Nat
      /\ Cardinality(Holders(s)') \in Nat
      /\ Cardinality(Holders(s)') <= Cardinality(Holders(s))
  BY <1>1, FS_Subset, FS_CardinalityType
<1>3. Capacity[s] \in Nat
  BY StoreConstants
<1> QED
  BY <1>2, <1>3

\* A row that moves finds a place in the slot it holds, or frees one.
LEMMA MoveKeepsCapacity ==
  ASSUME StoreTypeOK, RowMoves, NEW t \in Slots,
         Cardinality(Holders(t)) <= Capacity[t]
  PROVE  Cardinality(Holders(t)') <= Capacity[t]
<1> PICK b \in Bookings, next \in Status, s \in Slots \cup {NoSlot},
         r \in TxRefs \cup {NoReceipt}, h \in Hashes :
           transitionTx(b, next, s, r, h)
  BY DEF RowMoves
<1>1. /\ status' = [status EXCEPT ![b] = next]
      /\ slot' = [slot EXCEPT ![b] = s]
      /\ enforce_slot_capacity(b, s, next)
  BY DEF transitionTx
<1>2. CASE t = s /\ next \in CapacityHolding
  <2>1. Cardinality(Occupants(t, b)) < Capacity[t]
    BY <1>1, <1>2, StoreConstants DEF enforce_slot_capacity
  <2>2. Holders(t)' = Occupants(t, b) \cup {b}
    BY <1>1, <1>2 DEF Holders, Occupants, StoreTypeOK
  <2>3. IsFiniteSet(Occupants(t, b)) /\ b \notin Occupants(t, b)
    BY StoreConstants, FS_Subset DEF Occupants
  <2>4. /\ Cardinality(Occupants(t, b)) \in Nat
        /\ Cardinality(Holders(t)') = Cardinality(Occupants(t, b)) + 1
    BY <2>2, <2>3, FS_AddElement, FS_CardinalityType
  <2>5. Capacity[t] \in Nat
    BY StoreConstants
  <2> QED
    BY <2>1, <2>4, <2>5
<1>3. CASE ~(t = s /\ next \in CapacityHolding)
  <2>1. Holders(t)' \subseteq Holders(t)
    BY <1>1, <1>3 DEF Holders, StoreTypeOK
  <2> QED
    BY <2>1, FewerHolders
<1> QED
  BY <1>2, <1>3

\* The sweep only takes bookings out of their slots.
LEMMA ExpiryFreesSlots ==
  ASSUME StoreTypeOK, NEW S \in SUBSET Bookings, ExpireDue(S), NEW t \in Slots
  PROVE  Holders(t)' \subseteq Holders(t)
BY DEF StoreTypeOK, ExpireDue, ExpiryOf, Holders, CapacityHolding

\* No slot is ever overbooked: for every number of bookings and every capacity,
\* each path into a capacity-holding status leaves the slot within its
\* capacity (slotCapacityFree, enforce_slot_capacity).
THEOREM StoreNeverOverbooks == StoreSpec => []NoOverbooking
<1> DEFINE Inv == \A s \in Slots : Cardinality(Holders(s)) <= Capacity[s]
<1>1. StoreInit => Inv
  <2> SUFFICES ASSUME StoreInit, NEW s \in Slots
               PROVE  Cardinality(Holders(s)) <= Capacity[s]
    OBVIOUS
  <2>1. Holders(s) = {}
    BY DEF StoreInit, Holders, CapacityHolding, Absent
  <2>2. Capacity[s] \in Nat
    BY StoreConstants
  <2> QED
    BY <2>1, <2>2, FS_EmptySet
<1>2. StoreTypeOK /\ Inv /\ [StoreNext]_storeVars => Inv'
  <2> SUFFICES ASSUME StoreTypeOK, Inv, [StoreNext]_storeVars, NEW t \in Slots
               PROVE  Cardinality(Holders(t)') <= Capacity[t]
    OBVIOUS
  <2>1. Cardinality(Holders(t)) <= Capacity[t]
    OBVIOUS
  <2>2. CASE UNCHANGED rowVars
    <3>1. Holders(t)' = Holders(t)
      BY <2>2 DEF rowVars, Holders
    <3> QED
      BY <2>1, <3>1
  <2>3. ASSUME NEW b \in Bookings, Create(b)
        PROVE  Cardinality(Holders(t)') <= Capacity[t]
    <3>1. Holders(t)' \subseteq Holders(t)
      BY <2>3 DEF Create, Holders, CapacityHolding, StoreTypeOK
    <3> QED
      BY <2>1, <3>1, FewerHolders
  <2>4. CASE RowMoves
    BY <2>1, <2>4, MoveKeepsCapacity
  <2>5. ASSUME NEW S \in SUBSET Bookings, ExpireDue(S)
        PROVE  Cardinality(Holders(t)') <= Capacity[t]
    BY <2>1, <2>5, ExpiryFreesSlots, FewerHolders
  <2>6. CASE UNCHANGED storeVars
    <3>1. UNCHANGED rowVars
      BY <2>6 DEF storeVars
    <3> QED
      BY <2>2, <3>1
  <2> QED
    BY <2>2, <2>3, <2>4, <2>5, <2>6, RowSteps
<1>3. Inv => NoOverbooking
  BY DEF NoOverbooking, Holders, CapacityHolding
<1> QED
  BY <1>1, <1>2, <1>3, StoreTyped, PTL DEF StoreSpec

-----------------------------------------------------------------------------
\* Refinement.

\* Due rows expire along the transition table.
LEMMA ExpiryAllowed ==
  ASSUME NEW b \in Bookings, b \in Due
  PROVE  Lifecycle!ValidTransition(status[b], ExpiryOf(b))
BY DEF Due, ExpiryOf, HoldsMoney, Lifecycle!ValidTransition,
       Lifecycle!transitions

\* The booking store implements the booking lifecycle, for every set of
\* bookings: rows move along the transition table only, one version per move.
THEOREM StoreImplementsLifecycle == StoreSpec => LifecycleSpec
<1>1. StoreInit => Lifecycle!Init
  BY DEF StoreInit, Lifecycle!Init, Absent, Lifecycle!Absent
<1>2. StoreTypeOK /\ [StoreNext]_storeVars
        => [Lifecycle!Next]_<<status, version>>
  <2> SUFFICES ASSUME StoreTypeOK, [StoreNext]_storeVars
               PROVE  [Lifecycle!Next]_<<status, version>>
    OBVIOUS
  <2>1. ASSUME NEW b \in Bookings, Create(b)
        PROVE  Lifecycle!Next
    BY <2>1 DEF Create, StoreTypeOK, Lifecycle!Next, Lifecycle!Inserted,
                Lifecycle!Kept, Absent, Lifecycle!Absent
  <2>2. CASE RowMoves
    <3> PICK b \in Bookings, next \in Status, s \in Slots \cup {NoSlot},
             r \in TxRefs \cup {NoReceipt}, h \in Hashes :
               transitionTx(b, next, s, r, h)
      BY <2>2 DEF RowMoves
    <3>1. /\ status' = [status EXCEPT ![b] = next]
          /\ version' = [version EXCEPT ![b] = @ + 1]
          /\ Lifecycle!ValidTransition(status[b], next)
      BY DEF transitionTx, ValidTransition, transitions,
             Lifecycle!ValidTransition, Lifecycle!transitions
    <3> QED
      BY <3>1 DEF StoreTypeOK, Lifecycle!Next, Lifecycle!Moved, Lifecycle!Kept
  <2>3. ASSUME NEW S \in SUBSET Bookings, ExpireDue(S)
        PROVE  Lifecycle!Next
    BY <2>3, ExpiryAllowed
    DEF ExpireDue, StoreTypeOK, Lifecycle!Next, Lifecycle!Moved, Lifecycle!Kept
  <2>4. CASE UNCHANGED rowVars \/ UNCHANGED storeVars
    BY <2>4 DEF rowVars, storeVars
  <2> QED
    BY <2>1, <2>2, <2>3, <2>4, RowSteps
<1> QED
  BY <1>1, <1>2, StoreTyped, PTL DEF StoreSpec, LifecycleSpec, Lifecycle!Spec

-----------------------------------------------------------------------------
\* Receipts.

\* The store's steps that confirm no payment.
UnpaidStep ==
  \/ Tick
  \/ \E s \in Slots : CreateSlot(s)
  \/ \E b \in Bookings :
       \/ Create(b)
       \/ \E s \in Slots : ReserveSlot(b, s) \/ Reconcile(b, s)
       \/ \E p \in PayRequests : CreatePaymentIntent(b, p)
       \/ BeginCustomsValidation(b)
       \/ \E d \in Decisions : RecordCustomsValidation(b, d)
       \/ \E t \in 0..MaxTime : RecordGateScan(b, t)
       \/ Complete(b)
       \/ Cancel(b)
  \/ \E S \in SUBSET Bookings : ExpireDue(S) \/ AbortAfterRefund(S)

\* None of them writes the receipt column.
LEMMA UnpaidStepKeepsReceipts ==
  ASSUME StoreTypeOK, UnpaidStep
  PROVE  UNCHANGED receipt
<1>1. ASSUME NEW b \in Bookings, NEW next, NEW s, NEW h,
             transitionTx(b, next, s, receipt[b], h)
      PROVE  UNCHANGED receipt
  BY <1>1 DEF transitionTx, StoreTypeOK
<1>2. ASSUME NEW b \in Bookings, NEW next, moveTx(b, next)
      PROVE  UNCHANGED receipt
  BY <1>1, <1>2 DEF moveTx
<1>3. CASE Tick \/ \E s \in Slots : CreateSlot(s)
  BY <1>3 DEF Tick, CreateSlot, rowVars
<1>4. ASSUME NEW b \in Bookings,
             \/ Create(b) \/ BeginCustomsValidation(b) \/ Complete(b)
             \/ Cancel(b)
      PROVE  UNCHANGED receipt
  BY <1>1, <1>2, <1>4 DEF Create, BeginCustomsValidation, Complete, Cancel
<1>5. ASSUME NEW b \in Bookings, NEW s \in Slots,
             ReserveSlot(b, s) \/ Reconcile(b, s)
      PROVE  UNCHANGED receipt
  BY <1>1, <1>2, <1>5 DEF ReserveSlot, Reconcile
<1>6. ASSUME NEW b \in Bookings, NEW p \in PayRequests, CreatePaymentIntent(b, p)
      PROVE  UNCHANGED receipt
  BY <1>6 DEF CreatePaymentIntent, rowVars
<1>7. ASSUME NEW b \in Bookings, NEW d \in Decisions,
             RecordCustomsValidation(b, d)
      PROVE  UNCHANGED receipt
  BY <1>2, <1>7 DEF RecordCustomsValidation
<1>8. ASSUME NEW b \in Bookings, NEW t \in 0..MaxTime, RecordGateScan(b, t)
      PROVE  UNCHANGED receipt
  BY <1>2, <1>8 DEF RecordGateScan, rowVars
<1>9. ASSUME NEW S \in SUBSET Bookings, ExpireDue(S) \/ AbortAfterRefund(S)
      PROVE  UNCHANGED receipt
  BY <1>9 DEF ExpireDue, AbortAfterRefund, rowVars
<1> QED
  BY <1>3, <1>4, <1>5, <1>6, <1>7, <1>8, <1>9 DEF UnpaidStep

\* Only a confirmation does.
LEMMA ReceiptSteps ==
  ASSUME StoreTypeOK, StoreNext
  PROVE  \/ UNCHANGED receipt
         \/ \E b \in Bookings, r \in TxRefs : ConfirmPayment(b, r)
BY UnpaidStepKeepsReceipts DEF UnpaidStep, StoreNext

\* One switch receipt never pays for two bookings, whatever references the
\* switch answers to however many payment requests (ConfirmPayment).
THEOREM StoreReceiptsUnique == StoreSpec => []ReceiptPaysOneBooking
<1>1. StoreInit => ReceiptPaysOneBooking
  BY DEF StoreInit, ReceiptPaysOneBooking
<1>2. StoreTypeOK /\ ReceiptPaysOneBooking /\ [StoreNext]_storeVars
        => ReceiptPaysOneBooking'
  <2> SUFFICES ASSUME StoreTypeOK, ReceiptPaysOneBooking,
                      [StoreNext]_storeVars
               PROVE  ReceiptPaysOneBooking'
    OBVIOUS
  <2>1. ASSUME NEW b \in Bookings, NEW r \in TxRefs, ConfirmPayment(b, r)
        PROVE  ReceiptPaysOneBooking'
    <3>1. receipt' = [receipt EXCEPT ![b] = r]
      BY <2>1 DEF ConfirmPayment, transitionTx
    <3>2. \A c \in Bookings \ {b} : receipt[c] # r
      BY <2>1 DEF ConfirmPayment, ReceiptUnused
    <3> QED
      BY <3>1, <3>2 DEF ReceiptPaysOneBooking, StoreTypeOK
  <2>2. CASE UNCHANGED receipt
    BY <2>2 DEF ReceiptPaysOneBooking
  <2>3. UNCHANGED storeVars => UNCHANGED receipt
    BY DEF storeVars, rowVars
  <2> QED
    BY <2>1, <2>2, <2>3, ReceiptSteps
<1> QED
  BY <1>1, <1>2, StoreTyped, PTL DEF StoreSpec

-----------------------------------------------------------------------------
\* Payment intents.

\* The statuses of a booking that has never been paid.
Unpaid == {Absent, "DRAFTED", "PENDING_SYNC", "RECONCILIATION_REQUIRED",
           "SLOT_RESERVED"}

\* No table entry leads back to an unpaid status, so a booking has a receipt
\* only from its one confirmation on.
NeverRepaid == \A b \in Bookings : status[b] \in Unpaid => receipt[b] = NoReceipt

\* A step of the store that is no confirmation keeps NeverRepaid.
LEMMA RowsStayUnpaid ==
  ASSUME StoreTypeOK, NeverRepaid, StoreNext, UNCHANGED receipt
  PROVE  NeverRepaid'
<1> SUFFICES ASSUME NEW b \in Bookings, status'[b] \in Unpaid
             PROVE  status[b] \in Unpaid
  BY DEF NeverRepaid
<1>1. CASE UNCHANGED rowVars
  BY <1>1 DEF rowVars
<1>2. ASSUME NEW c \in Bookings, Create(c)
      PROVE  status[b] \in Unpaid
  BY <1>2 DEF Create, Unpaid, StoreTypeOK
<1>3. CASE RowMoves
  <2>1. PICK c \in Bookings, next \in Status :
          ValidTransition(status[c], next) /\ status' = [status EXCEPT ![c] = next]
    BY <1>3 DEF RowMoves, transitionTx
  <2>2. next \in Unpaid => status[c] \in Unpaid
    BY <2>1 DEF ValidTransition, transitions, Unpaid, Absent
  <2> QED
    BY <2>1, <2>2 DEF StoreTypeOK
<1>4. ASSUME NEW S \in SUBSET Bookings, ExpireDue(S)
      PROVE  status[b] \in Unpaid
  BY <1>4 DEF ExpireDue, ExpiryOf, Unpaid, Absent, StoreTypeOK
<1> QED
  BY <1>1, <1>2, <1>3, <1>4, RowSteps

\* Only the two payment operations write booking_payment_intents.
LEMMA IntentSteps ==
  ASSUME StoreNext
  PROVE  \/ UNCHANGED intents
         \/ \E b \in Bookings, p \in PayRequests : CreatePaymentIntent(b, p)
         \/ \E b \in Bookings, r \in TxRefs : ConfirmPayment(b, r)
BY DEF StoreNext, Tick, CreateSlot, Create, ReserveSlot, Reconcile,
       BeginCustomsValidation, RecordCustomsValidation, RecordGateScan, Complete,
       Cancel, ExpireDue, AbortAfterRefund

\* What a confirmation does to the intents and the receipts.
LEMMA Confirmation ==
  ASSUME StoreTypeOK, NeverRepaid, NEW b \in Bookings, NEW r \in TxRefs,
         ConfirmPayment(b, r)
  PROVE  /\ receipt[b] = NoReceipt /\ receipt' = [receipt EXCEPT ![b] = r]
         /\ status' = [status EXCEPT ![b] = "PAID"]
         /\ DOMAIN intents' = DOMAIN intents
         /\ \A i \in DOMAIN intents :
              /\ intents'[i].booking = intents[i].booking
              /\ intents'[i].request = intents[i].request
              /\ i \in MatchingIntents(b, r) => intents'[i].status = "COMPLETED"
              /\ i \notin MatchingIntents(b, r) => intents'[i] = intents[i]
<1>1. receipt[b] = NoReceipt
  BY DEF ConfirmPayment, NeverRepaid, Unpaid
<1>2. receipt' = [receipt EXCEPT ![b] = r] /\ status' = [status EXCEPT ![b] = "PAID"]
  BY DEF ConfirmPayment, transitionTx
<1>3. DOMAIN intents' = DOMAIN intents
  BY DEF ConfirmPayment
<1>4. ASSUME NEW i \in DOMAIN intents
      PROVE  /\ intents'[i].booking = intents[i].booking
             /\ intents'[i].request = intents[i].request
             /\ i \in MatchingIntents(b, r) => intents'[i].status = "COMPLETED"
             /\ i \notin MatchingIntents(b, r) => intents'[i] = intents[i]
  <2>1. PICK row : row = intents[i]
    OBVIOUS
  <2>2. row \in IntentRow
    BY <2>1 DEF StoreTypeOK
  <2>3. PICK done : done = [row EXCEPT !.status = "COMPLETED"]
    OBVIOUS
  <2>4. done.booking = row.booking /\ done.request = row.request /\ done.status = "COMPLETED"
    BY <2>2, <2>3 DEF IntentRow
  <2>5. intents'[i] = IF i \in MatchingIntents(b, r) THEN done ELSE row
    BY <2>1, <2>3 DEF ConfirmPayment
  <2> QED
    BY <2>1, <2>4, <2>5
<1> QED
  BY <1>1, <1>2, <1>3, <1>4

\* Whoever pays, and however often references repeat: a booking's receipt is
\* that of a completed intent of its own, and every completed intent has paid
\* its booking (CreatePaymentIntent, ConfirmPayment).
THEOREM StorePaidByOwnIntent == StoreSpec => []PaidByOwnIntent
<1> DEFINE Inv == NeverRepaid /\ PaidByOwnIntent
<1>1. StoreInit => Inv
  BY DEF StoreInit, NeverRepaid, PaidByOwnIntent
<1>2. StoreTypeOK /\ Inv /\ [StoreNext]_storeVars => Inv'
  <2> SUFFICES ASSUME StoreTypeOK, NeverRepaid, PaidByOwnIntent, [StoreNext]_storeVars
               PROVE  NeverRepaid' /\ PaidByOwnIntent'
    OBVIOUS
  <2>1. ASSUME NEW b \in Bookings, NEW r \in TxRefs, ConfirmPayment(b, r)
        PROVE  NeverRepaid' /\ PaidByOwnIntent'
    <3>1. /\ receipt[b] = NoReceipt /\ receipt' = [receipt EXCEPT ![b] = r]
          /\ status' = [status EXCEPT ![b] = "PAID"]
          /\ DOMAIN intents' = DOMAIN intents
      BY <2>1, Confirmation
    <3>2. \A i \in DOMAIN intents :
            /\ intents'[i].booking = intents[i].booking
            /\ intents'[i].request = intents[i].request
            /\ i \in MatchingIntents(b, r) => intents'[i].status = "COMPLETED"
            /\ i \notin MatchingIntents(b, r) => intents'[i] = intents[i]
      BY <2>1, Confirmation
    <3>3. receipt'[b] = r /\ \A c \in Bookings \ {b} : receipt'[c] = receipt[c]
      BY <3>1 DEF StoreTypeOK
    <3>4. NeverRepaid'
      BY <3>1, <3>3 DEF NeverRepaid, Unpaid, Absent, StoreTypeOK
    <3>5. \A i \in DOMAIN intents :
            /\ intents[i].booking \in Bookings
            /\ TxRef[intents[i].request] \in TxRefs
            /\ TxRef[intents[i].request] # NoReceipt
      <4>1. \A i \in DOMAIN intents : intents[i] \in IntentRow
        BY DEF StoreTypeOK
      <4> QED
        BY <4>1, StoreConstants DEF IntentRow
    <3>6. ASSUME NEW c \in Bookings, receipt'[c] # NoReceipt
          PROVE  \E i \in DOMAIN intents' : /\ intents'[i].booking = c
                                            /\ intents'[i].status = "COMPLETED"
                                            /\ TxRef[intents'[i].request] = receipt'[c]
      <4>1. CASE c = b
        <5>1. PICK i \in DOMAIN intents : i \in MatchingIntents(b, r)
          BY <2>1 DEF ConfirmPayment, MatchingIntents
        <5>2. intents[i].booking = b /\ TxRef[intents[i].request] = r
          BY <5>1 DEF MatchingIntents
        <5> QED
          BY <3>1, <3>2, <3>3, <4>1, <5>1, <5>2
      <4>2. CASE c # b
        <5>1. PICK i \in DOMAIN intents : /\ intents[i].booking = c
                                          /\ intents[i].status = "COMPLETED"
                                          /\ TxRef[intents[i].request] = receipt[c]
          BY <3>3, <3>6, <4>2 DEF PaidByOwnIntent
        <5>2. i \notin MatchingIntents(b, r)
          BY <4>2, <5>1 DEF MatchingIntents
        <5> QED
          BY <3>1, <3>2, <3>3, <4>2, <5>1, <5>2
      <4> QED
        BY <4>1, <4>2
    <3>7. ASSUME NEW i \in DOMAIN intents', intents'[i].status = "COMPLETED"
          PROVE  receipt'[intents'[i].booking] = TxRef[intents'[i].request]
      <4>1. CASE i \in MatchingIntents(b, r)
        <5>1. intents[i].booking = b /\ TxRef[intents[i].request] = r
          BY <4>1 DEF MatchingIntents
        <5> QED
          BY <3>1, <3>2, <3>3, <5>1
      <4>2. CASE i \notin MatchingIntents(b, r)
        <5>1. intents'[i] = intents[i] /\ i \in DOMAIN intents
          BY <3>1, <3>2, <4>2
        <5>2. receipt[intents[i].booking] = TxRef[intents[i].request]
          BY <3>7, <5>1 DEF PaidByOwnIntent
        <5>3. intents[i].booking \in Bookings /\ intents[i].booking # b
          BY <3>1, <3>5, <5>1, <5>2
        <5> QED
          BY <3>3, <5>1, <5>2, <5>3
      <4> QED
        BY <4>1, <4>2
    <3> QED
      BY <3>4, <3>6, <3>7 DEF PaidByOwnIntent
  <2>2. ASSUME NEW b \in Bookings, NEW p \in PayRequests, CreatePaymentIntent(b, p)
        PROVE  NeverRepaid' /\ PaidByOwnIntent'
    <3>1. PICK row : row = [booking |-> b, request |-> p, status |-> "REQUESTED"]
      OBVIOUS
    <3>2. row.status = "REQUESTED" /\ intents' = Append(intents, row) /\ UNCHANGED <<receipt, status>>
      BY <2>2, <3>1 DEF CreatePaymentIntent, rowVars
    <3>3. PICK n \in Nat : n = Len(intents) /\ DOMAIN intents = 1..n
      BY DEF StoreTypeOK
    <3>4. /\ DOMAIN intents' = 1..(n + 1) /\ intents'[n + 1] = row
          /\ \A i \in 1..n : intents'[i] = intents[i]
      BY <3>2, <3>3 DEF StoreTypeOK
    <3>5. \A i \in DOMAIN intents' : intents'[i].status = "COMPLETED" => i \in DOMAIN intents /\ intents'[i] = intents[i]
      BY <3>2, <3>3, <3>4
    <3>6. \A i \in DOMAIN intents : i \in DOMAIN intents' /\ intents'[i] = intents[i]
      BY <3>3, <3>4
    <3>7. NeverRepaid'
      BY <3>2 DEF NeverRepaid
    <3>8. PaidByOwnIntent'
      BY <3>2, <3>5, <3>6 DEF PaidByOwnIntent
    <3> QED
      BY <3>7, <3>8
  <2>3. CASE UNCHANGED <<receipt, intents>> /\ StoreNext
    BY <2>3, RowsStayUnpaid DEF PaidByOwnIntent
  <2>4. CASE UNCHANGED storeVars
    BY <2>4 DEF storeVars, rowVars, NeverRepaid, PaidByOwnIntent
  <2> QED
    BY <2>1, <2>2, <2>3, <2>4, ReceiptSteps, IntentSteps
<1>3. Inv => PaidByOwnIntent
  OBVIOUS
<1> QED
  BY <1>1, <1>2, <1>3, StoreTyped, PTL DEF StoreSpec

-----------------------------------------------------------------------------
\* Customs clearance.

\* The inductive form of ClearedBeforeGate for one booking: a MATCH is there
\* before the gate opens, and a MISMATCH leaves no way back to the gate.
Cleared(b) ==
  /\ status[b] \in {"GATE_APPROVED", "COMPLETED"} => <<b, "MATCH">> \in customs
  /\ <<b, "MISMATCH">> \in customs => status[b] \in {"REJECTED", "CANCELLED"}

\* A row that moves on the table, to neither the gate nor back from a
\* rejection, keeps its clearance as long as no decision is recorded.
LEMMA MoveKeepsCleared ==
  ASSUME StoreTypeOK, NEW b \in Declared, NEW c \in Bookings, Cleared(b),
         NEW next \in Status, NEW s, NEW r, NEW h,
         transitionTx(c, next, s, r, h), next # "GATE_APPROVED",
         UNCHANGED customs
  PROVE  Cleared(b)'
<1>1. status' = [status EXCEPT ![c] = next] /\ ValidTransition(status[c], next)
  BY DEF transitionTx
<1>2. b \in Bookings
  BY StoreConstants
<1>3. CASE b # c
  BY <1>1, <1>2, <1>3 DEF Cleared, StoreTypeOK
<1>4. CASE b = c
  <2>1. status'[b] = next
    BY <1>1, <1>2, <1>4 DEF StoreTypeOK
  <2>2. /\ next = "COMPLETED" => status[b] = "GATE_APPROVED"
        /\ status[b] = "REJECTED" => next = "CANCELLED"
        /\ status[b] # "CANCELLED"
    BY <1>1, <1>4 DEF ValidTransition, transitions
  <2> QED
    BY <2>1, <2>2 DEF Cleared
<1> QED
  BY <1>3, <1>4

\* The same of a moveTx.
LEMMA PlainMoveKeepsCleared ==
  ASSUME StoreTypeOK, NEW b \in Declared, NEW c \in Bookings, Cleared(b),
         NEW next \in Status, moveTx(c, next), next # "GATE_APPROVED",
         UNCHANGED customs
  PROVE  Cleared(b)'
BY MoveKeepsCleared DEF moveTx

\* No truck with declared cargo passes the gate without a customs MATCH, and
\* none after a MISMATCH, whatever the order of validations, scans and
\* sweeps (RecordCustomsValidation, RecordGateScan).
THEOREM StoreClearsBeforeGate == StoreSpec => []ClearedBeforeGate
<1> DEFINE Inv == \A b \in Declared : Cleared(b)
<1>1. StoreInit => Inv
  BY StoreConstants DEF StoreInit, Cleared, Absent
<1>2. StoreTypeOK /\ Inv /\ [StoreNext]_storeVars => Inv'
  <2> SUFFICES ASSUME StoreTypeOK, Inv, [StoreNext]_storeVars,
                      NEW b \in Declared
               PROVE  Cleared(b)'
    OBVIOUS
  <2>1. Cleared(b) /\ b \in Bookings
    BY StoreConstants
  <2> HIDE DEF Inv
  <2>2. CASE UNCHANGED <<status, customs>>
    BY <2>1, <2>2 DEF Cleared
  <2>3. ASSUME NEW c \in Bookings, Create(c)
        PROVE  Cleared(b)'
    BY <2>1, <2>3 DEF Create, Cleared, StoreTypeOK, Absent
  <2>4. ASSUME NEW c \in Bookings, NEW s \in Slots,
               ReserveSlot(c, s) \/ Reconcile(c, s)
        PROVE  Cleared(b)'
    <3>1. {"SLOT_RESERVED", "RECONCILIATION_REQUIRED"} \subseteq Status
      BY DEF Status
    <3> QED
      BY <2>1, <2>4, <3>1, MoveKeepsCleared, PlainMoveKeepsCleared
      DEF ReserveSlot, Reconcile
  <2>5. ASSUME NEW c \in Bookings, NEW r \in TxRefs, ConfirmPayment(c, r)
        PROVE  Cleared(b)'
    <3>1. "PAID" \in Status
      BY DEF Status
    <3> QED
      BY <2>1, <2>5, <3>1, MoveKeepsCleared DEF ConfirmPayment
  <2>6. ASSUME NEW c \in Bookings,
               BeginCustomsValidation(c) \/ Complete(c) \/ Cancel(c)
        PROVE  Cleared(b)'
    <3>1. {"VALIDATION_PENDING", "COMPLETED", "CANCELLED", "REFUNDED"}
            \subseteq Status
      BY DEF Status
    <3> QED
      BY <2>1, <2>6, <3>1, MoveKeepsCleared, PlainMoveKeepsCleared
      DEF BeginCustomsValidation, Complete, Cancel
  <2>7. ASSUME NEW c \in Bookings, NEW d \in Decisions,
               RecordCustomsValidation(c, d)
        PROVE  Cleared(b)'
    <3>1. /\ status[c] = "VALIDATION_PENDING"
          /\ status' = [status EXCEPT ![c] = IF d = "MATCH" THEN "PAID"
                                                           ELSE "REJECTED"]
          /\ customs' = customs \cup {<<c, d>>}
      BY <2>7 DEF RecordCustomsValidation, moveTx, transitionTx
    <3> QED
      BY <2>1, <3>1 DEF Cleared, StoreTypeOK, Decisions
  <2>8. ASSUME NEW c \in Bookings, NEW t \in 0..MaxTime, RecordGateScan(c, t)
        PROVE  Cleared(b)'
    <3>1. CASE GateChecks(c, t)
      <4>1. /\ status[c] = "PAID"
            /\ c \in Declared => <<c, "MATCH">> \in customs
            /\ status' = [status EXCEPT ![c] = "GATE_APPROVED"]
            /\ UNCHANGED customs
        BY <2>8, <3>1 DEF RecordGateScan, GateChecks, hasCustomsMatch, moveTx,
                          transitionTx
      <4> QED
        BY <2>1, <4>1 DEF Cleared, StoreTypeOK
    <3>2. CASE ~GateChecks(c, t)
      BY <2>2, <2>8, <3>2 DEF RecordGateScan, rowVars
    <3> QED
      BY <3>1, <3>2
  <2>9. ASSUME NEW S \in SUBSET Bookings, ExpireDue(S)
        PROVE  Cleared(b)'
    BY <2>1, <2>9 DEF ExpireDue, ExpiryOf, Due, HoldsMoney, Cleared, StoreTypeOK
  <2>10. CASE \/ UNCHANGED storeVars
              \/ Tick
              \/ \E s \in Slots : CreateSlot(s)
              \/ \E c \in Bookings, p \in PayRequests : CreatePaymentIntent(c, p)
              \/ \E S \in SUBSET Bookings : AbortAfterRefund(S)
    <3>1. UNCHANGED <<status, customs>>
      BY <2>10 DEF storeVars, rowVars, Tick, CreateSlot, CreatePaymentIntent,
                   AbortAfterRefund
    <3> QED
      BY <2>2, <3>1
  <2> QED
    BY <2>3, <2>4, <2>5, <2>6, <2>7, <2>8, <2>9, <2>10 DEF StoreNext
<1>3. Inv => ClearedBeforeGate
  BY DEF ClearedBeforeGate, Cleared
<1> QED
  BY <1>1, <1>2, <1>3, StoreTyped, PTL DEF StoreSpec

-----------------------------------------------------------------------------
\* The refund rail.

\* What PaidMoneyIsReturned asks of one step for one booking.
MoneyReturned(b) ==
  /\ status[b] \in {"PAID", "VALIDATION_PENDING"}
  /\ status'[b] \in {"CANCELLED", "EXPIRED", "REFUNDED"}
  => status'[b] = "REFUNDED" /\ b \in refunded'

\* A booking that is cancelled or expires while it holds trucker money ends
\* REFUNDED with its refund posted (refundIfPaid in Cancel and ExpireDue).
THEOREM StoreReturnsMoney == StoreSpec => PaidMoneyIsReturned
<1>1. StoreTypeOK /\ [StoreNext]_storeVars
        => [\A b \in Bookings : MoneyReturned(b)]_storeVars
  <2> SUFFICES ASSUME StoreTypeOK, StoreNext, NEW b \in Bookings
               PROVE  MoneyReturned(b)
    OBVIOUS
  <2>1. ASSUME NEW c \in Bookings, NEW next, NEW s, NEW r, NEW h,
               transitionTx(c, next, s, r, h),
               next \notin {"CANCELLED", "EXPIRED", "REFUNDED"}
        PROVE  MoneyReturned(b)
    BY <2>1 DEF transitionTx, MoneyReturned, StoreTypeOK
  <2>2. ASSUME NEW c \in Bookings, NEW next, moveTx(c, next),
               next \notin {"CANCELLED", "EXPIRED", "REFUNDED"}
        PROVE  MoneyReturned(b)
    BY <2>1, <2>2 DEF moveTx
  <2>3. ASSUME NEW c \in Bookings, Cancel(c)
        PROVE  MoneyReturned(b)
    <3>1. CASE status[c] \notin HoldsMoney
      BY <2>3, <3>1 DEF Cancel, moveTx, transitionTx, MoneyReturned, HoldsMoney,
                        StoreTypeOK
    <3>2. CASE status[c] \in HoldsMoney
      BY <2>3, <3>2 DEF Cancel, transitionTx, MoneyReturned, HoldsMoney,
                        StoreTypeOK
    <3> QED
      BY <3>1, <3>2
  <2>4. ASSUME NEW S \in SUBSET Bookings, ExpireDue(S)
        PROVE  MoneyReturned(b)
    BY <2>4 DEF ExpireDue, ExpiryOf, HoldsMoney, MoneyReturned, StoreTypeOK
  <2>5. CASE UNCHANGED status
    BY <2>5 DEF MoneyReturned
  <2>6. ASSUME NEW c \in Bookings,
               \/ Create(c) \/ BeginCustomsValidation(c) \/ Complete(c)
               \/ \E s \in Slots : ReserveSlot(c, s) \/ Reconcile(c, s)
               \/ \E r \in TxRefs : ConfirmPayment(c, r)
               \/ \E d \in Decisions : RecordCustomsValidation(c, d)
        PROVE  MoneyReturned(b)
    <3>1. CASE Create(c)
      BY <3>1 DEF Create, MoneyReturned, StoreTypeOK
    <3>2. CASE BeginCustomsValidation(c) \/ Complete(c)
      BY <2>1, <2>2, <3>2 DEF BeginCustomsValidation, Complete
    <3>3. CASE \E s \in Slots : ReserveSlot(c, s) \/ Reconcile(c, s)
      BY <2>1, <2>2, <3>3 DEF ReserveSlot, Reconcile
    <3>4. CASE \E r \in TxRefs : ConfirmPayment(c, r)
      BY <2>1, <3>4 DEF ConfirmPayment
    <3>5. CASE \E d \in Decisions : RecordCustomsValidation(c, d)
      BY <2>2, <3>5 DEF RecordCustomsValidation
    <3> QED
      BY <2>6, <3>1, <3>2, <3>3, <3>4, <3>5
  <2>7. ASSUME NEW c \in Bookings, NEW t \in 0..MaxTime, RecordGateScan(c, t)
        PROVE  MoneyReturned(b)
    BY <2>2, <2>5, <2>7 DEF RecordGateScan, rowVars
  <2>8. CASE \/ Tick
             \/ \E s \in Slots : CreateSlot(s)
             \/ \E c \in Bookings, p \in PayRequests : CreatePaymentIntent(c, p)
             \/ \E S \in SUBSET Bookings : AbortAfterRefund(S)
    BY <2>5, <2>8 DEF Tick, CreateSlot, CreatePaymentIntent, AbortAfterRefund,
                      rowVars
  <2> QED
    BY <2>3, <2>4, <2>6, <2>7, <2>8 DEF StoreNext
<1> QED
  BY <1>1, StoreTyped, PTL DEF StoreSpec, PaidMoneyIsReturned, MoneyReturned

-----------------------------------------------------------------------------
(* The system of handlers, switch, ledger and workflows.                   *)


\* A confirmation between verification and commit carries a switch reference.
VerifiedTyped == verified \in [Bookings -> TxRefs \cup {NoReceipt}]

\* Every handler step is a step of the store or leaves it alone, and keeps the
\* references it carries.
LEMMA HandlersUseStore ==
  ASSUME VerifiedTyped, NEW b \in Bookings, Handlers(b)
  PROVE  VerifiedTyped' /\ (StoreNext \/ UNCHANGED storeVars)
<1>1. ASSUME NEW p \in PayRequests, createPaymentIntent(b, p)
      PROVE  VerifiedTyped' /\ (StoreNext \/ UNCHANGED storeVars)
  BY <1>1 DEF createPaymentIntent, IntentRecorded, StoreNext, VerifiedTyped
<1>2. CASE StartBookingWorkflow(b) \/ StartLost(b)
  BY <1>2 DEF StartBookingWorkflow, StartLost, VerifiedTyped
<1>3. ASSUME NEW r \in TxRefs, VerifyPayment(b, r)
      PROVE  VerifiedTyped' /\ (StoreNext \/ UNCHANGED storeVars)
  BY <1>3 DEF VerifyPayment, VerifiedTyped
<1>4. CASE confirmPayment(b)
  <2>1. verified[b] \in TxRefs
    BY <1>4 DEF confirmPayment, VerifiedTyped
  <2>2. ConfirmPayment(b, verified[b]) \/ UNCHANGED storeVars
    BY <1>4 DEF confirmPayment
  <2>3. VerifiedTyped'
    BY <1>4 DEF confirmPayment, VerifiedTyped
  <2> QED
    BY <2>1, <2>2, <2>3 DEF StoreNext
<1>5. CASE ConfirmLost(b)
  BY <1>5 DEF ConfirmLost, VerifiedTyped
<1>6. CASE SignalPaymentConfirmed(b) \/ PaymentSignalLost(b)
  BY <1>6 DEF SignalPaymentConfirmed, PaymentSignalLost, VerifiedTyped
<1>7. ASSUME NEW t \in 0..MaxTime, gateScan(b, t)
      PROVE  VerifiedTyped' /\ (StoreNext \/ UNCHANGED storeVars)
  BY <1>7 DEF gateScan, StoreNext, VerifiedTyped
<1>8. CASE SignalGateScan(b) \/ GateSignalLost(b)
  BY <1>8 DEF SignalGateScan, GateSignalLost, VerifiedTyped
<1> QED
  BY <1>1, <1>2, <1>3, <1>4, <1>5, <1>6, <1>7, <1>8 DEF Handlers

\* Every workflow step is a step of the store or leaves it alone.
LEMMA WorkflowUsesStore ==
  ASSUME VerifiedTyped, NEW b \in Bookings, Workflow(b)
  PROVE  VerifiedTyped' /\ (StoreNext \/ UNCHANGED storeVars)
<1> USE DEF VerifiedTyped, Goto, callVars
<1>1. CASE ReceivePayment(b) \/ PaymentTimeout(b) \/ ReceiptCheck(b)
  BY <1>1 DEF ReceivePayment, PaymentTimeout, ReceiptCheck
<1>2. CASE CustomsDecided(b)
  BY <1>2 DEF CustomsDecided
<1>3. CASE CustomsBegins(b)
  BY <1>3 DEF CustomsBegins, StoreNext
<1>4. ASSUME NEW d \in Decisions, CustomsAnswers(b, d)
      PROVE  VerifiedTyped' /\ (StoreNext \/ UNCHANGED storeVars)
  BY <1>4 DEF CustomsAnswers, StoreNext
<1>5. CASE ReceiveGateScan(b) \/ GateScanTimeout(b)
  BY <1>5 DEF ReceiveGateScan, GateScanTimeout
<1>6. ASSUME NEW S \in SUBSET Bookings,
             ExpireBooking(b, S) \/ ExpireBookingFails(b, S)
      PROVE  VerifiedTyped' /\ (StoreNext \/ UNCHANGED storeVars)
  BY <1>6 DEF ExpireBooking, ExpireBookingFails, StoreNext
<1>7. CASE CommitLedger(b)
  BY <1>7 DEF CommitLedger
<1>8. CASE AuditCommit(b)
  BY <1>8 DEF AuditCommit, StoreNext
<1> QED
  BY <1>1, <1>2, <1>3, <1>4, <1>5, <1>6, <1>7, <1>8 DEF Workflow

\* The composed system implements the booking store: no handler and no
\* activity writes a booking except through an operation of store.go.
THEOREM SysImplementsStore == SysSpec => ImplementsStore
<1>1. SysInit => StoreInit /\ VerifiedTyped
  BY DEF SysInit, VerifiedTyped
<1>2. VerifiedTyped /\ [SysNext]_sysVars
        => VerifiedTyped' /\ [StoreNext]_storeVars
  <2> SUFFICES ASSUME VerifiedTyped, [SysNext]_sysVars
               PROVE  VerifiedTyped' /\ (StoreNext \/ UNCHANGED storeVars)
    OBVIOUS
  <2>1. CASE StoreOnly
    <3>1. VerifiedTyped'
      BY <2>1 DEF StoreOnly, callVars, VerifiedTyped
    <3>2. ASSUME NEW b \in Bookings, AbortAfterRefund({b})
          PROVE  StoreNext
      <4>1. {b} \in SUBSET Bookings
        OBVIOUS
      <4> QED
        BY <3>2, <4>1 DEF StoreNext
    <3>3. StoreNext
      BY <2>1, <3>2 DEF StoreOnly, StoreNext
    <3> QED
      BY <3>1, <3>3
  <2>2. ASSUME NEW r \in TxRefs, SwitchCommits(r)
        PROVE  VerifiedTyped' /\ (StoreNext \/ UNCHANGED storeVars)
    BY <2>2 DEF SwitchCommits, callVars, VerifiedTyped
  <2>3. CASE UNCHANGED sysVars
    BY <2>3 DEF sysVars, callVars, VerifiedTyped
  <2> QED
    BY <2>1, <2>2, <2>3, HandlersUseStore, WorkflowUsesStore DEF SysNext
<1> QED
  BY <1>1, <1>2, PTL DEF SysSpec, ImplementsStore, StoreSpec

\* The system with its handlers, workflows, retries and lost calls never
\* overbooks a slot, never lets one receipt pay twice or another booking's
\* intent pay at all, never opens the gate to cargo customs has not cleared,
\* and gives paid money back.
THEOREM SysKeepsStorePromises ==
  SysSpec => /\ []NoOverbooking
             /\ []ReceiptPaysOneBooking
             /\ []PaidByOwnIntent
             /\ []ClearedBeforeGate
             /\ PaidMoneyIsReturned
             /\ LifecycleSpec
<1>1. SysSpec => StoreSpec
  BY SysImplementsStore DEF ImplementsStore
<1> QED
  BY <1>1, StoreNeverOverbooks, StoreReceiptsUnique, StorePaidByOwnIntent,
     StoreClearsBeforeGate, StoreReturnsMoney, StoreImplementsLifecycle, PTL

-----------------------------------------------------------------------------
(* What the runs of the system promise.                                    *)

\* The store's steps that do not complete a booking.
StoreOther ==
  \/ Tick
  \/ \E s \in Slots : CreateSlot(s)
  \/ \E b \in Bookings :
       \/ Create(b)
       \/ \E s \in Slots : ReserveSlot(b, s) \/ Reconcile(b, s)
       \/ \E p \in PayRequests : CreatePaymentIntent(b, p)
       \/ \E r \in TxRefs : ConfirmPayment(b, r)
       \/ BeginCustomsValidation(b)
       \/ \E d \in Decisions : RecordCustomsValidation(b, d)
       \/ \E t \in 0..MaxTime : RecordGateScan(b, t)
       \/ Cancel(b)
  \/ \E S \in SUBSET Bookings : ExpireDue(S) \/ AbortAfterRefund(S)

Through == {"GATE_APPROVED", "COMPLETED"}
TurnedAway == {"REJECTED", "CANCELLED"}

\* Of booking b, no way back from the gate nor from a rejection, and its
\* completion, if any, stands as it was.
Onward(b) ==
  /\ status[b] \in Through => status'[b] \in Through
  /\ status[b] \in TurnedAway => status'[b] \in TurnedAway
  /\ status[b] = "COMPLETED" => status'[b] = "COMPLETED"
  /\ status'[b] = "COMPLETED" => status[b] = "COMPLETED" /\ commitHash'[b] = commitHash[b]

\* A transition other than to COMPLETED.
LEMMA TransitionOnward ==
  ASSUME StoreTypeOK, NEW b \in Bookings, NEW c \in Bookings, NEW next, NEW s, NEW r, NEW h,
         transitionTx(c, next, s, r, h), next # "COMPLETED"
  PROVE  Onward(b)
<1>1. /\ status' = [status EXCEPT ![c] = next] /\ commitHash' = [commitHash EXCEPT ![c] = h]
      /\ ValidTransition(status[c], next)
  BY DEF transitionTx
<1>2. CASE b # c
  <2>1. status'[b] = status[b] /\ commitHash'[b] = commitHash[b]
    BY <1>1, <1>2 DEF StoreTypeOK
  <2> QED
    BY <2>1 DEF Onward
<1>3. CASE b = c
  <2>1. status'[b] = next
    BY <1>1, <1>3 DEF StoreTypeOK
  <2>2. /\ status[b] \notin Through
        /\ status[b] \in TurnedAway => next = "CANCELLED"
    BY <1>1, <1>3 DEF ValidTransition, transitions, Through, TurnedAway
  <2> QED
    BY <2>1, <2>2 DEF Onward, Through, TurnedAway
<1> QED
  BY <1>2, <1>3

LEMMA MoveOnward ==
  ASSUME StoreTypeOK, NEW b \in Bookings, NEW c \in Bookings, NEW next,
         moveTx(c, next), next # "COMPLETED"
  PROVE  Onward(b)
BY TransitionOnward DEF moveTx

LEMMA RowsOnward ==
  ASSUME NEW b \in Bookings, UNCHANGED rowVars
  PROVE  Onward(b)
BY DEF rowVars, Onward

\* Every step of the store but a completion.
LEMMA OtherOnward ==
  ASSUME StoreTypeOK, StoreOther, NEW b \in Bookings
  PROVE  Onward(b)
<1>1. CASE Tick \/ \E s \in Slots : CreateSlot(s)
  BY <1>1, RowsOnward DEF Tick, CreateSlot
<1>2. ASSUME NEW c \in Bookings, Create(c) PROVE Onward(b)
  <2>1. PICK first \in {"PENDING_SYNC", "DRAFTED"} :
          status[c] = Absent /\ status' = [status EXCEPT ![c] = first] /\ commitHash' = commitHash
    BY <1>2 DEF Create
  <2> QED
    BY <2>1 DEF Onward, Through, TurnedAway, Absent, StoreTypeOK
<1>3. ASSUME NEW c \in Bookings, NEW s \in Slots, ReserveSlot(c, s) \/ Reconcile(c, s)
      PROVE  Onward(b)
  BY <1>3, TransitionOnward, MoveOnward DEF ReserveSlot, Reconcile
<1>4. ASSUME NEW c \in Bookings, NEW p \in PayRequests, CreatePaymentIntent(c, p) PROVE Onward(b)
  BY <1>4, RowsOnward DEF CreatePaymentIntent
<1>5. ASSUME NEW c \in Bookings, NEW r \in TxRefs, ConfirmPayment(c, r) PROVE Onward(b)
  BY <1>5, TransitionOnward DEF ConfirmPayment
<1>6. ASSUME NEW c \in Bookings, BeginCustomsValidation(c) \/ Cancel(c) PROVE Onward(b)
  BY <1>6, TransitionOnward, MoveOnward DEF BeginCustomsValidation, Cancel
<1>7. ASSUME NEW c \in Bookings, NEW d \in Decisions, RecordCustomsValidation(c, d) PROVE Onward(b)
  BY <1>7, MoveOnward DEF RecordCustomsValidation
<1>8. ASSUME NEW c \in Bookings, NEW t \in 0..MaxTime, RecordGateScan(c, t) PROVE Onward(b)
  BY <1>8, MoveOnward, RowsOnward DEF RecordGateScan
<1>9. ASSUME NEW S \in SUBSET Bookings, ExpireDue(S) PROVE Onward(b)
  <2>1. /\ status' = [c \in Bookings |-> IF c \in S THEN ExpiryOf(c) ELSE status[c]]
        /\ commitHash' = [c \in Bookings |-> IF c \in S /\ status[c] \in HoldsMoney THEN "refund" ELSE commitHash[c]]
        /\ b \in S => status[b] \in {"SLOT_RESERVED"} \cup HoldsMoney
    BY <1>9 DEF ExpireDue, Due
  <2> QED
    BY <2>1 DEF Onward, ExpiryOf, HoldsMoney, Through, TurnedAway
<1>10. ASSUME NEW S \in SUBSET Bookings, AbortAfterRefund(S) PROVE Onward(b)
  BY <1>10, RowsOnward DEF AbortAfterRefund
<1> QED
  BY <1>1, <1>2, <1>3, <1>4, <1>5, <1>6, <1>7, <1>8, <1>9, <1>10 DEF StoreOther

\* What is known of booking b while its calls and its run are under way: a
\* scan that was approved, a buffered scan signal and the ledger stages mean
\* that the truck is through, the audit stage that the settlement is posted.
RunAgrees(b) ==
  /\ \/ b \in scanned \/ gateSignal[b] = TRUE \/ b \in settled
     \/ stage[b] \in {"LEDGER_COMMIT", "AUDIT_COMMIT"}
     => status[b] \in Through
  /\ stage[b] = "AUDIT_COMMIT" => b \in settled
  /\ status[b] = "COMPLETED" => b \in settled /\ commitHash[b] = "settlement"
  /\ stage[b] = "COMPLETED" => status[b] = "COMPLETED"
  /\ stage[b] = "REJECTED" => status[b] \in TurnedAway

RunsTyped ==
  /\ VerifiedTyped
  /\ stage \in [Bookings -> Stages]
  /\ gateSignal \in [Bookings -> BOOLEAN]

RunInv == RunsTyped /\ \A b \in Bookings : RunAgrees(b)

\* How a step that completes no booking may move the calls, the run and the
\* ledger of booking b.
RunMoves(b) ==
  /\ b \in scanned' => b \in scanned \/ status'[b] \in Through
  /\ gateSignal'[b] = TRUE => gateSignal[b] = TRUE \/ b \in scanned
  /\ stage'[b] = "LEDGER_COMMIT" => stage[b] = "LEDGER_COMMIT" \/ gateSignal[b] = TRUE
  /\ stage'[b] = "AUDIT_COMMIT" =>
       stage[b] = "AUDIT_COMMIT" \/ (stage[b] = "LEDGER_COMMIT" /\ b \in settled')
  /\ stage'[b] = "COMPLETED" => stage[b] = "COMPLETED"
  /\ stage'[b] = "REJECTED" => stage[b] = "REJECTED" \/ status'[b] \in TurnedAway
  /\ b \in settled => b \in settled'
  /\ b \in settled' => b \in settled \/ stage[b] = "LEDGER_COMMIT"

LEMMA RunStaysAgreed ==
  ASSUME NEW b, RunAgrees(b), Onward(b), RunMoves(b)
  PROVE  RunAgrees(b)'
<1>1. \/ b \in scanned' \/ gateSignal'[b] = TRUE \/ b \in settled'
      \/ stage'[b] \in {"LEDGER_COMMIT", "AUDIT_COMMIT"}
      => status'[b] \in Through
  BY DEF RunAgrees, Onward, RunMoves
<1>2. stage'[b] = "AUDIT_COMMIT" => b \in settled'
  BY DEF RunAgrees, RunMoves
<1>3. status'[b] = "COMPLETED" => b \in settled' /\ commitHash'[b] = "settlement"
  BY DEF RunAgrees, Onward, RunMoves
<1>4. stage'[b] = "COMPLETED" => status'[b] = "COMPLETED"
  BY DEF RunAgrees, Onward, RunMoves
<1>5. stage'[b] = "REJECTED" => status'[b] \in TurnedAway
  BY DEF RunAgrees, Onward, RunMoves
<1> QED
  BY <1>1, <1>2, <1>3, <1>4, <1>5 DEF RunAgrees

\* The parts of the run's state that a step leaves alone.
RunKept == UNCHANGED <<stage, gateSignal, verified, scanned, settled>>

LEMMA KeptMoves ==
  ASSUME RunInv, RunKept
  PROVE  RunsTyped' /\ \A b \in Bookings : RunMoves(b)
BY DEF RunKept, RunInv, RunsTyped, VerifiedTyped, RunMoves

\* What a step must show: the store takes a step that completes no booking or
\* none at all, and every run moves as it may.
LEMMA RunStep ==
  ASSUME StoreTypeOK, RunInv, StoreOther \/ UNCHANGED storeVars,
         RunsTyped' /\ \A b \in Bookings : RunMoves(b)
  PROVE  RunInv'
<1>1. ASSUME NEW b \in Bookings PROVE RunAgrees(b)'
  <2>1. UNCHANGED storeVars => UNCHANGED rowVars
    BY DEF storeVars
  <2>2. Onward(b)
    BY <2>1, OtherOnward, RowsOnward
  <2> QED
    BY <2>2, RunStaysAgreed DEF RunInv
<1> QED
  BY <1>1 DEF RunInv

\* One run goes to another stage.
LEMMA GotoMoves ==
  ASSUME RunInv, UNCHANGED settled, NEW c \in Bookings, NEW next \in Stages, Goto(c, next),
         next = "LEDGER_COMMIT" => gateSignal[c] = TRUE,
         next # "AUDIT_COMMIT", next # "COMPLETED",
         next = "REJECTED" => status'[c] \in TurnedAway
  PROVE  RunsTyped' /\ \A b \in Bookings : RunMoves(b)
<1>1. /\ stage' = [stage EXCEPT ![c] = next]
      /\ UNCHANGED <<gateSignal, verified, scanned, settled>>
  BY DEF Goto, callVars
<1>2. stage'[c] = next /\ \A b \in Bookings \ {c} : stage'[b] = stage[b]
  BY <1>1 DEF RunInv, RunsTyped
<1>3. RunsTyped'
  BY <1>1 DEF RunInv, RunsTyped, VerifiedTyped
<1>4. ASSUME NEW b \in Bookings PROVE RunMoves(b)
  BY <1>1, <1>2 DEF RunMoves
<1> QED
  BY <1>3, <1>4

\* The handlers keep every run in agreement with its booking.
LEMMA HandlersAgree ==
  ASSUME StoreTypeOK, RunInv, NEW c \in Bookings, Handlers(c)
  PROVE  RunInv'
<1> USE DEF flowVars, callVars
<1>1. ASSUME NEW p \in PayRequests, createPaymentIntent(c, p) PROVE RunInv'
  <2>1. RunKept /\ (StoreOther \/ UNCHANGED storeVars)
    BY <1>1 DEF createPaymentIntent, IntentRecorded, StoreOther, RunKept
  <2> QED
    BY <2>1, KeptMoves, RunStep
<1>2. CASE StartBookingWorkflow(c)
  <2>1. CASE Running(c)
    <3>1. RunKept /\ UNCHANGED storeVars
      BY <1>2, <2>1 DEF StartBookingWorkflow, RunKept
    <3> QED
      BY <3>1, KeptMoves, RunStep
  <2>2. CASE ~Running(c)
    <3>1. /\ stage' = [stage EXCEPT ![c] = "AWAITING_PAYMENT"]
          /\ gateSignal' = [gateSignal EXCEPT ![c] = FALSE]
          /\ UNCHANGED <<storeVars, verified, scanned, settled>>
      BY <1>2, <2>2 DEF StartBookingWorkflow
    <3>2. stage'[c] = "AWAITING_PAYMENT" /\ gateSignal'[c] = FALSE
          /\ \A b \in Bookings \ {c} : stage'[b] = stage[b] /\ gateSignal'[b] = gateSignal[b]
      BY <3>1 DEF RunInv, RunsTyped
    <3>3. RunsTyped'
      BY <3>1 DEF RunInv, RunsTyped, VerifiedTyped, Stages
    <3>4. ASSUME NEW b \in Bookings PROVE RunMoves(b)
      BY <3>1, <3>2 DEF RunMoves
    <3> QED
      BY <3>1, <3>3, <3>4, RunStep
  <2> QED
    BY <2>1, <2>2
<1>3. CASE StartLost(c) \/ PaymentSignalLost(c) \/ SignalPaymentConfirmed(c)
  <2>1. RunKept /\ UNCHANGED storeVars
    BY <1>3 DEF StartLost, PaymentSignalLost, SignalPaymentConfirmed, RunKept
  <2> QED
    BY <2>1, KeptMoves, RunStep
<1>4. ASSUME UNCHANGED <<stage, gateSignal, scanned, settled>>, VerifiedTyped',
             StoreOther \/ UNCHANGED storeVars
      PROVE  RunInv'
  <2>1. RunsTyped' /\ \A b \in Bookings : RunMoves(b)
    BY <1>4 DEF RunInv, RunsTyped, RunMoves
  <2> QED
    BY <1>4, <2>1, RunStep
<1>5. ASSUME NEW r \in TxRefs, VerifyPayment(c, r) PROVE RunInv'
  BY <1>4, <1>5 DEF VerifyPayment, RunInv, RunsTyped, VerifiedTyped
<1>6. CASE confirmPayment(c)
  <2>1. verified[c] \in TxRefs /\ VerifiedTyped'
    BY <1>6 DEF confirmPayment, RunInv, RunsTyped, VerifiedTyped
  <2>2. ConfirmPayment(c, verified[c]) \/ UNCHANGED storeVars
    BY <1>6 DEF confirmPayment
  <2>3. StoreOther \/ UNCHANGED storeVars
    BY <2>1, <2>2 DEF StoreOther
  <2> QED
    BY <1>4, <1>6, <2>1, <2>3 DEF confirmPayment
<1>7. CASE ConfirmLost(c)
  BY <1>4, <1>7 DEF ConfirmLost, RunInv, RunsTyped, VerifiedTyped
<1>8. ASSUME NEW t \in 0..MaxTime, gateScan(c, t) PROVE RunInv'
  <2>1. StoreOther /\ UNCHANGED <<stage, gateSignal, verified, settled>>
    BY <1>8 DEF gateScan, StoreOther
  <2>2. ASSUME NEW b \in Bookings PROVE b \in scanned' => b \in scanned \/ status'[b] \in Through
    <3>1. CASE GateChecks(c, t)
      <4>1. status' = [status EXCEPT ![c] = "GATE_APPROVED"] /\ scanned' = scanned \cup {c}
        BY <1>8, <3>1 DEF gateScan, RecordGateScan, moveTx, transitionTx
      <4> QED
        BY <4>1 DEF StoreTypeOK, Through
    <3>2. CASE ~GateChecks(c, t)
      BY <1>8, <3>2 DEF gateScan
    <3> QED
      BY <3>1, <3>2
  <2>3. RunsTyped'
    BY <2>1 DEF RunInv, RunsTyped, VerifiedTyped
  <2>4. ASSUME NEW b \in Bookings PROVE RunMoves(b)
    BY <2>1, <2>2 DEF RunMoves
  <2> QED
    BY <2>1, <2>3, <2>4, RunStep
<1>9. CASE SignalGateScan(c) \/ GateSignalLost(c)
  <2>1. /\ c \in scanned /\ scanned' = scanned \ {c}
        /\ gateSignal' = [gateSignal EXCEPT ![c] = TRUE] \/ gateSignal' = gateSignal
        /\ UNCHANGED <<storeVars, stage, verified, settled>>
    BY <1>9 DEF SignalGateScan, GateSignalLost
  <2>2. RunsTyped'
    BY <2>1 DEF RunInv, RunsTyped, VerifiedTyped
  <2>3. ASSUME NEW b \in Bookings PROVE RunMoves(b)
    <3>1. b = c \/ gateSignal'[b] = gateSignal[b]
      BY <2>1 DEF RunInv, RunsTyped
    <3> QED
      BY <2>1, <3>1 DEF RunMoves
  <2> QED
    BY <2>1, <2>2, <2>3, RunStep
<1> QED
  BY <1>1, <1>2, <1>3, <1>5, <1>6, <1>7, <1>8, <1>9 DEF Handlers

\* So do the steps of the workflow, lost reports and retries included.
LEMMA WorkflowAgrees ==
  ASSUME StoreTypeOK, RunInv, NEW c \in Bookings, Workflow(c)
  PROVE  RunInv'
<1> USE DEF flowVars, callVars
<1>g. ASSUME UNCHANGED settled, StoreOther \/ UNCHANGED storeVars, NEW next \in Stages, Goto(c, next),
             next = "LEDGER_COMMIT" => gateSignal[c] = TRUE,
             next # "AUDIT_COMMIT", next # "COMPLETED",
             next = "REJECTED" => status'[c] \in TurnedAway
      PROVE  RunInv'
  <2>1. RunsTyped' /\ \A b \in Bookings : RunMoves(b)
    BY <1>g, GotoMoves
  <2> QED
    BY <1>g, <2>1, RunStep
<1>k. ASSUME UNCHANGED <<committed, flowVars, callVars, settled>>, StoreOther \/ UNCHANGED storeVars
      PROVE  RunInv'
  <2>1. RunKept
    BY <1>k DEF RunKept
  <2> QED
    BY <1>k, <2>1, KeptMoves, RunStep
<1>r. /\ storeVars' = storeVars => status' = status
      /\ {"RECEIPT_CHECK", "EXPIRED_AWAITING_PAYMENT", "CUSTOMS_VALIDATION", "AWAITING_GATE_SCAN", "REJECTED",
          "LEDGER_COMMIT", "EXPIRED_AWAITING_GATE_SCAN", "EXPIRED", "AUDIT_COMMIT", "COMPLETED"} \subseteq Stages
  BY DEF storeVars, rowVars, Stages, Closed
<1>1. CASE ReceivePayment(c) \/ PaymentTimeout(c) \/ ReceiptCheck(c)
  BY <1>1, <1>g, <1>r DEF ReceivePayment, PaymentTimeout, ReceiptCheck
<1>2. CASE CustomsDecided(c)
  BY <1>2, <1>g, <1>r DEF CustomsDecided, TurnedAway
<1>3. CASE CustomsBegins(c)
  BY <1>3, <1>k DEF CustomsBegins, StoreOther
<1>4. ASSUME NEW d \in Decisions, CustomsAnswers(c, d) PROVE RunInv'
  <2>1. StoreOther /\ UNCHANGED settled
    BY <1>4 DEF CustomsAnswers, StoreOther
  <2>2. status' = [status EXCEPT ![c] = IF d = "MATCH" THEN "PAID" ELSE "REJECTED"]
    BY <1>4 DEF CustomsAnswers, RecordCustomsValidation, moveTx, transitionTx
  <2>3. d # "MATCH" => status'[c] \in TurnedAway
    BY <2>2 DEF StoreTypeOK, TurnedAway
  <2>4. CASE Goto(c, IF d = "MATCH" THEN "AWAITING_GATE_SCAN" ELSE "REJECTED")
    <3>1. CASE d = "MATCH"
      BY <1>g, <1>r, <2>1, <2>4, <3>1
    <3>2. CASE d # "MATCH"
      BY <1>g, <1>r, <2>1, <2>3, <2>4, <3>2
    <3> QED
      BY <3>1, <3>2
  <2>5. CASE UNCHANGED <<committed, flowVars, callVars>>
    BY <1>k, <2>1, <2>5
  <2> QED
    BY <1>4, <2>4, <2>5 DEF CustomsAnswers
<1>5. CASE ReceiveGateScan(c) \/ GateScanTimeout(c)
  <2>1. gateSignal[c] \in BOOLEAN
    BY DEF RunInv, RunsTyped
  <2>2. CASE ReceiveGateScan(c)
    <3>1. gateSignal[c] = TRUE /\ Goto(c, "LEDGER_COMMIT") /\ UNCHANGED <<storeVars, settled>>
      BY <2>1, <2>2, Zenon DEF ReceiveGateScan
    <3> QED
      BY <1>g, <1>r, <3>1
  <2>3. CASE GateScanTimeout(c)
    BY <1>g, <1>r, <2>3 DEF GateScanTimeout
  <2> QED
    BY <1>5, <2>2, <2>3
<1>6. ASSUME NEW S \in SUBSET Bookings, ExpireBooking(c, S) PROVE RunInv'
  <2>1. StoreOther /\ UNCHANGED settled /\ Goto(c, "EXPIRED")
    BY <1>6 DEF ExpireBooking, StoreOther
  <2> QED
    BY <1>g, <1>r, <2>1
<1>7. ASSUME NEW S \in SUBSET Bookings, ExpireBookingFails(c, S) PROVE RunInv'
  BY <1>7, <1>k DEF ExpireBookingFails, StoreOther
<1>8. CASE CommitLedger(c)
  <2>1. /\ stage[c] = "LEDGER_COMMIT" /\ settled' = settled \cup {c}
        /\ stage' = [stage EXCEPT ![c] = "AUDIT_COMMIT"] \/ stage' = stage
        /\ UNCHANGED <<storeVars, gateSignal, verified, scanned>>
    BY <1>8 DEF CommitLedger, Goto
  <2>2. RunsTyped'
    BY <1>r, <2>1 DEF RunInv, RunsTyped, VerifiedTyped
  <2>3. ASSUME NEW b \in Bookings PROVE RunMoves(b)
    <3>1. \/ stage'[b] = stage[b]
          \/ b = c /\ stage'[b] = "AUDIT_COMMIT"
      BY <2>1 DEF RunInv, RunsTyped
    <3> QED
      BY <2>1, <3>1 DEF RunMoves
  <2> QED
    BY <2>1, <2>2, <2>3, RunStep
<1>9. CASE AuditCommit(c)
  <2>1. /\ stage[c] = "AUDIT_COMMIT" /\ status' = [status EXCEPT ![c] = "COMPLETED"]
        /\ commitHash' = [commitHash EXCEPT ![c] = "settlement"]
        /\ stage' = [stage EXCEPT ![c] = "COMPLETED"] \/ stage' = stage
        /\ UNCHANGED <<gateSignal, verified, scanned, settled>>
    BY <1>9 DEF AuditCommit, Complete, transitionTx, Goto
  <2>2. RunsTyped'
    BY <1>r, <2>1 DEF RunInv, RunsTyped, VerifiedTyped
  <2>3. status'[c] = "COMPLETED" /\ commitHash'[c] = "settlement" /\ c \in settled
    BY <2>1 DEF StoreTypeOK, RunInv, RunAgrees
  <2>4. ASSUME NEW b \in Bookings PROVE RunAgrees(b)'
    <3>1. CASE b = c
      <4>1. stage'[c] \in {"AUDIT_COMMIT", "COMPLETED"}
        BY <2>1 DEF RunInv, RunsTyped
      <4> QED
        BY <2>1, <2>3, <3>1, <4>1 DEF RunAgrees, Through
    <3>2. CASE b # c
      <4>1. status'[b] = status[b] /\ commitHash'[b] = commitHash[b] /\ stage'[b] = stage[b]
        BY <2>1, <3>2 DEF StoreTypeOK, RunInv, RunsTyped
      <4>2. RunAgrees(b)
        BY DEF RunInv
      <4> QED
        BY <2>1, <4>1, <4>2 DEF RunAgrees
    <3> QED
      BY <3>1, <3>2
  <2> QED
    BY <2>2, <2>4 DEF RunInv
<1> QED
  BY <1>1, <1>2, <1>3, <1>4, <1>5, <1>6, <1>7, <1>8, <1>9 DEF Workflow

LEMMA SysTyped == SysSpec => []StoreTypeOK
BY SysImplementsStore, StoreTyped, PTL DEF ImplementsStore

\* The agreement of runs and bookings is kept by the whole system.
LEMMA RunsAgree == SysSpec => []RunInv
<1>1. SysInit => RunInv
  BY DEF SysInit, StoreInit, RunInv, RunsTyped, VerifiedTyped, RunAgrees, Stages, Absent
<1>2. StoreTypeOK /\ RunInv /\ [SysNext]_sysVars => RunInv'
  <2> SUFFICES ASSUME StoreTypeOK, RunInv, [SysNext]_sysVars PROVE RunInv'
    OBVIOUS
  <2>1. CASE StoreOnly
    <3>1. ASSUME NEW b \in Bookings, AbortAfterRefund({b}) PROVE StoreOther
      <4>1. {b} \in SUBSET Bookings
        OBVIOUS
      <4> QED
        BY <3>1, <4>1 DEF StoreOther
    <3>2. StoreOther /\ RunKept
      BY <2>1, <3>1 DEF StoreOnly, StoreOther, RunKept, flowVars, callVars
    <3> QED
      BY <3>2, KeptMoves, RunStep
  <2>2. CASE UNCHANGED sysVars \/ \E r \in TxRefs : SwitchCommits(r)
    <3>1. UNCHANGED storeVars /\ RunKept
      BY <2>2 DEF sysVars, SwitchCommits, RunKept, flowVars, callVars
    <3> QED
      BY <3>1, KeptMoves, RunStep
  <2> QED
    BY <2>1, <2>2, HandlersAgree, WorkflowAgrees DEF SysNext
<1> QED
  BY <1>1, <1>2, SysTyped, PTL DEF SysSpec

\* A booking is settled only after its truck has passed the gate and completed
\* only after it is settled, through any interleaving of scans, signals,
\* timers, retries and lost reports (CommitLedger, AuditCommit).
THEOREM SysSettledThenCompleted == SysSpec => []SettledThenCompleted
<1>1. RunInv => SettledThenCompleted
  BY DEF RunInv, RunAgrees, SettledThenCompleted, Through
<1> QED
  BY <1>1, RunsAgree, PTL

-----------------------------------------------------------------------------
\* The deadlines of a run.

\* A booking that has had no slot yet.
Early == {Absent, "DRAFTED", "PENDING_SYNC", "RECONCILIATION_REQUIRED"}

\* The stages a run reaches with a confirmed payment, short of the settlement.
PastPayment == {"CUSTOMS_VALIDATION", "AWAITING_GATE_SCAN",
                "EXPIRED_AWAITING_GATE_SCAN"}

\* A run belongs to a booking with a slot, whose end is its deadline, and past
\* the payment to one with a receipt; a run that closes for a deadline closes
\* after it.
DeadlineKept(b) ==
  /\ status[b] = "SLOT_RESERVED" => slot[b] \in Slots
  /\ status[b] \in HoldsMoney => receipt[b] # NoReceipt
  /\ b \in starting \/ stage[b] # "NOT_STARTED" =>
       slot[b] \in Slots /\ status[b] \notin Early
  /\ stage[b] # "NOT_STARTED" => deadline[b] = EndsAt[slot[b]]
  /\ stage[b] \in PastPayment => receipt[b] # NoReceipt
  /\ stage[b] = "EXPIRED_AWAITING_PAYMENT" => now > ExpiresAt[b]
  /\ stage[b] = "EXPIRED_AWAITING_GATE_SCAN" => now >= EndsAt[slot[b]]
  /\ stage[b] = "EXPIRED" =>
       now > ExpiresAt[b] \/ (receipt[b] # NoReceipt /\ now >= EndsAt[slot[b]])

DeadlineInv ==
  /\ deadline = [b \in Bookings |-> deadline[b]]
  /\ \A b \in Bookings : DeadlineKept(b)

\* What no step of the store takes back from booking b.
RowStays(b) ==
  /\ now <= now'
  /\ status[b] \notin Early => status'[b] \notin Early /\ slot'[b] = slot[b]
  /\ receipt[b] # NoReceipt => receipt'[b] # NoReceipt
  /\ status'[b] = "SLOT_RESERVED" => slot'[b] \in Slots
  /\ status'[b] \in HoldsMoney => receipt'[b] # NoReceipt

\* How the run of booking b may move.
StageMoves(b) ==
  /\ b \in starting' => b \in starting \/ status[b] = "SLOT_RESERVED"
  /\ stage'[b] # "NOT_STARTED" =>
       \/ stage[b] # "NOT_STARTED" /\ deadline'[b] = deadline[b]
       \/ b \in starting /\ deadline'[b] = EndsAt[slot[b]]
  /\ stage'[b] \in PastPayment => stage[b] \in PastPayment \/ status[b] = "PAID"
  /\ stage'[b] = "EXPIRED_AWAITING_PAYMENT" => stage[b] = stage'[b] \/ now > ExpiresAt[b]
  /\ stage'[b] = "EXPIRED_AWAITING_GATE_SCAN" =>
       \/ stage[b] = stage'[b]
       \/ stage[b] \in PastPayment /\ now >= deadline[b]
  /\ stage'[b] = "EXPIRED" => stage[b] = stage'[b] \/ Expiring(b)

LEMMA DeadlineStaysKept ==
  ASSUME now \in Nat, now' \in Nat, NEW b \in Bookings, DeadlineKept(b), RowStays(b), StageMoves(b)
  PROVE  DeadlineKept(b)'
<1>1. b \in starting' \/ stage'[b] # "NOT_STARTED" =>
        slot[b] \in Slots /\ slot'[b] = slot[b] /\ status'[b] \notin Early
  <2>1. status[b] = "SLOT_RESERVED" => status[b] \notin Early
    BY DEF Early, Absent
  <2> QED
    BY <2>1 DEF DeadlineKept, RowStays, StageMoves
<1>2. stage'[b] # "NOT_STARTED" => deadline'[b] = EndsAt[slot'[b]]
  BY <1>1 DEF DeadlineKept, StageMoves
<1>3. stage'[b] \in PastPayment => receipt'[b] # NoReceipt
  BY DEF DeadlineKept, RowStays, StageMoves, HoldsMoney
<1>4. ExpiresAt[b] \in Nat /\ \A s \in Slots : EndsAt[s] \in Nat
  BY StoreConstants
<1>5. now > ExpiresAt[b] => now' > ExpiresAt[b]
  BY <1>4 DEF RowStays
<1>6. slot[b] \in Slots /\ now >= EndsAt[slot[b]] => now' >= EndsAt[slot[b]]
  BY <1>4 DEF RowStays
<1>7. stage'[b] = "EXPIRED_AWAITING_PAYMENT" => now' > ExpiresAt[b]
  BY <1>5 DEF DeadlineKept, StageMoves
<1>8. stage'[b] = "EXPIRED_AWAITING_GATE_SCAN" => now' >= EndsAt[slot'[b]]
  <2>1. stage[b] \in PastPayment => stage[b] # "NOT_STARTED"
    BY DEF PastPayment
  <2> QED
    BY <1>1, <1>6, <2>1 DEF DeadlineKept, StageMoves
<1>9. ASSUME stage'[b] = "EXPIRED"
      PROVE  now' > ExpiresAt[b] \/ (receipt'[b] # NoReceipt /\ now' >= EndsAt[slot'[b]])
  <2>1. slot[b] \in Slots /\ slot'[b] = slot[b]
    BY <1>1, <1>9
  <2>2. now > ExpiresAt[b] \/ (receipt[b] # NoReceipt /\ now >= EndsAt[slot[b]])
    BY <1>9 DEF DeadlineKept, StageMoves, Expiring, PastPayment
  <2> QED
    BY <1>5, <1>6, <2>1, <2>2 DEF RowStays
<1> QED
  BY <1>1, <1>2, <1>3, <1>7, <1>8, <1>9 DEF DeadlineKept, RowStays

\* Every step of the store, on every booking.
LEMMA StoreRowStays ==
  ASSUME StoreTypeOK, StoreNext \/ UNCHANGED storeVars, NEW b \in Bookings, DeadlineKept(b)
  PROVE  RowStays(b)
<1>1. now <= now'
  <2>1. Tick \/ UNCHANGED now
    BY DEF StoreNext, storeVars, CreateSlot, Create, ReserveSlot, Reconcile, CreatePaymentIntent, ConfirmPayment,
           BeginCustomsValidation, RecordCustomsValidation, RecordGateScan, Complete, Cancel, ExpireDue,
           AbortAfterRefund
  <2>2. now \in Int
    BY DEF StoreTypeOK
  <2> QED
    BY <2>1, <2>2 DEF Tick
<1>2. ASSUME UNCHANGED rowVars PROVE RowStays(b)
  BY <1>1, <1>2 DEF RowStays, DeadlineKept, rowVars
<1>3. ASSUME NEW c \in Bookings, Create(c) PROVE RowStays(b)
  <2>1. PICK first \in {"PENDING_SYNC", "DRAFTED"} :
          /\ status[c] = Absent /\ status' = [status EXCEPT ![c] = first]
          /\ slot' = slot /\ receipt' = receipt
    BY <1>3 DEF Create
  <2>2. status'[b] = status[b] \/ (status[b] \in Early /\ status'[b] \in Early)
    BY <2>1 DEF StoreTypeOK, Early
  <2>3. status'[b] \in Early => status'[b] # "SLOT_RESERVED" /\ status'[b] \notin HoldsMoney
    BY DEF Early, Absent, HoldsMoney
  <2> QED
    BY <1>1, <2>1, <2>2, <2>3 DEF RowStays, DeadlineKept
<1>4. ASSUME NEW c \in Bookings, NEW next, NEW s \in Slots \cup {NoSlot}, NEW r \in TxRefs \cup {NoReceipt}, NEW h,
             transitionTx(c, next, s, r, h),
             s = slot[c] \/ (s \in Slots /\ next = "SLOT_RESERVED"),
             r = receipt[c] \/ (r \in TxRefs /\ next = "PAID"),
             next = "SLOT_RESERVED" => s \in Slots,
             next \in HoldsMoney => r # NoReceipt
      PROVE  RowStays(b)
  <2>1. /\ status' = [status EXCEPT ![c] = next] /\ slot' = [slot EXCEPT ![c] = s]
        /\ receipt' = [receipt EXCEPT ![c] = r] /\ ValidTransition(status[c], next)
    BY <1>4 DEF transitionTx
  <2>2. CASE b # c
    <3>1. status'[b] = status[b] /\ slot'[b] = slot[b] /\ receipt'[b] = receipt[b]
      BY <2>1, <2>2 DEF StoreTypeOK
    <3> QED
      BY <1>1, <3>1 DEF RowStays, DeadlineKept
  <2>3. CASE b = c
    <3>1. status'[b] = next /\ slot'[b] = s /\ receipt'[b] = r
      BY <2>1, <2>3 DEF StoreTypeOK
    <3>2. status[b] \notin Early => next \notin Early /\ next # "SLOT_RESERVED"
      BY <2>1, <2>3 DEF ValidTransition, transitions, Early, Absent
    <3>3. receipt[b] # NoReceipt => r # NoReceipt
      BY <1>4, <2>3, StoreConstants
    <3> QED
      BY <1>1, <1>4, <2>3, <3>1, <3>2, <3>3 DEF RowStays
  <2> QED
    BY <2>2, <2>3
<1>t. /\ \A c \in Bookings : slot[c] \in Slots \cup {NoSlot} /\ receipt[c] \in TxRefs \cup {NoReceipt}
      /\ NoReceipt \notin TxRefs /\ TxRefs \subseteq TxRefs \cup {NoReceipt} /\ Slots \subseteq Slots \cup {NoSlot}
      /\ "SLOT_RESERVED" \notin HoldsMoney /\ "PAID" \in HoldsMoney /\ "VALIDATION_PENDING" \in HoldsMoney
  BY StoreConstants DEF StoreTypeOK, HoldsMoney
<1>5. ASSUME NEW c \in Bookings, NEW s \in Slots, ReserveSlot(c, s) \/ Reconcile(c, s) PROVE RowStays(b)
  <2>1. \/ transitionTx(c, "SLOT_RESERVED", s, receipt[c], commitHash[c])
        \/ transitionTx(c, "RECONCILIATION_REQUIRED", slot[c], receipt[c], commitHash[c])
    BY <1>5 DEF ReserveSlot, Reconcile, moveTx
  <2>2. "RECONCILIATION_REQUIRED" \notin HoldsMoney
    BY DEF HoldsMoney
  <2> QED
    BY <1>4, <1>t, <2>1, <2>2
<1>6. ASSUME NEW c \in Bookings, NEW r \in TxRefs, ConfirmPayment(c, r) PROVE RowStays(b)
  <2>1. transitionTx(c, "PAID", slot[c], r, commitHash[c])
    BY <1>6 DEF ConfirmPayment
  <2> QED
    BY <1>4, <1>t, <2>1
<1>7. ASSUME NEW c \in Bookings, NEW next, NEW h, transitionTx(c, next, slot[c], receipt[c], h),
             next # "SLOT_RESERVED", next \in HoldsMoney => status[c] \in HoldsMoney
      PROVE  RowStays(b)
  <2>1. CASE next \in HoldsMoney => receipt[c] # NoReceipt
    BY <1>4, <1>7, <1>t, <2>1
  <2>2. CASE next \in HoldsMoney /\ receipt[c] = NoReceipt /\ b = c
    BY <1>7, <2>2 DEF DeadlineKept
  <2>3. CASE b # c
    <3>1. status'[b] = status[b] /\ slot'[b] = slot[b] /\ receipt'[b] = receipt[b]
      BY <1>7, <2>3 DEF transitionTx, StoreTypeOK
    <3> QED
      BY <1>1, <3>1 DEF RowStays, DeadlineKept
  <2> QED
    BY <2>1, <2>2, <2>3
<1>8. ASSUME NEW c \in Bookings,
             \/ BeginCustomsValidation(c) \/ Complete(c) \/ Cancel(c)
             \/ \E d \in Decisions : RecordCustomsValidation(c, d)
             \/ \E t \in 0..MaxTime : RecordGateScan(c, t)
      PROVE  RowStays(b)
  <2>1. \/ UNCHANGED rowVars
        \/ \E next \in {"VALIDATION_PENDING", "COMPLETED", "CANCELLED", "REFUNDED", "PAID", "REJECTED", "GATE_APPROVED"},
              h \in {commitHash[c], "settlement", "refund"} :
             /\ transitionTx(c, next, slot[c], receipt[c], h)
             /\ next \in HoldsMoney => status[c] \in HoldsMoney
    BY <1>8 DEF BeginCustomsValidation, Complete, Cancel, RecordCustomsValidation, RecordGateScan, moveTx, HoldsMoney
  <2> QED
    BY <1>2, <1>7, <2>1
<1>9. ASSUME NEW S \in SUBSET Bookings, ExpireDue(S) PROVE RowStays(b)
  <2>1. /\ status'[b] = (IF b \in S THEN ExpiryOf(b) ELSE status[b])
        /\ slot' = slot /\ receipt' = receipt
    BY <1>9 DEF ExpireDue
  <2>2. ExpiryOf(b) \notin Early \cup {"SLOT_RESERVED"} \cup HoldsMoney
    BY DEF ExpiryOf, Early, Absent, HoldsMoney
  <2> QED
    BY <1>1, <2>1, <2>2 DEF RowStays, DeadlineKept
<1>10. CASE UNCHANGED storeVars
  BY <1>2, <1>10 DEF storeVars
<1>11. CASE \/ Tick \/ \E s \in Slots : CreateSlot(s)
            \/ \E c \in Bookings, p \in PayRequests : CreatePaymentIntent(c, p)
            \/ \E S \in SUBSET Bookings : AbortAfterRefund(S)
  BY <1>2, <1>11 DEF Tick, CreateSlot, CreatePaymentIntent, AbortAfterRefund
<1> QED
  BY <1>3, <1>5, <1>6, <1>8, <1>9, <1>10, <1>11 DEF StoreNext

\* What a step must show of its run.
LEMMA DeadlineStep ==
  ASSUME StoreTypeOK, StoreTypeOK', DeadlineInv, StoreNext \/ UNCHANGED storeVars,
         deadline' = [b \in Bookings |-> deadline'[b]], \A b \in Bookings : StageMoves(b)
  PROVE  DeadlineInv'
<1>1. now \in Nat /\ now' \in Nat
  BY StoreConstants DEF StoreTypeOK
<1>2. ASSUME NEW b \in Bookings PROVE DeadlineKept(b)'
  <2>1. DeadlineKept(b) /\ StageMoves(b)
    BY DEF DeadlineInv
  <2>2. RowStays(b)
    BY <2>1, StoreRowStays
  <2> QED
    BY <1>1, <2>1, <2>2, DeadlineStaysKept
<1> QED
  BY <1>2 DEF DeadlineInv

\* Steps that leave every run in its stage, and start no call.
LEMMA StageKept ==
  ASSUME DeadlineInv, UNCHANGED <<stage, deadline>>, starting' \subseteq starting
  PROVE  deadline' = [b \in Bookings |-> deadline'[b]] /\ \A b \in Bookings : StageMoves(b)
BY DEF StageMoves, DeadlineInv

\* One run goes to another stage.
LEMMA StageGoes ==
  ASSUME RunsTyped, DeadlineInv, NEW c \in Bookings, NEW next, Goto(c, next), stage[c] # "NOT_STARTED",
         next \in PastPayment => stage[c] \in PastPayment \/ status[c] = "PAID",
         next = "EXPIRED_AWAITING_PAYMENT" => now > ExpiresAt[c],
         next = "EXPIRED_AWAITING_GATE_SCAN" => stage[c] \in PastPayment /\ now >= deadline[c],
         next = "EXPIRED" => Expiring(c)
  PROVE  deadline' = [b \in Bookings |-> deadline'[b]] /\ \A b \in Bookings : StageMoves(b)
<1>1. stage' = [stage EXCEPT ![c] = next] /\ deadline' = deadline /\ starting' = starting
  BY DEF Goto, callVars
<1>2. stage'[c] = next /\ \A b \in Bookings \ {c} : stage'[b] = stage[b]
  BY <1>1 DEF RunsTyped
<1>3. ASSUME NEW b \in Bookings PROVE StageMoves(b)
  <2>1. CASE b = c
    BY <1>1, <1>2, <2>1 DEF StageMoves
  <2>2. CASE b # c
    BY <1>1, <1>2, <2>2 DEF StageMoves
  <2> QED
    BY <2>1, <2>2
<1> QED
  BY <1>1, <1>3 DEF DeadlineInv

LEMMA HandlersKeepDeadlines ==
  ASSUME StoreTypeOK, StoreTypeOK', RunsTyped, DeadlineInv, NEW c \in Bookings, Handlers(c)
  PROVE  DeadlineInv'
<1>s. StoreNext \/ UNCHANGED storeVars
  BY HandlersUseStore DEF RunsTyped
<1> USE DEF flowVars
<1>1. ASSUME NEW p \in PayRequests, createPaymentIntent(c, p) PROVE DeadlineInv'
  <2>1. status[c] = "SLOT_RESERVED" /\ starting' = starting \cup {c} /\ UNCHANGED <<stage, deadline>>
    BY <1>1 DEF createPaymentIntent, IntentRecorded, CreatePaymentIntent
  <2>2. \A b \in Bookings : StageMoves(b)
    BY <2>1 DEF StageMoves
  <2>3. deadline' = [b \in Bookings |-> deadline'[b]]
    BY <2>1 DEF DeadlineInv
  <2> QED
    BY <1>s, <2>2, <2>3, DeadlineStep
<1>2. CASE StartBookingWorkflow(c) /\ ~Running(c)
  <2>1. /\ c \in starting /\ starting' = starting \ {c}
        /\ stage' = [stage EXCEPT ![c] = "AWAITING_PAYMENT"]
        /\ deadline' = [deadline EXCEPT ![c] = EndsAt[slot[c]]]
    BY <1>2 DEF StartBookingWorkflow
  <2>2. deadline = [b \in Bookings |-> deadline[b]]
    BY DEF DeadlineInv
  <2>3. /\ stage'[c] = "AWAITING_PAYMENT" /\ deadline'[c] = EndsAt[slot[c]]
        /\ \A b \in Bookings \ {c} : stage'[b] = stage[b] /\ deadline'[b] = deadline[b]
        /\ deadline' = [b \in Bookings |-> deadline'[b]]
    BY <2>1, <2>2 DEF RunsTyped
  <2>4. ASSUME NEW b \in Bookings PROVE StageMoves(b)
    <3>1. CASE b = c
      BY <2>1, <2>3, <3>1 DEF StageMoves, PastPayment
    <3>2. CASE b # c
      BY <2>1, <2>3, <3>2 DEF StageMoves
    <3> QED
      BY <3>1, <3>2
  <2> QED
    BY <1>s, <2>3, <2>4, DeadlineStep
<1>3. ASSUME UNCHANGED <<stage, deadline>>, starting' \subseteq starting PROVE DeadlineInv'
  BY <1>s, <1>3, StageKept, DeadlineStep
<1>4. CASE StartBookingWorkflow(c) /\ Running(c)
  BY <1>3, <1>4 DEF StartBookingWorkflow
<1>5. CASE \/ StartLost(c) \/ confirmPayment(c) \/ ConfirmLost(c) \/ SignalPaymentConfirmed(c)
           \/ PaymentSignalLost(c) \/ SignalGateScan(c) \/ GateSignalLost(c)
           \/ \E r \in TxRefs : VerifyPayment(c, r)
           \/ \E t \in 0..MaxTime : gateScan(c, t)
  BY <1>3, <1>5 DEF StartLost, confirmPayment, ConfirmLost, SignalPaymentConfirmed, PaymentSignalLost,
                    SignalGateScan, GateSignalLost, VerifyPayment, gateScan
<1> QED
  BY <1>1, <1>2, <1>4, <1>5 DEF Handlers

LEMMA WorkflowKeepsDeadlines ==
  ASSUME StoreTypeOK, StoreTypeOK', RunsTyped, DeadlineInv, NEW c \in Bookings, Workflow(c)
  PROVE  DeadlineInv'
<1>s. StoreNext \/ UNCHANGED storeVars
  BY WorkflowUsesStore DEF RunsTyped
<1>k. ASSUME UNCHANGED <<flowVars, callVars>> PROVE DeadlineInv'
  <2>1. UNCHANGED <<stage, deadline>> /\ starting' \subseteq starting
    BY <1>k DEF flowVars, callVars
  <2> QED
    BY <1>s, <2>1, StageKept, DeadlineStep
<1>g. ASSUME NEW next, Goto(c, next), stage[c] # "NOT_STARTED",
             next \in PastPayment => stage[c] \in PastPayment \/ status[c] = "PAID",
             next = "EXPIRED_AWAITING_PAYMENT" => now > ExpiresAt[c],
             next = "EXPIRED_AWAITING_GATE_SCAN" => stage[c] \in PastPayment /\ now >= deadline[c],
             next = "EXPIRED" => Expiring(c)
      PROVE  DeadlineInv'
  <2>1. deadline' = [b \in Bookings |-> deadline'[b]] /\ \A b \in Bookings : StageMoves(b)
    BY <1>g, StageGoes
  <2> QED
    BY <1>s, <2>1, DeadlineStep
<1>1. CASE ReceivePayment(c) \/ PaymentTimeout(c) \/ ReceiptCheck(c)
  BY <1>g, <1>1 DEF ReceivePayment, PaymentTimeout, ReceiptCheck, PastPayment
<1>2. CASE CustomsDecided(c)
  BY <1>g, <1>2 DEF CustomsDecided, PastPayment
<1>3. CASE CustomsBegins(c)
  BY <1>k, <1>3 DEF CustomsBegins
<1>4. ASSUME NEW d \in Decisions, CustomsAnswers(c, d) PROVE DeadlineInv'
  <2>1. stage[c] = "CUSTOMS_VALIDATION"
    BY <1>4 DEF CustomsAnswers
  <2>2. \/ Goto(c, "AWAITING_GATE_SCAN") \/ Goto(c, "REJECTED")
        \/ UNCHANGED <<flowVars, callVars>>
    BY <1>4 DEF CustomsAnswers
  <2> QED
    BY <1>g, <1>k, <2>1, <2>2 DEF PastPayment
<1>5. CASE ReceiveGateScan(c) \/ GateScanTimeout(c)
  BY <1>g, <1>5 DEF ReceiveGateScan, GateScanTimeout, PastPayment
<1>6. ASSUME NEW S \in SUBSET Bookings, ExpireBooking(c, S) PROVE DeadlineInv'
  <2>1. Expiring(c) /\ Goto(c, "EXPIRED") /\ stage[c] # "NOT_STARTED"
    BY <1>6 DEF ExpireBooking, Expiring
  <2> QED
    BY <1>g, <2>1 DEF PastPayment
<1>7. ASSUME NEW S \in SUBSET Bookings, ExpireBookingFails(c, S) PROVE DeadlineInv'
  BY <1>k, <1>7 DEF ExpireBookingFails
<1>8. CASE CommitLedger(c) \/ AuditCommit(c)
  BY <1>g, <1>k, <1>8 DEF CommitLedger, AuditCommit, PastPayment
<1> QED
  BY <1>1, <1>2, <1>3, <1>4, <1>5, <1>6, <1>7, <1>8 DEF Workflow

LEMMA DeadlinesKept == SysSpec => []DeadlineInv
<1>1. SysInit => DeadlineInv
  BY DEF SysInit, StoreInit, DeadlineInv, DeadlineKept, Absent, HoldsMoney, PastPayment
<1>2. StoreTypeOK /\ StoreTypeOK' /\ RunInv /\ DeadlineInv /\ [SysNext]_sysVars => DeadlineInv'
  <2> SUFFICES ASSUME StoreTypeOK, StoreTypeOK', RunInv, DeadlineInv, [SysNext]_sysVars PROVE DeadlineInv'
    OBVIOUS
  <2>1. CASE StoreOnly
    <3>1. ASSUME NEW b \in Bookings, AbortAfterRefund({b}) PROVE StoreNext
      <4>1. {b} \in SUBSET Bookings
        OBVIOUS
      <4> QED
        BY <3>1, <4>1 DEF StoreNext
    <3>2. StoreNext /\ UNCHANGED <<stage, deadline>> /\ starting' \subseteq starting
      BY <2>1, <3>1 DEF StoreOnly, StoreNext, flowVars, callVars
    <3> QED
      BY <3>2, StageKept, DeadlineStep
  <2>2. CASE UNCHANGED sysVars \/ \E r \in TxRefs : SwitchCommits(r)
    <3>1. UNCHANGED storeVars /\ UNCHANGED <<stage, deadline>> /\ starting' \subseteq starting
      BY <2>2 DEF sysVars, SwitchCommits, flowVars, callVars
    <3> QED
      BY <3>1, StageKept, DeadlineStep
  <2> QED
    BY <2>1, <2>2, HandlersKeepDeadlines, WorkflowKeepsDeadlines DEF SysNext, RunInv
<1> QED
  BY <1>1, <1>2, SysTyped, RunsAgree, PTL DEF SysSpec

\* What a closed run reports is true of its booking, through any mix of lost
\* reports, repeated activities and handlers: COMPLETED and REJECTED are the
\* outcome of the row, EXPIRED says that the booking has expired, or that its
\* slot has ended and it was paid (AuditCommit, CustomsDecided, ExpireBooking).
THEOREM SysOutcomeAgrees == SysSpec => []OutcomeAgrees
<1>1. RunInv /\ DeadlineInv => OutcomeAgrees
  BY DEF RunInv, RunAgrees, DeadlineInv, DeadlineKept, OutcomeAgrees, TurnedAway
<1> QED
  BY <1>1, RunsAgree, DeadlinesKept, PTL

-----------------------------------------------------------------------------
\* The receipt and the switch.

\* A receipt that is verified or recorded is one the switch has committed.
ReceiptsCommitted ==
  \A b \in Bookings : /\ verified[b] # NoReceipt => verified[b] \in committed
                      /\ receipt[b] # NoReceipt => receipt[b] \in committed

\* A step that confirms no payment and verifies none.
LEMMA NothingPaid ==
  ASSUME StoreTypeOK, ReceiptsCommitted, UnpaidStep \/ UNCHANGED storeVars,
         UNCHANGED verified, committed \subseteq committed'
  PROVE  ReceiptsCommitted'
<1>1. UNCHANGED storeVars => UNCHANGED receipt
  BY DEF storeVars, rowVars
<1>2. UNCHANGED receipt
  BY <1>1, UnpaidStepKeepsReceipts
<1> QED
  BY <1>2 DEF ReceiptsCommitted

LEMMA HandlersAskSwitch ==
  ASSUME StoreTypeOK, VerifiedTyped, ReceiptsCommitted, NEW c \in Bookings, Handlers(c)
  PROVE  ReceiptsCommitted'
<1>1. ASSUME NEW p \in PayRequests, createPaymentIntent(c, p) PROVE ReceiptsCommitted'
  <2>1. (UnpaidStep \/ UNCHANGED storeVars) /\ UNCHANGED <<verified, committed>>
    BY <1>1 DEF createPaymentIntent, IntentRecorded, UnpaidStep
  <2> QED
    BY <2>1, NothingPaid
<1>2. CASE \/ StartBookingWorkflow(c) \/ StartLost(c) \/ SignalPaymentConfirmed(c) \/ PaymentSignalLost(c)
           \/ SignalGateScan(c) \/ GateSignalLost(c)
  <2>1. UNCHANGED storeVars /\ UNCHANGED <<verified, committed>>
    BY <1>2 DEF StartBookingWorkflow, StartLost, SignalPaymentConfirmed, PaymentSignalLost, SignalGateScan,
                GateSignalLost
  <2> QED
    BY <2>1, NothingPaid
<1>3. ASSUME NEW t \in 0..MaxTime, gateScan(c, t) PROVE ReceiptsCommitted'
  <2>1. UnpaidStep /\ UNCHANGED <<verified, committed>>
    BY <1>3 DEF gateScan, UnpaidStep
  <2> QED
    BY <2>1, NothingPaid
<1>4. ASSUME NEW r \in TxRefs, VerifyPayment(c, r) PROVE ReceiptsCommitted'
  <2>1. r \in committed /\ verified' = [verified EXCEPT ![c] = r] /\ UNCHANGED <<receipt, committed>>
    BY <1>4 DEF VerifyPayment, storeVars, rowVars
  <2> QED
    BY <2>1 DEF ReceiptsCommitted, VerifiedTyped
<1>5. CASE ConfirmLost(c)
  <2>1. verified' = [verified EXCEPT ![c] = NoReceipt] /\ UNCHANGED <<receipt, committed>>
    BY <1>5 DEF ConfirmLost, storeVars, rowVars
  <2> QED
    BY <2>1 DEF ReceiptsCommitted, VerifiedTyped
<1>6. CASE confirmPayment(c)
  <2>1. /\ verified[c] # NoReceipt /\ verified' = [verified EXCEPT ![c] = NoReceipt] /\ UNCHANGED committed
        /\ receipt' = [receipt EXCEPT ![c] = verified[c]] \/ receipt' = receipt
    BY <1>6 DEF confirmPayment, ConfirmPayment, transitionTx, storeVars, rowVars
  <2>2. verified[c] \in committed
    BY <2>1 DEF ReceiptsCommitted
  <2> QED
    BY <2>1, <2>2 DEF ReceiptsCommitted, VerifiedTyped, StoreTypeOK
<1> QED
  BY <1>1, <1>2, <1>3, <1>4, <1>5, <1>6 DEF Handlers

LEMMA WorkflowPaysNothing ==
  ASSUME NEW c \in Bookings, Workflow(c)
  PROVE  (UnpaidStep \/ UNCHANGED storeVars) /\ UNCHANGED <<verified, committed>>
<1> USE DEF Goto, callVars
<1>1. CASE \/ ReceivePayment(c) \/ PaymentTimeout(c) \/ ReceiptCheck(c) \/ CustomsDecided(c)
           \/ ReceiveGateScan(c) \/ GateScanTimeout(c) \/ CommitLedger(c)
  BY <1>1 DEF ReceivePayment, PaymentTimeout, ReceiptCheck, CustomsDecided, ReceiveGateScan, GateScanTimeout,
              CommitLedger
<1>2. CASE CustomsBegins(c) \/ AuditCommit(c) \/ \E d \in Decisions : CustomsAnswers(c, d)
  BY <1>2 DEF CustomsBegins, AuditCommit, CustomsAnswers, UnpaidStep
<1>3. ASSUME NEW S \in SUBSET Bookings, ExpireBooking(c, S) \/ ExpireBookingFails(c, S)
      PROVE  UnpaidStep /\ UNCHANGED <<verified, committed>>
  BY <1>3 DEF ExpireBooking, ExpireBookingFails, UnpaidStep
<1> QED
  BY <1>1, <1>2, <1>3 DEF Workflow

\* A booking carries only a receipt that the switch reported COMMITTED when it
\* was asked, however confirmations interleave and repeat (confirmPayment).
THEOREM SysPaidAtSwitch == SysSpec => []PaidAtSwitch
<1>1. SysInit => ReceiptsCommitted
  BY DEF SysInit, StoreInit, ReceiptsCommitted
<1>2. StoreTypeOK /\ RunInv /\ ReceiptsCommitted /\ [SysNext]_sysVars => ReceiptsCommitted'
  <2> SUFFICES ASSUME StoreTypeOK, RunInv, ReceiptsCommitted, [SysNext]_sysVars PROVE ReceiptsCommitted'
    OBVIOUS
  <2>1. CASE StoreOnly
    <3>1. ASSUME NEW b \in Bookings, AbortAfterRefund({b}) PROVE UnpaidStep
      <4>1. {b} \in SUBSET Bookings
        OBVIOUS
      <4> QED
        BY <3>1, <4>1 DEF UnpaidStep
    <3>2. UnpaidStep /\ UNCHANGED <<verified, committed>>
      BY <2>1, <3>1 DEF StoreOnly, UnpaidStep, callVars
    <3> QED
      BY <3>2, NothingPaid
  <2>2. CASE UNCHANGED sysVars \/ \E r \in TxRefs : SwitchCommits(r)
    <3>1. UNCHANGED storeVars /\ UNCHANGED verified /\ committed \subseteq committed'
      BY <2>2 DEF sysVars, SwitchCommits, callVars
    <3> QED
      BY <3>1, NothingPaid
  <2>3. ASSUME NEW c \in Bookings, Handlers(c) PROVE ReceiptsCommitted'
    BY <2>3, HandlersAskSwitch DEF RunInv, RunsTyped
  <2>4. ASSUME NEW c \in Bookings, Workflow(c) PROVE ReceiptsCommitted'
    <3>1. (UnpaidStep \/ UNCHANGED storeVars) /\ UNCHANGED <<verified, committed>>
      BY <2>4, WorkflowPaysNothing
    <3> QED
      BY <3>1, NothingPaid
  <2> QED
    BY <2>1, <2>2, <2>3, <2>4 DEF SysNext
<1>3. ReceiptsCommitted => PaidAtSwitch
  BY DEF ReceiptsCommitted, PaidAtSwitch
<1> QED
  BY <1>1, <1>2, <1>3, SysTyped, RunsAgree, PTL DEF SysSpec
=============================================================================
