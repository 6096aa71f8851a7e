--------------------------- MODULE BookingWorkflow --------------------------
(***************************************************************************)
(* The booking store driven by its two callers: the HTTP handlers of       *)
(* internal/server/booking.go and one Temporal ECallUpBookingWorkflow per  *)
(* booking (internal/booking/workflow.go, orchestrator.go).                *)
(*                                                                         *)
(* A handler that commits and then calls Temporal can fail or die in       *)
(* between, so each such handler has a step for the commit, a step for the *)
(* call and a step that loses the call.  An activity can commit and lose   *)
(* its report to Temporal, which then runs it again: there is no retry     *)
(* limit (default retry policy), and a retry that is refused changes       *)
(* nothing.  A workflow stage that no action leaves is an activity that is *)
(* retried for ever.                                                       *)
(***************************************************************************)
EXTENDS BookingStore

VARIABLES
  committed,   \* transfers the payment switch reports COMMITTED
  stage,       \* stage of the booking's workflow run
  paySignal,   \* payment-confirmed signal buffered by the run
  gateSignal,  \* gate-scan signal buffered by the run
  deadline,    \* GateScanDeadline of the run's input
  starting,    \* createPaymentIntent calls between commit and start
  verified,    \* confirmPayment calls between verification and commit
  paid,        \* confirmPayment calls between commit and signal
  scanned,     \* gateScan calls between commit and signal
  settled      \* bookings whose settlement transfers TigerBeetle has posted

callVars == <<starting, verified, paid, scanned>>
flowVars == <<stage, paySignal, gateSignal, deadline>>
sysVars  == <<storeVars, committed, flowVars, callVars, settled>>

Closed == {"COMPLETED", "EXPIRED", "REJECTED"}
Stages == {"NOT_STARTED", "AWAITING_PAYMENT", "RECEIPT_CHECK",
           "CUSTOMS_VALIDATION", "AWAITING_GATE_SCAN", "LEDGER_COMMIT",
           "AUDIT_COMMIT", "EXPIRED_AWAITING_PAYMENT",
           "EXPIRED_AWAITING_GATE_SCAN"} \cup Closed

\* A signal reaches a run only between its start and its close.
Running(b) == stage[b] \notin Closed \cup {"NOT_STARTED"}

SysTypeOK ==
  /\ StoreTypeOK
  /\ committed \subseteq TxRefs
  /\ stage \in [Bookings -> Stages]
  /\ paySignal \in [Bookings -> TxRefs \cup {NoReceipt}]
  /\ gateSignal \in [Bookings -> BOOLEAN]
  /\ deadline \in [Bookings -> Nat]
  /\ starting \subseteq Bookings
  /\ verified \in [Bookings -> TxRefs \cup {NoReceipt}]
  /\ paid \subseteq Bookings
  /\ scanned \subseteq Bookings
  /\ settled \subseteq Bookings

SysInit ==
  /\ StoreInit
  /\ committed = {}
  /\ stage = [b \in Bookings |-> "NOT_STARTED"]
  /\ paySignal = [b \in Bookings |-> NoReceipt]
  /\ gateSignal = [b \in Bookings |-> FALSE]
  /\ deadline = [b \in Bookings |-> 0]
  /\ starting = {}
  /\ verified = [b \in Bookings |-> NoReceipt]
  /\ paid = {}
  /\ scanned = {}
  /\ settled = {}

-----------------------------------------------------------------------------
\* Handlers that only call the store.

StoreOnly ==
  /\ \/ Tick
     \/ \E s \in Slots : CreateSlot(s)
     \/ \E b \in Bookings :
          \/ Create(b)
          \/ \E s \in Slots : ReserveSlot(b, s) \/ Reconcile(b, s)
          \/ Cancel(b)
     \/ \E b \in Bookings : AbortAfterRefund({b})
  /\ UNCHANGED <<committed, flowVars, callVars, settled>>

-----------------------------------------------------------------------------
\* POST /v1/bookings/{id}/payment-intents

\* A new intent is recorded; a replay of a retained one finds its row again.
IntentRecorded(b, p) ==
  \/ CreatePaymentIntent(b, p)
  \/ /\ status[b] = "SLOT_RESERVED"
     /\ \E i \in DOMAIN intents : /\ intents[i].booking = b
                                  /\ intents[i].request = p
     /\ UNCHANGED storeVars

createPaymentIntent(b, p) ==
  /\ b \notin starting
  /\ IntentRecorded(b, p)
  /\ starting' = starting \cup {b}
  /\ UNCHANGED <<committed, flowVars, verified, paid, scanned, settled>>

\* The handler read the slot before the commit that checked the version.  A
\* running workflow is left alone; a closed one is followed by a fresh run.
StartBookingWorkflow(b) ==
  /\ b \in starting
  /\ starting' = starting \ {b}
  /\ IF Running(b)
       THEN UNCHANGED flowVars
       ELSE /\ stage' = [stage EXCEPT ![b] = "AWAITING_PAYMENT"]
            /\ paySignal' = [paySignal EXCEPT ![b] = NoReceipt]
            /\ gateSignal' = [gateSignal EXCEPT ![b] = FALSE]
            /\ deadline' = [deadline EXCEPT ![b] = EndsAt[slot[b]]]
  /\ UNCHANGED <<storeVars, committed, verified, paid, scanned, settled>>

\* Temporal refuses the start or the server dies first.
StartLost(b) ==
  /\ b \in starting
  /\ starting' = starting \ {b}
  /\ UNCHANGED <<storeVars, committed, flowVars, verified, paid, scanned,
                 settled>>

\* The trucker pays an intent that was requested at the switch (external).
SwitchCommits(r) ==
  /\ r \notin committed
  /\ \E i \in DOMAIN intents : TxRef[intents[i].request] = r
  /\ committed' = committed \cup {r}
  /\ UNCHANGED <<storeVars, flowVars, callVars, settled>>

-----------------------------------------------------------------------------
\* POST /v1/bookings/{id}/payment-confirmations

PendingIntents(b) ==
  {i \in DOMAIN intents : /\ intents[i].booking = b
                          /\ intents[i].status = "REQUESTED"}

\* ORDER BY created_at DESC LIMIT 1
PendingPaymentIntent(b) ==
  CHOOSE i \in PendingIntents(b) : \A j \in PendingIntents(b) : j <= i

\* The caller's receipt must be the newest pending intent's, or, when none is
\* pending, the one the booking is already PAID with.
ReceiptExpected(b, r) ==
  IF PendingIntents(b) # {}
    THEN TxRef[intents[PendingPaymentIntent(b)].request] = r
    ELSE status[b] = "PAID" /\ receipt[b] = r

\* Mutant: the switch is not asked.
VerifyPaymentTrusting(b, r) ==
  /\ verified[b] = NoReceipt
  /\ ReceiptExpected(b, r)
  /\ verified' = [verified EXCEPT ![b] = r]
  /\ UNCHANGED <<storeVars, committed, flowVars, starting, paid, scanned,
                 settled>>

\* The switch must report the transfer COMMITTED for the intent's amount.
VerifyPayment(b, r) ==
  /\ verified[b] = NoReceipt
  /\ ReceiptExpected(b, r)
  /\ r \in committed
  /\ verified' = [verified EXCEPT ![b] = r]
  /\ UNCHANGED <<storeVars, committed, flowVars, starting, paid, scanned,
                 settled>>

\* Mutant: a verified payment revives whatever booking it finds.
confirmPaymentReviving(b) ==
  /\ verified[b] # NoReceipt
  /\ status' = [status EXCEPT ![b] = "PAID"]
  /\ receipt' = [receipt EXCEPT ![b] = verified[b]]
  /\ verified' = [verified EXCEPT ![b] = NoReceipt]
  /\ paid' = paid \cup {b}
  /\ UNCHANGED <<now, slots, slot, version, commitHash, intents, customs, scans,
                 answered, refunded, committed, flowVars, starting, scanned,
                 settled>>

\* The store records the payment, or finds it already recorded.
confirmPayment(b) ==
  /\ verified[b] # NoReceipt
  /\ \/ ConfirmPayment(b, verified[b])
     \/ /\ status[b] = "PAID" /\ receipt[b] = verified[b]
        /\ UNCHANGED storeVars
  /\ verified' = [verified EXCEPT ![b] = NoReceipt]
  /\ paid' = paid \cup {b}
  /\ UNCHANGED <<committed, flowVars, starting, scanned, settled>>

\* The store refuses (the booking moved on) or the server dies.
ConfirmLost(b) ==
  /\ verified[b] # NoReceipt
  /\ verified' = [verified EXCEPT ![b] = NoReceipt]
  /\ UNCHANGED <<storeVars, committed, flowVars, starting, paid, scanned,
                 settled>>

SignalPaymentConfirmed(b) ==
  /\ b \in paid
  /\ Running(b)
  /\ paid' = paid \ {b}
  /\ paySignal' = [paySignal EXCEPT ![b] =
                     IF @ = NoReceipt THEN receipt[b] ELSE @]
  /\ UNCHANGED <<storeVars, committed, stage, gateSignal, deadline, starting,
                 verified, scanned, settled>>

\* Temporal has no open run, is unreachable, or the server dies: 502.
PaymentSignalLost(b) ==
  /\ b \in paid
  /\ paid' = paid \ {b}
  /\ UNCHANGED <<storeVars, committed, flowVars, starting, verified, scanned,
                 settled>>

-----------------------------------------------------------------------------
\* POST /v1/gate/scans

gateScan(b, scannedAt) ==
  /\ RecordGateScan(b, scannedAt)
  /\ scanned' = IF GateChecks(b, scannedAt) THEN scanned \cup {b} ELSE scanned
  /\ UNCHANGED <<committed, flowVars, starting, verified, paid, settled>>

SignalGateScan(b) ==
  /\ b \in scanned
  /\ Running(b)
  /\ scanned' = scanned \ {b}
  /\ gateSignal' = [gateSignal EXCEPT ![b] = TRUE]
  /\ UNCHANGED <<storeVars, committed, stage, paySignal, deadline, starting,
                 verified, paid, settled>>

GateSignalLost(b) ==
  /\ b \in scanned
  /\ scanned' = scanned \ {b}
  /\ UNCHANGED <<storeVars, committed, flowVars, starting, verified, paid,
                 settled>>

-----------------------------------------------------------------------------
\* The workflow run.

Goto(b, next) == /\ stage' = [stage EXCEPT ![b] = next]
                 /\ UNCHANGED <<paySignal, gateSignal, deadline, committed,
                                callVars>>

ReceivePayment(b) ==
  /\ stage[b] = "AWAITING_PAYMENT"
  /\ paySignal[b] # NoReceipt
  /\ Goto(b, "RECEIPT_CHECK")
  /\ UNCHANGED <<storeVars, settled>>

\* The selector takes a buffered signal before the timer.  The timer fires at
\* expires_at, so what it starts runs strictly later.
PaymentTimeout(b) ==
  /\ stage[b] = "AWAITING_PAYMENT"
  /\ paySignal[b] = NoReceipt
  /\ now > ExpiresAt[b]
  /\ Goto(b, "EXPIRED_AWAITING_PAYMENT")
  /\ UNCHANGED <<storeVars, settled>>

ReceiptCheck(b) ==
  /\ stage[b] = "RECEIPT_CHECK"
  /\ status[b] = "PAID" /\ receipt[b] = paySignal[b]
  /\ Goto(b, "CUSTOMS_VALIDATION")
  /\ UNCHANGED <<storeVars, settled>>

\* Mutant: every booking that is not PAID counts as refused by customs.
CustomsDecidedHasty(b) ==
  /\ stage[b] = "CUSTOMS_VALIDATION"
  /\ \/ /\ \/ b \notin Declared
           \/ status[b] = "PAID" /\ hasCustomsMatch(b)
        /\ Goto(b, "AWAITING_GATE_SCAN")
     \/ /\ b \in Declared /\ status[b] # "PAID"
        /\ Goto(b, "REJECTED")
  /\ UNCHANGED <<storeVars, settled>>

\* The exits of CustomsValidation that write nothing: no declaration, a
\* rejection or a match that an earlier attempt recorded.
CustomsDecided(b) ==
  /\ stage[b] = "CUSTOMS_VALIDATION"
  /\ \/ /\ \/ b \notin Declared
           \/ status[b] = "PAID" /\ hasCustomsMatch(b)
        /\ Goto(b, "AWAITING_GATE_SCAN")
     \/ /\ b \in Declared /\ status[b] = "REJECTED"
        /\ Goto(b, "REJECTED")
  /\ UNCHANGED <<storeVars, settled>>

\* Mutant: the run does not wait for the customs answer.
CustomsBeginsImpatient(b) ==
  /\ stage[b] = "CUSTOMS_VALIDATION"
  /\ BeginCustomsValidation(b)
  /\ Goto(b, "AWAITING_GATE_SCAN")
  /\ UNCHANGED settled

CustomsBegins(b) ==
  /\ stage[b] = "CUSTOMS_VALIDATION"
  /\ BeginCustomsValidation(b)
  /\ UNCHANGED <<committed, flowVars, callVars, settled>>

\* The decision is committed and reported, or committed and the report lost.
CustomsAnswers(b, decision) ==
  /\ stage[b] = "CUSTOMS_VALIDATION"
  /\ RecordCustomsValidation(b, decision)
  /\ \/ Goto(b, IF decision = "MATCH" THEN "AWAITING_GATE_SCAN"
                                      ELSE "REJECTED")
     \/ UNCHANGED <<committed, flowVars, callVars>>
  /\ UNCHANGED settled

\* Mutant: settlement on payment, as soon as customs is decided.
ReceiveGateScanEarly(b) ==
  /\ stage[b] = "AWAITING_GATE_SCAN"
  /\ Goto(b, "LEDGER_COMMIT")
  /\ UNCHANGED <<storeVars, settled>>

ReceiveGateScan(b) ==
  /\ stage[b] = "AWAITING_GATE_SCAN"
  /\ gateSignal[b]
  /\ Goto(b, "LEDGER_COMMIT")
  /\ UNCHANGED <<storeVars, settled>>

GateScanTimeout(b) ==
  /\ stage[b] = "AWAITING_GATE_SCAN"
  /\ ~gateSignal[b]
  /\ now >= deadline[b]
  /\ Goto(b, "EXPIRED_AWAITING_GATE_SCAN")
  /\ UNCHANGED <<storeVars, settled>>

Expiring(b) == stage[b] \in {"EXPIRED_AWAITING_PAYMENT",
                             "EXPIRED_AWAITING_GATE_SCAN"}

\* The expiry sweep of the whole tenant, run for booking b.
ExpireBooking(b, S) ==
  /\ Expiring(b)
  /\ ExpireDue(S)
  /\ Goto(b, "EXPIRED")
  /\ UNCHANGED settled

\* The sweep posts refunds and fails, or commits and loses its report.
ExpireBookingFails(b, S) ==
  /\ Expiring(b)
  /\ S # {}
  /\ \/ S \subseteq Due /\ AbortAfterRefund(S)
     \/ ExpireDue(S)
  /\ UNCHANGED <<committed, flowVars, callVars, settled>>

\* The settlement is posted; its report reaches the workflow or is lost.
CommitLedger(b) ==
  /\ stage[b] = "LEDGER_COMMIT"
  /\ LedgerAccepts(b)
  /\ settled' = settled \cup {b}
  /\ Goto(b, "AUDIT_COMMIT") \/ UNCHANGED <<committed, flowVars, callVars>>
  /\ UNCHANGED storeVars

\* Mutant: the run closes and leaves the row to somebody else.
AuditCommitForgotten(b) ==
  /\ stage[b] = "AUDIT_COMMIT"
  /\ Goto(b, "COMPLETED")
  /\ UNCHANGED <<storeVars, settled>>

AuditCommit(b) ==
  /\ stage[b] = "AUDIT_COMMIT"
  /\ Complete(b)
  /\ Goto(b, "COMPLETED") \/ UNCHANGED <<committed, flowVars, callVars>>
  /\ UNCHANGED settled

-----------------------------------------------------------------------------
Handlers(b) ==
  \/ \E p \in PayRequests : createPaymentIntent(b, p)
  \/ StartBookingWorkflow(b) \/ StartLost(b)
  \/ \E r \in TxRefs : VerifyPayment(b, r)
  \/ confirmPayment(b) \/ ConfirmLost(b)
  \/ SignalPaymentConfirmed(b) \/ PaymentSignalLost(b)
  \/ \E t \in 0..MaxTime : gateScan(b, t)
  \/ SignalGateScan(b) \/ GateSignalLost(b)

Workflow(b) ==
  \/ ReceivePayment(b) \/ PaymentTimeout(b) \/ ReceiptCheck(b)
  \/ CustomsDecided(b) \/ CustomsBegins(b)
  \/ \E d \in Decisions : CustomsAnswers(b, d)
  \/ ReceiveGateScan(b) \/ GateScanTimeout(b)
  \/ \E S \in SUBSET Bookings : ExpireBooking(b, S) \/ ExpireBookingFails(b, S)
  \/ CommitLedger(b) \/ AuditCommit(b)

SysNext == \/ StoreOnly
           \/ \E r \in TxRefs : SwitchCommits(r)
           \/ \E b \in Bookings : Handlers(b) \/ Workflow(b)

SysSpec == SysInit /\ [][SysNext]_sysVars

\* Temporal keeps timers and retries activities without limit, and the worker
\* polls it; time passes.
WorkerFairness ==
  /\ WF_sysVars(StoreOnly /\ Tick)
  /\ \A b \in Bookings :
       /\ WF_sysVars(ReceivePayment(b) \/ PaymentTimeout(b) \/ ReceiptCheck(b))
       /\ WF_sysVars(CustomsDecided(b) \/ CustomsBegins(b))
       /\ WF_sysVars(\E d \in Decisions : CustomsAnswers(b, d))
       /\ WF_sysVars(ReceiveGateScan(b) \/ GateScanTimeout(b))
       /\ WF_sysVars(\E S \in SUBSET Bookings : ExpireBooking(b, S))
       /\ WF_sysVars(CommitLedger(b) /\ stage'[b] # stage[b])
       /\ WF_sysVars(AuditCommit(b))

\* The callers do what the 502 answers ask for: the switch repeats its
\* confirmation and the officer the scan for as long as they are accepted,
\* and Temporal is not down for ever.
RetryFairness ==
  \A b \in Bookings :
    /\ SF_sysVars(\E r \in TxRefs : VerifyPayment(b, r))
    /\ SF_sysVars(confirmPayment(b))
    /\ SF_sysVars(SignalPaymentConfirmed(b))
    /\ SF_sysVars(\E t \in 0..MaxTime : GateChecks(b, t) /\ gateScan(b, t))
    /\ SF_sysVars(SignalGateScan(b))

SysLiveSpec == SysSpec /\ WorkerFairness

SysRetrySpec == SysSpec /\ WorkerFairness /\ RetryFairness

-----------------------------------------------------------------------------
\* Properties.

\* The handlers and the workflow use the store only through its operations:
\* the composed system implements the store's specification.
ImplementsStore == StoreSpec

\* A booking is settled only once its truck has passed the gate, and completed
\* only once it is settled, with the hash of the settlement, through any
\* interleaving of signals, timers and retries (CommitLedger, AuditCommit).
SettledThenCompleted ==
  \A b \in Bookings :
    /\ b \in settled => status[b] \in {"GATE_APPROVED", "COMPLETED"}
    /\ status[b] = "COMPLETED" => b \in settled /\ commitHash[b] = "settlement"

\* A booking is marked paid only by a transfer the switch reported COMMITTED
\* (confirmPayment).
PaidAtSwitch ==
  \A b \in Bookings : receipt[b] # NoReceipt => receipt[b] \in committed

\* What the outcome of a closed run says of its booking, through any mix of
\* lost reports, repeated activities and handlers: COMPLETED and REJECTED are
\* the outcome of the row; EXPIRED is only that a deadline passed, the one of
\* the booking, or the one of the slot for a booking that was paid.  The row
\* of an EXPIRED run may still be PAID (GateDeadlineClosesBooking).
OutcomeAgrees ==
  \A b \in Bookings :
    /\ stage[b] = "COMPLETED" => status[b] = "COMPLETED"
    /\ stage[b] = "REJECTED" => status[b] \in {"REJECTED", "CANCELLED"}
    /\ stage[b] = "EXPIRED" =>
         now > ExpiresAt[b] \/ (receipt[b] # NoReceipt /\ now >= EndsAt[slot[b]])

\* A booking paused for customs is eventually released, through any number of
\* validator outages and lost activity reports.
ValidationResolves ==
  \A b \in Bookings :
    status[b] = "VALIDATION_PENDING" ~> status[b] # "VALIDATION_PENDING"

\* Once the run has its gate scan, the booking is settled and completed, even
\* if every activity report is lost once (CommitLedger, AuditCommit).
SettlementFinishes ==
  \A b \in Bookings : stage[b] = "LEDGER_COMMIT" ~> status[b] = "COMPLETED"

\* What ledger.go says of a refund: it is the compensating mirror of a
\* settlement, taking the operator and FGN shares back.
RefundMirrorsSettlement == refunded \subseteq settled

\* What ledger.go says of the refund rail: it serves bookings that expire or
\* are cancelled before settlement is consumed.
RefundExcludesSettlement == refunded \cap settled = {}

\* What ExpireBooking says: the booking is failed closed when the gate-scan
\* deadline passes (before expires_at no other deadline can close a run).
GateDeadlineClosesBooking ==
  \A b \in Bookings :
    stage[b] = "EXPIRED" /\ now <= ExpiresAt[b] =>
      status[b] \notin {"PAID", "VALIDATION_PENDING"}

\* What confirmPayment says: the retry after a workflow-signal failure
\* converges, so a recorded payment reaches the workflow.
ConfirmationConverges ==
  \A b \in Bookings :
    receipt[b] # NoReceipt /\ stage[b] = "AWAITING_PAYMENT" ~>
      paySignal[b] # NoReceipt \/ status[b] = "REFUNDED"

\* What gateScan says: a gate approval whose signal failed is completed by
\* retrying the scan signal.
GateApprovalSettles ==
  \A b \in Bookings :
    status[b] = "GATE_APPROVED" /\ stage[b] = "AWAITING_GATE_SCAN" ~>
      status[b] = "COMPLETED"
=============================================================================
