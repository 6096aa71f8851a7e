# Port interoperability: TLA+ models, model checking and proofs

These modules model the state-changing parts of the Blue Economy port
interoperability service: truck bookings with their money and customs checks, the
call-up queue, the Temporal workflows and HTTP handlers that drive both, the
delivery of events to the National Single Window (NSW), customs declarations, the
secure release chain, port calls with the inbound NSW messages, the ship
registry, seafarer certificates, and the dues of offshore and cruise calls. TLC
checks them on small instances; TLAPS proves every safety property of the runs,
invariants, action properties and refinements, for every size of instance.
Liveness stays with TLC.

Source paths below are relative to the repository. `PROJECT.json` maps every
definition to the lines it models.

## 1. The system

### Processes and what they share

| process | code | role |
| --- | --- | --- |
| API server | `cmd/port-interoperability`, `internal/server` | HTTP handlers over the stores; starts and signals Temporal runs *after* the store has committed |
| booking worker | `cmd/booking-worker` | runs the booking and call-up workflows, their activities, and the periodic call-up sweep |
| NSW adapter | `cmd/nsw-adapter`, `internal/nswadapter` | drains the outboxes into the `nsw_delivery` ledger and sends deliveries; several may run |
| outbox publisher | `cmd/outbox-publisher` | drains `platform_outbox` to Kafka |
| USSD gateway | `cmd/ussd-gateway`, `internal/ussd` | menu sessions in Redis over read-only directories |

All of them share one PostgreSQL database, through one transaction per store
operation (`internal/tenantdb`: set the tenant, run, commit, roll back on any
error). TigerBeetle (ledger), Mojaloop (payment switch), Temporal, Kafka, Redis
and the NSW are outside, and a call to one of them is never atomic with a
commit. That is where most of the hard behaviour comes from.

### Components

| component | state it keeps | operations | correct when |
| --- | --- | --- | --- |
| booking store (`internal/booking`) | slots, bookings with status, version, slot, receipt and commit hash, payment intents, customs decisions, gate scans | create, reserve, reconcile, payment intent, confirm payment, begin and record customs validation, gate scan, complete, cancel, expire | slots are not overbooked, a receipt pays once, the gate opens only to cleared cargo, money held by a booking that ends is given back, rows move only along the transition table |
| booking handlers and workflow (`internal/server/booking.go`, `internal/booking/workflow.go`) | one Temporal run per booking, buffered signals, timers | start, signal, receipt check, customs validation, gate wait, ledger commit, audit commit, expiry | only a truck that passed is settled; a paused booking always has someone to resume it; a scanned booking is settled in the end |
| payment boundary (`internal/payments`) | none | verify a transfer | a booking is paid only by a committed transfer |
| ledger (`internal/ledger`) | transfers in TigerBeetle | settle, refund | idempotent postings with a non-zero share on each side |
| call-up queue (`internal/queue`) | terminals with their capacity, requests with class, position, status and grace deadline | create, promote, depart, arrive, forfeit, cancel, flag, requeue, expire, reconcile | positions are unique, promotions respect capacity, class and order |
| call-up handlers, workflow, sweeper | one run per call-up, start and signal calls under way, the sweep's next transaction | start, arrive, signal, grace timer, forfeit, sweep | no truck loses its grace window, every call-up is resolved, free places are filled |
| NSW adapter | `nsw_delivery` rows: status, attempts, next attempt, id | scan, insert, claim, send, settle | what is called delivered was accepted, a resolved delivery is never reopened, every event is resolved |
| outbox publisher | `published_at` of the outbox | batch, publish, mark | at least once, in order |
| event envelopes (`internal/events`) | none | build, sign, verify | verification accepts only what was signed |
| customs declarations (`internal/declarations`) | declarations with revisions, permits, assessments, certificates | create, submit, score, assess, amend, register permit | an assessment belongs to the revision it scored; one live revision; a clearance is what the rules give |
| scorer token source | a cached token | get, refresh | no stale token |
| customs rules (`internal/customs`) | none | cross-validate | decision agrees with the documents |
| secure chain (`internal/securechain`) | chains of nominations, holds, release tokens, audit trail | register, open, nominate, accept, decline, hold, revoke, authorise, consume, expire | custody moves by acceptance, and one token of one chain releases the container |
| port calls (`internal/portcall`) | profiles, port calls, documents, clearances, amendments, outbox | create, submit, declare, review, supersede, clear, amend | a decision rests on verified documents, amendments need another officer, the events tell what the rows say |
| NSW ingress (`internal/nswsecurity`) | replay reservations | verify, reserve | each message once |
| registry (`internal/registry`) | vessels, ownership chain, cabotage rules, permits, violations, fishing licences, seafarer certificates, verification usage | register, transition, transfer, install a rule, apply, decide, flag, resolve, issue, verify, sweep | the hash chain is unbroken, the maker is never the checker, one rule is in force, a verification is honest before the sweep |
| vessel operations (`internal/offshore`, `cruise`) | calls, operational events, excursions, tender windows | the call lifecycles, events, assessments | operations are recorded in a possible order, dues can be recomputed |
| tariff (`internal/tariff`) | schedules with rules, assessments | register, load, compute, record | a schedule never changes; a total is exact or refused |
| manifests, waste (`internal/manifests`, `internal/waste`) | manifests per signed artifact, receipts | submit, acknowledge, close | one row per artifact |
| PCS integrations (`internal/pcs`) | AIS positions, circuit breaker | ingest, call | newest position wins; the breaker opens and closes |
| USSD (`internal/ussd`) | sessions with a TTL | menu steps | a lost session fails closed |
| tenant context (`internal/tenantctx`) | JWKS cache | verify, refresh | bounded refresh, no unknown key |
| identifier checks (`internal/containerid`, `imonumber`, `mmsinumber`) | none | validate | agree with the standards |

### What is hard here

* **Commit, then call.** A handler commits and then starts or signals a run; the
  process may die, or Temporal may be down, in between. What a retry finds is
  the committed state, which may refuse it.
* **Call, then commit.** A refund is posted to TigerBeetle, and a delivery sent
  to the NSW, inside a transaction that can still abort.
* **Retried activities.** Temporal runs an activity again when its report is
  lost, after it has committed.
* **Two clocks of one booking.** The slot's end, the booking's `expires_at` and a
  truck's grace deadline are compared by different actors at different times.
* **Several actors on one row.** Handler, run, sweeper and the run of another
  booking all move the same rows.
* **State read outside a transaction.** A declaration is scored, and a payment
  verified, between two transactions that other callers may use.
* **Maker and checker.** Four-eyes rules must hold over a whole life of a row, not
  at one step.
* **Registered late.** Tariff schedules and cabotage rules change under rows that
  were decided by an earlier one.
* **Boundaries.** A capacity lowered below its use, a share that rounds to zero,
  a retry budget, a batch limit.

## 2. The modules

```
BookingModel  <--  BookingLifecycle            abstract: transition table, versions
     ^                   ^
     |                   | INSTANCE (LifecycleSpec)
     +------------  BookingStore  <--  BookingWorkflow        (ImplementsStore)
                                             ^
                                       BookingProofs

CallUpQueue  <--  CallUpWorkflow  (ImplementsQueue)           NSWDelivery
                       ^                                           ^
                  CallUpProofs                             NSWDeliveryProofs

ReleaseCustody                                 abstract: one hand-over per chain
     ^ INSTANCE (ImplementsCustody)
SecureChain                     DeclarationRules  <--  Declarations
     ^                                                      ^
SecureChainProofs                                  DeclarationsProofs

PortCall          ShipRegistry    SeafarerCertificates        VesselDues
    ^                    ^            ^                            ^
PortCallProofs           RegistryProofs                    VesselDuesProofs
```

`MC<module>` gives the constants of the runs.

**BookingModel** has the statuses and the transition table of
`internal/booking/model.go`, and the statuses that count against a slot
(migration 0011).

**BookingLifecycle** is what the store promises to a reader of bookings: rows
appear as drafts (or pending synchronisation), move along the table, and take one
version per move.

**BookingStore** is `internal/booking/store.go`. A variable is a column or a
table (`status`, `slot`, `receipt`, `version`, `commitHash`, `intents`,
`customs`, `scans`, `slots`); an action is a method of `Store`, by the same name,
with its whole transaction: `SELECT ... FOR UPDATE` makes it atomic. Two pieces
are not atomic in the code and so not in the model: the refund, posted by an
action that may still abort (`AbortAfterRefund`), and the answer to a gate
officer (`answered`), which outlives the rollback of the scan's transaction.
`enforce_slot_capacity` is the database trigger, kept apart from the check in Go.

**BookingWorkflow** adds the callers. `createPaymentIntent`, `confirmPayment` and
`gateScan` are split where they can die: commit (`paid`, `scanned`, `starting`),
call, or the call lost. `confirmPayment` has a third point, between the answer of
the switch and the transaction (`verified`). A run is a `stage` with its buffered
signals; an activity that may commit and lose its report has a disjunct that
commits and stays where it is. `SwitchCommits` is the switch.

**CallUpQueue** is `internal/queue/store.go`, one action per method, promotion
included (`promoteNextTx` fills as many places as the code fills in that
transaction). `ExpireStale`, `ReconcileCallUps` and `ForfeitExpired` take the set
of rows they found unlocked, which is what `FOR UPDATE SKIP LOCKED` leaves open.

**CallUpWorkflow** adds the handlers of `internal/server/queue.go`, the call-up
runs and the sweeper, whose pass is three transactions (`sweep`): expire,
reconcile, start what has no run. `starts` holds the start calls under way.

**NSWDelivery** is a cycle of `internal/nswadapter/drain.go` for several
processes. `tx[r]` is the open transaction of process r with its own view of the
rows it inserted or locked; `Commit` publishes that view and `Abort` forgets it,
while `accepted` (the NSW's memory) keeps what was sent. A delivery's id is drawn by
the transaction that inserts it: the number of the batch and the place of the event
in the outbox stand for a fresh UUID. Time is kept as the wait that is left on each
row.

**ReleaseCustody** is what a release chain promises: an open chain has one holder,
an offer is taken or refused by the party it was made to and never while the chain
is frozen, and the chain ends closed or in one hand-over to a party that has held
it.

**SecureChain** is `internal/securechain/store.go`, one action per method, each
under the lock of the chain's row. The velocity hold is the exception: the refused
nomination rolls back (`NominateBreached`), and a second transaction writes the
hold whatever became of the chain (`applyVelocityHold`), or never
(`HoldLost`). The hash chains of links and audit entries are sequences. A booking
that names a container checks its holder (`BookContainer`). The refinement maps the
tail of the links to the holder and the consumed tokens to the hand-overs.

**DeclarationRules** has the pure rules: risk lanes with their surcharges, the
accreditation guard, the duty in wrapping integers, the validity of a scorer's
answer, and the cross-validation of a booking (`customs.Evaluate`).
**Declarations** is `internal/declarations/store.go`: the assessment is three
steps (`Snapshot`, `Score`, `AssessRisk`) because the scorer is called between two
transactions, and the call may be lost at each. `CustomsMatch` is the booking
side's check against the head revision.

**PortCall** is `internal/portcall/store.go` with the ingress of
`internal/nswsecurity` in front of it: the reservation of a message (`Reserve`, the
replay store of `server/booking.go`) is committed by `NewIngress` before the handler
runs, and the handler (`nswPortCall`) creates the call, finds it
refused, or dies. The outbox is kept, because a property is about it.

**ShipRegistry** is `internal/registry` without the seafarers: vessel transitions
under maker-checker control, the ownership chain, fishing licences with their audit
trail (an aquaculture licence may name any registered vessel, unchecked), and
cabotage, where the installation of a rule is two statements (`RetireRules`,
`UpsertCabotageRule`) that two officers interleave, and a vessel has one open permit
(`PermitOpen`, an index). A hash is modelled as what was hashed, so no two differ by
accident; it commits to the instant the clock read (`chainHash`), of which the row
keeps whole units of `Resolution` (`Stored`: the clock has nanoseconds, TIMESTAMPTZ
microseconds). `OwnershipHistory` derives each hash again from the row, as the code
does. One reading stands for `effectiveFrom` and `recordedAt`. **SeafarerCertificates** has the certificates, the metered verification
and the sweep, tenant by tenant.

**VesselDues** is `internal/tariff` with its two clients, `internal/offshore` and
`internal/cruise`. Schedules are offered with several contents per id, so that a
replay may differ from what was retained; the total wraps at `MaxInt64`.

### Abstractions common to all modules

* One tenant, except in the certificate sweep. Row-level security separates
  tenants, and no other operation crosses them.
* A request is named by its idempotency key: a replay returns the row and
  different content is refused, so the fields of a request are constants of its
  name.
* A refused call changes nothing and is no step, which includes every failure of
  the expected version.
* Columns that no guard reads are left out, and so are outbox rows unless a
  property is about them; where they only count, they count against a bound
  (`MaxEvents`).
* Actor names, payloads, signatures and formatting are left out.

## 3. The runs

A passing run visits its whole state space. Sizes are distinct states.

| run | configuration | states | shows |
| --- | --- | --- | --- |
| `booking_store` | 2 bookings (one declared, one offline), 2 slots of 2 terminals, 3 payment requests of which 2 get the same reference, clock 0..2 | 248 706 | every store operation in any order keeps `NoOverbooking`, `ReceiptPaysOneBooking`, `PaidByOwnIntent`, `ClearedBeforeGate`, `PaidMoneyIsReturned`, and implements `LifecycleSpec` |
| `booking_flow` | 2 bookings (one offline) and one place, lost calls and reports, timers, worker fairness | 136 408 | `SettledThenCompleted`, `PaidAtSwitch`, `OutcomeAgrees`, `ImplementsStore`; `ValidationResolves` and `SettlementFinishes` |
| `queue_store` | 3 requests (one perishable), capacity moved between 1 and 2, one requeue, clock 0..2, symmetry of the standard requests | 1 248 160 | `PositionsUnique`, `PromotionWithinCapacity`, `PriorityFIFO` |
| `callup_flow` | 2 requests, capacity 1, runs, sweeper, lost starts and signals, fairness of the sweeper only | 356 925 | `ImplementsQueue`, `FirstGraceHonoured`; `CallUpResolves` and `CapacityIsFilled` whatever Temporal does |
| `nsw_delivery` | 2 events, 2 processes, 2 attempts, 1 abort, cycle fairness | 465 260 | `DeliveredIsAccepted`, `LedgerNeverRewrites`, `EventResolves` |
| `secure_chain` | 3 organisations, 2 chains, 2 tokens, hold configured | 928 575 | `SingleRelease`, `VerifiedHoldersOnly`, `AuditExplainsChain`, and the refinement `ImplementsCustody` |
| `declarations` | 1 reference, 3 revisions, plain and risky content, a clean, a sanctioned, a malformed and no answer, symmetry of rows and request ids | 783 756 | `RevisionChain`, `ClearanceEarned`, `MatchNeverStale` |
| `port_call` | 1 full call of 8 events and one that is only created, 2 documents, 2 officers, a message that outlives its reservation, symmetry | 362 422 | `OutboxReplays`, `FourEyesChain`, `ApprovalVerified`, `OneCallPerMessage` |
| `ship_registry` | 2 vessels (one certified), 2 owners, 2 officers, 2 rules, 2 licences, 2 permits and a violation, 4 events, a clock reading that is no whole unit, symmetry | 209 631 | `VesselTrailExplains`, `OneRuleGoverns`, `LicenceTrailExplains` |
| `certificates` | 2 certificates of 2 tenants, the first tenant's sweep always fails, 2 verifications each, clock 0..2, sweeper fairness | 734 856 | `VerificationHonest`, `LapsedIsSwept` |
| `vessel_dues` | 5 offered schedules of 4 ids, an offshore call of one of 2 tankers, a cruise call with 2 passenger counts, 2 assessment keys, 2 instants, 7 events, symmetry | 403 344 | `DuesRecomputable`, `OperationsInOrder` |
| `stranded_money` | small | - | violated, see section 5 |

Deadlock is not checked: a terminal, a booking and an adapter may all come to
rest, and the clock stops at its bound.

### Why the bounds are enough

* Two bookings and a slot of capacity one are the least that can overbook or
  share a receipt. Three payment requests over two references give one reference
  to two bookings and also two references to one booking. The second slot belongs
  to another terminal, so the terminal check matters.
* The clock passes every deadline the code compares: before, at and after
  `ends_at`, `expires_at` and the grace deadline. In `booking_flow` the slot ends
  before the booking expires, the order in which the two timers disagree.
* Three requests of two classes are the least in which order within a class and
  order between classes can both go wrong; the capacity goes both up and down.
  `MaxRequeued` lets one request return to the tail.
* Two attempts reach a retry and the end of the budget; two processes and batches
  of two reach an insert that waits, an insert that finds the row, and a claim that
  skips.
* `MaxAborts` is one abort at any point of any cycle. More of them repeat it: an
  abort leaves nothing but `accepted` and used ids behind.

* Three organisations give a chain of two links with a stranger to it; two tokens
  are drawn by two successive holders of one chain; the second chain competes for
  the container.
* Three revisions are an amendment of an amendment; a call may be open on each.
* Eight events are the shortest life of a port call with a document, a decision and
  an amendment, with two to spare for a second document or a second amendment.
* Four registry events take the certified vessel through a suspension and back with
  a transfer between, and the other vessel from application to certificate; they
  take a licence from application to revocation. The reading of `ship_registry` is the
  one a column does not keep whole; the theorem on the chain is for any readings.
* The integers of `declarations` and `vessel_dues` are a few bits wide, so that
  amounts reach rounding and, in `vessel_dues`, each product fits while the total
  does not.

The proofs of section 4 do not depend on any of these bounds.

### Fairness

* `WorkerFairness` (booking) and `RunFairness` (call-up): Temporal keeps timers
  and retries activities without limit (default retry policy), the worker is
  restarted, and time passes. Each activity and each wait of a run is weakly fair.
  An answer of the customs validator is weakly fair: the activity is retried for
  as long as the validator is down, so this assumes it is not down for ever.
  `CommitLedger` is fair in the step that reports, not in the one that loses its
  report. Handlers, truckers and officers are never fair.
* `SweepFairness` (of `SweepLiveSpec`): the worker sweeps in a ticker loop. A sweep may fail at any
  transaction and starts again from the first, so reaching the second transaction
  is strongly fair, and a reconciliation is fair in the form that finds no row
  locked.
* `DeliveryLiveSpec`: the main loop runs cycle after cycle and a send ends by its
  timeout, so the cycle of each process is weakly fair. Acceptance by the NSW is
  not assumed.
* `CertLiveSpec`: the certificate sweep is a ticker loop; its start and its steps are
  weakly fair, and a tenant whose transaction always fails stays unswept.
* `RetryFairness` and `ArrivalRetrySpec` are for the configurations of section 5
  that are about retries: the caller repeats the call for as long as it is
  accepted.

## 4. The proofs

Eight modules hold the theorems. None of them depends on a bound of section 3: the
sets of rows, actors, messages and keys, the clock and the bounds of the counters are
arbitrary. The only assumptions are those the modules state of their constants, and
TLC evaluates each of them in the run of the module:

| module | assumptions | what they say |
| --- | --- | --- |
| `BookingProofs` | `StoreConstants` | finite `Bookings`, positive capacities and amounts, non-empty slot windows, a share strictly between nothing and all, the null values outside their domains |
| `CallUpProofs` | `QueueConstants` | finite `Requests`, each with a terminal and a class; positive capacities and windows; the null deadline is no number |
| `NSWDeliveryProofs` | `DeliveryConstants` | finite `Events`, positive batch size, attempts and back-off |
| `SecureChainProofs` | `ChainAssumptions` | shipping lines are organisations, `Nobody` is none; times to live, window and threshold are naturals |
| `DeclarationsProofs` | `DeclAssumptions`, `RowAssumptions`, `RulesAssumptions` | the null value apart from rows and calls; positive amounts and weights, rates within the scale |
| `PortCallProofs` | `PortCallAssumptions` | the null value apart from rows; lifetimes and bounds are naturals |
| `RegistryProofs` | `RegistryAssumptions`, `CertificateAssumptions` | null values apart from vessels, owners, officers and rows; a tenant for each certificate; expiry dates are naturals |
| `VesselDuesProofs` | `DuesAssumptions` | finitely many offered schedules with natural ids and dates, at least one rule each and no two for a component and band; the null value apart from rows |

Some theorems have a hypothesis besides, where the code gives no bound or the fact is
an induction over data. The first two hold of the runs' constants; the third is what
the code lacks.

* `ClearancesEarned` assumes `FitsWidth`: no intermediate result of a duty leaves an
  int64. `Validate` puts no upper bound on an amount, and beyond the width the code
  wraps (section 6).
* `DuesStayRecomputable` and `DuesTyped` assume `PricesNatural`: the exact price of
  an offered schedule for the facts of a call is a natural number, that is, a finite
  sum of naturals is one. The fold that computes it is not unfolded. What the wrapped
  total does with that price is proved.
* `WholeInstantsVerify` assumes `Stored(at) = at` for every reading of the clock, which
  truncating the readings before they are hashed would give.

| theorem | establishes | argument |
| --- | --- | --- |
| `StoreTyped` | `[]StoreTypeOK` | inductive; the columns of `truck_bookings` and the rest of the state apart, with one lemma for the row update all transitions share and one for the intents |
| `StoreNeverOverbooks` | `[]NoOverbooking` | inductive together with the types. `RowSteps` sorts the steps by what they do to `truck_bookings`: insert, move one row, expire rows, nothing. A move into a holding status from outside goes through `slotCapacityFree` or the trigger; any other move does not add a holder (`FewerHolders`, by finite cardinality) |
| `StoreImplementsLifecycle` | `StoreSpec => LifecycleSpec` | initial states map to initial states; `RowSteps` gives each step as an insertion, moves or a stutter of the abstract specification |
| `StoreReceiptsUnique` | `[]ReceiptPaysOneBooking` | inductive; only `ConfirmPayment` writes a receipt, and only an unused one |
| `StoreClearsBeforeGate` | `[]ClearedBeforeGate` | the property is not inductive: nothing in it stops a booking with a MISMATCH that is not yet at the gate from reaching it. `Cleared` adds that a MISMATCH leaves the booking REJECTED or CANCELLED, from which no transition leads back |
| `StorePaidByOwnIntent` | `[]PaidByOwnIntent` | the property says nothing of unpaid bookings; `NeverRepaid` adds that they have no receipt, which holds because no entry of the table leads from a paid status back to an unpaid one |
| `StoreReturnsMoney` | `PaidMoneyIsReturned` | an action property from the types: of the transitions out of the money-holding statuses only those of `Cancel` and `ExpireDue` end, and both post first |
| `SysImplementsStore` | `SysSpec => ImplementsStore` | every handler and workflow step is a store step or leaves the store alone; the invariant needed is that a verified confirmation carries a switch reference |
| `SysKeepsStorePromises` | all of the above for the composed system | from `SysImplementsStore` |
| `SysSettledThenCompleted`, `SysOutcomeAgrees` | `[]SettledThenCompleted`, `[]OutcomeAgrees` | `RunAgrees` ties the stage of a run to the row: an approved scan, committed and not yet signalled, buffered or taken up, means that the truck is through the gate; the audit stage means that the settlement is posted. Other actors cannot take a truck that is through back, since only COMPLETED follows. An EXPIRED run is one whose deadline has passed: `DeadlineInv` says when a run may be on its way to EXPIRED, from the slot and the receipt, which stay as they are once it is |
| `SysPaidAtSwitch` | `[]PaidAtSwitch` | `ReceiptsCommitted` covers the confirmation that has been verified and not yet applied, too |
| `QueueTyped`, `PositionsStayUnique` | `[]QueueTypeOK`, `[]PositionsUnique` | inductive together. The next position is one more than the largest in use, and a finite set of numbers has a largest (`Largest`, from the well-foundedness of the naturals) |
| `NeverOverCalled`, `CalledUpInOrder` | `PromotionWithinCapacity`, `PriorityFIFO` | every step that calls up is a `CallUpStep`: some rows leave their status, then the first `k` of each queue are called, `k` the places that are free. `Heads` counts with finite cardinality; unique positions make the order total, so the heads come before all that stay |
| `FlowImplementsQueue`, `FlowTyped` | `ImplementsQueue`, `[]FlowTypeOK` | every step of handlers, runs and sweeper is a step of the queue or leaves it alone |
| `FlowKeepsQueuePromises` | the results on the queue for the composed system | from `FlowImplementsQueue` |
| `FirstGraceKept` | `FirstGraceHonoured` | `GraceOf`: as long as a truck was never requeued it has had one deadline at most, and neither its run nor a start call under way carries another; a run that reports the window as elapsed does so after its deadline |
| `DeliveredWasAccepted`, `CommittedRowsStand` | `[]DeliveredIsAccepted`, `LedgerNeverRewrites` | the discipline of row locks: an event is in the hands of one transaction (`Disjoint`), whose view of it is a later state of the committed row (`Ahead`). `Identified`: an id names one event over the ledger, the open transactions and what the NSW accepted; `AcceptedFirst`: a view says delivered only of what was accepted |
| `ChainReleasesOnce` | `ChainSpec => []SingleRelease` | the property counts tokens and is not inductive. `SingleInv` says it without counting: a consumed token belongs to a completed chain, a completed chain has such a token, no two consumed tokens share a chain, and no two chains in force share a container. The cardinalities follow at the end |
| `OnlyHoldersAct` | `[]VerifiedHoldersOnly` | `ChainKept`: the last link of a chain was written by a party that has held it, and is revoked only together with the chain; `TokensHeld` and `BookingsHeld` are the property by name of the chain. Accepted links are never removed, so a past holder stays one |
| `ChainImplementsCustody` | `ChainSpec => ImplementsCustody` | from the two invariants above: the tail of the links is the holder, the pending link the offer, the consumed tokens the hand-over; each method is one abstract step or a stutter |
| `TrailsExplainChains` | `[]AuditExplainsChain` | the property reads status, holder and open offer off the positions of the trail. `Explained` carries them through an appended entry (`LatestEntry`): it takes over the reading or leaves it alone. A velocity hold that is written late is appended to a chain of any status and changes none of the three. `HoldInv` adds the hold: where holds are configured a flag is written with its hold and never alone, and no chain waits for a hold where they are not |
| `RevisionsChained` | `DeclSpec => []RevisionChain` | the steps are sorted by what they do to `customs_declarations`: nothing, move one live row, insert a first revision, insert an amendment and supersede its head (`AmendAmends`, `SubmitMoves`, `AssessMoves`, ...). `Linked` adds to the property that the superseded revision is a row and that revisions count from one; `AssessMoves` is where the second check of version and status is needed |
| `MatchesStayFresh` | `DeclSpec => []MatchNeverStale` | no kind of step touches a cleared row (`MatchesKept`), and by `OneLive` the head the booking side reads is the only live revision |
| `ClearancesEarned` | `[]ClearanceEarned` (under `FitsWidth`) | `EarnedInv`: a cleared row has passed the rules on its own content, score and permits, a row carries the duty of its content from its submission on, and an answer that waits for the second transaction is well formed. `Passed` is reached by arithmetic on the surcharges and lanes |
| `DeclTyped` | `DeclSpec => []DeclTypeOK` | from the same invariant, with the permits and certificates on the side |
| `PortCallTyped`, `EventsReplayCall`, `AmendedInTurn`, `ApprovedAfterReview` | `[]PortCallTypeOK`, `[]OutboxReplays`, `[]FourEyesChain`, `[]ApprovalVerified` | a step writes rows and events of one call, so the invariant is a predicate `CallKept` on one call and each operation has a lemma on that alone. `LastAt` names the last event of a kind by its position |
| `MessageCreatesOnce` | `[]OneCallPerMessage` | the message's key is the key of the call; `KeysUnique` holds whatever becomes of the reservation, which may lapse |
| `VesselTrailsExplain`, `LicenceTrailsExplain` | `[]VesselTrailExplains`, `[]LicenceTrailExplains` | `VesselKept` and `LicenceKept` on one row with its trail; `Apart`: open licences are of different vessels. Each row of the ownership chain is `Committed`: its hash is over the instant recorded, its column what is kept of it, and it names the hash before |
| `WholeInstantsVerify` | `[]OwnershipVerifies` when no reading loses anything | from the same invariant: the row then has every field its hash was taken over. With `OwnershipVerifies.cfg` (section 5) this says what the failure comes from |
| `OneRuleInForce` | `[]OneRuleGoverns` | `RulesInv` says that exactly one rule is active once there is any, and that what an installation under way has retired are rules that exist |
| `CertificatesTyped`, `VerificationsHonest` | `[]CertTypeOK`, `[]VerificationHonest` | `ToldTrue` ties each past answer to the row as it is now: VALID was before the expiry, EXPIRED means it has passed, REVOKED that the row is revoked, and no step takes any of these back |
| `RecordsInOrder` | `[]OperationsInOrder` | `Reached` adds how far the entries of a call can have got in each status |
| `DuesStayRecomputable`, `DuesTyped` | `[]DuesRecomputable`, `[]DuesTypeOK` (under `PricesNatural`) | `PricesInv`: a schedule is kept under its id, an assessment is pinned to a retained one, and finance was told of recorded keys only. The newest schedule in force exists by well-foundedness (`NewestExists`) |

Only model-checked: the six liveness properties (`ValidationResolves`,
`SettlementFinishes`, `CallUpResolves`, `CapacityIsFilled`, `EventResolves`,
`LapsedIsSwept`), since fairness is beyond the prover, and the two hypotheses above.
The type predicates of `BookingWorkflow`, `NSWDelivery`, `SecureChain` and
`ShipRegistry` have no theorem; the proofs carry the parts of them that they need, in
`RunsTyped`, `Shapes`, `RowTypes`, `HeldInv` and `VesselInv`. The `wait` of an NSW
delivery stays untyped there: it is computed by the recursive `Backoff`, and no safety
property depends on it.

## 5. Disagreements between the code and its documentation

One is a run that TLC must find violated, `stranded_money`: migration 0014 says
money is never stranded in a terminal state, but a paid booking that customs rejects
can be cancelled without a refund, because `refundIfPaid` looks at PAID and
VALIDATION_PENDING only.

The others are run by hand (`tlc -config X.cfg M`, M the module in the second
column). Each has a configuration named after the property, except those marked *,
which are checked with the configuration of the module's own run, the property as its
only one and the symmetry left out. Each is violated:

| property | module | what the counterexample shows |
| --- | --- | --- |
| `RefundExcludesSettlement` | `MCBookingWorkflow` | `ledger.go` keeps refunds for bookings that end before settlement; a refund whose transaction aborts leaves the booking PAID, and it can pass the gate and be settled too |
| `GraceHonoured` | `MCCallUpWorkflow` | `ForfeitCallUp` looks at the status only; the run of an earlier call-up forfeits a requeued truck inside its second window. `FirstGraceHonoured` is what does hold |
| `OwnershipVerifies` | `MCShipRegistry` | `registry/store_test.go:101` expects the ownership history of a vessel to verify. `chainHash` (`registry/store.go:132`) is taken over nanoseconds and the row keeps microseconds, so `OwnershipHistory` refuses an entry whose clock reading was no whole microsecond: one `Register` is enough. The secure chain and the tariff store truncate before they hash. `VesselTrailExplains` is what does hold: the links are unbroken and each hash is over what was recorded |
| `AcceptedOnce` | `MCNSWDelivery` | `drain.go` calls the jti stable across retries; a delivery's id is made in the transaction that sends it, and if it aborts the event is sent again under a new id |
| `ScanAudited` | `MCBookingStore` | the row of a denied scan is rolled back by the error that reports it (`README.md` says every scan is persisted) |
| `UnaffectedBookingExpires` | `MCBookingStore` | one refused refund aborts the expiry of every due booking of the tenant, for ever if its FGN share rounds to zero |
| `RefundMirrorsSettlement` * | `MCBookingWorkflow` | refunds are posted for bookings that were never settled, though called the mirror of a settlement |
| `GateDeadlineClosesBooking` | `MCBookingWorkflow` | at the end of the slot the run closes as EXPIRED while the booking, not yet past `expires_at`, stays PAID |
| `ConfirmationConverges` | `MCBookingWorkflow` | a confirmation whose signal failed is refused once the booking has passed the gate |
| `GateApprovalSettles` | `MCBookingWorkflow` | a gate approval whose signal failed cannot be signalled again: the repeated scan is denied |
| `StaleNeverCalledUp` | `MCCallUpQueue` | a promotion between two sweeps calls up a stale request |
| `ArrivalReachesRun` | `MCCallUpWorkflow` | an arrival whose signal failed cannot be repeated |
| `ReleasedToTailHolder` * | `MCSecureChain` | a token drawn before the chain was passed on still releases the container: `Consume` checks the status of the chain and not its tail. `ImplementsCustody` is what does hold |
| `LicensedVesselCertified` * | `MCShipRegistry` | `fisheries.go` says only CERTIFICATE_ISSUED vessels may hold a permit; the vessel is looked at when the application is made and never again |

`CallUpRuns.cfg` (module `MCCallUpWorkflow`) is the counterpart of `callup_flow`: with
fairness of the runs and a sweeper that may stand still, every supervised call-up is
resolved (`GraceTimerResolves`, passes).

Read in the code and not run: `VerifyFisheriesPermit` is documented to require the
whole validity window and compares only its end; an amendment may turn a rejected
clearance into an approval on rejected documents (`ApprovedOnDocuments` in
`PortCall`); `RecordAssessmentTx` answers an identical repetition with a conflict
once the passenger count or the schedules changed.

## 6. What is not modelled

* **Cryptography and transport**: envelope and JWS signatures, XML, HTTP, gRPC,
  tracing, routing and configuration; they keep no state a model checker could tell
  apart. Tenant isolation is the database's.
* **Manifests and waste receipts**: single-transaction inserts keyed by a signed
  artifact, and a receipt with three linear states.
* **Outbox publisher**: a loop over one table with at-least-once delivery as its only
  promise. When the batch aborts after Kafka acknowledged, its events are published
  again, and an event Kafka refuses stops the ones behind it.
* **PCS integrations, USSD gateway, key cache, scorer token source**: read-side parts
  whose state (positions, a circuit breaker, a session, cached keys) no other part
  depends on.
* **Identifier checks**: check digits over strings; identifiers are model values.
* **Inside the modelled parts**: `CreateTerminal` (terminals are constants),
  TigerBeetle account setup and transfer ids, the amount parser of the switch, the
  content of permits beyond their state.
* **Composition**: the booking drafted by the queue's `Create`, and the promotion that
  a released booking triggers (`capacityReleased`), are actions of their own modules.
* **Lock order**: an action is a whole transaction, so database deadlocks do not
  appear; PostgreSQL breaks them by an abort, which `SweepFails` and `Abort`
  stand for.

Behaviour that the code leaves open, so that no property can promise anything:

* nothing starts the secure-chain expiry workflow, which the worker only registers,
  and nothing lifts a velocity hold; the holder's checks look at `expires_at`
  themselves, so an unswept chain is refused;
* a reserved booking without a run is expired only by the sweep of another run;
* a truck scanned after its payment and before the run has checked the receipt leaves
  `ReceiptCheck` failing for ever: the run stays where it is and the booking is never
  settled (`SettlementFinishes` is about a run that has its scan);
* a velocity hold is lost when the server dies after the refused nomination; the rows
  do not tell;
* a declaration whose assessment died stays SUBMITTED until it is amended, and an
  amended revision starts without the permits of the one before it;
* a repeated `TransferOwnership` appends a second entry;
* overlapping bands of a tariff component are both charged; one call may be assessed
  under two keys; tender windows of a cancelled call stay allocated;
* a duty beyond the width of an int64 wraps.

## 7. Plan

The modules of the plan are written and every safety property of a run has its
theorem. What is left:

1. `PricesNatural` from the assumptions on the offered schedules, which needs an
   induction over a finite sum by hand.
2. The type predicates that have no theorem: `SysTypeOK`, `ChainTypeOK`,
   `RegistryTypeOK`, and `DeliveryTypeOK` with a bound on `Backoff` that does not
   unfold it.
3. The composition of bookings and queue through `Create` and `capacityReleased`.
