----------------------------- MODULE NSWDelivery -----------------------------
(***************************************************************************)
(* The NSW outbound adapter (internal/nswadapter/drain.go, delivery.go,    *)
(* client.go): runners drain the outbox of one tenant into the             *)
(* nsw_delivery ledger and send each delivery to the NSW.                  *)
(*                                                                         *)
(* A cycle is ONE transaction: it scans the outbox, inserts the deliveries *)
(* that are missing, claims what is due, sends it and records the outcome. *)
(* The sends are outside the database: when the transaction aborts, what   *)
(* the NSW accepted stays accepted.  The port-call outbox is drained by    *)
(* the same cycle in the same way; payloads and signatures are left out.   *)
(***************************************************************************)
EXTENDS Integers, FiniteSets, Sequences, FiniteSetsExt, SequencesExt

CONSTANTS
  Events,        \* NSW-relevant outbox events of the tenant
  Runners,       \* adapter processes
  BatchSize,
  MaxAttempts,
  BackoffBase, BackoffMax,
  MaxAborts      \* bound on the transactions that abort

ASSUME DeliveryConstants ==
  /\ IsFiniteSet(Events)
  /\ BatchSize \in Nat \ {0} /\ MaxAttempts \in Nat \ {0}
  /\ BackoffBase \in Nat \ {0} /\ BackoffMax \in Nat
  /\ BackoffBase <= BackoffMax
  /\ MaxAborts \in Nat

VARIABLES
  outbox,     \* committed outbox rows in the order of created_at
  ledger,     \* committed nsw_delivery rows
  tx,         \* the transaction of each runner
  nextId,     \* uuid.New(): number of the next batch of delivery ids
  accepted,   \* deliveries the NSW has accepted: <<event, jti>>
  aborts      \* transactions aborted so far

deliveryVars == <<outbox, ledger, tx, nextId, accepted, aborts>>

Absent == "ABSENT"
Resolved == {"DELIVERED", "FAILED_PERMANENT"}

\* wait: time that is left until next_attempt_at
DeliveryRow == [id : Nat \X Nat, status : {Absent, "PENDING"} \cup Resolved,
                attempts : 0..MaxAttempts, wait : 0..BackoffMax]

NoRow == [id |-> <<0, 0>>, status |-> Absent, attempts |-> 0, wait |-> 0]

\* batch: outbox positions scanned; due: deliveries still to attempt; own: rows inserted
\* or locked, as the transaction sees them in view
Tx == [pc : {"idle", "insert", "claim", "send"}, batch : SUBSET Nat,
       due : SUBSET Events, own : SUBSET Events, view : [Events -> DeliveryRow]]

NoTx == [pc |-> "idle", batch |-> {}, due |-> {}, own |-> {},
         view |-> [e \in Events |-> NoRow]]

DeliveryTypeOK ==
  /\ outbox \in Seq(Events)
  /\ ledger \in [Events -> DeliveryRow]
  /\ tx \in [Runners -> Tx]
  /\ nextId \in Nat
  /\ accepted \subseteq Events \X (Nat \X Nat)
  /\ aborts \in 0..MaxAborts

DeliveryInit ==
  /\ outbox = << >>
  /\ ledger = [e \in Events |-> NoRow]
  /\ tx = [r \in Runners |-> NoTx]
  /\ nextId = 1
  /\ accepted = {}
  /\ aborts = 0

-----------------------------------------------------------------------------
\* Retries.

\* The delay after the k-th failed attempt: doubled every time, capped.
Backoff(k) ==
  LET delay[n \in Nat] == IF n <= 1 THEN BackoffBase ELSE 2 * delay[n - 1]
  IN  Min({delay[k], BackoffMax})

\* Mutant: a failed attempt is not counted.
settleAttemptUncounted(row, sent) ==
  IF sent THEN [row EXCEPT !.status = "DELIVERED"]
          ELSE [row EXCEPT !.wait = Backoff(row.attempts + 1)]

settleAttempt(row, sent) ==
  LET attempts == row.attempts + 1
  IN  CASE sent -> [row EXCEPT !.status = "DELIVERED", !.attempts = attempts,
                               !.wait = 0]
        [] ~sent /\ attempts >= MaxAttempts ->
             [row EXCEPT !.status = "FAILED_PERMANENT", !.attempts = attempts,
                         !.wait = 0]
        [] OTHER -> [row EXCEPT !.attempts = attempts,
                                !.wait = Backoff(attempts)]

-----------------------------------------------------------------------------
\* One cycle of a runner, drainTenant.

Others(r) == UNION {tx[s].own : s \in Runners \ {r}}

\* enqueue, the scan: the oldest events that have no delivery row.
ScanOutbox(r) ==
  /\ tx[r].pc = "idle"
  /\ LET fresh == {i \in DOMAIN outbox : ledger[outbox[i]].status = Absent}
     IN  tx' = [tx EXCEPT ![r].pc = "insert",
                          ![r].batch = {i \in fresh : Cardinality({j \in fresh : j < i}) < BatchSize}]
  /\ UNCHANGED <<outbox, ledger, nextId, accepted, aborts>>

Scanned(r) == {outbox[i] : i \in tx[r].batch}

\* Mutant: one identity serves the whole batch.
newDeliveryIdShared(e) == <<nextId, 0>>

\* uuid.New(): a new one for every event of the batch, here by the number of
\* the batch and the place of the event in the outbox.
newDeliveryId(e) == <<nextId, CHOOSE i \in DOMAIN outbox : outbox[i] = e>>

\* ON CONFLICT (source, event_id) DO NOTHING: waits for another transaction
\* that inserts the same event, and leaves its committed row alone.
insertDelivery(r) ==
  /\ tx[r].pc = "insert"
  /\ \A e \in Scanned(r) \cap Others(r) : ledger[e].status # Absent
  /\ LET new == {e \in Scanned(r) : ledger[e].status = Absent}
     IN  tx' = [tx EXCEPT
                  ![r].pc = "claim", ![r].own = new,
                  ![r].view = [e \in Events |->
                                 IF e \in new
                                   THEN [NoRow EXCEPT !.id = newDeliveryId(e),
                                                      !.status = "PENDING"]
                                   ELSE NoRow]]
  /\ nextId' = IF tx[r].batch = {} THEN nextId ELSE nextId + 1
  /\ UNCHANGED <<outbox, ledger, accepted, aborts>>

Visible(r, e) == IF e \in tx[r].own THEN tx[r].view[e] ELSE ledger[e]

\* Mutant: FOR UPDATE SKIP LOCKED is missing.
ClaimableShared(r) ==
  {e \in Events : /\ Visible(r, e).status = "PENDING"
                  /\ Visible(r, e).wait = 0}

\* PENDING, due, and not locked or still uncommitted elsewhere.
Claimable(r) ==
  {e \in Events \ Others(r) : /\ Visible(r, e).status = "PENDING"
                              /\ Visible(r, e).wait = 0}

claimDue(r) ==
  /\ tx[r].pc = "claim"
  /\ \E S \in SUBSET Claimable(r) :
       /\ Cardinality(S) = Min({BatchSize, Cardinality(Claimable(r))})
       /\ tx' = [tx EXCEPT ![r].pc = "send", ![r].due = S,
                           ![r].own = @ \cup S,
                           ![r].view = [e \in Events |->
                                          IF e \in S THEN Visible(r, e)
                                                     ELSE tx[r].view[e]]]
  /\ UNCHANGED <<outbox, ledger, nextId, accepted, aborts>>

\* The outcomes of Send: acknowledged (2xx, or 409 for a jti already there),
\* refused, or accepted with the answer lost.
Send == {<<"acknowledged", TRUE, TRUE>>, <<"refused", FALSE, FALSE>>,
         <<"answer lost", TRUE, FALSE>>}

attempt(r, e) ==
  /\ tx[r].pc = "send"
  /\ e \in tx[r].due
  /\ \E outcome \in Send :
       /\ accepted' = accepted \cup IF outcome[2]
                                      THEN {<<e, tx[r].view[e].id>>} ELSE {}
       /\ tx' = [tx EXCEPT ![r].due = @ \ {e},
                           ![r].view[e] = settleAttempt(@, outcome[3])]
  /\ UNCHANGED <<outbox, ledger, nextId, aborts>>

Commit(r) ==
  /\ tx[r].pc = "send"
  /\ tx[r].due = {}
  /\ ledger' = [e \in Events |-> Visible(r, e)]
  /\ tx' = [tx EXCEPT ![r] = NoTx]
  /\ UNCHANGED <<outbox, nextId, accepted, aborts>>

\* The process dies or shuts down, or the database refuses a statement.
Abort(r) ==
  /\ tx[r].pc # "idle"
  /\ aborts < MaxAborts
  /\ aborts' = aborts + 1
  /\ tx' = [tx EXCEPT ![r] = NoTx]
  /\ UNCHANGED <<outbox, ledger, nextId, accepted>>

-----------------------------------------------------------------------------
\* A store's emit commits an event with its mutation.
Emit(e) ==
  /\ e \notin ToSet(outbox)
  /\ outbox' = Append(outbox, e)
  /\ UNCHANGED <<ledger, tx, nextId, accepted, aborts>>

Sooner(row) == [row EXCEPT !.wait = IF @ = 0 THEN 0 ELSE @ - 1]

\* Time passes for the rows that wait, in the ledger and in open transactions.
Tick ==
  /\ ledger' = [e \in Events |-> Sooner(ledger[e])]
  /\ tx' = [r \in Runners |->
              [tx[r] EXCEPT !.view = [e \in Events |-> Sooner(@[e])]]]
  /\ UNCHANGED <<outbox, nextId, accepted, aborts>>

Cycle(r) == \/ ScanOutbox(r) \/ insertDelivery(r) \/ claimDue(r)
            \/ \E e \in Events : attempt(r, e)
            \/ Commit(r)

DeliveryNext ==
  \/ Tick
  \/ \E e \in Events : Emit(e)
  \/ \E r \in Runners : Cycle(r) \/ Abort(r)

DeliverySpec == DeliveryInit /\ [][DeliveryNext]_deliveryVars

\* The main loop runs cycle after cycle, and a send ends by its timeout.
DeliveryLiveSpec ==
  /\ DeliverySpec
  /\ WF_deliveryVars(Tick)
  /\ \A r \in Runners : WF_deliveryVars(Cycle(r))

-----------------------------------------------------------------------------
\* Properties.

\* What the ledger calls delivered has been accepted under the identity on its
\* row, and no identity stands for two events (attempt, insertDelivery).
DeliveredIsAccepted ==
  /\ \A e \in Events : ledger[e].status = "DELIVERED" =>
       <<e, ledger[e].id>> \in accepted
  /\ \A a, b \in accepted : a[2] = b[2] => a[1] = b[1]

\* A committed delivery keeps its identity, a resolved one its outcome and its
\* attempts, whichever runners are at work (claimDue, attempt).
LedgerNeverRewrites ==
  [][\A e \in Events :
       ledger[e].status # Absent =>
         /\ ledger'[e].id = ledger[e].id
         /\ ledger'[e].attempts >= ledger[e].attempts
         /\ ledger[e].status \in Resolved =>
              /\ ledger'[e].status = ledger[e].status
              /\ ledger'[e].attempts = ledger[e].attempts]_deliveryVars

\* Nothing is silently dropped: every event of the outbox ends up delivered or
\* failed permanently (drainTenant, settleAttempt).
EventResolves ==
  \A e \in Events :
    e \in ToSet(outbox) ~> ledger[e].status \in Resolved

\* What attempt says of the jti: it is stable across retries, so that the NSW
\* takes an event once.
AcceptedOnce ==
  \A a, b \in accepted : a[1] = b[1] => a[2] = b[2]
=============================================================================
