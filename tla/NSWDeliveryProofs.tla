--------------------------- MODULE NSWDeliveryProofs ---------------------------
(***************************************************************************)
(* The delivery ledger for any number of events, runners, attempts and     *)
(* aborted transactions: LedgerNeverRewrites and DeliveredIsAccepted.      *)
(*                                                                         *)
(* What makes them inductive is the discipline of row locks: an event is   *)
(* in the hands of one transaction (Disjoint), and what that transaction   *)
(* sees of it is a later state of the committed row (Ahead).  Identities   *)
(* are unique over the ledger, the open transactions and what the NSW has  *)
(* accepted, which outlives the transaction that sent it (Identified).     *)
(*                                                                         *)
(* The time a row waits is left untyped: Backoff is a recursive function,  *)
(* and no property depends on it.                                          *)
(***************************************************************************)
EXTENDS NSWDelivery, TLAPS

Shaped(row) ==
  /\ row = [id |-> row.id, status |-> row.status, attempts |-> row.attempts, wait |-> row.wait]
  /\ row.attempts \in Nat
  /\ row.id = <<row.id[1], row.id[2]>>

FiveFields(t) == t = [pc |-> t.pc, batch |-> t.batch, due |-> t.due, own |-> t.own, view |-> t.view]

TxShaped(t, box) ==
  /\ FiveFields(t)
  /\ t.view = [e \in Events |-> t.view[e]]
  /\ t.pc # "send" => t.due = {}
  /\ t.own \subseteq Events /\ t.due \subseteq t.own /\ t.batch \subseteq DOMAIN box

Shapes ==
  /\ outbox \in Seq(Events)
  /\ nextId \in Nat
  /\ ledger = [e \in Events |-> ledger[e]]
  /\ \A e \in Events : Shaped(ledger[e])
  /\ tx = [r \in Runners |-> tx[r]]
  /\ \A r \in Runners : TxShaped(tx[r], outbox)
  /\ \A r \in Runners : \A e \in tx[r].own : Shaped(tx[r].view[e])

\* No event is in the hands of two transactions.
Disjoint == \A r, s \in Runners : \A e \in tx[r].own : e \in tx[s].own => r = s

\* The row a transaction holds is a later state of the committed one, which is
\* not resolved.
Ahead ==
  \A r \in Runners : \A e \in tx[r].own :
    /\ tx[r].view[e].status # Absent
    /\ ledger[e].status # Absent =>
         /\ ledger[e].status \notin Resolved
         /\ tx[r].view[e].id = ledger[e].id
         /\ tx[r].view[e].attempts >= ledger[e].attempts

\* n is the identity of e in the ledger, in an open transaction, or at the NSW.
Named(e, n) ==
  \/ e \in Events /\ ledger[e].status # Absent /\ ledger[e].id = n
  \/ \E r \in Runners : e \in tx[r].own /\ tx[r].view[e].id = n
  \/ <<e, n>> \in accepted

Identified ==
  /\ \A e, n : Named(e, n) => n[1] \in Nat /\ n[1] < nextId
  /\ \A e, f, n : Named(e, n) /\ Named(f, n) => e = f
  /\ \A a \in accepted : a = <<a[1], a[2]>>

AcceptedFirst ==
  /\ \A e \in Events : ledger[e].status = "DELIVERED" => <<e, ledger[e].id>> \in accepted
  /\ \A r \in Runners : \A e \in tx[r].own :
       tx[r].view[e].status = "DELIVERED" => <<e, tx[r].view[e].id>> \in accepted

DeliveryInv == Shapes /\ Disjoint /\ Ahead /\ Identified /\ AcceptedFirst

-----------------------------------------------------------------------------
(* Rows.                                                                   *)

LEMMA NoRowShaped == Shaped(NoRow) /\ NoRow.status = Absent
BY DEF Shaped, NoRow, Absent

LEMMA SoonerRow ==
  ASSUME NEW row, Shaped(row)
  PROVE  /\ Shaped(Sooner(row)) /\ Sooner(row).id = row.id
         /\ Sooner(row).status = row.status /\ Sooner(row).attempts = row.attempts
<1>1. PICK w : w = IF row.wait = 0 THEN 0 ELSE row.wait - 1
  OBVIOUS
<1>2. Sooner(row) = [row EXCEPT !.wait = w]
  BY <1>1 DEF Sooner
<1> QED
  BY <1>2 DEF Shaped

LEMMA SettledRow ==
  ASSUME NEW row, Shaped(row), NEW sent \in BOOLEAN
  PROVE  LET q == settleAttempt(row, sent) IN
         /\ Shaped(q) /\ q.id = row.id /\ q.attempts >= row.attempts
         /\ q.status \in {row.status} \union Resolved
         /\ q.status = "DELIVERED" => sent \/ row.status = "DELIVERED"
<1>1. PICK n \in Nat : n = row.attempts + 1 /\ n >= row.attempts
  BY DEF Shaped
<1>2. CASE sent
  <2>1. settleAttempt(row, sent) = [row EXCEPT !.status = "DELIVERED", !.attempts = n, !.wait = 0]
    BY <1>1, <1>2 DEF settleAttempt
  <2> QED
    BY <1>1, <1>2, <2>1 DEF Shaped, Resolved
<1>3. CASE ~sent /\ n >= MaxAttempts
  <2>1. settleAttempt(row, sent) = [row EXCEPT !.status = "FAILED_PERMANENT", !.attempts = n, !.wait = 0]
    BY <1>1, <1>3 DEF settleAttempt
  <2> QED
    BY <1>1, <1>3, <2>1 DEF Shaped, Resolved
<1>4. CASE ~sent /\ ~(n >= MaxAttempts)
  <2>1. PICK w : w = Backoff(n)
    OBVIOUS
  <2>2. settleAttempt(row, sent) = [row EXCEPT !.attempts = n, !.wait = w]
    BY <1>1, <1>4, <2>1 DEF settleAttempt
  <2> QED
    BY <1>1, <1>4, <2>2 DEF Shaped, Resolved
<1> QED
  BY <1>2, <1>3, <1>4

\* The updates of a transaction, folded for the same reason as Put below.
Scan(u, a, b) == [u EXCEPT !.pc = a, !.batch = b]
Insert(u, a, b, c) == [u EXCEPT !.pc = a, !.own = b, !.view = c]
Claim(u, a, b, c, d) == [u EXCEPT !.pc = a, !.due = b, !.own = c, !.view = d]
Attempted(u, a, b) == [u EXCEPT !.due = a, !.view = b]

LEMMA TxScan ==
  ASSUME NEW u, FiveFields(u), NEW a, NEW b, NEW t, t = Scan(u, a, b)
  PROVE  FiveFields(t) /\ t.pc = a /\ t.batch = b /\ t.due = u.due /\ t.own = u.own /\ t.view = u.view
BY DEF FiveFields, Scan

LEMMA TxInsert ==
  ASSUME NEW u, FiveFields(u), NEW a, NEW b, NEW c, NEW t, t = Insert(u, a, b, c)
  PROVE  FiveFields(t) /\ t.pc = a /\ t.batch = u.batch /\ t.due = u.due /\ t.own = b /\ t.view = c
BY DEF FiveFields, Insert

LEMMA TxClaim ==
  ASSUME NEW u, FiveFields(u), NEW a, NEW b, NEW c, NEW d, NEW t,
         t = Claim(u, a, b, c, d)
  PROVE  FiveFields(t) /\ t.pc = a /\ t.batch = u.batch /\ t.due = b /\ t.own = c /\ t.view = d
BY DEF FiveFields, Claim

LEMMA TxAttempt ==
  ASSUME NEW u, FiveFields(u), NEW a, NEW b, NEW t, t = Attempted(u, a, b)
  PROVE  FiveFields(t) /\ t.pc = u.pc /\ t.batch = u.batch /\ t.due = a /\ t.own = u.own /\ t.view = b
BY DEF FiveFields, Attempted

-----------------------------------------------------------------------------
(* A step of one runner.                                                   *)

\* f with x at r; kept folded, so that the lemmas below match by name.
Put(f, r, x) == [f EXCEPT ![r] = x]

LEMMA PutAt ==
  ASSUME Shapes, NEW r \in Runners, NEW t, tx' = Put(tx, r, t)
  PROVE  /\ tx'[r] = t /\ \A s \in Runners \ {r} : tx'[s] = tx[s]
         /\ tx' = [s \in Runners |-> tx'[s]]
<1>1. tx = [s \in Runners |-> tx[s]]
  BY DEF Shapes
<1> QED
  BY <1>1 DEF Put

\* An identity drawn for e in this step.
Drawn(e, n) ==
  /\ nextId' > nextId /\ n[1] = nextId /\ n = <<n[1], n[2]>>
  /\ outbox[n[2]] = e

\* What a step of runner r that leaves it with transaction t has to respect.
LEMMA RunnerStep ==
  ASSUME DeliveryInv, NEW r \in Runners, NEW t, tx' = Put(tx, r, t),
         TxShaped(t, outbox), \A e \in t.own : Shaped(t.view[e]),
         \A e \in t.own, s \in Runners \ {r} : e \notin tx[s].own,
         \A e \in t.own :
           /\ t.view[e].status # Absent
           /\ ledger'[e].status # Absent =>
                /\ ledger'[e].status \notin Resolved
                /\ t.view[e].id = ledger'[e].id /\ t.view[e].attempts >= ledger'[e].attempts,
         ledger' = [e \in Events |-> ledger'[e]], \A e \in Events : Shaped(ledger'[e]),
         \A s \in Runners \ {r} : \A e \in tx[s].own : ledger'[e] = ledger[e],
         outbox' = outbox, nextId' \in Nat, nextId' >= nextId,
         \A e \in t.own : Named(e, t.view[e].id) \/ Drawn(e, t.view[e].id),
         \A e \in Events : ledger'[e].status # Absent => Named(e, ledger'[e].id),
         \A a \in accepted' : a \in accepted \/ (a = <<a[1], a[2]>> /\ Named(a[1], a[2])),
         accepted \subseteq accepted',
         \A e \in Events : ledger'[e].status = "DELIVERED" => <<e, ledger'[e].id>> \in accepted',
         \A e \in t.own : t.view[e].status = "DELIVERED" => <<e, t.view[e].id>> \in accepted'
  PROVE  DeliveryInv'
<1>1. tx'[r] = t /\ (\A s \in Runners \ {r} : tx'[s] = tx[s]) /\ tx' = [s \in Runners |-> tx'[s]]
  BY PutAt DEF DeliveryInv
<1>2. Shapes'
  <2>1. \A s \in Runners : TxShaped(tx'[s], outbox')
    BY <1>1 DEF DeliveryInv, Shapes
  <2>2. \A s \in Runners : \A e \in tx'[s].own : Shaped(tx'[s].view[e])
    BY <1>1 DEF DeliveryInv, Shapes
  <2> QED
    BY <1>1, <2>1, <2>2 DEF DeliveryInv, Shapes
<1>3. Disjoint'
  BY <1>1 DEF DeliveryInv, Disjoint
<1>4. Ahead'
  BY <1>1 DEF DeliveryInv, Ahead
<1>5. \A e, n : Named(e, n)' => Named(e, n) \/ Drawn(e, n)
  <2>1. SUFFICES ASSUME NEW e, NEW n, Named(e, n)' PROVE Named(e, n) \/ Drawn(e, n)
    OBVIOUS
  <2>2. CASE e \in Events /\ ledger'[e].status # Absent /\ ledger'[e].id = n
    BY <2>2
  <2>3. CASE \E s \in Runners : e \in tx'[s].own /\ tx'[s].view[e].id = n
    <3>1. PICK s \in Runners : e \in tx'[s].own /\ tx'[s].view[e].id = n
      BY <2>3
    <3>2. CASE s = r
      BY <1>1, <3>1, <3>2
    <3>3. CASE s # r
      <4>1. e \in tx[s].own /\ tx[s].view[e].id = n
        BY <1>1, <3>1, <3>3
      <4> QED
        BY <4>1 DEF Named
    <3> QED
      BY <3>2, <3>3
  <2>4. CASE <<e, n>> \in accepted'
    <3>1. CASE <<e, n>> \in accepted
      BY <3>1 DEF Named
    <3>2. CASE <<e, n>> \notin accepted
      <4>1. PICK a \in accepted' : a = <<e, n>>
        BY <2>4
      <4>2. Named(a[1], a[2]) /\ a[1] = e /\ a[2] = n
        BY <3>2, <4>1
      <4> QED
        BY <4>2
    <3> QED
      BY <3>1, <3>2
  <2> QED
    BY <2>1, <2>2, <2>3, <2>4 DEF Named
<1>6. Identified'
  <2>1. /\ \A e, n : Named(e, n) => n[1] \in Nat /\ n[1] < nextId
        /\ \A e, f, n : Named(e, n) /\ Named(f, n) => e = f
        /\ \A a \in accepted : a = <<a[1], a[2]>>
        /\ nextId \in Nat
    BY DEF DeliveryInv, Identified, Shapes
  <2>2. ASSUME NEW e, NEW n, Named(e, n)' PROVE n[1] \in Nat /\ n[1] < nextId'
    <3>1. CASE Named(e, n)
      BY <2>1, <3>1
    <3>2. CASE Drawn(e, n)
      BY <2>1, <3>2 DEF Drawn
    <3> QED
      BY <1>5, <2>2, <3>1, <3>2
  <2>3. ASSUME NEW e, NEW f, NEW n, Named(e, n)', Named(f, n)' PROVE e = f
    <3>1. (Named(e, n) \/ Drawn(e, n)) /\ (Named(f, n) \/ Drawn(f, n))
      BY <1>5, <2>3
    <3>2. \A x : Named(x, n) => ~(n[1] = nextId)
      BY <2>1
    <3> QED
      BY <2>1, <3>1, <3>2 DEF Drawn
  <2>4. \A a \in accepted' : a = <<a[1], a[2]>>
    BY <2>1
  <2> QED
    BY <2>2, <2>3, <2>4 DEF Identified
<1>7. AcceptedFirst'
  BY <1>1 DEF DeliveryInv, AcceptedFirst
<1> QED
  BY <1>2, <1>3, <1>4, <1>6, <1>7 DEF DeliveryInv

\* What the invariant says of one runner and of the ledger.
LEMMA OfRunner ==
  ASSUME DeliveryInv, NEW r \in Runners
  PROVE  /\ Shapes /\ tx = [s \in Runners |-> tx[s]]
         /\ TxShaped(tx[r], outbox) /\ \A e \in tx[r].own : Shaped(tx[r].view[e])
         /\ \A e \in tx[r].own, s \in Runners \ {r} : e \notin tx[s].own
         /\ \A e \in tx[r].own :
              /\ tx[r].view[e].status # Absent
              /\ ledger[e].status # Absent =>
                   /\ ledger[e].status \notin Resolved
                   /\ tx[r].view[e].id = ledger[e].id /\ tx[r].view[e].attempts >= ledger[e].attempts
         /\ ledger = [e \in Events |-> ledger[e]] /\ \A e \in Events : Shaped(ledger[e])
         /\ outbox \in Seq(Events) /\ nextId \in Nat /\ nextId >= nextId
         /\ \A e \in tx[r].own : Named(e, tx[r].view[e].id)
         /\ \A e \in Events : ledger[e].status # Absent => Named(e, ledger[e].id)
         /\ \A e \in Events : ledger[e].status = "DELIVERED" => <<e, ledger[e].id>> \in accepted
         /\ \A e \in tx[r].own : tx[r].view[e].status = "DELIVERED" => <<e, tx[r].view[e].id>> \in accepted
<1>1. Shapes /\ Ahead /\ Disjoint /\ AcceptedFirst
  BY DEF DeliveryInv
<1>2. \A e \in tx[r].own, s \in Runners \ {r} : e \notin tx[s].own
  BY <1>1 DEF Disjoint
<1>3. \A e \in tx[r].own :
        /\ tx[r].view[e].status # Absent
        /\ ledger[e].status # Absent =>
             /\ ledger[e].status \notin Resolved
             /\ tx[r].view[e].id = ledger[e].id /\ tx[r].view[e].attempts >= ledger[e].attempts
  BY <1>1 DEF Ahead
<1>4. /\ \A e \in tx[r].own : Named(e, tx[r].view[e].id)
      /\ \A e \in Events : ledger[e].status # Absent => Named(e, ledger[e].id)
  BY DEF Named
<1>5. /\ tx = [s \in Runners |-> tx[s]]
      /\ TxShaped(tx[r], outbox) /\ \A e \in tx[r].own : Shaped(tx[r].view[e])
      /\ ledger = [e \in Events |-> ledger[e]] /\ \A e \in Events : Shaped(ledger[e])
      /\ outbox \in Seq(Events) /\ nextId \in Nat
  BY <1>1 DEF Shapes
<1>6. nextId >= nextId
  BY <1>5
<1>7. /\ \A e \in Events : ledger[e].status = "DELIVERED" => <<e, ledger[e].id>> \in accepted
      /\ \A e \in tx[r].own : tx[r].view[e].status = "DELIVERED" => <<e, tx[r].view[e].id>> \in accepted
  BY <1>1 DEF AcceptedFirst
<1> QED
  BY <1>1, <1>2, <1>3, <1>4, <1>5, <1>6, <1>7

LEMMA ScanStep ==
  ASSUME DeliveryInv, NEW r \in Runners, ScanOutbox(r)
  PROVE  DeliveryInv'
<1>1. PICK B : /\ B \subseteq DOMAIN outbox
               /\ tx' = [tx EXCEPT ![r].pc = "insert", ![r].batch = B]
  BY DEF ScanOutbox
<1>2. PICK t : t = Scan(tx[r], "insert", B)
  OBVIOUS
<1>3. TxShaped(tx[r], outbox) /\ tx = [s \in Runners |-> tx[s]]
  BY OfRunner
<1>4. tx' = Put(tx, r, t)
  BY <1>1, <1>2, <1>3 DEF Put, Scan
<1>5. t.own = tx[r].own /\ t.view = tx[r].view /\ TxShaped(t, outbox)
  <2>1. /\ FiveFields(t) /\ t.pc = "insert" /\ t.batch = B /\ t.due = tx[r].due
        /\ t.own = tx[r].own /\ t.view = tx[r].view
    BY <1>2, <1>3, TxScan DEF TxShaped
  <2>2. tx[r].pc # "send"
    BY DEF ScanOutbox
  <2> QED
    BY <1>1, <1>3, <2>1, <2>2 DEF TxShaped
<1>6. UNCHANGED <<outbox, ledger, nextId, accepted>>
  BY DEF ScanOutbox
<1> QED
  BY <1>4, <1>5, <1>6, OfRunner, RunnerStep

LEMMA InsertStep ==
  ASSUME DeliveryInv, NEW r \in Runners, insertDelivery(r)
  PROVE  DeliveryInv'
<1> DEFINE new == {e \in Scanned(r) : ledger[e].status = Absent}
           row(e) == [NoRow EXCEPT !.id = newDeliveryId(e), !.status = "PENDING"]
           view == [e \in Events |-> IF e \in new THEN row(e) ELSE NoRow]
           t == Insert(tx[r], "claim", new, view)
<1>1. TxShaped(tx[r], outbox) /\ tx = [s \in Runners |-> tx[s]] /\ outbox \in Seq(Events) /\ nextId \in Nat
  BY OfRunner
<1>2. tx[r].pc = "insert" /\ tx[r].due = {} /\ tx[r].batch \subseteq DOMAIN outbox
  BY <1>1 DEF TxShaped, insertDelivery
<1>3. tx' = Put(tx, r, t)
  BY <1>1 DEF insertDelivery, Put, Insert
<1>4. new \subseteq Events
  BY <1>1, <1>2 DEF Scanned
<1>5. t.own = new /\ t.view = view /\ TxShaped(t, outbox)
  <2>1. view = [e \in Events |-> view[e]]
    OBVIOUS
  <2> HIDE DEF new, view
  <2>2. PICK u : u = t
    OBVIOUS
  <2>3. /\ FiveFields(u) /\ u.pc = "claim" /\ u.batch = tx[r].batch /\ u.due = tx[r].due
        /\ u.own = new /\ u.view = view
    BY <1>1, <2>2, TxInsert DEF TxShaped
  <2>4. TxShaped(u, outbox)
    BY <1>2, <1>4, <2>1, <2>3 DEF TxShaped
  <2> QED
    BY <2>2, <2>3, <2>4
<1>6. ASSUME NEW e \in new
      PROVE  /\ view[e] = row(e) /\ row(e).id = newDeliveryId(e) /\ row(e).status = "PENDING"
             /\ Shaped(row(e)) /\ Drawn(e, newDeliveryId(e))
  <2>1. view[e] = row(e)
    BY <1>4
  <2>2. PICK i \in DOMAIN outbox : i = (CHOOSE j \in DOMAIN outbox : outbox[j] = e) /\ outbox[i] = e
    BY <1>2 DEF Scanned
  <2>3. newDeliveryId(e) = <<nextId, i>>
    BY <2>2 DEF newDeliveryId
  <2>4. tx[r].batch # {}
    BY DEF Scanned
  <2>5. nextId' > nextId
    <3>1. nextId' = IF tx[r].batch = {} THEN nextId ELSE nextId + 1
      BY DEF insertDelivery
    <3> QED
      BY <1>1, <2>4, <3>1
  <2>6. PICK n : n = newDeliveryId(e) /\ n = <<nextId, i>> /\ n[1] = nextId /\ n[2] = i
    BY <2>3
  <2>7. PICK q : q = row(e)
    OBVIOUS
  <2>8. q = [id |-> n, status |-> "PENDING", attempts |-> 0, wait |-> 0]
    BY <2>6, <2>7 DEF NoRow
  <2>9. Shaped(q) /\ q.id = n /\ q.status = "PENDING"
    BY <2>6, <2>8 DEF Shaped
  <2>10. Drawn(e, n)
    BY <2>2, <2>5, <2>6 DEF Drawn
  <2> QED
    BY <2>1, <2>6, <2>7, <2>9, <2>10
<1>7. UNCHANGED <<outbox, ledger, accepted>> /\ nextId' \in Nat /\ nextId' >= nextId
  <2>1. UNCHANGED <<outbox, ledger, accepted>> /\ nextId' = IF tx[r].batch = {} THEN nextId ELSE nextId + 1
    BY DEF insertDelivery
  <2> QED
    BY <1>1, <2>1
<1>8. ASSUME NEW e \in new, NEW s \in Runners \ {r} PROVE e \notin tx[s].own
  BY DEF insertDelivery, Others
<1>9. \A e \in new : ledger[e].status = Absent
  OBVIOUS
<1> HIDE DEF t, view, row, new
<1>10. \A e \in t.own : /\ Shaped(t.view[e]) /\ Drawn(e, t.view[e].id)
                        /\ t.view[e].status = "PENDING"
  BY <1>5, <1>6
<1>11. "PENDING" # Absent
  BY DEF Absent
<1> QED
  BY <1>3, <1>5, <1>7, <1>8, <1>9, <1>10, <1>11, OfRunner, RunnerStep

LEMMA ClaimStep ==
  ASSUME DeliveryInv, NEW r \in Runners, claimDue(r)
  PROVE  DeliveryInv'
<1>1. PICK S \in SUBSET Claimable(r) :
        tx' = [tx EXCEPT ![r].pc = "send", ![r].due = S, ![r].own = @ \cup S,
                         ![r].view = [e \in Events |-> IF e \in S THEN Visible(r, e) ELSE tx[r].view[e]]]
  BY DEF claimDue
<1> DEFINE view == [e \in Events |-> IF e \in S THEN Visible(r, e) ELSE tx[r].view[e]]
           t == Claim(tx[r], "send", S, tx[r].own \cup S, view)
<1>2. TxShaped(tx[r], outbox) /\ tx = [s \in Runners |-> tx[s]]
  BY OfRunner
<1>3. tx' = Put(tx, r, t)
  BY <1>1, <1>2 DEF Put, Claim
<1>4. S \subseteq Events
  BY DEF Claimable
<1>5. t.own = tx[r].own \cup S /\ t.view = view /\ TxShaped(t, outbox)
  <2>1. view = [e \in Events |-> view[e]]
    OBVIOUS
  <2> HIDE DEF view
  <2>2. PICK own : own = tx[r].own \cup S
    OBVIOUS
  <2>3. PICK u : u = t
    OBVIOUS
  <2>4. /\ FiveFields(u) /\ u.pc = "send" /\ u.batch = tx[r].batch /\ u.due = S
        /\ u.own = own /\ u.view = view
    BY <1>2, <2>2, <2>3, TxClaim DEF TxShaped
  <2>5. TxShaped(u, outbox)
    BY <1>2, <1>4, <2>1, <2>2, <2>4 DEF TxShaped
  <2> QED
    BY <2>2, <2>3, <2>4, <2>5
<1>6. \A e \in t.own : \/ e \in tx[r].own /\ view[e] = tx[r].view[e]
                       \/ e \in S /\ e \notin tx[r].own /\ view[e] = ledger[e] /\ ledger[e].status = "PENDING"
  <2>1. \A e \in S : Visible(r, e).status = "PENDING"
    BY DEF Claimable
  <2>2. t.own \subseteq Events
    BY <1>2, <1>4, <1>5 DEF TxShaped
  <2> QED
    BY <1>5, <2>1, <2>2 DEF Visible
<1>7. \A e \in S, s \in Runners \ {r} : e \notin tx[s].own
  BY DEF Claimable, Others
<1>8. UNCHANGED <<outbox, ledger, nextId, accepted>>
  BY DEF claimDue
<1>9. "PENDING" # Absent /\ "PENDING" \notin Resolved /\ "PENDING" # "DELIVERED"
  BY DEF Absent, Resolved
<1> HIDE DEF t, view
<1>10. \A e \in t.own : t.view[e].status # Absent /\ Shaped(t.view[e]) /\ Named(e, t.view[e].id)
  BY <1>4, <1>5, <1>6, <1>9, OfRunner
<1>11. ASSUME NEW e \in t.own, ledger[e].status # Absent
       PROVE  /\ ledger[e].status \notin Resolved
              /\ t.view[e].id = ledger[e].id /\ t.view[e].attempts >= ledger[e].attempts
  <2>1. CASE e \in tx[r].own /\ view[e] = tx[r].view[e]
    BY <1>5, <1>11, <2>1, OfRunner
  <2>2. CASE e \in S /\ view[e] = ledger[e] /\ ledger[e].status = "PENDING"
    <3>1. ledger[e].attempts \in Nat
      BY <1>4, <2>2, OfRunner DEF Shaped
    <3> QED
      BY <1>5, <1>9, <2>2, <3>1
  <2> QED
    BY <1>6, <2>1, <2>2
<1>12. \A e \in t.own, s \in Runners \ {r} : e \notin tx[s].own
  BY <1>5, <1>7, OfRunner
<1>13. \A e \in t.own : t.view[e].status = "DELIVERED" => <<e, t.view[e].id>> \in accepted
  BY <1>5, <1>6, <1>9, OfRunner
<1> QED
  BY <1>3, <1>5, <1>8, <1>10, <1>11, <1>12, <1>13, OfRunner, RunnerStep

LEMMA AttemptStep ==
  ASSUME DeliveryInv, NEW r \in Runners, NEW e \in Events, attempt(r, e)
  PROVE  DeliveryInv'
<1>1. PICK outcome \in Send :
        /\ accepted' = accepted \cup IF outcome[2] THEN {<<e, tx[r].view[e].id>>} ELSE {}
        /\ tx' = [tx EXCEPT ![r].due = @ \ {e}, ![r].view[e] = settleAttempt(@, outcome[3])]
  BY DEF attempt
<1>2. PICK got \in BOOLEAN, sent \in BOOLEAN : got = outcome[2] /\ sent = outcome[3] /\ (sent => got)
  <2>1. \/ outcome = <<"acknowledged", TRUE, TRUE>> \/ outcome = <<"refused", FALSE, FALSE>>
        \/ outcome = <<"answer lost", TRUE, FALSE>>
    BY DEF Send
  <2>2. CASE outcome = <<"acknowledged", TRUE, TRUE>>
    <3>1. TRUE = outcome[2] /\ TRUE = outcome[3]
      BY <2>2
    <3> QED
      BY <3>1, Zenon
  <2>3. CASE outcome = <<"refused", FALSE, FALSE>>
    <3>1. FALSE = outcome[2] /\ FALSE = outcome[3]
      BY <2>3
    <3> QED
      BY <3>1, Zenon
  <2>4. CASE outcome = <<"answer lost", TRUE, FALSE>>
    <3>1. TRUE = outcome[2] /\ FALSE = outcome[3]
      BY <2>4
    <3> QED
      BY <3>1, Zenon
  <2> QED
    BY <2>1, <2>2, <2>3, <2>4
<1>3. TxShaped(tx[r], outbox) /\ tx = [s \in Runners |-> tx[s]]
  BY OfRunner
<1>4. e \in tx[r].own /\ tx[r].pc = "send"
  BY <1>3 DEF attempt, TxShaped
<1>5. PICK q : q = settleAttempt(tx[r].view[e], sent)
  OBVIOUS
<1>6. PICK n : n = tx[r].view[e].id
  OBVIOUS
<1>7. /\ Shaped(q) /\ q.id = n /\ q.attempts >= tx[r].view[e].attempts
      /\ q.status \in {tx[r].view[e].status} \union Resolved
      /\ q.status = "DELIVERED" => sent \/ tx[r].view[e].status = "DELIVERED"
  BY <1>4, <1>5, <1>6, OfRunner, SettledRow
<1> DEFINE view == [tx[r].view EXCEPT ![e] = q]
           t == Attempted(tx[r], tx[r].due \ {e}, view)
<1>8. tx' = Put(tx, r, t)
  BY <1>1, <1>2, <1>3, <1>5 DEF Put, Attempted
<1>9. /\ view[e] = q /\ \A f \in Events \ {e} : view[f] = tx[r].view[f]
      /\ view = [f \in Events |-> view[f]]
  BY <1>3 DEF TxShaped
<1>10. t.own = tx[r].own /\ t.view = view /\ TxShaped(t, outbox)
  <2> HIDE DEF view
  <2>1. PICK u, due : u = t /\ due = tx[r].due \ {e}
    OBVIOUS
  <2>2. /\ FiveFields(u) /\ u.pc = tx[r].pc /\ u.batch = tx[r].batch /\ u.due = due
        /\ u.own = tx[r].own /\ u.view = view
    BY <1>3, <2>1, TxAttempt DEF TxShaped
  <2>3. TxShaped(u, outbox)
    BY <1>3, <1>4, <1>9, <2>1, <2>2 DEF TxShaped
  <2> QED
    BY <2>1, <2>2, <2>3
<1>11. t.own \subseteq Events
  BY <1>3, <1>10 DEF TxShaped
<1>12. UNCHANGED <<outbox, ledger, nextId>> /\ accepted \subseteq accepted'
  BY <1>1 DEF attempt
<1>13. \A a \in accepted' : a \in accepted \/ (a = <<a[1], a[2]>> /\ a[1] = e /\ a[2] = n)
  BY <1>1, <1>6
<1>14. sent => <<e, n>> \in accepted'
  BY <1>1, <1>2, <1>6
<1> HIDE DEF t, view
<1>15. \A f \in t.own : f \in Events /\ (f # e => t.view[f] = tx[r].view[f]) /\ (f = e => t.view[f] = q)
  BY <1>9, <1>10, <1>11
<1>16. Named(e, n)
  BY <1>4, <1>6, OfRunner
<1>17. \A f \in t.own : Shaped(t.view[f]) /\ Named(f, t.view[f].id)
  BY <1>7, <1>10, <1>15, <1>16, OfRunner
<1>18. \A f \in t.own : t.view[f].status # Absent
  <2>1. q.status # Absent
    BY <1>4, <1>7, OfRunner DEF Resolved, Absent
  <2> QED
    BY <1>10, <1>15, <2>1, OfRunner
<1>19. \A f \in t.own : ledger[f].status # Absent =>
         /\ ledger[f].status \notin Resolved
         /\ t.view[f].id = ledger[f].id /\ t.view[f].attempts >= ledger[f].attempts
  <2>1. ledger[e].status # Absent => q.attempts >= ledger[e].attempts
    <3>1. q.attempts \in Nat /\ tx[r].view[e].attempts \in Nat /\ ledger[e].attempts \in Nat
      BY <1>4, <1>7, OfRunner DEF Shaped
    <3> QED
      BY <1>4, <1>7, <3>1, OfRunner
  <2> QED
    BY <1>4, <1>6, <1>7, <1>10, <1>15, <2>1, OfRunner
<1>20. \A f \in t.own : t.view[f].status = "DELIVERED" => <<f, t.view[f].id>> \in accepted'
  BY <1>4, <1>6, <1>7, <1>10, <1>12, <1>14, <1>15, OfRunner
<1>21. \A a \in accepted' : a \in accepted \/ (a = <<a[1], a[2]>> /\ Named(a[1], a[2]))
  BY <1>13, <1>16
<1> QED
  BY <1>8, <1>10, <1>12, <1>17, <1>18, <1>19, <1>20, <1>21, OfRunner, RunnerStep

LEMMA NoTxShaped == TxShaped(NoTx, outbox) /\ NoTx.own = {}
<1>1. FiveFields(NoTx) /\ NoTx.own = {} /\ NoTx.due = {} /\ NoTx.batch = {} /\ NoTx.pc = "idle"
  BY DEF FiveFields, NoTx
<1>2. NoTx.view = [e \in Events |-> NoTx.view[e]]
  BY DEF NoTx
<1> QED
  BY <1>1, <1>2 DEF TxShaped

LEMMA CommitStep ==
  ASSUME DeliveryInv, NEW r \in Runners, Commit(r)
  PROVE  DeliveryInv'
<1>1. tx' = Put(tx, r, NoTx) /\ UNCHANGED <<outbox, nextId, accepted>>
  BY DEF Commit, Put
<1>2. ledger' = [e \in Events |-> ledger'[e]] /\ \A e \in Events : ledger'[e] = Visible(r, e)
  BY DEF Commit
<1>3. \A e \in Events : \/ e \in tx[r].own /\ ledger'[e] = tx[r].view[e]
                        \/ e \notin tx[r].own /\ ledger'[e] = ledger[e]
  BY <1>2 DEF Visible
<1>4. \A s \in Runners \ {r} : \A e \in tx[s].own : ledger'[e] = ledger[e]
  <2>1. \A s \in Runners : tx[s].own \subseteq Events
    BY OfRunner DEF TxShaped
  <2> QED
    BY <1>3, <2>1, OfRunner
<1>5. \A e \in Events : Shaped(ledger'[e]) /\ (ledger'[e].status # Absent => Named(e, ledger'[e].id))
  BY <1>3, OfRunner
<1>6. \A e \in Events : ledger'[e].status = "DELIVERED" => <<e, ledger'[e].id>> \in accepted
  BY <1>3, OfRunner
<1> QED
  BY <1>1, <1>2, <1>4, <1>5, <1>6, OfRunner, NoTxShaped, RunnerStep

LEMMA AbortStep ==
  ASSUME DeliveryInv, NEW r \in Runners, Abort(r)
  PROVE  DeliveryInv'
<1>1. tx' = Put(tx, r, NoTx) /\ UNCHANGED <<outbox, ledger, nextId, accepted>>
  BY DEF Abort, Put
<1> QED
  BY <1>1, OfRunner, NoTxShaped, RunnerStep

-----------------------------------------------------------------------------
(* The other steps.                                                        *)

LEMMA EmitStep ==
  ASSUME DeliveryInv, NEW e \in Events, Emit(e)
  PROVE  DeliveryInv'
<1>1. outbox' = Append(outbox, e) /\ UNCHANGED <<ledger, tx, nextId, accepted>>
  BY DEF Emit
<1>2. outbox \in Seq(Events)
  BY DEF DeliveryInv, Shapes
<1>3. outbox' \in Seq(Events) /\ DOMAIN outbox \subseteq DOMAIN outbox'
  BY <1>1, <1>2
<1>4. Shapes'
  <2>1. \A r \in Runners : TxShaped(tx[r], outbox')
    BY <1>3 DEF DeliveryInv, Shapes, TxShaped
  <2> QED
    BY <1>1, <1>3, <2>1 DEF DeliveryInv, Shapes
<1> QED
  BY <1>1, <1>4 DEF DeliveryInv, Disjoint, Ahead, Identified, Named, AcceptedFirst

SoonerView(t) == [e \in Events |-> Sooner(t.view[e])]
Ticked(t) == [t EXCEPT !.view = SoonerView(t)]

LEMMA TxTicked ==
  ASSUME NEW t, FiveFields(t)
  PROVE  /\ FiveFields(Ticked(t)) /\ Ticked(t).view = SoonerView(t)
         /\ Ticked(t).pc = t.pc /\ Ticked(t).own = t.own /\ Ticked(t).due = t.due /\ Ticked(t).batch = t.batch
<1>1. PICK v : v = SoonerView(t)
  OBVIOUS
<1>2. PICK u : u = Ticked(t) /\ u = [t EXCEPT !.view = v]
  BY <1>1 DEF Ticked
<1>3. FiveFields(u) /\ u.view = v /\ u.pc = t.pc /\ u.own = t.own /\ u.due = t.due /\ u.batch = t.batch
  BY <1>2 DEF FiveFields
<1> QED
  BY <1>1, <1>2, <1>3

LEMMA TickStep ==
  ASSUME DeliveryInv, Tick
  PROVE  DeliveryInv'
<1>1. UNCHANGED <<outbox, nextId, accepted>>
  BY DEF Tick
<1>2. ledger' = [e \in Events |-> ledger'[e]] /\ \A e \in Events : ledger'[e] = Sooner(ledger[e])
  BY DEF Tick
<1>3. tx' = [r \in Runners |-> Ticked(tx[r])]
  BY DEF Tick, Ticked, SoonerView
<1>4. tx' = [r \in Runners |-> tx'[r]] /\ \A r \in Runners : tx'[r] = Ticked(tx[r])
  BY <1>3
<1>5. ASSUME NEW e \in Events
      PROVE  /\ Shaped(ledger'[e]) /\ ledger'[e].id = ledger[e].id
             /\ ledger'[e].status = ledger[e].status /\ ledger'[e].attempts = ledger[e].attempts
  <2>1. Shaped(ledger[e])
    BY DEF DeliveryInv, Shapes
  <2> QED
    BY <1>2, <2>1, SoonerRow
<1>6. ASSUME NEW r \in Runners
      PROVE  /\ TxShaped(tx'[r], outbox) /\ tx'[r].own = tx[r].own /\ tx[r].own \subseteq Events
             /\ \A e \in tx[r].own :
                  /\ Shaped(tx'[r].view[e]) /\ tx'[r].view[e].id = tx[r].view[e].id
                  /\ tx'[r].view[e].status = tx[r].view[e].status
                  /\ tx'[r].view[e].attempts = tx[r].view[e].attempts
  <2>1. TxShaped(tx[r], outbox) /\ \A e \in tx[r].own : Shaped(tx[r].view[e])
    BY OfRunner
  <2>2. /\ FiveFields(tx'[r]) /\ tx'[r].view = SoonerView(tx[r]) /\ tx'[r].pc = tx[r].pc
        /\ tx'[r].own = tx[r].own /\ tx'[r].due = tx[r].due /\ tx'[r].batch = tx[r].batch
    BY <1>4, <2>1, TxTicked DEF TxShaped
  <2>3. tx[r].own \subseteq Events
    BY <2>1 DEF TxShaped
  <2>4. /\ tx'[r].view = [e \in Events |-> tx'[r].view[e]]
        /\ \A e \in Events : tx'[r].view[e] = Sooner(tx[r].view[e])
    BY <2>2 DEF SoonerView
  <2>5. TxShaped(tx'[r], outbox)
    BY <2>1, <2>2, <2>4 DEF TxShaped
  <2>6. \A e \in tx[r].own :
          /\ Shaped(tx'[r].view[e]) /\ tx'[r].view[e].id = tx[r].view[e].id
          /\ tx'[r].view[e].status = tx[r].view[e].status
          /\ tx'[r].view[e].attempts = tx[r].view[e].attempts
    BY <2>1, <2>3, <2>4, SoonerRow
  <2> QED
    BY <2>2, <2>3, <2>5, <2>6
<1>7. Shapes'
  BY <1>1, <1>2, <1>4, <1>5, <1>6 DEF DeliveryInv, Shapes
<1>8. Disjoint'
  BY <1>6 DEF DeliveryInv, Disjoint
<1>9. Ahead'
  BY <1>5, <1>6 DEF DeliveryInv, Ahead
<1>10. \A e, n : Named(e, n)' => Named(e, n)
  BY <1>1, <1>5, <1>6 DEF Named
<1>11. Identified'
  BY <1>1, <1>10 DEF DeliveryInv, Identified
<1>12. AcceptedFirst'
  BY <1>1, <1>5, <1>6 DEF DeliveryInv, AcceptedFirst
<1> QED
  BY <1>7, <1>8, <1>9, <1>11, <1>12 DEF DeliveryInv

LEMMA DeliveryInvInit == DeliveryInit => DeliveryInv
<1>1. SUFFICES ASSUME DeliveryInit PROVE DeliveryInv
  OBVIOUS
<1>2. /\ outbox = <<>> /\ nextId = 1 /\ accepted = {}
      /\ ledger = [e \in Events |-> ledger[e]] /\ \A e \in Events : ledger[e] = NoRow
      /\ tx = [r \in Runners |-> tx[r]] /\ \A r \in Runners : tx[r] = NoTx
  BY <1>1 DEF DeliveryInit
<1>3. Shapes
  BY <1>2, NoRowShaped, NoTxShaped DEF Shapes
<1>4. \A e, n : ~Named(e, n)
  BY <1>2, NoRowShaped, NoTxShaped DEF Named
<1>5. "DELIVERED" # Absent
  BY DEF Absent
<1> QED
  BY <1>2, <1>3, <1>4, <1>5, NoRowShaped, NoTxShaped DEF DeliveryInv, Disjoint, Ahead, Identified, AcceptedFirst

LEMMA DeliveryInvNext == DeliveryInv /\ [DeliveryNext]_deliveryVars => DeliveryInv'
<1>1. SUFFICES ASSUME DeliveryInv, [DeliveryNext]_deliveryVars PROVE DeliveryInv'
  OBVIOUS
<1>2. ASSUME NEW r \in Runners, Cycle(r) PROVE DeliveryInv'
  BY <1>1, <1>2, ScanStep, InsertStep, ClaimStep, AttemptStep, CommitStep DEF Cycle
<1>3. ASSUME UNCHANGED deliveryVars PROVE DeliveryInv'
  <2>1. UNCHANGED <<outbox, ledger, tx, nextId, accepted>>
    BY <1>3 DEF deliveryVars
  <2>2. Shapes'
    BY <1>1, <2>1 DEF DeliveryInv, Shapes
  <2>3. Disjoint' /\ Ahead' /\ AcceptedFirst'
    BY <1>1, <2>1 DEF DeliveryInv, Disjoint, Ahead, AcceptedFirst
  <2>4. Identified'
    BY <1>1, <2>1 DEF DeliveryInv, Identified, Named
  <2> QED
    BY <2>2, <2>3, <2>4 DEF DeliveryInv
<1> QED
  BY <1>1, <1>2, <1>3, AbortStep, EmitStep, TickStep DEF DeliveryNext

-----------------------------------------------------------------------------
(* The run properties.                                                     *)

\* A delivery is only called delivered when the NSW has accepted it under the
\* identity on its row, and no two events ever share an identity, whatever
\* runners abort between their sends and their commit (attempt,
\* insertDelivery).
THEOREM DeliveredWasAccepted == DeliverySpec => []DeliveredIsAccepted
<1>1. DeliveryInv => DeliveredIsAccepted
  <2>1. SUFFICES ASSUME DeliveryInv PROVE DeliveredIsAccepted
    OBVIOUS
  <2>2. \A e \in Events : ledger[e].status = "DELIVERED" => <<e, ledger[e].id>> \in accepted
    BY <2>1 DEF DeliveryInv, AcceptedFirst
  <2>3. ASSUME NEW a \in accepted, NEW b \in accepted, a[2] = b[2] PROVE a[1] = b[1]
    <3>1. Named(a[1], a[2]) /\ Named(b[1], b[2])
      BY <2>1 DEF DeliveryInv, Identified, Named
    <3> QED
      BY <2>1, <2>3, <3>1 DEF DeliveryInv, Identified
  <2> QED
    BY <2>2, <2>3 DEF DeliveredIsAccepted
<1> QED
  BY <1>1, DeliveryInvInit, DeliveryInvNext, PTL DEF DeliverySpec

\* However many runners drain the same tenant, a committed delivery keeps its
\* identity and never loses an attempt, and a resolved one is never touched
\* again (claimDue, attempt, Commit).
THEOREM CommittedRowsStand == DeliverySpec => LedgerNeverRewrites
<1> DEFINE Stands(e) ==
      ledger[e].status # Absent =>
        /\ ledger'[e].id = ledger[e].id
        /\ ledger'[e].attempts >= ledger[e].attempts
        /\ ledger[e].status \in Resolved =>
             /\ ledger'[e].status = ledger[e].status
             /\ ledger'[e].attempts = ledger[e].attempts
<1>1. DeliveryInv /\ [DeliveryNext]_deliveryVars => [\A e \in Events : Stands(e)]_deliveryVars
  <2>1. SUFFICES ASSUME DeliveryInv, DeliveryNext, NEW e \in Events PROVE Stands(e)
    OBVIOUS
  <2>2. Shaped(ledger[e])
    BY <2>1 DEF DeliveryInv, Shapes
  <2>3. ledger[e].attempts >= ledger[e].attempts
    BY <2>2 DEF Shaped
  <2>4. ASSUME ledger'[e] = ledger[e] PROVE Stands(e)
    BY <2>3, <2>4
  <2>5. ASSUME Tick PROVE Stands(e)
    <3>1. ledger'[e] = Sooner(ledger[e])
      BY <2>5 DEF Tick
    <3> QED
      BY <2>2, <2>3, <3>1, SoonerRow
  <2>6. ASSUME NEW r \in Runners, Commit(r) PROVE Stands(e)
    <3>1. ledger'[e] = Visible(r, e)
      BY <2>6 DEF Commit
    <3>2. CASE e \in tx[r].own
      <4>1. ledger'[e] = tx[r].view[e]
        BY <3>1, <3>2 DEF Visible
      <4> QED
        BY <2>1, <3>2, <4>1, OfRunner
    <3>3. CASE e \notin tx[r].own
      BY <2>4, <3>1, <3>3 DEF Visible
    <3> QED
      BY <3>2, <3>3
  <2>7. ASSUME NEW r \in Runners,
               \/ ScanOutbox(r) \/ insertDelivery(r) \/ claimDue(r) \/ Abort(r)
               \/ \E f \in Events : attempt(r, f)
        PROVE  ledger' = ledger
    <3>1. ASSUME NEW f \in Events, attempt(r, f) PROVE ledger' = ledger
      BY <3>1 DEF attempt
    <3>2. CASE ScanOutbox(r)
      BY <3>2 DEF ScanOutbox
    <3>3. CASE insertDelivery(r)
      BY <3>3 DEF insertDelivery
    <3>4. CASE claimDue(r)
      BY <3>4 DEF claimDue
    <3>5. CASE Abort(r)
      BY <3>5 DEF Abort
    <3> QED
      BY <2>7, <3>1, <3>2, <3>3, <3>4, <3>5
  <2>8. ASSUME NEW f \in Events, Emit(f) PROVE ledger' = ledger
    BY <2>8 DEF Emit
  <2> HIDE DEF Stands
  <2> QED
    BY <2>1, <2>4, <2>5, <2>6, <2>7, <2>8 DEF DeliveryNext, Cycle
<1> QED
  BY <1>1, DeliveryInvInit, DeliveryInvNext, PTL DEF DeliverySpec, LedgerNeverRewrites
=============================================================================
