---------------------------- MODULE CallUpQueue -----------------------------
(***************************************************************************)
(* The truck call-up queue (internal/queue/model.go, store.go) of one      *)
(* tenant.  Every operation runs in one PostgreSQL transaction; those that *)
(* assign a position or promote take the terminal row FOR UPDATE, so an    *)
(* operation, its promotion included, is one action.                       *)
(*                                                                         *)
(* A queue request is named by its idempotency key: a replay returns the   *)
(* row, different content is refused.  The expected version only ever      *)
(* refuses a call, and a refused call is no step.  The booking that Create *)
(* drafts in the same transaction is BookingStore's; columns no guard      *)
(* reads (called_up_at, reasons) are left out.                             *)
(***************************************************************************)
EXTENDS Naturals, FiniteSets, FiniteSetsExt

CONSTANTS
  Requests,      \* queue requests, named by their idempotency key
  Terminals,
  Terminal,      \* terminal of a request
  Class,         \* priority class of a request
  Capacities,    \* call-up capacities an operator may configure
  GraceWindow,   \* CALLUP_GRACE_MINUTES
  StaleAfter,    \* age at which the sweeper expires a queued request
  NoDeadline,    \* a NULL grace_deadline
  MaxRequeued,   \* bound on the requests that are requeued, once each
  MaxTime        \* bound on the clock

Classes == {"PERISHABLE", "PRIORITY", "STANDARD"}

ASSUME QueueConstants ==
  /\ IsFiniteSet(Requests)
  /\ Terminal \in [Requests -> Terminals]
  /\ Class \in [Requests -> Classes]
  /\ Capacities \subseteq Nat \ {0} /\ Capacities # {}
  /\ GraceWindow \in Nat \ {0}
  /\ StaleAfter \in Nat \ {0}
  /\ NoDeadline \notin Nat
  /\ MaxRequeued \in Nat /\ MaxTime \in Nat

VARIABLES
  now,        \* wall clock
  capacity,   \* queue_capacity of the terminals
  rows,       \* truck_queue_requests rows
  requeued    \* history: requests that went back to the tail

queueVars == <<now, capacity, rows, requeued>>

Absent == "ABSENT"
QueueStatus == {"QUEUED", "CALLED_UP", "EN_ROUTE", "ARRIVED", "CANCELLED",
                "EXPIRED", "FORFEITED", "RECONCILIATION_REQUIRED"}

\* REQUESTED is left within the transaction that creates it.
queueTransitions ==
  {<<"QUEUED", "CALLED_UP">>, <<"QUEUED", "EXPIRED">>,
   <<"QUEUED", "CANCELLED">>, <<"QUEUED", "RECONCILIATION_REQUIRED">>,
   <<"CALLED_UP", "EN_ROUTE">>, <<"CALLED_UP", "ARRIVED">>,
   <<"CALLED_UP", "FORFEITED">>, <<"CALLED_UP", "CANCELLED">>,
   <<"CALLED_UP", "RECONCILIATION_REQUIRED">>,
   <<"EN_ROUTE", "ARRIVED">>, <<"EN_ROUTE", "FORFEITED">>,
   <<"EN_ROUTE", "CANCELLED">>, <<"EN_ROUTE", "RECONCILIATION_REQUIRED">>,
   <<"RECONCILIATION_REQUIRED", "QUEUED">>,
   <<"RECONCILIATION_REQUIRED", "CANCELLED">>}

Row == [status : QueueStatus \cup {Absent}, position : Nat,
        grace : Nat \cup {NoDeadline}, created : Nat]

QueueTypeOK ==
  /\ now \in 0..MaxTime
  /\ capacity \in [Terminals -> Capacities]
  /\ rows \in [Requests -> Row]
  /\ requeued \subseteq Requests

QueueInit ==
  /\ now = 0
  /\ capacity \in [Terminals -> Capacities]
  /\ rows = [q \in Requests |-> [status |-> Absent, position |-> 0,
                                 grace |-> NoDeadline, created |-> 0]]
  /\ requeued = {}

-----------------------------------------------------------------------------
\* Head of queue, call-up capacity and the promotion chain.

\* Mutant: a truck on the road no longer counts.
CallUpsParked == {"CALLED_UP"}

\* Statuses that hold call-up capacity.
CallUps == {"CALLED_UP", "EN_ROUTE"}

Waiting(rs, t) == {q \in Requests : Terminal[q] = t /\ rs[q].status = "QUEUED"}

Active(rs, t) == {q \in Requests : Terminal[q] = t /\ rs[q].status \in CallUps}

rank(class) == CASE class = "PERISHABLE" -> 0
                 [] class = "PRIORITY"   -> 1
                 [] OTHER                -> 2

\* Mutant: positions alone decide.
BeforePlain(rs, q, r) == rs[q].position < rs[r].position

\* ORDER BY priority class, position
Before(rs, q, r) ==
  \/ rank(Class[q]) < rank(Class[r])
  \/ rank(Class[q]) = rank(Class[r]) /\ rs[q].position < rs[r].position

\* The k requests at the head of terminal t's queue are called up.
CalledUp(rs, t, k) ==
  [q \in Requests |->
     IF /\ q \in Waiting(rs, t)
        /\ Cardinality({r \in Waiting(rs, t) : Before(rs, r, q)}) < k
       THEN [rs[q] EXCEPT !.status = "CALLED_UP", !.grace = now + GraceWindow]
       ELSE rs[q]]

\* The head of queue is called up if the terminal has a place left.
promoteNextTx(rs, t) ==
  CalledUp(rs, t, IF Cardinality(Active(rs, t)) >= capacity[t] THEN 0 ELSE 1)

Move(q, next) == [rows EXCEPT ![q].status = next]

\* transitionTx followed by the promotion of the next in queue.
ReleaseTx(q, next) ==
  /\ <<rows[q].status, next>> \in queueTransitions
  /\ rows' = promoteNextTx(Move(q, next), Terminal[q])

\* A transition that frees no call-up capacity.
transitionOnlyTx(q, next) ==
  /\ <<rows[q].status, next>> \in queueTransitions
  /\ rows' = Move(q, next)

\* Requests that the step has called up.
Promoted == {q \in Requests : /\ rows[q].status # "CALLED_UP"
                              /\ rows'[q].status = "CALLED_UP"}

-----------------------------------------------------------------------------
\* Operations.

\* Mutant: the position counts the requests still waiting.
NextPositionCounting(t) == Cardinality(Waiting(rows, t)) + 1

\* MAX(position) + 1 over every row of the terminal, closed ones included.
NextPosition(t) ==
  Max({0} \cup {rows[q].position : q \in {r \in Requests : Terminal[r] = t}})
    + 1

\* The unique index on (terminal_id, position) is not a guard here: that it has
\* nothing to refuse is PositionsUnique.
Create(q) ==
  /\ rows[q].status = Absent
  /\ rows' = [rows EXCEPT ![q] = [status |-> "QUEUED",
                                  position |-> NextPosition(Terminal[q]),
                                  grace |-> NoDeadline, created |-> now]]
  /\ UNCHANGED <<now, capacity, requeued>>

ConfigureTerminal(t, c) ==
  /\ capacity' = [capacity EXCEPT ![t] = c]
  /\ UNCHANGED <<now, rows, requeued>>

\* Also CapacityReleased: a booking of the terminal released its slot.
PromoteNext(t) ==
  /\ rows' = promoteNextTx(rows, t)
  /\ UNCHANGED <<now, capacity, requeued>>

\* A late arrival forfeits, and the forfeiture commits.
Arrive(q) ==
  /\ rows[q].status \in CallUps
  /\ ReleaseTx(q, IF now > rows[q].grace THEN "FORFEITED" ELSE "ARRIVED")
  /\ UNCHANGED <<now, capacity, requeued>>

\* enforce_terminal_callup_capacity counts the others again on this update.
Depart(q) ==
  /\ Cardinality(Active(rows, Terminal[q]) \ {q}) < capacity[Terminal[q]]
  /\ transitionOnlyTx(q, "EN_ROUTE")
  /\ UNCHANGED <<now, capacity, requeued>>

Forfeit(q) ==
  /\ ReleaseTx(q, "FORFEITED")
  /\ UNCHANGED <<now, capacity, requeued>>

Cancel(q) ==
  /\ \/ rows[q].status \in CallUps /\ ReleaseTx(q, "CANCELLED")
     \/ rows[q].status \notin CallUps /\ transitionOnlyTx(q, "CANCELLED")
  /\ UNCHANGED <<now, capacity, requeued>>

FlagReconciliation(q) ==
  /\ \/ /\ rows[q].status \in CallUps
        /\ ReleaseTx(q, "RECONCILIATION_REQUIRED")
     \/ /\ rows[q].status \notin CallUps
        /\ transitionOnlyTx(q, "RECONCILIATION_REQUIRED")
  /\ UNCHANGED <<now, capacity, requeued>>

\* Back to the tail of the class; the old grace deadline is cleared.
Requeue(q) ==
  /\ q \notin requeued /\ Cardinality(requeued) < MaxRequeued
  /\ rows[q].status = "RECONCILIATION_REQUIRED"
  /\ rows' = [rows EXCEPT ![q].status = "QUEUED",
                          ![q].position = NextPosition(Terminal[q]),
                          ![q].grace = NoDeadline]
  /\ requeued' = requeued \cup {q}
  /\ UNCHANGED <<now, capacity>>

-----------------------------------------------------------------------------
\* The sweeper's transactions.  Each handles the rows S of its selection that
\* no other transaction has locked (FOR UPDATE SKIP LOCKED).

Stale == {q \in Requests : /\ rows[q].status = "QUEUED"
                           /\ rows[q].created + StaleAfter < now}

ExpireStale(S) ==
  /\ S \subseteq Stale
  /\ rows' = [q \in Requests |->
                IF q \in S THEN [rows[q] EXCEPT !.status = "EXPIRED"]
                           ELSE rows[q]]
  /\ UNCHANGED <<now, capacity, requeued>>

\* Mutant: a truck on the road is never swept.
ElapsedParked == {q \in Requests : /\ rows[q].status = "CALLED_UP"
                                   /\ rows[q].grace < now}

Elapsed == {q \in Requests : /\ rows[q].status \in CallUps
                             /\ rows[q].grace < now}

Forfeited(S) ==
  [q \in Requests |-> IF q \in S THEN [rows[q] EXCEPT !.status = "FORFEITED"]
                                 ELSE rows[q]]

\* Every place left at every terminal is filled from the head of its queue.
Filled(rs) ==
  [q \in Requests |->
     LET t == Terminal[q]
         free == IF Cardinality(Active(rs, t)) >= capacity[t] THEN 0
                 ELSE capacity[t] - Cardinality(Active(rs, t))
     IN  CalledUp(rs, t, free)[q]]

\* Mutant: forfeits without filling the free places.
ReconcileCallUpsUnfilled(S) ==
  /\ S \subseteq Elapsed
  /\ rows' = Forfeited(S)
  /\ UNCHANGED <<now, capacity, requeued>>

\* Forfeits in any order, each followed by a promotion, then promotions until
\* none is left to make: in the end every place is filled in queue order.
ReconcileCallUps(S) ==
  /\ S \subseteq Elapsed
  /\ rows' = Filled(Forfeited(S))
  /\ UNCHANGED <<now, capacity, requeued>>

\* The sweep of the call-ups alone: one promotion after each forfeit that takes
\* the terminal below its capacity.
ForfeitExpired(S) ==
  /\ S \subseteq Elapsed
  /\ rows' = [q \in Requests |->
                LET t == Terminal[q]
                    due == Cardinality(S \cap Active(rows, t))
                    left == Cardinality(Active(rows, t)) - due
                    k == IF left + due <= capacity[t] THEN due
                         ELSE IF left < capacity[t] THEN capacity[t] - left
                         ELSE 0
                IN  CalledUp(Forfeited(S), t, k)[q]]
  /\ UNCHANGED <<now, capacity, requeued>>

Tick == /\ now < MaxTime
        /\ now' = now + 1
        /\ UNCHANGED <<capacity, rows, requeued>>

-----------------------------------------------------------------------------
QueueNext ==
  \/ Tick
  \/ \E t \in Terminals : \/ PromoteNext(t)
                          \/ \E c \in Capacities : ConfigureTerminal(t, c)
  \/ \E q \in Requests :
       \/ Create(q) \/ Arrive(q) \/ Depart(q) \/ Forfeit(q) \/ Cancel(q)
       \/ FlagReconciliation(q) \/ Requeue(q)
  \/ \E S \in SUBSET Requests : \/ ExpireStale(S) \/ ForfeitExpired(S)
                               \/ ReconcileCallUps(S)

QueueSpec == QueueInit /\ [][QueueNext]_queueVars

-----------------------------------------------------------------------------
\* Properties.

\* Two requests of a terminal never hold the same position, so that the queue
\* order is total: requeued and closed requests keep theirs (Create, Requeue).
PositionsUnique ==
  \A q, r \in Requests :
    /\ q # r /\ Terminal[q] = Terminal[r]
    /\ rows[q].status # Absent /\ rows[r].status # Absent
    => rows[q].position # rows[r].position

\* No step that calls a truck up leaves the terminal with more trucks called
\* up or on the road than its capacity, even after the capacity was lowered
\* (promoteNextTx, ReconcileCallUps).
PromotionWithinCapacity ==
  [][\A t \in Terminals :
       (\E q \in Promoted : Terminal[q] = t) =>
         Cardinality({q \in Requests : /\ Terminal[q] = t
                                       /\ rows'[q].status \in
                                            {"CALLED_UP", "EN_ROUTE"}})
           <= capacity[t]]_queueVars

\* A truck is called up only if none that stays in the queue has a higher class
\* or a smaller position in the same class (promoteNextTx, ReconcileCallUps).
PriorityFIFO ==
  [][\A q \in Promoted, r \in Requests :
       Terminal[r] = Terminal[q] /\ rows'[r].status = "QUEUED" =>
         \/ rank(Class[q]) < rank(Class[r])
         \/ /\ rank(Class[q]) = rank(Class[r])
            /\ rows[q].position < rows[r].position]_queueVars

\* What the sweeper says of its order: a stale head of queue must expire, and
\* is never called up.
StaleNeverCalledUp ==
  [][\A q \in Promoted : rows[q].created + StaleAfter >= now]_queueVars
=============================================================================
