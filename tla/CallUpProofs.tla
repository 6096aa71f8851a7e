----------------------------- MODULE CallUpProofs -----------------------------
(***************************************************************************)
(* Theorems about the call-up queue and the runs and sweeps that drive it, *)
(* for any finite set of requests, any terminals, classes, capacities and  *)
(* deadlines.                                                              *)
(*                                                                         *)
(* The steps of the queue are sorted by what they do to the rows: nothing, *)
(* a request joins at the tail, or rows leave their status and the heads   *)
(* of some queues take the places that are free (CallUpStep).              *)
(***************************************************************************)
EXTENDS CallUpWorkflow, FiniteSetTheorems, TLAPS

-----------------------------------------------------------------------------
(* The order of a queue.                                                   *)

\* The waiting requests of q's terminal that come before q.
Ahead(rs, q) == {r \in Waiting(rs, Terminal[q]) : Before(rs, r, q)}

\* The k requests at the head of terminal t's queue.
Heads(rs, t, k) == {q \in Waiting(rs, t) : Cardinality(Ahead(rs, q)) < k}

\* No two requests of a terminal share a position; rows as an argument.
UniqueIn(rs) ==
  \A q, r \in Requests :
    /\ q # r /\ Terminal[q] = Terminal[r]
    /\ rs[q].status # Absent /\ rs[r].status # Absent
    => rs[q].position # rs[r].position

LEMMA RankTyped == \A c : rank(c) \in Nat
BY DEF rank

LEMMA PositionTyped ==
  ASSUME NEW rs \in [Requests -> Row], NEW q \in Requests
  PROVE  rs[q] \in Row /\ rs[q].position \in Nat
BY DEF Row

LEMMA FiniteQueues ==
  ASSUME NEW rs, NEW t, NEW q
  PROVE  /\ IsFiniteSet(Waiting(rs, t)) /\ IsFiniteSet(Active(rs, t)) /\ IsFiniteSet(Ahead(rs, q))
         /\ Cardinality(Waiting(rs, t)) \in Nat /\ Cardinality(Active(rs, t)) \in Nat
         /\ Cardinality(Ahead(rs, q)) \in Nat
<1>1. /\ Waiting(rs, t) \in SUBSET Requests /\ Active(rs, t) \in SUBSET Requests
      /\ Ahead(rs, q) \in SUBSET Requests
  BY DEF Waiting, Active, Ahead
<1>2. IsFiniteSet(Requests)
  BY QueueConstants
<1>3. IsFiniteSet(Waiting(rs, t)) /\ IsFiniteSet(Active(rs, t)) /\ IsFiniteSet(Ahead(rs, q))
  BY <1>1, <1>2, FS_Subset
<1> QED BY <1>3, FS_CardinalityType

\* With unique positions the order of a queue is total.
LEMMA OrderTotal ==
  ASSUME NEW rs \in [Requests -> Row], UniqueIn(rs), NEW t,
         NEW q \in Waiting(rs, t), NEW r \in Waiting(rs, t), q # r
  PROVE  Before(rs, q, r) \/ Before(rs, r, q)
<1>1. q \in Requests /\ r \in Requests /\ Terminal[q] = Terminal[r]
      /\ rs[q].status = "QUEUED" /\ rs[r].status = "QUEUED"
  BY DEF Waiting
<1>2. rs[q].position # rs[r].position
  BY <1>1 DEF UniqueIn, Absent
<1>3. rs[q].position \in Nat /\ rs[r].position \in Nat
  BY <1>1, PositionTyped
<1>4. rank(Class[q]) \in Nat /\ rank(Class[r]) \in Nat
  BY RankTyped
<1> QED BY <1>2, <1>3, <1>4 DEF Before

\* Who comes later has more requests ahead of it.
LEMMA AheadGrows ==
  ASSUME NEW rs \in [Requests -> Row], NEW t,
         NEW q \in Waiting(rs, t), NEW r \in Waiting(rs, t), Before(rs, q, r)
  PROVE  Cardinality(Ahead(rs, q)) < Cardinality(Ahead(rs, r))
<1>1. q \in Requests /\ r \in Requests /\ Terminal[q] = t /\ Terminal[r] = t
  BY DEF Waiting
<1>2. /\ rs[q].position \in Nat /\ rs[r].position \in Nat
      /\ \A s \in Waiting(rs, t) : rs[s].position \in Nat
  BY <1>1, PositionTyped DEF Waiting
<1>3. \A s : rank(Class[s]) \in Nat
  BY RankTyped
<1>4. \A s \in Waiting(rs, t) : Before(rs, s, q) => Before(rs, s, r)
  BY <1>2, <1>3 DEF Before
<1>5. Ahead(rs, q) \subseteq Ahead(rs, r)
  BY <1>1, <1>4 DEF Ahead
<1>6. q \in Ahead(rs, r) /\ q \notin Ahead(rs, q)
  BY <1>1, <1>2, <1>3 DEF Ahead, Before
<1>7. IsFiniteSet(Ahead(rs, r))
  BY FiniteQueues
<1>8. /\ Cardinality(Ahead(rs, q)) <= Cardinality(Ahead(rs, r))
      /\ Cardinality(Ahead(rs, r)) = Cardinality(Ahead(rs, q)) => Ahead(rs, r) = Ahead(rs, q)
  BY <1>5, <1>7, FS_Subset
<1>9. Cardinality(Ahead(rs, q)) \in Nat /\ Cardinality(Ahead(rs, r)) \in Nat
  BY FiniteQueues
<1> QED BY <1>6, <1>8, <1>9

\* There are at most k requests among the first k.
LEMMA HeadsFew ==
  ASSUME NEW rs \in [Requests -> Row], UniqueIn(rs), NEW t, NEW k \in Nat
  PROVE  IsFiniteSet(Heads(rs, t, k)) /\ Cardinality(Heads(rs, t, k)) <= k
<1> DEFINE H == Heads(rs, t, k)
           f == [q \in H |-> Cardinality(Ahead(rs, q))]
<1>1. f \in [H -> 0..(k - 1)]
  BY FiniteQueues DEF Heads
<1>2. \A q, r \in H : f[q] = f[r] => q = r
  <2> SUFFICES ASSUME NEW q \in H, NEW r \in H, q # r PROVE f[q] # f[r]
    OBVIOUS
  <2>1. q \in Waiting(rs, t) /\ r \in Waiting(rs, t)
    BY DEF Heads
  <2>2. /\ Cardinality(Ahead(rs, q)) \in Nat /\ Cardinality(Ahead(rs, r)) \in Nat
    BY FiniteQueues
  <2>3. Cardinality(Ahead(rs, q)) # Cardinality(Ahead(rs, r))
    BY <2>1, <2>2, OrderTotal, AheadGrows
  <2> QED BY <2>3
<1>3. f \in Injection(H, 0..(k - 1))
  BY <1>1, <1>2 DEF Injection, IsInjective
<1>4. IsFiniteSet(0..(k - 1)) /\ Cardinality(0..(k - 1)) = k
  BY FS_Interval
<1> HIDE DEF H, f
<1>5. IsFiniteSet(H) /\ Cardinality(H) <= k
  BY <1>3, <1>4, FS_Injection
<1> QED BY <1>5 DEF H

-----------------------------------------------------------------------------
(* The next position of a terminal is larger than every position in use.   *)

\* A finite family of naturals, with 0, has a largest member.  No induction
\* rule is needed: a smallest subfamily without one would lose nothing by
\* giving up a member.
LEMMA Largest ==
  ASSUME NEW S, IsFiniteSet(S), NEW f \in [S -> Nat]
  PROVE  \E m \in {0} \cup {f[s] : s \in S} : \A s \in S : m >= f[s]
<1> DEFINE Good(U) == \E m \in {0} \cup {f[s] : s \in U} : \A s \in U : m >= f[s]
           Bad == {U \in SUBSET S : ~ Good(U)}
<1>1. SUFFICES ASSUME Bad # {} PROVE FALSE
  OBVIOUS
<1>2. IsWellFoundedOn(StrictSubsetOrdering(S), SUBSET S)
  BY FS_StrictSubsetOrderingWellFounded, FS_FiniteSubsetsOfFinite
<1>3. PICK U \in Bad : \A V \in Bad : ~ (<<V, U>> \in StrictSubsetOrdering(S))
  <2> Bad \subseteq SUBSET S
    OBVIOUS
  <2> HIDE DEF Bad
  <2> QED BY <1>1, <1>2, WFMin
<1>4. U # {}
  BY 0 \in {0} \cup {f[s] : s \in {}}
<1>5. PICK u \in U : TRUE
  BY <1>4
<1>6. u \in S /\ f[u] \in Nat
  BY <1>5
<1>7. <<U \ {u}, U>> \in StrictSubsetOrdering(S)
  BY <1>5 DEF StrictSubsetOrdering
<1>8. Good(U \ {u})
  BY <1>3, <1>7
<1>9. PICK m \in {0} \cup {f[s] : s \in U \ {u}} : \A s \in U \ {u} : m >= f[s]
  BY <1>8
<1>10. m \in Nat
  OBVIOUS
<1>11. CASE m >= f[u]
  <2>1. m \in {0} \cup {f[s] : s \in U} /\ \A s \in U : m >= f[s]
    BY <1>9, <1>11
  <2> QED BY <2>1
<1>12. CASE ~ (m >= f[u])
  <2>1. f[u] \in {0} \cup {f[s] : s \in U}
    BY <1>5
  <2>2. \A s \in U : f[s] \in Nat
    OBVIOUS
  <2>3. \A s \in U : f[u] >= f[s]
    BY <1>6, <1>9, <1>10, <1>12, <2>2
  <2> QED BY <2>1, <2>3
<1> QED BY <1>11, <1>12

LEMMA NextPositionFree ==
  ASSUME rows \in [Requests -> Row], NEW t
  PROVE  /\ NextPosition(t) \in Nat
         /\ \A q \in Requests : Terminal[q] = t => rows[q].position < NextPosition(t)
<1> DEFINE S == {r \in Requests : Terminal[r] = t}
           f == [r \in S |-> rows[r].position]
           P == {0} \cup {rows[q].position : q \in S}
<1>1. IsFiniteSet(S)
  BY QueueConstants, FS_Subset
<1>2. f \in [S -> Nat]
  BY PositionTyped
<1>3. \E m \in {0} \cup {f[s] : s \in S} : \A s \in S : m >= f[s]
  <2> HIDE DEF f, S
  <2> QED BY <1>1, <1>2, Largest
<1>4. {f[s] : s \in S} = {rows[q].position : q \in S}
  OBVIOUS
<1>6. \A y \in P : y \in Nat
  BY PositionTyped
<1>5. \E m \in P : \A y \in P : m >= y
  <2>1. PICK m \in {0} \cup {f[s] : s \in S} : \A s \in S : m >= f[s]
    BY <1>3
  <2>2. m \in P /\ m \in Nat
    BY <1>4, <1>6, <2>1
  <2>3. \A s \in S : m >= rows[s].position
    BY <2>1
  <2>4. \A y \in P : m >= y
    BY <2>2, <2>3
  <2> QED BY <2>2, <2>4
<1>7. Max(P) \in P /\ \A y \in P : Max(P) >= y
  BY <1>5 DEF Max
<1>8. NextPosition(t) = Max(P) + 1
  BY DEF NextPosition
<1>9. \A q \in Requests : Terminal[q] = t => rows[q].position \in P
  OBVIOUS
<1>10. Max(P) \in Nat
  BY <1>6, <1>7
<1>11. \A q \in Requests : Terminal[q] = t => rows[q].position \in Nat /\ Max(P) >= rows[q].position
  BY <1>6, <1>7, <1>9
<1> HIDE DEF P
<1> QED BY <1>8, <1>10, <1>11

-----------------------------------------------------------------------------
(* What a step does to the rows.                                           *)

\* Rows that leave their status for one that waits for nothing; those that are
\* forfeited are among F.
Left(rs, F) ==
  \A q \in Requests :
    /\ rs[q].position = rows[q].position
    /\ rs[q].grace = rows[q].grace
    /\ rs[q].created = rows[q].created
    /\ rs[q].status # rows[q].status =>
         /\ <<rows[q].status, rs[q].status>> \in queueTransitions
         /\ rs[q].status \notin {"QUEUED", "CALLED_UP"}
         /\ rs[q].status = "FORFEITED" => q \in F

\* Rows leave their status, then places that are free are filled in order.
CallUpStep(F) ==
  \E rs \in [Requests -> Row], k \in [Terminals -> Nat] :
    /\ Left(rs, F)
    /\ \A t \in Terminals :
         k[t] = 0 \/ Cardinality(Active(rs, t)) + k[t] <= capacity[t]
    /\ rows' = [q \in Requests |-> CalledUp(rs, Terminal[q], k[Terminal[q]])[q]]

\* A request joins its queue at the tail, with no grace deadline.
Joins(q) ==
  /\ rows' \in [Requests -> Row]
  /\ \A r \in Requests : r # q => rows'[r] = rows[r]
  /\ rows'[q].status = "QUEUED"
  /\ rows'[q].position = NextPosition(Terminal[q])
  /\ rows'[q].grace = NoDeadline

\* One row after a call-up step: as it left, or called up from the queue.
LEMMA CallUpRow ==
  ASSUME QueueTypeOK, NEW rs \in [Requests -> Row], NEW k \in [Terminals -> Nat],
         rows' = [q \in Requests |-> CalledUp(rs, Terminal[q], k[Terminal[q]])[q]],
         NEW q \in Requests
  PROVE  /\ rows'[q] \in Row
         /\ rows'[q].position = rs[q].position
         /\ rows'[q].created = rs[q].created
         /\ \/ /\ rs[q].status = "QUEUED" /\ rows'[q].status = "CALLED_UP"
               /\ rows'[q].grace = now + GraceWindow
               /\ Cardinality(Ahead(rs, q)) < k[Terminal[q]]
            \/ /\ rows'[q] = rs[q]
               /\ rs[q].status = "QUEUED" => ~ (Cardinality(Ahead(rs, q)) < k[Terminal[q]])
<1>1. rs[q] \in Row
  OBVIOUS
<1>2. now + GraceWindow \in Nat
  BY QueueConstants DEF QueueTypeOK
<1>3. q \in Waiting(rs, Terminal[q]) <=> rs[q].status = "QUEUED"
  BY DEF Waiting
<1>4. rows'[q] = IF rs[q].status = "QUEUED" /\ Cardinality(Ahead(rs, q)) < k[Terminal[q]]
                   THEN [rs[q] EXCEPT !.status = "CALLED_UP", !.grace = now + GraceWindow]
                   ELSE rs[q]
  BY <1>3 DEF CalledUp, Ahead
<1> QED BY <1>1, <1>2, <1>4 DEF Row, QueueStatus

\* No promotion: the rows only leave.
LEMMA LeftOnly ==
  ASSUME QueueTypeOK, NEW rs \in [Requests -> Row], NEW F, Left(rs, F), rows' = rs
  PROVE  CallUpStep(F)
<1> DEFINE k == [t \in Terminals |-> 0]
<1>1. k \in [Terminals -> Nat] /\ \A t \in Terminals : k[t] = 0
  OBVIOUS
<1>2. \A q \in Requests : Terminal[q] \in Terminals
  BY QueueConstants
<1>3. \A q \in Requests : CalledUp(rs, Terminal[q], k[Terminal[q]])[q] = rs[q]
  <2> TAKE q \in Requests
  <2>1. k[Terminal[q]] = 0
    BY <1>2
  <2>2. Cardinality(Ahead(rs, q)) \in Nat
    BY FiniteQueues
  <2>3. ~ (Cardinality({r \in Waiting(rs, Terminal[q]) : Before(rs, r, q)}) < 0)
    BY <2>2 DEF Ahead
  <2> QED BY <2>1, <2>3 DEF CalledUp
<1>4. rows' = [q \in Requests |-> CalledUp(rs, Terminal[q], k[Terminal[q]])[q]]
  BY <1>3
<1> HIDE DEF k
<1> QED BY <1>1, <1>4 DEF CallUpStep

\* promoteNextTx after the rows left.
LEMMA LeftThenNext ==
  ASSUME QueueTypeOK, NEW rs \in [Requests -> Row], NEW F, Left(rs, F),
         NEW t \in Terminals, rows' = promoteNextTx(rs, t)
  PROVE  CallUpStep(F)
<1> DEFINE one == IF Cardinality(Active(rs, t)) >= capacity[t] THEN 0 ELSE 1
           k == [u \in Terminals |-> IF u = t THEN one ELSE 0]
<1>1. k \in [Terminals -> Nat] /\ k[t] = one
  OBVIOUS
<1>2. \A u \in Terminals : k[u] = 0 \/ Cardinality(Active(rs, u)) + k[u] <= capacity[u]
  <2> TAKE u \in Terminals
  <2>1. Cardinality(Active(rs, u)) \in Nat
    BY FiniteQueues
  <2>2. capacity[u] \in Nat
    BY QueueConstants DEF QueueTypeOK
  <2> QED BY <2>1, <2>2
<1>3. \A q \in Requests :
        CalledUp(rs, Terminal[q], k[Terminal[q]])[q] = CalledUp(rs, t, one)[q]
  <2> TAKE q \in Requests
  <2>1. Terminal[q] \in Terminals
    BY QueueConstants
  <2>2. CASE Terminal[q] = t
    BY <2>2
  <2>3. CASE Terminal[q] # t
    <3>1. k[Terminal[q]] = 0
      BY <2>1, <2>3
    <3>2. Cardinality(Ahead(rs, q)) \in Nat
      BY FiniteQueues
    <3>3. ~ (Cardinality({r \in Waiting(rs, Terminal[q]) : Before(rs, r, q)}) < 0)
      BY <3>2 DEF Ahead
    <3>4. q \notin Waiting(rs, t)
      BY <2>3 DEF Waiting
    <3> QED BY <3>1, <3>3, <3>4 DEF CalledUp
  <2> QED BY <2>2, <2>3
<1>4. rows' = CalledUp(rs, t, one)
  BY DEF promoteNextTx
<1>5. CalledUp(rs, t, one) = [q \in Requests |-> CalledUp(rs, t, one)[q]]
  BY DEF CalledUp
<1>6. rows' = [q \in Requests |-> CalledUp(rs, Terminal[q], k[Terminal[q]])[q]]
  BY <1>3, <1>4, <1>5
<1> HIDE DEF k
<1> QED BY <1>1, <1>2, <1>6 DEF CallUpStep

\* One row that takes a transition which is no call-up and no return.
LEMMA MoveLeaves ==
  ASSUME QueueTypeOK, NEW q \in Requests, NEW next \in QueueStatus \ {"QUEUED", "CALLED_UP"},
         <<rows[q].status, next>> \in queueTransitions,
         NEW F, next = "FORFEITED" => q \in F
  PROVE  Move(q, next) \in [Requests -> Row] /\ Left(Move(q, next), F)
<1>1. rows \in [Requests -> Row]
  BY DEF QueueTypeOK
<1>2. \A r \in Requests : rows[r] \in Row
  BY <1>1
<1>3. Move(q, next) \in [Requests -> Row]
  BY <1>1 DEF Move, Row
<1>4. ASSUME NEW r \in Requests
      PROVE  /\ Move(q, next)[r].position = rows[r].position
             /\ Move(q, next)[r].grace = rows[r].grace
             /\ Move(q, next)[r].created = rows[r].created
             /\ Move(q, next)[r].status = IF r = q THEN next ELSE rows[r].status
  BY <1>1, <1>2 DEF Move, Row
<1> QED BY <1>3, <1>4 DEF Left

LEMMA ReleaseKind ==
  ASSUME QueueTypeOK, NEW q \in Requests, NEW next \in QueueStatus \ {"QUEUED", "CALLED_UP"},
         ReleaseTx(q, next), NEW F, next = "FORFEITED" => q \in F
  PROVE  CallUpStep(F)
<1>1. Move(q, next) \in [Requests -> Row] /\ Left(Move(q, next), F)
  BY MoveLeaves DEF ReleaseTx
<1>2. Terminal[q] \in Terminals
  BY QueueConstants
<1>3. rows' = promoteNextTx(Move(q, next), Terminal[q])
  BY DEF ReleaseTx
<1> QED BY <1>1, <1>2, <1>3, LeftThenNext

LEMMA TransitionKind ==
  ASSUME QueueTypeOK, NEW q \in Requests, NEW next \in QueueStatus \ {"QUEUED", "CALLED_UP"},
         transitionOnlyTx(q, next), NEW F, next = "FORFEITED" => q \in F
  PROVE  CallUpStep(F)
<1>1. Move(q, next) \in [Requests -> Row] /\ Left(Move(q, next), F)
  BY MoveLeaves DEF transitionOnlyTx
<1> QED BY <1>1, LeftOnly DEF transitionOnlyTx

\* The operations on one request, each with the requests it may forfeit.
LEMMA RequestKinds ==
  ASSUME QueueTypeOK, NEW q \in Requests
  PROVE  /\ Arrive(q) => CallUpStep({r \in {q} : now > rows[r].grace})
         /\ Depart(q) => CallUpStep({})
         /\ Forfeit(q) => CallUpStep({q})
         /\ Cancel(q) => CallUpStep({})
         /\ FlagReconciliation(q) => CallUpStep({})
<1>1. /\ "ARRIVED" \in QueueStatus \ {"QUEUED", "CALLED_UP"}
      /\ "EN_ROUTE" \in QueueStatus \ {"QUEUED", "CALLED_UP"}
      /\ "FORFEITED" \in QueueStatus \ {"QUEUED", "CALLED_UP"}
      /\ "CANCELLED" \in QueueStatus \ {"QUEUED", "CALLED_UP"}
      /\ "RECONCILIATION_REQUIRED" \in QueueStatus \ {"QUEUED", "CALLED_UP"}
  BY DEF QueueStatus
<1>2. ASSUME Arrive(q) PROVE CallUpStep({r \in {q} : now > rows[r].grace})
  <2> DEFINE F == {r \in {q} : now > rows[r].grace}
  <2>1. CASE now > rows[q].grace
    <3>1. ReleaseTx(q, "FORFEITED") /\ q \in F
      BY <1>2, <2>1 DEF Arrive
    <3> HIDE DEF F
    <3>2. CallUpStep(F)
      BY <1>1, <3>1, ReleaseKind
    <3> QED BY <3>2 DEF F
  <2>2. CASE ~ (now > rows[q].grace)
    <3>1. ReleaseTx(q, "ARRIVED")
      BY <1>2, <2>2 DEF Arrive
    <3> HIDE DEF F
    <3>2. CallUpStep(F)
      BY <1>1, <3>1, ReleaseKind
    <3> QED BY <3>2 DEF F
  <2> QED BY <2>1, <2>2
<1>3. Depart(q) => CallUpStep({})
  BY <1>1, TransitionKind DEF Depart
<1>4. Forfeit(q) => CallUpStep({q})
  BY <1>1, ReleaseKind DEF Forfeit
<1>5. Cancel(q) => CallUpStep({})
  BY <1>1, ReleaseKind, TransitionKind DEF Cancel
<1>6. FlagReconciliation(q) => CallUpStep({})
  BY <1>1, ReleaseKind, TransitionKind DEF FlagReconciliation
<1> QED BY <1>2, <1>3, <1>4, <1>5, <1>6

LEMMA PromoteKind ==
  ASSUME QueueTypeOK, NEW t \in Terminals, PromoteNext(t)
  PROVE  CallUpStep({})
<1>1. rows \in [Requests -> Row] /\ Left(rows, {})
  BY DEF QueueTypeOK, Left
<1> QED BY <1>1, LeftThenNext DEF PromoteNext

\* Create and Requeue.
LEMMA JoinKinds ==
  ASSUME QueueTypeOK, NEW q \in Requests, Create(q) \/ Requeue(q)
  PROVE  Joins(q)
<1> DEFINE P == NextPosition(Terminal[q])
<1>1. rows \in [Requests -> Row] /\ rows[q] \in Row
  BY DEF QueueTypeOK
<1>2. P \in Nat /\ now \in Nat
  BY <1>1, NextPositionFree DEF QueueTypeOK
<1>3. \/ rows' = [rows EXCEPT ![q] = [status |-> "QUEUED", position |-> P,
                                      grace |-> NoDeadline, created |-> now]]
      \/ rows' = [rows EXCEPT ![q].status = "QUEUED", ![q].position = P,
                              ![q].grace = NoDeadline]
  BY DEF Create, Requeue
<1> HIDE DEF P
<1>4. /\ rows' \in [Requests -> Row]
      /\ \A r \in Requests : r # q => rows'[r] = rows[r]
      /\ rows'[q].status = "QUEUED"
      /\ rows'[q].position = P
      /\ rows'[q].grace = NoDeadline
  BY <1>1, <1>2, <1>3 DEF Row, QueueStatus
<1> QED BY <1>4 DEF Joins, P

\* The sweeper's transactions.
LEMMA SweepLeaves ==
  ASSUME QueueTypeOK, NEW S \in SUBSET Requests
  PROVE  /\ S \subseteq Elapsed => Forfeited(S) \in [Requests -> Row] /\ Left(Forfeited(S), Elapsed)
         /\ ExpireStale(S) => CallUpStep({})
<1>1. \A r \in Requests : rows[r] \in Row
  BY DEF QueueTypeOK
<1>2. ASSUME S \subseteq Elapsed
      PROVE  Forfeited(S) \in [Requests -> Row] /\ Left(Forfeited(S), Elapsed)
  <2>1. ASSUME NEW r \in Requests
        PROVE  /\ Forfeited(S)[r] \in Row
               /\ Forfeited(S)[r].position = rows[r].position
               /\ Forfeited(S)[r].grace = rows[r].grace
               /\ Forfeited(S)[r].created = rows[r].created
               /\ Forfeited(S)[r].status = IF r \in S THEN "FORFEITED" ELSE rows[r].status
    BY <1>1 DEF Forfeited, Row, QueueStatus
  <2>2. \A r \in S : rows[r].status \in CallUps
    BY <1>2 DEF Elapsed
  <2>3. Forfeited(S) \in [Requests -> Row]
    BY <2>1 DEF Forfeited
  <2>4. Left(Forfeited(S), Elapsed)
    BY <1>2, <2>1, <2>2 DEF Left, CallUps, queueTransitions
  <2> QED BY <2>3, <2>4
<1>3. ASSUME ExpireStale(S) PROVE CallUpStep({})
  <2>1. ASSUME NEW r \in Requests
        PROVE  /\ rows'[r] \in Row
               /\ rows'[r].position = rows[r].position
               /\ rows'[r].grace = rows[r].grace
               /\ rows'[r].created = rows[r].created
               /\ rows'[r].status = IF r \in S THEN "EXPIRED" ELSE rows[r].status
    BY <1>1, <1>3 DEF ExpireStale, Row, QueueStatus
  <2>2. \A r \in S : rows[r].status = "QUEUED"
    BY <1>3 DEF ExpireStale, Stale
  <2>3. rows' \in [Requests -> Row]
    BY <1>3, <2>1 DEF ExpireStale
  <2>4. Left(rows', {})
    BY <2>1, <2>2 DEF Left, queueTransitions
  <2>5. PICK rs \in [Requests -> Row] : rs = rows'
    BY <2>3
  <2>6. Left(rs, {})
    BY <2>4, <2>5
  <2> QED BY <2>5, <2>6, LeftOnly
<1> QED BY <1>2, <1>3

LEMMA SweepKinds ==
  ASSUME QueueTypeOK, NEW S \in SUBSET Requests
  PROVE  ReconcileCallUps(S) \/ ForfeitExpired(S) => CallUpStep(Elapsed)
<1> SUFFICES ASSUME S \subseteq Elapsed, ReconcileCallUps(S) \/ ForfeitExpired(S)
             PROVE  CallUpStep(Elapsed)
  BY DEF ReconcileCallUps, ForfeitExpired
<1>1. PICK rs \in [Requests -> Row] : rs = Forfeited(S) /\ Left(rs, Elapsed)
  BY SweepLeaves
<1>2. \A t \in Terminals : capacity[t] \in Nat /\ Cardinality(Active(rs, t)) \in Nat
  BY QueueConstants, FiniteQueues DEF QueueTypeOK
<1>3. \A q \in Requests : Terminal[q] \in Terminals
  BY QueueConstants
<1>4. CASE ReconcileCallUps(S)
  <2> DEFINE k == [t \in Terminals |-> IF Cardinality(Active(rs, t)) >= capacity[t] THEN 0
                                       ELSE capacity[t] - Cardinality(Active(rs, t))]
  <2>1. k \in [Terminals -> Nat]
    BY <1>2
  <2>2. \A t \in Terminals : k[t] = 0 \/ Cardinality(Active(rs, t)) + k[t] <= capacity[t]
    BY <1>2
  <2>3. rows' = [q \in Requests |-> CalledUp(rs, Terminal[q], k[Terminal[q]])[q]]
    BY <1>1, <1>3, <1>4 DEF ReconcileCallUps, Filled
  <2> HIDE DEF k
  <2> QED BY <1>1, <2>1, <2>2, <2>3 DEF CallUpStep
<1>5. CASE ForfeitExpired(S)
  <2> DEFINE due(t) == Cardinality(S \cap Active(rows, t))
             left(t) == Cardinality(Active(rows, t)) - due(t)
             k == [t \in Terminals |-> IF left(t) + due(t) <= capacity[t] THEN due(t)
                                       ELSE IF left(t) < capacity[t] THEN capacity[t] - left(t)
                                       ELSE 0]
  <2>1. ASSUME NEW t \in Terminals
        PROVE  due(t) \in Nat /\ left(t) \in Nat /\ Cardinality(Active(rs, t)) = left(t)
    <3>1. IsFiniteSet(Active(rows, t)) /\ Cardinality(Active(rows, t)) \in Nat
      BY FiniteQueues
    <3>2. /\ IsFiniteSet(Active(rows, t) \ S)
          /\ Cardinality(Active(rows, t) \ S)
               = Cardinality(Active(rows, t)) - Cardinality(Active(rows, t) \cap S)
      BY <3>1, FS_Difference
    <3>3. Active(rows, t) \cap S = S \cap Active(rows, t)
      OBVIOUS
    <3>4. IsFiniteSet(S \cap Active(rows, t))
      BY <3>1, <3>3, FS_Subset
    <3>5. \A r \in Requests : rs[r].status = IF r \in S THEN "FORFEITED" ELSE rows[r].status
      <4>1. \A r \in Requests : rows[r] \in Row
        BY DEF QueueTypeOK
      <4> QED BY <1>1, <4>1 DEF Forfeited, Row
    <3>6. Active(rs, t) = Active(rows, t) \ S
      BY <3>5 DEF Active, CallUps
    <3>7. due(t) \in Nat /\ Cardinality(Active(rows, t) \ S) \in Nat
      BY <3>2, <3>4, FS_CardinalityType
    <3> QED BY <3>2, <3>3, <3>6, <3>7
  <2>2. k \in [Terminals -> Nat]
    BY <1>2, <2>1
  <2>3. \A t \in Terminals : k[t] = 0 \/ Cardinality(Active(rs, t)) + k[t] <= capacity[t]
    BY <1>2, <2>1
  <2>4. rows' = [q \in Requests |-> CalledUp(rs, Terminal[q], k[Terminal[q]])[q]]
    BY <1>1, <1>3, <1>5 DEF ForfeitExpired
  <2> HIDE DEF k
  <2> QED BY <1>1, <2>2, <2>3, <2>4 DEF CallUpStep
<1> QED BY <1>4, <1>5

\* Every step of the queue leaves the rows alone, calls up, or is a join; time
\* and capacity only change when no row does.
LEMMA QueueKinds ==
  ASSUME QueueTypeOK, [QueueNext]_queueVars
  PROVE  /\ now' \in 0..MaxTime
         /\ capacity' \in [Terminals -> Capacities]
         /\ requeued' \subseteq Requests
         /\ \/ rows' = rows
            \/ \E F : CallUpStep(F)
            \/ \E q \in Requests : Joins(q)
<1>1. CASE Tick
  BY <1>1, QueueConstants DEF Tick, QueueTypeOK
<1>2. ASSUME NEW t \in Terminals, PromoteNext(t)
      PROVE  UNCHANGED <<now, capacity, requeued>> /\ CallUpStep({})
  BY <1>2, PromoteKind DEF PromoteNext
<1>3. ASSUME NEW t \in Terminals, NEW c \in Capacities, ConfigureTerminal(t, c)
      PROVE  UNCHANGED <<now, rows, requeued>> /\ capacity' \in [Terminals -> Capacities]
  BY <1>3 DEF ConfigureTerminal, QueueTypeOK
<1>4. ASSUME NEW q \in Requests, Create(q) \/ Requeue(q)
      PROVE  UNCHANGED <<now, capacity>> /\ requeued' \subseteq Requests /\ Joins(q)
  BY <1>4, JoinKinds DEF Create, Requeue, QueueTypeOK
<1>5. ASSUME NEW q \in Requests,
             Arrive(q) \/ Depart(q) \/ Forfeit(q) \/ Cancel(q) \/ FlagReconciliation(q)
      PROVE  UNCHANGED <<now, capacity, requeued>> /\ \E F : CallUpStep(F)
  <2>1. UNCHANGED <<now, capacity, requeued>>
    BY <1>5 DEF Arrive, Depart, Forfeit, Cancel, FlagReconciliation
  <2>2. \E F : CallUpStep(F)
    BY <1>5, RequestKinds
  <2> QED BY <2>1, <2>2
<1>6. ASSUME NEW S \in SUBSET Requests,
             ExpireStale(S) \/ ForfeitExpired(S) \/ ReconcileCallUps(S)
      PROVE  UNCHANGED <<now, capacity, requeued>> /\ \E F : CallUpStep(F)
  <2>1. UNCHANGED <<now, capacity, requeued>>
    BY <1>6 DEF ExpireStale, ForfeitExpired, ReconcileCallUps
  <2>2. \E F : CallUpStep(F)
    BY <1>6, SweepLeaves, SweepKinds
  <2> QED BY <2>1, <2>2
<1>7. CASE UNCHANGED queueVars
  BY <1>7 DEF queueVars, QueueTypeOK
<1> QED BY <1>1, <1>2, <1>3, <1>4, <1>5, <1>6, <1>7 DEF QueueNext, QueueTypeOK

-----------------------------------------------------------------------------
(* The inductive invariant of the queue: types and unique positions.       *)

QueueInv == QueueTypeOK /\ PositionsUnique

\* Rows that leave keep their places.
LEMMA LeftUnique ==
  ASSUME QueueInv, NEW rs \in [Requests -> Row], NEW F, Left(rs, F)
  PROVE  UniqueIn(rs)
<1>1. \A q \in Requests : rs[q].status # Absent => rows[q].status # Absent
  BY DEF Left, queueTransitions, Absent
<1>2. \A q \in Requests : rs[q].position = rows[q].position
  BY DEF Left
<1> QED BY <1>1, <1>2 DEF UniqueIn, QueueInv, PositionsUnique

LEMMA QueueInvInitially == QueueInit => QueueInv
<1> SUFFICES ASSUME QueueInit PROVE QueueInv
  OBVIOUS
<1>1. QueueTypeOK
  BY QueueConstants DEF QueueInit, QueueTypeOK, Row
<1>2. PositionsUnique
  BY DEF QueueInit, PositionsUnique
<1> QED BY <1>1, <1>2 DEF QueueInv

LEMMA QueueInvStep == QueueInv /\ [QueueNext]_queueVars => QueueInv'
<1> SUFFICES ASSUME QueueInv, [QueueNext]_queueVars PROVE QueueInv'
  OBVIOUS
<1>1. QueueTypeOK /\ PositionsUnique /\ rows \in [Requests -> Row]
  BY DEF QueueInv, QueueTypeOK
<1>2. /\ now' \in 0..MaxTime /\ capacity' \in [Terminals -> Capacities]
      /\ requeued' \subseteq Requests
  BY <1>1, QueueKinds
<1>3. CASE rows' = rows
  BY <1>1, <1>2, <1>3 DEF QueueInv, QueueTypeOK, PositionsUnique
<1>4. ASSUME NEW F, CallUpStep(F) PROVE QueueInv'
  <2>1. PICK rs \in [Requests -> Row], k \in [Terminals -> Nat] :
          /\ Left(rs, F)
          /\ rows' = [q \in Requests |-> CalledUp(rs, Terminal[q], k[Terminal[q]])[q]]
    BY <1>4 DEF CallUpStep
  <2>2. \A q \in Requests : /\ rows'[q] \in Row
                            /\ rows'[q].position = rs[q].position
                            /\ rows'[q].status # Absent => rs[q].status # Absent
    BY <1>1, <2>1, CallUpRow DEF Absent
  <2>3. rows' \in [Requests -> Row]
    BY <2>1, <2>2
  <2>4. UniqueIn(rs)
    BY <2>1, LeftUnique
  <2>5. PositionsUnique'
    BY <2>2, <2>4 DEF UniqueIn, PositionsUnique
  <2> QED BY <1>2, <2>3, <2>5 DEF QueueInv, QueueTypeOK
<1>5. ASSUME NEW q \in Requests, Joins(q) PROVE QueueInv'
  <2>1. rows' \in [Requests -> Row]
    BY <1>5 DEF Joins
  <2>2. \A r \in Requests :
          Terminal[r] = Terminal[q] => rows[r].position < NextPosition(Terminal[q])
    BY <1>1, NextPositionFree
  <2>3. NextPosition(Terminal[q]) \in Nat
    BY <1>1, NextPositionFree
  <2>4. \A r \in Requests : rows[r].position \in Nat
    BY <1>1, PositionTyped
  <2>5. \A r \in Requests : /\ r # q
                            /\ Terminal[r] = Terminal[q]
                            => rows'[r].position # rows'[q].position
    BY <1>5, <2>2, <2>3, <2>4 DEF Joins
  <2>6. ASSUME NEW r \in Requests, NEW s \in Requests, r # s, Terminal[r] = Terminal[s],
               rows'[r].status # Absent, rows'[s].status # Absent
        PROVE  rows'[r].position # rows'[s].position
    <3>1. CASE r = q \/ s = q
      BY <2>5, <2>6, <3>1
    <3>2. CASE r # q /\ s # q
      BY <1>1, <1>5, <2>6, <3>2 DEF Joins, PositionsUnique
    <3> QED BY <3>1, <3>2
  <2>7. PositionsUnique'
    BY <2>6 DEF PositionsUnique
  <2> QED BY <1>2, <2>1, <2>7 DEF QueueInv, QueueTypeOK
<1> QED BY <1>1, <1>3, <1>4, <1>5, QueueKinds

\* Positions and rows keep their types through every operation and sweep.
THEOREM QueueTyped == QueueSpec => []QueueTypeOK
<1>1. QueueInv => QueueTypeOK
  BY DEF QueueInv
<1> QED BY <1>1, QueueInvInitially, QueueInvStep, PTL DEF QueueSpec

\* Two requests of a terminal never hold the same position, however many are
\* created, closed and requeued in between (Create, Requeue): the unique index
\* on (terminal_id, position) never has anything to refuse.
THEOREM PositionsStayUnique == QueueSpec => []PositionsUnique
<1>1. QueueInv => PositionsUnique
  BY DEF QueueInv
<1> QED BY <1>1, QueueInvInitially, QueueInvStep, PTL DEF QueueSpec

-----------------------------------------------------------------------------
(* Call-ups: capacity and order.                                           *)

\* Only a call-up step promotes, and whom it promotes was waiting among the
\* first of its queue.
LEMMA PromotedHead ==
  ASSUME QueueTypeOK, NEW F, NEW rs \in [Requests -> Row], NEW k \in [Terminals -> Nat],
         Left(rs, F),
         rows' = [q \in Requests |-> CalledUp(rs, Terminal[q], k[Terminal[q]])[q]],
         NEW q \in Promoted
  PROVE  /\ q \in Requests
         /\ q \in Heads(rs, Terminal[q], k[Terminal[q]])
<1>1. q \in Requests /\ rows[q].status # "CALLED_UP" /\ rows'[q].status = "CALLED_UP"
  BY DEF Promoted
<1>2. rs[q].status # "CALLED_UP"
  BY <1>1 DEF Left
<1>3. rs[q].status = "QUEUED" /\ Cardinality(Ahead(rs, q)) < k[Terminal[q]]
  BY <1>1, <1>2, CallUpRow
<1> QED BY <1>1, <1>3 DEF Heads, Waiting

\* A step that is no call-up promotes nobody.
LEMMA NobodyPromoted ==
  ASSUME rows' = rows \/ \E q \in Requests : Joins(q)
  PROVE  Promoted = {}
BY DEF Promoted, Joins

\* The requests called up or on the road after a call-up step.
LEMMA ActiveAfter ==
  ASSUME QueueTypeOK, NEW rs \in [Requests -> Row], NEW k \in [Terminals -> Nat],
         rows' = [q \in Requests |-> CalledUp(rs, Terminal[q], k[Terminal[q]])[q]],
         NEW q \in Requests
  PROVE  rows'[q].status \in {"CALLED_UP", "EN_ROUTE"} <=>
           q \in Active(rs, Terminal[q]) \cup Heads(rs, Terminal[q], k[Terminal[q]])
<1>1. rows'[q].status \in {"CALLED_UP", "EN_ROUTE"} <=>
        \/ rs[q].status \in {"CALLED_UP", "EN_ROUTE"}
        \/ rs[q].status = "QUEUED" /\ Cardinality(Ahead(rs, q)) < k[Terminal[q]]
  BY CallUpRow
<1> QED BY <1>1 DEF Active, CallUps, Heads, Waiting

\* The same as PromotionWithinCapacity for one step and one terminal.
LEMMA WithinCapacity ==
  ASSUME QueueInv, [QueueNext]_queueVars, NEW t \in Terminals,
         NEW p \in Promoted, Terminal[p] = t
  PROVE  Cardinality({q \in Requests : /\ Terminal[q] = t
                                       /\ rows'[q].status \in {"CALLED_UP", "EN_ROUTE"}})
           <= capacity[t]
<1>1. QueueTypeOK
  BY DEF QueueInv
<1>2. PICK F : CallUpStep(F)
  BY <1>1, QueueKinds, NobodyPromoted
<1>3. PICK rs \in [Requests -> Row], k \in [Terminals -> Nat] :
        /\ Left(rs, F)
        /\ \A u \in Terminals : k[u] = 0 \/ Cardinality(Active(rs, u)) + k[u] <= capacity[u]
        /\ rows' = [q \in Requests |-> CalledUp(rs, Terminal[q], k[Terminal[q]])[q]]
  BY <1>2 DEF CallUpStep
<1>4. UniqueIn(rs)
  BY <1>3, LeftUnique
<1>5. k[t] \in Nat /\ capacity[t] \in Nat
  BY <1>1, QueueConstants DEF QueueTypeOK
<1>6. p \in Heads(rs, t, k[t])
  BY <1>1, <1>3, PromotedHead
<1>7. IsFiniteSet(Heads(rs, t, k[t])) /\ Cardinality(Heads(rs, t, k[t])) <= k[t]
  BY <1>4, <1>5, HeadsFew
<1>8. Cardinality(Ahead(rs, p)) \in Nat /\ Cardinality(Ahead(rs, p)) < k[t]
  BY <1>6, FiniteQueues DEF Heads
<1>9. Cardinality(Active(rs, t)) + k[t] <= capacity[t]
  BY <1>3, <1>5, <1>8
<1>10. IsFiniteSet(Active(rs, t)) /\ Cardinality(Active(rs, t)) \in Nat
  BY FiniteQueues
<1>11. Cardinality(Active(rs, t) \cup Heads(rs, t, k[t]))
         = Cardinality(Active(rs, t)) + Cardinality(Heads(rs, t, k[t]))
             - Cardinality(Active(rs, t) \cap Heads(rs, t, k[t]))
  BY <1>7, <1>10, FS_Union
<1>12. IsFiniteSet(Active(rs, t) \cap Heads(rs, t, k[t]))
  BY <1>10, FS_Intersection
<1>13. /\ Cardinality(Active(rs, t) \cap Heads(rs, t, k[t])) \in Nat
       /\ Cardinality(Heads(rs, t, k[t])) \in Nat
  BY <1>7, <1>12, FS_CardinalityType
<1>14. Cardinality(Active(rs, t) \cup Heads(rs, t, k[t])) <= capacity[t]
  BY <1>5, <1>7, <1>9, <1>10, <1>11, <1>13
<1>15. {q \in Requests : Terminal[q] = t /\ rows'[q].status \in {"CALLED_UP", "EN_ROUTE"}}
         = Active(rs, t) \cup Heads(rs, t, k[t])
  <2>1. \A q \in Requests :
          rows'[q].status \in {"CALLED_UP", "EN_ROUTE"} <=>
            q \in Active(rs, Terminal[q]) \cup Heads(rs, Terminal[q], k[Terminal[q]])
    BY <1>1, <1>3, ActiveAfter
  <2>2. \A q \in Active(rs, t) \cup Heads(rs, t, k[t]) : q \in Requests /\ Terminal[q] = t
    BY DEF Active, Heads, Waiting
  <2> QED BY <2>1, <2>2
<1> QED BY <1>14, <1>15, Zenon

\* The same as PriorityFIFO for one step and two requests.
LEMMA HeadBeforeQueue ==
  ASSUME QueueInv, [QueueNext]_queueVars, NEW q \in Promoted, NEW r \in Requests,
         Terminal[r] = Terminal[q], rows'[r].status = "QUEUED"
  PROVE  Before(rows, q, r)
<1>1. QueueTypeOK
  BY DEF QueueInv
<1>2. PICK F : CallUpStep(F)
  BY <1>1, QueueKinds, NobodyPromoted
<1>3. PICK rs \in [Requests -> Row], k \in [Terminals -> Nat] :
        /\ Left(rs, F)
        /\ rows' = [p \in Requests |-> CalledUp(rs, Terminal[p], k[Terminal[p]])[p]]
  BY <1>2 DEF CallUpStep
<1> DEFINE t == Terminal[q]
<1>4. q \in Requests /\ q \in Heads(rs, t, k[t]) /\ rows'[q].status = "CALLED_UP"
  BY <1>1, <1>3, PromotedHead DEF Promoted
<1>5. q \in Waiting(rs, t) /\ Cardinality(Ahead(rs, q)) < k[t]
  BY <1>4 DEF Heads
<1>6. rs[r].status = "QUEUED" /\ ~ (Cardinality(Ahead(rs, r)) < k[t])
  BY <1>1, <1>3, CallUpRow
<1>7. r \in Waiting(rs, t) /\ q # r
  BY <1>4, <1>6 DEF Waiting
<1>8. /\ Cardinality(Ahead(rs, q)) \in Nat /\ Cardinality(Ahead(rs, r)) \in Nat
      /\ k[t] \in Nat
  BY <1>4, FiniteQueues, QueueConstants
<1>9. Before(rs, q, r)
  <2>1. UniqueIn(rs)
    BY <1>3, LeftUnique
  <2>2. Before(rs, q, r) \/ Before(rs, r, q)
    BY <1>5, <1>7, <2>1, OrderTotal
  <2>3. ~ Before(rs, r, q)
    BY <1>5, <1>6, <1>7, <1>8, AheadGrows
  <2> QED BY <2>2, <2>3
<1> QED BY <1>3, <1>4, <1>9 DEF Before, Left

\* No step that calls a truck up leaves its terminal over capacity, even if the
\* capacity was lowered below what is on the road before (promoteNextTx,
\* ForfeitExpired, ReconcileCallUps).
THEOREM NeverOverCalled == QueueSpec => PromotionWithinCapacity
<1>1. QueueInv /\ [QueueNext]_queueVars =>
        [\A t \in Terminals :
           (\E q \in Promoted : Terminal[q] = t) =>
             Cardinality({q \in Requests : /\ Terminal[q] = t
                                           /\ rows'[q].status \in
                                                {"CALLED_UP", "EN_ROUTE"}})
               <= capacity[t]]_queueVars
  BY WithinCapacity
<1> QED BY <1>1, QueueInvInitially, QueueInvStep, PTL DEF QueueSpec, PromotionWithinCapacity

\* A truck is called up only ahead of those that stay in the queue, by class
\* and then by position (promoteNextTx, ForfeitExpired, ReconcileCallUps).
THEOREM CalledUpInOrder == QueueSpec => PriorityFIFO
<1> DEFINE A == \A q \in Promoted, r \in Requests :
                  Terminal[r] = Terminal[q] /\ rows'[r].status = "QUEUED" =>
                    \/ rank(Class[q]) < rank(Class[r])
                    \/ /\ rank(Class[q]) = rank(Class[r])
                       /\ rows[q].position < rows[r].position
<1>1. QueueInv /\ [QueueNext]_queueVars => [A]_queueVars
  BY HeadBeforeQueue DEF Before
<1> HIDE DEF A
<1>2. QueueSpec => [][A]_queueVars
  BY <1>1, QueueInvInitially, QueueInvStep, PTL DEF QueueSpec
<1> QED BY <1>2 DEF PriorityFIFO, A

-----------------------------------------------------------------------------
(* Handlers, runs and sweeps implement the queue.                          *)

LEMMA FlowStepIsQueueStep == [FlowNext]_flowVars => [QueueNext]_queueVars
<1> SUFFICES ASSUME [FlowNext]_flowVars PROVE [QueueNext]_queueVars
  OBVIOUS
<1>1. CASE StoreOnly
  BY <1>1 DEF StoreOnly, QueueNext
<1>2. CASE FlowTick
  BY <1>2 DEF FlowTick, QueueNext
<1>3. ASSUME NEW q \in Requests, cancelQueueRequest(q) PROVE [QueueNext]_queueVars
  BY <1>3 DEF cancelQueueRequest, QueueNext
<1>4. ASSUME NEW q \in Requests, arriveQueueRequest(q) PROVE [QueueNext]_queueVars
  BY <1>4 DEF arriveQueueRequest, QueueNext
<1>5. ASSUME NEW q \in Requests, EnsureRun(q) \/ SignalArrivalConfirmed(q) \/ ArrivalLost(q)
      PROVE  UNCHANGED queueVars
  BY <1>5 DEF EnsureRun, SignalArrivalConfirmed, ArrivalLost
<1>6. ASSUME NEW q \in Requests, Run(q) PROVE [QueueNext]_queueVars
  <2>1. CASE ReceiveArrival(q) \/ GraceTimer(q) \/ ArrivalCheck(q)
    BY <2>1 DEF ReceiveArrival, GraceTimer, ArrivalCheck
  <2>2. CASE ForfeitCallUp(q)
    BY <2>2 DEF ForfeitCallUp, QueueNext
  <2> QED BY <1>6, <2>1, <2>2 DEF Run
<1>7. ASSUME NEW st \in starts, StartCallUpWorkflow(st[1], st[2]) \/ StartLost(st[1], st[2])
      PROVE  UNCHANGED queueVars
  BY <1>7 DEF StartCallUpWorkflow, StartLost
<1>8. ASSUME NEW S \in SUBSET Requests, SweepExpire(S) \/ SweepReconcile(S)
      PROVE  [QueueNext]_queueVars
  BY <1>8 DEF SweepExpire, SweepReconcile, QueueNext
<1>9. CASE SweepStart \/ SweepFails
  BY <1>9 DEF SweepStart, SweepFails
<1>10. CASE UNCHANGED flowVars
  BY <1>10 DEF flowVars
<1> QED BY <1>1, <1>2, <1>3, <1>4, <1>5, <1>6, <1>7, <1>8, <1>9, <1>10 DEF FlowNext

\* However handlers, runs, late starts and sweeps interleave, they use the queue
\* only through its operations (server/queue.go, workflow.go, sweeper.go), so
\* that all that is proved of the queue holds of the whole.
THEOREM FlowImplementsQueue == FlowSpec => ImplementsQueue
<1>1. FlowInit => QueueInit
  BY DEF FlowInit
<1> QED BY <1>1, FlowStepIsQueueStep, PTL DEF FlowSpec, ImplementsQueue, QueueSpec

\* What the queue promises holds of the system of handlers, runs and sweeper,
\* whatever starts and signals they lose or repeat (server/queue.go,
\* queue/workflow.go, queue/sweeper.go).
THEOREM FlowKeepsQueuePromises ==
  FlowSpec => []PositionsUnique /\ PromotionWithinCapacity /\ PriorityFIFO
<1>1. FlowSpec => QueueSpec
  BY FlowImplementsQueue DEF ImplementsQueue
<1> QED BY <1>1, PositionsStayUnique, NeverOverCalled, CalledUpInOrder

-----------------------------------------------------------------------------
(* The first grace window is honoured.                                     *)

\* What a request's row, its run and the calls under way say of its deadline.
\* As long as it was never requeued it has had one deadline at most, and no
\* start or run carries another.
GraceOf(q) ==
  /\ rows[q].status \in {"CALLED_UP", "EN_ROUTE", "ARRIVED"} => rows[q].grace \in Nat
  /\ arriving[q] # "idle" => rows[q].status = "ARRIVED"
  /\ stage[q] = "GRACE_WINDOW_ELAPSED" => now >= deadline[q]
  /\ q \notin requeued =>
       /\ rows[q].status \in {Absent, "QUEUED"} => rows[q].grace = NoDeadline
       /\ Running(q) => deadline[q] = rows[q].grace
       /\ \A d : <<q, d>> \in starts => d = rows[q].grace

FlowInv == QueueInv /\ FlowTypeOK /\ \A q \in Requests : GraceOf(q)

\* What a queue step does to one row, as far as its deadline goes.
KeepsGrace(q) ==
  \/ /\ rows'[q].grace = rows[q].grace
     /\ \/ rows'[q].status = rows[q].status
        \/ <<rows[q].status, rows'[q].status>> \in queueTransitions
           /\ rows'[q].status \notin {"QUEUED", "CALLED_UP"}
  \/ /\ rows[q].status = "QUEUED" /\ rows'[q].status = "CALLED_UP"
     /\ rows'[q].grace \in Nat
  \/ /\ rows'[q].status = "QUEUED" /\ rows'[q].grace = NoDeadline
     /\ \/ rows[q].status = Absent
        \/ rows[q].status = "RECONCILIATION_REQUIRED" /\ q \in requeued'

LEMMA CallUpKeepsGrace ==
  ASSUME QueueTypeOK, NEW F, CallUpStep(F), NEW q \in Requests
  PROVE  /\ KeepsGrace(q)
         /\ rows'[q].status = "FORFEITED" /\ rows[q].status # "FORFEITED" => q \in F
<1>1. PICK rs \in [Requests -> Row], k \in [Terminals -> Nat] :
        /\ Left(rs, F)
        /\ rows' = [p \in Requests |-> CalledUp(rs, Terminal[p], k[Terminal[p]])[p]]
  BY DEF CallUpStep
<1>2. now + GraceWindow \in Nat
  BY QueueConstants DEF QueueTypeOK
<1>3. \/ /\ rs[q].status = "QUEUED" /\ rows'[q].status = "CALLED_UP"
         /\ rows'[q].grace = now + GraceWindow
      \/ rows'[q] = rs[q]
  BY <1>1, CallUpRow
<1>4. /\ rs[q].grace = rows[q].grace
      /\ rs[q].status # rows[q].status =>
           /\ <<rows[q].status, rs[q].status>> \in queueTransitions
           /\ rs[q].status \notin {"QUEUED", "CALLED_UP"}
           /\ rs[q].status = "FORFEITED" => q \in F
  BY <1>1 DEF Left
<1> QED BY <1>2, <1>3, <1>4 DEF KeepsGrace

LEMMA QueueKeepsGrace ==
  ASSUME QueueTypeOK, [QueueNext]_queueVars, NEW q \in Requests
  PROVE  KeepsGrace(q) /\ requeued \subseteq requeued' /\ now' >= now
<1>1. requeued \subseteq requeued' /\ now' >= now
  <2>1. now \in Nat
    BY DEF QueueTypeOK
  <2>2. ASSUME NEW p \in Requests, Create(p) \/ Requeue(p)
        PROVE  requeued \subseteq requeued' /\ now' = now
    BY <2>2 DEF Create, Requeue
  <2>3. ASSUME NEW p \in Requests,
               Arrive(p) \/ Depart(p) \/ Forfeit(p) \/ Cancel(p) \/ FlagReconciliation(p)
        PROVE  requeued \subseteq requeued' /\ now' = now
    BY <2>3 DEF Arrive, Depart, Forfeit, Cancel, FlagReconciliation
  <2>4. ASSUME NEW S \in SUBSET Requests,
               ExpireStale(S) \/ ForfeitExpired(S) \/ ReconcileCallUps(S)
        PROVE  requeued \subseteq requeued' /\ now' = now
    BY <2>4 DEF ExpireStale, ForfeitExpired, ReconcileCallUps
  <2>5. ASSUME NEW t \in Terminals,
               PromoteNext(t) \/ \E c \in Capacities : ConfigureTerminal(t, c)
        PROVE  requeued \subseteq requeued' /\ now' = now
    BY <2>5 DEF PromoteNext, ConfigureTerminal
  <2>6. ASSUME Tick \/ UNCHANGED queueVars
        PROVE  requeued \subseteq requeued' /\ now' >= now
    BY <2>1, <2>6 DEF Tick, queueVars
  <2> QED BY <2>1, <2>2, <2>3, <2>4, <2>5, <2>6 DEF QueueNext
<1>2. ASSUME NEW p \in Requests, Create(p) \/ Requeue(p) PROVE KeepsGrace(q)
  <2>1. Joins(p)
    BY <1>2, JoinKinds
  <2>2. \/ rows[p].status = Absent
        \/ rows[p].status = "RECONCILIATION_REQUIRED" /\ p \in requeued'
    BY <1>2 DEF Create, Requeue
  <2> QED BY <2>1, <2>2 DEF Joins, KeepsGrace
<1>3. rows' = rows => KeepsGrace(q)
  BY DEF KeepsGrace
<1>4. ASSUME NEW F, CallUpStep(F) PROVE KeepsGrace(q)
  BY <1>4, CallUpKeepsGrace
<1>5. \/ rows' = rows
      \/ \E F : CallUpStep(F)
      \/ \E p \in Requests : Create(p) \/ Requeue(p)
  <2>1. CASE Tick \/ (\E t \in Terminals, c \in Capacities : ConfigureTerminal(t, c))
             \/ UNCHANGED queueVars
    BY <2>1 DEF Tick, ConfigureTerminal, queueVars
  <2>2. CASE \E t \in Terminals : PromoteNext(t)
    BY <2>2, PromoteKind
  <2>3. CASE \E p \in Requests : Arrive(p) \/ Depart(p) \/ Forfeit(p) \/ Cancel(p)
                                 \/ FlagReconciliation(p)
    BY <2>3, RequestKinds
  <2>4. CASE \E S \in SUBSET Requests : ExpireStale(S) \/ ForfeitExpired(S) \/ ReconcileCallUps(S)
    BY <2>4, SweepLeaves, SweepKinds
  <2> QED BY <2>1, <2>2, <2>3, <2>4 DEF QueueNext
<1> QED BY <1>1, <1>2, <1>3, <1>4, <1>5

\* The deadline on a row of which something is running stays what it is.
LEMMA GraceStays ==
  ASSUME FlowInv, [FlowNext]_flowVars, NEW q \in Requests
  PROVE  /\ now' >= now
         /\ rows'[q].status \in {"CALLED_UP", "EN_ROUTE", "ARRIVED"} => rows'[q].grace \in Nat
         /\ rows[q].status = "ARRIVED" => rows'[q].status = "ARRIVED"
         /\ q \notin requeued' =>
              /\ q \notin requeued
              /\ rows'[q].status \in {Absent, "QUEUED"} => rows'[q].grace = NoDeadline
              /\ rows[q].grace \in Nat => rows'[q].grace = rows[q].grace
<1>1. QueueTypeOK /\ GraceOf(q)
  BY DEF FlowInv, QueueInv
<1>2. KeepsGrace(q) /\ requeued \subseteq requeued' /\ now' >= now
  BY <1>1, FlowStepIsQueueStep, QueueKeepsGrace
<1>3. NoDeadline \notin Nat
  BY QueueConstants
<1>4. rows[q].status \in QueueStatus \cup {Absent}
  BY <1>1 DEF QueueTypeOK, Row
<1>5. CASE /\ rows'[q].grace = rows[q].grace
           /\ \/ rows'[q].status = rows[q].status
              \/ <<rows[q].status, rows'[q].status>> \in queueTransitions
                 /\ rows'[q].status \notin {"QUEUED", "CALLED_UP"}
  BY <1>1, <1>2, <1>5 DEF GraceOf, queueTransitions, Absent
<1>6. CASE /\ rows[q].status = "QUEUED" /\ rows'[q].status = "CALLED_UP"
           /\ rows'[q].grace \in Nat
  BY <1>1, <1>2, <1>3, <1>6 DEF GraceOf, Absent
<1>7. CASE /\ rows'[q].status = "QUEUED" /\ rows'[q].grace = NoDeadline
           /\ \/ rows[q].status = Absent
              \/ rows[q].status = "RECONCILIATION_REQUIRED" /\ q \in requeued'
  BY <1>1, <1>2, <1>3, <1>7 DEF GraceOf, Absent
<1> QED BY <1>2, <1>5, <1>6, <1>7 DEF KeepsGrace

\* What the runs and the calls under way carry, next to the rows' own part.
RunsTyped ==
  /\ stage \in [Requests -> Stages]
  /\ deadline \in [Requests -> Nat]
  /\ signalled \in [Requests -> BOOLEAN]
  /\ starts \subseteq Requests \X Nat
  /\ arriving \in [Requests -> {"idle", "recorded", "ensured"}]
  /\ sweep \in {"ExpireStale", "ReconcileCallUps", "ListActiveCallUps"}

RunsOf(q) ==
  /\ arriving[q] # "idle" => rows[q].status = "ARRIVED"
  /\ stage[q] = "GRACE_WINDOW_ELAPSED" => now >= deadline[q]
  /\ q \notin requeued =>
       /\ Running(q) => deadline[q] = rows[q].grace
       /\ \A d : <<q, d>> \in starts => d = rows[q].grace

RunsInv == RunsTyped /\ \A q \in Requests : RunsOf(q)

\* A step that leaves the runs alone and takes calls away, or adds the start of
\* a request with the deadline on its row.
LEMMA CallsKept ==
  ASSUME FlowInv, [FlowNext]_flowVars, UNCHANGED runVars,
         sweep' \in {"ExpireStale", "ReconcileCallUps", "ListActiveCallUps"},
         NEW D \in SUBSET Requests,
         \A q \in D : rows'[q].status \in {"CALLED_UP", "EN_ROUTE", "ARRIVED"},
         starts' \subseteq starts \cup {<<q, rows'[q].grace>> : q \in D},
         arriving' \in [Requests -> {"idle", "recorded", "ensured"}],
         \A q \in Requests : arriving'[q] # "idle" => \/ arriving[q] # "idle"
                                                     \/ rows'[q].status = "ARRIVED"
  PROVE  RunsInv'
<1>1. RunsTyped /\ \A q \in Requests : GraceOf(q)
  BY DEF FlowInv, FlowTypeOK, RunsTyped
<1>2. \A q \in Requests : rows'[q].status \in {"CALLED_UP", "EN_ROUTE", "ARRIVED"}
                            => rows'[q].grace \in Nat
  BY GraceStays
<1>3. starts' \subseteq Requests \X Nat
  BY <1>1, <1>2 DEF RunsTyped
<1>4. RunsTyped'
  BY <1>1, <1>3 DEF RunsTyped, runVars
<1>5. ASSUME NEW q \in Requests PROVE RunsOf(q)'
  <2>1. GraceOf(q)
    BY <1>1
  <2>2. deadline[q] \in Nat /\ now \in Nat /\ now' \in Nat
    <3>1. now' \in Nat
      BY FlowStepIsQueueStep, QueueInvStep DEF FlowInv, QueueInv, QueueTypeOK
    <3> QED BY <1>1, <3>1 DEF RunsTyped, FlowInv, QueueInv, QueueTypeOK
  <2>3. /\ now' >= now
        /\ rows[q].status = "ARRIVED" => rows'[q].status = "ARRIVED"
        /\ q \notin requeued' => /\ q \notin requeued
                                 /\ rows[q].grace \in Nat => rows'[q].grace = rows[q].grace
    BY GraceStays
  <2>4. stage' = stage /\ deadline' = deadline
    BY DEF runVars
  <2>5. arriving'[q] # "idle" => rows'[q].status = "ARRIVED"
    BY <2>1, <2>3 DEF GraceOf
  <2>6. stage[q] = "GRACE_WINDOW_ELAPSED" => now' >= deadline[q]
    BY <2>1, <2>2, <2>3 DEF GraceOf
  <2>7. q \notin requeued' /\ Running(q) => deadline[q] = rows'[q].grace
    BY <2>1, <2>2, <2>3 DEF GraceOf
  <2>8. ASSUME q \notin requeued', NEW d, <<q, d>> \in starts' PROVE d = rows'[q].grace
    <3>1. CASE <<q, d>> \in starts
      <4>1. d = rows[q].grace /\ d \in Nat
        BY <1>1, <2>1, <2>3, <2>8, <3>1 DEF GraceOf, RunsTyped
      <4> QED BY <2>3, <2>8, <4>1
    <3>2. CASE <<q, d>> \in {<<r, rows'[r].grace>> : r \in D}
      BY <3>2
    <3> QED BY <2>8, <3>1, <3>2
  <2> QED BY <2>4, <2>5, <2>6, <2>7, <2>8 DEF RunsOf, Running
<1> QED BY <1>4, <1>5 DEF RunsInv

\* A step that moves runs on, or starts one with the deadline of its row, and
\* makes no call.
LEMMA RunsMove ==
  ASSUME FlowInv, [FlowNext]_flowVars, RunsTyped', starts' \subseteq starts,
         \A q \in Requests : arriving'[q] # "idle" => arriving[q] # "idle",
         \A q \in Requests :
           \/ /\ deadline'[q] = deadline[q]
              /\ Running(q)' => Running(q)
              /\ stage'[q] = "GRACE_WINDOW_ELAPSED" =>
                   stage[q] = "GRACE_WINDOW_ELAPSED" \/ now >= deadline[q]
           \/ /\ stage'[q] = "AWAITING_ARRIVAL"
              /\ UNCHANGED queueVars
              /\ q \notin requeued => deadline'[q] = rows[q].grace
  PROVE  RunsInv'
<1>1. RunsTyped /\ \A q \in Requests : GraceOf(q)
  BY DEF FlowInv, FlowTypeOK, RunsTyped
<1>2. ASSUME NEW q \in Requests PROVE RunsOf(q)'
  <2>1. GraceOf(q)
    BY <1>1
  <2>2. deadline[q] \in Nat /\ now \in Nat /\ now' \in Nat
    <3>1. now' \in Nat
      BY FlowStepIsQueueStep, QueueInvStep DEF FlowInv, QueueInv, QueueTypeOK
    <3> QED BY <1>1, <3>1 DEF RunsTyped, FlowInv, QueueInv, QueueTypeOK
  <2>3. /\ now' >= now
        /\ rows[q].status = "ARRIVED" => rows'[q].status = "ARRIVED"
        /\ q \notin requeued' => /\ q \notin requeued
                                 /\ rows[q].grace \in Nat => rows'[q].grace = rows[q].grace
    BY GraceStays
  <2>4. arriving'[q] # "idle" => rows'[q].status = "ARRIVED"
    BY <2>1, <2>3 DEF GraceOf
  <2>5. ASSUME q \notin requeued', NEW d, <<q, d>> \in starts' PROVE d = rows'[q].grace
    <3>1. d = rows[q].grace /\ d \in Nat
      BY <1>1, <2>1, <2>3, <2>5 DEF GraceOf, RunsTyped
    <3> QED BY <2>3, <2>5, <3>1
  <2>6. CASE /\ deadline'[q] = deadline[q]
             /\ Running(q)' => Running(q)
             /\ stage'[q] = "GRACE_WINDOW_ELAPSED" =>
                  stage[q] = "GRACE_WINDOW_ELAPSED" \/ now >= deadline[q]
    <3>1. stage'[q] = "GRACE_WINDOW_ELAPSED" => now' >= deadline'[q]
      BY <2>1, <2>2, <2>3, <2>6 DEF GraceOf
    <3>2. q \notin requeued' /\ Running(q)' => deadline'[q] = rows'[q].grace
      BY <2>1, <2>2, <2>3, <2>6 DEF GraceOf
    <3> QED BY <2>4, <2>5, <3>1, <3>2 DEF RunsOf
  <2>7. CASE /\ stage'[q] = "AWAITING_ARRIVAL"
             /\ UNCHANGED queueVars
             /\ q \notin requeued => deadline'[q] = rows[q].grace
    BY <2>4, <2>5, <2>7 DEF RunsOf, queueVars
  <2> QED BY <2>6, <2>7
<1> QED BY <1>2 DEF RunsInv

\* The steps of the runs.
LEMMA StartedRuns ==
  ASSUME FlowInv, [FlowNext]_flowVars, NEW q \in Requests, NEW d \in Nat,
         q \notin requeued => d = rows[q].grace,
         Started(q, d), UNCHANGED <<queueVars, sweep>>, starts' \subseteq starts,
         arriving' \in [Requests -> {"idle", "recorded", "ensured"}],
         \A r \in Requests : arriving'[r] # "idle" => arriving[r] # "idle"
  PROVE  RunsInv'
<1>1. RunsTyped
  BY DEF FlowInv, FlowTypeOK, RunsTyped
<1>2. CASE Running(q)
  <2>1. UNCHANGED runVars
    BY <1>2 DEF Started
  <2>2. RunsTyped'
    BY <1>1, <2>1 DEF RunsTyped, runVars
  <2>3. \A r \in Requests : /\ deadline'[r] = deadline[r]
                            /\ Running(r)' => Running(r)
                            /\ stage'[r] = stage[r]
    BY <2>1 DEF runVars, Running
  <2> QED BY <2>2, <2>3, RunsMove
<1>3. CASE ~ Running(q)
  <2>1. /\ stage' = [stage EXCEPT ![q] = "AWAITING_ARRIVAL"]
        /\ deadline' = [deadline EXCEPT ![q] = d]
        /\ signalled' = [signalled EXCEPT ![q] = FALSE]
    BY <1>3 DEF Started
  <2>2. RunsTyped'
    BY <1>1, <2>1 DEF RunsTyped, Stages
  <2>3. \A r \in Requests : r # q => /\ deadline'[r] = deadline[r]
                                     /\ stage'[r] = stage[r]
                                     /\ Running(r)' => Running(r)
    BY <1>1, <2>1 DEF RunsTyped, Running
  <2>4. stage'[q] = "AWAITING_ARRIVAL" /\ deadline'[q] = d
    BY <1>1, <2>1 DEF RunsTyped
  <2> QED BY <2>2, <2>3, <2>4, RunsMove
<1> QED BY <1>2, <1>3

LEMMA GotoRuns ==
  ASSUME FlowInv, [FlowNext]_flowVars, NEW q \in Requests,
         NEW next \in Stages \ {"NOT_STARTED", "AWAITING_ARRIVAL"},
         Goto(q, next), Running(q), next = "GRACE_WINDOW_ELAPSED" => now >= deadline[q]
  PROVE  RunsInv'
<1>1. RunsTyped
  BY DEF FlowInv, FlowTypeOK, RunsTyped
<1>2. /\ stage' = [stage EXCEPT ![q] = next]
      /\ UNCHANGED <<deadline, signalled, starts, arriving, sweep>>
  BY DEF Goto, callVars
<1>3. RunsTyped'
  BY <1>1, <1>2 DEF RunsTyped
<1>4. \A r \in Requests : /\ stage'[r] = IF r = q THEN next ELSE stage[r]
                          /\ Running(r)' => Running(r)
  BY <1>1, <1>2 DEF RunsTyped, Running
<1> QED BY <1>2, <1>3, <1>4, RunsMove

LEMMA FlowInvInitially == FlowInit => FlowInv
<1> SUFFICES ASSUME FlowInit PROVE FlowInv
  OBVIOUS
<1>1. QueueInv
  BY QueueInvInitially DEF FlowInit
<1>2. FlowTypeOK
  BY <1>1 DEF FlowInit, FlowTypeOK, QueueInv, Stages
<1>3. \A q \in Requests : GraceOf(q)
  BY DEF FlowInit, QueueInit, GraceOf, Running, Absent
<1> QED BY <1>1, <1>2, <1>3 DEF FlowInv

\* Every step keeps the runs and the calls in agreement with the rows.
LEMMA RunsInvStep ==
  ASSUME FlowInv, [FlowNext]_flowVars
  PROVE  RunsInv'
<1>1. /\ RunsTyped /\ QueueTypeOK
      /\ \A q \in Requests : GraceOf(q)
  BY DEF FlowInv, FlowTypeOK, RunsTyped
<1>2. ASSUME UNCHANGED <<runVars, callVars>>,
             sweep' \in {"ExpireStale", "ReconcileCallUps", "ListActiveCallUps"}
      PROVE  RunsInv'
  <2>1. /\ {} \in SUBSET Requests /\ UNCHANGED runVars
        /\ starts' \subseteq starts \cup {<<q, rows'[q].grace>> : q \in {}}
        /\ arriving' = arriving
        /\ arriving' \in [Requests -> {"idle", "recorded", "ensured"}]
    BY <1>1, <1>2 DEF callVars, RunsTyped
  <2> QED BY <1>2, <2>1, CallsKept
<1>3. ASSUME startPromoted, UNCHANGED <<runVars, sweep>>,
             arriving' \in [Requests -> {"idle", "recorded", "ensured"}],
             \A q \in Requests : arriving'[q] # "idle" => \/ arriving[q] # "idle"
                                                         \/ rows'[q].status = "ARRIVED"
      PROVE  RunsInv'
  <2>1. /\ Promoted \in SUBSET Requests
        /\ \A q \in Promoted : rows'[q].status \in {"CALLED_UP", "EN_ROUTE", "ARRIVED"}
    BY DEF Promoted
  <2>2. /\ starts' \subseteq starts \cup {<<q, rows'[q].grace>> : q \in Promoted}
        /\ sweep' \in {"ExpireStale", "ReconcileCallUps", "ListActiveCallUps"}
    BY <1>1, <1>3 DEF startPromoted, RunsTyped
  <2> QED BY <1>3, <2>1, <2>2, CallsKept
<1>4. CASE StoreOnly
  BY <1>1, <1>2, <1>4 DEF StoreOnly, RunsTyped
<1>5. CASE FlowTick
  BY <1>1, <1>2, <1>5 DEF FlowTick, RunsTyped
<1>6. ASSUME NEW q \in Requests, cancelQueueRequest(q) PROVE RunsInv'
  BY <1>1, <1>3, <1>6 DEF cancelQueueRequest, RunsTyped
<1>7. ASSUME NEW q \in Requests, arriveQueueRequest(q) PROVE RunsInv'
  <2>1. CASE /\ rows'[q].status = "ARRIVED"
             /\ startPromoted
             /\ arriving' = [arriving EXCEPT ![q] = "recorded"]
             /\ UNCHANGED <<runVars, sweep>>
    <3>1. arriving' \in [Requests -> {"idle", "recorded", "ensured"}]
      BY <1>1, <2>1 DEF RunsTyped
    <3>2. \A r \in Requests : arriving'[r] # "idle" => \/ arriving[r] # "idle"
                                                      \/ rows'[r].status = "ARRIVED"
      BY <1>1, <2>1 DEF RunsTyped
    <3> QED BY <1>3, <2>1, <3>1, <3>2
  <2>2. CASE UNCHANGED <<runVars, callVars, sweep>>
    BY <1>1, <1>2, <2>2 DEF RunsTyped
  <2> QED BY <1>7, <2>1, <2>2 DEF arriveQueueRequest
<1>8. ASSUME NEW q \in Requests, EnsureRun(q) PROVE RunsInv'
  <2>1. /\ arriving[q] = "recorded" /\ Started(q, rows[q].grace)
        /\ arriving' = [arriving EXCEPT ![q] = "ensured"]
        /\ UNCHANGED <<queueVars, starts, sweep>>
    BY <1>8 DEF EnsureRun
  <2>2. rows[q].grace \in Nat
    BY <1>1, <2>1 DEF GraceOf
  <2>3. /\ arriving' \in [Requests -> {"idle", "recorded", "ensured"}]
        /\ \A r \in Requests : arriving'[r] # "idle" => arriving[r] # "idle"
    BY <1>1, <2>1 DEF RunsTyped
  <2> QED BY <2>1, <2>2, <2>3, StartedRuns
<1>9. ASSUME NEW q \in Requests, SignalArrivalConfirmed(q) PROVE RunsInv'
  <2>1. /\ signalled' = [signalled EXCEPT ![q] = TRUE]
        /\ arriving' = [arriving EXCEPT ![q] = "idle"]
        /\ UNCHANGED <<stage, deadline, starts, sweep>>
    BY <1>9 DEF SignalArrivalConfirmed
  <2>2. RunsTyped'
    BY <1>1, <2>1 DEF RunsTyped
  <2>3. \A r \in Requests : /\ deadline'[r] = deadline[r] /\ stage'[r] = stage[r]
                            /\ Running(r)' => Running(r)
                            /\ arriving'[r] # "idle" => arriving[r] # "idle"
    BY <1>1, <2>1 DEF RunsTyped, Running
  <2> QED BY <2>1, <2>2, <2>3, RunsMove
<1>10. ASSUME NEW q \in Requests, ArrivalLost(q) PROVE RunsInv'
  <2>1. /\ arriving' = [arriving EXCEPT ![q] = "idle"]
        /\ UNCHANGED <<stage, deadline, signalled, starts, sweep>>
    BY <1>10 DEF ArrivalLost, runVars
  <2>2. RunsTyped'
    BY <1>1, <2>1 DEF RunsTyped
  <2>3. \A r \in Requests : /\ deadline'[r] = deadline[r] /\ stage'[r] = stage[r]
                            /\ Running(r)' => Running(r)
                            /\ arriving'[r] # "idle" => arriving[r] # "idle"
    BY <1>1, <2>1 DEF RunsTyped, Running
  <2> QED BY <2>1, <2>2, <2>3, RunsMove
<1>11. ASSUME NEW q \in Requests, Run(q) PROVE RunsInv'
  <2> DEFINE Later == Stages \ {"NOT_STARTED", "AWAITING_ARRIVAL"}
  <2>1. {"ARRIVAL_CHECK", "GRACE_WINDOW_ELAPSED", "ARRIVED", "FORFEITED"} \subseteq Later
    BY DEF Stages
  <2>2. CASE ReceiveArrival(q)
    BY <2>1, <2>2, GotoRuns DEF ReceiveArrival, Running
  <2>3. CASE GraceTimer(q)
    BY <2>1, <2>3, GotoRuns DEF GraceTimer, Running
  <2>4. CASE ArrivalCheck(q)
    BY <2>1, <2>4, GotoRuns DEF ArrivalCheck, Running
  <2>5. CASE ForfeitCallUp(q)
    <3>1. CASE Goto(q, "FORFEITED")
      BY <2>1, <2>5, <3>1, GotoRuns DEF ForfeitCallUp, Running
    <3>2. CASE UNCHANGED <<runVars, callVars, sweep>>
      BY <1>1, <1>2, <3>2 DEF RunsTyped
    <3> QED BY <2>5, <3>1, <3>2 DEF ForfeitCallUp
  <2> QED BY <1>11, <2>2, <2>3, <2>4, <2>5 DEF Run
<1>12. ASSUME NEW st \in starts, StartCallUpWorkflow(st[1], st[2]) PROVE RunsInv'
  <2>1. /\ st[1] \in Requests /\ st[2] \in Nat /\ <<st[1], st[2]>> \in starts
    BY <1>1 DEF RunsTyped
  <2>2. /\ Started(st[1], st[2]) /\ starts' \subseteq starts
        /\ UNCHANGED <<queueVars, arriving, sweep>>
    BY <1>12 DEF StartCallUpWorkflow
  <2>3. st[1] \notin requeued => st[2] = rows[st[1]].grace
    BY <1>1, <2>1 DEF GraceOf
  <2>4. /\ arriving' \in [Requests -> {"idle", "recorded", "ensured"}]
        /\ \A r \in Requests : arriving'[r] # "idle" => arriving[r] # "idle"
    BY <1>1, <2>2 DEF RunsTyped
  <2> QED BY <2>1, <2>2, <2>3, <2>4, StartedRuns
<1>13. ASSUME NEW st \in starts, StartLost(st[1], st[2]) PROVE RunsInv'
  <2>1. /\ starts' \subseteq starts
        /\ UNCHANGED <<stage, deadline, signalled, arriving, sweep>>
    BY <1>13 DEF StartLost, runVars
  <2>2. RunsTyped'
    BY <1>1, <2>1 DEF RunsTyped
  <2>3. \A r \in Requests : /\ deadline'[r] = deadline[r] /\ stage'[r] = stage[r]
                            /\ Running(r)' => Running(r)
                            /\ arriving'[r] # "idle" => arriving[r] # "idle"
    BY <2>1 DEF Running
  <2> QED BY <2>1, <2>2, <2>3, RunsMove
<1>14. ASSUME NEW S \in SUBSET Requests, SweepExpire(S) \/ SweepReconcile(S) PROVE RunsInv'
  BY <1>2, <1>14 DEF SweepExpire, SweepReconcile
<1>15. CASE SweepStart
  <2> DEFINE D == {r \in Requests : rows[r].status \in CallUps}
  <2>1. /\ starts' = starts \cup {<<q, rows[q].grace>> : q \in D}
        /\ rows' = rows /\ UNCHANGED runVars /\ arriving' = arriving
        /\ sweep' \in {"ExpireStale", "ReconcileCallUps", "ListActiveCallUps"}
    BY <1>15 DEF SweepStart, queueVars
  <2>2. /\ D \in SUBSET Requests
        /\ \A q \in D : rows'[q].status \in {"CALLED_UP", "EN_ROUTE", "ARRIVED"}
    BY <2>1 DEF CallUps
  <2>3. /\ starts' \subseteq starts \cup {<<q, rows'[q].grace>> : q \in D}
        /\ arriving' \in [Requests -> {"idle", "recorded", "ensured"}]
    BY <1>1, <2>1 DEF RunsTyped
  <2> HIDE DEF D
  <2> QED BY <2>1, <2>2, <2>3, CallsKept
<1>16. CASE SweepFails
  BY <1>2, <1>16 DEF SweepFails
<1>17. CASE UNCHANGED flowVars
  BY <1>1, <1>2, <1>17 DEF flowVars, RunsTyped
<1> QED BY <1>4, <1>5, <1>6, <1>7, <1>8, <1>9, <1>10, <1>11, <1>12, <1>13, <1>14, <1>15,
           <1>16, <1>17 DEF FlowNext

LEMMA FlowInvStep == FlowInv /\ [FlowNext]_flowVars => FlowInv'
<1> SUFFICES ASSUME FlowInv, [FlowNext]_flowVars PROVE FlowInv'
  OBVIOUS
<1>1. QueueInv'
  BY FlowStepIsQueueStep, QueueInvStep DEF FlowInv
<1>2. RunsInv'
  BY RunsInvStep
<1>3. FlowTypeOK'
  BY <1>1, <1>2 DEF RunsInv, RunsTyped, FlowTypeOK, QueueInv
<1>4. ASSUME NEW q \in Requests PROVE GraceOf(q)'
  <2>1. RunsOf(q)'
    BY <1>2 DEF RunsInv
  <2>2. /\ rows'[q].status \in {"CALLED_UP", "EN_ROUTE", "ARRIVED"} => rows'[q].grace \in Nat
        /\ q \notin requeued' =>
             (rows'[q].status \in {Absent, "QUEUED"} => rows'[q].grace = NoDeadline)
    BY GraceStays
  <2> QED BY <2>1, <2>2 DEF RunsOf, GraceOf
<1> QED BY <1>1, <1>3, <1>4 DEF FlowInv

\* Who is forfeited has had its grace window.
LEMMA ForfeitsElapsed ==
  ASSUME FlowInv, [FlowNext]_flowVars, NEW q \in Requests \ requeued,
         rows[q].status \in {"CALLED_UP", "EN_ROUTE"}, rows'[q].status = "FORFEITED"
  PROVE  now >= rows[q].grace
<1>1. /\ QueueTypeOK /\ GraceOf(q) /\ now \in Nat /\ rows[q].grace \in Nat
  BY DEF FlowInv, FlowTypeOK, QueueTypeOK, GraceOf
<1>2. ASSUME NEW F, CallUpStep(F) PROVE q \in F
  BY <1>1, <1>2, CallUpKeepsGrace
<1>3. ASSUME NEW p \in Requests, Create(p) \/ Requeue(p) PROVE FALSE
  BY <1>1, <1>3, JoinKinds DEF Joins
<1>4. CASE StoreOnly
  <2>1. rows' # rows
    OBVIOUS
  <2>2. CASE \E t \in Terminals : PromoteNext(t)
    BY <1>1, <1>2, <2>2, PromoteKind
  <2>3. CASE \E t \in Terminals, c \in Capacities : ConfigureTerminal(t, c)
    BY <2>1, <2>3 DEF ConfigureTerminal
  <2>4. CASE \E p \in Requests : Depart(p) \/ FlagReconciliation(p)
    BY <1>1, <1>2, <2>4, RequestKinds
  <2> QED BY <1>3, <1>4, <2>2, <2>3, <2>4 DEF StoreOnly
<1>5. ASSUME NEW p \in Requests, cancelQueueRequest(p) PROVE now >= rows[q].grace
  BY <1>1, <1>2, <1>5, RequestKinds DEF cancelQueueRequest
<1>6. ASSUME NEW p \in Requests, arriveQueueRequest(p) PROVE now >= rows[q].grace
  <2>1. CallUpStep({r \in {p} : now > rows[r].grace})
    BY <1>1, <1>6, RequestKinds DEF arriveQueueRequest
  <2>2. now > rows[q].grace
    BY <1>2, <2>1
  <2> QED BY <1>1, <2>2
<1>7. ASSUME NEW p \in Requests, Run(p) PROVE now >= rows[q].grace
  <2>1. ForfeitCallUp(p) /\ Forfeit(p)
    BY <1>7 DEF Run, ReceiveArrival, GraceTimer, ArrivalCheck, ForfeitCallUp, queueVars
  <2>2. q = p
    BY <1>1, <1>2, <2>1, RequestKinds
  <2>3. stage[q] = "GRACE_WINDOW_ELAPSED"
    BY <2>1, <2>2 DEF ForfeitCallUp
  <2>4. now >= deadline[q] /\ deadline[q] = rows[q].grace
    BY <1>1, <2>3 DEF GraceOf, Running
  <2> QED BY <2>4
<1>8. ASSUME NEW S \in SUBSET Requests, SweepExpire(S) \/ SweepReconcile(S)
      PROVE  now >= rows[q].grace
  <2>1. CallUpStep({}) \/ CallUpStep(Elapsed)
    BY <1>1, <1>8, SweepLeaves, SweepKinds DEF SweepExpire, SweepReconcile
  <2>2. q \in Elapsed
    BY <1>2, <2>1
  <2> QED BY <1>1, <2>2 DEF Elapsed
<1>9. ASSUME rows' = rows PROVE FALSE
  BY <1>9
<1>10. CASE FlowTick \/ SweepStart \/ SweepFails \/ UNCHANGED flowVars
  BY <1>9, <1>10 DEF FlowTick, Tick, SweepStart, SweepFails, flowVars, queueVars
<1>11. ASSUME NEW p \in Requests, EnsureRun(p) \/ SignalArrivalConfirmed(p) \/ ArrivalLost(p)
       PROVE FALSE
  BY <1>9, <1>11 DEF EnsureRun, SignalArrivalConfirmed, ArrivalLost, queueVars
<1>12. ASSUME NEW st \in starts, StartCallUpWorkflow(st[1], st[2]) \/ StartLost(st[1], st[2])
       PROVE  FALSE
  BY <1>9, <1>12 DEF StartCallUpWorkflow, StartLost, queueVars
<1> QED BY <1>4, <1>5, <1>6, <1>7, <1>8, <1>10, <1>11, <1>12 DEF FlowNext

\* Rows, runs, buffered signals and calls under way keep their types.
THEOREM FlowTyped == FlowSpec => []FlowTypeOK
<1>1. FlowInv => FlowTypeOK
  BY DEF FlowInv
<1> QED BY <1>1, FlowInvInitially, FlowInvStep, PTL DEF FlowSpec

\* A truck that was never requeued is forfeited only once its grace window is
\* over, whichever of the run's timer, a late or repeated start, the sweep and a
\* late arrival comes first (ForfeitCallUp, ReconcileCallUps, Arrive).
THEOREM FirstGraceKept == FlowSpec => FirstGraceHonoured
<1>1. FlowInv /\ [FlowNext]_flowVars =>
        [\A q \in Requests \ requeued :
           /\ rows[q].status \in {"CALLED_UP", "EN_ROUTE"}
           /\ rows'[q].status = "FORFEITED"
           => now >= rows[q].grace]_flowVars
  BY ForfeitsElapsed
<1> QED BY <1>1, FlowInvInitially, FlowInvStep, PTL DEF FlowSpec, FirstGraceHonoured
=============================================================================
