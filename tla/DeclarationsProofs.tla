-------------------------- MODULE DeclarationsProofs --------------------------
(***************************************************************************)
(* Proof that the revisions of a declaration form one chain with one live  *)
(* end, whatever assessments are under way, and that the revision a        *)
(* booking was matched against stays that end; and that a clearance is     *)
(* earned, with the duty of the row's content, as long as no intermediate  *)
(* result of the duty leaves an int64 (FitsWidth).                         *)
(*                                                                         *)
(* The steps are sorted by what they do to customs_declarations: keep it,  *)
(* move one live row, insert a first revision, or insert an amendment and  *)
(* supersede its head.  Each kind keeps the first two properties.          *)
(***************************************************************************)
EXTENDS Declarations, TLAPS

\* One row that is neither cleared nor superseded changes, and stays in its
\* place of the chain.
RowMoved ==
    \E d \in Ids, row \in DeclRow :
        /\ decls[d] # None /\ decls[d].status \notin {"CLEARED", "SUPERSEDED"}
        /\ row.ref = decls[d].ref /\ row.revision = decls[d].revision
        /\ row.supersedes = decls[d].supersedes /\ row.trader = decls[d].trader
        /\ row.status # "SUPERSEDED"
        /\ decls' = [decls EXCEPT ![d] = row]

\* A first revision of a reference without a live one.
RowInserted ==
    \E d \in Ids, row \in DeclRow :
        /\ decls[d] = None
        /\ row.revision = 1 /\ row.supersedes = None /\ row.status # "SUPERSEDED"
        /\ \A e \in Rows : decls[e].ref = row.ref => decls[e].status = "SUPERSEDED"
        /\ decls' = [decls EXCEPT ![d] = row]

\* The next revision of a head that is neither cleared nor superseded.
RowAmended ==
    \E h, d \in Ids, old, new \in DeclRow :
        /\ decls[h] # None /\ decls[h].status \notin {"CLEARED", "SUPERSEDED"}
        /\ decls[d] = None
        /\ old.ref = decls[h].ref /\ old.revision = decls[h].revision
        /\ old.supersedes = decls[h].supersedes /\ old.trader = decls[h].trader
        /\ old.status = "SUPERSEDED"
        /\ new.ref = decls[h].ref /\ new.revision = decls[h].revision + 1
        /\ new.supersedes = h /\ new.trader = decls[h].trader
        /\ new.status # "SUPERSEDED"
        /\ decls' = [decls EXCEPT ![h] = old, ![d] = new]

RowsTyped ==
    /\ decls \in [Ids -> DeclRow \union {None}]
    /\ calls \in [Ids -> DeclCall \union {None}]
    /\ matched \subseteq Refs \X Ids
    /\ \A d \in Ids : calls[d] # None => decls[d] # None

-----------------------------------------------------------------------------
(* The kinds of steps.                                                     *)

LEMMA RowIsNotNone == \A row \in DeclRow : row # None
BY RowAssumptions

LEMMA CallIsNotNone == \A call \in DeclCall : call # None
BY RowAssumptions

\* Every lane has a status, and none of them is SUPERSEDED.
LEMMA LaneStatusTyped ==
    \A lane \in Lanes : LaneStatus(lane) \in Status \ {"SUPERSEDED"}
BY DEF Lanes, LaneStatus, Status

LEMMA NewRowTyped ==
    ASSUME NEW r \in Refs, NEW n \in Nat, NEW s \in Ids \union {None}, NEW q \in Requests \X Nat,
           NEW t \in Traders, NEW k \in Contents
    PROVE  /\ NewRow(r, n, s, q, t, k) \in DeclRow
           /\ NewRow(r, n, s, q, t, k).ref = r /\ NewRow(r, n, s, q, t, k).revision = n
           /\ NewRow(r, n, s, q, t, k).supersedes = s /\ NewRow(r, n, s, q, t, k).trader = t
           /\ NewRow(r, n, s, q, t, k).status = "DRAFT"
<1>1. "DRAFT" \in Status /\ -1 \in Duties
  BY DEF Status, Duties
<1> QED BY <1>1 DEF NewRow, DeclRow

LEMMA CreateInserts ==
    ASSUME RowsTyped, NEW d \in Ids, NEW r \in Refs, NEW q \in Requests, NEW t \in Traders, NEW k \in Contents,
           Create(d, r, <<q, 0>>, t, k)
    PROVE  RowInserted
<1> DEFINE row == NewRow(r, 1, None, <<q, 0>>, t, k)
<1>1. decls' = [decls EXCEPT ![d] = row] /\ decls[d] = None /\ Live(r) = {}
  BY DEF Create, Insertable
<1>2. /\ row \in DeclRow /\ row.ref = r /\ row.revision = 1
      /\ row.supersedes = None /\ row.status = "DRAFT"
  BY NewRowTyped
<1>3. \A e \in Rows : decls[e].ref = r => decls[e].status = "SUPERSEDED"
  BY <1>1 DEF Live
<1> HIDE DEF row
<1> QED BY <1>1, <1>2, <1>3 DEF RowInserted

LEMMA AmendAmends ==
    ASSUME RowsTyped, NEW h \in Ids, NEW d \in Ids, NEW q \in Requests, NEW t \in Traders, NEW k \in Contents,
           Amend(h, d, q, t, k)
    PROVE  RowAmended
<1> DEFINE head == decls[h]
           request == IF head.request = <<q, 0>> THEN <<q, head.revision + 1>> ELSE <<q, 0>>
           old == [head EXCEPT !.status = "SUPERSEDED", !.version = @ + 1]
           new == NewRow(head.ref, head.revision + 1, h, request, t, k)
<1>1. /\ head # None /\ head.trader = t /\ head.status \notin {"CLEARED", "SUPERSEDED"}
      /\ decls[d] = None
      /\ decls' = [decls EXCEPT ![h].status = "SUPERSEDED", ![h].version = @ + 1, ![d] = new]
  BY DEF Amend, Rows, Amendable, Insertable
<1>2. head \in DeclRow
  BY <1>1 DEF RowsTyped
<1>3. head.ref \in Refs /\ head.revision \in Nat /\ head.revision + 1 \in Nat /\ head.version + 1 \in Nat
  BY <1>2 DEF DeclRow
<1>4. request \in Requests \X Nat
  BY <1>3
<1> HIDE DEF request
<1>5. /\ new \in DeclRow /\ new.ref = head.ref /\ new.revision = head.revision + 1
      /\ new.supersedes = h /\ new.trader = t /\ new.status = "DRAFT"
  BY <1>3, <1>4, NewRowTyped
<1> HIDE DEF new
<1>6. "SUPERSEDED" \in Status
  BY DEF Status
<1>7. /\ old \in DeclRow /\ old.ref = head.ref /\ old.revision = head.revision
      /\ old.supersedes = head.supersedes /\ old.trader = head.trader /\ old.status = "SUPERSEDED"
  BY <1>2, <1>3, <1>6 DEF DeclRow
<1>8. decls' = [decls EXCEPT ![h] = old, ![d] = new]
  <2>1. h # d
    BY <1>1
  <2>2. [decls EXCEPT ![h].status = "SUPERSEDED", ![h].version = @ + 1] = [decls EXCEPT ![h] = old]
    BY DEF RowsTyped
  <2> QED BY <1>1, <2>1, <2>2 DEF RowsTyped
<1> HIDE DEF old
<1>9. /\ decls[h] # None /\ decls[h].status \notin {"CLEARED", "SUPERSEDED"} /\ decls[d] = None
      /\ old \in DeclRow /\ new \in DeclRow
      /\ old.ref = decls[h].ref /\ old.revision = decls[h].revision
      /\ old.supersedes = decls[h].supersedes /\ old.trader = decls[h].trader
      /\ old.status = "SUPERSEDED"
      /\ new.ref = decls[h].ref /\ new.revision = decls[h].revision + 1
      /\ new.supersedes = h /\ new.trader = decls[h].trader
      /\ new.status # "SUPERSEDED"
      /\ decls' = [decls EXCEPT ![h] = old, ![d] = new]
  BY <1>1, <1>5, <1>7, <1>8
<1> HIDE DEF head
<1> QED BY <1>9, Zenon DEF RowAmended

LEMMA SubmitMoves ==
    ASSUME RowsTyped, NEW d \in Ids, NEW t \in Traders, Submit(d, t)
    PROVE  RowMoved
<1> DEFINE row == [decls[d] EXCEPT !.status = "SUBMITTED", !.version = @ + 1,
                                    !.duty = CalculateDuty(decls[d].content)]
<1>1. /\ decls[d] # None /\ decls[d].status = "DRAFT"
      /\ decls' = [decls EXCEPT ![d].status = "SUBMITTED", ![d].version = @ + 1,
                                ![d].duty = CalculateDuty(decls[d].content)]
  BY DEF Submit, Rows
<1>2. decls[d] \in DeclRow
  BY <1>1 DEF RowsTyped
<1>3. "SUBMITTED" \in Status /\ decls[d].content \in Contents /\ decls[d].version + 1 \in Nat
  BY <1>2 DEF Status, DeclRow
<1>6. CalculateDuty(decls[d].content) \in Duties
  BY <1>3 DEF Duties
<1>4. /\ row \in DeclRow /\ row.ref = decls[d].ref /\ row.revision = decls[d].revision
      /\ row.supersedes = decls[d].supersedes /\ row.trader = decls[d].trader /\ row.status = "SUBMITTED"
  BY <1>2, <1>3, <1>6 DEF DeclRow
<1>5. decls' = [decls EXCEPT ![d] = row]
  BY <1>1 DEF RowsTyped
<1> HIDE DEF row
<1> QED BY <1>1, <1>4, <1>5 DEF RowMoved

\* The answer is applied to a row only while it is the SUBMITTED version that
\* was read: this is where a late answer would break the chain.
LEMMA AssessMoves ==
    ASSUME RowsTyped, NEW d \in Ids, AssessRisk(d)
    PROVE  RowMoved \/ decls' = decls
<1> DEFINE call == calls[d]
           lane == ApplyAEOClaimGuard(
                      AssignRiskLane(call.answer.score, call.answer.sanctioned, decls[d].content, call.verified),
                      decls[d].content.claimsAEO, call.verified)
           status == IF call.answer = None THEN "SCORING_UNAVAILABLE" ELSE LaneStatus(lane)
           row == [decls[d] EXCEPT !.status = status, !.version = @ + 1,
                                    !.verdict = call.answer, !.verified = call.verified]
<1>1. lane \in Lanes
  BY DEF ApplyAEOClaimGuard, AssignRiskLane, Lanes
<1>2. status \in Status \ {"SUPERSEDED"}
  <2> HIDE DEF lane
  <2>1. "SCORING_UNAVAILABLE" \in Status \ {"SUPERSEDED"}
    BY DEF Status
  <2> QED BY <1>1, <2>1, LaneStatusTyped
<1>3. /\ call # None
      /\ IF Current(d)
           THEN decls' = [decls EXCEPT ![d].status = status, ![d].version = @ + 1,
                                       ![d].verdict = call.answer, ![d].verified = call.verified]
           ELSE decls' = decls
  BY DEF AssessRisk
<1> HIDE DEF status
<1>4. CASE ~Current(d)
  BY <1>3, <1>4
<1>5. CASE Current(d)
  <2>1. call \in DeclCall /\ call.answer \in Answers \union {None} /\ call.verified \in BOOLEAN
    BY <1>3 DEF RowsTyped, DeclCall
  <2>2. decls[d].status = "SUBMITTED"
    BY <1>5 DEF Current
  <2>3. decls[d] # None
    BY <1>3 DEF RowsTyped
  <2>4. decls[d] \in DeclRow
    BY <2>3 DEF RowsTyped
  <2>7. decls[d].version + 1 \in Nat
    BY <2>4 DEF DeclRow
  <2>5. /\ row \in DeclRow /\ row.ref = decls[d].ref /\ row.revision = decls[d].revision
        /\ row.supersedes = decls[d].supersedes /\ row.trader = decls[d].trader /\ row.status = status
    <3>1. PICK b \in BOOLEAN, a \in Answers \union {None}, v \in Nat, st \in Status :
             b = call.verified /\ a = call.answer /\ v = decls[d].version + 1 /\ st = status
      BY <1>2, <2>1, <2>7, Zenon
    <3>2. row = [decls[d] EXCEPT !.status = st, !.version = v, !.verdict = a, !.verified = b]
      BY <3>1, Zenon
    <3> HIDE DEF row
    <3>3. row \in DeclRow
      BY <2>4, <3>2 DEF DeclRow
    <3>4. /\ row.ref = decls[d].ref /\ row.revision = decls[d].revision
          /\ row.supersedes = decls[d].supersedes /\ row.trader = decls[d].trader /\ row.status = st
      BY <2>4, <3>2 DEF DeclRow
    <3> QED BY <3>1, <3>3, <3>4
  <2>6. decls' = [decls EXCEPT ![d] = row]
    BY <1>3, <1>5 DEF RowsTyped
  <2> HIDE DEF row
  <2> QED BY <2>2, <2>3, <2>5, <2>6, <1>2 DEF RowMoved
<1> QED BY <1>4, <1>5

-----------------------------------------------------------------------------
(* What the steps keep.                                                    *)

\* RevisionChain row by row, with what it leaves out: a superseded revision
\* is a row, and revisions count from one.
Linked ==
    \A d \in Ids : decls[d] # None =>
        /\ decls[d].revision >= 1
        /\ decls[d].revision = 1 <=> decls[d].supersedes = None
        /\ decls[d].supersedes # None =>
             /\ decls[decls[d].supersedes] # None
             /\ decls[decls[d].supersedes].ref = decls[d].ref
             /\ decls[decls[d].supersedes].trader = decls[d].trader
             /\ decls[decls[d].supersedes].revision = decls[d].revision - 1
             /\ decls[decls[d].supersedes].status = "SUPERSEDED"

OneLive ==
    \A d, e \in Ids : decls[d] # None /\ decls[e] # None /\ d # e /\ decls[d].ref = decls[e].ref =>
        decls[d].status = "SUPERSEDED" \/ decls[e].status = "SUPERSEDED"

MatchCleared ==
    \A m \in matched :
        decls[m[2]] # None /\ decls[m[2]].ref = m[1] /\ decls[m[2]].status = "CLEARED"

ChainInv == RowsTyped /\ Linked /\ OneLive /\ MatchCleared

Kept == decls' = decls \/ RowMoved \/ RowInserted \/ RowAmended

LEMMA KeepsTypes ==
    ASSUME RowsTyped, Kept
    PROVE  /\ decls' \in [Ids -> DeclRow \union {None}]
           /\ \A d \in Ids : decls[d] # None => decls'[d] # None
<1>1. CASE decls' = decls
  BY <1>1 DEF RowsTyped
<1>2. CASE RowMoved
  BY <1>2, RowIsNotNone DEF RowsTyped, RowMoved
<1>3. CASE RowInserted
  BY <1>3, RowIsNotNone DEF RowsTyped, RowInserted
<1>4. CASE RowAmended
  BY <1>4, RowIsNotNone DEF RowsTyped, RowAmended
<1> QED BY <1>1, <1>2, <1>3, <1>4 DEF Kept

\* The row a field is read from, in types.
LEMMA RowFields ==
    ASSUME RowsTyped, NEW d \in Ids, decls[d] # None
    PROVE  decls[d].revision \in Nat /\ decls[d].supersedes \in Ids \union {None}
BY DEF RowsTyped, DeclRow

LEMMA MovedKeeps ==
    ASSUME RowsTyped, Linked, OneLive, RowMoved
    PROVE  Linked' /\ OneLive'
<1>1. PICK x \in Ids, row \in DeclRow :
        /\ decls[x] # None /\ decls[x].status \notin {"CLEARED", "SUPERSEDED"}
        /\ row.ref = decls[x].ref /\ row.revision = decls[x].revision
        /\ row.supersedes = decls[x].supersedes /\ row.trader = decls[x].trader
        /\ row.status # "SUPERSEDED"
        /\ decls' = [decls EXCEPT ![x] = row]
  BY DEF RowMoved
<1>2. decls'[x] = row /\ row # None /\ \A e \in Ids \ {x} : decls'[e] = decls[e]
  BY <1>1, RowIsNotNone DEF RowsTyped
<1>3. OneLive'
  BY <1>1, <1>2 DEF OneLive
<1>4. Linked'
  <2> SUFFICES ASSUME NEW d \in Ids, decls'[d] # None
               PROVE  /\ decls'[d].revision >= 1
                      /\ decls'[d].revision = 1 <=> decls'[d].supersedes = None
                      /\ decls'[d].supersedes # None =>
                           /\ decls'[decls'[d].supersedes] # None
                           /\ decls'[decls'[d].supersedes].ref = decls'[d].ref
                           /\ decls'[decls'[d].supersedes].trader = decls'[d].trader
                           /\ decls'[decls'[d].supersedes].revision = decls'[d].revision - 1
                           /\ decls'[decls'[d].supersedes].status = "SUPERSEDED"
    BY DEF Linked
  <2>1. decls[d] # None /\ decls'[d].revision = decls[d].revision /\ decls'[d].supersedes = decls[d].supersedes
        /\ decls'[d].ref = decls[d].ref /\ decls'[d].trader = decls[d].trader
    BY <1>1, <1>2
  <2>2. decls[d].supersedes # None => decls[d].supersedes \in Ids \ {x}
    BY <1>1, <2>1, RowFields DEF Linked
  <2> QED BY <1>2, <2>1, <2>2 DEF Linked
<1> QED BY <1>3, <1>4

LEMMA InsertedKeeps ==
    ASSUME RowsTyped, Linked, OneLive, RowInserted
    PROVE  Linked' /\ OneLive'
<1>1. PICK x \in Ids, row \in DeclRow :
        /\ decls[x] = None
        /\ row.revision = 1 /\ row.supersedes = None /\ row.status # "SUPERSEDED"
        /\ \A e \in Rows : decls[e].ref = row.ref => decls[e].status = "SUPERSEDED"
        /\ decls' = [decls EXCEPT ![x] = row]
  BY DEF RowInserted
<1>2. decls'[x] = row /\ row # None /\ \A e \in Ids \ {x} : decls'[e] = decls[e]
  BY <1>1, RowIsNotNone DEF RowsTyped
<1>3. OneLive'
  BY <1>1, <1>2 DEF OneLive, Rows
<1>4. Linked'
  <2> SUFFICES ASSUME NEW d \in Ids, decls'[d] # None
               PROVE  /\ decls'[d].revision >= 1
                      /\ decls'[d].revision = 1 <=> decls'[d].supersedes = None
                      /\ decls'[d].supersedes # None =>
                           /\ decls'[decls'[d].supersedes] # None
                           /\ decls'[decls'[d].supersedes].ref = decls'[d].ref
                           /\ decls'[decls'[d].supersedes].trader = decls'[d].trader
                           /\ decls'[decls'[d].supersedes].revision = decls'[d].revision - 1
                           /\ decls'[decls'[d].supersedes].status = "SUPERSEDED"
    BY DEF Linked
  <2>1. CASE d = x
    BY <1>1, <1>2, <2>1
  <2>2. CASE d # x
    <3>1. decls'[d] = decls[d] /\ decls[d] # None
      BY <1>2, <2>2
    <3>2. decls[d].supersedes # None => decls[d].supersedes \in Ids \ {x}
      BY <1>1, <3>1, RowFields DEF Linked
    <3> QED BY <1>2, <3>1, <3>2 DEF Linked
  <2> QED BY <2>1, <2>2
<1> QED BY <1>3, <1>4

LEMMA AmendedKeeps ==
    ASSUME RowsTyped, Linked, OneLive, RowAmended
    PROVE  Linked' /\ OneLive'
<1>1. PICK h \in Ids, x \in Ids, old \in DeclRow, new \in DeclRow :
        /\ decls[h] # None /\ decls[h].status \notin {"CLEARED", "SUPERSEDED"}
        /\ decls[x] = None
        /\ old.ref = decls[h].ref /\ old.revision = decls[h].revision
        /\ old.supersedes = decls[h].supersedes /\ old.trader = decls[h].trader
        /\ old.status = "SUPERSEDED"
        /\ new.ref = decls[h].ref /\ new.revision = decls[h].revision + 1
        /\ new.supersedes = h /\ new.trader = decls[h].trader
        /\ new.status # "SUPERSEDED"
        /\ decls' = [decls EXCEPT ![h] = old, ![x] = new]
  BY DEF RowAmended
<1>2. /\ h # x /\ decls'[h] = old /\ decls'[x] = new /\ old # None /\ new # None
      /\ \A e \in Ids \ {h, x} : decls'[e] = decls[e]
  BY <1>1, RowIsNotNone DEF RowsTyped
<1>3. OneLive'
  <2>1. \A e \in Ids \ {h, x} : decls[e] # None /\ decls[e].ref = decls[h].ref => decls[e].status = "SUPERSEDED"
    BY <1>1 DEF OneLive
  <2> SUFFICES ASSUME NEW d \in Ids, NEW e \in Ids, decls'[d] # None, decls'[e] # None, d # e,
                      decls'[d].ref = decls'[e].ref
               PROVE  decls'[d].status = "SUPERSEDED" \/ decls'[e].status = "SUPERSEDED"
    BY DEF OneLive
  <2>2. CASE d = h \/ e = h
    BY <1>1, <1>2, <2>2
  <2>3. CASE d # h /\ e # h /\ (d = x \/ e = x)
    <3>1. CASE d = x
      <4>1. e \in Ids \ {h, x} /\ decls'[e] = decls[e] /\ decls[e].ref = decls[h].ref
        BY <1>1, <1>2, <2>3, <3>1
      <4> QED BY <2>1, <4>1
    <3>2. CASE e = x
      <4>1. d \in Ids \ {h, x} /\ decls'[d] = decls[d] /\ decls[d].ref = decls[h].ref
        BY <1>1, <1>2, <2>3, <3>2
      <4> QED BY <2>1, <4>1
    <3> QED BY <2>3, <3>1, <3>2
  <2>4. CASE d \notin {h, x} /\ e \notin {h, x}
    BY <1>2, <2>4 DEF OneLive
  <2> QED BY <2>2, <2>3, <2>4
<1>4. Linked'
  <2> SUFFICES ASSUME NEW d \in Ids, decls'[d] # None
               PROVE  /\ decls'[d].revision >= 1
                      /\ decls'[d].revision = 1 <=> decls'[d].supersedes = None
                      /\ decls'[d].supersedes # None =>
                           /\ decls'[decls'[d].supersedes] # None
                           /\ decls'[decls'[d].supersedes].ref = decls'[d].ref
                           /\ decls'[decls'[d].supersedes].trader = decls'[d].trader
                           /\ decls'[decls'[d].supersedes].revision = decls'[d].revision - 1
                           /\ decls'[decls'[d].supersedes].status = "SUPERSEDED"
    BY DEF Linked
  <2>1. decls[h].revision \in Nat /\ decls[h].revision >= 1 /\ h # None
    BY <1>1, RowFields, DeclAssumptions DEF Linked
  <2>2. CASE d = x
    BY <1>1, <1>2, <2>1, <2>2
  <2>3. CASE d # x
    <3>1. decls[d] # None /\ decls'[d].revision = decls[d].revision /\ decls'[d].supersedes = decls[d].supersedes
          /\ decls'[d].ref = decls[d].ref /\ decls'[d].trader = decls[d].trader
      BY <1>1, <1>2, <2>3
    <3>2. decls[d].supersedes # None => decls[d].supersedes \in Ids \ {h, x}
      BY <1>1, <3>1, RowFields DEF Linked
    <3> QED BY <1>2, <3>1, <3>2 DEF Linked
  <2> QED BY <2>2, <2>3
<1> QED BY <1>3, <1>4

\* A matched row is cleared, and no step touches a cleared row.
LEMMA MatchesKept ==
    ASSUME RowsTyped, MatchCleared, Kept, NEW m \in matched
    PROVE  decls'[m[2]] # None /\ decls'[m[2]].ref = m[1] /\ decls'[m[2]].status = "CLEARED"
<1>1. m[2] \in Ids /\ decls[m[2]] # None /\ decls[m[2]].ref = m[1] /\ decls[m[2]].status = "CLEARED"
  BY DEF RowsTyped, MatchCleared
<1>2. decls'[m[2]] = decls[m[2]]
  <2>1. CASE decls' = decls
    BY <2>1
  <2>2. CASE RowMoved
    BY <1>1, <2>2 DEF RowMoved, RowsTyped
  <2>3. CASE RowInserted
    BY <1>1, <2>3 DEF RowInserted, RowsTyped
  <2>4. CASE RowAmended
    BY <1>1, <2>4 DEF RowAmended, RowsTyped
  <2> QED BY <2>1, <2>2, <2>3, <2>4 DEF Kept
<1> QED BY <1>1, <1>2

LEMMA KeptKeepsChain ==
    ASSUME RowsTyped, Linked, OneLive, Kept
    PROVE  Linked' /\ OneLive'
<1>1. CASE decls' = decls
  BY <1>1 DEF Linked, OneLive
<1> QED BY <1>1, MovedKeeps, InsertedKeeps, AmendedKeeps DEF Kept

-----------------------------------------------------------------------------
(* The steps of the specification.                                         *)

\* A step that leaves the matches and keeps the calls to rows.
LEMMA StepKeepsInv ==
    ASSUME ChainInv, Kept, calls' \in [Ids -> DeclCall \union {None}],
           \A d \in Ids : calls'[d] # None => decls'[d] # None,
           matched' = matched
    PROVE  ChainInv'
<1>1. RowsTyped'
  BY KeepsTypes DEF ChainInv, RowsTyped
<1>2. MatchCleared'
  BY MatchesKept DEF ChainInv, MatchCleared
<1> QED BY <1>1, <1>2, KeptKeepsChain DEF ChainInv

\* The booking side reads the one live revision, which is cleared.
LEMMA MatchOfHead ==
    ASSUME ChainInv, NEW r \in Refs, NEW w \in Weights, NEW p \in Parties, CustomsMatch(r, w, p)
    PROVE  ChainInv'
<1>1. PICK x \in Ids : x \in Live(r)
  BY DEF CustomsMatch, Live, Rows
<1>2. Live(r) = {x}
  BY <1>1 DEF ChainInv, OneLive, Live, Rows
<1>3. decls[x].revision \in Nat
  BY <1>1, RowFields DEF ChainInv, Live, Rows
<1>4. HeadByRef(r) = x
  BY <1>2, <1>3 DEF HeadByRef
<1>5. /\ decls[x].status = "CLEARED" /\ matched' = matched \union {<<r, x>>}
      /\ decls' = decls /\ calls' = calls
  BY <1>4 DEF CustomsMatch, Evaluate
<1>6. decls[x] # None /\ decls[x].ref = r
  BY <1>1 DEF Live, Rows
<1>7. RowsTyped'
  BY <1>5 DEF ChainInv, RowsTyped
<1>8. MatchCleared'
  BY <1>5, <1>6 DEF ChainInv, MatchCleared
<1> QED BY <1>5, <1>7, <1>8 DEF ChainInv, Linked, OneLive

LEMMA ChainInductive == ChainInv /\ [DeclNext]_declVars => ChainInv'
<1> SUFFICES ASSUME ChainInv, [DeclNext]_declVars PROVE ChainInv'
  OBVIOUS
<1>t. RowsTyped
  BY DEF ChainInv
<1>u. ASSUME Kept, calls' = calls, matched' = matched PROVE ChainInv'
  <2>1. \A d \in Ids : calls'[d] # None => decls'[d] # None
    BY <1>t, <1>u, KeepsTypes DEF RowsTyped
  <2> QED BY <1>t, <1>u, <2>1, StepKeepsInv DEF RowsTyped
<1>c. ASSUME decls' = decls, NEW d \in Ids, NEW call \in DeclCall \union {None}, decls[d] # None,
             calls' = [calls EXCEPT ![d] = call], matched' = matched
      PROVE  ChainInv'
  <2>1. calls' \in [Ids -> DeclCall \union {None}] /\ \A e \in Ids : calls'[e] # None => decls'[e] # None
    BY <1>t, <1>c DEF RowsTyped
  <2> QED BY <1>c, <2>1, StepKeepsInv DEF Kept
<1>1. ASSUME NEW d \in Ids, NEW r \in Refs, NEW q \in Requests, NEW t \in Traders, NEW k \in Contents,
             Create(d, r, <<q, 0>>, t, k)
      PROVE  ChainInv'
  BY <1>t, <1>u, <1>1, CreateInserts DEF Create, Kept
<1>2. ASSUME NEW h \in Ids, NEW d \in Ids, NEW q \in Requests, NEW t \in Traders, NEW k \in Contents,
             Amend(h, d, q, t, k)
      PROVE  ChainInv'
  BY <1>t, <1>u, <1>2, AmendAmends DEF Amend, Kept
<1>3. ASSUME NEW d \in Ids, RegisterPermit(d) PROVE ChainInv'
  BY <1>u, <1>3 DEF RegisterPermit, Kept
<1>4. ASSUME NEW d \in Ids, NEW answer, AgencyDecides(d, answer) PROVE ChainInv'
  BY <1>u, <1>4 DEF AgencyDecides, Kept
<1>5. ASSUME NEW d \in Ids, NEW t \in Traders, Submit(d, t) PROVE ChainInv'
  <2> DEFINE call == [stage |-> "submitted", version |-> decls[d].version + 1, verified |-> FALSE, answer |-> None]
  <2>1. RowMoved
    BY <1>t, <1>5, SubmitMoves
  <2>2. decls[d] # None /\ calls' = [calls EXCEPT ![d] = call] /\ matched' = matched
    BY <1>5 DEF Submit, Rows
  <2>3. decls[d].version + 1 \in Nat
    BY <1>t, <2>2 DEF RowsTyped, DeclRow
  <2>4. call \in DeclCall
    BY <2>3 DEF DeclCall
  <2> HIDE DEF call
  <2>5. calls' \in [Ids -> DeclCall \union {None}]
    BY <1>t, <2>2, <2>4 DEF RowsTyped
  <2>6. \A e \in Ids : decls[e] # None => decls'[e] # None
    BY <1>t, <2>1, KeepsTypes DEF Kept
  <2>7. \A e \in Ids : calls'[e] # None => decls'[e] # None
    BY <1>t, <2>2, <2>6 DEF RowsTyped
  <2> QED BY <2>1, <2>2, <2>5, <2>7, StepKeepsInv DEF Kept
<1>6. ASSUME NEW d \in Ids, Snapshot(d) PROVE ChainInv'
  <2> DEFINE call == IF Current(d) THEN [calls[d] EXCEPT !.stage = "read"] ELSE None
  <2>1. /\ calls[d] # None /\ calls' = [calls EXCEPT ![d] = call]
        /\ decls' = decls /\ matched' = matched
    BY <1>6 DEF Snapshot
  <2>2. decls[d] # None /\ calls[d] \in DeclCall
    BY <1>t, <2>1 DEF RowsTyped
  <2>3. call \in DeclCall \union {None}
    BY <2>2 DEF DeclCall
  <2> HIDE DEF call
  <2> QED BY <1>c, <2>1, <2>2, <2>3
<1>7. ASSUME NEW d \in Ids, NEW answer \in Answers \union {None}, NEW verified \in BOOLEAN,
             Score(d, answer, verified)
      PROVE  ChainInv'
  <2> DEFINE heard == IF answer = None THEN None ELSE IF validateScorerVerdict(answer) THEN answer ELSE None
             call == [calls[d] EXCEPT !.stage = "scored", !.verified = verified, !.answer = heard]
  <2>1. /\ calls[d] # None /\ calls' = [calls EXCEPT ![d] = call]
        /\ decls' = decls /\ matched' = matched
    BY <1>7 DEF Score
  <2>2. decls[d] # None /\ calls[d] \in DeclCall
    BY <1>t, <2>1 DEF RowsTyped
  <2>3. heard \in Answers \union {None}
    OBVIOUS
  <2> HIDE DEF heard
  <2>4. call \in DeclCall
    BY <2>2, <2>3 DEF DeclCall
  <2> HIDE DEF call
  <2> QED BY <1>c, <2>1, <2>2, <2>4
<1>8. ASSUME NEW d \in Ids, AssessRisk(d) PROVE ChainInv'
  <2>1. calls' = [calls EXCEPT ![d] = None] /\ matched' = matched
    BY <1>8 DEF AssessRisk
  <2>2. Kept
    BY <1>t, <1>8, AssessMoves DEF Kept
  <2>3. \A e \in Ids : decls[e] # None => decls'[e] # None
    BY <1>t, <2>2, KeepsTypes
  <2>4. calls' \in [Ids -> DeclCall \union {None}] /\ \A e \in Ids : calls'[e] # None => decls'[e] # None
    BY <1>t, <2>1, <2>3 DEF RowsTyped
  <2> QED BY <2>1, <2>2, <2>4, StepKeepsInv
<1>9. ASSUME NEW d \in Ids, CallLost(d) PROVE ChainInv'
  BY <1>t, <1>c, <1>9 DEF CallLost, RowsTyped
<1>10. ASSUME NEW r \in Refs, NEW w \in Weights, NEW p \in Parties, CustomsMatch(r, w, p) PROVE ChainInv'
  BY <1>10, MatchOfHead
<1>11. CASE UNCHANGED declVars
  BY <1>u, <1>11 DEF declVars, Kept
<1> QED BY <1>1, <1>2, <1>3, <1>4, <1>5, <1>6, <1>7, <1>8, <1>9, <1>10, <1>11 DEF DeclNext

LEMMA ChainInitial == DeclInit => ChainInv
BY DEF DeclInit, ChainInv, RowsTyped, Linked, OneLive, MatchCleared

LEMMA ChainImplies == ChainInv => RevisionChain /\ MatchNeverStale
<1> SUFFICES ASSUME ChainInv PROVE RevisionChain /\ MatchNeverStale
  OBVIOUS
<1>1. RevisionChain
  BY DEF ChainInv, Linked, OneLive, RevisionChain, Rows
<1>2. ASSUME NEW m \in matched PROVE Live(m[1]) = {m[2]} /\ decls[m[2]].status = "CLEARED"
  <2>1. m[2] \in Ids /\ decls[m[2]] # None /\ decls[m[2]].ref = m[1] /\ decls[m[2]].status = "CLEARED"
    BY DEF ChainInv, RowsTyped, MatchCleared
  <2> QED BY <2>1 DEF ChainInv, OneLive, Live, Rows
<1> QED BY <1>1, <1>2 DEF MatchNeverStale

\* The revisions of a reference form one chain with one live end, whatever
\* assessments and amendments overlap (Amend, AssessRisk).
THEOREM RevisionsChained == DeclSpec => []RevisionChain
BY ChainInitial, ChainInductive, ChainImplies, PTL DEF DeclSpec

\* A revision a booking was matched against stays the live, cleared one.
THEOREM MatchesStayFresh == DeclSpec => []MatchNeverStale
BY ChainInitial, ChainInductive, ChainImplies, PTL DEF DeclSpec

\* The permits and the certificates, which the chain does not depend on.
SideTyped ==
    /\ permits \in [Ids -> {"NONE", "PENDING", "APPROVED", "REJECTED", "LAPSED"}]
    /\ certs \subseteq Ids

LEMMA SideInductive == SideTyped /\ [DeclNext]_declVars => SideTyped'
<1> SUFFICES ASSUME SideTyped, [DeclNext]_declVars PROVE SideTyped'
  OBVIOUS
<1>1. ASSUME NEW d \in Ids, RegisterPermit(d) PROVE SideTyped'
  BY <1>1 DEF RegisterPermit, SideTyped
<1>2. ASSUME NEW d \in Ids, NEW answer \in {"APPROVED", "REJECTED", "LAPSED"}, AgencyDecides(d, answer)
      PROVE  SideTyped'
  BY <1>2 DEF AgencyDecides, SideTyped
<1>3. ASSUME NEW d \in Ids, AssessRisk(d) PROVE SideTyped'
  <2>1. permits' = permits /\ (certs' = certs \/ certs' = certs \union {d})
    BY <1>3 DEF AssessRisk
  <2> QED BY <2>1 DEF SideTyped
<1>4. ASSUME permits' = permits, certs' = certs PROVE SideTyped'
  BY <1>4 DEF SideTyped
<1>5. CASE \E d \in Ids, r \in Refs, q \in Requests, t \in Traders, k \in Contents : Create(d, r, <<q, 0>>, t, k)
  BY <1>4, <1>5 DEF Create
<1>6. CASE \E h, d \in Ids, q \in Requests, t \in Traders, k \in Contents : Amend(h, d, q, t, k)
  BY <1>4, <1>6 DEF Amend
<1>7. ASSUME NEW d \in Ids,
             \/ \E t \in Traders : Submit(d, t)
             \/ Snapshot(d)
             \/ \E answer \in Answers \union {None}, verified \in BOOLEAN : Score(d, answer, verified)
             \/ CallLost(d)
      PROVE  SideTyped'
  BY <1>4, <1>7 DEF Submit, Snapshot, Score, CallLost
<1>8. CASE \E r \in Refs, w \in Weights, p \in Parties : CustomsMatch(r, w, p)
  BY <1>4, <1>8 DEF CustomsMatch
<1>9. CASE UNCHANGED declVars
  BY <1>4, <1>9 DEF declVars
<1> QED BY <1>1, <1>2, <1>3, <1>5, <1>6, <1>7, <1>8, <1>9 DEF DeclNext

\* Every row, permit, certificate, assessment and match keeps its type; in
\* particular an assessment writes no status the table does not have.
THEOREM DeclTyped == DeclSpec => []DeclTypeOK
<1>1. DeclInit => SideTyped
  BY DEF DeclInit, SideTyped
<1>2. ChainInv /\ SideTyped => DeclTypeOK
  BY DEF ChainInv, RowsTyped, SideTyped, DeclTypeOK
<1> QED BY <1>1, <1>2, SideInductive, ChainInitial, ChainInductive, PTL DEF DeclSpec

-----------------------------------------------------------------------------
(* A clearance is earned.                                                  *)

\* No intermediate result of the duty leaves the width of an int64.
FitsWidth(k) ==
    LET half == Scale \div 2
        duty == (k.amount * k.tariff + half) \div Scale
        base == k.amount + duty
        vat == (base * k.vat + half) \div Scale
    IN \A x \in {k.amount * k.tariff, k.amount * k.tariff + half, base, base * k.vat, base * k.vat + half, duty + vat} :
         Wrap(x) = x

LEMMA RoundedNat ==
    ASSUME NEW a \in Nat, NEW b \in Nat
    PROVE  /\ a * b \in Nat /\ a * b + Scale \div 2 \in Nat /\ (a * b + Scale \div 2) \div Scale \in Nat
           /\ Wrap(a * b) = a * b /\ Wrap(a * b + Scale \div 2) = a * b + Scale \div 2 =>
                applyBPS(a, b) = (a * b + Scale \div 2) \div Scale
<1>1. PICK c \in Nat : c = a * b
  OBVIOUS
<1>2. Scale \in Nat /\ Scale > 0 /\ Scale \div 2 \in Nat
  BY RulesAssumptions
<1>3. PICK h \in Nat : h = Scale \div 2
  BY <1>2
<1>4. c + h \in Nat /\ c + h >= 0 /\ (c + h) \div Scale \in Nat
  BY <1>2
<1>5. Quotient(c + h, Scale) = (c + h) \div Scale
  BY <1>4 DEF Quotient
<1>6. Wrap(c) = c /\ Wrap(c + h) = c + h => applyBPS(a, b) = (c + h) \div Scale
  BY <1>1, <1>3, <1>5 DEF applyBPS
<1> QED
  BY <1>1, <1>3, <1>4, <1>6

\* Where nothing wraps, the arithmetic of the code is the exact duty.
LEMMA DutyExact ==
    ASSUME NEW k \in Contents, FitsWidth(k)
    PROVE  CalculateDuty(k) = ExactDuty(k)
<1> DEFINE half == Scale \div 2
           duty == (k.amount * k.tariff + half) \div Scale
           base == k.amount + duty
           vat == (base * k.vat + half) \div Scale
<1>1. k.amount \in Nat /\ k.tariff \in Nat /\ k.vat \in Nat
  BY RulesAssumptions
<1>2. /\ Wrap(k.amount * k.tariff) = k.amount * k.tariff
      /\ Wrap(k.amount * k.tariff + half) = k.amount * k.tariff + half
      /\ Wrap(base) = base /\ Wrap(base * k.vat) = base * k.vat /\ Wrap(base * k.vat + half) = base * k.vat + half
      /\ Wrap(duty + vat) = duty + vat
  BY Zenon DEF FitsWidth
<1>3. duty \in Nat /\ applyBPS(k.amount, k.tariff) = duty
  BY <1>1, <1>2, RoundedNat
<1>4. base \in Nat
  <2> HIDE DEF duty
  <2> QED BY <1>1, <1>3
<1>5. applyBPS(base, k.vat) = vat
  <2> HIDE DEF base
  <2> QED BY <1>1, <1>2, <1>4, RoundedNat
<1>6. CalculateDuty(k) = duty + vat
  <2> HIDE DEF duty, vat
  <2> QED BY <1>2, <1>3, <1>5, Zenon DEF CalculateDuty
<1>7. ExactDuty(k) = duty + vat
  BY Zenon DEF ExactDuty
<1> QED
  BY <1>6, <1>7, Zenon

Surcharge(k) ==
    (IF k.highRisk THEN 20 ELSE 0) + (IF k.controlled THEN 15 ELSE 0)
        + (IF HighValue > 0 /\ k.amount > HighValue THEN 10 ELSE 0)

\* What a score has to be for a green lane.
Passed(k, v, verified) ==
    /\ v # None /\ v.score \in 0..100 /\ ~v.sanctioned
    /\ v.score + Surcharge(k) < 40 + (IF verified THEN 20 ELSE 0)
    /\ k.claimsAEO => verified

LEMMA GreenPassed ==
    ASSUME NEW k \in Contents, NEW v, v # None, v.score \in 0..100, NEW verified \in BOOLEAN,
           LaneStatus(ApplyAEOClaimGuard(AssignRiskLane(v.score, v.sanctioned, k, verified), k.claimsAEO, verified))
             = "CLEARED"
    PROVE  Passed(k, v, verified)
<1>1. PICK s \in Int : s = v.score /\ 0 <= s /\ s <= 100
  OBVIOUS
<1>2. PICK o \in {0, 20} : o = IF k.highRisk THEN 20 ELSE 0
  OBVIOUS
<1>3. PICK w \in {0, 10} : w = IF HighValue > 0 /\ k.amount > HighValue THEN 10 ELSE 0
  OBVIOUS
<1>4. PICK c \in {0, 15} : c = IF k.controlled THEN 15 ELSE 0
  OBVIOUS
<1> DEFINE guarded == ApplyAEOClaimGuard(AssignRiskLane(v.score, v.sanctioned, k, verified), k.claimsAEO, verified)
<1>5. guarded \in Lanes
  BY DEF ApplyAEOClaimGuard, AssignRiskLane, Lanes
<1>6. guarded = "GREEN"
  <2> HIDE DEF guarded
  <2>1. LaneStatus(guarded) = "CLEARED"
    BY DEF guarded
  <2> QED BY <1>5, <2>1 DEF LaneStatus, Lanes
<1>7. AssignRiskLane(v.score, v.sanctioned, k, verified) = "GREEN" /\ (k.claimsAEO => verified)
  BY <1>6 DEF ApplyAEOClaimGuard
<1> DEFINE goods == Least(100, Least(100, Least(100, s + o) + w) + c)
           adjusted == IF v.sanctioned THEN 100 ELSE IF verified THEN Most(0, goods - 20) ELSE goods
<1>8. AdjustedScore(v.score, v.sanctioned, k, verified) = adjusted
  <2>1. goods = Least(100, Least(100, Least(100, v.score + (IF k.highRisk THEN 20 ELSE 0))
                                        + (IF HighValue > 0 /\ k.amount > HighValue THEN 10 ELSE 0))
                             + (IF k.controlled THEN 15 ELSE 0))
    BY <1>1, <1>2, <1>3, <1>4
  <2> HIDE DEF goods
  <2> QED BY <2>1 DEF AdjustedScore
<1>9. goods \in Int /\ (goods < 60 => s + o + w + c = goods)
  BY <1>1 DEF Least
<1> HIDE DEF goods
<1>10. adjusted \in Int /\ adjusted < 40
  <2>1. adjusted \in Int
    BY <1>9 DEF Most
  <2> QED BY <1>7, <1>8, <2>1 DEF AssignRiskLane
<1>11. ~v.sanctioned
  BY <1>10
<1>12. verified => goods < 60
  BY <1>9, <1>10, <1>11 DEF Most
<1>13. ~verified => goods < 40
  BY <1>9, <1>10, <1>11
<1>14. s + o + w + c < 40 + (IF verified THEN 20 ELSE 0)
  BY <1>1, <1>9, <1>12, <1>13
<1>15. v.score + Surcharge(k) = s + o + w + c
  BY <1>1, <1>2, <1>3, <1>4 DEF Surcharge
<1> QED
  BY <1>7, <1>11, <1>14, <1>15 DEF Passed

\* A cleared row has passed; from its submission on it carries its duty.
Earned(row) ==
    /\ row.status = "CLEARED" => Passed(row.content, row.verdict, row.verified)
    /\ row.status \in {"SUBMITTED", "CLEARED"} => row.duty = CalculateDuty(row.content)

EarnedInv ==
    /\ certs = {d \in Ids : decls[d] # None /\ decls[d].status = "CLEARED"}
    /\ \A d \in Ids : decls[d] # None => Earned(decls[d])
    /\ \A d \in Ids : calls[d] # None /\ calls[d].answer # None => calls[d].answer.score \in 0..100

\* The answers waiting for the second transaction are well formed.
Heard(c) == \A d \in Ids : c[d] # None /\ c[d].answer # None => c[d].answer.score \in 0..100

LEMMA EarnedSame ==
    ASSUME EarnedInv, decls' = decls, certs' = certs, Heard(calls')
    PROVE  EarnedInv'
BY DEF EarnedInv, Heard

\* One row is written; a certificate is issued exactly if it is cleared.
LEMMA EarnedWritten ==
    ASSUME RowsTyped, EarnedInv, NEW d \in Ids, NEW row \in DeclRow, decls' = [decls EXCEPT ![d] = row], Earned(row),
           certs' = IF row.status = "CLEARED" THEN certs \union {d} ELSE certs,
           d \in certs => row.status = "CLEARED", Heard(calls')
    PROVE  EarnedInv'
<1>1. decls'[d] = row /\ row # None /\ \A e \in Ids \ {d} : decls'[e] = decls[e]
  BY RowIsNotNone DEF RowsTyped
<1>2. \A e \in Ids : decls'[e] # None => Earned(decls'[e])
  BY <1>1 DEF EarnedInv
<1>3. \A e : e \in certs' <=> e \in Ids /\ decls'[e] # None /\ decls'[e].status = "CLEARED"
  BY <1>1 DEF EarnedInv
<1>4. certs' = {e \in Ids : decls'[e] # None /\ decls'[e].status = "CLEARED"}
  BY <1>3
<1> QED
  BY <1>2, <1>4 DEF EarnedInv, Heard

LEMMA NewRowEarned ==
    ASSUME NEW r, NEW n, NEW s, NEW q, NEW t, NEW k
    PROVE  Earned(NewRow(r, n, s, q, t, k)) /\ NewRow(r, n, s, q, t, k).status = "DRAFT"
<1>1. NewRow(r, n, s, q, t, k).status = "DRAFT"
  BY DEF NewRow
<1> QED
  BY <1>1 DEF Earned

LEMMA CreateEarned ==
    ASSUME RowsTyped, EarnedInv, NEW d \in Ids, NEW r \in Refs, NEW q \in Requests, NEW t \in Traders,
           NEW k \in Contents, Create(d, r, <<q, 0>>, t, k)
    PROVE  EarnedInv'
<1>1. PICK row : row = NewRow(r, 1, None, <<q, 0>>, t, k)
  OBVIOUS
<1>2. row \in DeclRow
  BY <1>1, NewRowTyped
<1>3. Earned(row) /\ row.status = "DRAFT"
  BY <1>1, NewRowEarned
<1>4. decls' = [decls EXCEPT ![d] = row] /\ decls[d] = None /\ certs' = certs /\ calls' = calls
  BY <1>1 DEF Create, Insertable
<1>5. d \notin certs /\ Heard(calls')
  BY <1>4 DEF EarnedInv, Heard
<1> QED
  BY <1>2, <1>3, <1>4, <1>5, EarnedWritten

LEMMA AmendEarned ==
    ASSUME RowsTyped, EarnedInv, NEW h \in Ids, NEW d \in Ids, NEW q \in Requests, NEW t \in Traders,
           NEW k \in Contents, Amend(h, d, q, t, k)
    PROVE  EarnedInv'
<1>1. PICK head : head = decls[h] /\ head # None
  BY DEF Amend, Rows
<1>2. PICK new : new = NewRow(head.ref, head.revision + 1, h,
                              IF head.request = <<q, 0>> THEN <<q, head.revision + 1>> ELSE <<q, 0>>, t, k)
  OBVIOUS
<1>3. /\ decls[d] = None /\ head.status \notin {"CLEARED", "SUPERSEDED"} /\ certs' = certs /\ calls' = calls
      /\ decls' = [decls EXCEPT ![h].status = "SUPERSEDED", ![h].version = @ + 1, ![d] = new]
  BY <1>1, <1>2 DEF Amend, Amendable, Insertable
<1>4. h # d
  BY <1>1, <1>3
<1>5. decls'[d] = new /\ decls'[h].status = "SUPERSEDED" /\ \A e \in Ids \ {h, d} : decls'[e] = decls[e]
  <2>1. head \in DeclRow
    BY <1>1 DEF RowsTyped
  <2>2. PICK old : old = [head EXCEPT !.status = "SUPERSEDED", !.version = @ + 1]
    OBVIOUS
  <2>3. old.status = "SUPERSEDED"
    BY <2>1, <2>2 DEF DeclRow
  <2>4. decls' = [decls EXCEPT ![h] = old, ![d] = new]
    <3>1. [decls EXCEPT ![h].status = "SUPERSEDED", ![h].version = @ + 1] = [decls EXCEPT ![h] = old]
      BY <1>1, <2>2 DEF RowsTyped
    <3> QED BY <1>3, <1>4, <3>1 DEF RowsTyped
  <2> QED BY <1>4, <2>3, <2>4 DEF RowsTyped
<1>6. Earned(new) /\ new.status = "DRAFT"
  BY <1>2, NewRowEarned
<1>7. Earned(decls'[h])
  BY <1>5 DEF Earned
<1>8. \A e \in Ids : decls'[e] # None => Earned(decls'[e])
  BY <1>5, <1>6, <1>7 DEF EarnedInv
<1>9. h \notin certs /\ d \notin certs
  BY <1>1, <1>3 DEF EarnedInv
<1>10. \A e : e \in certs <=> e \in Ids /\ decls'[e] # None /\ decls'[e].status = "CLEARED"
  BY <1>5, <1>6, <1>9 DEF EarnedInv
<1>11. certs' = {e \in Ids : decls'[e] # None /\ decls'[e].status = "CLEARED"}
  BY <1>3, <1>10
<1> QED
  BY <1>3, <1>8, <1>11 DEF EarnedInv

LEMMA SubmitEarned ==
    ASSUME RowsTyped, EarnedInv, NEW d \in Ids, NEW t \in Traders, Submit(d, t)
    PROVE  EarnedInv'
<1>1. PICK old \in DeclRow : old = decls[d]
  BY DEF Submit, Rows, RowsTyped
<1>2. old.content \in Contents /\ old.version + 1 \in Nat /\ "SUBMITTED" \in Status
  BY DEF DeclRow, Status
<1>3. PICK duty \in Duties : duty = CalculateDuty(old.content)
  BY <1>2 DEF Duties
<1>4. PICK row : row = [old EXCEPT !.status = "SUBMITTED", !.version = @ + 1, !.duty = duty]
  OBVIOUS
<1>5. row \in DeclRow /\ row.status = "SUBMITTED" /\ row.duty = duty /\ row.content = old.content
  BY <1>2, <1>4 DEF DeclRow
<1>6. Earned(row)
  BY <1>3, <1>5 DEF Earned
<1>7. decls[d].status = "DRAFT" /\ certs' = certs
  BY DEF Submit
<1>8. decls' = [decls EXCEPT ![d] = row]
  BY <1>1, <1>3, <1>4 DEF Submit, RowsTyped
<1>9. Heard(calls')
  <2>1. PICK call : call = [stage |-> "submitted", version |-> decls[d].version + 1, verified |-> FALSE, answer |-> None]
    OBVIOUS
  <2>2. calls' = [calls EXCEPT ![d] = call] /\ call.answer = None
    BY <2>1 DEF Submit
  <2> QED BY <2>2 DEF Heard, EarnedInv, RowsTyped
<1>10. d \notin certs
  BY <1>7 DEF EarnedInv
<1> QED
  BY <1>5, <1>6, <1>7, <1>8, <1>9, <1>10, EarnedWritten

\* An answer is written next to the content it was asked for: the row has not
\* changed since it was read.
LEMMA AssessEarned ==
    ASSUME RowsTyped, EarnedInv, NEW d \in Ids, AssessRisk(d)
    PROVE  EarnedInv'
<1>1. PICK call \in DeclCall : call = calls[d]
  BY DEF AssessRisk, RowsTyped
<1>2. call.answer \in Answers \union {None} /\ call.verified \in BOOLEAN /\ decls[d] # None
  BY <1>1, CallIsNotNone DEF RowsTyped, DeclCall
<1>3. PICK old \in DeclRow : old = decls[d]
  BY <1>2 DEF RowsTyped
<1>4. old.content \in Contents /\ old.version + 1 \in Nat
  BY DEF DeclRow
<1>5. PICK lane \in Lanes : lane = ApplyAEOClaimGuard(
                      AssignRiskLane(call.answer.score, call.answer.sanctioned, old.content, call.verified),
                      old.content.claimsAEO, call.verified)
  BY DEF ApplyAEOClaimGuard, AssignRiskLane, Lanes
<1>6. PICK status \in Status : status = IF call.answer = None THEN "SCORING_UNAVAILABLE" ELSE LaneStatus(lane)
  BY LaneStatusTyped DEF Status
<1>7. calls' = [calls EXCEPT ![d] = None]
  BY DEF AssessRisk
<1>8. Heard(calls')
  BY <1>7 DEF Heard, EarnedInv, RowsTyped
<1>9. CASE ~Current(d)
  <2>1. decls' = decls /\ certs' = certs
    BY <1>9 DEF AssessRisk
  <2> QED BY <1>8, <2>1, EarnedSame
<1>10. CASE Current(d)
  <2>1. /\ decls' = [decls EXCEPT ![d].status = status, ![d].version = @ + 1,
                                  ![d].verdict = call.answer, ![d].verified = call.verified]
        /\ certs' = IF status = "CLEARED" THEN certs \union {d} ELSE certs
    BY <1>1, <1>3, <1>5, <1>6, <1>10, Zenon DEF AssessRisk
  <2>2. PICK b \in BOOLEAN, a \in Answers \union {None}, v \in Nat :
           b = call.verified /\ a = call.answer /\ v = old.version + 1
    BY <1>2, <1>4, Zenon
  <2>3. PICK row : row = [old EXCEPT !.status = status, !.version = v, !.verdict = a, !.verified = b]
    OBVIOUS
  <2>4. row \in DeclRow
    BY <2>3 DEF DeclRow
  <2>5. row.status = status /\ row.verdict = a /\ row.content = old.content /\ row.duty = old.duty
    BY <2>3 DEF DeclRow
  <2>6. row.verified = b
    BY <2>3 DEF DeclRow
  <2>7. decls' = [decls EXCEPT ![d] = row]
    BY <1>3, <2>1, <2>2, <2>3 DEF RowsTyped
  <2>8. old.status = "SUBMITTED" /\ Earned(old)
    BY <1>2, <1>3, <1>10 DEF Current, EarnedInv
  <2>9. old.duty = CalculateDuty(old.content)
    BY <2>8 DEF Earned
  <2>10. ASSUME status = "CLEARED" PROVE Passed(old.content, a, b)
    <3>1. a # None /\ LaneStatus(lane) = "CLEARED"
      BY <1>6, <2>2, <2>10
    <3>2. a.score \in 0..100
      BY <1>1, <2>2, <3>1, CallIsNotNone DEF EarnedInv
    <3>3. lane = ApplyAEOClaimGuard(AssignRiskLane(a.score, a.sanctioned, old.content, b), old.content.claimsAEO, b)
      BY <1>5, <2>2, Zenon
    <3> QED BY <1>4, <3>1, <3>2, <3>3, GreenPassed
  <2>11. Earned(row)
    <3>1. row.status = "CLEARED" => Passed(row.content, row.verdict, row.verified)
      BY <2>5, <2>6, <2>10, Zenon
    <3>2. row.duty = CalculateDuty(row.content)
      BY <2>5, <2>9, Zenon
    <3> QED BY <3>1, <3>2, Zenon DEF Earned
  <2>12. d \notin certs
    BY <1>3, <2>8 DEF EarnedInv
  <2>13. certs' = IF row.status = "CLEARED" THEN certs \union {d} ELSE certs
    BY <2>1, <2>5
  <2> QED BY <1>8, <2>4, <2>7, <2>11, <2>12, <2>13, EarnedWritten
<1> QED
  BY <1>9, <1>10

LEMMA EarnedInductive == ChainInv /\ EarnedInv /\ [DeclNext]_declVars => EarnedInv'
<1> SUFFICES ASSUME ChainInv, EarnedInv, [DeclNext]_declVars PROVE EarnedInv'
  OBVIOUS
<1>t. RowsTyped /\ Heard(calls)
  BY DEF ChainInv, EarnedInv, Heard
<1>1. ASSUME NEW d \in Ids, NEW r \in Refs, NEW q \in Requests, NEW t \in Traders, NEW k \in Contents,
             Create(d, r, <<q, 0>>, t, k)
      PROVE  EarnedInv'
  BY <1>t, <1>1, CreateEarned
<1>2. ASSUME NEW h \in Ids, NEW d \in Ids, NEW q \in Requests, NEW t \in Traders, NEW k \in Contents,
             Amend(h, d, q, t, k)
      PROVE  EarnedInv'
  BY <1>t, <1>2, AmendEarned
<1>3. ASSUME NEW d \in Ids, NEW t \in Traders, Submit(d, t) PROVE EarnedInv'
  BY <1>t, <1>3, SubmitEarned
<1>4. ASSUME NEW d \in Ids, Snapshot(d) PROVE EarnedInv'
  <2>1. PICK old \in DeclCall : old = calls[d]
    BY <1>t, <1>4 DEF Snapshot, RowsTyped
  <2>0. PICK call : call = [old EXCEPT !.stage = "read"]
    OBVIOUS
  <2>2. call = [old EXCEPT !.stage = "read"] /\ call.answer = old.answer
    BY <2>0 DEF DeclCall
  <2>3. decls' = decls /\ certs' = certs
    BY <1>4 DEF Snapshot
  <2>4. calls' = [calls EXCEPT ![d] = call] \/ calls' = [calls EXCEPT ![d] = None]
    BY <1>4, <2>1, <2>2 DEF Snapshot
  <2>5. Heard(calls')
    BY <1>t, <2>1, <2>2, <2>4, CallIsNotNone DEF Heard, RowsTyped
  <2> QED BY <2>3, <2>5, EarnedSame
<1>5. ASSUME NEW d \in Ids, NEW answer \in Answers \union {None}, NEW verified \in BOOLEAN,
             Score(d, answer, verified)
      PROVE  EarnedInv'
  <2>1. PICK old \in DeclCall : old = calls[d]
    BY <1>t, <1>5 DEF Score, RowsTyped
  <2>2. PICK heard : heard = IF answer = None THEN None ELSE IF validateScorerVerdict(answer) THEN answer ELSE None
    OBVIOUS
  <2>3. heard # None => heard.score \in 0..100
    BY <2>2 DEF validateScorerVerdict
  <2>0. PICK call : call = [old EXCEPT !.stage = "scored", !.verified = verified, !.answer = heard]
    OBVIOUS
  <2>4. call = [old EXCEPT !.stage = "scored", !.verified = verified, !.answer = heard] /\ call.answer = heard
    BY <2>0 DEF DeclCall
  <2>5. calls' = [calls EXCEPT ![d] = call] /\ decls' = decls /\ certs' = certs
    BY <1>5, <2>1, <2>2, <2>4, Zenon DEF Score
  <2>6. Heard(calls')
    BY <1>t, <2>3, <2>4, <2>5 DEF Heard, RowsTyped
  <2> QED BY <2>5, <2>6, EarnedSame
<1>6. ASSUME NEW d \in Ids, AssessRisk(d) PROVE EarnedInv'
  BY <1>t, <1>6, AssessEarned
<1>7. ASSUME NEW d \in Ids, CallLost(d) PROVE EarnedInv'
  <2>1. calls' = [calls EXCEPT ![d] = None] /\ decls' = decls /\ certs' = certs
    BY <1>7 DEF CallLost
  <2>2. Heard(calls')
    BY <1>t, <2>1 DEF Heard, RowsTyped
  <2> QED BY <2>1, <2>2, EarnedSame
<1>8. ASSUME decls' = decls, certs' = certs, calls' = calls PROVE EarnedInv'
  BY <1>8, EarnedSame DEF EarnedInv, Heard
<1>9. ASSUME NEW d \in Ids, RegisterPermit(d) \/ \E answer \in {"APPROVED", "REJECTED", "LAPSED"} : AgencyDecides(d, answer)
      PROVE  EarnedInv'
  BY <1>8, <1>9 DEF RegisterPermit, AgencyDecides
<1>10. CASE \E r \in Refs, w \in Weights, p \in Parties : CustomsMatch(r, w, p)
  BY <1>8, <1>10 DEF CustomsMatch
<1>11. CASE UNCHANGED declVars
  BY <1>8, <1>11 DEF declVars
<1> QED BY <1>1, <1>2, <1>3, <1>4, <1>5, <1>6, <1>7, <1>9, <1>10, <1>11 DEF DeclNext

\* A clearance is always the one the rules give the scored revision, with its
\* exact duty as long as no amount leaves the width of an int64 on the way:
\* Validate puts no upper bound on an amount, and beyond it the duty wraps
\* (AssessRisk, AssignRiskLane, ApplyAEOClaimGuard, applyBPS).
THEOREM ClearancesEarned == (\A k \in Contents : FitsWidth(k)) => (DeclSpec => []ClearanceEarned)
<1> SUFFICES ASSUME \A k \in Contents : FitsWidth(k) PROVE DeclSpec => []ClearanceEarned
  OBVIOUS
<1>1. DeclInit => EarnedInv
  BY DEF DeclInit, EarnedInv
<1>2. ChainInv /\ EarnedInv => ClearanceEarned
  <2> SUFFICES ASSUME ChainInv, EarnedInv PROVE ClearanceEarned
    OBVIOUS
  <2>1. {d \in Rows : decls[d].status = "CLEARED"} \subseteq certs
    BY DEF EarnedInv, Rows
  <2>2. ASSUME NEW d \in certs
        PROVE  /\ Passed(decls[d].content, decls[d].verdict, decls[d].verified)
               /\ decls[d].duty = ExactDuty(decls[d].content)
    <3>1. d \in Ids /\ decls[d] # None /\ decls[d].status = "CLEARED" /\ Earned(decls[d])
      BY DEF EarnedInv
    <3>2. decls[d].content \in Contents
      BY <3>1 DEF ChainInv, RowsTyped, DeclRow
    <3> QED BY <3>1, <3>2, DutyExact DEF Earned
  <2> QED BY <2>1, <2>2 DEF ClearanceEarned, Passed, Surcharge
<1> QED
  BY <1>1, <1>2, EarnedInductive, ChainInitial, ChainInductive, PTL DEF DeclSpec
=============================================================================
