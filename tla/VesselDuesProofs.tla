--------------------------- MODULE VesselDuesProofs ---------------------------
(***************************************************************************)
(* Offshore and cruise calls for any schedules, calls, facts, keys and     *)
(* bounds: the record of an operation is in a possible order, and what was *)
(* assessed stays recomputable.                                            *)
(*                                                                         *)
(* OperationsInOrder speaks of the record only; Reached adds how far the   *)
(* entries of a call can have got in each status.  DuesRecomputable speaks *)
(* of one assessment at a time; PricesInv adds that a schedule is kept     *)
(* under its id and that finance was told of recorded keys only.  The sum  *)
(* of a price (Exact) is not unfolded: PricesNatural is what is needed of  *)
(* it, a fact about finite sums.                                           *)
(***************************************************************************)
EXTENDS VesselDues, FiniteSetTheorems, TLAPS

-----------------------------------------------------------------------------
(* The record of an offshore call.                                         *)

Entries(t) == {t[i] : i \in 1..Len(t)}

\* What OperationsInOrder says of one entry, with those before it.
InOrder(entry, before, master) ==
    /\ entry = "HOSE_CONNECTION" => master /\ "MOORED" \in before /\ "CUSTODY_METER_READING" \notin before
    /\ entry = "LOADING_ARM" => "HOSE_CONNECTED" \in before /\ "CUSTODY_TRANSFERRED" \notin before
    /\ entry = "CUSTODY_METER_READING" => "LOADING" \in before
    /\ entry = "CANCELLED" => before \subseteq {"APPROACH_CLEARED", "MOORING_NOTE"}

RecordInOrder(t, master) == \A j \in 1..Len(t) : InOrder(t[j], {t[i] : i \in 1..(j - 1)}, master)

\* How far the entries of a call can have got in each status.
Reached(entries, status, master) ==
    /\ status = "NOMINATED" => entries \subseteq {"MOORING_NOTE"}
    /\ status = "APPROACH_CLEARED" => entries \subseteq {"MOORING_NOTE", "APPROACH_CLEARED"}
    /\ status \in {"MOORED", "HOSE_CONNECTED", "LOADING", "CUSTODY_TRANSFERRED", "DISCONNECTED", "DEPARTED"} =>
        master /\ "MOORED" \in entries
    /\ status \in {"HOSE_CONNECTED", "LOADING", "CUSTODY_TRANSFERRED", "DISCONNECTED", "DEPARTED"} =>
        "HOSE_CONNECTED" \in entries
    /\ status \in {"LOADING", "CUSTODY_TRANSFERRED", "DISCONNECTED", "DEPARTED"} => "LOADING" \in entries
    /\ "CUSTODY_METER_READING" \in entries =>
        status \in {"LOADING", "CUSTODY_TRANSFERRED", "DISCONNECTED", "DEPARTED"}
    /\ "CUSTODY_TRANSFERRED" \in entries => status \in {"CUSTODY_TRANSFERRED", "DISCONNECTED", "DEPARTED"}

MooringStatus ==
    {"NOMINATED", "APPROACH_CLEARED", "MOORED", "HOSE_CONNECTED", "LOADING",
     "CUSTODY_TRANSFERRED", "DISCONNECTED", "DEPARTED", "CANCELLED"}

LEMMA MooringStatuses ==
    /\ {MooringOrder[i] : i \in 1..Len(MooringOrder)} \union {"CANCELLED"} = MooringStatus
    /\ \A from, next : ValidMooring(from, next) =>
        \/ from = "NOMINATED" /\ next = "APPROACH_CLEARED"
        \/ from = "APPROACH_CLEARED" /\ next = "MOORED"
        \/ from = "MOORED" /\ next = "HOSE_CONNECTED"
        \/ from = "HOSE_CONNECTED" /\ next = "LOADING"
        \/ from = "LOADING" /\ next = "CUSTODY_TRANSFERRED"
        \/ from = "CUSTODY_TRANSFERRED" /\ next = "DISCONNECTED"
        \/ from = "DISCONNECTED" /\ next = "DEPARTED"
        \/ from \in {"NOMINATED", "APPROACH_CLEARED"} /\ next = "CANCELLED"
<1>1. /\ Len(MooringOrder) = 8
      /\ MooringOrder[1] = "NOMINATED" /\ MooringOrder[2] = "APPROACH_CLEARED" /\ MooringOrder[3] = "MOORED"
      /\ MooringOrder[4] = "HOSE_CONNECTED" /\ MooringOrder[5] = "LOADING"
      /\ MooringOrder[6] = "CUSTODY_TRANSFERRED" /\ MooringOrder[7] = "DISCONNECTED" /\ MooringOrder[8] = "DEPARTED"
  BY DEF MooringOrder
<1>2. \A i \in 1..8 : i = 1 \/ i = 2 \/ i = 3 \/ i = 4 \/ i = 5 \/ i = 6 \/ i = 7 \/ i = 8
  OBVIOUS
<1>3. {MooringOrder[i] : i \in 1..8} \union {"CANCELLED"} = MooringStatus
  BY <1>1, <1>2 DEF MooringStatus
<1> QED
  BY <1>1, <1>2, <1>3 DEF ValidMooring

\* One more entry, allowed in the status it is written in, with the status it
\* leaves.
LEMMA EntryAppended ==
    ASSUME NEW S, NEW t \in Seq(S), NEW e \in S, NEW master \in BOOLEAN, NEW more \in BOOLEAN,
           RecordInOrder(t, master), InOrder(e, Entries(t), more), master => more
    PROVE  RecordInOrder(Append(t, e), more) /\ Entries(Append(t, e)) = Entries(t) \union {e}
<1> DEFINE n == Len(t)
           u == Append(t, e)
<1>1. n \in Nat /\ Len(u) = n + 1 /\ u[n + 1] = e /\ \A i \in 1..n : u[i] = t[i]
  OBVIOUS
<1> HIDE DEF u
<1>2. Entries(u) = Entries(t) \union {e}
  BY <1>1 DEF Entries
<1>3. ASSUME NEW j \in 1..(n + 1) PROVE InOrder(u[j], {u[i] : i \in 1..(j - 1)}, more)
  <2>1. CASE j = n + 1
    <3>1. {u[i] : i \in 1..(j - 1)} = Entries(t)
      BY <1>1, <2>1 DEF Entries
    <3> QED BY <1>1, <2>1, <3>1
  <2>2. CASE j \in 1..n
    <3>1. {u[i] : i \in 1..(j - 1)} = {t[i] : i \in 1..(j - 1)} /\ u[j] = t[j]
      BY <1>1, <2>2
    <3>2. InOrder(t[j], {t[i] : i \in 1..(j - 1)}, master)
      BY <2>2 DEF RecordInOrder
    <3> QED BY <3>1, <3>2 DEF InOrder
  <2> QED BY <1>1, <2>1, <2>2
<1> QED
  BY <1>1, <1>2, <1>3 DEF RecordInOrder, u

LEMMA TransitionInOrder ==
    ASSUME NEW entries, NEW status, NEW next, NEW master \in BOOLEAN, NEW more \in BOOLEAN,
           Reached(entries, status, master), ValidMooring(status, next), more <=> master \/ next = "MOORED"
    PROVE  InOrder(next, entries, more) /\ Reached(entries \union {next}, next, more)
<1>1. InOrder(next, entries, more)
  BY MooringStatuses DEF InOrder, Reached
<1>2. Reached(entries \union {next}, next, more)
  BY MooringStatuses DEF Reached
<1> QED BY <1>1, <1>2

LEMMA EventInOrder ==
    ASSUME NEW entries, NEW status \in MooringStatus, NEW type \in EventTypes, NEW master \in BOOLEAN,
           Reached(entries, status, master), EventAllowed(status, type)
    PROVE  InOrder(type, entries, master) /\ Reached(entries \union {type}, status, master)
<1>1. \/ type = "HOSE_CONNECTION" /\ status \in {"MOORED", "HOSE_CONNECTED"}
      \/ type = "LOADING_ARM" /\ status \in {"HOSE_CONNECTED", "LOADING"}
      \/ type = "CUSTODY_METER_READING" /\ status \in {"LOADING", "CUSTODY_TRANSFERRED"}
      \/ type = "MOORING_NOTE" /\ status \notin {"DEPARTED", "CANCELLED"}
  BY DEF EventTypes, EventAllowed
<1>2. InOrder(type, entries, master)
  BY <1>1 DEF InOrder, Reached
<1>3. Reached(entries \union {type}, status, master)
  BY <1>1 DEF Reached
<1> QED BY <1>2, <1>3

TrailEntry == MooringStatus \union EventTypes

CourseKept(row, t) ==
    /\ row = None => t = <<>>
    /\ row # None => RecordInOrder(t, row.master) /\ Reached(Entries(t), row.status, row.master)

OpsInv ==
    /\ offshore \in [OffshoreCalls -> OffshoreRow \union {None}]
    /\ trail \in [OffshoreCalls -> Seq(TrailEntry)]
    /\ \A c \in OffshoreCalls : CourseKept(offshore[c], trail[c])

LEMMA OffshoreRows ==
    ASSUME NEW row \in OffshoreRow
    PROVE  row # None /\ row.facts \in Tankers /\ row.status \in MooringStatus /\ row.master \in BOOLEAN
BY MooringStatuses, DuesAssumptions DEF OffshoreRow

LEMMA OneCallWritten ==
    ASSUME OpsInv, NEW c \in OffshoreCalls, NEW row \in OffshoreRow, NEW t \in Seq(TrailEntry),
           offshore' = [offshore EXCEPT ![c] = row], trail' = [trail EXCEPT ![c] = t], CourseKept(row, t)
    PROVE  OpsInv'
BY DEF OpsInv

LEMMA CreateInOrder ==
    ASSUME OpsInv, NEW c \in OffshoreCalls, NEW tanker \in Tankers, CreateOffshore(c, tanker)
    PROVE  OpsInv'
<1>1. PICK row : row = [facts |-> tanker, status |-> "NOMINATED", master |-> FALSE]
  OBVIOUS
<1>2. row \in OffshoreRow /\ row.status = "NOMINATED" /\ row.master = FALSE
  BY <1>1, MooringStatuses DEF OffshoreRow, MooringStatus
<1>3. offshore' = [offshore EXCEPT ![c] = row] /\ offshore[c] = None /\ trail' = trail
  BY <1>1 DEF CreateOffshore
<1>4. trail[c] = <<>> /\ trail[c] \in Seq(TrailEntry) /\ trail' = [trail EXCEPT ![c] = trail[c]]
  BY <1>3 DEF OpsInv, CourseKept
<1>5. CourseKept(row, trail[c])
  BY <1>2, <1>4, OffshoreRows DEF CourseKept, RecordInOrder, Reached, Entries
<1> QED
  BY <1>2, <1>3, <1>4, <1>5, OneCallWritten

LEMMA TransitionKeepsOrder ==
    ASSUME OpsInv, NEW c \in OffshoreCalls, NEW next \in MooringStatus, TransitionOffshore(c, next)
    PROVE  OpsInv'
<1>1. PICK old, t : old = offshore[c] /\ t = trail[c]
  OBVIOUS
<1>2. /\ old \in OffshoreRow /\ old # None /\ t \in Seq(TrailEntry)
      /\ RecordInOrder(t, old.master) /\ Reached(Entries(t), old.status, old.master)
  BY <1>1 DEF OpsInv, CourseKept, TransitionOffshore
<1>3. PICK row : row = [old EXCEPT !.status = next, !.master = @ \/ next = "MOORED"]
  OBVIOUS
<1>4. /\ row \in OffshoreRow /\ row.status = next /\ row.master \in BOOLEAN /\ old.master \in BOOLEAN
      /\ row.master <=> old.master \/ next = "MOORED"
  BY <1>2, <1>3, MooringStatuses DEF OffshoreRow
<1>5. offshore' = [offshore EXCEPT ![c] = row] /\ ValidMooring(old.status, next)
  BY <1>1, <1>3 DEF TransitionOffshore, OpsInv
<1>6. trail' = [trail EXCEPT ![c] = Append(t, next)]
  BY <1>1 DEF TransitionOffshore, Record
<1>7. InOrder(next, Entries(t), row.master) /\ Reached(Entries(t) \union {next}, next, row.master)
  BY <1>2, <1>4, <1>5, TransitionInOrder
<1>8. next \in TrailEntry /\ Append(t, next) \in Seq(TrailEntry)
  BY <1>2 DEF TrailEntry
<1>9. RecordInOrder(Append(t, next), row.master) /\ Entries(Append(t, next)) = Entries(t) \union {next}
  BY <1>2, <1>4, <1>7, <1>8, EntryAppended
<1>10. CourseKept(row, Append(t, next))
  BY <1>4, <1>7, <1>9, OffshoreRows DEF CourseKept
<1> QED
  BY <1>4, <1>5, <1>6, <1>8, <1>10, OneCallWritten

LEMMA EventKeepsOrder ==
    ASSUME OpsInv, NEW c \in OffshoreCalls, NEW type \in EventTypes, RecordEvent(c, type)
    PROVE  OpsInv'
<1>1. PICK row, t : row = offshore[c] /\ t = trail[c]
  OBVIOUS
<1>2. /\ row \in OffshoreRow /\ row # None /\ t \in Seq(TrailEntry)
      /\ RecordInOrder(t, row.master) /\ Reached(Entries(t), row.status, row.master)
  BY <1>1 DEF OpsInv, CourseKept, RecordEvent
<1>3. row.status \in MooringStatus /\ row.master \in BOOLEAN
  BY <1>2, OffshoreRows
<1>4. /\ offshore' = [offshore EXCEPT ![c] = row] /\ EventAllowed(row.status, type)
      /\ trail' = [trail EXCEPT ![c] = Append(t, type)]
  BY <1>1 DEF RecordEvent, Record, OpsInv
<1>5. InOrder(type, Entries(t), row.master) /\ Reached(Entries(t) \union {type}, row.status, row.master)
  BY <1>2, <1>3, <1>4, EventInOrder
<1>6. type \in TrailEntry /\ Append(t, type) \in Seq(TrailEntry)
  BY <1>2 DEF TrailEntry
<1>7. RecordInOrder(Append(t, type), row.master) /\ Entries(Append(t, type)) = Entries(t) \union {type}
  BY <1>2, <1>3, <1>5, <1>6, EntryAppended
<1>8. CourseKept(row, Append(t, type))
  BY <1>2, <1>5, <1>7 DEF CourseKept
<1> QED
  BY <1>2, <1>4, <1>6, <1>8, OneCallWritten

LEMMA UntouchedOps ==
    ASSUME OpsInv, UNCHANGED <<offshore, trail>>
    PROVE  OpsInv'
BY DEF OpsInv

\* The operations that leave offshore calls and their record alone.
LEMMA OthersKeepOps ==
    /\ \A s : RegisterScheduleTx(s) => UNCHANGED <<offshore, trail>>
    /\ \A c, p, pax : CreateCruise(c, p, pax) => UNCHANGED <<offshore, trail>>
    /\ \A c, key, asOf : Assess(c, key, asOf) => UNCHANGED <<offshore, trail>>
    /\ \A c : cruiseCallOperation(c) => UNCHANGED <<offshore, trail>>
<1>1. \A s : RegisterScheduleTx(s) => UNCHANGED <<offshore, trail>>
  BY DEF RegisterScheduleTx, callVars
<1>2. \A c, p, pax : CreateCruise(c, p, pax) => UNCHANGED <<offshore, trail>>
  BY DEF CreateCruise
<1>3. \A key, domain, c, facts, asOf : RecordAssessmentTx(key, domain, c, facts, asOf) => UNCHANGED <<offshore, trail>>
  BY DEF RecordAssessmentTx, callVars
<1>4. \A c, key, asOf : Assess(c, key, asOf) => UNCHANGED <<offshore, trail>>
  BY <1>3 DEF Assess
<1>5. \A c, v, row : Update(c, v, row) => UNCHANGED <<offshore, trail>>
  BY DEF Update
<1>6. ASSUME NEW c, cruiseCallOperation(c) PROVE UNCHANGED <<offshore, trail>>
  <2>1. CASE \E v \in 1..MaxVersion, next \in {"CONFIRMED", "ARRIVED", "COMPLETED", "CANCELLED"} :
               TransitionCruise(c, v, next)
    BY <1>5, <2>1 DEF TransitionCruise
  <2>2. CASE \E v \in 1..MaxVersion, pax \in PaxCounts : UpdatePaxCount(c, v, pax)
    BY <1>5, <2>2 DEF UpdatePaxCount
  <2>3. CASE \E key \in ExcursionKeys, pax \in PaxCounts : AddExcursion(c, key, pax)
    BY <2>3 DEF AddExcursion
  <2>4. CASE \E key \in TenderKeys, berth \in Berths, w \in Windows : AllocateTender(c, key, berth, w)
    BY <2>4 DEF AllocateTender
  <2>5. CASE \E key \in Keys, asOf \in Instants : AssessDues(c, key, asOf)
    BY <1>3, <2>5 DEF AssessDues
  <2> QED BY <1>6, <2>1, <2>2, <2>3, <2>4, <2>5 DEF cruiseCallOperation
<1> QED BY <1>1, <1>2, <1>4, <1>6

LEMMA StepKeepsOps ==
    ASSUME OpsInv, [DuesNext]_duesVars
    PROVE  OpsInv'
<1>1. ASSUME NEW c \in OffshoreCalls, offshoreCallOperation(c) PROVE OpsInv'
  <2>1. CASE \E next \in {MooringOrder[i] : i \in 1..Len(MooringOrder)} \union {"CANCELLED"} : TransitionOffshore(c, next)
    BY <2>1, MooringStatuses, TransitionKeepsOrder
  <2>2. CASE \E type \in EventTypes : RecordEvent(c, type)
    BY <2>2, EventKeepsOrder
  <2>3. CASE \E key \in Keys, asOf \in Instants : Assess(c, key, asOf)
    BY <2>3, OthersKeepOps, UntouchedOps
  <2> QED BY <1>1, <2>1, <2>2, <2>3 DEF offshoreCallOperation
<1>2. CASE \E s \in Offered : RegisterScheduleTx(s)
  BY <1>2, OthersKeepOps, UntouchedOps
<1>3. CASE \E c \in OffshoreCalls, tanker \in Tankers : CreateOffshore(c, tanker)
  BY <1>3, CreateInOrder
<1>4. CASE \E c \in CruiseCalls, p \in PortCalls, pax \in PaxCounts : CreateCruise(c, p, pax)
  BY <1>4, OthersKeepOps, UntouchedOps
<1>5. CASE \E c \in CruiseCalls : cruiseCallOperation(c)
  BY <1>5, OthersKeepOps, UntouchedOps
<1>6. CASE UNCHANGED duesVars
  BY <1>6, UntouchedOps DEF duesVars, callVars
<1> QED
  BY <1>1, <1>2, <1>3, <1>4, <1>5, <1>6 DEF DuesNext

LEMMA InitOps == DuesInit => OpsInv
BY DuesAssumptions DEF DuesInit, OpsInv, CourseKept

LEMMA OpsInvOrders == OpsInv => OperationsInOrder
<1> SUFFICES ASSUME OpsInv, NEW c \in Rows(offshore), NEW j \in 1..Len(trail[c])
             PROVE  InOrder(trail[c][j], {trail[c][i] : i \in 1..(j - 1)}, offshore[c].master)
  BY DEF OperationsInOrder, InOrder
<1>1. c \in OffshoreCalls /\ offshore[c] # None
  BY DEF Rows, OpsInv
<1>2. RecordInOrder(trail[c], offshore[c].master)
  BY <1>1 DEF OpsInv, CourseKept
<1> QED BY <1>2 DEF RecordInOrder

\* The record of any offshore call is a possible course of a tanker operation,
\* however requests and events interleave (offshore.EventAllowed with
\* ValidTransition, over the whole record).
THEOREM RecordsInOrder == DuesSpec => []OperationsInOrder
<1>1. OpsInv /\ [DuesNext]_duesVars => OpsInv'
  BY StepKeepsOps
<1> QED BY <1>1, InitOps, OpsInvOrders, PTL DEF DuesSpec

-----------------------------------------------------------------------------
(* The schedule in force.                                                  *)

Older(o, s) == o.from < s.from \/ (o.from = s.from /\ o.id < s.id)

\* A finite set of schedules with different ids has a newest one: a smallest
\* set without one would have one without any of its members.
LEMMA NewestExists ==
    ASSUME NEW C, IsFiniteSet(C), C # {}, \A s \in C : s.id \in Nat /\ s.from \in Nat,
           \A s, o \in C : s.id = o.id => s = o
    PROVE  \E s \in C : \A o \in C \ {s} : Older(o, s)
<1> DEFINE Newest(U) == \E s \in U : \A o \in U \ {s} : Older(o, s)
           Without == {U \in SUBSET C : U # {} /\ ~ Newest(U)}
<1>1. SUFFICES ASSUME Without # {} PROVE FALSE
  OBVIOUS
<1>2. IsWellFoundedOn(StrictSubsetOrdering(C), SUBSET C)
  BY FS_StrictSubsetOrderingWellFounded, FS_FiniteSubsetsOfFinite
<1>3. PICK U \in Without : \A V \in Without : ~ (<<V, U>> \in StrictSubsetOrdering(C))
  <2> Without \subseteq SUBSET C
    OBVIOUS
  <2> HIDE DEF Without
  <2> QED BY <1>1, <1>2, WFMin
<1>4. U \in SUBSET C /\ U # {} /\ ~ Newest(U)
  OBVIOUS
<1>5. PICK u \in U : TRUE
  BY <1>4
<1>6. U \ {u} # {}
  BY <1>4, <1>5
<1>7. <<U \ {u}, U>> \in StrictSubsetOrdering(C)
  BY <1>4, <1>5 DEF StrictSubsetOrdering
<1>8. Newest(U \ {u})
  BY <1>3, <1>4, <1>6, <1>7
<1>9. PICK m \in U \ {u} : \A o \in (U \ {u}) \ {m} : Older(o, m)
  BY <1>8
<1>10. u \in C /\ m \in C /\ m.id # u.id
  BY <1>4, <1>5
<1>11. CASE Older(u, m)
  <2>1. \A o \in U \ {m} : Older(o, m)
    BY <1>9, <1>11
  <2> QED BY <1>4, <2>1
<1>12. CASE ~ Older(u, m)
  <2>1. Older(m, u)
    BY <1>10, <1>12 DEF Older
  <2>2. ASSUME NEW o \in U \ {u} PROVE Older(o, u)
    <3>1. o = m \/ Older(o, m)
      BY <1>9
    <3>2. /\ o.from \in Nat /\ m.from \in Nat /\ u.from \in Nat
          /\ o.id \in Nat /\ m.id \in Nat /\ u.id \in Nat
      BY <1>4, <1>10
    <3> QED BY <2>1, <3>1, <3>2 DEF Older
  <2> QED BY <1>4, <1>5, <2>2
<1> QED BY <1>11, <1>12

\* A schedule is kept under its id.
ScheduleKept ==
    /\ schedules \in [Ids -> Offered \union {None}]
    /\ \A id \in Ids : schedules[id] # None => schedules[id].id = id

LEMMA LoadedIsInForce ==
    ASSUME ScheduleKept, NEW domain, NEW asOf, Covering(domain, asOf) # {},
           NEW s, s = LoadEffective(domain, asOf)
    PROVE  /\ s \in Offered /\ s # None /\ s.id \in Ids /\ schedules[s.id] = s
           /\ EffectiveAt(s, asOf)
<1> DEFINE C == Covering(domain, asOf)
<1>1. \A o \in C : \E i \in Ids : /\ schedules[i] # None /\ o = schedules[i]
                                 /\ EffectiveAt(schedules[i], asOf)
  BY DEF Covering, Rows, ScheduleKept
<1>2. \A o \in C : o \in Offered /\ o # None /\ o.id \in Ids /\ schedules[o.id] = o /\ EffectiveAt(o, asOf)
  BY <1>1, DuesAssumptions DEF ScheduleKept
<1>3. IsFiniteSet(C)
  <2>1. C \subseteq Offered
    BY <1>2
  <2> QED BY <2>1, DuesAssumptions, FS_Subset
<1>4. \A o \in C : o.id \in Nat /\ o.from \in Nat
  BY <1>2, DuesAssumptions
<1>5. \A o, p \in C : o.id = p.id => o = p
  BY <1>2
<1>6. s = CHOOSE n \in C : \A o \in C \ {n} : Older(o, n)
  BY DEF LoadEffective, Older
<1> HIDE DEF C
<1>7. \E n \in C : \A o \in C \ {n} : Older(o, n)
  <2>1. C # {}
    BY DEF C
  <2> QED BY <1>3, <1>4, <1>5, <2>1, NewestExists
<1>8. s \in C
  BY <1>6, <1>7
<1> QED BY <1>2, <1>8

-----------------------------------------------------------------------------
(* The price.                                                              *)

\* The exact price of a call is a natural number.  Amounts and quantities are
\* not negative, so this holds of every sum; but that a sum of any number of
\* naturals is one takes an induction.
PricesNatural == \A s \in Offered, f \in CallFacts : Exact(LineItems(s, f)) \in Nat

LEMMA TotalExact ==
    ASSUME NEW items, Exact(items) \in Nat, ~ ErrOverflow(items)
    PROVE  Total(items) = Exact(items) /\ Total(items) \in 0..MaxInt64
<1>1. PICK x \in Nat : x = Exact(items)
  OBVIOUS
<1>2. x <= MaxInt64 /\ MaxInt64 \in Nat
  BY <1>1, DuesAssumptions DEF ErrOverflow
<1>3. PICK w \in Nat : w = MaxInt64 + 1
  BY <1>2
<1>4. (x + w) % (2 * w) = x + w
  BY <1>2, <1>3
<1>5. Total(items) = ((x + w) % (2 * w)) - w
  BY <1>1, <1>2, <1>3 DEF Total
<1> QED
  BY <1>1, <1>2, <1>3, <1>4, <1>5

\* No banded component of the schedule is left out of the items.
LEMMA BandsCovered ==
    ASSUME NEW s, NEW facts, ~ ErrBandGap(s, LineItems(s, facts))
    PROVE  \A comp \in bandedComponents(s) : \E r \in s.rules : r.component = comp /\ InBand(r, facts)
<1> SUFFICES ASSUME NEW comp \in bandedComponents(s)
             PROVE  \E r \in s.rules : r.component = comp /\ InBand(r, facts)
  OBVIOUS
<1>1. PICK i \in LineItems(s, facts) : i.rule.component = comp /\ i.rule.unit = "PER_GT_BAND"
  BY DEF ErrBandGap
<1>2. PICK r \in s.rules : Applies(r, facts) /\ i = [rule |-> r, quantity |-> Quantity(r, facts)]
  BY DEF LineItems
<1>3. i.rule = r
  BY <1>2
<1> QED
  BY <1>1, <1>2, <1>3 DEF Applies

-----------------------------------------------------------------------------
(* What was assessed stays recomputable.                                   *)

RevenueRow == [key : Keys, call : OffshoreCalls \union CruiseCalls, total : Nat]

\* What DuesRecomputable says of one assessment and its schedule ...
Priced(a, s) ==
    /\ s # None /\ EffectiveAt(s, a.asOf)
    /\ a.total = Exact(LineItems(s, a.facts)) /\ a.total <= MaxInt64
    /\ \A comp \in bandedComponents(s) : \E r \in s.rules : r.component = comp /\ InBand(r, a.facts)

\* ... and of the events finance got.
Told(k, total, events) ==
    \E i \in 1..Len(events) : /\ events[i].key = k /\ events[i].total = total
                              /\ \A j \in 1..Len(events) : events[j].key = k => j = i

PricesInv ==
    /\ ScheduleKept
    /\ assessments \in [Keys -> AssessmentRow \union {None}]
    /\ revenue \in Seq(RevenueRow)
    /\ \A i \in 1..Len(revenue) : assessments[revenue[i].key] # None
    /\ \A k \in Keys : assessments[k] # None =>
        /\ Priced(assessments[k], schedules[assessments[k].schedule])
        /\ Told(k, assessments[k].total, revenue)

LEMMA AssessmentRows ==
    ASSUME NEW a \in AssessmentRow
    PROVE  a # None /\ a.schedule \in Ids
BY DuesAssumptions DEF AssessmentRow

\* A schedule that prices a call is on record, and its id is not free.
LEMMA RegisterKeepsPrices ==
    ASSUME PricesInv, NEW s \in Offered, RegisterScheduleTx(s)
    PROVE  PricesInv'
<1>1. /\ schedules' = [schedules EXCEPT ![s.id] = s] /\ schedules[s.id] = None
      /\ UNCHANGED <<assessments, revenue>>
  BY DEF RegisterScheduleTx
<1>2. s.id \in Ids /\ s # None
  BY DuesAssumptions DEF Ids
<1>3. ScheduleKept' /\ \A id \in Ids : schedules[id] # None => schedules'[id] = schedules[id]
  BY <1>1, <1>2 DEF PricesInv, ScheduleKept
<1>4. ASSUME NEW k \in Keys, assessments[k] # None
      PROVE  Priced(assessments[k], schedules'[assessments[k].schedule])
  <2>1. assessments[k].schedule \in Ids
    BY <1>4, AssessmentRows DEF PricesInv
  <2>2. Priced(assessments[k], schedules[assessments[k].schedule])
    BY <1>4 DEF PricesInv
  <2>3. schedules[assessments[k].schedule] # None
    BY <2>2 DEF Priced
  <2> QED BY <1>3, <2>1, <2>2, <2>3
<1> QED
  BY <1>1, <1>3, <1>4 DEF PricesInv

LEMMA ToldFirst ==
    ASSUME NEW events \in Seq(RevenueRow), NEW e \in RevenueRow, \A i \in 1..Len(events) : events[i].key # e.key
    PROVE  /\ Told(e.key, e.total, Append(events, e))
           /\ \A k, total : k # e.key /\ Told(k, total, events) => Told(k, total, Append(events, e))
<1> DEFINE n == Len(events)
           u == Append(events, e)
<1>1. n \in Nat /\ Len(u) = n + 1 /\ u[n + 1] = e /\ \A i \in 1..n : u[i] = events[i]
  OBVIOUS
<1> HIDE DEF u
<1>2. Told(e.key, e.total, u)
  <2>1. n + 1 \in 1..Len(u) /\ u[n + 1].key = e.key /\ u[n + 1].total = e.total
    BY <1>1
  <2>2. \A j \in 1..Len(u) : u[j].key = e.key => j = n + 1
    BY <1>1
  <2> QED BY <2>1, <2>2 DEF Told
<1>3. ASSUME NEW k, NEW total, k # e.key, Told(k, total, events) PROVE Told(k, total, u)
  <2>1. PICK i \in 1..n : events[i].key = k /\ events[i].total = total
                          /\ \A j \in 1..n : events[j].key = k => j = i
    BY <1>3 DEF Told
  <2>2. i \in 1..Len(u) /\ u[i].key = k /\ u[i].total = total
    BY <1>1, <2>1
  <2>3. \A j \in 1..Len(u) : u[j].key = k => j = i
    BY <1>1, <1>3, <2>1
  <2> QED BY <2>2, <2>3 DEF Told
<1> QED BY <1>2, <1>3 DEF u

LEMMA RecordKeepsPrices ==
    ASSUME PricesInv, PricesNatural, NEW key \in Keys, NEW domain \in {"OFFSHORE_TERMINAL", "CRUISE_DUES"},
           NEW c \in OffshoreCalls \union CruiseCalls, NEW facts \in CallFacts, NEW asOf \in Instants,
           RecordAssessmentTx(key, domain, c, facts, asOf)
    PROVE  PricesInv'
<1>1. PICK s, items : s = LoadEffective(domain, asOf) /\ items = LineItems(s, facts)
  OBVIOUS
<1>2. /\ assessments[key] = None /\ Covering(domain, asOf) # {} /\ schedules' = schedules
      /\ ~ ErrOverflow(items) /\ ~ ErrBandGap(s, items)
  BY <1>1 DEF RecordAssessmentTx
<1>3. /\ s \in Offered /\ s # None /\ s.id \in Ids /\ schedules[s.id] = s /\ EffectiveAt(s, asOf)
  BY <1>1, <1>2, LoadedIsInForce DEF PricesInv
<1>4. PICK total : total = Total(items)
  OBVIOUS
<1>5. total = Exact(items) /\ total \in 0..MaxInt64
  BY <1>1, <1>2, <1>3, <1>4, TotalExact DEF PricesNatural
<1>6. PICK a, e : /\ a = [domain |-> domain, call |-> c, schedule |-> s.id, asOf |-> asOf,
                          facts |-> facts, total |-> total]
                  /\ e = [key |-> key, call |-> c, total |-> total]
  OBVIOUS
<1>7. a \in AssessmentRow /\ a.schedule = s.id /\ a.asOf = asOf /\ a.facts = facts /\ a.total = total
  BY <1>3, <1>5, <1>6 DEF AssessmentRow
<1>8. e \in RevenueRow /\ e.key = key /\ e.total = total
  BY <1>5, <1>6, DuesAssumptions DEF RevenueRow
<1>9. assessments' = [assessments EXCEPT ![key] = a] /\ revenue' = Append(revenue, e)
  BY <1>1, <1>4, <1>6 DEF RecordAssessmentTx
<1>10. Priced(a, s)
  <2>1. \A comp \in bandedComponents(s) : \E r \in s.rules : r.component = comp /\ InBand(r, facts)
    BY <1>1, <1>2, BandsCovered
  <2> QED BY <1>1, <1>3, <1>5, <1>7, <2>1, DuesAssumptions DEF Priced
<1>11. /\ revenue \in Seq(RevenueRow) /\ assessments \in [Keys -> AssessmentRow \union {None}]
       /\ \A i \in 1..Len(revenue) : revenue[i].key \in Keys /\ assessments[revenue[i].key] # None
  <2>1. /\ revenue \in Seq(RevenueRow) /\ assessments \in [Keys -> AssessmentRow \union {None}]
        /\ \A i \in 1..Len(revenue) : assessments[revenue[i].key] # None
    BY DEF PricesInv
  <2>2. \A i \in 1..Len(revenue) : revenue[i] \in RevenueRow
    BY <2>1
  <2>3. \A r \in RevenueRow : r.key \in Keys
    BY DEF RevenueRow
  <2> QED BY <2>1, <2>2, <2>3
<1>12. /\ Told(key, total, revenue')
       /\ \A k, t : k # key /\ Told(k, t, revenue) => Told(k, t, revenue')
  BY <1>2, <1>8, <1>9, <1>11, ToldFirst
<1>13. /\ revenue' \in Seq(RevenueRow)
       /\ \A i \in 1..Len(revenue') : revenue'[i].key = key \/ \E j \in 1..Len(revenue) : revenue'[i] = revenue[j]
  BY <1>8, <1>9, <1>11
<1>14. /\ assessments' \in [Keys -> AssessmentRow \union {None}] /\ assessments'[key] = a
       /\ \A k \in Keys \ {key} : assessments'[k] = assessments[k]
  BY <1>7, <1>9, <1>11
<1>15. a # None
  BY <1>7, AssessmentRows
<1>16. \A i \in 1..Len(revenue') : assessments'[revenue'[i].key] # None
  BY <1>11, <1>13, <1>14, <1>15
<1>17. ASSUME NEW k \in Keys, assessments'[k] # None
       PROVE  /\ Priced(assessments'[k], schedules[assessments'[k].schedule])
              /\ Told(k, assessments'[k].total, revenue')
  <2>1. CASE k = key
    BY <1>3, <1>7, <1>10, <1>12, <1>14, <2>1
  <2>2. CASE k # key
    <3>1. assessments'[k] = assessments[k]
      BY <1>14, <2>2
    <3>2. Priced(assessments[k], schedules[assessments[k].schedule]) /\ Told(k, assessments[k].total, revenue)
      BY <1>17, <3>1 DEF PricesInv
    <3> QED BY <1>12, <2>2, <3>1, <3>2
  <2> QED BY <2>1, <2>2
<1>18. ScheduleKept'
  BY <1>2 DEF PricesInv, ScheduleKept
<1> QED
  BY <1>2, <1>13, <1>14, <1>16, <1>17, <1>18 DEF PricesInv

\* The passenger count a cruise call is assessed by is one it was given.
CruiseKept == cruise \in [CruiseCalls -> CruiseRow \union {None}]

LEMMA CruiseRows ==
    ASSUME NEW row \in CruiseRow
    PROVE  row # None /\ row.pax \in PaxCounts /\ row.version \in 1..MaxVersion
BY DuesAssumptions DEF CruiseRow

LEMMA OneCruiseWritten ==
    ASSUME CruiseKept, NEW c \in CruiseCalls, NEW row \in CruiseRow, cruise' = [cruise EXCEPT ![c] = row]
    PROVE  CruiseKept'
BY DEF CruiseKept

LEMMA UpdateKeepsCruise ==
    ASSUME CruiseKept, NEW c \in CruiseCalls, NEW v \in 1..MaxVersion, NEW row \in CruiseRow, Update(c, v, row)
    PROVE  CruiseKept' /\ UNCHANGED <<schedules, assessments, revenue>> /\ emitted < MaxEvents /\ emitted' = emitted + 1
<1>1. PICK next : next = [row EXCEPT !.version = v + 1]
  OBVIOUS
<1>2. /\ cruise' = [cruise EXCEPT ![c] = next] /\ v < MaxVersion
      /\ UNCHANGED <<schedules, assessments, revenue>> /\ emitted < MaxEvents /\ emitted' = emitted + 1
  BY <1>1 DEF Update, emit
<1>3. next \in CruiseRow
  BY <1>1, <1>2, DuesAssumptions DEF CruiseRow
<1> QED BY <1>2, <1>3, OneCruiseWritten

DuesInv == OpsInv /\ CruiseKept /\ PricesInv /\ emitted \in 0..MaxEvents

LEMMA UntouchedPrices ==
    ASSUME PricesInv, UNCHANGED <<schedules, assessments, revenue>>
    PROVE  PricesInv'
BY DEF PricesInv, ScheduleKept

LEMMA Emits ==
    ASSUME emitted \in 0..MaxEvents, emit
    PROVE  emitted' \in 0..MaxEvents
BY DuesAssumptions DEF emit

LEMMA OffshoreKeepsDues ==
    ASSUME DuesInv, PricesNatural, NEW c \in OffshoreCalls, offshoreCallOperation(c)
    PROVE  CruiseKept' /\ PricesInv' /\ emitted' \in 0..MaxEvents
<1>1. OpsInv /\ CruiseKept /\ PricesInv /\ emitted \in 0..MaxEvents
  BY DEF DuesInv
<1>2. ASSUME NEW next, TransitionOffshore(c, next)
      PROVE  CruiseKept' /\ PricesInv' /\ emitted' \in 0..MaxEvents
  <2>1. UNCHANGED <<schedules, cruise, assessments, revenue>> /\ emit
    BY <1>2 DEF TransitionOffshore, Record
  <2> QED BY <1>1, <2>1, UntouchedPrices, Emits DEF CruiseKept
<1>3. ASSUME NEW type, RecordEvent(c, type)
      PROVE  CruiseKept' /\ PricesInv' /\ emitted' \in 0..MaxEvents
  <2>1. UNCHANGED <<schedules, cruise, assessments, revenue>> /\ emit
    BY <1>3 DEF RecordEvent, Record
  <2> QED BY <1>1, <2>1, UntouchedPrices, Emits DEF CruiseKept
<1>4. ASSUME NEW key \in Keys, NEW asOf \in Instants, Assess(c, key, asOf)
      PROVE  CruiseKept' /\ PricesInv' /\ emitted' \in 0..MaxEvents
  <2>1. PICK facts : facts = [gross |-> offshore[c].facts.gross, cargo |-> offshore[c].facts.cargo, pax |-> 0]
    OBVIOUS
  <2>2. offshore[c] # None /\ RecordAssessmentTx(key, "OFFSHORE_TERMINAL", c, facts, asOf)
    BY <1>4, <2>1 DEF Assess
  <2>3. offshore[c] \in OffshoreRow
    BY <1>1, <2>2 DEF OpsInv
  <2>4. facts \in CallFacts
    BY <2>1, <2>3, OffshoreRows DEF CallFacts
  <2>5. PricesInv'
    <3>1. c \in OffshoreCalls \union CruiseCalls /\ "OFFSHORE_TERMINAL" \in {"OFFSHORE_TERMINAL", "CRUISE_DUES"}
      OBVIOUS
    <3> QED BY <1>1, <2>2, <2>4, <3>1, RecordKeepsPrices
  <2>6. cruise' = cruise /\ emit
    BY <2>2 DEF RecordAssessmentTx, callVars
  <2> QED BY <1>1, <2>5, <2>6, Emits DEF CruiseKept
<1> QED
  BY <1>2, <1>3, <1>4 DEF offshoreCallOperation

LEMMA CruiseKeepsDues ==
    ASSUME DuesInv, PricesNatural, NEW c \in CruiseCalls, cruiseCallOperation(c)
    PROVE  CruiseKept' /\ PricesInv' /\ emitted' \in 0..MaxEvents
<1>1. CruiseKept /\ PricesInv /\ emitted \in 0..MaxEvents
  BY DEF DuesInv
<1>2. ASSUME NEW v \in 1..MaxVersion, NEW row \in CruiseRow, Update(c, v, row)
      PROVE  CruiseKept' /\ PricesInv' /\ emitted' \in 0..MaxEvents
  <2>1. CruiseKept' /\ UNCHANGED <<schedules, assessments, revenue>> /\ emitted < MaxEvents /\ emitted' = emitted + 1
    BY <1>1, <1>2, UpdateKeepsCruise
  <2> QED BY <1>1, <2>1, UntouchedPrices, DuesAssumptions
<1>3. ASSUME NEW v \in 1..MaxVersion, NEW next \in {"CONFIRMED", "ARRIVED", "COMPLETED", "CANCELLED"},
             TransitionCruise(c, v, next)
      PROVE  CruiseKept' /\ PricesInv' /\ emitted' \in 0..MaxEvents
  <2>1. PICK row : row = [cruise[c] EXCEPT !.status = next]
    OBVIOUS
  <2>2. Update(c, v, row) /\ cruise[c] \in CruiseRow
    BY <1>1, <1>3, <2>1 DEF TransitionCruise, CruiseKept
  <2>3. row \in CruiseRow
    BY <2>1, <2>2 DEF CruiseRow
  <2> QED BY <1>2, <2>2, <2>3
<1>4. ASSUME NEW v \in 1..MaxVersion, NEW pax \in PaxCounts, UpdatePaxCount(c, v, pax)
      PROVE  CruiseKept' /\ PricesInv' /\ emitted' \in 0..MaxEvents
  <2>1. PICK row : row = [cruise[c] EXCEPT !.pax = pax]
    OBVIOUS
  <2>2. Update(c, v, row) /\ cruise[c] \in CruiseRow
    BY <1>1, <1>4, <2>1 DEF UpdatePaxCount, Open, CruiseKept
  <2>3. row \in CruiseRow
    BY <2>1, <2>2 DEF CruiseRow
  <2> QED BY <1>2, <2>2, <2>3
<1>5. ASSUME (\E key \in ExcursionKeys, pax \in PaxCounts : AddExcursion(c, key, pax))
             \/ (\E key \in TenderKeys, berth \in Berths, w \in Windows : AllocateTender(c, key, berth, w))
      PROVE  CruiseKept' /\ PricesInv' /\ emitted' \in 0..MaxEvents
  <2>1. UNCHANGED <<schedules, cruise, assessments, revenue>> /\ emit
    BY <1>5 DEF AddExcursion, AllocateTender
  <2> QED BY <1>1, <2>1, UntouchedPrices, Emits DEF CruiseKept
<1>6. ASSUME NEW key \in Keys, NEW asOf \in Instants, AssessDues(c, key, asOf)
      PROVE  CruiseKept' /\ PricesInv' /\ emitted' \in 0..MaxEvents
  <2>1. PICK facts : facts = [gross |-> 0, cargo |-> 0, pax |-> cruise[c].pax]
    OBVIOUS
  <2>2. cruise[c] # None /\ RecordAssessmentTx(key, "CRUISE_DUES", c, facts, asOf)
    BY <1>6, <2>1 DEF AssessDues
  <2>3. cruise[c] \in CruiseRow
    BY <1>1, <2>2 DEF CruiseKept
  <2>4. facts \in CallFacts
    BY <2>1, <2>3, CruiseRows DEF CallFacts
  <2>5. PricesInv'
    <3>1. c \in OffshoreCalls \union CruiseCalls /\ "CRUISE_DUES" \in {"OFFSHORE_TERMINAL", "CRUISE_DUES"}
      OBVIOUS
    <3> QED BY <1>1, <2>2, <2>4, <3>1, RecordKeepsPrices
  <2>6. cruise' = cruise /\ emit
    BY <2>2 DEF RecordAssessmentTx, callVars
  <2> QED BY <1>1, <2>5, <2>6, Emits DEF CruiseKept
<1> QED
  BY <1>3, <1>4, <1>5, <1>6 DEF cruiseCallOperation

LEMMA StepKeepsDues ==
    ASSUME DuesInv, PricesNatural, [DuesNext]_duesVars
    PROVE  DuesInv'
<1>1. OpsInv /\ CruiseKept /\ PricesInv /\ emitted \in 0..MaxEvents
  BY DEF DuesInv
<1>2. OpsInv'
  BY <1>1, StepKeepsOps
<1>3. ASSUME NEW s \in Offered, RegisterScheduleTx(s)
      PROVE  CruiseKept' /\ PricesInv' /\ emitted' \in 0..MaxEvents
  <2>1. cruise' = cruise /\ emitted' = emitted
    BY <1>3 DEF RegisterScheduleTx, callVars
  <2>2. PricesInv'
    BY <1>1, <1>3, RegisterKeepsPrices
  <2> QED BY <1>1, <2>1, <2>2 DEF CruiseKept
<1>4. ASSUME NEW c \in OffshoreCalls, NEW tanker \in Tankers, CreateOffshore(c, tanker)
      PROVE  CruiseKept' /\ PricesInv' /\ emitted' \in 0..MaxEvents
  <2>1. UNCHANGED <<schedules, cruise, assessments, revenue>> /\ emit
    BY <1>4 DEF CreateOffshore
  <2> QED BY <1>1, <2>1, UntouchedPrices, Emits DEF CruiseKept
<1>5. ASSUME NEW c \in CruiseCalls, NEW p \in PortCalls, NEW pax \in PaxCounts, CreateCruise(c, p, pax)
      PROVE  CruiseKept' /\ PricesInv' /\ emitted' \in 0..MaxEvents
  <2>1. PICK row : row = [port |-> p, pax |-> pax, status |-> "PLANNED", version |-> 1]
    OBVIOUS
  <2>2. row \in CruiseRow
    BY <2>1, DuesAssumptions DEF CruiseRow
  <2>3. UNCHANGED <<schedules, assessments, revenue>> /\ emit /\ cruise' = [cruise EXCEPT ![c] = row]
    BY <1>5, <2>1 DEF CreateCruise
  <2> QED BY <1>1, <2>2, <2>3, OneCruiseWritten, UntouchedPrices, Emits
<1>6. ASSUME UNCHANGED duesVars PROVE CruiseKept' /\ PricesInv' /\ emitted' \in 0..MaxEvents
  <2>1. UNCHANGED <<schedules, cruise, assessments, revenue, emitted>>
    BY <1>6 DEF duesVars, callVars
  <2> QED BY <1>1, <2>1, UntouchedPrices DEF CruiseKept
<1>7. CruiseKept' /\ PricesInv' /\ emitted' \in 0..MaxEvents
  BY <1>3, <1>4, <1>5, <1>6, OffshoreKeepsDues, CruiseKeepsDues DEF DuesNext
<1> QED BY <1>2, <1>7 DEF DuesInv

LEMMA InitDues == DuesInit => DuesInv
<1> SUFFICES ASSUME DuesInit PROVE DuesInv
  OBVIOUS
<1>1. OpsInv
  BY InitOps
<1>2. /\ schedules = [id \in Ids |-> None] /\ cruise = [c \in CruiseCalls |-> None]
      /\ assessments = [k \in Keys |-> None] /\ revenue = <<>> /\ emitted = 0
  BY DEF DuesInit
<1>3. CruiseKept /\ emitted \in 0..MaxEvents
  BY <1>2, DuesAssumptions DEF CruiseKept
<1>4. PricesInv
  BY <1>2 DEF PricesInv, ScheduleKept
<1> QED BY <1>1, <1>3, <1>4 DEF DuesInv

LEMMA DuesInvRecomputes == DuesInv => DuesRecomputable /\ DuesTypeOK
<1> SUFFICES ASSUME DuesInv PROVE DuesRecomputable /\ DuesTypeOK
  OBVIOUS
<1>1. OpsInv /\ CruiseKept /\ PricesInv /\ emitted \in 0..MaxEvents
  BY DEF DuesInv
<1>2. DuesTypeOK
  BY <1>1 DEF DuesTypeOK, OpsInv, CruiseKept, PricesInv, ScheduleKept
<1>3. ASSUME NEW k \in Rows(assessments)
      PROVE  /\ Priced(assessments[k], schedules[assessments[k].schedule])
             /\ Told(k, assessments[k].total, revenue)
  <2>1. k \in Keys /\ assessments[k] # None
    BY <1>1 DEF Rows, PricesInv
  <2> QED BY <1>1, <2>1 DEF PricesInv
<1>4. \A k, total : Told(k, total, revenue) =>
        /\ {i \in 1..Len(revenue) : revenue[i].key = k} # {}
        /\ \A i, j \in 1..Len(revenue) :
             revenue[i].key = k /\ revenue[j].key = k => i = j /\ revenue[i].total = total
  BY DEF Told
<1>5. DuesRecomputable
  BY <1>3, <1>4 DEF DuesRecomputable, Priced
<1> QED BY <1>2, <1>5

\* What a recorded assessment charges can be recomputed at any later time from
\* the schedule it is pinned to, and finance was told it once, for any
\* schedules, calls and keys (tariff.Compute and RecordAssessmentTx).
THEOREM DuesStayRecomputable == PricesNatural => (DuesSpec => []DuesRecomputable)
<1> SUFFICES ASSUME PricesNatural PROVE DuesSpec => []DuesRecomputable
  OBVIOUS
<1>1. DuesInv /\ [DuesNext]_duesVars => DuesInv'
  BY StepKeepsDues
<1> QED BY <1>1, InitDues, DuesInvRecomputes, PTL DEF DuesSpec

\* The rows of schedules, calls and assessments keep their types; a recorded
\* total is a non-negative int64 (the same operations).
THEOREM DuesTyped == PricesNatural => (DuesSpec => []DuesTypeOK)
<1> SUFFICES ASSUME PricesNatural PROVE DuesSpec => []DuesTypeOK
  OBVIOUS
<1>1. DuesInv /\ [DuesNext]_duesVars => DuesInv'
  BY StepKeepsDues
<1> QED BY <1>1, InitDues, DuesInvRecomputes, PTL DEF DuesSpec
=============================================================================
