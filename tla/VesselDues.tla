------------------------------ MODULE VesselDues ------------------------------
(***************************************************************************)
(* internal/tariff with its two clients, internal/offshore and             *)
(* internal/cruise: tariff schedules that may be registered late and for   *)
(* a past window, calls whose facts change, and the revenue assessments    *)
(* priced from both, each recorded once under its idempotency key.         *)
(*                                                                         *)
(* Every operation locks the row of its call first, so it is one step.  A  *)
(* replay under a retained key and a refused request leave the state as it *)
(* is and are not steps.                                                   *)
(***************************************************************************)
EXTENDS Integers, Sequences, FiniteSets, FiniteSetsExt

CONSTANTS
    Offered,        \* schedules an administrator may register, several per id:
                    \* [id, domain, from, to, active, rules]
    OffshoreCalls, CruiseCalls,
    Tankers,        \* [gross, cargo]: the facts a tanker may be nominated with
    PaxCounts,      \* passenger counts a manifest may state
    PortCalls,      \* port calls of the tenant
    Instants,       \* as-of instants of an assessment
    Keys,           \* idempotency keys of assessments
    ExcursionKeys, TenderKeys, Berths,
    Windows,        \* tender windows [start, end]
    MaxVersion,     \* bound on the version of a cruise call
    MaxEvents,      \* bound on the events in the platform outbox
    MaxInt64,       \* the largest int64; an operation wraps beyond it
    None

Ids == {s.id : s \in Offered}

MooringOrder ==
    <<"NOMINATED", "APPROACH_CLEARED", "MOORED", "HOSE_CONNECTED", "LOADING",
      "CUSTODY_TRANSFERRED", "DISCONNECTED", "DEPARTED">>

\* The facts a call is priced by.
CallFacts ==
    {[gross |-> t.gross, cargo |-> t.cargo, pax |-> 0] : t \in Tankers}
        \union {[gross |-> 0, cargo |-> 0, pax |-> p] : p \in PaxCounts}

OffshoreRow ==
    [facts : Tankers, master : BOOLEAN,
     status : {MooringOrder[i] : i \in 1..Len(MooringOrder)} \union {"CANCELLED"}]
CruiseRow ==
    [port : PortCalls, pax : PaxCounts, version : 1..MaxVersion,
     status : {"PLANNED", "CONFIRMED", "ARRIVED", "COMPLETED", "CANCELLED"}]
AssessmentRow ==
    [domain : {"OFFSHORE_TERMINAL", "CRUISE_DUES"}, call : OffshoreCalls \union CruiseCalls,
     schedule : Ids, asOf : Instants, facts : CallFacts, total : 0..MaxInt64]

\* None stands for no row.
ASSUME DuesAssumptions ==
    /\ None \notin Offered \union OffshoreRow \union CruiseRow \union AssessmentRow
    /\ MaxInt64 \in Nat /\ MaxVersion \in Nat \ {0} /\ MaxEvents \in Nat
    /\ IsFiniteSet(Offered)
    /\ \A s \in Offered : s.id \in Nat /\ s.from \in Nat /\ s.from < s.to /\ s.rules # {}
    /\ \A s \in Offered : \A r, q \in s.rules :
        r.component = q.component /\ r.bandMin = q.bandMin => r = q

VARIABLES
    schedules,      \* tariff_schedules with their tariff_rules, per id
    offshore,       \* offshore_terminal_calls: per id a row, or None
    trail,          \* offshore_call_events and status changes of a call, in order
    cruise,         \* cruise_calls: per id a row, or None
    excursions,     \* cruise_excursions: per key a row, or None
    tenders,        \* cruise_tender_allocations: per key a row, or None
    assessments,    \* revenue_assessments: per key a row, or None
    revenue,        \* finance.revenue-assessments.v1 events, in order
    emitted         \* number of events in platform_outbox

callVars == <<offshore, trail, cruise, excursions, tenders>>
duesVars == <<schedules, callVars, assessments, revenue, emitted>>

Rows(table) == {x \in DOMAIN table : table[x] # None}

DuesInit ==
    /\ schedules = [id \in Ids |-> None]
    /\ offshore = [c \in OffshoreCalls |-> None]
    /\ trail = [c \in OffshoreCalls |-> <<>>]
    /\ cruise = [c \in CruiseCalls |-> None]
    /\ excursions = [k \in ExcursionKeys |-> None]
    /\ tenders = [k \in TenderKeys |-> None]
    /\ assessments = [k \in Keys |-> None]
    /\ revenue = <<>>
    /\ emitted = 0

emit == emitted < MaxEvents /\ emitted' = emitted + 1

-----------------------------------------------------------------------------
(* Tariff schedules and the price of a call                                *)

\* Mutant of RegisterScheduleTx: a registration under a known id replaces the
\* rules.
RegisterScheduleTxUpsert(s) ==
    /\ schedules' = [schedules EXCEPT ![s.id] = s]
    /\ UNCHANGED <<callVars, assessments, revenue, emitted>>

\* A schedule is immutable: its id is taken once, and a later registration
\* of the id answers for the retained one or fails, whatever its rules.
RegisterScheduleTx(s) ==
    /\ schedules[s.id] = None
    /\ schedules' = [schedules EXCEPT ![s.id] = s]
    /\ UNCHANGED <<callVars, assessments, revenue, emitted>>

EffectiveAt(s, asOf) == s.active /\ s.from <= asOf /\ asOf < s.to

Covering(domain, asOf) ==
    {schedules[id] : id \in {i \in Rows(schedules) : schedules[i].domain = domain
                                                   /\ EffectiveAt(schedules[i], asOf)}}

\* The newest schedule in force, the larger id between two of one instant.
LoadEffective(domain, asOf) ==
    CHOOSE s \in Covering(domain, asOf) :
        \A o \in Covering(domain, asOf) \ {s} : o.from < s.from \/ (o.from = s.from /\ o.id < s.id)

InBand(r, facts) == facts.gross >= r.bandMin /\ facts.gross < r.bandMax

Applies(r, facts) == r.unit = "PER_GT_BAND" => InBand(r, facts)

Quantity(r, facts) ==
    CASE r.unit \in {"PER_GRT", "PER_GT_BAND"} -> facts.gross
      [] r.unit = "PER_TON"  -> facts.cargo
      [] r.unit = "PER_PAX"  -> facts.pax
      [] r.unit = "PER_CALL" -> 1

LineItems(s, facts) ==
    {[rule |-> r, quantity |-> Quantity(r, facts)] : r \in {q \in s.rules : Applies(q, facts)}}

Exact(items) == MapThenSumSet(LAMBDA i : i.rule.amount * i.quantity, items)

\* The int64 arithmetic of the total, and the test that refuses a product or
\* a running total (a sum of non-negative amounts) before it wraps.
Total(items) == ((Exact(items) + MaxInt64 + 1) % (2 * (MaxInt64 + 1))) - (MaxInt64 + 1)

\* Mutant of ErrOverflow: each product is guarded, the running total is not.
ErrOverflowPerItem(items) ==
    \E i \in items : i.rule.amount # 0 /\ i.quantity > MaxInt64 \div i.rule.amount

ErrOverflow(items) ==
    \/ \E i \in items : i.rule.amount # 0 /\ i.quantity > MaxInt64 \div i.rule.amount
    \/ Exact(items) > MaxInt64

bandedComponents(s) == {r.component : r \in {q \in s.rules : q.unit = "PER_GT_BAND"}}

ErrBandGap(s, items) ==
    \E comp \in bandedComponents(s) :
        \A i \in items : ~(i.rule.component = comp /\ i.rule.unit = "PER_GT_BAND")

\* The price of the call is computed from the schedule in force at the as-of
\* instant, or the request fails; the row and its event are one transaction.
RecordAssessmentTx(key, domain, c, facts, asOf) ==
    /\ assessments[key] = None
    /\ Covering(domain, asOf) # {}
    /\ LET s == LoadEffective(domain, asOf)
           items == LineItems(s, facts)
       IN /\ ~ErrOverflow(items) /\ ~ErrBandGap(s, items) /\ items # {}
          /\ assessments' = [assessments EXCEPT ![key] =
                [domain |-> domain, call |-> c, schedule |-> s.id, asOf |-> asOf,
                 facts |-> facts, total |-> Total(items)]]
          /\ revenue' = Append(revenue, [key |-> key, call |-> c, total |-> Total(items)])
    /\ emit
    /\ UNCHANGED <<schedules, callVars>>

-----------------------------------------------------------------------------
(* Offshore terminal calls                                                 *)

Record(c, entry) ==
    /\ emit
    /\ trail' = [trail EXCEPT ![c] = Append(@, entry)]

CreateOffshore(c, tanker) ==
    /\ offshore[c] = None
    /\ offshore' = [offshore EXCEPT ![c] = [facts |-> tanker, status |-> "NOMINATED", master |-> FALSE]]
    /\ emit
    /\ UNCHANGED <<schedules, trail, cruise, excursions, tenders, assessments, revenue>>

ValidMooring(from, next) ==
    \/ \E i \in 1..(Len(MooringOrder) - 1) : MooringOrder[i] = from /\ MooringOrder[i + 1] = next
    \/ from \in {"NOMINATED", "APPROACH_CLEARED"} /\ next = "CANCELLED"

\* The mooring master is named with the transition to MOORED and with no other.
\* A call that names an outdated version is refused and is no step: the rows have
\* no version here, for nothing but this check reads it.
TransitionOffshore(c, next) ==
    /\ offshore[c] # None
    /\ ValidMooring(offshore[c].status, next)
    /\ offshore' = [offshore EXCEPT ![c].status = next, ![c].master = @ \/ next = "MOORED"]
    /\ Record(c, next)
    /\ UNCHANGED <<schedules, cruise, excursions, tenders, assessments, revenue>>

EventTypes == {"HOSE_CONNECTION", "LOADING_ARM", "CUSTODY_METER_READING", "MOORING_NOTE"}

\* Mutant of EventAllowed: a custody reading as soon as the hose is connected.
EventAllowedEarly(status, type) ==
    CASE type = "HOSE_CONNECTION" -> status \in {"MOORED", "HOSE_CONNECTED"}
      [] type = "LOADING_ARM" -> status \in {"HOSE_CONNECTED", "LOADING"}
      [] type = "CUSTODY_METER_READING" -> status \in {"HOSE_CONNECTED", "LOADING", "CUSTODY_TRANSFERRED"}
      [] type = "MOORING_NOTE" -> status \notin {"DEPARTED", "CANCELLED"}

EventAllowed(status, type) ==
    CASE type = "HOSE_CONNECTION" -> status \in {"MOORED", "HOSE_CONNECTED"}
      [] type = "LOADING_ARM" -> status \in {"HOSE_CONNECTED", "LOADING"}
      [] type = "CUSTODY_METER_READING" -> status \in {"LOADING", "CUSTODY_TRANSFERRED"}
      [] type = "MOORING_NOTE" -> status \notin {"DEPARTED", "CANCELLED"}

RecordEvent(c, type) ==
    /\ offshore[c] # None
    /\ EventAllowed(offshore[c].status, type)
    /\ Record(c, type)
    /\ UNCHANGED <<schedules, offshore, cruise, excursions, tenders, assessments, revenue>>

Assess(c, key, asOf) ==
    /\ offshore[c] # None
    /\ RecordAssessmentTx(key, "OFFSHORE_TERMINAL", c,
            [gross |-> offshore[c].facts.gross, cargo |-> offshore[c].facts.cargo, pax |-> 0], asOf)

-----------------------------------------------------------------------------
(* Cruise calls                                                            *)

CreateCruise(c, p, pax) ==
    /\ cruise[c] = None
    /\ p \in PortCalls
    /\ cruise' = [cruise EXCEPT ![c] = [port |-> p, pax |-> pax, status |-> "PLANNED", version |-> 1]]
    /\ emit
    /\ UNCHANGED <<schedules, offshore, trail, excursions, tenders, assessments, revenue>>

Open(c) == cruise[c] # None /\ cruise[c].status \notin {"COMPLETED", "CANCELLED"}

ValidTransition(from, next) ==
    \/ <<from, next>> \in {<<"PLANNED", "CONFIRMED">>, <<"CONFIRMED", "ARRIVED">>, <<"ARRIVED", "COMPLETED">>}
    \/ from \in {"PLANNED", "CONFIRMED"} /\ next = "CANCELLED"

\* Both updates of a cruise call name the version they were made from.
Update(c, expected, row) ==
    /\ cruise[c].version = expected /\ expected < MaxVersion
    /\ cruise' = [cruise EXCEPT ![c] = [row EXCEPT !.version = expected + 1]]
    /\ emit
    /\ UNCHANGED <<schedules, offshore, trail, excursions, tenders, assessments, revenue>>

TransitionCruise(c, expected, next) ==
    /\ cruise[c] # None
    /\ ValidTransition(cruise[c].status, next)
    /\ Update(c, expected, [cruise[c] EXCEPT !.status = next])

UpdatePaxCount(c, expected, pax) ==
    /\ Open(c)
    /\ Update(c, expected, [cruise[c] EXCEPT !.pax = pax])

AddExcursion(c, key, pax) ==
    /\ Open(c)
    /\ excursions[key] = None
    /\ excursions' = [excursions EXCEPT ![key] = [call |-> c, pax |-> pax]]
    /\ emit
    /\ UNCHANGED <<schedules, offshore, trail, cruise, tenders, assessments, revenue>>

Overlap(w, v) == w.start < v.end /\ v.start < w.end

BerthFree(berth, w) ==
    \A k \in Rows(tenders) : tenders[k].berth = berth => ~Overlap(tenders[k].window, w)

AllocateTender(c, key, berth, w) ==
    /\ Open(c)
    /\ tenders[key] = None
    /\ BerthFree(berth, w)
    /\ tenders' = [tenders EXCEPT ![key] = [call |-> c, berth |-> berth, window |-> w]]
    /\ emit
    /\ UNCHANGED <<schedules, offshore, trail, cruise, excursions, assessments, revenue>>

\* A cancelled or completed call may still be assessed.
AssessDues(c, key, asOf) ==
    /\ cruise[c] # None
    /\ RecordAssessmentTx(key, "CRUISE_DUES", c, [gross |-> 0, cargo |-> 0, pax |-> cruise[c].pax], asOf)

-----------------------------------------------------------------------------
offshoreCallOperation(c) ==
    \/ \E next \in {MooringOrder[i] : i \in 1..Len(MooringOrder)} \union {"CANCELLED"} : TransitionOffshore(c, next)
    \/ \E type \in EventTypes : RecordEvent(c, type)
    \/ \E key \in Keys, asOf \in Instants : Assess(c, key, asOf)

cruiseCallOperation(c) ==
    \/ \E v \in 1..MaxVersion, next \in {"CONFIRMED", "ARRIVED", "COMPLETED", "CANCELLED"} :
            TransitionCruise(c, v, next)
    \/ \E v \in 1..MaxVersion, pax \in PaxCounts : UpdatePaxCount(c, v, pax)
    \/ \E key \in ExcursionKeys, pax \in PaxCounts : AddExcursion(c, key, pax)
    \/ \E key \in TenderKeys, berth \in Berths, w \in Windows : AllocateTender(c, key, berth, w)
    \/ \E key \in Keys, asOf \in Instants : AssessDues(c, key, asOf)

DuesNext ==
    \/ \E s \in Offered : RegisterScheduleTx(s)
    \/ \E c \in OffshoreCalls, tanker \in Tankers : CreateOffshore(c, tanker)
    \/ \E c \in CruiseCalls, p \in PortCalls, pax \in PaxCounts : CreateCruise(c, p, pax)
    \/ \E c \in OffshoreCalls : offshoreCallOperation(c)
    \/ \E c \in CruiseCalls : cruiseCallOperation(c)

DuesSpec == DuesInit /\ [][DuesNext]_duesVars

-----------------------------------------------------------------------------
(* Properties                                                              *)

DuesTypeOK ==
    /\ schedules \in [Ids -> Offered \union {None}]
    /\ offshore \in [OffshoreCalls -> OffshoreRow \union {None}]
    /\ cruise \in [CruiseCalls -> CruiseRow \union {None}]
    /\ assessments \in [Keys -> AssessmentRow \union {None}]
    /\ emitted \in 0..MaxEvents

\* What a recorded assessment charges can be recomputed at any later time:
\* the schedule it is pinned to was in force at its as-of instant and still
\* gives, in exact arithmetic, its total for its facts, with no banded
\* component left out; finance was told that total, and told it once
\* (tariff.Compute and RecordAssessmentTx), whatever happened since to the
\* schedules and to the call.
DuesRecomputable ==
    \A k \in Rows(assessments) :
        LET a == assessments[k]
            s == schedules[a.schedule]
        IN /\ s # None /\ EffectiveAt(s, a.asOf)
           /\ a.total = Exact(LineItems(s, a.facts)) /\ a.total <= MaxInt64
           /\ \A comp \in bandedComponents(s) :
                \E r \in s.rules : r.component = comp /\ InBand(r, a.facts)
           /\ {i \in 1..Len(revenue) : revenue[i].key = k} # {}
           /\ \A i, j \in 1..Len(revenue) :
                revenue[i].key = k /\ revenue[j].key = k => i = j /\ revenue[i].total = a.total

\* The record of an offshore call is a possible course of a tanker operation:
\* a hose is connected under a named mooring master, the arms move between
\* the first hose and the transfer of custody, a custody reading follows the
\* start of loading and nothing is connected after one
\* (offshore.EventAllowed with ValidTransition, over the whole record).
OperationsInOrder ==
    \A c \in Rows(offshore) :
        \A j \in 1..Len(trail[c]) :
            LET before == {trail[c][i] : i \in 1..(j - 1)}
            IN /\ trail[c][j] = "HOSE_CONNECTION" =>
                    /\ offshore[c].master /\ "MOORED" \in before
                    /\ "CUSTODY_METER_READING" \notin before
               /\ trail[c][j] = "LOADING_ARM" =>
                    "HOSE_CONNECTED" \in before /\ "CUSTODY_TRANSFERRED" \notin before
               /\ trail[c][j] = "CUSTODY_METER_READING" => "LOADING" \in before
               /\ trail[c][j] = "CANCELLED" => before \subseteq {"APPROACH_CLEARED", "MOORING_NOTE"}

=============================================================================
