----------------------------- MODULE Declarations -----------------------------
(***************************************************************************)
(* internal/declarations: revisions of customs declarations, their         *)
(* submission, the call to the risk scorer between two transactions, and   *)
(* the clearance the booking side relies on.                               *)
(*                                                                         *)
(* The submit handler runs Submit and then AssessRisk.  AssessRisk reads   *)
(* the row, asks the accreditation registry and the scorer outside any     *)
(* transaction, and decides in a second transaction that checks version    *)
(* and status again; the server may die, or the caller hang up, between    *)
(* any two of these.                                                       *)
(***************************************************************************)
EXTENDS DeclarationRules, FiniteSets

CONSTANTS
    Ids,          \* declaration rows, one per revision
    Refs,         \* declaration references
    Traders,
    Requests,     \* request ids chosen by callers
    Answers,      \* what the scorer may answer: [score, sanctioned, model]
    Weights,      \* booking weights
    Parties,      \* consignee and operator of a booking
    None,         \* no row, no answer
    MaxPermits    \* bound on the declarations with a permit

ASSUME DeclAssumptions == None \notin Ids /\ MaxPermits \in Nat

VARIABLES
    decls,     \* customs_declarations: per id a row, or None
    permits,   \* declaration_permits of the one agency: per id its state
    certs,     \* ids with a clearance certificate
    calls,     \* per id the assessment under way, or None
    matched    \* <<ref, id>>: bookings matched against that revision

declVars == <<decls, permits, certs, calls, matched>>

Status == {"DRAFT", "SUBMITTED", "YELLOW_LANE", "RED_LANE", "CLEARED", "SCORING_UNAVAILABLE", "SUPERSEDED"}

\* The duty of a row: -1 until it is submitted.
Duties == {-1} \union {CalculateDuty(k) : k \in Contents}

\* A row, and an assessment under way.
DeclRow ==
    [ref : Refs, revision : Nat, supersedes : Ids \union {None}, request : Requests \X Nat, trader : Traders,
     content : Contents, status : Status, version : Nat, duty : Duties,
     verdict : Answers \union {None}, verified : BOOLEAN]
DeclCall ==
    [stage : {"submitted", "read", "scored"}, version : Nat, verified : BOOLEAN, answer : Answers \union {None}]

ASSUME RowAssumptions == None \notin DeclRow /\ None \notin DeclCall

\* A bug: a cleared declaration may be amended.
AmendableCleared(status) == status # "SUPERSEDED"

\* REJECTED, RISK_ASSESSED and GREEN_LANE are in the table of the code and no
\* operation writes them.
Amendable(status) == status \notin {"CLEARED", "SUPERSEDED"}

LaneStatus(lane) == CASE lane = "GREEN" -> "CLEARED" [] lane = "YELLOW" -> "YELLOW_LANE" [] lane = "RED" -> "RED_LANE"

Rows == {d \in Ids : decls[d] # None}
Live(r) == {d \in Rows : decls[d].ref = r /\ decls[d].status # "SUPERSEDED"}

DeclInit ==
    /\ decls = [d \in Ids |-> None]
    /\ permits = [d \in Ids |-> "NONE"]
    /\ certs = {}
    /\ calls = [d \in Ids |-> None]
    /\ matched = {}

NewRow(r, revision, supersedes, request, trader, k) ==
    [ref |-> r, revision |-> revision, supersedes |-> supersedes, request |-> request, trader |-> trader,
     content |-> k, status |-> "DRAFT", version |-> 1, duty |-> -1, verdict |-> None, verified |-> FALSE]

\* (tenant_id, request_id), (tenant_id, declaration_ref, revision) and the
\* live-revision index.
Insertable(d, r, revision, request) ==
    /\ decls[d] = None
    /\ \A e \in Rows : /\ decls[e].request # request
                       /\ ~(decls[e].ref = r /\ decls[e].revision = revision)

-----------------------------------------------------------------------------
(* Drafts, submission, permits.                                            *)

\* A repeated request returns the retained row and changes nothing.
Create(d, r, request, trader, k) ==
    /\ Insertable(d, r, 1, request)
    /\ Live(r) = {}
    /\ decls' = [decls EXCEPT ![d] = NewRow(r, 1, None, request, trader, k)]
    /\ UNCHANGED <<permits, certs, calls, matched>>

RegisterPermit(d) ==
    /\ d \in Rows /\ permits[d] = "NONE"
    /\ Cardinality({e \in Ids : permits[e] # "NONE"}) < MaxPermits
    /\ permits' = [permits EXCEPT ![d] = "PENDING"]
    /\ UNCHANGED <<decls, certs, calls, matched>>

\* The agency's answer, and the day its permit runs out.
AgencyDecides(d, answer) ==
    /\ \/ permits[d] = "PENDING" /\ answer \in {"APPROVED", "REJECTED"}
       \/ permits[d] = "APPROVED" /\ answer = "LAPSED"
    /\ permits' = [permits EXCEPT ![d] = answer]
    /\ UNCHANGED <<decls, certs, calls, matched>>

permitsBlockSubmit(d) == permits[d] \notin {"NONE", "APPROVED"}

\* The handler submits and goes on to the assessment.
Submit(d, trader) ==
    /\ d \in Rows /\ decls[d].trader = trader
    /\ decls[d].status = "DRAFT"
    /\ ~permitsBlockSubmit(d)
    /\ CalculateDuty(decls[d].content) >= 0
    /\ decls' = [decls EXCEPT ![d].status = "SUBMITTED", ![d].version = @ + 1,
                              ![d].duty = CalculateDuty(decls[d].content)]
    /\ calls' = [calls EXCEPT ![d] = [stage |-> "submitted", version |-> decls[d].version + 1,
                                       verified |-> FALSE, answer |-> None]]
    /\ UNCHANGED <<permits, certs, matched>>

-----------------------------------------------------------------------------
(* Assessment.                                                             *)

\* A bug: the second transaction trusts what the first one read.
CurrentTrusting(d) == calls[d].stage = "scored" \/ decls[d].status = "SUBMITTED"

Current(d) == decls[d].version = calls[d].version /\ decls[d].status = "SUBMITTED"

\* The first transaction of AssessRisk.
Snapshot(d) ==
    /\ calls[d] # None /\ calls[d].stage = "submitted"
    /\ calls' = [calls EXCEPT ![d] = IF Current(d) THEN [@ EXCEPT !.stage = "read"] ELSE None]
    /\ UNCHANGED <<decls, permits, certs, matched>>

\* What resolveAEO hears from the accreditation registry at this moment, a
\* failure counting as unconfirmed, and what the scorer says: its retries,
\* circuit breaker and malformed answers all come to no answer.
Score(d, answer, verified) ==
    /\ calls[d] # None /\ calls[d].stage = "read"
    /\ calls' = [calls EXCEPT ![d] = [@ EXCEPT
            !.stage = "scored",
            !.verified = verified,
            !.answer = IF answer = None THEN None ELSE IF validateScorerVerdict(answer) THEN answer ELSE None]]
    /\ UNCHANGED <<decls, permits, certs, matched>>

\* The second transaction: no answer parks the declaration, a green lane
\* clears it and issues the certificate.
AssessRisk(d) ==
    LET call == calls[d]
        k == decls[d].content
        lane == ApplyAEOClaimGuard(AssignRiskLane(call.answer.score, call.answer.sanctioned, k, call.verified),
                                   k.claimsAEO, call.verified)
        status == IF call.answer = None THEN "SCORING_UNAVAILABLE" ELSE LaneStatus(lane)
    IN /\ call # None /\ call.stage = "scored"
       /\ calls' = [calls EXCEPT ![d] = None]
       /\ IF Current(d)
            THEN /\ decls' = [decls EXCEPT ![d].status = status, ![d].version = @ + 1,
                                           ![d].verdict = call.answer, ![d].verified = call.verified]
                 /\ certs' = IF status = "CLEARED" THEN certs \union {d} ELSE certs
            ELSE UNCHANGED <<decls, certs>>
       /\ UNCHANGED <<permits, matched>>

\* The server dies or the caller hangs up.
CallLost(d) ==
    /\ calls[d] # None
    /\ calls' = [calls EXCEPT ![d] = None]
    /\ UNCHANGED <<decls, permits, certs, matched>>

-----------------------------------------------------------------------------
(* Amendment.                                                              *)

\* A request id that the head already carries is stored in a derived form; a
\* request id of another declaration is a conflict, a repeated one returns
\* the revision it wrote.
Amend(h, d, r, trader, k) ==
    LET head == decls[h]
        request == IF head.request = <<r, 0>> THEN <<r, head.revision + 1>> ELSE <<r, 0>>
    IN /\ h \in Rows /\ head.trader = trader
       /\ \A e \in Rows \ {h} : decls[e].request # <<r, 0>>
       /\ Amendable(head.status)
       /\ Insertable(d, head.ref, head.revision + 1, request)
       /\ decls' = [decls EXCEPT ![h].status = "SUPERSEDED", ![h].version = @ + 1,
                                 ![d] = NewRow(head.ref, head.revision + 1, h, request, trader, k)]
       /\ UNCHANGED <<permits, certs, calls, matched>>

-----------------------------------------------------------------------------
(* The booking side.                                                       *)

\* The live revision of a reference, the one the booking side reads.
HeadByRef(r) ==
    CHOOSE d \in Live(r) : \A e \in Live(r) : decls[e].revision <= decls[d].revision

\* LocalValidator.Declaration and Evaluate, for a booking of that weight and
\* those parties.
CustomsMatch(r, weight, party) ==
    /\ Live(r) # {}
    /\ LET d == HeadByRef(r) IN
        /\ Evaluate(decls[d].status, decls[d].content, weight, party)
        /\ matched' = matched \union {<<r, d>>}
    /\ UNCHANGED <<decls, permits, certs, calls>>

DeclNext ==
    \/ \E d \in Ids, r \in Refs, q \in Requests, t \in Traders, k \in Contents : Create(d, r, <<q, 0>>, t, k)
    \/ \E h, d \in Ids, q \in Requests, t \in Traders, k \in Contents : Amend(h, d, q, t, k)
    \/ \E d \in Ids :
        \/ RegisterPermit(d)
        \/ \E answer \in {"APPROVED", "REJECTED", "LAPSED"} : AgencyDecides(d, answer)
        \/ \E t \in Traders : Submit(d, t)
        \/ Snapshot(d)
        \/ \E answer \in Answers \union {None}, verified \in BOOLEAN : Score(d, answer, verified)
        \/ AssessRisk(d)
        \/ CallLost(d)
    \/ \E r \in Refs, w \in Weights, p \in Parties : CustomsMatch(r, w, p)

DeclSpec == DeclInit /\ [][DeclNext]_declVars

-----------------------------------------------------------------------------
(* Properties.                                                             *)

\* Type of the state.
DeclTypeOK ==
    /\ decls \in [Ids -> DeclRow \union {None}]
    /\ permits \in [Ids -> {"NONE", "PENDING", "APPROVED", "REJECTED", "LAPSED"}]
    /\ certs \subseteq Ids
    /\ calls \in [Ids -> DeclCall \union {None}]
    /\ matched \subseteq Refs \X Ids

\* The revisions of a reference are numbered without gaps, each supersedes
\* the one before it for the same trader, and only the newest is live: an
\* amendment racing an assessment never leaves two (Amend, AssessRisk).
RevisionChain ==
    \A d \in Rows :
        /\ decls[d].revision = 1 <=> decls[d].supersedes = None
        /\ decls[d].supersedes # None =>
             LET p == decls[decls[d].supersedes] IN
             /\ p.ref = decls[d].ref /\ p.trader = decls[d].trader
             /\ p.revision = decls[d].revision - 1
             /\ p.status = "SUPERSEDED"
        /\ \A e \in Rows \ {d} : decls[d].ref = decls[e].ref =>
             decls[d].status = "SUPERSEDED" \/ decls[e].status = "SUPERSEDED"

\* Duty and value-added tax of a content, each rounded half up.
ExactDuty(k) ==
    LET round(x) == (x + Scale \div 2) \div Scale
        duty == round(k.amount * k.tariff)
    IN duty + round((k.amount + duty) * k.vat)

\* A declaration is cleared, with its certificate, only on a well-formed
\* answer about that revision: no sanctioned party, a score that stays below
\* 40 with the surcharges of its own content and without the discount of an
\* accreditation the registry did not confirm, and the exact duty of that
\* content (AssessRisk, applyBPS; amounts within the width of an int64).
ClearanceEarned ==
    /\ {d \in Rows : decls[d].status = "CLEARED"} \subseteq certs
    /\ \A d \in certs :
        LET k == decls[d].content
            v == decls[d].verdict
            surcharge == (IF k.highRisk THEN 20 ELSE 0) + (IF k.controlled THEN 15 ELSE 0)
                            + (IF HighValue > 0 /\ k.amount > HighValue THEN 10 ELSE 0)
        IN /\ v # None /\ v.score \in 0..100 /\ ~v.sanctioned
           /\ v.score + surcharge < 40 + (IF decls[d].verified THEN 20 ELSE 0)
           /\ k.claimsAEO => decls[d].verified
           /\ decls[d].duty = ExactDuty(k)

\* What a booking was matched against stays the live, cleared revision of its
\* reference: the match cannot go stale between the check and the gate.
MatchNeverStale ==
    \A m \in matched : Live(m[1]) = {m[2]} /\ decls[m[2]].status = "CLEARED"
=============================================================================
