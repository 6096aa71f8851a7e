------------------------------- MODULE PortCall -------------------------------
(***************************************************************************)
(* internal/portcall and the NSW ingress in front of it: port calls, their *)
(* documents, the clearance decision with its amendments, and the signed   *)
(* authority messages that create calls.                                   *)
(*                                                                         *)
(* The ingress reserves the identity of a message (its jti) in a statement *)
(* of its own and then runs the handler, so the server may die between the *)
(* two; the reservation lapses after a time, perhaps before the message    *)
(* itself expires.                                                         *)
(***************************************************************************)
EXTENDS Integers, Sequences, FiniteSets

CONSTANTS
    Calls,
    Docs,         \* (document type, digest) pairs a call may declare
    DocType,      \* Docs -> types
    Officers,
    Keys,         \* idempotency keys of HTTP callers
    Messages,     \* jti of the authority messages
    Expires,      \* Messages -> the moment a message expires
    MaxClockSkew,
    ReplayTTL,
    MaxTime,      \* bound on the clock
    MaxEvents,    \* Calls -> bound on the events of a call
    None

Decisions == {"APPROVED", "REJECTED"}
CallRow == [key : Keys \union Messages, version : Nat,
            status : {"DRAFT", "SUBMITTED", "ACCEPTED", "REJECTED"}]
DecisionRow == [verdict : Decisions, by : Officers, version : Nat]

\* None stands for no row and no expiry.
ASSUME PortCallAssumptions ==
    /\ None \notin Calls \union Messages \union Officers
    /\ None \notin CallRow /\ None \notin DecisionRow
    /\ MaxClockSkew \in Nat /\ ReplayTTL \in Nat \ {0} /\ MaxTime \in Nat
    /\ Expires \in [Messages -> Nat] /\ MaxEvents \in [Calls -> Nat]

VARIABLES
    profile,      \* latest activation event: "UNKNOWN", "ACTIVE" or "INACTIVE"
    calls,        \* port_calls: per id a row, or None
    docs,         \* port_call_documents: per call and document its status
    superseded,   \* per call the pairs <<original, replacement>>
    decision,     \* port_call_clearance_decisions: per call one row, or None
    amendments,   \* port_call_clearance_amendments, per call in order
    outbox,       \* port_call_outbox, per call in order
    reserved,     \* nsw_ingress_replay: per jti the expiry, or None
    handling,     \* <<jti, call>>: reserved, the handler not yet run
    now

callVars == <<profile, calls, docs, superseded, decision, amendments, outbox>>
portVars == <<profile, calls, docs, superseded, decision, amendments, outbox, reserved, handling, now>>

Rows == {c \in Calls : calls[c] # None}

PortCallInit ==
    /\ profile = "UNKNOWN"
    /\ calls = [c \in Calls |-> None]
    /\ docs = [c \in Calls |-> [d \in Docs |-> "NONE"]]
    /\ superseded = [c \in Calls |-> {}]
    /\ decision = [c \in Calls |-> None]
    /\ amendments = [c \in Calls |-> <<>>]
    /\ outbox = [c \in Calls |-> <<>>]
    /\ reserved = [m \in Messages |-> None]
    /\ handling = {}
    /\ now = 0

\* Every operation writes its event in its own transaction.
Emit(c, event) ==
    /\ Len(outbox[c]) < MaxEvents[c]
    /\ outbox' = [outbox EXCEPT ![c] = Append(@, event)]

-----------------------------------------------------------------------------
(* Agency profiles and creation.                                           *)

\* Registration appends REGISTERED, ACTIVATED or DEACTIVATED events to an
\* append-only ledger; the last one is in force.
RegisterAgencyProfile(active) ==
    /\ profile' = IF active THEN "ACTIVE" ELSE "INACTIVE"
    /\ UNCHANGED <<calls, docs, superseded, decision, amendments, outbox>>

ensureActiveAgencyProfile == profile = "ACTIVE"

\* A bug: the idempotency key is looked up among the drafts only.
KeyUnusedByDraft(key) == \A c \in Rows : calls[c].key = key => calls[c].status # "DRAFT"

KeyUnused(key) == \A c \in Rows : calls[c].key # key

\* A repeated key returns the retained call, or a conflict when the request
\* differs, and writes nothing.
Create(key, c) ==
    /\ ensureActiveAgencyProfile
    /\ KeyUnused(key)
    /\ calls[c] = None
    /\ calls' = [calls EXCEPT ![c] = [key |-> key, status |-> "DRAFT", version |-> 1]]
    /\ Emit(c, [type |-> "created", version |-> 1])
    /\ UNCHANGED <<profile, docs, superseded, decision, amendments>>

-----------------------------------------------------------------------------
(* Status and documents.                                                   *)

ValidTransition(current, next) ==
    \/ current = "DRAFT" /\ next \in {"SUBMITTED", "REJECTED"}
    \/ current = "SUBMITTED" /\ next \in {"ACCEPTED", "REJECTED"}

\* The row is read without a lock, and the UPDATE repeats the status and the
\* version it read.
Transition(c, expected, next) ==
    /\ c \in Rows /\ calls[c].version = expected
    /\ ValidTransition(calls[c].status, next)
    /\ calls' = [calls EXCEPT ![c].status = next, ![c].version = expected + 1]
    /\ Emit(c, [type |-> "status_changed", status |-> next, version |-> expected + 1])
    /\ UNCHANGED <<profile, docs, superseded, decision, amendments>>

\* Open until the call is rejected; the version of the call does not move.
declareDocumentTx(c, d) ==
    /\ c \in Rows /\ calls[c].status # "REJECTED"
    /\ docs[c][d] = "NONE"
    /\ docs' = [docs EXCEPT ![c][d] = "DECLARED"]
    /\ Emit(c, [type |-> "document_declared", doc |-> d])
    /\ UNCHANGED <<profile, calls, superseded, decision, amendments>>

\* A document is reviewed once: its version moves with its status.
reviewDocumentTx(c, d, verdict) ==
    /\ docs[c][d] = "DECLARED"
    /\ docs' = [docs EXCEPT ![c][d] = verdict]
    /\ Emit(c, [type |-> "document_reviewed", doc |-> d, verdict |-> verdict])
    /\ UNCHANGED <<profile, calls, superseded, decision, amendments>>

\* Recorded beside the documents, whose statuses stay.
SupersedeDocument(c, original, replacement) ==
    /\ original # replacement /\ DocType[original] = DocType[replacement]
    /\ docs[c][original] = "VERIFIED" /\ docs[c][replacement] = "VERIFIED"
    /\ \A pair \in superseded[c] : pair[1] # original /\ pair[2] # replacement
    /\ superseded' = [superseded EXCEPT ![c] = @ \union {<<original, replacement>>}]
    /\ Emit(c, [type |-> "document_superseded", doc |-> original])
    /\ UNCHANGED <<profile, calls, docs, decision, amendments>>

-----------------------------------------------------------------------------
(* Clearance.                                                              *)

Declared(c) == {d \in Docs : docs[c][d] # "NONE"}

\* A bug: an approval only looks for rejected documents.
DocumentsSettledUnreviewed(c) == Declared(c) # {} /\ \A d \in Declared(c) : docs[c][d] # "REJECTED"

\* The documents of the call are read and locked with the call.
DocumentsSettled(c) == Declared(c) # {} /\ \A d \in Declared(c) : docs[c][d] = "VERIFIED"

\* The call keeps its status, and one decision is kept per call.
decideClearanceTx(c, expected, verdict, officer) ==
    /\ c \in Rows /\ calls[c].version = expected
    /\ calls[c].status = "ACCEPTED"
    /\ ensureActiveAgencyProfile
    /\ verdict = "APPROVED" => DocumentsSettled(c)
    /\ decision[c] = None
    /\ decision' = [decision EXCEPT ![c] = [verdict |-> verdict, by |-> officer, version |-> expected + 1]]
    /\ calls' = [calls EXCEPT ![c].version = expected + 1]
    /\ Emit(c, [type |-> "clearance_decided", verdict |-> verdict, by |-> officer, version |-> expected + 1])
    /\ UNCHANGED <<profile, docs, superseded, amendments>>

\* A bug: the officer who took the decision may reverse it.
MayAmendOwn(prior, verdict, officer) == prior.verdict # verdict

MayAmend(prior, verdict, officer) == prior.verdict # verdict /\ prior.by # officer

\* A bug: the amendment leaves the status of the call alone.
AlignedStatusKept(c, verdict) == calls[c].status

\* An approval puts the call back to ACCEPTED, a rejection rejects it.
AlignedStatus(c, verdict) == IF verdict = "REJECTED" THEN "REJECTED" ELSE "ACCEPTED"

\* Neither the documents nor the profile are looked at again.
amendClearanceTx(c, expected, verdict, officer) ==
    /\ c \in Rows /\ calls[c].version = expected
    /\ decision[c] # None /\ MayAmend(decision[c], verdict, officer)
    /\ decision' = [decision EXCEPT ![c] = [verdict |-> verdict, by |-> officer, version |-> expected + 1]]
    /\ calls' = [calls EXCEPT ![c].status = AlignedStatus(c, verdict), ![c].version = expected + 1]
    /\ amendments' = [amendments EXCEPT ![c] = Append(@,
            [prior |-> decision[c].verdict, amended |-> verdict, by |-> officer, version |-> expected + 1])]
    /\ Emit(c, [type |-> "clearance_amended", verdict |-> verdict, by |-> officer, version |-> expected + 1])
    /\ UNCHANGED <<profile, docs, superseded>>

-----------------------------------------------------------------------------
(* The NSW ingress.                                                        *)

\* Issuer, audience, tenant and signature are the authority's; what can
\* change between two deliveries of a message is the clock.
Verify(m) == now <= Expires[m] + MaxClockSkew

\* pgReplayStore: lapsed reservations are deleted, the primary key admits one.
Reserve(m, expiresAt) ==
    LET held == [n \in Messages |-> IF reserved[n] = None THEN None
                                     ELSE IF reserved[n] < now THEN None ELSE reserved[n]]
    IN held[m] = None /\ reserved' = [held EXCEPT ![m] = expiresAt]

\* A message that is verified and reserved is handed to its handler.
NewIngress(m, c) ==
    /\ Verify(m)
    /\ Reserve(m, now + ReplayTTL)
    /\ handling' = handling \union {<<m, c>>}
    /\ UNCHANGED <<callVars, now>>

\* The jti is the idempotency key.  A request that creates nothing (a retained
\* key, an inactive profile) ends the handler all the same, and so does a
\* server that dies: the reservation stays.
nswPortCall(m, c) ==
    /\ <<m, c>> \in handling
    /\ handling' = handling \ {<<m, c>>}
    /\ Create(m, c) \/ UNCHANGED callVars
    /\ UNCHANGED <<reserved, now>>

Tick ==
    /\ now < MaxTime
    /\ now' = now + 1
    /\ UNCHANGED <<callVars, reserved, handling>>

Operation(c) ==
    \/ \E k \in Keys : Create(k, c)
    \/ c \in Rows /\ \/ \E next \in {"SUBMITTED", "ACCEPTED", "REJECTED"} : Transition(c, calls[c].version, next)
                     \/ \E v \in Decisions, o \in Officers : \/ decideClearanceTx(c, calls[c].version, v, o)
                                                             \/ amendClearanceTx(c, calls[c].version, v, o)
    \/ \E d \in Docs : \/ declareDocumentTx(c, d)
                       \/ \E v \in {"VERIFIED", "REJECTED"} : reviewDocumentTx(c, d, v)
                       \/ \E e \in Docs : SupersedeDocument(c, d, e)

PortCallNext ==
    \/ (\/ \E active \in BOOLEAN : RegisterAgencyProfile(active)
        \/ \E c \in Calls : Operation(c)) /\ UNCHANGED <<reserved, handling, now>>
    \/ \E m \in Messages, c \in Calls : NewIngress(m, c) \/ nswPortCall(m, c)
    \/ Tick

PortCallSpec == PortCallInit /\ [][PortCallNext]_portVars

-----------------------------------------------------------------------------
(* Properties.                                                             *)

\* Type of the state.
PortCallTypeOK ==
    /\ profile \in {"UNKNOWN", "ACTIVE", "INACTIVE"}
    /\ calls \in [Calls -> CallRow \union {None}]
    /\ docs \in [Calls -> [Docs -> {"NONE", "DECLARED", "VERIFIED", "REJECTED"}]]
    /\ decision \in [Calls -> DecisionRow \union {None}]
    /\ amendments \in [Calls -> Seq([prior : Decisions, amended : Decisions, by : Officers, version : Nat])]
    /\ handling \subseteq Messages \X Calls
    /\ now \in 0..MaxTime

Positions(c, type) == {i \in DOMAIN outbox[c] : outbox[c][i].type = type}
Versioned(c) == {i \in DOMAIN outbox[c] : outbox[c][i].type \in {"created", "status_changed", "clearance_decided", "clearance_amended"}}
Last(S) == CHOOSE i \in S : \A j \in S : j <= i

\* A consumer of the events of a call arrives at the call: its version, its
\* latest decision, and its status, which is the last one announced unless an
\* amendment came after it (Transition, decideClearanceTx, amendClearanceTx).
OutboxReplays ==
    \A c \in Rows :
        LET event(i) == outbox[c][i]
            verdicts == Positions(c, "clearance_decided") \union Positions(c, "clearance_amended")
            moves == Positions(c, "status_changed") \union Positions(c, "clearance_amended")
        IN /\ calls[c].version = event(Last(Versioned(c))).version
           /\ calls[c].version = Cardinality(Versioned(c))
           /\ IF verdicts = {} THEN decision[c] = None
                ELSE decision[c] = [verdict |-> event(Last(verdicts)).verdict, by |-> event(Last(verdicts)).by,
                                     version |-> event(Last(verdicts)).version]
           /\ calls[c].status =
                IF moves = {} THEN "DRAFT"
                ELSE IF event(Last(moves)).type = "status_changed" THEN event(Last(moves)).status
                ELSE IF event(Last(moves)).verdict = "REJECTED" THEN "REJECTED" ELSE "ACCEPTED"

\* The amendments of a call form one chain from the decision to the verdict in
\* force, every link taken by another officer than the one before it, at a
\* later version of the call (amendClearanceTx).
FourEyesChain ==
    \A c \in Calls : \A i \in DOMAIN amendments[c] :
        LET a == amendments[c][i]
            first == outbox[c][Last(Positions(c, "clearance_decided"))]
            before == IF i = 1 THEN [amended |-> first.verdict, by |-> first.by, version |-> first.version]
                      ELSE amendments[c][i - 1]
        IN /\ a.prior = before.amended /\ a.amended # before.amended
           /\ a.by # before.by /\ a.version > before.version
           /\ i = Len(amendments[c]) =>
                decision[c] = [verdict |-> a.amended, by |-> a.by, version |-> a.version]

\* When a call was cleared it had documents, and every document declared by
\* then had been verified by then, however declarations, reviews and the
\* decision raced (decideClearanceTx, declareDocumentTx).
ApprovalVerified ==
    \A c \in Calls : \A i \in Positions(c, "clearance_decided") :
        outbox[c][i].verdict = "APPROVED" =>
            LET earlier == {j \in Positions(c, "document_declared") : j < i} IN
            /\ earlier # {}
            /\ \A j \in earlier : \E k \in Positions(c, "document_reviewed") :
                 k < i /\ outbox[c][k].doc = outbox[c][j].doc /\ outbox[c][k].verdict = "VERIFIED"

\* An authority message creates at most one call, also when it is delivered
\* again after its reservation lapsed, or naming another call (NewIngress,
\* Create).
OneCallPerMessage ==
    \A m \in Messages : Cardinality({c \in Rows : calls[c].key = m}) <= 1

\* Wanted and not so: a call whose clearance stands approved was approved on
\* verified documents.  An amendment to APPROVED does not look at them.
ApprovedOnDocuments ==
    \A c \in Calls : decision[c] # None /\ decision[c].verdict = "APPROVED" =>
        \E d \in Docs : docs[c][d] = "VERIFIED"
=============================================================================
