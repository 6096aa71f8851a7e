----------------------------- MODULE ShipRegistry -----------------------------
(***************************************************************************)
(* internal/registry without the seafarers: vessel registration under      *)
(* maker-checker control, the hash chain of owners, the cabotage rule in   *)
(* force with permits and violations, and fisheries licences.              *)
(*                                                                         *)
(* Every operation locks the row it decides on, so it is one step; the     *)
(* installation of a cabotage rule is two statements that two officers may *)
(* interleave, and only an index of the database keeps one rule in force.  *)
(***************************************************************************)
EXTENDS Integers, Sequences, FiniteSets

CONSTANTS
    Vessels,
    Enrolled,     \* the vessels that hold a certificate when we start to look
    Imo,          \* Vessels -> IMO numbers
    Facts,        \* Vessels -> [flag, build]
    Owners,
    Officers,
    Rules,        \* rule ids
    Terms,        \* [flag, pct, domestic, waiver]
    Shares,       \* national ownership a permit application may state
    Permits,
    Licences,
    Violations,
    Readings,     \* what a clock may read, in nanoseconds
    Resolution,   \* nanoseconds in the unit a timestamp column keeps
    MaxEvents,    \* bound on the events in the platform outbox
    None

VesselRow == [status : {"APPLICATION", "SURVEY", "REGISTRATION", "CERTIFICATE_ISSUED", "SUSPENDED", "DEREGISTERED"},
              owner : Owners, maker : Officers]
RuleRow == [terms : Terms, active : BOOLEAN]
LicenceRow == [vessel : Vessels \union {None}, owner : Owners, by : Officers, decidedBy : Officers \union {None},
               status : {"APPLICATION", "REJECTED", "GRANTED", "SUSPENDED", "REVOKED"}]

\* None stands for no row.
ASSUME RegistryAssumptions ==
    /\ None \notin Vessels \union Owners \union Officers
    /\ None \notin VesselRow \union RuleRow \union LicenceRow
    /\ Enrolled \subseteq Vessels /\ MaxEvents \in Nat
    /\ Readings \in SUBSET Nat /\ Resolution \in Nat \ {0}

VARIABLES
    vessels,      \* registry_vessels: per id a row, or None
    owners,       \* registry_vessel_ownership: per vessel the chain
    trail,        \* the registry.vessel.v1 events of a vessel, in order
    rules,        \* registry_cabotage_rules: per id [terms, active], or None
    installing,   \* per rule id the rules its installation has retired, or None
    permits,      \* registry_cabotage_permits
    violations,   \* registry_cabotage_violations
    licences,     \* registry_fisheries_permits
    audit,        \* registry_fisheries_permit_audit, per licence in order
    emitted       \* number of events in platform_outbox

vesselVars == <<vessels, owners, trail>>
cabotageVars == <<rules, installing, permits, violations>>
fisheryVars == <<licences, audit>>
registryVars == <<vesselVars, cabotageVars, fisheryVars, emitted>>

Rows(table) == {x \in DOMAIN table : table[x] # None}

\* What a TIMESTAMPTZ column keeps of a reading: whole microseconds.
Stored(at) == at - (at % Resolution)

\* A hash stands for what was hashed. The instant stands for effectiveFrom and
\* recordedAt, both written out to the nanosecond.
genesisHash(v) == [genesis |-> v, imo |-> Imo[v]]
chainHash(previous, v, seq, owner, at, by) ==
    [previous |-> previous, vessel |-> v, seq |-> seq, owner |-> owner, at |-> at, by |-> by]

\* The row of an entry: the hash is taken before the columns are written.
ownershipRow(previous, v, seq, owner, at, by) ==
    [vessel |-> v, seq |-> seq, owner |-> owner, at |-> Stored(at), by |-> by, previous |-> previous,
     hash |-> chainHash(previous, v, seq, owner, at, by)]

RegistryInit ==
    /\ \E maker, checker \in Officers, w \in Owners, at \in Readings :
        /\ maker # checker
        /\ vessels = [v \in Vessels |-> IF v \notin Enrolled THEN None
                        ELSE [status |-> "CERTIFICATE_ISSUED", owner |-> w, maker |-> maker]]
        /\ owners = [v \in Vessels |-> IF v \notin Enrolled THEN <<>>
                        ELSE <<ownershipRow(genesisHash(v), v, 1, w, at, maker)>>]
        /\ trail = [v \in Vessels |-> IF v \notin Enrolled THEN <<>>
                        ELSE <<[type |-> "registered", to |-> "APPLICATION", by |-> maker],
                               [type |-> "transitioned", to |-> "SURVEY", by |-> maker],
                               [type |-> "transitioned", to |-> "REGISTRATION", by |-> checker],
                               [type |-> "transitioned", to |-> "CERTIFICATE_ISSUED", by |-> checker]>>]
    /\ rules = [r \in Rules |-> None]
    /\ installing = [r \in Rules |-> None]
    /\ permits = [p \in Permits |-> None]
    /\ violations = [x \in Violations |-> None]
    /\ licences = [l \in Licences |-> None]
    /\ audit = [l \in Licences |-> <<>>]
    /\ emitted = 0

\* Every operation writes one signed event in its own transaction.
emit == emitted < MaxEvents /\ emitted' = emitted + 1

-----------------------------------------------------------------------------
(* Vessels.                                                                *)

vesselTransitions ==
    [APPLICATION        |-> {"SURVEY", "DEREGISTERED"},
     SURVEY             |-> {"REGISTRATION", "SUSPENDED", "DEREGISTERED"},
     REGISTRATION       |-> {"CERTIFICATE_ISSUED", "SUSPENDED", "DEREGISTERED"},
     CERTIFICATE_ISSUED |-> {"SUSPENDED", "DEREGISTERED"},
     SUSPENDED          |-> {"REGISTRATION", "DEREGISTERED"},
     DEREGISTERED       |-> {}]

\* A bug: every entry links to the genesis of its vessel.
appendOwnershipUnlinked(v, owner, officer, at) ==
    Append(owners[v], ownershipRow(genesisHash(v), v, Len(owners[v]) + 1, owner, at, officer))

\* The head of the chain is read with the vessel locked.
appendOwnership(v, owner, officer, at) ==
    LET n == Len(owners[v]) IN
    Append(owners[v], ownershipRow(IF n = 0 THEN genesisHash(v) ELSE owners[v][n].hash,
                                   v, n + 1, owner, at, officer))

\* Whether the chain is returned: every row names the hash before it, and its
\* own is derived again from the columns.
OwnershipHistory(v) ==
    \A i \in DOMAIN owners[v] :
        LET row == owners[v][i] IN
        /\ row.previous = IF i = 1 THEN genesisHash(v) ELSE owners[v][i - 1].hash
        /\ row.hash = chainHash(row.previous, row.vessel, row.seq, row.owner, row.at, row.by)

emitVessel(v, event) == emit /\ trail' = [trail EXCEPT ![v] = Append(@, event)]

\* One live registration per IMO number; a repeated key returns the retained
\* row and writes nothing.
Register(v, owner, officer, at) ==
    /\ vessels[v] = None
    /\ \A w \in Rows(vessels) : Imo[w] = Imo[v] => vessels[w].status = "DEREGISTERED"
    /\ vessels' = [vessels EXCEPT ![v] = [status |-> "APPLICATION", owner |-> owner, maker |-> officer]]
    /\ owners' = [owners EXCEPT ![v] = appendOwnership(v, owner, officer, at)]
    /\ emitVessel(v, [type |-> "registered", to |-> "APPLICATION", by |-> officer])

\* A bug: only the issue of the certificate is a checker step.
CheckerAtIssue(v, target, officer) == target = "CERTIFICATE_ISSUED" => officer # vessels[v].maker

\* The maker of the application may not take it past the survey.
Checker(v, target, officer) ==
    target \in {"REGISTRATION", "CERTIFICATE_ISSUED"} => officer # vessels[v].maker

Transition(v, target, officer) ==
    /\ vessels[v] # None
    /\ target \in vesselTransitions[vessels[v].status]
    /\ Checker(v, target, officer)
    /\ vessels' = [vessels EXCEPT ![v].status = target]
    /\ emitVessel(v, [type |-> "transitioned", to |-> target, by |-> officer])
    /\ UNCHANGED owners

\* A repeated request is a second transfer: the key is not looked up.
TransferOwnership(v, owner, officer, at) ==
    /\ vessels[v] # None /\ vessels[v].status # "DEREGISTERED"
    /\ vessels' = [vessels EXCEPT ![v].owner = owner]
    /\ owners' = [owners EXCEPT ![v] = appendOwnership(v, owner, officer, at)]
    /\ emitVessel(v, [type |-> "transferred", to |-> owner, by |-> officer])

-----------------------------------------------------------------------------
(* Cabotage.                                                               *)

Active == {r \in Rows(rules) : rules[r].active}

\* The first statement of UpsertCabotageRule retires the rules it can see.
RetireRules(r) ==
    /\ installing[r] = None
    /\ installing' = [installing EXCEPT ![r] = Active]
    /\ UNCHANGED <<rules, permits, violations, emitted>>

\* A bug: nothing but the first statement keeps one rule in force.
OneActiveUnindexed(r, retired) == TRUE

\* The partial unique index on the ACTIVE rule of a tenant.
OneActive(r, retired) == Active \ retired \subseteq {r}

\* The second statement, an insert or an update of the same id, and the
\* commit; against the index the whole transaction is rolled back.
UpsertCabotageRule(r, terms) ==
    /\ installing[r] # None
    /\ installing' = [installing EXCEPT ![r] = None]
    /\ IF OneActive(r, installing[r])
         THEN /\ rules' = [q \in Rules |-> IF q = r THEN [terms |-> terms, active |-> TRUE]
                                            ELSE IF q \in installing[r] THEN [rules[q] EXCEPT !.active = FALSE]
                                            ELSE rules[q]]
              /\ emit
         ELSE UNCHANGED <<rules, emitted>>
    /\ UNCHANGED <<permits, violations>>

\* The criteria met by a vessel that states that share of national ownership.
EvaluateCabotage(terms, v, share) ==
    [flag |-> Facts[v].flag = terms.flag,
     ownership |-> share >= terms.pct,
     build |-> terms.domestic => Facts[v].build = terms.flag]

AllMet(met) == met.flag /\ met.ownership /\ met.build

\* At most one open permit per vessel, by index.
PermitOpen(v) == \E p \in Rows(permits) : permits[p].vessel = v /\ permits[p].status \in {"APPLICATION", "APPROVED"}

\* The criteria are evaluated once, under the rule in force now.
ApplyPermit(p, v, share, waiver, officer) ==
    /\ permits[p] = None
    /\ vessels[v] # None /\ vessels[v].status = "CERTIFICATE_ISSUED"
    /\ ~PermitOpen(v)
    /\ \E r \in Active :
        LET met == EvaluateCabotage(rules[r].terms, v, share) IN
        /\ AllMet(met) \/ (rules[r].terms.waiver /\ waiver)
        /\ permits' = [permits EXCEPT ![p] = [vessel |-> v, rule |-> r, met |-> met, waiver |-> waiver,
                                               status |-> "APPLICATION", by |-> officer, decidedBy |-> None]]
    /\ emit
    /\ UNCHANGED <<rules, installing, violations>>

\* Neither the vessel nor the rule is looked at again.
DecidePermit(p, approve, officer) ==
    /\ permits[p] # None /\ permits[p].status = "APPLICATION" /\ permits[p].by # officer
    /\ approve => AllMet(permits[p].met) \/ permits[p].waiver
    /\ permits' = [permits EXCEPT ![p].status = IF approve THEN "APPROVED" ELSE "REJECTED",
                                  ![p].decidedBy = officer]
    /\ emit
    /\ UNCHANGED <<rules, installing, violations>>

\* Without a permit only the violation NO_PERMIT can be flagged.
FlagViolation(x, v, p, officer) ==
    /\ violations[x] = None
    /\ vessels[v] # None
    /\ p # None => permits[p] # None /\ permits[p].vessel = v
    /\ violations' = [violations EXCEPT ![x] = [vessel |-> v, permit |-> p, status |-> "OPEN", by |-> officer]]
    /\ emit
    /\ UNCHANGED <<rules, installing, permits>>

ResolveViolation(x, officer) ==
    /\ violations[x] # None /\ violations[x].status = "OPEN" /\ violations[x].by # officer
    /\ violations' = [violations EXCEPT ![x].status = "RESOLVED"]
    /\ emit
    /\ UNCHANGED <<rules, installing, permits>>

-----------------------------------------------------------------------------
(* Fisheries.                                                              *)

OpenLicence(l) == licences[l] # None /\ licences[l].status \in {"APPLICATION", "GRANTED", "SUSPENDED"}

insertFisheriesAudit(l, action, officer) ==
    emit /\ audit' = [audit EXCEPT ![l] = Append(@, [action |-> action, by |-> officer])]

\* A bug: an application does not hold the place of its vessel.
PlaceTakenByGrant(v) ==
    \E l \in Licences : OpenLicence(l) /\ licences[l].vessel = v /\ licences[l].status # "APPLICATION"

\* At most one open licence per vessel, by index.
PlaceTaken(v) == \E l \in Licences : OpenLicence(l) /\ licences[l].vessel = v

\* For a certified vessel of that owner; for aquaculture a vessel may be left
\* out (None), and the one that is named only has to exist (foreign key).
ApplyFisheriesPermit(l, v, aquaculture, owner, officer) ==
    /\ licences[l] = None
    /\ v = None => aquaculture
    /\ v # None => vessels[v] # None /\ ~PlaceTaken(v)
    /\ ~aquaculture => vessels[v].status = "CERTIFICATE_ISSUED" /\ vessels[v].owner = owner
    /\ licences' = [licences EXCEPT ![l] = [vessel |-> v, owner |-> owner, status |-> "APPLICATION",
                                             by |-> officer, decidedBy |-> None]]
    /\ insertFisheriesAudit(l, "APPLIED", officer)

\* The vessel and its owner are not looked at again.
DecideFisheriesPermit(l, grant, officer) ==
    LET status == IF grant THEN "GRANTED" ELSE "REJECTED" IN
    /\ licences[l] # None /\ licences[l].status = "APPLICATION" /\ licences[l].by # officer
    /\ licences' = [licences EXCEPT ![l].status = status, ![l].decidedBy = officer]
    /\ insertFisheriesAudit(l, status, officer)

\* A bug: a revoked licence may be reinstated.
validFisheriesTransitionReviving(current, target) ==
    \/ current = "GRANTED" /\ target \in {"SUSPENDED", "REVOKED"}
    \/ current \in {"SUSPENDED", "REVOKED"} /\ target \in {"GRANTED", "REVOKED"}

validFisheriesTransition(current, target) ==
    \/ current = "GRANTED" /\ target \in {"SUSPENDED", "REVOKED"}
    \/ current = "SUSPENDED" /\ target \in {"GRANTED", "REVOKED"}

TransitionFisheriesPermit(l, target, officer) ==
    /\ licences[l] # None /\ validFisheriesTransition(licences[l].status, target)
    /\ licences[l].by # officer
    /\ licences' = [licences EXCEPT ![l].status = target]
    /\ insertFisheriesAudit(l, IF target = "GRANTED" THEN "REINSTATED" ELSE target, officer)

-----------------------------------------------------------------------------
VesselStep(v, o) ==
    \/ \E w \in Owners, at \in Readings : Register(v, w, o, at) \/ TransferOwnership(v, w, o, at)
    \/ \E target \in DOMAIN vesselTransitions : Transition(v, target, o)

CabotageStep(o) ==
    \/ \E r \in Rules : RetireRules(r) \/ \E terms \in Terms : UpsertCabotageRule(r, terms)
    \/ \E p \in Permits : \/ \E v \in Vessels, share \in Shares, waiver \in BOOLEAN : ApplyPermit(p, v, share, waiver, o)
                          \/ \E approve \in BOOLEAN : DecidePermit(p, approve, o)
    \/ \E x \in Violations : \/ \E v \in Vessels, p \in Permits \union {None} : FlagViolation(x, v, p, o)
                             \/ ResolveViolation(x, o)

FisheryStep(l, o) ==
    \/ \E v \in Vessels \union {None}, aquaculture \in BOOLEAN, w \in Owners :
        ApplyFisheriesPermit(l, v, aquaculture, w, o)
    \/ \E grant \in BOOLEAN : DecideFisheriesPermit(l, grant, o)
    \/ \E target \in {"GRANTED", "SUSPENDED", "REVOKED"} : TransitionFisheriesPermit(l, target, o)

RegistryNext ==
    \E o \in Officers :
        \/ (\E v \in Vessels : VesselStep(v, o)) /\ UNCHANGED <<cabotageVars, fisheryVars>>
        \/ CabotageStep(o) /\ UNCHANGED <<vesselVars, fisheryVars>>
        \/ (\E l \in Licences : FisheryStep(l, o)) /\ UNCHANGED <<vesselVars, cabotageVars>>

RegistrySpec == RegistryInit /\ [][RegistryNext]_registryVars

-----------------------------------------------------------------------------
(* Properties.                                                             *)

\* Type of the state.
RegistryTypeOK ==
    /\ vessels \in [Vessels -> VesselRow \union {None}]
    /\ rules \in [Rules -> RuleRow \union {None}]
    /\ \A p \in Rows(permits) : permits[p].status \in {"APPLICATION", "APPROVED", "REJECTED"}
    /\ \A x \in Rows(violations) : violations[x].status \in {"OPEN", "RESOLVED"}
    /\ licences \in [Licences -> LicenceRow \union {None}]
    /\ emitted \in 0..MaxEvents

LastOf(s) == s[Len(s)]

\* The events of a vessel lead to its row: the owner on it is the last of a
\* chain of entries that starts at this vessel and has one entry per
\* registration and transfer, and whoever took it to REGISTRATION or issued
\* its certificate, however often, was not the maker (Register, Transition,
\* TransferOwnership). Each entry names the hash of the one before it, and its
\* own is that of the row with some instant the time column may have been cut
\* from: not, in general, the one OwnershipHistory derives from the row.
VesselTrailExplains ==
    \A v \in Rows(vessels) :
        LET event(i) == trail[v][i]
            moves == {i \in DOMAIN trail[v] : event(i).type # "transferred"}
            changes == {i \in DOMAIN trail[v] : event(i).type # "transitioned"}
            entry(i) == owners[v][Cardinality({j \in changes : j <= i})]
        IN /\ \E i \in moves : vessels[v].status = event(i).to /\ \A j \in moves : j <= i
           /\ vessels[v].owner = LastOf(owners[v]).owner
           /\ Len(owners[v]) = Cardinality(changes)
           /\ \A i \in changes : /\ entry(i).by = event(i).by
                                 /\ event(i).type = "transferred" => entry(i).owner = event(i).to
           /\ \A i \in DOMAIN owners[v] :
                /\ owners[v][i].seq = i /\ owners[v][i].vessel = v
                /\ owners[v][i].previous = IF i = 1 THEN genesisHash(v) ELSE owners[v][i - 1].hash
                /\ \E at \in Readings :
                    /\ owners[v][i].at = Stored(at)
                    /\ owners[v][i].hash = chainHash(owners[v][i].previous, v, i, owners[v][i].owner, at, owners[v][i].by)
           /\ event(1).type = "registered"
           /\ \A i \in moves : event(i).to \in {"REGISTRATION", "CERTIFICATE_ISSUED"} => event(i).by # event(1).by

\* "Ownership transfer extends the hash chain; history verifies": not so when
\* the clock counts finer than the column, the hash is of an instant that was
\* never stored (chainHash, OwnershipHistory).
OwnershipVerifies == \A v \in Rows(vessels) : OwnershipHistory(v)

\* Once a rule was installed exactly one is in force, whatever installations
\* race (UpsertCabotageRule).
OneRuleGoverns == Rows(rules) # {} => Cardinality(Active) = 1

\* The audit trail of a licence leads to its status through a decision of
\* another officer than the applicant and stops at a rejection or revocation;
\* a vessel never has two open licences (ApplyFisheriesPermit,
\* DecideFisheriesPermit, TransitionFisheriesPermit).
LicenceTrailExplains ==
    /\ \A l \in Rows(licences) :
        LET last == LastOf(audit[l]).action IN
        /\ audit[l][1] = [action |-> "APPLIED", by |-> licences[l].by]
        /\ licences[l].status = CASE last = "APPLIED" -> "APPLICATION"
                                  [] last = "REINSTATED" -> "GRANTED"
                                  [] OTHER -> last
        /\ \A i \in DOMAIN audit[l] \ {1} :
             /\ audit[l][i].by # licences[l].by
             /\ audit[l][i - 1].action \notin {"REJECTED", "REVOKED"}
        /\ Len(audit[l]) >= 2 => audit[l][2].action \in {"GRANTED", "REJECTED"} /\ audit[l][2].by = licences[l].decidedBy
    /\ \A k, l \in Licences : OpenLicence(k) /\ OpenLicence(l) /\ licences[k].vessel = licences[l].vessel =>
        k = l \/ licences[k].vessel = None

\* "Only CERTIFICATE_ISSUED vessels may hold a fisheries permit": not so, the
\* vessel may lose its certificate before the grant and after it, and the one
\* an aquaculture application names need never have had one.
LicensedVesselCertified ==
    \A l \in Rows(licences) : licences[l].status = "GRANTED" /\ licences[l].vessel # None =>
        vessels[licences[l].vessel].status = "CERTIFICATE_ISSUED"
=============================================================================
