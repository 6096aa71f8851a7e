------------------------ MODULE SeafarerCertificates ------------------------
(***************************************************************************)
(* internal/registry: seafarers and their STCW certificates, the metered   *)
(* verification, and the sweeper that expires lapsed certificates tenant   *)
(* by tenant while officers suspend, reinstate and revoke them.            *)
(***************************************************************************)
EXTENDS Integers, Sequences

CONSTANTS
    Certificates,
    Tenant,       \* Certificates -> 1..Tenants, the order the sweep takes
    Tenants,      \* number of active tenants
    Failing,      \* tenants whose sweep fails whenever it is tried
    Expiries,     \* expiry dates a certificate may be issued with
    MaxTime,      \* bound on the clock
    MaxUsage,     \* bound on the verifications of a certificate
    NoCert

CertRow == [status : {"ACTIVE", "SUSPENDED", "EXPIRED", "REVOKED"}, expires : Expiries]

\* NoCert stands for no row.
ASSUME CertificateAssumptions ==
    /\ NoCert \notin CertRow
    /\ Tenants \in Nat \ {0} /\ Tenant \in [Certificates -> 1..Tenants]
    /\ Failing \subseteq 1..Tenants /\ Expiries \subseteq Nat
    /\ MaxTime \in Nat /\ MaxUsage \in Nat

VARIABLES
    holders,      \* certificates whose seafarer is registered
    certs,        \* registry_seafarer_certificates: [status, expires], or NoCert
    usage,        \* registry_certificate_verification_usage, per certificate
    cursor,       \* the tenant the sweep is at; 0 between two sweeps
    now

certVars == <<holders, certs, usage, cursor, now>>

certificateTransitions ==
    [ACTIVE    |-> {"EXPIRED", "SUSPENDED", "REVOKED"},
     SUSPENDED |-> {"ACTIVE", "REVOKED"},
     EXPIRED   |-> {},
     REVOKED   |-> {}]

CertInit ==
    /\ holders = {}
    /\ certs = [c \in Certificates |-> NoCert]
    /\ usage = [c \in Certificates |-> <<>>]
    /\ cursor = 0
    /\ now = 0

\* A repeated registration or issue returns the retained row.
RegisterSeafarer(c) ==
    /\ c \notin holders
    /\ holders' = holders \union {c}
    /\ UNCHANGED <<certs, usage, cursor, now>>

\* The expiry need only lie after the date of issue: it may be past already.
IssueCertificate(c, expires) ==
    /\ c \in holders /\ certs[c] = NoCert
    /\ certs' = [certs EXCEPT ![c] = [status |-> "ACTIVE", expires |-> expires]]
    /\ UNCHANGED <<holders, usage, cursor, now>>

\* EXPIRED is left to the sweep.
TransitionCertificate(c, target) ==
    /\ target # "EXPIRED"
    /\ certs[c] # NoCert /\ target \in certificateTransitions[certs[c].status]
    /\ certs' = [certs EXCEPT ![c].status = target]
    /\ UNCHANGED <<holders, usage, cursor, now>>

\* A bug: the outcome is the status the sweep left.
OutcomeSwept(c) ==
    IF certs[c] = NoCert THEN "NOT_FOUND"
    ELSE IF certs[c].status = "ACTIVE" THEN "VALID"
    ELSE certs[c].status

\* The clock decides, the sweep is bookkeeping.
Outcome(c) ==
    IF certs[c] = NoCert THEN "NOT_FOUND"
    ELSE IF certs[c].status = "ACTIVE" THEN IF now >= certs[c].expires THEN "EXPIRED" ELSE "VALID"
    ELSE certs[c].status

VerifyCertificate(c) ==
    /\ Len(usage[c]) < MaxUsage
    /\ usage' = [usage EXCEPT ![c] = Append(@, [outcome |-> Outcome(c), at |-> now])]
    /\ UNCHANGED <<holders, certs, cursor, now>>

-----------------------------------------------------------------------------
(* The sweep.                                                              *)

Lapsed(c) == certs[c] # NoCert /\ certs[c].status = "ACTIVE" /\ certs[c].expires <= now

\* One statement for all the certificates of a tenant, with its events.
ExpireCertificates(t) ==
    certs' = [c \in Certificates |-> IF Tenant[c] = t /\ Lapsed(c) THEN [certs[c] EXCEPT !.status = "EXPIRED"]
                                     ELSE certs[c]]

\* A bug: the first failure ends the sweep.
NextTenantAborting(t, failed) == IF failed \/ t = Tenants THEN 0 ELSE t + 1

\* A failure is counted and the sweep goes on to the next tenant.
NextTenant(t, failed) == IF t = Tenants THEN 0 ELSE t + 1

SweepOnce ==
    /\ cursor > 0
    /\ LET failed == cursor \in Failing IN
        /\ IF failed THEN UNCHANGED certs ELSE ExpireCertificates(cursor)
        /\ cursor' = NextTenant(cursor, failed)
    /\ UNCHANGED <<holders, usage, now>>

\* The ticker of Run: the active tenants are read in order.
StartSweep ==
    /\ cursor = 0
    /\ cursor' = 1
    /\ UNCHANGED <<holders, certs, usage, now>>

Tick ==
    /\ now < MaxTime
    /\ now' = now + 1
    /\ UNCHANGED <<holders, certs, usage, cursor>>

CertNext ==
    \/ \E c \in Certificates :
        \/ RegisterSeafarer(c)
        \/ \E expires \in Expiries : IssueCertificate(c, expires)
        \/ \E target \in DOMAIN certificateTransitions : TransitionCertificate(c, target)
        \/ VerifyCertificate(c)
    \/ StartSweep \/ SweepOnce
    \/ Tick

CertSpec == CertInit /\ [][CertNext]_certVars

\* Run loops for as long as the process lives, and officers may keep
\* interfering; nothing else is fair.
CertLiveSpec == CertSpec /\ WF_certVars(StartSweep) /\ WF_certVars(SweepOnce)

-----------------------------------------------------------------------------
(* Properties.                                                             *)

\* Type of the state.
CertTypeOK ==
    /\ holders \subseteq Certificates
    /\ certs \in [Certificates -> CertRow \union {NoCert}]
    /\ \A c \in Certificates : certs[c] # NoCert => c \in holders
    /\ cursor \in 0..Tenants
    /\ now \in 0..MaxTime

\* What third parties were told, and are billed for, is honest whether or not
\* the sweep has come by: VALID only before the expiry, never again VALID once
\* EXPIRED, whatever officers do, and REVOKED for good (VerifyCertificate,
\* ExpireCertificates, TransitionCertificate).
VerificationHonest ==
    \A c \in Certificates : \A i \in DOMAIN usage[c] :
        /\ usage[c][i].outcome = "VALID" => usage[c][i].at < certs[c].expires
        /\ \A j \in DOMAIN usage[c] : i < j =>
             /\ usage[c][i].outcome = "EXPIRED" => usage[c][j].outcome # "VALID"
             /\ usage[c][i].outcome = "REVOKED" => usage[c][j].outcome = "REVOKED"

\* A lapsed certificate of any tenant whose own sweep works leaves ACTIVE,
\* however often the sweep of another tenant fails (SweepOnce).
LapsedIsSwept ==
    \A c \in Certificates : Tenant[c] \notin Failing => (Lapsed(c) ~> ~Lapsed(c))
=============================================================================
