SPECIFICATION CertLiveSpec
CONSTANTS
    NoCert = NoCert
    Certificates = {"c1", "c2"}
    Tenant <- MCTenant
    Tenants = 2
    Failing = {1}
    Expiries = {1, 2}
    MaxTime = 2
    MaxUsage = 2
INVARIANTS
    VerificationHonest
PROPERTIES
    LapsedIsSwept
CHECK_DEADLOCK FALSE
