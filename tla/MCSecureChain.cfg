SPECIFICATION ChainSpec
CONSTANTS
    line = line
    agent = agent
    haulier = haulier
    c1 = c1
    c2 = c2
    n1 = n1
    n2 = n2
    nobody = nobody
    Orgs <- MCOrgs
    Lines <- MCLines
    Containers = {"box"}
    Digests = {"bl"}
    Chains <- MCChains
    Nonces <- MCNonces
    Nobody = nobody
    ChainTTL = 1
    TokenTTL = 1
    Threshold = 1
    HoldConfigured = TRUE
    Window = 1
    MaxTime = 1
    MaxLinks = 2
    MaxBookings = 1
SYMMETRY Symmetry
INVARIANTS
    SingleRelease
    VerifiedHoldersOnly
    AuditExplainsChain
PROPERTY ImplementsCustody
CHECK_DEADLOCK FALSE
