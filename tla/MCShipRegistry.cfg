SPECIFICATION RegistrySpec
CONSTANTS
    r1 = r1
    r2 = r2
    o1 = o1
    o2 = o2
    w1 = w1
    w2 = w2
    p1 = p1
    p2 = p2
    l1 = l1
    l2 = l2
    none = none
    None = none
    Vessels = {"v1", "v2"}
    Enrolled = {"v1"}
    Imo <- MCImo
    Facts <- MCFacts
    Owners = {w1, w2}
    Officers = {o1, o2}
    Rules = {r1, r2}
    Terms <- MCTerms
    Shares = {50, 60}
    Permits = {p1, p2}
    Licences = {l1, l2}
    Violations = {"x1"}
    Readings = {1}
    Resolution = 2
    MaxEvents = 4
SYMMETRY Symmetry
INVARIANTS
    VesselTrailExplains
    OneRuleGoverns
    LicenceTrailExplains
CHECK_DEADLOCK FALSE
