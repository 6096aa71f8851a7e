SPECIFICATION DeclSpec
CONSTANTS
    d1 = d1
    d2 = d2
    d3 = d3
    q1 = q1
    q2 = q2
    none = none
    None = none
    Ids <- MCIds
    Refs = {"ref"}
    Traders = {"trader"}
    Requests <- MCRequests
    Contents <- MCContents
    Answers <- MCAnswers
    Weights = {8, 10}
    Parties = {"acme", "other"}
    Scale = 4
    Width = 8
    HighValue = 6
    ToleranceBPS = 1
    MaxPermits = 1
SYMMETRY Symmetry
INVARIANTS
    RevisionChain
    ClearanceEarned
    MatchNeverStale
CHECK_DEADLOCK FALSE
