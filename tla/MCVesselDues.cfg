SPECIFICATION DuesSpec
CONSTANTS
    k1 = k1
    k2 = k2
    none = none
    None = none
    Offered <- MCOffered
    OffshoreCalls = {"t1"}
    CruiseCalls = {"c1"}
    Tankers <- MCTankers
    PaxCounts = {2, 6}
    PortCalls = {"p1"}
    Instants = {1, 2}
    Keys = {k1, k2}
    ExcursionKeys = {"e1"}
    TenderKeys = {"a1"}
    Berths = {"b1"}
    Windows <- MCWindows
    MaxVersion = 4
    MaxEvents = 7
    MaxInt64 = 16
SYMMETRY Symmetry
INVARIANTS
    DuesRecomputable
    OperationsInOrder
CHECK_DEADLOCK FALSE
