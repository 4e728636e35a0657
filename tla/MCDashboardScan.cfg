SPECIFICATION Spec
CONSTANTS
    r1 = r1
    r2 = r2
    r3 = r3
    k1 = k1
    k2 = k2
    Requests = {r1, r2, r3}
    Clients = {k1, k2}
    KeyOf <- MCKeyOf
    Pricings <- MCPricings
    Budget = 200
    Stated = {0, 300}
    Cap = 300
    MaxScans = 2
    SpendWindow = 5
    ScanWindow = 4
    LimitWindow = 2
    DiscoveryTimeout = 1
    ScanTimeout = 1
    PayBy = 1
    MaxTime = 7
INVARIANTS
    BillBounded
    ScansBounded
    PaidIsCounted
    RefusedHoldsNothing
    OnePerWindow
PROPERTIES
    HoldEnds
CHECK_DEADLOCK FALSE
