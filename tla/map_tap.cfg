SPECIFICATION Spec
CONSTANTS
    s1 = s1
    s2 = s2
    s3 = s3
    a = a
    b = b
    c = c
    p1 = p1
    p2 = p2
    Spot = {s1, s2, s3}
    Call = {a, b, c}
    Park = {p1, p2}
    Coord = {x}
    NoCoord = NoCoord
    NoPark = NoPark
    ParkOf <- MCParkOf
    DXCall <- MCDXCall
    SpotterCall <- MCSpotterCall
    Capacity = 2
    QRZCapacity = 1
    POTACapacity = 2
    SpotCap = 2
    TotalCap = 2
    LookupTimeout = 1
    DrainInterval = 1
    MaxRevision = 99
    Horizon = 2
INVARIANTS TypeOK PublishedOnce BestLocation Reservation HeldBriefly
PROPERTY FeedsStream
CHECK_DEADLOCK FALSE
