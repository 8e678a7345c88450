CONSTANTS
    c1 = c1
    c2 = c2
    c3 = c3
    c4 = c4
    k1 = k1
    r1 = r1
    NoItem = NoItem
    Calls = {c1, c2, c3, c4}
    Keys = {k1}
    MaxQuantity = 2
    SerializerMayThrow = TRUE
    Relays = {r1}
    BatchSize = 2
SPECIFICATION SliceSpec
SYMMETRY CallSymmetry
INVARIANTS
    SliceTypeOK
    NoOversell
    ReservedIsSumOfReservations
    ReservedUntilReleasedOnce
    ReservationsReachable
    LastEventIsLevel
    SinkReadsOutbox
    SinkKnowsStock
CHECK_DEADLOCK FALSE
