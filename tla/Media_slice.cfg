CONSTANTS
    c1 = c1
    c2 = c2
    c3 = c3
    r1 = r1
    r2 = r2
    NoAsset = NoAsset
    Calls = {c1, c2, c3}
    RawKeys = {"a.png", " a.png ", "  "}
    Trimmed <- MCTrimmed
    Blank = ""
    ContentTypes = {"image/png", "png"}
    Malformed = {"png"}
    SerializerMayThrow = TRUE
    Relays = {r1, r2}
    BatchSize = 2
SPECIFICATION FairSpec
INVARIANTS
    TypeOK
    FirstDeliveriesInOrder
PROPERTIES
    AnsweredIsDelivered
CHECK_DEADLOCK FALSE
