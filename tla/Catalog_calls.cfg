CONSTANTS
    c1 = c1
    c2 = c2
    c3 = c3
    c4 = c4
    n1 = n1
    n2 = n2
    bad = bad
    NoProduct = NoProduct
    Calls = {c1, c2, c3, c4}
    Contents = {n1, n2, bad}
    Malformed = {bad}
    SerializerMayThrow = TRUE
SPECIFICATION Spec
SYMMETRY CatalogSymmetry
INVARIANTS
    TypeOK
    LastEventIsContent
    PublishedOnce
PROPERTIES
    PublicationIsSoleClaim
CHECK_DEADLOCK FALSE
