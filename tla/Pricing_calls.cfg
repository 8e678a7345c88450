CONSTANTS
    c1 = c1
    c2 = c2
    c3 = c3
    c4 = c4
    eur = eur
    bad = bad
    Missing = Missing
    Calls = {c1, c2, c3, c4}
    Currencies = {eur, bad}
    Malformed = {bad}
    Amounts = {1, 2}
    SerializerMayThrow = TRUE
SPECIFICATION Spec
SYMMETRY PricingSymmetry
INVARIANTS
    TypeOK
    ActivatedOnce
    LastEventIsAmount
PROPERTIES
    ActivationIsSoleClaim
CHECK_DEADLOCK FALSE
