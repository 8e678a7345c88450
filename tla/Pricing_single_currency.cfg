CONSTANTS
    c1 = c1
    c2 = c2
    eur = eur
    usd = usd
    Missing = Missing
    Calls = {c1, c2}
    Currencies = {eur, usd}
    Malformed = {}
    Amounts = {1}
    SerializerMayThrow = FALSE
SPECIFICATION Spec
INVARIANTS
    SingleCurrency
CHECK_DEADLOCK FALSE
