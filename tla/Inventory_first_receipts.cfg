CONSTANTS
    c1 = c1
    c2 = c2
    k1 = k1
    NoItem = NoItem
    Calls = {c1, c2}
    Keys = {k1}
    MaxQuantity = 2
    SerializerMayThrow = FALSE
SPECIFICATION Spec
INVARIANTS
    OneItemPerKey
CHECK_DEADLOCK FALSE
