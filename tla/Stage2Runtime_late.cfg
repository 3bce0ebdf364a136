SPECIFICATION Spec
CONSTANTS
    Services = {s1}
    Operators = {op}
    Keys = {k1, k2}
    Intents = {i1, i2}
    NoIntent = NoIntent
    NoKey = NoKey
    FillsAtOnce = FALSE
INVARIANTS
    LateOrdersBounded
    HaltHolds
PROPERTY HeardHaltStops
CHECK_DEADLOCK FALSE
