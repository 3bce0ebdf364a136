SPECIFICATION Spec
CONSTANTS
    Services = {s1}
    Keys = {k1}
    Intents = {i1, i2}
    NoIntent = NoIntent
    NoKey = NoKey
    FillsAtOnce = FALSE
INVARIANTS
    FailedHasNoOrder
CHECK_DEADLOCK FALSE
