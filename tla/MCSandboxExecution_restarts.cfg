SPECIFICATION Spec
CONSTANTS
    Services = {s1}
    Keys = {k1, k2}
    Intents = {i1, i2, i3, i4}
    NoIntent = NoIntent
    NoKey = NoKey
    FillsAtOnce = FALSE
INVARIANTS
    BlockedNeverPlaced
    OneOrderPerKey
PROPERTIES
    ImplementsPlacement
CHECK_DEADLOCK FALSE
