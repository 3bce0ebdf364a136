SPECIFICATION Spec
CONSTANTS
    Threads = {t1, t2}
    Operators = {op}
    Plans <- MCPlans
    NoPlan = NoPlan
    MaxTurnover = 2
    MaxNotional = 2
    NoTradeOnConflict = TRUE
INVARIANTS
    LateFillsBounded
    TurnoverBounded
    StrategiesBounded
    LastFillSaved
CHECK_DEADLOCK FALSE
