SPECIFICATION Spec
CONSTANTS
    None = None
    BasisPoints = 10000
    MinDirectional = 55
    MaxAge = 120
    Word = Word
    MaxDepartures = 3
INVARIANTS
    ApprovedWithinEverySource
    StricterNeverOpens
    ApprovedPlanKeepsBudget
    LossesNeverPass
CHECK_DEADLOCK FALSE
