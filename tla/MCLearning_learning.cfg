SPECIFICATION Spec
CONSTANTS
    t1 = t1
    t2 = t2
    Threads = {t1, t2}
    Closings <- MCClosings
    MaxTrades = 2
    MaxTrainings = 2
    Window = 1
    MaxBrier = 25
    Interval = 2
    MinSample = 1
    Kelly <- MCKelly
    Absent = Absent
SYMMETRY Interchangeable
INVARIANTS
    KellyFollowsCalibration
    ChampionsEarned

    
CHECK_DEADLOCK FALSE
