SPECIFICATION Spec
CONSTANTS
    Nonces = {n1, n2}
    Keys = {k1}
    None = None
    MaxSkew = 1
    KeepFor = 2
    Minute = 2
    RateLimit = 2
    Callers = {c1, c2}
    CacheFor = 2
    MaxFetch = 1
    Checks = {check}
    MaxHistory = 5
    MaxTime = 5
    Threads = {t1, t2}
    Clients = {b1}
    ReplayLimit = 2
    QueueSize = 2
SYMMETRY Symmetry
INVARIANTS
    IntentsAnswerAlerts
    ServedAgeBounded
    StagesWereEarned
    NothingMissed
