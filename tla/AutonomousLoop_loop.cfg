SPECIFICATION Spec
CONSTANTS
    Threads = {t1, t2}
    Starters = {c1}
    Stoppers = {c2}
    Nobody = Nobody
    Keys = {k1, k2}
    MayTimeOut = TRUE
INVARIANTS
    OneDriver
    OneOrderPerKey
    LateOrdersBounded
PROPERTIES
    StopStops
