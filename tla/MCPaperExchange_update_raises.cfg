SPECIFICATION Spec
CONSTANTS
    NumSymbols = 1
    StartingCash = 90
    c1 = c1
    NoClient = NoClient
    NoPrice = NoPrice
    ClientIds <- MCClientIds
    Requests <- OrderRequests
    Prices <- OrderPrices
    RuleSets <- NoRuleSets
    FeeBps = 1000
    SlipBps = 1000
    PartialPct = 50
    MaxApiFailures = 1
    FlattenAtEod = TRUE
    SimulatedModes <- FillModes
    MaxOrders = 2
    ApiFailureBound = 1
INVARIANTS
    UpdateNeverRaises
