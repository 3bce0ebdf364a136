SPECIFICATION Spec
CONSTANTS
    NumSymbols = 1
    StartingCash = 100
    c1 = c1
    NoClient = NoClient
    NoPrice = NoPrice
    ClientIds <- MCClientIds
    Requests <- ProtectedRequests
    Prices <- RulePrices
    RuleSets <- AllRuleSets
    FeeBps = 1000
    SlipBps = 0
    PartialPct = 50
    MaxApiFailures = 1
    FlattenAtEod = TRUE
    SimulatedModes <- NoModes
    MaxOrders = 2
    ApiFailureBound = 1
PROPERTIES
    StopsNeverLoosen
    StopsHonoured
    ResultsLogged
