SPECIFICATION SpecReplay
CONSTANTS
    None = None
    Periods <- MCPeriods
    Strategies = {"momentum_breakout", "mean_reversion", "trend_following", "po3_vwap"}
    Shapes <- MCShapes
    Jump = 20
    Gaps = {0, 2}
    MaxBars = 9
    MaxMissing = 2
    Warmup = 3
    Capital = 100000
    Lots = 1000
    FeeBps = 10
    SlipBps = 5
    System <- MCSystem
    Document <- MCDocument
    Symbol <- MCSymbol
INVARIANTS
    OnlyThePast
    SignalsProtected
    OKFModelsAgree
    FoldsDoNotLeak
    LabelsMatchSides
    MetricsMatchDefinitions
CHECK_DEADLOCK FALSE
