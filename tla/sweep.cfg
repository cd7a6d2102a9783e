SPECIFICATION FairSpec
CONSTANTS
    p = p
    q = q
    w = w
    NumGames = 3
    PageSize = 2
    InFlight = 2
    Pool = {p}
    Collectors = {w}
    MaxStumbles = 1
    MaxPasses = 2
    Faults = {"stop", "crash", "cursor", "transport", "ingest", "logout", "elsewhere"}
    MaxFaults = 1
    MaxRuns = 2
INVARIANTS PrefixIsFinished
PROPERTIES CompletedSawEverything EveryPassEnds
CHECK_DEADLOCK FALSE
