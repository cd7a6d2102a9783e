SPECIFICATION FairSpec
CONSTANTS
    a = a
    c1 = c1
    c2 = c2
    Accounts = {a}
    Reserved = {}
    PoolSecret <- OneLine
    Concurrency = 1
    WatchCallers = {c1}
    PoolCallers = {c2}
    MaxRevision = 1
    MaxWatchGen = 2
    MaxPoolGen = 2
    MaxFaults = 1
    MaxEvents = 4
INVARIANTS   StoppedIsQuiet
PROPERTIES EndsOnlyItsOwnSessions CollectorKeepsItsAccount RequestsEnd
