SPECIFICATION CollectorSpec
CONSTANTS
    r1 = r1
    Records = {r1}
    Kinds = {"ok"}
    SealWindow = 1
    MaxLog = 2
    MaxClock = 5
    MaxFaults = 1
    MaxEvents = 6
    Grace = 3
    GcWindow = 1
INVARIANTS RowsReadable ReplaysConverge
