SPECIFICATION FairSpec
CONSTANTS
    r1 = r1
    r2 = r2
    Records = {r1, r2}
    Kinds = {"ok", "unparsable", "undecodable"}
    SealWindow = 1
    MaxLog = 3
    MaxClock = 1
    MaxFaults = 1
    MaxEvents = 2
INVARIANTS CommittedMeansIndexed NewestContentServed
PROPERTIES EveryRecordSettles
