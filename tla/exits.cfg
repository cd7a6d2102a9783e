CONSTANTS
    old = old
    new = new
    Nodes = {1, 2}
    Subs = {old, new}
    Fresh = {new}
    SubOf <- SubOfNode
    MaxSlot = 3
    ReservedSlots = {2}
    MaxSubs = 2
    Attempts = 2
    Bound = {1}
    MaxEvents = 2
    Batch = 2
    Width = 2
    GiveUpAfter = 2
    MaxRuns = 1
SPECIFICATION Spec
CHECK_DEADLOCK FALSE
INVARIANTS OneNodePerPort LeaseEndsWithItsRun BorrowedExitStays
