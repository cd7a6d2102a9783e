SPECIFICATION FairSpec
CONSTANTS
    g1 = g1
    g2 = g2
    NoGame = NoGame
    gold = gold
    jade = jade
    Games = {g1, g2}
    Modes <- Rooms
    ModeOf <- RoomOf
    Settle = 1
    GiveUpAge = 1
    MaxRecent = 1
    PbModule = FALSE
    MaxFaults = 2
INVARIANTS GivenUpIsOnRecord
PROPERTIES QueueLosesNothing EveryGameSettles
CHECK_DEADLOCK FALSE
