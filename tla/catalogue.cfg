SPECIFICATION FairSpec
CONSTANTS
  m1 = m1
  m2 = m2
  NoMode = NoMode
  Games <- MCGames
  Batches <- MCBatches
  Configs <- MCConfigs
  Concurrency = 2
  PageSize = 2
  MinGap = 2
  Consoles = {1, 2}
  MaxRequests = 2
  MaxFaults = 1
  MaxNow = 5
INVARIANTS NothingPassedOver SweptToTheEdge RewindSticks
 
CHECK_DEADLOCK FALSE
