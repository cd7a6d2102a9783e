SPECIFICATION FairCorpus
CONSTANTS
  Ids = {1, 2, 3}
  Legacy = {1}
  Arriving = {3}
  GameOf <- MCGameOf
  PageSize = 2
  LagGate = 1
  Parties <- MCParties
  MaxFailures = 2
  MaxBoots = 2
INVARIANTS  ExportIsWhole
PROPERTIES EveryPassMarks
CHECK_DEADLOCK FALSE
