SPECIFICATION BalancerSpec
CONSTANTS
  Names <- MCNames
  Fold <- MCFold
  Nodes = {1, 2}
  FirstRows <- MCFirstRows
  Editors = {e1}
  MaxRev = 2
  MaxId = 6
  NewNames = {"A", "e"}
  EditedIds = {1, 2}
  Parties <- MCParties
  Workers = 2
  MinPerNode = 1
  MoveShare = 2
  MaxNodeShare = 2
  Scale = 2
  MaxFetched = 1
  MaxStarts = 1
PROPERTIES SavesOnlyItsEdit BansOutliveSaves CollectorsKeepTheirAccounts RoundsKeepThePromise
CHECK_DEADLOCK FALSE
