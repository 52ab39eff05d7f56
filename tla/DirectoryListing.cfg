SPECIFICATION Spec
CONSTANTS
  NoImage = NoImage
  None = None
  FirstUser = 2
  MaxDepth = 3
  BlockSize = 2
  Root = 1
  Worlds <- MCWorlds
INVARIANTS
  SameListing
  LaneAgrees
  ZoneIsFresh
  WithinBudget
  KeeperAgrees
