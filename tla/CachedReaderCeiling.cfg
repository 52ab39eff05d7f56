SPECIFICATION Spec
CONSTANTS
  BlockBytes = 2
  MaxRunBlocks = 3
  MaxChecked = 3
  MaxAddress = 11
  DiskSize = 9
  BadSets <- MCBadSets
  Ceilings = {0, 4, 9}
  Requests <- MCRequests
  Views = {v1, v2}
  None = None
INVARIANT
  CeilingAfterEachRead
