SPECIFICATION Spec
CONSTANTS
  Root = 1
  None = None
  MaxSequence = 4
  DenseFloor = 3
  DenseRatio = 1
  MaxPathLength = 6
  Sep = Sep
  NoWindow = NoWindow
  BitsPerByte = 2
  WindowBytes = 2
  PieceBytes = 1
  MaxFailedWindows = 2
  BadCeiling = 2
  NoLcn = NoLcn
  BadRun = BadRun
  NotFirstPart = NotFirstPart
  MaxLcn = 31
  MaxSigned = 15
  NoAccount = NoAccount
  MaxClaim = 4
  MaxRead = 2
  MaxGap = 1
  Roomy = 99
  MaxThrows = 0
  Volumes <- MCEarlier
INVARIANTS
  SoleClaimant
CHECK_DEADLOCK FALSE
