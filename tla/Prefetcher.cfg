SPECIFICATION Spec
CONSTANTS
  m1 = m1
  m2 = m2
  p1 = p1
  p2 = p2
  Media <- MCMedia
  NoMedium = NoMedium
  BadOf <- MCBadOf
  AddrMax = 8
  Alignment = 2
  ReserveDivisor = 4
  Patterns <- MCPatterns
  FirstPattern = p1
  Caps <- MCCaps
  Ranges <- MCRanges
  Requests <- MCRequests
  MaxSlots = 4
  NoSlot = NoSlot
  NoAnswer = NoAnswer
SYMMETRY MCStores
INVARIANTS
  TypeOK
  LanesAgree
  WithinCaps
PROPERTIES
  ImplementsDisk
