SPECIFICATION Spec
CONSTANTS
  RecordCount = 5
  Budget = 2
  None = None
INVARIANTS
  TypeOK
  SlotsAccounted
  SecondPassKnows
CHECK_DEADLOCK FALSE
