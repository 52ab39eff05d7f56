SPECIFICATION FairSpec
CONSTANTS
  RecordCount = 5
  Budget = 2
  None = None
  Layouts <- MCLayouts
  FirstMapped = 1
  ClusterSlots = 1
  WindowSlots = 2
  MaxGap = 2
  MaxAnnouncedWindows = 2
  MaxAnnouncedSlots = 2
  MaxAnnouncedRecords = 2
  MaxAnnouncedRanges = 2
  RestartInterval = 1
  MaxPreread = 2
  MaxRun = 2
  Lookahead = 2
  ChunkSlots = 1
  BatchRecords = 2
  ChunkRecords = 1
  Helpers = {h1}
  Scanner = scanner
INVARIANTS
  ReadsAsAnnounced
  SameScan
PROPERTIES
  BytesStandStill
  UsesHeldRecords
  ScanEnds
