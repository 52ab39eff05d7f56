SPECIFICATION FairSpec
CONSTANTS
  m1 = m1
  m2 = m2
  Media <- MCMedia
  NoMedium = NoMedium
  BadOf <- MCBadOf
  AddrMax = 9
  Requests <- MCRequests
  Alignment = 2
  ChunkBytes = 1
  MaxChunkBytes = 4
  WindowChunks = 2
  NoAnswer = NoAnswer
  NoChunk = NoChunk
  Garbage = Garbage
INVARIANTS
  TypeOK
  WindowIsSound
  NothingForgotten
PROPERTIES
  NoReadInVain
  ImplementsDisk
  CallsReturn
