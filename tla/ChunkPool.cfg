SPECIFICATION FairSpec
CONSTANTS
  Helpers = {h1, h2}
  Owner = owner
  NoChunk = NoChunk
  MaxChunks = 3
  MaxBatches = 2
INVARIANTS
  TypeOK
  QuietBetweenBatches
  ChunksRunOnce
  FirstErrorReported
PROPERTIES
  ImplementsContract
  CallsReturn
