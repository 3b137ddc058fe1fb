SPECIFICATION StoreSpec
CONSTANTS
  PageCap = 4
  Calls <- MCCalls
  Unwritable = {"lzo"}
  Objects <- MCObjects
  ColdOpen = 5
  Chunks <- MCChunks
  Batches = {0, 2}
  MaxPuts = 2
  Word = 1024
INVARIANTS
  ChunksTile
  RowsCut
  ChunksHold
  OpensIffComplete
  ReadBack
  FooterIsOneVersion
  OpensLikeSync
  ReadIsSync
  BatchesSpellRows
