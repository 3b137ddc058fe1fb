SPECIFICATION Spec
CONSTANTS
  PageCap = 4
  Objects <- MCObjects
  ColdOpen = 5
  Chunks <- MCChunks
  Batches = {0, 2}
  MaxPuts = 2
  Word = 1024
INVARIANT MirrorsSync
CHECK_DEADLOCK FALSE
