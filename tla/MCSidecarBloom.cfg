SPECIFICATION IndexSpec
CONSTANTS
  Byte = 2
  Word = 1
  SidecarRgRows = 2
  Tokenize <- MCTokenize
  Bits <- MCBits
  Contents <- MCContents
  Kinds = {"bloom"}
  Queries <- MCQueries
  MaxRewrites = 0
  MaxBuilds = 1
INVARIANT BloomIsSortedAnswer
