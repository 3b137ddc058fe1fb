SPECIFICATION DatasetSpec
CONSTANTS
  Byte = 2
  Word = 1
  SidecarRgRows = 2
  Tokenize <- MCTokenize
  Bits <- MCBits
  Contents <- MCContents
  Kinds = {"i64", "i32", "composite", "inverted", "bloom"}
  Queries <- MCQueries
  MaxRewrites = 1
  MaxBuilds = 2
  Files <- MCFiles
  Indexes <- MCIndexes
  TypeOf <- MCTypeOf
  Keys <- MCKeys
  MaxManifests = 2
  MaxEntries = 1
INVARIANTS
  AnswerIsFullScan
  CurrentIsServed
  NoFalseNegative
  NoMatchingFilePruned
