SPECIFICATION ReadersSpec
CONSTANTS
  Chunks <- MCChunks
  BatchSizes = {0, 1, 2, 4}
  DictChunks <- AllDictChunks
  Predicates <- AllPredicates
  Options <- AllOptions
  Byte = 2
  MaskedChunks <- AllMaskedChunks
  RowByte = 2
  CallerMasks <- AllCallerMasks
INVARIANTS
  TypeOK
  CarryHoldsTheRest
  DecodeAheadBounded
  AnswerIsFilter
  FilledBitmapIsRowwise
  MaskedIsFilter
  SelectsSameRows
PROPERTIES Implements StreamEnds
