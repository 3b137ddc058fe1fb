SPECIFICATION LateSpec
CONSTANTS
  DictChunks <- AllDictChunks
  Predicates <- AllPredicates
  Options <- AllOptions
  Byte = 2
  MaskedChunks <- AllMaskedChunks
  RowByte = 2
  CallerMasks <- AllCallerMasks
INVARIANT BitmapIsRowwise
