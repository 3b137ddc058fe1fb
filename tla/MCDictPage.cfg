SPECIFICATION Spec
CONSTANTS
  Octet = 3
  VarintBytes = 10
  Threshold = 3
  NarrowWidth = 1
  Few = 4
  Many = 9
  MaxLen = 7
  RunLengths = {1, 2, 3, 4, 5, 8, 13}
  Keys <- MCKeys
  Columns <- MCColumns
INVARIANTS
  DictSpellsColumn
  RunsSpellIndices
  ReadBack
