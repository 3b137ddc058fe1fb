SPECIFICATION Spec
CONSTANTS
  Bits <- MCBits
  Half <- MCHalf
  Octet = 2
  MaxMinis = 2
  Payloads <- MCPayloads
  Requests <- MCRequests
INVARIANTS
  NarrowedIsLossless
  EveryRowTaken
  DeltaReadsBack
CHECK_DEADLOCK FALSE
