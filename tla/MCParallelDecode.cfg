SPECIFICATION FairSpec
CONSTANTS
  Threads = {w1, w2}
  Nobody = Nobody
  Columns = {c1, c2}
  MaxTargets = 3
INVARIANTS TypeOK OneMetadata EverySlotAccounted OkIsComplete ErrorIsReal LateIsNeverDecoded
PROPERTIES MetadataIsStable CallReturns
