CONSTANT
    Calls <- UncoveredCalls
SPECIFICATION Spec
INVARIANTS
    LoadsInPacked
CHECK_DEADLOCK FALSE
