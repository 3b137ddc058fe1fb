CONSTANT
    Calls <- CoveredCalls
SPECIFICATION Spec
INVARIANTS
    LoadsInPacked
    GathersInDict
    AnswerIsReference
    OutcomeDeserved
CHECK_DEADLOCK FALSE
