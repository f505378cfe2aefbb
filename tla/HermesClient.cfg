\* Two invocations for one role, with a correction.
CONSTANTS
    MaxRuns = 2
    MaxPieces = 1
    MaxRetries = 1
SPECIFICATION Spec
INVARIANTS
    AnswersAreOwn
    FreshSessionsToldAll
PROPERTIES
    InvocationEnds
CHECK_DEADLOCK FALSE
