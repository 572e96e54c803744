SPECIFICATION Spec
CONSTANTS
    MaxCycle = 2
    MaxStep = 2
    Idempotent <- MCIdempotent
    Cleanup <- MCCleanup
INVARIANTS
    TeardownSkipHarmless
CHECK_DEADLOCK FALSE
