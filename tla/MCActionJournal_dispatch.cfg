SPECIFICATION Spec
CONSTANTS
    MaxCycle = 2
    MaxStep = 2
    Idempotent <- MCIdempotent
    Cleanup <- MCCleanup
INVARIANTS
    TypeOK
    UncertainBlocks
PROPERTIES
    VerifiedAlone
    VerifiedPerformed
CHECK_DEADLOCK FALSE
