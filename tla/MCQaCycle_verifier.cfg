SPECIFICATION Spec
CONSTANTS
    MaxCycle = 2
    MaxVersion = 2
    MaxEdits = 2
INVARIANTS
    TypeOK
    EarnedPass
    AcceptedProofEarned
    LoopClaimProved
    CleanExit
PROPERTIES
    ImplementsPassRecord
CHECK_DEADLOCK FALSE
