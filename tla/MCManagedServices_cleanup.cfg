\* An exited cycle takes no more steps.
CHECK_DEADLOCK FALSE
SPECIFICATION Spec
CONSTANTS
    NumServices = 2
    MaxStages = 1
    MaxOutput = 2
    OutputReserve = 1
INVARIANTS
    TypeOK
    StageEmpty
    ReserveKept
    Accounted
    StrangersSpared
PROPERTIES
    CycleEnds
