SPECIFICATION Spec
CONSTANTS
    g1 = g1
    g2 = g2
    r1 = r1
    p1 = p1
    p2 = p2
    Gate <- MCGate
    Run = {r1}
    RunOf <- MCRunOf
    Plan = {p1, p2}
    HighRisk = {p1}
    RequestTTL = 1
    CheckpointLife = 1
    Lag = 1
    MaxTime = 1
    MaxChanges = 1
    MaxCrashes = 1
INVARIANTS
    TypeOK
    OneAhead
PROPERTIES
    ImplementsApproval
    HighRiskApproved
    GateConcludes
