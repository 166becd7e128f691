SPECIFICATION LiveSpec
CONSTANTS
    Callers = {c1, c2, c3}
    FaultSets <- OneFault
    StopCap = 2
INVARIANTS
    TypeOK
    PausedMeansIdle
PROPERTIES
    ImplementsGate
    NobodyIsStuck
