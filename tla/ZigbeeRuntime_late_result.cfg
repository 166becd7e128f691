SPECIFICATION Spec
CONSTANTS
    Callers = {c1, c2}
    FaultSets <- BothFaults
    StopCap = 2
INVARIANTS
    PausedMeansIdle
