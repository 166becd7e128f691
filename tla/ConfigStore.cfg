SPECIFICATION Spec
CONSTANTS
    Data = {"a", "b"}
    None = None
    MaxPassword = 2
    Scenarios <- AllScenarios
INVARIANTS
    TypeOK
    TrialsAreLimited
    ActiveWasHealthy
    RunningIsStored
    ResetIsFinal
    AcceptedIsTried
