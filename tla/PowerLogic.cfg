SPECIFICATION LiveSpec
CONSTANTS
    Configs <- AllConfigs
    ButtonPulse = 2
    HandoffDelay = 2
    StartTimeout = 5
    ShutdownTimeout = 5
    ForceOffHold = 4
    RetryCooldown = 6
    MaxStep = 3
    AgeCap = 6
INVARIANTS
    TypeOK
    OutputsMatchState
PROPERTIES
    ShutdownIsOrderly
    RunningBoardPressedOnlyToStop
    DeadlineKept
    StartsAreOrderly
    TimedStatesEnd
