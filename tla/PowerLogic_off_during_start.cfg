SPECIFICATION Spec
CONSTANTS
    Configs <- ButtonOnly
    ButtonPulse = 2
    HandoffDelay = 2
    StartTimeout = 5
    ShutdownTimeout = 5
    ForceOffHold = 4
    RetryCooldown = 6
    MaxStep = 3
    AgeCap = 6
PROPERTIES
    OffShutsDownSensedBoard
