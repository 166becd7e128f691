SPECIFICATION ClockSpec
CONSTANTS
    Configs <- AllConfigs
    Scenarios <- OffOnly
    OtherEvents = {"toggle", "ble"}
    RequestCap = 2
    EventCap = 3
    ReportCap = 2
    ButtonPulse = 1
    HandoffDelay = 1
    StartTimeout = 2
    ShutdownTimeout = 2
    ForceOffHold = 2
    RetryCooldown = 2
    MaxStep = 1
    AgeCap = 2
    SenseOn = 1
    SenseOff = 1
INVARIANTS
    PendingOffReportsOn
