SPECIFICATION ClockSpec
CONSTANTS
    Configs <- AllConfigs
    Scenarios <- AllButOff
    OtherEvents = {"toggle", "ble"}
    RequestCap = 1
    EventCap = 1
    ReportCap = 2
    ButtonPulse = 1
    HandoffDelay = 1
    StartTimeout = 2
    ShutdownTimeout = 2
    ForceOffHold = 2
    RetryCooldown = 2
    MaxStep = 1
    AgeCap = 2
    SenseOn = 1
    SenseOff = 2
INVARIANTS
    StackTypeOK
    AttributeFollowsPower
PROPERTIES
    ImplementsPowerLogic
    RequestsAreServed
    SenseSettles
