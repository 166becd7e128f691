SPECIFICATION Spec
CONSTANTS
    Pins = {0, 1, 2, 3, 4}
    InputPins = {0, 1, 2, 3, 4}
    OutputPins = {0, 1, 2, 3}
    BlockedPins = {3}
    SafePins = {0, 1}
    Radios = {"wifi", "zigbee"}
    ButtonSlots = {"b0"}
    Times = {0, 1, 2}
    MinPulse = 1
    MinForceOff = 1
    BootConfigs <- BootSettings
    MaxEdits = 2
    Scanners = {"shell", "web"}
    ScanPins <- PinPairs
    Registers = 2
    Eeproms = 2
    Chunks = 2
    Fittings <- OneEeprom
    OutboxHigh = 0
    OutboxLimit = 2
    PostCap = 2
    LostReports = {"first"}
    Scenarios = {"settings", "bus", "wifi", "zigbee"}
INVARIANTS
    TypeOK
    BusIsShared
    PublishedIsWhole
    OnlineMeansKnown
    FlagsTellNetwork
    AcceptedIsSound
PROPERTIES
    PsuFollowsLine
    HomeAssistantIsServed
    FaultIsTold
CHECK_DEADLOCK FALSE
