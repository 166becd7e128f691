SPECIFICATION Spec
CONSTANTS
    ButtonIds = {"b1"}
    Debounce = 2
    DoublePress = 3
    LongPress = 4
    MaxClicks = 2
    MaxScan = 2
    AgeCap = 4
    Devices = {"d1"}
    Absent = 2
    MaxDelay = 1
    Cores = 1
    ActionOf <- OneButton
    EventCap = 1
INVARIANTS
    TypeOK
    GesturesTellPresses
    ArrivalsTellAbsence
