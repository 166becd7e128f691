SPECIFICATION LiveSpec
CONSTANTS
    Openers = {"dispatcher", "shell"}
    Profiles = {"wifi", "zigbee", "unset"}
    Scenarios <- Orderly
    MaxGeneration = 3
INVARIANTS
    TypeOK
    NeverShareRadio
    RestIsConsistent
PROPERTIES
    IdleApCloses
    FailedPairingReopens
    ActionEnds
CHECK_DEADLOCK FALSE
