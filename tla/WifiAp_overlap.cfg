SPECIFICATION Spec
CONSTANTS
    Openers = {"dispatcher"}
    Profiles = {"zigbee"}
    Scenarios <- Overlapping
    MaxGeneration = 2
INVARIANTS
    NeverShareRadio
