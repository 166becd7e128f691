SPECIFICATION Spec
CONSTANTS
    Data = {"a", "b"}
    None = None
    MaxPassword = 1
    Scenarios <- Resaved
INVARIANTS
    RollbackAfterTwoBoots
