SPECIFICATION Spec
CONSTANTS
    Name = {1, 2}
    Attr = {1}
    MaxIno = 4
    Images <- AllTrees
    Kinds = {"dir", "reg"}
    MaxFuel = 5
    MaxFaults = 1
    MaxCalls = 3
    MaxCrash = 1
INVARIANTS
    LookupFindsNames
    CountsAreNames
    NothingIsLost
    RecoverySucceeds
CHECK_DEADLOCK FALSE
