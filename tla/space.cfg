SPECIFICATION Spec
CONSTANTS
    f1 = f1
    f2 = f2
    File = {f1,f2}
    Volume = 9
    MaxOrder = 2
    MaxNodes = 2
    SuperPage = 2
    EraseSize = 2
    Discard = 99
    Boot = {0}
    Image <- OneBlock
    MaxBlocks <- ThreeOne
    ForkExtents = 1
    AreaStep = {2,6}
    NodeMemory = {TRUE,FALSE}
    MaxCalls = 2
INVARIANTS
    TypeOK
    SpaceAccounted
    EachBlockOneOwner
    ExtentsOrdered
    ReserveMatchesRuntime
    NoReuseBeforeCommit
    DiscardsOnlyFree
CHECK_DEADLOCK FALSE
