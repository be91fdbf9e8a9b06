SPECIFICATION Spec
CONSTANTS
    f1 = f1
    f2 = f2
    File = {f1}
    Volume = 6
    MaxOrder = 2
    MaxNodes = 2
    SuperPage = 1
    EraseSize = 2
    Discard = 99
    Boot = {0,2,4}
    Image <- NoBlock
    MaxBlocks <- Two
    ForkExtents = 1
    AreaStep = {1}
    NodeMemory = {TRUE}
    MaxCalls = 5
INVARIANT ReservedSpaceFound
CHECK_DEADLOCK FALSE
