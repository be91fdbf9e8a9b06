SPECIFICATION Spec
CONSTANTS
    N = 2
    Threads = 2
    Inputs <- MCInputs
    BLOCK = 4
    CHUNK = 8
    ALIGNMENT = 2
    RECORD = 2
    MinRatio = 0
    MinSize = 6
    InlineMax = 4
    CompInlineMax = 6
    CompInlineSource = 14
    Fixed = 1
    Subsystems <- MCSubsystems
    SUPER = 2
    Preallocation = 1
    Limit = 17
    PackFaults = 1
    ForceSw = 13
    r1 = r1
    r2 = r2
    Reader = {r1, r2}
    NPages = 2
    NBlocks = 1
    MAX_READPAGE_TUNED_RETRIES = 2
    Maps = 1
    MaxReads = 2
    MaxFaults = 2
INVARIANTS
    FilesAreFound
    UptodateIsUnpacked
    MapFindsBuffer
PROPERTIES
    PackingEnds
    ReadsEnd
CHECK_DEADLOCK FALSE
