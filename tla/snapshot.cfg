\* A second chunk is added, the area may grow from one block to three.
SPECIFICATION SnapshotSpec
CONSTANTS
    o1 = o1
    o2 = o2
    b1 = b1
    b2 = b2
    b3 = b3
    Garbage = Garbage
    Object = {o1, o2}
    Block = {b1, b2, b3}
    Val = {1}
    InitVal = 1
    InitTable <- OneChunk
    InitMeta = {b1}
    SpaceBitmap = {o1}
    ExtTables = 1
    ExtRecords = 1
    RecordsPerPage = 1
    Half = 4
    MaxMount = 2
    MaxSync <- TwoThenOne
SYMMETRY NewBlocks
INVARIANTS
    MetadataSurvives
    RecoveredInArea
    CleanReadable
PROPERTIES
    CowPart
