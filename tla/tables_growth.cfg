\* A second chunk is added: the base table grows from one page to two.
SPECIFICATION Spec
CONSTANTS
    o1 = o1
    o2 = o2
    b1 = b1
    b2 = b2
    Object = {o1, o2}
    Block = {b1, b2}
    InitTable <- OneChunk
    InitMeta = {b1}
    SpaceBitmap = {o1}
    ExtTables = 1
    ExtRecords = 1
    RecordsPerPage = 1
    Half = 4
    MaxMount = 2
    MaxSync <- OneThenThree
INVARIANTS
    RecoveryIsCommitted
    ReplayInBounds
    WriterMatchesDisk
