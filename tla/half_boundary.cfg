\* As tables.cfg, but a half is exactly one base table and its extended tables,
\* which is what mkfs makes when the base table of the volume fills its share.
SPECIFICATION Spec
CONSTANTS
    o1 = o1
    o2 = o2
    b1 = b1
    b2 = b2
    Object = {o1}
    Block = {b1, b2}
    InitTable <- OneChunk
    InitMeta = {b1}
    SpaceBitmap = {o1}
    ExtTables = 2
    ExtRecords = 1
    RecordsPerPage = 1
    Half = 3
    MaxMount = 1
    MaxSync <- SevenOnce
INVARIANT
    TwoTableSets
