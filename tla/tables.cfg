\* One chunk: extended tables fill a half, the halves alternate, crashes and
\* second mounts in between; the metadata area may grow from b1 to b2.
SPECIFICATION Spec
CONSTANTS
    o1 = o1
    o2 = o2
    b1 = b1
    b2 = b2
    Object = {o1}
    Block = {b1, b2}
    InitTable <- OneChunk
    InitMeta = {b1}
    SpaceBitmap = {o1}
    ExtTables = 2
    ExtRecords = 1
    RecordsPerPage = 1
    Half = 4
    MaxMount = 2
    MaxSync <- FiveEach
INVARIANTS
    TypeOK
    Mountable
    RecoveryIsCommitted
    WriterMatchesDisk
PROPERTIES
    VersionGrows
    AtomicCommit
