\* The area may grow from one block to four, a second chunk is added.
SPECIFICATION Spec
CONSTANTS
    o1 = o1
    o2 = o2
    o3 = o3
    b1 = b1
    b2 = b2
    b3 = b3
    b4 = b4
    Garbage = Garbage
    Object = {o1, o2}
    Block = {b1, b2, b3, b4}
    Val = {1, 2}
    InitVal = 1
    InitTable <- OneChunk
    InitMeta = {b1}
    SpaceBitmap = {o1}
SYMMETRY NewBlocks
INVARIANTS
    DurableIntact
    BitmapsExact
    MovedIsDirty
    WithinArea
    LackageEstimateExact
