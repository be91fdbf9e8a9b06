\* Two chunks in an area of four blocks; a third one is to be added.
SPECIFICATION Spec
CONSTANTS
    o1 = o1
    o2 = o2
    o3 = o3
    b1 = b1
    b2 = b2
    b3 = b3
    b4 = b4
    Garbage = Garbage
    Object = {o1, o2, o3}
    Block = {b1, b2, b3, b4}
    Val = {1}
    InitVal = 1
    InitTable <- TwoChunks
    InitMeta = {b1, b2, b3, b4}
    SpaceBitmap = {o1}
INVARIANT
    InsertFindsBlock
