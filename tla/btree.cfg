CONSTANTS
    NodeSize = 8
    Descr = 1
    Crc = 0
    OffLen = 1
    IndexLen = 1
    BitsNum = 16
    Reserve = 1
    MaxAvail = 11
    Key = {0, 1, 2, 3, 4, 5, 6}
    RecLen <- Lengths
    Memory <- Scarce
    MaxTaken = 1
    MaxCalls = 4
SPECIFICATION Spec
INVARIANTS TreeIsMap TreeChecks BnodesAccounted
CHECK_DEADLOCK FALSE
