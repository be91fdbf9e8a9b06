SPECIFICATION Spec
CONSTANTS
    u1 = u1
    u2 = u2
    None = None
    User = {u1, u2}
    MaxCalls = 3
INVARIANT
    CommitsWholeChanges
PROPERTIES
    EventuallyCommitted
    CallsReturn
CHECK_DEADLOCK FALSE
