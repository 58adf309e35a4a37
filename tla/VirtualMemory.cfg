SPECIFICATION Spec
CONSTANTS
    Process = {p, q}
    First = p
    NoProcess = NoProcess
    NumPhysPages = 3
    TLBSize = 2
    CodePages = 1
    DataPages = 1
    MaxPages = 2
    MaxSwapPages = 2
    Stored = {"x"}
INVARIANTS TLBAgrees FramesSound
PROPERTIES MemoryUnlessUnstored
CHECK_DEADLOCK FALSE
