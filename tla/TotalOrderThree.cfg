SPECIFICATION Spec
CONSTANTS
    N = 3
    MaxRequests = 1
    Requesters = {3}
    Uninitialised = {999}
INVARIANTS OrderSound
CHECK_DEADLOCK FALSE
