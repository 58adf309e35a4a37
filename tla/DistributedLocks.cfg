SPECIFICATION LocksFairSpec
CONSTANTS
    Members = 2
    Machine = {0, 1}
    Name = {"a"}
    Value = {5, 29}
    Junk = {0, 1}
    Capacity = 2
    MaxRequests = 5
    MaxOthers = 2
    None = None
INVARIANTS  LockStateAgrees
PROPERTIES HandedOverInOrder LocksGetCreated
CHECK_DEADLOCK FALSE
