SPECIFICATION FairSpec
CONSTANTS
    N = 2
    MaxRequests = 2
    Requesters = {1, 2}
    Uninitialised = {0}
INVARIANTS MemberOrder
PROPERTIES EventuallyAnswered
CHECK_DEADLOCK FALSE
