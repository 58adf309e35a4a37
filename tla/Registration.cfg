SPECIFICATION FairSpec
CONSTANTS
    N = 2
    ThreadsPerMessage = 2
    MaxLosses = 1
    MaxEarly = 1
    Requesters = {1}
INVARIANT GroupsSound
PROPERTY RegistrationEnds
CHECK_DEADLOCK FALSE
