CONSTANTS
    Node = {a, b}
    MaxSends = 2
    MaxCopies = 1
    MaxRenumbers = 1
SPECIFICATION FairSpec
\* Everything may have been sent and acknowledged.
CHECK_DEADLOCK FALSE
INVARIANTS
    CountersSound
    AckedWasReceived
    ReceivedAsSent
PROPERTIES
    EventuallyReceived
    EventuallyAcked
