SPECIFICATION FairSpec
CONSTANTS
    NumCustomers = 2
    NumOrderTakers = 1
    NumWaiters = 1
    NumFoods = 0
    NumTables = 1
    MinCooked = 1
    MaxCooked = 1
    NumBought = 1
    Modes = {"default", "test2", "test5"}
INVARIANTS MeetingsSound StaffStays
PROPERTIES EveryoneLeaves
CHECK_DEADLOCK FALSE
