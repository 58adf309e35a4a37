SPECIFICATION Spec
CONSTANTS
    NumCustomers = 2
    NumOrderTakers = 0
    NumWaiters = 1
    NumFoods = 1
    NumTables = 1
    MinCooked = 1
    MaxCooked = 1
    NumBought = 1
    Modes = {"default", "test1"}
INVARIANTS OrdersSound StackBounded
CHECK_DEADLOCK FALSE
