SPECIFICATION ManagerSpec
CONSTANTS
    Maker = {t1}
    User = {t2, t3}
    NumLocks = 1
    NumCVs = 1
    Careful = TRUE
    NULL = NULL
INVARIANT EntriesSound
PROPERTY TablesAreLeft
CHECK_DEADLOCK FALSE
