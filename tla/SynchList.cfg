CONSTANTS
    NULL = NULL
    Main = t1
    Thread = {t1, t2, t3}
    Lock = {lock}
    Cond = {listEmpty}
    Sem = {}
    MaxInterrupts = 0
    MaxValue = 0
    lock = lock
    listEmpty = listEmpty
    Item = {x}
    MaxLength = 2
SPECIFICATION FairListSpec
\* The machine halts when no thread is ready (Interrupt::Idle).
CHECK_DEADLOCK FALSE
INVARIANTS
    MutualExclusion
    OwnerIsInside
    RemoversSound
PROPERTIES
    AppendReturns
    RemoverServed
