CONSTANTS
    NULL = NULL
    Main = t1
    Thread = {t1, t2, t3}
    Lock = {l1, l2}
    Cond = {c1}
    Sem = {s1}
    MaxInterrupts = 1
    MaxValue = 2
SPECIFICATION Spec
\* The machine halts when no thread is ready and no interrupt is pending
\* (Interrupt::Idle).
CHECK_DEADLOCK FALSE
INVARIANTS
    TypeOK
    OnePlace
    NoWaiterOnFreeLock
    HandOff
    OneLockPerCondition
    NoLostWakeup
    NoDanglingThread
PROPERTIES
    NoOvertaking
    WaitReturnsHolding
