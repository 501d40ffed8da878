\* Without lock_W_try: no wakeup is lost and every call returns.
SPECIFICATION FairSpec
CONSTANTS
    Thread = {t1, t2, t3, t4}
    Ops <- NoTry
    MaxCalls = 5
CHECK_DEADLOCK FALSE
INVARIANTS
    NoLostWakeup
PROPERTIES
    EveryCallReturns
