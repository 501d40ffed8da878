\* With lock_W_try: a reader sleeps on although its mode is allowed.
SPECIFICATION FairSpec
CONSTANTS
    Thread = {t1, t2, t3}
    Ops = {"lock_r", "lock_W_try"}
    MaxCalls = 3
CHECK_DEADLOCK FALSE
PROPERTIES
    AllowedReadIsGranted
