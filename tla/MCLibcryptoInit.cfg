SPECIFICATION LiveSpec
CONSTANTS
    t1 = t1
    t2 = t2
    t3 = t3
    Free = Free
    Threads = {t1, t2, t3}
    NLocks = 2
    Registry = 1
INVARIANTS HandleMeansReady Exclusive AllOrNothing
PROPERTY Served
