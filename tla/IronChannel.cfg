SPECIFICATION FairSpec
CONSTANTS
    Threads = {t1, t2, t3}
    Owner = t1
    Items = {a, b, c}
    Capacity = 2
    Closers = {t1}
    NoItem = NoItem
INVARIANTS TypeOK Conservation NoLostWakeup ReclaimAlone
PROPERTIES ImplementsFifo BlockedServed
CHECK_DEADLOCK FALSE
