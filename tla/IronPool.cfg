SPECIFICATION FairSpec
CONSTANTS
    FirstStart = {w1, w2}
    Restart = {r1, r2}
    Clients = {main}
    Main = main
    a = a
    b = b
    a1 = a1
    a2 = a2
    s = s
    e = e
    Items = {a, b, a1, a2, s, e}
    Parent <- MCParent
    BarrierCallers = {main}
    Endless = {e}
    NoGroup = NoGroup
INVARIANTS BooksExact WakeupsKept
PROPERTIES BarrierSound WaitsEnd
CHECK_DEADLOCK FALSE
