SPECIFICATION FairSpec
CONSTANTS
    FirstStart = {w1, w2}
    Restart = {r1, r2}
    Clients = {main, c}
    Main = main
    a = a
    b = b
    a1 = a1
    a2 = a2
    s = s
    e = e
    Items = {a, b}
    Parent <- MCParentSpawn
    BarrierCallers = {}
    Endless = {}
    NoGroup = NoGroup
INVARIANTS FreedUnused
CHECK_DEADLOCK FALSE
