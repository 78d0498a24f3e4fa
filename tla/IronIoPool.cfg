SPECIFICATION FairSpec
CONSTANTS
    Lookups = {p, q}
    Workers = {w1, w2}
    max_threads = 2
    Nobody = Nobody
INVARIANTS OwnersExact NoStranded
PROPERTIES WaitsEnd
CHECK_DEADLOCK FALSE
