\* Two searches and two calls of sync; the pool may be unloaded and loaded
\* again once.
CONSTANTS
    b1 = b1
    w1 = w1
    w2 = w2
    w3 = w3
    w4 = w4
    c1 = c1
    c2 = c2
    s1 = s1
    s2 = s2
    Bots = {b1}
    Workers = {w1, w2, w3}
    Stalling = {w1}
    Searchers = {c1, c2}
    Syncs = {s1, s2}
    Closer = Closer
    NoWorker = NoWorker
    PoolSize = 2
    MaxLoads = 2
SPECIFICATION GuardedSpec
CHECK_DEADLOCK FALSE
INVARIANTS
    TypeOK
    OneUserPerWorker
    AvailableRuns
    FirstPoolIsWhole
PROPERTIES
    ChooseWaitsForItsOwn
