\* A search is in flight when the engine is switched off.
CONSTANTS
    b1 = b1
    w1 = w1
    w2 = w2
    w3 = w3
    w4 = w4
    c1 = c1
    c2 = c2
    s1 = s1
    s2 = s2
    Bots = {b1}
    Workers = {w1, w2}
    Stalling = {}
    Searchers = {c1}
    Syncs = {s1}
    Closer = Closer
    NoWorker = NoWorker
    PoolSize = 1
    MaxLoads = 1
SPECIFICATION FairSpec
CHECK_DEADLOCK FALSE
PROPERTIES
    DrainEnds
