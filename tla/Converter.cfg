SPECIFICATION FairSpec
CONSTANTS
    STORE_MULTITHREAD = 4
    SIZE_T = 8
    Threads = {t1, t2, t3}
    Captures <- MCCaptures
INVARIANTS
    CounterExact
    MemorySafe
    DatasetComplete
    StatBounded
PROPERTIES
    IngestEnds
