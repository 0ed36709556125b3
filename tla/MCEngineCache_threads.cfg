SPECIFICATION Spec
CONSTANTS
    Threads = {t1, t2}
    Sources = {s1, s2, s3}
    MaxCached = 2
    MaxClock = 1
    MaxChanges = 2
SYMMETRY Symmetry
INVARIANTS
    EngineIsOfTheKey
    CacheIsBounded
    CachedEnginesAreOpen
    NoKeyError
    EngineHasDetails
