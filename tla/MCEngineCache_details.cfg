SPECIFICATION Spec
CONSTANTS
    Threads = {t1}
    Sources = {s1}
    MaxCached = 1
    MaxClock = 1
    MaxChanges = 2
SYMMETRY Symmetry
INVARIANTS
    AnyChangeMakesAnEngine
