INIT WrittenInit
NEXT ExpansionStep
CONSTANTS
    Metrics = {top, left, base}
    Measures = {g}
INVARIANTS
    OnlyCyclesAreRefused
CHECK_DEADLOCK FALSE
