SPECIFICATION RacedSpec
CONSTANTS
    Metrics = {a, b, c}
    Measures = {}
    Writers = {w1, w2}
PROPERTIES
    EveryWriteEnds
CHECK_DEADLOCK FALSE
