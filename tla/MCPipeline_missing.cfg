SPECIFICATION Spec
CONSTANTS
    Requests = {r1}
    Metrics = {m1, m2}
    Phrases = {p1, p2}
    MaxAttempts = 2
    None = None
PROPERTIES
    MissingMeansMissing
CHECK_DEADLOCK FALSE
