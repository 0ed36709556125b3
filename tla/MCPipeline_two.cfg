SPECIFICATION Spec
CONSTANTS
    Requests = {r1, r2}
    Metrics = {m1}
    Phrases = {p1}
    MaxAttempts = 1
    None = None
SYMMETRY Symmetry
INVARIANTS
    AnswersAreOnRecord
PROPERTIES
    ImplementsContract
CHECK_DEADLOCK FALSE
