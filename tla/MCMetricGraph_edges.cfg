SPECIFICATION Spec
CONSTANTS
    Metrics = {a, b}
    Measures = {g}
    Writers = {w1, w2}
INVARIANTS
    EdgesMatchExpression
