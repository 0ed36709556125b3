SPECIFICATION Spec
CONSTANTS
    Metrics = {a, b, c, d}
    Measures = {g}
    Writers = {w1}
INVARIANTS
    Acyclic
    EdgesMatchExpression
PROPERTIES
    RefusesOnlyCycles
SYMMETRY Symmetry
