SPECIFICATION Spec
CONSTANTS
    m = m
    t = t
    Sessions = {s1, s2}
    Objects = {m, t}
    TableOf <- Tab
    Names = {n1}
    Terms = {}
    None = None
    MaxRebuilds = 2
    MaxEdits = 1
SYMMETRY Symmetry
INVARIANTS
    RebuildsInTurnSucceed
CHECK_DEADLOCK FALSE
