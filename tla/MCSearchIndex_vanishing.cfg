SPECIFICATION Spec
CONSTANTS
    m = m
    t = t
    Sessions = {s1, s2}
    Objects = {m, t}
    TableOf <- Tab
    Names = {n1}
    Terms = {x}
    None = None
    MaxRebuilds = 2
    MaxEdits = 2
SYMMETRY Symmetry
PROPERTIES
    IndexedObjectsStayIndexed
CHECK_DEADLOCK FALSE
