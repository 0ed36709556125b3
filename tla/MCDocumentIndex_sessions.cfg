SPECIFICATION Spec
CONSTANTS
    blank = blank
    short = short
    long = long
    Sessions = {s1, s2}
    Texts = {blank, short, long}
    Pieces <- PieceCounts
    Encoders = {e1, e2}
    None = None
SYMMETRY Symmetry
INVARIANTS
    ChunksAreOfOneRebuild
    VectorsAreOfTheirText
    HashTellsStaleness
CHECK_DEADLOCK FALSE
