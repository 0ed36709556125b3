SPECIFICATION Spec
CONSTANTS
    blank = blank
    short = short
    long = long
    Sessions = {s1, s2}
    Texts = {blank, short, long}
    Pieces <- PieceCounts
    Encoders = {e1}
    None = None
PROPERTIES
    ChunksAreOfCurrentContent
CHECK_DEADLOCK FALSE
