SPECIFICATION Spec
CONSTANTS
    orders = orders
    customers = customers
    regions = regions
    goods = goods
    NoRelationship = NoRelationship
    Entities <- JoinEntities
    Characters <- TextCharacters
    Metrics = {top, left, base}
    Measures = {g, h}
    metric1 = metric1
    metric1again = metric1again
    metric2 = metric2
    dimension1 = dimension1
    None = None
    day1 = day1
    day2 = day2
    other1 = other1
    visits = visits
    staff = staff
    n1 = n1
    w1 = w1
    d1 = d1
    MinYear = 2022
    MaxYear = 2025
    Dimensions <- TimeDimensions
    EntityOf <- OwnerOf
    OfVersion <- AskedAbout
    Declared <- DeclaredAs
    Values <- ValuePhrases
    ReadsAs <- Readings
    Rows <- IndexRows
    KindOf <- Kind
    PerMethod = 2
    Scale = 3782
    Unresolved = Unresolved
    Columns = {"a"}
    References = {"${a}", "${b}"}
    Numbers = {"1"}
    MaxEdits = 1
INVARIANTS
    PlanIsATree
    ShortestChains
    SqlUsesJoinedMeasures
    ChunksCoverText
    PlanOrEveryProblem
    TimeDimensionWasTheOnlyOne
    RangesAreWhole
    SqlMeansTheExpression
    StoredAsParsed
    ExactNameWins
PROPERTIES
    CallReturns
    EveryPieceIsNew
