SPECIFICATION Spec
CONSTANTS
    orders = orders
    customers = customers
    items = items
    Entities = {orders, customers, items}
    NoRelationship = NoRelationship
    Declarable <- Star
    MaxMeasures = 1
    MaxEdits = 2
INVARIANTS
    StandingRulesApply
    EveryColumnIsJoined
    SingleFactIsNotMultiplied
CHECK_DEADLOCK FALSE
