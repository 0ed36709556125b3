SPECIFICATION Spec
CONSTANTS
    orders = orders
    customers = customers
    items = items
    Entities = {orders, customers, items}
    NoRelationship = NoRelationship
    Declarable <- Star
    MaxMeasures = 2
    MaxEdits = 0
INVARIANTS
    NoTotalIsMultiplied
CHECK_DEADLOCK FALSE
