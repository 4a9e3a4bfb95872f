SPECIFICATION Spec
CONSTANTS
    Clients = {c1, c2, c3}
    Items = {ring, pen}
    Pieces = 2
    Stock <- MCStock
    Price <- MCPrice
SYMMETRY Symmetry
INVARIANTS
    TypeOK
    NoOversell
    NeverUnderstated
    RefusedOnlySoldOut
PROPERTIES
    ImplementsStore
