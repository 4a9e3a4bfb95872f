SPECIFICATION Spec
CONSTANTS
    Clients = {c1, c2}
    Items = {ring}
    Pieces = 2
    Stock <- MCStock
    Price <- MCPrice
INVARIANT WriteThrough
