CONSTANTS
    W = 3
    H = 2
SPECIFICATION Spec
INVARIANTS
    BitmapExact
    OrdersExplained
