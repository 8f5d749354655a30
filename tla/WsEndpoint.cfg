CONSTANTS
    Thrown <- ErrorCodes
    MaxWire = 4
    MaxChunk = 3
SPECIFICATION FairSpec
PROPERTIES
    KeepsContract
    CloseEnds
    AddReturns
