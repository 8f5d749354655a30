CONSTANTS
    SizeBasic = 2
    SizeExtended = 3
    MaxPayload = 4
    MaxLength = 5
    MaxChunk = 24
SPECIFICATION FairSpec
INVARIANTS
    FramesInStep
    OnlyValidHandled
    ErrorIsFinal
    MethodInvariantExplained
PROPERTIES
    FoundCloseEnds
