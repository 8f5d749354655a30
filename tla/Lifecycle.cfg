CONSTANTS
    MaxEdits = 2
SPECIFICATION Spec
INVARIANTS
    HupHarmless
    ServersAgree
    ToldStopped
PROPERTIES
    StopEnds
