CONSTANTS
    MaxStarts = 3
SPECIFICATION Spec
INVARIANTS
    OrphansExplained
    PageShowsOpen
PROPERTIES
    EndedEnds
