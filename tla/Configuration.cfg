CONSTANTS
    h1 = h1
    h2 = h2
    Destinations <- MCDestinations
    Ports <- MCPorts
    Files <- MCFiles
    Reloaders = {r1, r2}
    MaxReloads = 2
    MaxVisits = 2
    Absent = Absent
    Bad = Bad
    Placeholder = Placeholder
SPECIFICATION ConfigSpec
SYMMETRY Symmetry
INVARIANTS
    OverrideWins
    PlaceholderExplained
    ReloadAsRestart
