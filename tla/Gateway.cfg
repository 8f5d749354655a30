CONSTANTS
    Conns = {c1, c2}
    Sessions = {s1, s2, s3}
    MaxVisitors = 3
    NoConn = NoConn
    NoSession = NoSession
    Null = Null
    RawThread = RawThread
SPECIFICATION Spec
SYMMETRY Symmetry
INVARIANTS
    StrayIsLater
    OrphanExplained
    CursorServed
    CrashExplained
