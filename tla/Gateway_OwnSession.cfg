CONSTANTS
    Conns = {c1, c2}
    Sessions = {s1, s2}
    MaxVisitors = 2
    NoConn = NoConn
    NoSession = NoSession
    Null = Null
    RawThread = RawThread
SPECIFICATION Spec
INVARIANT OwnSession
