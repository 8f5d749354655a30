CONSTANTS
    Slots = {s1, s2}
    MaxPointers = 3
    MaxSessions = 2
    MaxTime = 2
    MaxWire = 2
    RequestThreads = {t1, t2}
    MaxEdits = 3
    MaxValues = 2
    MaxSeconds = 2
    Regions = {"one", "two"}
    MaxServices = 2
    MaxEndpoints = 2
    HttpRequests <- MCHttpRequests
    Lower <- MCLower
    Hostnames = {"", "gate"}
    SslPorts = {0, 443, 8443}
    Accepted <- MCAccepted
    ClientFrames <- MCClientFrames
    SentLengths = {0, 125, 126, 255, 256, 65535, 65536, 16777216, 100000000, 100000001}
SYMMETRY Symmetry
SPECIFICATION Spec
INVARIANTS
    CursorExplained
    PageExplained
    LoginInRegion
    AcceptCorrect
    RedirectExplained
    AnswersRight
