SPECIFICATION Spec
CONSTANTS
    QuietErrors <- OneQuiet
    LoudErrors <- OneLoud
    Own = own
    Strangers = {}
    MaxConnects = 2
    MaxStrays = 0
INVARIANT DisconnectTerminates
