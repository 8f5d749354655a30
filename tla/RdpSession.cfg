SPECIFICATION FairSpec
CONSTANTS
    QuietErrors <- OneQuiet
    LoudErrors <- TwoLoud
    Own = own
    Strangers = {s1}
    MaxConnects = 2
    MaxStrays = 2
INVARIANTS
    LibraryExclusion
    UnjoinedExplained
    LeakExplained
    NoErrorLost
PROPERTIES
    DestroyEnds
    RequestServed
    Implements
