SPECIFICATION FairSpec
CONSTANTS
    Logins = {l1}
    None = None
    MaxDrops = 1
    MaxUpdates = 1
INVARIANT
    Ownership
PROPERTIES
    ListensAgain
    FetchServed
    ShutdownEnds
CHECK_DEADLOCK FALSE
