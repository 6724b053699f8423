SPECIFICATION FairSpec
CONSTANTS
    m1 = m1
    m2 = m2
    m3 = m3
    Mails = {m1, m2, m3}
    Malformed = {m3}
    FirstUid = 2
    ChannelSize = 1
    MaxCrashes = 1
    MaxStops = 1
    MaxDrops = 1
    MaxRenumberings = 1
INVARIANTS
    StateInOrder
    NothingSkipped
PROPERTY EventuallyStored
CHECK_DEADLOCK FALSE
