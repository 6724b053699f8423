SPECIFICATION FairSpec
CONSTANTS
    Callers = {c1, c2, c3}
    NoCaller = NoCaller
INVARIANTS
    Inv
    SendNeverBlocks
    NoLostRequest
    DrainedOnExit
    ChannelsClosedOnce
PROPERTIES
    Implements
    RequestServed
    BlockedReturns
    ForcedStopEnds
    ImplementsProgress
CHECK_DEADLOCK FALSE
