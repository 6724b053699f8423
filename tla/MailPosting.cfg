SPECIFICATION MCFairSpec
CONSTANTS
    Services = {"python", "passthrough"}
    OwnTexts <- Own
    MaxMessages = 2
    Aliases <- TheAliases
    RoomNames <- TheNames
    Senders = {"r2"}
    MaxRedactions = 1
INVARIANTS
    SimilarityIsBest CutsAreQuotes NothingLost RoomsAgree
    RoomIsConfigured NewTextPosted CutLittle
PROPERTY PostingEnds
CHECK_DEADLOCK FALSE
