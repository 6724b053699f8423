SPECIFICATION MCSpec
CONSTANTS
    Services = {"python", "passthrough"}
    OwnTexts <- Own
    MaxMessages = 2
    Aliases <- TheAliases
    RoomNames <- TheNames
    Senders = {"r2"}
    MaxRedactions = 1
CHECK_DEADLOCK FALSE
INVARIANT UnmodifiedIsKept
