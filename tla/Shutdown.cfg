SPECIFICATION FairStoppedSpec
CONSTANTS
    r1 = r1
    r2 = r2
    c1 = c1
    c2 = c2
    o1 = o1
    None = None
    Rooms = {r1, r2}
    DefaultRoom = r1
    OverviewRooms = {o1}
    RoomsOverview <- Room1
    Mails = {1, 2}
    Incoming = {1}
    InReplyTo <- TwoInReplyTo
    References <- TwoReferences
    Time <- ByNumber
    HomeRoom <- AllHome
    Blacklisted = {}
    Commands = {c1}
    Kind <- Reply
    MoveTo <- ToRoom2
    ReplyMails <- TwoIsWritten
    Mishaps = {"shutdown"}
    MaxMishaps = 1
INVARIANTS
    ReplyInThread
    ListStaysUnsorted
PROPERTIES
    ShutdownEnds
    CommandsFinish
    EventuallyMirrored
CHECK_DEADLOCK FALSE
