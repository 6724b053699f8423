SPECIFICATION FairSpec
CONSTANTS
    r1 = r1
    r2 = r2
    c1 = c1
    c2 = c2
    o1 = o1
    None = None
    Rooms = {r1, r2}
    DefaultRoom = r1
    OverviewRooms = {}
    RoomsOverview <- EveryRoom
    Mails = {1, 2}
    Incoming = {1, 2}
    InReplyTo <- TwoInReplyTo
    References <- TwoReferences
    Time <- ByNumber
    HomeRoom <- AllHome
    Blacklisted = {}
    Commands = {}
    Kind <- NoKinds
    MoveTo <- ToRoom2
    ReplyMails <- NoReplies
    Mishaps = {"removed head", "lost answer"}
    MaxMishaps = 1
PROPERTY EventuallyShown
CHECK_DEADLOCK FALSE
