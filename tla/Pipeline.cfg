SPECIFICATION Spec
CONSTANTS
    r1 = r1
    r2 = r2
    c1 = c1
    c2 = c2
    o1 = o1
    None = None
    Rooms = {r1, r2}
    DefaultRoom = r1
    OverviewRooms = {}
    RoomsOverview <- EveryRoom
    Mails = {1, 2, 3}
    Incoming = {1, 2, 3}
    InReplyTo <- ChainInReplyTo
    References <- ChainReferences
    Time <- ByNumber
    HomeRoom <- AllHome
    Blacklisted = {3}
    Commands = {}
    Kind <- NoKinds
    MoveTo <- ToRoom2
    ReplyMails <- NoReplies
    Mishaps = {"crash", "lost answer"}
    MaxMishaps = 1
INVARIANTS
    TypeOK
    HeadsBelong
    MirroredOnce
    ParentFirst
    QuietMeansDone
CONSTRAINT TwoWhenAmiss
CHECK_DEADLOCK FALSE
