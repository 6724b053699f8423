SPECIFICATION PostedSpec
CONSTANTS
    r1 = r1
    r2 = r2
    c1 = c1
    c2 = c2
    o1 = o1
    None = None
    Rooms = {r1, r2}
    DefaultRoom = r1
    OverviewRooms = {o1}
    RoomsOverview <- Room1
    Mails = {1}
    Incoming = {1}
    InReplyTo <- OneInReplyTo
    References <- OneReference
    Time <- ByNumber
    HomeRoom <- AllHome
    Blacklisted = {}
    Commands = {c1, c2}
    Kind <- MoveAndClose
    MoveTo <- ToRoom2
    ReplyMails <- NoReplies
    Mishaps = {"crash", "shutdown", "resent overview", "large overview",
        "unfetched overview"}
    MaxMishaps = 1
INVARIANTS
    QuietMeansDone
    IdsPointHome
    OverviewsUpToDate
    FewOverviews
CHECK_DEADLOCK FALSE
