---------------------------- MODULE MCInboxCollab ----------------------------
(***************************************************************************)
(* Instances of InboxCollab. Mail 1 starts a conversation. The others      *)
(* answer it (Two) or each other (Chain).                                  *)
(***************************************************************************)
EXTENDS InboxCollab

CONSTANTS r1, r2, c1, c2, o1

OneInReplyTo == <<None>>
TwoInReplyTo == <<None, 1>>
ChainInReplyTo == <<None, 1, 2>>

OneReference == <<{}>>
TwoReferences == <<{}, {1}>>
ChainReferences == <<{}, {1}, {1, 2}>>

ByNumber == [m \in Mails |-> m]
AllHome == [m \in Mails |-> r1]

\* What the commands are; a command is typed once unless it is a reply.
NoKinds == [c \in Commands |-> "open"]
ForceClose == [c \in Commands |-> "forceclose"]
Reply == [c \in Commands |-> "reply"]
MoveAndClose == [c \in Commands |-> IF c = c1 THEN "move" ELSE "forceclose"]

ToRoom2 == [c \in Commands |-> r2]
NoReplies == [c \in Commands |-> <<>>]
TwoIsWritten == [c \in Commands |-> <<2>>]

\* What the overview rooms list
EveryRoom == [o \in OverviewRooms |-> {}]
Room1 == [o \in OverviewRooms |-> {r1}]

\* The process has run before: the first mail of a conversation is posted, in
\* an open thread or in one that has been force closed, and an overview shows
\* it.
HasOverview ==
    /\ overviewId = [o \in OverviewRooms |-> 1]
    /\ board = [o \in OverviewRooms |->
                <<[shows |-> OverviewThreads(o), removed |-> FALSE]>>]

Known(event) ==
    [m \in Mails |->
        IF m # 1 THEN NoMail
        ELSE [stored |-> TRUE, fetched |-> TRUE, extracted |-> TRUE,
              sorted |-> TRUE, replyTo |-> None, thread |-> 1, matrix |-> event]]

HasThread(open) ==
    /\ thread = <<[enabled |-> open, forceClose |-> ~open, first |-> 1,
                   last |-> 1, matrix |-> 1, room |-> r1]>>
    /\ overviewer = [o \in OverviewRooms |-> Resting]
    /\ notifier = IdleNotifier /\ recreated = {}
    /\ sortingMutex = None
    /\ sent = {} /\ mailbox = Incoming
    /\ mishaps = 0

OnMatrix(open) ==
    /\ mail = Known(2) /\ timeline = <<HeadEvent(1, r1), MailEvent(1, r1, 1)>>
    /\ redacted = {}
    /\ HasThread(open)
    /\ cmd = [c \in Commands |-> NewCommand]

\* The head was posted, the process died, and a user has removed the head; the
\* commands have been typed in vain.
HeadGone ==
    /\ mail = Known(None) /\ timeline = <<HeadEvent(1, r1)>>
    /\ redacted = {1}
    /\ HasThread(TRUE)
    /\ cmd = [c \in Commands |-> [NewCommand EXCEPT !.tries = Len(ReplyMails[c])]]

Starting == StagesInit(OverviewRooms) /\ SortingInit /\ ExtractionInit /\ PumpInit

\* All stages have had their first run and rest, and nothing is requested.
Settled ==
    /\ queued = {} /\ closed = {} /\ waiting = {}
    /\ sorter = [pc |-> "rest", rest |-> {}, cur |-> None, target |-> None,
                 first |-> FALSE]
    /\ extractor = [pc |-> "rest", todo |-> {}, first |-> FALSE]
    /\ pump = [StartedPump EXCEPT !.initial = FALSE]

\* Once something has gone wrong the third mail of a conversation stays away.
TwoWhenAmiss == mishaps > 0 => Cardinality(Stored) <= 2

PostedInit == OnMatrix(TRUE) /\ Starting /\ HasOverview

PostedSpec == PostedInit /\ [][Next]_vars

StoppedInit ==
    /\ (OnMatrix(FALSE) /\ Settled) \/ (HeadGone /\ Starting)
    /\ HasOverview

FairStoppedSpec == StoppedInit /\ [][Next]_vars /\ Fairness
=============================================================================
