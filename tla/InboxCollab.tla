----------------------------- MODULE InboxCollab -----------------------------
(***************************************************************************)
(* The pipeline of internal/app: fetched mails are stored (storeMails),    *)
(* sorted into threads, extracted and posted to Matrix, each stage handing *)
(* over to the next through a request, while users type commands and       *)
(* remove messages, and the process is stopped (cmd/main.go) or dies, and  *)
(* is started again.                                                       *)
(***************************************************************************)
EXTENDS ThreadCommands, MessageExtraction, FiniteSets, Functions

CONSTANTS
    Incoming,       \* the mails that others send
    Mishaps,        \* what may go wrong: a subset of MishapKinds
    MaxMishaps      \* bound: how often in a behaviour

\* The process dies or is stopped, an answer of the chat server is lost, a user
\* removes the head of a thread or has an overview sent again, an overview
\* cannot be fetched or becomes too large for an edit.
MishapKinds ==
    {"crash", "shutdown", "lost answer", "removed head", "resent overview",
     "large overview", "unfetched overview"}

ASSUME InboxAssumption ==
    /\ Incoming \subseteq Mails
    /\ Mishaps \subseteq MishapKinds
    /\ MaxMishaps \in Nat

\* generateMessageId hashes the second and the text: the mails written here are
\* known apart, as long as no two replies have the same text in the same second.
ASSUME ReplyAssumption ==
    \A c \in Commands : \A i \in DOMAIN ReplyMails[c] :
        /\ ReplyMails[c][i] \notin Incoming
        /\ \A d \in Commands : \A j \in DOMAIN ReplyMails[d] :
            ReplyMails[c][i] = ReplyMails[d][j] => c = d /\ i = j

VARIABLES
    pump,    \* the goroutine storeMails and the chunk of mails it stores
    mishaps  \* how often something has gone wrong

vars == <<mail, thread, stageVars, sorter, sortingMutex, extractor, notifier,
          recreated, timeline, redacted, cmd, sent, mailbox, pump, mishaps,
          overviewer, overviewId, board>>

StartedPump == [chunk |-> {}, busy |-> FALSE, added |-> FALSE, initial |-> TRUE]

PumpInit == pump = StartedPump

Init ==
    /\ DbInit
    /\ StagesInit(OverviewRooms)
    /\ SortingInit
    /\ ExtractionInit
    /\ NotificationInit
    /\ OverviewInit
    /\ CommandsInit(Incoming)
    /\ PumpInit
    /\ mishaps = 0
-----------------------------------------------------------------------------
(* storeMails *)

pumpRest == <<sortingVars, extractor, notifierVars, matrixVars, commandVars,
              mishaps, overviewVars>>

\* A fetcher delivers some of the mails in its mailbox, or none. A chunk that
\* holds nothing new matters only when it is the first one.
ReceiveChunk(chunk) ==
    /\ ~pump.busy
    /\ chunk \subseteq mailbox \ Stored
    /\ chunk # {} \/ pump.initial
    /\ pump' = [pump EXCEPT !.chunk = chunk, !.busy = TRUE, !.added = FALSE]
    /\ UNCHANGED <<dbVars, stageVars, pumpRest>>

\* AddMails inserts one mail after the other.
StoreMail(m) ==
    /\ pump.busy
    /\ m \in pump.chunk
    /\ AddMail(m, TRUE)
    /\ pump' = [pump EXCEPT !.chunk = @ \ {m},
                            !.added = @ \/ ~mail[m].stored]
    /\ UNCHANGED <<thread, stageVars, pumpRest>>

EndChunk ==
    /\ pump.busy
    /\ pump.chunk = {}
    /\ IF pump.added \/ pump.initial THEN QueueWork("sorting") ELSE UNCHANGED stageVars
    /\ pump' = [pump EXCEPT !.busy = FALSE, !.added = FALSE, !.initial = FALSE]
    /\ UNCHANGED <<dbVars, pumpRest>>
-----------------------------------------------------------------------------
(* Users, errors, shutdowns and crashes *)

Mishap(kind) ==
    /\ kind \in Mishaps
    /\ mishaps < MaxMishaps
    /\ mishaps' = mishaps + 1

RemoveHead(e) ==
    /\ Mishap("removed head")
    /\ Redact(e)
    /\ UNCHANGED <<sortingVars, extractor, commandVars, pump, overviewVars>>

MistakeHead ==
    /\ Mishap("lost answer")
    /\ MistakeHeadForRedacted
    /\ UNCHANGED <<sortingVars, extractor, commandVars, pump, overviewVars>>

LoseAnswer ==
    /\ Mishap("lost answer")
    /\ AnswerLost
    /\ UNCHANGED <<sortingVars, extractor, commandVars, pump, overviewVars>>

\* The process starts again: the database, the chat server and the mailboxes
\* are as they were, commands that were running are gone.
StartAgain ==
    /\ queued' = {"notification"} \cup OverviewRooms
    /\ closed' = {} /\ waiting' = {}
    /\ sorter' = [pc |-> "rest", rest |-> {}, cur |-> None, target |-> None,
                  first |-> TRUE]
    /\ sortingMutex' = None
    /\ extractor' = [pc |-> "rest", todo |-> {}, first |-> TRUE]
    /\ notifier' = IdleNotifier
    /\ recreated' = {}
    /\ cmd' = [c \in Commands |-> [NewCommand EXCEPT !.tries = cmd[c].tries]]
    /\ pump' = StartedPump
    /\ overviewer' = [o \in OverviewRooms |-> Resting]
    /\ UNCHANGED <<dbVars, matrixVars, sent, mailbox, overviewId, board>>

Crash == Mishap("crash") /\ StartAgain

\* Once the fetchers have ended: all stages are stopped, those but sorting
\* with their contexts, and the channel of the fetched mails is closed.
Stop ==
    /\ closed = {}
    /\ Mishap("shutdown")
    /\ closed' = StageNames \cup OverviewRooms
    /\ UNCHANGED <<dbVars, queued, waiting, sortingVars, extractor, notifierVars,
                   matrixVars, commandVars, pump, overviewVars>>

AtRest ==
    /\ sorter.pc = "rest" /\ extractor.pc = "rest" /\ notifier.pc = "rest"
    /\ \A o \in OverviewRooms : overviewer[o].pc = "rest"
    /\ ~pump.busy

\* waitGroup.Wait returns: storeMails has emptied the channel and every stage
\* has served what it had accepted. Commands are not waited for.
Exit ==
    /\ closed # {}
    /\ \A s \in closed : Drained(s)
    /\ AtRest
    /\ StartAgain
    /\ UNCHANGED mishaps
-----------------------------------------------------------------------------
Pump ==
    \/ \E chunk \in SUBSET mailbox : ReceiveChunk(chunk)
    \/ \E m \in Mails : StoreMail(m)
    \/ EndChunk

SortingStage ==
    Sorting /\ UNCHANGED <<extractor, notifierVars, matrixVars, commandVars,
                           pump, mishaps, overviewVars>>

ExtractionStage ==
    Extraction /\ UNCHANGED <<sortingVars, notifierVars, matrixVars,
                              commandVars, pump, mishaps, overviewVars>>

NotificationStage ==
    Notification /\ UNCHANGED <<sortingVars, extractor, commandVars, pump,
                                mishaps, overviewVars>>

others == <<sortingVars, extractor, notifierVars, matrixVars, commandVars, pump>>

OverviewStage(o) == OverviewStep(o) /\ UNCHANGED <<others, mishaps>>

OverviewFails(o) == UpdateFails(o) /\ UNCHANGED <<others, mishaps>>

RepostOverview(o) ==
    /\ \/ Mishap("unfetched overview") /\ PostSecondOverview(o)
       \/ Mishap("large overview") /\ RemoveLargeOverview(o)
    /\ UNCHANGED others

Resend(o) ==
    /\ Mishap("resent overview")
    /\ ResendThreadOverview(o)
    /\ UNCHANGED others

Command(c) ==
    /\ \/ \E e \in Events : Issue(c, e)
       \/ CommandStep(c)
       \/ ReplySendFails(c)
    /\ UNCHANGED <<extractor, pump, mishaps, overviewVars>>

Next ==
    \/ Pump
    \/ SortingStage
    \/ ExtractionStage
    \/ NotificationStage
    \/ \E o \in OverviewRooms :
        OverviewStage(o) \/ OverviewFails(o) \/ RepostOverview(o) \/ Resend(o)
    \/ \E c \in Commands : Command(c)
    \/ \E e \in Events : RemoveHead(e)
    \/ MistakeHead
    \/ LoseAnswer
    \/ Crash
    \/ Stop
    \/ Exit

Spec == Init /\ [][Next]_vars
-----------------------------------------------------------------------------
(* Fairness *)

(***************************************************************************)
(* Every goroutine that can go on does. Mutexes are fair (see              *)
(* PipelineStage). WaitForCompleteData gives up after 120 seconds, so the  *)
(* sorting stage cannot wait for ever at its gate. The chat server and the *)
(* extraction service fail now and then, not for good. The first chunk of  *)
(* every fetcher arrives (StartFetching queues an initial fetch and sends  *)
(* even an empty chunk) unless it is stopped before; further mails may or  *)
(* may not. Users, crashes and errors are never forced; a process that has *)
(* been stopped ends and is started again.                                 *)
(***************************************************************************)
Others == <<extractor, notifierVars, matrixVars, commandVars, pump, mishaps,
            overviewVars>>

Fairness ==
    /\ WF_vars(/\ pump.initial /\ closed = {}
               /\ \E chunk \in SUBSET mailbox : ReceiveChunk(chunk))
    /\ WF_vars((\E m \in Mails : StoreMail(m)) \/ EndChunk)
    /\ WF_vars(SortingStep /\ UNCHANGED Others)
    /\ SF_vars(LockThreadSorting /\ UNCHANGED Others)
    /\ SF_vars(AutoUpdateMailSorting /\ UNCHANGED Others)
    /\ WF_vars(ExtractionStage)
    /\ \A m \in Mails :
        SF_vars(PerformMessageExtraction(m) /\
                UNCHANGED <<sortingVars, notifierVars, matrixVars, commandVars,
                            pump, mishaps, overviewVars>>)
    /\ WF_vars(NotificationStage)
    /\ SF_vars((SendMail \/ FindHeadRedacted) /\
               UNCHANGED <<sortingVars, extractor, commandVars, pump, mishaps,
                           overviewVars>>)
    /\ \A o \in OverviewRooms : WF_vars(OverviewStage(o))
    /\ WF_vars(Exit)
    /\ \A c \in Commands :
        /\ WF_vars(CommandStep(c) /\ UNCHANGED <<extractor, pump, mishaps, overviewVars>>)
        /\ SF_vars(ReplyLock(c) /\ UNCHANGED <<extractor, pump, mishaps, overviewVars>>)

FairSpec == Spec /\ Fairness
-----------------------------------------------------------------------------
(* Safety *)

\* What the tables and the workers may hold: every thread and event that is
\* referred to exists, and the head and the last mail of a thread are stored.
TypeOK ==
    /\ mail \in [Mails ->
            [stored : BOOLEAN, fetched : BOOLEAN, extracted : BOOLEAN,
             sorted : BOOLEAN, replyTo : Mails \cup {None},
             thread : Threads \cup {None},
             matrix : Events \cup Commands \cup {None}]]
    /\ \A t \in Threads : thread[t] \in
            [enabled : BOOLEAN, forceClose : BOOLEAN, first : Stored,
             last : Stored, matrix : Events \cup {None},
             room : Rooms \cup {None}]
    /\ queued \subseteq StageNames \cup OverviewRooms
    /\ closed \in {{}, StageNames \cup OverviewRooms}
    /\ waiting \subseteq ({"notification"} \cup OverviewRooms) \X Commands
    /\ \A o \in OverviewRooms :
        /\ overviewer[o].pc \in OverviewerSteps
        /\ overviewId[o] \in DOMAIN board[o] \cup {None}
    /\ sorter.pc \in SorterSteps
    /\ extractor.pc \in ExtractorSteps
    /\ notifier.pc \in NotifierSteps
    /\ \A c \in Commands : cmd[c].pc \in CommandSteps
    /\ sent \subseteq Mails /\ mailbox \subseteq Mails

\* The list of mails the sorting stage has read stays true while it works
\* through it, although mails are stored, replies are sorted by hand and
\* threads are closed meanwhile: it never sorts a mail a second time.
ListStaysUnsorted ==
    \A m \in sorter.rest :
        m # sorter.cur \/ sorter.pc # "touch" => ~mail[m].sorted

Headless == {t \in Threads : mail[thread[t].first].thread # t}

\* A thread's first mail is in that thread and in no other, except between
\* the two statements of CreateThread; so no two threads share a head, but for
\* one that a crash between the statements leaves behind.
HeadsBelong ==
    Cardinality(Headless) <= mishaps + IF sorter.pc = "claim" THEN 1 ELSE 0

\* What the database knows as the Matrix message of a thread is a head of
\* this thread in the room of the row, and that of a mail is an event with
\* this mail under some head of its thread, or the command that wrote it.
\* Under the head its thread has now is more than holds: a mail that is posted
\* while its thread is moved keeps the id it has under the old head.
IdsPointHome ==
    /\ \A t \in Threads : thread[t].matrix # None =>
        LET e == timeline[thread[t].matrix]
        IN  e.kind = "head" /\ e.of = t /\ e.room = thread[t].room
    /\ \A m \in Mails : mail[m].matrix # None =>
        \/ \E c \in Commands : mail[m].matrix = c /\ m \in Range(ReplyMails[c])
        \/ \E e \in Events : /\ mail[m].matrix = e
                             /\ timeline[e].kind = "mail"
                             /\ timeline[e].of = m
                             /\ timeline[timeline[e].root].of = mail[m].thread

MailEvents(m, root) ==
    {e \in Events : timeline[e].kind = "mail" /\ timeline[e].of = m
                    /\ timeline[e].root = root}

\* Where nothing is moved, every mail appears once under one head, and at most
\* once more for every crash and every answer of the chat server that was lost.
MirroredOnce ==
    \A e \in Events :
        timeline[e].kind = "mail" =>
            Cardinality(MailEvents(timeline[e].of, timeline[e].root)) <= 1 + mishaps

\* A mail that has been sorted as an answer to another mail of its thread is
\* posted under a head only after that mail, whatever failed, was retried or
\* arrived meanwhile. Two mishaps, a head that is gone or taken to be and an end
\* of the process between the statements that forget it, may leave the parent
\* under the old head.
ParentFirst ==
    \A e \in Events :
        timeline[e].kind = "mail" =>
        LET m == timeline[e].of
            p == mail[m].replyTo
        IN  p # None /\ mail[p].thread = mail[m].thread =>
                \E f \in Events : /\ timeline[f].kind = "mail" /\ timeline[f].of = p
                                 /\ f < e
                                 /\ \/ timeline[f].root = timeline[e].root
                                    \/ mishaps > 1

\* Nothing is being done and nothing has been requested.
Quiet ==
    /\ queued = {} /\ closed = {}
    /\ AtRest /\ ~pump.initial
    /\ \A c \in Commands : ~Running(c)

\* The stages hand over completely: when everything is quiet no mail is left
\* that has to be sorted, extracted or posted.
QuietMeansDone ==
    Quiet => /\ MailsRequiringSorting = {}
             /\ MailsRequiringMessageExtraction = {}
             /\ MatrixReadyThreads = {}
             /\ MatrixReadyMails = {}

\* UpdateMailSorting puts an answer into its thread before UpdateThreadLastMail
\* opens the thread: the answer may have been posted, and the overview brought up
\* to date, in between.
OpenedLate(t) ==
    /\ thread[t].last # thread[t].first
    /\ \E c \in Commands : Kind[c] \in {"close", "forceclose"} /\ cmd[c].tries > 0

\* touchedRooms is given up when a run that is called again finds no mail, because
\* a reply has recorded its mail itself, or a !move has taken its thread away from
\* a room that the overview does not hear of.
TouchesLost(o) ==
    \E c \in Commands :
        /\ cmd[c].tries > 0
        /\ \/ Kind[c] = "reply"
           \/ /\ Kind[c] = "move"
              /\ \E e \in Events : /\ timeline[e].kind = "head"
                                  /\ timeline[e].room # MoveTo[c]
                                  /\ o \notin GetOverviewRooms(timeline[e].room)

\* When everything is quiet every overview room has a message that shows the
\* open threads of its rooms and no other, each with the link to its first mail,
\* however they were opened, closed, posted, moved and recreated, and although
\* a run reads them once and a crash may come between the message and the record
\* of its id. A thread that an answer has reopened may be missing, and one that a
\* crash has left without its first mail be shown with an old link.
OverviewsUpToDate ==
    Quiet => \A o \in OverviewRooms :
        /\ overviewId[o] # None
        /\ ~board[o][overviewId[o]].removed
        /\ LET shown == board[o][overviewId[o]].shows
               Open(rows) == {<<row.thread, row.room>> : row \in rows}
               Linked(rows) == {row \in rows : LET m == thread[row.thread].first
                                              IN  mail[m].thread = row.thread}
           IN  \/ /\ Open(shown) \subseteq Open(OverviewThreads(o))
                  /\ Linked(shown) \subseteq OverviewThreads(o)
                  /\ \A row \in OverviewThreads(o) :
                        <<row.thread, row.room>> \in Open(shown) \/ OpenedLate(row.thread)
               \/ TouchesLost(o)

\* A run that cannot read the id of the overview's message, or cannot save it,
\* because the stage has been stopped, or cannot fetch the message, posts one
\* more. Each shutdown leaves at most two of them in the room, each crash and
\* each one that is not fetched one, and a message that grows too large none.
FewOverviews ==
    \A o \in OverviewRooms :
        Cardinality({i \in DOMAIN board[o] : ~board[o][i].removed}) <= 1 + 2 * mishaps

\* commands.go: "Close a thread forever unless manually reopend."; the manual
\* !open clears force_close.
ForceClosedStaysClosed ==
    \A t \in Threads : thread[t].forceClose => ~thread[t].enabled

\* A reply written here is in the thread of the mail it answers, also when that
\* thread is force closed and the sorting stage would start another one, unless
\* the process has ended while the command was sorting it.
ReplyInThread ==
    \A c \in Commands : \A m \in Range(ReplyMails[c]) :
        mail[m].sorted => \/ mail[m].thread = mail[InReplyTo[m]].thread
                          \/ mishaps > 0 /\ ~(Running(c) /\ m = NewMail(c))

-----------------------------------------------------------------------------
(* Liveness *)

Shown(m) ==
    /\ mail[m].thread # None
    /\ MailEvents(m, thread[mail[m].thread].matrix) # {}

\* Every stored mail that may be in a thread gets to Matrix, under the head
\* its thread has then.
EventuallyShown ==
    \A m \in Incoming \ Blacklisted : mail[m].stored ~> Shown(m)

\* A reply that holds the sorting mutex waits for an overview stage that has
\* ended, and the sorting stage waits for the mutex: the shutdown hangs.
HeldUp ==
    /\ "sorting" \in queued \/ sorter.pc = "lock"
    /\ \E c \in Commands : /\ sortingMutex = c
                          /\ \E o \in OverviewRooms :
                                /\ <<o, c>> \in waiting
                                /\ Drained(o) /\ overviewer[o].pc = "rest"

\* Commands come to an end, through the room mutexes, the mutex they share
\* with the sorting stage and their waits for the stages, unless a shutdown
\* hangs.
CommandsFinish == \A c \in Commands : Running(c) ~> ~Running(c) \/ HeldUp

\* Whatever has its messages, a reply that was interrupted by a shutdown among
\* it, is on Matrix in the end, unless a shutdown hangs.
EventuallyMirrored ==
    \A m \in Mails \ Blacklisted : mail[m].extracted ~> mail[m].matrix # None \/ HeldUp

\* A shutdown comes to its end whatever the stages were doing, but for a reply
\* that waits for a stage that has ended.
ShutdownEnds == closed # {} ~> closed = {} \/ HeldUp
=============================================================================
