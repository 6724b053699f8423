-------------------------- MODULE MatrixNotification --------------------------
(***************************************************************************)
(* The Matrix notification stage of internal/app/matrixnotifications.go:   *)
(* it posts the head of every new thread, then every mail that is not on   *)
(* Matrix yet into its thread, and recreates threads whose head somebody   *)
(* has removed. One action per database statement and per request to the   *)
(* chat server. The chat server is the timeline of events it has accepted; *)
(* an event's id is its position.                                          *)
(*                                                                         *)
(* Left out: the room names that its setup keeps fresh.                    *)
(***************************************************************************)
EXTENDS MatrixOverview

VARIABLES
    notifier,   \* the worker: its next step and its local variables
    recreated,  \* the map recreatedThreads: records with the old head
    timeline,   \* the events of the chat server
    redacted    \* the ids of the events that users have removed

notifierVars == <<notifier, recreated>>
matrixVars == <<timeline, redacted>>

NotifierSteps ==
    {"rest", "threads", "post", "record head", "link", "mails", "check",
     "send", "record mail", "forget head", "forget mails"}

\* touched: the overviews of touchedRooms, the rooms something was posted in
IdleNotifier ==
    [pc |-> "rest", threads |-> {}, unchecked |-> {}, valid |-> {},
     mails |-> {}, head |-> None, mail |-> None, id |-> None, gone |-> {},
     touched |-> {}]

NotificationInit ==
    /\ notifier = IdleNotifier
    /\ recreated = {}
    /\ timeline = <<>>
    /\ redacted = {}

NAt(step) == notifier.pc = step

\* ForceStop cancels the context of the database statements of work, which
\* then fail; requests to the chat server go on.
Cancelled == "notification" \in closed

Events == DOMAIN timeline

HeadEvent(t, room) == [kind |-> "head", of |-> t, room |-> room, root |-> None]
MailEvent(m, room, root) == [kind |-> "mail", of |-> m, room |-> room, root |-> root]
LinkEvent(id, room, root) == [kind |-> "link", of |-> id, room |-> room, root |-> root]
-----------------------------------------------------------------------------
NotificationBegin ==
    /\ NAt("rest")
    /\ TakeUp("notification")
    /\ notifier' = [notifier EXCEPT !.pc = "threads"]
    /\ UNCHANGED <<recreated, matrixVars, dbVars>>

\* The rows hold the room a move command has set, or NULL.
ListMatrixReadyThreads ==
    /\ NAt("threads")
    /\ LET listed == IF Cancelled THEN {} ELSE MatrixReadyThreads
       IN  notifier' = [notifier EXCEPT
                !.pc = IF listed = {} THEN "mails" ELSE "post",
                !.threads = {[id |-> t, first |-> thread[t].first,
                              room |-> thread[t].room] : t \in listed}]
    /\ UNCHANGED <<stageVars, recreated, matrixVars, dbVars>>

\* CreateThread: the head goes to the room of the row, else where it belongs.
PostHead ==
    /\ NAt("post")
    /\ \E row \in notifier.threads :
        /\ \A other \in notifier.threads : Time[row.first] <= Time[other.first]
        /\ LET room == IF row.room = None THEN HomeRoom[row.first] ELSE row.room
           IN  /\ timeline' = Append(timeline, HeadEvent(row.id, room))
               /\ notifier' = [notifier EXCEPT !.pc = "record head",
                                               !.threads = @ \ {row},
                                               !.head = row.id,
                                               !.id = Len(timeline) + 1]
    /\ UNCHANGED <<stageVars, recreated, redacted, dbVars>>

\* Whether the statement succeeds is not looked at.
RecordHead ==
    /\ NAt("record head")
    /\ IF Cancelled THEN UNCHANGED thread
       ELSE UpdateThreadMatrixIds(notifier.head, timeline[notifier.id].room,
                                  notifier.id)
    /\ notifier' = [notifier EXCEPT
            !.pc = "link",
            !.touched = @ \cup GetOverviewRooms(timeline[notifier.id].room)]
    /\ UNCHANGED <<stageVars, recreated, matrixVars, mail>>

\* NotifyRecreation leaves a link in the old thread, if the thread is known
\* to have been recreated.
LinkRecreation ==
    /\ NAt("link")
    /\ LET olds == {r \in recreated : r.thread = notifier.head}
       IN  IF olds = {}
           THEN UNCHANGED <<timeline, recreated>>
           ELSE \E old \in olds :
                /\ timeline' = Append(timeline, LinkEvent(notifier.id, old.room, old.root))
                /\ recreated' = recreated \ {old}
    /\ notifier' = [notifier EXCEPT !.pc = "post", !.head = None, !.id = None]
    /\ UNCHANGED <<stageVars, redacted, dbVars>>

\* SendThreadMessage for the link fails; the entry stays for the next head.
LinkFails ==
    /\ NAt("link")
    /\ \E r \in recreated : r.thread = notifier.head
    /\ notifier' = [notifier EXCEPT !.pc = "post", !.head = None, !.id = None]
    /\ UNCHANGED <<stageVars, recreated, matrixVars, dbVars>>

\* All heads are posted, or there were none: the mails to add and the heads
\* of their threads. The overviews are not updated if there is neither.
ListMatrixReadyMails ==
    /\ NAt("mails") \/ (NAt("post") /\ notifier.threads = {})
    /\ LET listed == IF Cancelled THEN {} ELSE MatrixReadyMails
       IN  notifier' = [notifier EXCEPT
                !.pc = IF listed = {} THEN "send" ELSE "check",
                !.touched = IF NAt("mails") /\ listed = {} THEN {} ELSE @,
                !.mails = {[id |-> m, thread |-> mail[m].thread,
                            root |-> thread[mail[m].thread].matrix,
                            room |-> thread[mail[m].thread].room] :
                           m \in listed},
                !.unchecked = {mail[m].thread : m \in listed},
                !.valid = {}]
    /\ UNCHANGED <<stageVars, recreated, matrixVars, dbVars>>

\* findValid: a thread is held back while one of its mails is not extracted;
\* one whose mails cannot be read is not. After the last thread the mails of
\* those held back are skipped.
CheckThread(t) ==
    /\ NAt("check")
    /\ t \in notifier.unchecked
    /\ LET ready == Cancelled \/ \A m \in MailsByThread(t) : mail[m].extracted
           valid == notifier.valid \cup {u \in {t} : ready}
           left == notifier.unchecked \ {t}
       IN  notifier' = [notifier EXCEPT
                !.unchecked = left,
                !.valid = IF left = {} THEN {} ELSE valid,
                !.mails = IF left = {} THEN {row \in @ : row.thread \in valid} ELSE @,
                !.pc = IF left = {} THEN "send" ELSE "check"]
    /\ UNCHANGED <<stageVars, recreated, matrixVars, dbVars>>

NextMails ==
    {row \in notifier.mails :
        \A other \in notifier.mails : Time[row.id] <= Time[other.id]}

\* AddReply, when the head of the row is still there.
SendMail ==
    /\ NAt("send")
    /\ \E row \in NextMails :
        /\ row.root \notin redacted
        /\ timeline' = Append(timeline, MailEvent(row.id, row.room, row.root))
        /\ notifier' = [notifier EXCEPT !.pc = "record mail",
                                        !.mails = @ \ {row},
                                        !.mail = row.id,
                                        !.id = Len(timeline) + 1]
    /\ UNCHANGED <<stageVars, recreated, redacted, dbVars>>

\* FAULT: a mail that has been sent is not remembered.
RecordNothing ==
    /\ NAt("record mail")
    /\ notifier' = [notifier EXCEPT !.pc = "send", !.mail = None, !.id = None]
    /\ UNCHANGED <<stageVars, recreated, matrixVars, dbVars>>

\* FAULT: the id of the next event is taken for the one of this mail.
RecordNextId ==
    /\ NAt("record mail")
    /\ UpdateMailMatrixId(notifier.mail, notifier.id + 1)
    /\ notifier' = [notifier EXCEPT !.pc = "send", !.mail = None, !.id = None]
    /\ UNCHANGED <<stageVars, recreated, matrixVars, thread>>

RecordMail ==
    /\ NAt("record mail")
    /\ IF Cancelled THEN UNCHANGED mail
       ELSE UpdateMailMatrixId(notifier.mail, notifier.id)
    /\ notifier' = [notifier EXCEPT
            !.pc = "send", !.mail = None, !.id = None,
            !.touched = @ \cup GetOverviewRooms(timeline[notifier.id].room)]
    /\ UNCHANGED <<stageVars, recreated, matrixVars, thread>>

\* work returns false and is called again with what the database then says,
\* unless the stage has been stopped: its run ends.
CallAgain ==
    IF Cancelled
    THEN /\ notifier' = IdleNotifier
         /\ LetGo("notification")
         /\ UNCHANGED <<queued, closed>>
    ELSE /\ notifier' = [notifier EXCEPT !.pc = "threads", !.mails = {}, !.gone = {}]
         /\ UNCHANGED stageVars

\* SendThreadMessage fails and the server has not got the message.
SendFails ==
    /\ NAt("send")
    /\ notifier.mails # {}
    /\ CallAgain
    /\ UNCHANGED <<recreated, matrixVars, dbVars>>

\* The chat server accepts the message but its answer is lost.
AnswerLost ==
    /\ NAt("send")
    /\ \E row \in NextMails :
        /\ row.root \notin redacted
        /\ timeline' = Append(timeline, MailEvent(row.id, row.room, row.root))
    /\ CallAgain
    /\ UNCHANGED <<recreated, redacted, dbVars>>

\* MessageRedacted: the head of the row is gone.
FindHeadRedacted ==
    /\ NAt("send")
    /\ \E row \in NextMails :
        /\ row.root \in redacted
        /\ notifier' = [notifier EXCEPT !.pc = "forget head", !.gone = {row}]
    /\ UNCHANGED <<stageVars, recreated, matrixVars, dbVars>>

\* MessageRedacted cannot fetch the head and reports it as removed.
MistakeHeadForRedacted ==
    /\ NAt("send")
    /\ \E row \in NextMails :
        /\ row.root \notin redacted
        /\ notifier' = [notifier EXCEPT !.pc = "forget head", !.gone = {row}]
    /\ UNCHANGED <<stageVars, recreated, matrixVars, dbVars>>

\* RemoveMatrixMessageIdsOfThread gives up when a statement fails, and then
\* the thread is not known to have been recreated.
ForgettingFails ==
    /\ NAt("forget head") \/ NAt("forget mails")
    /\ Cancelled
    /\ CallAgain
    /\ UNCHANGED <<recreated, matrixVars, dbVars>>

\* FAULT: the thread keeps the head that has been removed.
KeepHead ==
    /\ NAt("forget head")
    /\ ~Cancelled
    /\ notifier' = [notifier EXCEPT !.pc = "forget mails"]
    /\ UNCHANGED <<stageVars, recreated, matrixVars, dbVars>>

\* Its first statement.
ForgetHead ==
    /\ NAt("forget head")
    /\ ~Cancelled
    /\ \E row \in notifier.gone : RemoveThreadMatrixId(row.thread)
    /\ notifier' = [notifier EXCEPT !.pc = "forget mails"]
    /\ UNCHANGED <<stageVars, recreated, matrixVars, mail>>

\* recreatedThreads.Store: an entry for the thread replaces an older one.
Recreate(t, room, root) ==
    recreated' = {r \in recreated : r.thread # t}
                 \cup {[thread |-> t, room |-> room, root |-> root]}

\* FAULT: the mails of a recreated thread are taken to be on Matrix still.
ForgetNoMails ==
    /\ NAt("forget mails")
    /\ \E row \in notifier.gone : Recreate(row.thread, row.room, row.root)
    /\ CallAgain
    /\ UNCHANGED <<matrixVars, dbVars>>

\* Its second statement, and recreatedThreads.Store.
ForgetMails ==
    /\ NAt("forget mails")
    /\ ~Cancelled
    /\ \E row \in notifier.gone :
        /\ RemoveMailMatrixIdsByThread(row.thread)
        /\ Recreate(row.thread, row.room, row.root)
    /\ CallAgain
    /\ UNCHANGED <<matrixVars, thread>>

\* Nothing is left to send: the overviews are queued and the run ends.
FinishNotification ==
    /\ NAt("send")
    /\ notifier.mails = {}
    /\ QueueAll(notifier.touched)
    /\ LetGo("notification")
    /\ notifier' = IdleNotifier
    /\ UNCHANGED <<closed, recreated, matrixVars, dbVars>>

NotificationStep ==
    \/ NotificationBegin \/ ListMatrixReadyThreads \/ PostHead \/ RecordHead
    \/ LinkRecreation \/ ListMatrixReadyMails
    \/ \E t \in Threads : CheckThread(t)
    \/ SendMail \/ RecordMail \/ FindHeadRedacted
    \/ ForgetHead \/ ForgetMails \/ ForgettingFails \/ FinishNotification

NotificationFails == LinkFails \/ SendFails

Notification == NotificationStep \/ NotificationFails

\* Somebody removes the head of a thread.
Redact(e) ==
    /\ timeline[e].kind = "head"
    /\ e \notin redacted
    /\ redacted' = redacted \cup {e}
    /\ UNCHANGED <<timeline, stageVars, notifierVars, dbVars>>
=============================================================================
