---------------------------- MODULE ThreadCommands ----------------------------
(***************************************************************************)
(* The chat commands that change threads: !open, !close and !forceclose,   *)
(* !move, and !reply (!send differs only in the text of the mail). Each    *)
(* runs in a goroutine of its own, under the mutex of the room it was      *)
(* typed in (internal/matrix/commands.go); what it does is in              *)
(* internal/app/app.go. A command is known by the id of the chat message   *)
(* it was typed in, which an edit of the message keeps.                    *)
(*                                                                         *)
(* A command ends with a wait for the overview stages (and !move for the   *)
(* notification stage) that it has queued, during which it keeps the room  *)
(* and a reply also the sorting mutex. Left out: reactions and messages.   *)
(***************************************************************************)
EXTENDS ThreadSorting, MatrixNotification

CONSTANTS
    Commands,    \* the chat messages that are commands
    Kind,        \* [Commands -> {"open", "close", "forceclose", "move", "reply"}]
    MoveTo,      \* [Commands -> Rooms]: the room that matches a !move
    ReplyMails   \* [Commands -> sequences of Mails]: what a !reply would send,
                 \* first when it is typed, then each time it is edited

\* The mutex is held by "sorting", a command or nobody; a chat message id is
\* not one that the chat server gives to a message posted here.
ASSUME CommandAssumption ==
    /\ Commands \cap ({"sorting", None} \cup Nat) = {}
    /\ None # "sorting"
    /\ Kind \in [Commands -> {"open", "close", "forceclose", "move", "reply"}]
    /\ MoveTo \in [Commands -> Rooms]
    /\ ReplyMails \in [Commands -> Seq(Mails)]

VARIABLES
    cmd,     \* the state of each command
    sent,    \* history: the mails that have been sent by smtp
    mailbox  \* the mails in the imap mailboxes

commandVars == <<cmd, sent, mailbox>>

CommandSteps ==
    {"idle", "find original", "lock", "send", "store", "add", "extracted",
     "sort", "touch", "record", "forget head", "forget mails", "rehome",
     "request", "wait"}

NewCommand == [pc |-> "idle", event |-> None, room |-> None, thread |-> None,
               tries |-> 0]

CommandsInit(arriving) ==
    /\ cmd = [c \in Commands |-> NewCommand]
    /\ sent = {}
    /\ mailbox = arriving

Running(c) == cmd[c].pc # "idle"

\* The room mutex: one command at a time in a room.
RoomFree(room) == \A c \in Commands : Running(c) => cmd[c].room # room

Step(c, step) == cmd' = [cmd EXCEPT ![c].pc = step]

\* The handler returns and unlocks the room.
Finish(c) ==
    cmd' = [cmd EXCEPT ![c] = [NewCommand EXCEPT !.tries = cmd[c].tries]]

\* The stages the command has queued have let it go (QueueWorkBlocking returns).
StagesAnswer(c) ==
    /\ cmd[c].pc = "wait"
    /\ \A pair \in waiting : pair[2] # c
    /\ sortingMutex' = IF sortingMutex = c THEN None ELSE sortingMutex
    /\ Finish(c)
    /\ UNCHANGED <<dbVars, stageVars, sorter, notifierVars, matrixVars, sent,
                   mailbox>>
-----------------------------------------------------------------------------
(* !open, !close and !forceclose: one statement, on the thread that has     *)
(* the root of the chat thread as its matrix_id.                            *)

Enables(c) == Kind[c] = "open"

\* A plain close leaves force_close alone, a manual open clears it.
Forces(c) == CASE Kind[c] = "open" -> FALSE
               [] Kind[c] = "forceclose" -> TRUE
               [] OTHER -> None

Matches(c, e) ==
    UpdateThreadEnabledMatches(timeline[e].room, e, Enables(c), Forces(c))

\* When no thread is changed the command has failed, else it queues the
\* overviews of the room.
SetThreadState(c, e) ==
    /\ Kind[c] \in {"open", "close", "forceclose"}
    /\ cmd[c].pc = "idle"
    /\ cmd[c].tries = 0
    /\ timeline[e].kind = "head"
    /\ RoomFree(timeline[e].room)
    /\ UpdateThreadEnabled(timeline[e].room, e, Enables(c), Forces(c))
    /\ cmd' = [cmd EXCEPT ![c] =
            [NewCommand EXCEPT
                !.tries = 1,
                !.room = timeline[e].room,
                !.pc = IF Matches(c, e) = {} THEN "idle" ELSE "wait"]]
    /\ IF Matches(c, e) = {} THEN UNCHANGED stageVars
       ELSE QueueOverviewUpdate(timeline[e].room, c)
    /\ UNCHANGED <<mail, sortingVars, notifierVars, matrixVars, sent,
                   mailbox>>
-----------------------------------------------------------------------------
(* !move *)

\* GetThreadByMatrixId; an unknown thread or the room itself is an error.
MoveStart(c, e) ==
    /\ Kind[c] = "move"
    /\ cmd[c].pc = "idle"
    /\ cmd[c].tries = 0
    /\ timeline[e].kind = "head"
    /\ RoomFree(timeline[e].room)
    /\ IF MoveTo[c] = timeline[e].room \/ ThreadsByMatrixId(e) = {}
       THEN cmd' = [cmd EXCEPT ![c].tries = 1]
       ELSE \E t \in ThreadsByMatrixId(e) :
                cmd' = [cmd EXCEPT ![c] = [pc |-> "forget head", event |-> e,
                                           room |-> timeline[e].room,
                                           thread |-> t, tries |-> 1]]
    /\ UNCHANGED <<dbVars, stageVars, sortingVars, notifierVars, matrixVars, sent,
                   mailbox>>

MoveForgetHead(c) ==
    /\ cmd[c].pc = "forget head"
    /\ RemoveThreadMatrixId(cmd[c].thread)
    /\ Step(c, "forget mails")
    /\ UNCHANGED <<mail, stageVars, sortingVars, notifierVars, matrixVars, sent,
                   mailbox>>

MoveForgetMails(c) ==
    /\ cmd[c].pc = "forget mails"
    /\ RemoveMailMatrixIdsByThread(cmd[c].thread)
    /\ Step(c, "rehome")
    /\ UNCHANGED <<thread, stageVars, sortingVars, notifierVars, matrixVars, sent,
                   mailbox>>

\* FAULT: only the room of the thread is changed.
MoveRoomOnly(c) ==
    /\ cmd[c].pc = "rehome"
    /\ UpdateThreadMatrixIds(cmd[c].thread, MoveTo[c], thread[cmd[c].thread].matrix)
    /\ Step(c, "request")
    /\ UNCHANGED <<mail, stageVars, sortingVars, notifierVars, matrixVars, sent,
                   mailbox>>

MoveRehome(c) ==
    /\ cmd[c].pc = "rehome"
    /\ UpdateThreadMatrixIds(cmd[c].thread, MoveTo[c], None)
    /\ Step(c, "request")
    /\ UNCHANGED <<mail, stageVars, sortingVars, notifierVars, matrixVars, sent,
                   mailbox>>

\* FAULT: the overviews of the old room are forgotten.
MoveRequestOnly(c) ==
    /\ cmd[c].pc = "request"
    /\ Recreate(cmd[c].thread, cmd[c].room, cmd[c].event)
    /\ QueueWorkBlocking({"notification"}, c)
    /\ Step(c, "wait")
    /\ UNCHANGED <<dbVars, sortingVars, notifier, matrixVars, sent, mailbox>>

\* FAULT: the notification stage does not hear of it.
MoveUnannounced(c) ==
    /\ cmd[c].pc = "request"
    /\ Recreate(cmd[c].thread, cmd[c].room, cmd[c].event)
    /\ QueueWorkBlocking(GetOverviewRooms(cmd[c].room), c)
    /\ Step(c, "wait")
    /\ UNCHANGED <<dbVars, sortingVars, notifier, matrixVars, sent, mailbox>>

\* The overviews of the old room are queued by a goroutine, the notification
\* stage by another one after recreatedThreads.Store.
MoveRequest(c) ==
    /\ cmd[c].pc = "request"
    /\ Recreate(cmd[c].thread, cmd[c].room, cmd[c].event)
    /\ QueueWorkBlocking({"notification"} \cup GetOverviewRooms(cmd[c].room), c)
    /\ Step(c, "wait")
    /\ UNCHANGED <<dbVars, sortingVars, notifier, matrixVars, sent, mailbox>>
-----------------------------------------------------------------------------
(* !reply *)

\* The mail this call of the command would send.
NewMail(c) == ReplyMails[c][cmd[c].tries]

\* Typed or edited as an answer to the chat message e. A mail with this
\* message's id means that it had already been sent.
ReplyStart(c, e) ==
    /\ Kind[c] = "reply"
    /\ cmd[c].pc = "idle"
    /\ cmd[c].tries < Len(ReplyMails[c])
    /\ timeline[e].kind = "mail"
    /\ timeline[e].of = InReplyTo[ReplyMails[c][cmd[c].tries + 1]]
    /\ RoomFree(timeline[e].room)
    /\ cmd' = [cmd EXCEPT ![c] =
            IF MailsByMatrixId(c) # {}
            THEN [NewCommand EXCEPT !.tries = cmd[c].tries + 1]
            ELSE [NewCommand EXCEPT !.tries = cmd[c].tries + 1, !.event = e,
                                    !.pc = "find original",
                                    !.room = timeline[e].room]]
    /\ UNCHANGED <<dbVars, stageVars, sortingVars, notifierVars, matrixVars, sent,
                   mailbox>>

\* GetMailByMatrixId(replyToId): without it there is nothing to reply to.
ReplyFindOriginal(c) ==
    /\ cmd[c].pc = "find original"
    /\ IF MailsByMatrixId(cmd[c].event) = {}
       THEN Finish(c)
       ELSE \E original \in MailsByMatrixId(cmd[c].event) :
                cmd' = [cmd EXCEPT ![c].pc = "lock",
                                   ![c].thread = mail[original].thread]
    /\ UNCHANGED <<dbVars, stageVars, sortingVars, notifierVars, matrixVars, sent,
                   mailbox>>

\* FAULT: the reply is sorted without the mutex.
ReplyUnlocked(c) ==
    /\ cmd[c].pc = "lock"
    /\ Step(c, "send")
    /\ UNCHANGED <<dbVars, stageVars, sortingVars, notifierVars, matrixVars, sent,
                   mailbox>>

ReplyLock(c) ==
    /\ cmd[c].pc = "lock"
    /\ sortingMutex = None
    /\ sortingMutex' = c
    /\ Step(c, "send")
    /\ UNCHANGED <<dbVars, stageVars, sorter, notifierVars, matrixVars, sent,
                   mailbox>>

ReplySend(c) ==
    /\ cmd[c].pc = "send"
    /\ sent' = sent \cup {NewMail(c)}
    /\ Step(c, "store")
    /\ UNCHANGED <<dbVars, stageVars, sortingVars, notifierVars, matrixVars,
                   mailbox>>

ReplySendFails(c) ==
    /\ cmd[c].pc = "send"
    /\ sortingMutex' = None
    /\ Finish(c)
    /\ UNCHANGED <<dbVars, stageVars, sorter, notifierVars, matrixVars, sent,
                   mailbox>>

\* StoreSentMail: from now on the fetchers may deliver the mail as well. If
\* it fails the command goes on and only reports it.
ReplyStore(c) ==
    /\ cmd[c].pc = "store"
    /\ mailbox' \in {mailbox, mailbox \cup {NewMail(c)}}
    /\ Step(c, "add")
    /\ UNCHANGED <<dbVars, stageVars, sortingVars, notifierVars, matrixVars, sent>>

ReplyAddMail(c) ==
    /\ cmd[c].pc = "add"
    /\ AddMail(NewMail(c), FALSE)
    /\ Step(c, "extracted")
    /\ UNCHANGED <<thread, stageVars, sortingVars, notifierVars, matrixVars, sent,
                   mailbox>>

\* The text of the reply needs no extraction.
ReplySetMessages(c) ==
    /\ cmd[c].pc = "extracted"
    /\ UpdateExtractedMessages(NewMail(c))
    /\ Step(c, "sort")
    /\ UNCHANGED <<thread, stageVars, sortingVars, notifierVars, matrixVars, sent,
                   mailbox>>

\* FAULT: the reply is not marked as sorted.
ReplyLeftUnsorted(c) ==
    /\ cmd[c].pc = "sort"
    /\ Step(c, "touch")
    /\ UNCHANGED <<dbVars, stageVars, sortingVars, notifierVars, matrixVars, sent,
                   mailbox>>

\* AddMailToThread with the thread of the original.
ReplyJoinThread(c) ==
    /\ cmd[c].pc = "sort"
    /\ UpdateMailSorting(NewMail(c), cmd[c].thread, mail[NewMail(c)].replyTo)
    /\ Step(c, "touch")
    /\ UNCHANGED <<thread, stageVars, sortingVars, notifierVars, matrixVars, sent,
                   mailbox>>

ReplyTouchThread(c) ==
    /\ cmd[c].pc = "touch"
    /\ UpdateThreadLastMail(cmd[c].thread, NewMail(c))
    /\ Step(c, "record")
    /\ UNCHANGED <<mail, stageVars, sortingVars, notifierVars, matrixVars, sent,
                   mailbox>>

\* The chat message itself stands for the mail on Matrix.
ReplyRecord(c) ==
    /\ cmd[c].pc = "record"
    /\ UpdateMailMatrixId(NewMail(c), c)
    /\ QueueOverviewUpdate(cmd[c].room, c)
    /\ Step(c, "wait")
    /\ UNCHANGED <<thread, sortingVars, notifierVars, matrixVars, sent,
                   mailbox>>

Issue(c, e) == SetThreadState(c, e) \/ MoveStart(c, e) \/ ReplyStart(c, e)

CommandStep(c) ==
    \/ MoveForgetHead(c) \/ MoveForgetMails(c) \/ MoveRehome(c) \/ MoveRequest(c)
    \/ ReplyFindOriginal(c) \/ ReplyLock(c) \/ ReplySend(c) \/ ReplyStore(c)
    \/ ReplyAddMail(c) \/ ReplySetMessages(c) \/ ReplyJoinThread(c)
    \/ ReplyTouchThread(c) \/ ReplyRecord(c) \/ StagesAnswer(c)
=============================================================================
