---------------------------- MODULE MatrixOverview ----------------------------
(***************************************************************************)
(* The overviews (internal/app/matrixoverview.go): in every overview room  *)
(* a message that lists the open threads of the rooms it is configured     *)
(* for, kept up to date by a stage per overview room. The two maps between *)
(* rooms and overview rooms are built in internal/config/config.go.        *)
(*                                                                         *)
(* Left out: formatting, and the cutting of messages that are too large.   *)
(***************************************************************************)
EXTENDS Database, Stages

CONSTANTS
    OverviewRooms,   \* the rooms that have an overview
    RoomsOverview,   \* [OverviewRooms -> sets of Rooms]: what is configured;
                     \* an empty list stands for all rooms
    DefaultRoom      \* where threads go that no rule matches

\* Rooms are all the target rooms of the configuration.
ASSUME OverviewAssumption ==
    /\ OverviewRooms \cap (StageNames \cup {None}) = {}
    /\ RoomsOverview \in [OverviewRooms -> SUBSET Rooms]
    /\ DefaultRoom \in Rooms

VARIABLES
    overviewer,  \* the workers: their next steps and local variables
    overviewId,  \* the column room.overview_message_id
    board        \* the chat server: the messages posted in overview rooms

overviewVars == <<overviewer, overviewId, board>>

OverviewerSteps == {"rest", "update", "replace", "record"}

Resting == [pc |-> "rest", id |-> None, rows |-> {}]

OverviewInit ==
    /\ overviewer = [o \in OverviewRooms |-> Resting]
    /\ overviewId = [o \in OverviewRooms |-> None]
    /\ board = [o \in OverviewRooms |-> <<>>]

GetOverviewRoomTargets(o) ==
    IF RoomsOverview[o] = {} THEN Rooms ELSE RoomsOverview[o]

\* The inverse map has the default room and the rooms that some overview
\* lists; the overviews of all rooms are added to these entries only.
RoomsWithOverview == {DefaultRoom} \cup UNION {RoomsOverview[o] : o \in OverviewRooms}

GetOverviewRooms(room) ==
    {o \in OverviewRooms : /\ room \in RoomsWithOverview
                           /\ RoomsOverview[o] = {} \/ room \in RoomsOverview[o]}

\* QueueMatrixOverviewUpdate by a command, for one room
QueueOverviewUpdate(room, caller) == QueueWorkBlocking(GetOverviewRooms(room), caller)

\* The query: a row links to the message of the thread's first mail.
OverviewThreads(o) ==
    {[thread |-> t, room |-> thread[t].room, message |-> mail[thread[t].first].matrix] :
        t \in {u \in Threads : /\ thread[u].enabled
                               /\ thread[u].matrix # None
                               /\ thread[u].room \in GetOverviewRoomTargets(o)}}
-----------------------------------------------------------------------------
\* GetOverviewThreads: on an error, as after ForceStop, there is no id and
\* there are no threads.
Listed(o) ==
    IF o \in closed THEN [pc |-> "update", id |-> None, rows |-> {}]
    ELSE [pc |-> "update", id |-> overviewId[o], rows |-> OverviewThreads(o)]

EndRun(o) == LetGo(o) /\ overviewer' = [overviewer EXCEPT ![o] = Resting]

\* A run begins: the id of the message and the threads are read. Only this
\* stage writes the id.
ListOverviewThreads(o) ==
    /\ overviewer[o].pc = "rest"
    /\ TakeUp(o)
    /\ overviewer' = [overviewer EXCEPT ![o] = Listed(o)]
    /\ UNCHANGED <<overviewId, board, dbVars>>

Posted(o) == overviewer[o].id # None /\ ~board[o][overviewer[o].id].removed

\* The message is edited; its id stays as it is and need not be recorded.
EditThreadOverview(o) ==
    /\ overviewer[o].pc = "update"
    /\ Posted(o)
    /\ board' = [board EXCEPT ![o][overviewer[o].id].shows = overviewer[o].rows]
    /\ EndRun(o)
    /\ UNCHANGED <<queued, closed, overviewId, dbVars>>

PostMessage(o) ==
    /\ board' = [board EXCEPT ![o] =
            Append(@, [shows |-> overviewer[o].rows, removed |-> FALSE])]
    /\ overviewer' = [overviewer EXCEPT ![o] =
            [Resting EXCEPT !.pc = "record", !.id = Len(board[o]) + 1]]
    /\ UNCHANGED <<stageVars, overviewId, dbVars>>

\* There is no message yet or it has been removed, by a user or because its
\* edit was too large.
PostThreadOverview(o) ==
    /\ \/ overviewer[o].pc = "update" /\ ~Posted(o)
       \/ overviewer[o].pc = "replace"
    /\ PostMessage(o)

\* The message cannot be fetched and is taken to be removed.
PostSecondOverview(o) ==
    /\ overviewer[o].pc = "update"
    /\ Posted(o)
    /\ PostMessage(o)

\* An edit holds the text twice: it is too large where the message is not. The
\* old message is removed first.
RemoveLargeOverview(o) ==
    /\ overviewer[o].pc = "update"
    /\ Posted(o)
    /\ board' = [board EXCEPT ![o][overviewer[o].id].removed = TRUE]
    /\ overviewer' = [overviewer EXCEPT ![o].pc = "replace"]
    /\ UNCHANGED <<stageVars, overviewId, dbVars>>

\* The edit fails: work is called again and reads the threads anew, unless
\* the stage has been stopped.
UpdateFails(o) ==
    /\ overviewer[o].pc = "update"
    /\ Posted(o)
    /\ IF o \in closed
       THEN EndRun(o)
       ELSE UNCHANGED waiting /\ overviewer' = [overviewer EXCEPT ![o] = Listed(o)]
    /\ UNCHANGED <<queued, closed, overviewId, board, dbVars>>

\* FAULT: the id of the new message is not kept.
OverviewMessageForgotten(o) ==
    /\ overviewer[o].pc = "record"
    /\ EndRun(o)
    /\ UNCHANGED <<queued, closed, overviewId, board, dbVars>>

OverviewMessageUpdated(o) ==
    /\ overviewer[o].pc = "record"
    /\ IF o \in closed THEN UNCHANGED overviewId
       ELSE overviewId' = [overviewId EXCEPT ![o] = overviewer[o].id]
    /\ EndRun(o)
    /\ UNCHANGED <<queued, closed, board, dbVars>>

OverviewStep(o) ==
    \/ ListOverviewThreads(o) \/ EditThreadOverview(o)
    \/ PostThreadOverview(o) \/ OverviewMessageUpdated(o)

\* !resendoverview: removes the message and queues the stage.
ResendThreadOverview(o) ==
    /\ overviewId[o] # None
    /\ board' = [board EXCEPT ![o][overviewId[o]].removed = TRUE]
    /\ QueueWork(o)
    /\ UNCHANGED <<overviewer, overviewId, dbVars>>
=============================================================================
