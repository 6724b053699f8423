---------------------------- MODULE InboxChatProofs ----------------------------
(***************************************************************************)
(* Proofs about InboxCollab: how many messages may pile up in the rooms of *)
(* the chat server, how often a mail is posted there, that the stages hand *)
(* over completely, so that every mail that is ready gets there, and gets  *)
(* there after the mail it answers, and what the overviews show.           *)
(***************************************************************************)
EXTENDS InboxThreadProofs

(* The messages of an overview room *)

Live(o) == {i \in DOMAIN board[o] : ~board[o][i].removed}

SameRoom(o) ==
    /\ overviewer'[o] = overviewer[o] /\ overviewId'[o] = overviewId[o]
    /\ Live(o)' = Live(o)

Places(o, pc, id) == overviewer'[o].pc = pc /\ overviewer'[o].id = id

\* What the stage of a room and an order to send its overview again do to
\* the room.
Lists(o) ==
    /\ Live(o)' = Live(o) /\ UNCHANGED overviewId
    /\ \/ overviewer[o].pc = "rest" /\ o \in queued /\ queued' = queued \ {o}
       \/ overviewer[o].pc = "update" /\ o \notin closed
    /\ Places(o, "update", IF o \in closed THEN None ELSE overviewId[o])

Edits(o) ==
    /\ Live(o)' = Live(o) /\ UNCHANGED overviewId
    /\ overviewer[o].pc = "update" /\ Places(o, "rest", None)

Sends(o) ==
    /\ UNCHANGED overviewId
    /\ \/ overviewer[o].pc = "update" /\ overviewer[o].id \notin Live(o)
       \/ overviewer[o].pc = "replace"
       \/ overviewer[o].pc = "update" /\ mishaps' = mishaps + 1
    /\ \E n : /\ Places(o, "record", n) /\ n # overviewId[o]
              /\ n \notin Live(o) /\ Live(o)' = Live(o) \cup {n}

Replaces(o) ==
    /\ UNCHANGED overviewId /\ mishaps' = mishaps + 1
    /\ overviewer[o].pc = "update" /\ Places(o, "replace", overviewer[o].id)
    /\ overviewer[o].id \in Live(o) /\ Live(o)' = Live(o) \ {overviewer[o].id}

Notes(o) ==
    /\ Live(o)' = Live(o) /\ overviewer[o].pc = "record" /\ Places(o, "rest", None)
    /\ overviewId'[o] = IF o \in closed THEN overviewId[o] ELSE overviewer[o].id

Resends(o) ==
    /\ Live(o)' = Live(o) \ {overviewId[o]} /\ mishaps' = mishaps + 1
    /\ UNCHANGED <<overviewer, overviewId>>

LEMMA LiveMessages ==
  ASSUME Types, NEW o \in OverviewRooms
  PROVE  /\ IsFiniteSet(Live(o)) /\ Cardinality(Live(o)) \in Nat
         /\ Live(o) \subseteq DOMAIN board[o] /\ DOMAIN board[o] \subseteq Nat
         /\ \A n : /\ n \notin Live(o) =>
                        Cardinality(Live(o) \cup {n}) = Cardinality(Live(o)) + 1
                   /\ n \in Live(o) =>
                        Cardinality(Live(o) \ {n}) = Cardinality(Live(o)) - 1
<1>1. board[o] \in Seq(OverviewMessage)
  BY DEF Types, OverviewTypes
<1>2. DOMAIN board[o] = 1 .. Len(board[o]) /\ Len(board[o]) \in Nat
  BY <1>1, LenProperties
<1>3. IsFiniteSet(DOMAIN board[o])
  BY <1>2, FS_Interval
<1>4. Live(o) \in SUBSET DOMAIN board[o]
  BY DEF Live
<1>5. IsFiniteSet(Live(o))
  BY <1>3, <1>4, FS_Subset
<1>6. DOMAIN board[o] \subseteq Nat
  BY <1>2
<1> QED
  BY <1>4, <1>5, <1>6, FS_CardinalityType, FS_AddElement, FS_RemoveElement

LEMMA OverviewCases ==
  ASSUME Types, NEW o \in OverviewRooms,
         OverviewStage(o) \/ OverviewFails(o) \/ RepostOverview(o) \/ Resend(o)
  PROVE  /\ Lists(o) \/ Edits(o) \/ Sends(o) \/ Replaces(o) \/ Notes(o) \/ Resends(o)
         /\ \A p \in OverviewRooms \ {o} : SameRoom(p)
<1> USE Names
<1>0. /\ overviewer \in [OverviewRooms -> [pc : OverviewerSteps, id : Nat \cup {None},
                                           rows : SUBSET OverviewRow]]
      /\ overviewId \in [OverviewRooms -> Nat \cup {None}]
      /\ board \in [OverviewRooms -> Seq(OverviewMessage)]
      /\ overviewer[o].id \in DOMAIN board[o] \cup {None}
      /\ overviewId[o] \in DOMAIN board[o] \cup {None}
      /\ DOMAIN board[o] = 1 .. Len(board[o]) /\ Len(board[o]) \in Nat
      /\ \A i \in DOMAIN board[o] : board[o][i] \in OverviewMessage
  BY LenProperties, ElementOfSeq DEF Types, OverviewTypes
<1>1. ASSUME NEW messages, board' = [board EXCEPT ![o] = messages]
      PROVE  /\ board'[o] = messages
             /\ \A p \in OverviewRooms \ {o} : Live(p)' = Live(p)
  BY <1>0, <1>1 DEF Live
<1>2. ASSUME NEW w, overviewer' = [overviewer EXCEPT ![o] = w]
      PROVE  /\ overviewer'[o] = w
             /\ \A p \in OverviewRooms \ {o} : overviewer'[p] = overviewer[p]
  BY <1>0, <1>2
<1>3. UNCHANGED board => \A p \in OverviewRooms : Live(p)' = Live(p)
  BY DEF Live
<1>4. Posted(o) <=> overviewer[o].id \in Live(o)
  BY <1>0 DEF Posted, Live
<1>5. /\ Resting.pc = "rest" /\ Resting.id = None
      /\ Listed(o).pc = "update"
      /\ Listed(o).id = IF o \in closed THEN None ELSE overviewId[o]
  BY DEF Resting, Listed
<1>6. CASE ListOverviewThreads(o)
  <2>1. /\ UNCHANGED <<overviewId, board>> /\ overviewer[o].pc = "rest"
        /\ o \in queued /\ queued' = queued \ {o}
        /\ overviewer' = [overviewer EXCEPT ![o] = Listed(o)]
    BY <1>6 DEF ListOverviewThreads, TakeUp
  <2> QED
    BY <1>2, <1>3, <1>5, <2>1 DEF Lists, Places, SameRoom
<1>7. CASE EditThreadOverview(o)
  <2> DEFINE n == overviewer[o].id
             messages == [board[o] EXCEPT ![n].shows = overviewer[o].rows]
  <2>1. /\ UNCHANGED overviewId /\ overviewer[o].pc = "update" /\ n \in Live(o)
        /\ overviewer' = [overviewer EXCEPT ![o] = Resting]
        /\ board' = [board EXCEPT ![o] = messages]
    BY <1>4, <1>7 DEF EditThreadOverview, EndRun
  <2>2. /\ DOMAIN messages = DOMAIN board[o]
        /\ \A i \in DOMAIN board[o] : messages[i].removed = board[o][i].removed
    BY <1>0 DEF OverviewMessage
  <2> HIDE DEF messages
  <2>3. Live(o)' = Live(o)
    BY <1>1, <2>1, <2>2 DEF Live
  <2> QED
    BY <1>1, <1>2, <1>5, <2>1, <2>3 DEF Edits, Places, SameRoom
<1>8. ASSUME PostMessage(o)
      PROVE  /\ UNCHANGED overviewId
             /\ \E n : /\ Places(o, "record", n) /\ n # overviewId[o]
                       /\ n \notin Live(o) /\ Live(o)' = Live(o) \cup {n}
             /\ \A p \in OverviewRooms \ {o} : SameRoom(p)
  <2> DEFINE new == [shows |-> overviewer[o].rows, removed |-> FALSE]
             messages == Append(board[o], new)
             w == [Resting EXCEPT !.pc = "record", !.id = Len(board[o]) + 1]
  <2>1. /\ UNCHANGED overviewId /\ board' = [board EXCEPT ![o] = messages]
        /\ overviewer' = [overviewer EXCEPT ![o] = w]
    BY <1>8 DEF PostMessage
  <2>2. new \in OverviewMessage /\ ~new.removed
    BY <1>0 DEF OverviewMessage
  <2>3. w.pc = "record" /\ w.id = Len(board[o]) + 1
    BY DEF Resting
  <2> HIDE DEF new, w
  <2>4. /\ DOMAIN messages = 1 .. Len(board[o]) + 1
        /\ \A i \in DOMAIN board[o] : messages[i] = board[o][i]
        /\ messages[Len(board[o]) + 1] = new
    BY <1>0, <2>2, Longer
  <2> HIDE DEF messages
  <2>5. PICK n : n = Len(board[o]) + 1
    OBVIOUS
  <2>6. /\ n \notin DOMAIN board[o] /\ n # None
        /\ DOMAIN messages = DOMAIN board[o] \cup {n}
        /\ messages[n] = new
    BY <1>0, <2>4, <2>5
  <2>7. Live(o)' = Live(o) \cup {n}
    <3>1. Live(o)' = {i \in DOMAIN messages : ~messages[i].removed}
      BY <1>1, <2>1 DEF Live
    <3>2. \A i \in DOMAIN board[o] : messages[i].removed = board[o][i].removed
      BY <2>4
    <3> QED
      BY <2>2, <2>6, <3>1, <3>2 DEF Live
  <2>8. n \notin Live(o) /\ n # overviewId[o]
    BY <1>0, <2>6 DEF Live
  <2> QED
    BY <1>1, <1>2, <2>1, <2>3, <2>5, <2>7, <2>8 DEF Places, SameRoom
<1>9. CASE PostThreadOverview(o)
  BY <1>4, <1>8, <1>9 DEF PostThreadOverview, Sends
<1>10. CASE PostSecondOverview(o) /\ Mishap("unfetched overview")
  BY <1>8, <1>10 DEF PostSecondOverview, Sends, Mishap
<1>11. ASSUME NEW n \in DOMAIN board[o], board' = [board EXCEPT ![o][n].removed = TRUE]
       PROVE  /\ Live(o)' = Live(o) \ {n}
              /\ \A p \in OverviewRooms \ {o} : Live(p)' = Live(p)
  <2> DEFINE messages == [board[o] EXCEPT ![n].removed = TRUE]
  <2>1. board' = [board EXCEPT ![o] = messages]
    BY <1>0, <1>11
  <2>2. /\ DOMAIN messages = DOMAIN board[o] /\ messages[n].removed
        /\ \A i \in DOMAIN board[o] \ {n} : messages[i] = board[o][i]
    BY <1>0 DEF OverviewMessage
  <2> HIDE DEF messages
  <2>3. Live(o)' = {i \in DOMAIN messages : ~messages[i].removed}
    BY <1>1, <2>1 DEF Live
  <2>4. Live(o)' = Live(o) \ {n}
    BY <2>2, <2>3 DEF Live
  <2> QED
    BY <1>1, <2>1, <2>4
<1>12. CASE RemoveLargeOverview(o) /\ Mishap("large overview")
  <2> DEFINE n == overviewer[o].id
             w == [overviewer[o] EXCEPT !.pc = "replace"]
  <2>1. /\ UNCHANGED overviewId /\ overviewer[o].pc = "update" /\ n \in Live(o)
        /\ board' = [board EXCEPT ![o][n].removed = TRUE] /\ mishaps' = mishaps + 1
        /\ overviewer' = [overviewer EXCEPT ![o] = w]
    BY <1>0, <1>4, <1>12 DEF RemoveLargeOverview, Mishap
  <2>2. w.pc = "replace" /\ w.id = n
    BY <1>0
  <2> HIDE DEF w
  <2>3. n \in DOMAIN board[o]
    BY <2>1 DEF Live
  <2>4. /\ Live(o)' = Live(o) \ {n}
        /\ \A p \in OverviewRooms \ {o} : Live(p)' = Live(p)
    BY <1>11, <2>1, <2>3
  <2> QED
    BY <1>2, <2>1, <2>2, <2>4 DEF Replaces, Places, SameRoom
<1>13. CASE UpdateFails(o)
  <2>1. UNCHANGED <<overviewId, board>> /\ overviewer[o].pc = "update"
    BY <1>13 DEF UpdateFails
  <2>2. CASE o \in closed
    <3>1. overviewer' = [overviewer EXCEPT ![o] = Resting]
      BY <1>13, <2>2 DEF UpdateFails, EndRun
    <3> QED
      BY <1>2, <1>3, <1>5, <2>1, <3>1 DEF Edits, Places, SameRoom
  <2>3. CASE o \notin closed
    <3>1. overviewer' = [overviewer EXCEPT ![o] = Listed(o)]
      BY <1>13, <2>3 DEF UpdateFails
    <3> QED
      BY <1>2, <1>3, <1>5, <2>1, <2>3, <3>1 DEF Lists, Places, SameRoom
  <2> QED
    BY <2>2, <2>3
<1>14. CASE OverviewMessageUpdated(o)
  <2>1. /\ UNCHANGED board /\ overviewer[o].pc = "record"
        /\ overviewer' = [overviewer EXCEPT ![o] = Resting]
        /\ overviewId' = IF o \in closed THEN overviewId
                         ELSE [overviewId EXCEPT ![o] = overviewer[o].id]
    BY <1>14 DEF OverviewMessageUpdated, EndRun
  <2>2. /\ overviewId'[o] = IF o \in closed THEN overviewId[o] ELSE overviewer[o].id
        /\ \A p \in OverviewRooms \ {o} : overviewId'[p] = overviewId[p]
    BY <1>0, <2>1
  <2> QED
    BY <1>2, <1>3, <1>5, <2>1, <2>2 DEF Notes, Places, SameRoom
<1>15. CASE Resend(o)
  <2>1. /\ UNCHANGED <<overviewer, overviewId>> /\ overviewId[o] # None
        /\ board' = [board EXCEPT ![o][overviewId[o]].removed = TRUE]
        /\ mishaps' = mishaps + 1
    BY <1>15 DEF Resend, ResendThreadOverview, Mishap
  <2>2. overviewId[o] \in DOMAIN board[o]
    BY <1>0, <2>1
  <2> QED
    BY <1>11, <2>1, <2>2 DEF Resends, SameRoom
<1> QED
  BY <1>6, <1>7, <1>9, <1>10, <1>12, <1>13, <1>14, <1>15
     DEF OverviewStage, OverviewStep, OverviewFails, RepostOverview

Kept(o) == IF overviewId[o] \in Live(o) THEN 1 ELSE 0
Pending(o) == IF o \in queued THEN 1 ELSE 0
Underway(o) == IF overviewer[o].pc \in {"update", "replace"} THEN 1 ELSE 0

\* Without a mishap there is the message whose id is recorded, or the one
\* that replaces it and is not yet. A shutdown leaves two more: one of the run
\* it has found and one of the run that was requested.
RoomInv(o) ==
    /\ overviewer[o].pc \in {"update", "replace"} =>
        \/ overviewer[o].id = overviewId[o]
        \/ closed # {} /\ overviewer[o].id = None
    /\ overviewer[o].pc = "replace" =>
        overviewer[o].id # None /\ overviewer[o].id \notin Live(o)
    /\ overviewer[o].pc = "record" =>
        overviewer[o].id \in Live(o) /\ overviewer[o].id # overviewId[o]
    /\ closed = {} =>
        Cardinality(Live(o)) <= 2 * mishaps
            + IF overviewer[o].pc = "record" THEN 1 ELSE Kept(o)
    /\ closed # {} =>
        Cardinality(Live(o)) + Pending(o) <= 2 * mishaps + Kept(o) - Underway(o)

LEMMA OtherRooms ==
  ASSUME Types, [Next]_vars, NEW o \in OverviewRooms
  PROVE  \/ SameRoom(o)
         \/ Lists(o) \/ Edits(o) \/ Sends(o) \/ Replaces(o) \/ Notes(o) \/ Resends(o)
         \/ Crash \/ Exit
<1>1. UNCHANGED overviewVars => SameRoom(o)
  BY DEF overviewVars, SameRoom, Live
<1>2. ASSUME NEW p \in OverviewRooms,
             OverviewStage(p) \/ OverviewFails(p) \/ RepostOverview(p) \/ Resend(p)
      PROVE  \/ SameRoom(o)
             \/ Lists(o) \/ Edits(o) \/ Sends(o) \/ Replaces(o) \/ Notes(o) \/ Resends(o)
  BY <1>2, OverviewCases
<1>3. CASE Pump \/ SortingStage \/ ExtractionStage \/ NotificationStage \/ MistakeHead
           \/ LoseAnswer \/ (\E e \in Events : RemoveHead(e))
           \/ (\E c \in Commands : Command(c)) \/ Stop \/ UNCHANGED vars
  BY <1>1, <1>3 DEF Pump, ReceiveChunk, StoreMail, EndChunk, pumpRest, SortingStage,
       ExtractionStage, NotificationStage, MistakeHead, LoseAnswer, RemoveHead, Command,
       Stop, vars, overviewVars
<1> QED
  BY <1>2, <1>3 DEF Next

LEMMA RoomKept ==
  ASSUME Types, Types', SortInv, [Next]_vars, NEW o \in OverviewRooms, RoomInv(o)
  PROVE  RoomInv(o)'
<1> USE Names
<1> DEFINE live == Cardinality(Live(o))
           pc == overviewer[o].pc
           id == overviewer[o].id
<1>0. /\ live \in Nat
      /\ mishaps \in Nat /\ mishaps' \in Nat /\ mishaps' >= mishaps
      /\ overviewId[o] \in DOMAIN board[o] \cup {None} /\ id \in DOMAIN board[o] \cup {None}
      /\ None \notin Live(o)
      /\ o \in closed <=> closed # {}
  BY LiveMessages, MishapsGrow DEF Types, StageTypes, OverviewTypes
<1>1. \A n : /\ n \notin Live(o) /\ Live(o)' = Live(o) \cup {n} => live' = live + 1
             /\ n \in Live(o) /\ Live(o)' = Live(o) \ {n} => live' = live - 1
             /\ Live(o)' = Live(o) => live' = live
  BY LiveMessages
<1>2. /\ Kept(o) \in {0, 1} /\ Kept(o)' \in {0, 1} /\ Pending(o) \in {0, 1}
      /\ Pending(o)' \in {0, 1} /\ Underway(o) \in {0, 1}
  BY DEF Kept, Pending, Underway
<1>3. CASE Stop
  <2>1. SameRoom(o)
    BY <1>3 DEF Stop, overviewVars, SameRoom, Live
  <2>2. /\ UNCHANGED queued /\ closed = {} /\ closed' # {} /\ mishaps' = mishaps + 1
    BY <1>3 DEF Stop, Mishap, StageNames
  <2>3. live' = live /\ Kept(o)' = Kept(o) /\ Pending(o)' = Pending(o)
        /\ Underway(o)' = Underway(o)
    BY <1>1, <2>1, <2>2 DEF SameRoom, Kept, Pending, Underway
  <2>4. live' + Pending(o)' <= 2 * mishaps' + Kept(o)' - Underway(o)'
    BY <1>0, <1>2, <2>2, <2>3 DEF RoomInv, Underway
  <2> QED
    BY <2>1, <2>2, <2>4 DEF RoomInv, SameRoom
<1>4. CASE Crash \/ Exit
  <2>1. /\ Live(o)' = Live(o) /\ UNCHANGED overviewId /\ overviewer'[o].pc = "rest"
        /\ closed' = {}
    BY <1>4 DEF Crash, Exit, StartAgain, Resting, Live
  <2>2. live' = live /\ Kept(o)' = Kept(o)
    BY <1>1, <2>1 DEF Kept
  <2>3. CASE mishaps' = mishaps + 1
    <3>1. live' <= 2 * mishaps' + Kept(o)'
      BY <1>0, <1>2, <2>2, <2>3 DEF RoomInv
    <3> QED
      BY <2>1, <3>1 DEF RoomInv
  <2>4. CASE closed # {} /\ overviewer[o].pc = "rest" /\ o \notin queued
    <3>1. live' <= 2 * mishaps' + Kept(o)'
      BY <1>0, <1>2, <2>2, <2>4 DEF RoomInv, Underway
    <3> QED
      BY <2>1, <3>1 DEF RoomInv
  <2> QED
    BY <1>0, <1>4, <2>3, <2>4 DEF Crash, Exit, Mishap, AtRest, Drained
<1>5. ASSUME Serves
      PROVE  closed' = closed /\ (closed # {} => Pending(o)' <= Pending(o))
  BY <1>5 DEF Serves, Pending
<1>6. CASE Serves /\ SameRoom(o)
  <2>1. live' = live /\ Kept(o)' = Kept(o) /\ Underway(o)' = Underway(o)
    BY <1>1, <1>6 DEF SameRoom, Kept, Underway
  <2> QED
    BY <1>0, <1>2, <1>5, <1>6, <2>1 DEF RoomInv, SameRoom
<1>7. CASE Serves /\ Lists(o)
  <2>1. live' = live /\ Kept(o)' = Kept(o) /\ Underway(o)' = 1
    BY <1>1, <1>7 DEF Lists, Places, Kept, Underway
  <2>2. closed # {} => Pending(o)' = Pending(o) - 1 /\ Underway(o) = 0
    BY <1>0, <1>7 DEF Lists, Pending, Underway
  <2> QED
    BY <1>0, <1>2, <1>5, <1>7, <2>1, <2>2 DEF RoomInv, Lists, Places
<1>8. CASE Serves /\ Edits(o)
  <2>1. live' = live /\ Kept(o)' = Kept(o) /\ Underway(o)' = 0
    BY <1>1, <1>8 DEF Edits, Places, Kept, Underway
  <2> QED
    BY <1>0, <1>2, <1>5, <1>8, <2>1 DEF RoomInv, Edits, Places
<1>9. CASE Serves /\ Sends(o)
  <2>1. PICK n : /\ Places(o, "record", n) /\ n # overviewId[o] /\ n \notin Live(o)
                 /\ Live(o)' = Live(o) \cup {n} /\ UNCHANGED overviewId
    BY <1>9 DEF Sends
  <2>2. /\ live' = live + 1 /\ Kept(o)' = Kept(o) /\ Underway(o)' = 0 /\ Underway(o) = 1
    BY <1>1, <1>9, <2>1 DEF Sends, Places, Kept, Underway
  <2>3. closed = {} => Kept(o) = 0 \/ mishaps' = mishaps + 1
    BY <1>0, <1>9 DEF RoomInv, Sends, Kept
  <2> QED
    BY <1>0, <1>2, <1>5, <1>9, <2>1, <2>2, <2>3 DEF RoomInv, Places, Sends
<1>10. CASE Serves /\ Replaces(o)
  <2>1. /\ live' = live - 1 /\ Underway(o)' = 1 /\ Underway(o) = 1
        /\ id = overviewId[o] /\ Kept(o) = 1 /\ Kept(o)' = 0
    BY <1>0, <1>1, <1>10 DEF RoomInv, Replaces, Places, Kept, Underway
  <2> QED
    BY <1>0, <1>2, <1>5, <1>10, <2>1 DEF RoomInv, Replaces, Places
<1>11. CASE Serves /\ Notes(o)
  <2>1. live' = live /\ Underway(o)' = 0 /\ Underway(o) = 0
    BY <1>1, <1>11 DEF Notes, Places, Underway
  <2>2. Kept(o)' = IF closed = {} THEN 1 ELSE Kept(o)
    BY <1>0, <1>11 DEF RoomInv, Notes, Kept
  <2> QED
    BY <1>0, <1>2, <1>5, <1>11, <2>1, <2>2 DEF RoomInv, Notes, Places
<1>12. CASE Serves /\ Resends(o)
  <2>1. Underway(o)' = Underway(o) /\ Kept(o)' = 0
    BY <1>12 DEF Resends, Underway, Kept
  <2>2. live' = live - Kept(o)
    <3>1. PICK n : n = overviewId[o]
      OBVIOUS
    <3>2. Live(o)' = Live(o) \ {n}
      BY <1>12, <3>1 DEF Resends
    <3>3. CASE n \in Live(o)
      <4>1. live' = live - 1 /\ Kept(o) = 1
        BY <1>1, <3>1, <3>2, <3>3 DEF Kept
      <4> QED
        BY <4>1
    <3>4. CASE n \notin Live(o)
      <4>1. Live(o)' = Live(o) /\ Kept(o) = 0
        BY <3>1, <3>2, <3>4 DEF Kept
      <4> QED
        BY <1>0, <1>1, <4>1
    <3> QED
      BY <3>3, <3>4
  <2> QED
    BY <1>0, <1>2, <1>5, <1>12, <2>1, <2>2 DEF RoomInv, Resends
<1> QED
  BY <1>3, <1>4, <1>6, <1>7, <1>8, <1>9, <1>10, <1>11, <1>12, StagesServe, OtherRooms

OverviewInv == \A o \in OverviewRooms : RoomInv(o)

LEMMA OverviewsAlways == Spec => []OverviewInv
<1>1. Init => OverviewInv
  <2> SUFFICES ASSUME Init, NEW o \in OverviewRooms PROVE RoomInv(o)
    BY DEF OverviewInv
  <2>1. /\ overviewer[o].pc = "rest" /\ closed = {} /\ mishaps = 0
        /\ board[o] = <<>>
    BY DEF Init, OverviewInit, StagesInit, Resting
  <2>2. Live(o) = {}
    BY <2>1 DEF Live
  <2>3. Cardinality(Live(o)) = 0
    BY <2>2, FS_EmptySet
  <2> QED
    BY <2>1, <2>2, <2>3 DEF RoomInv, Kept
<1>2. Types /\ Types' /\ SortInv /\ OverviewInv /\ [Next]_vars => OverviewInv'
  BY RoomKept DEF OverviewInv
<1> QED
  BY <1>1, <1>2, SortingAlways, PTL DEF Spec

\* However often an overview is sent again, replaced, not found, interrupted by
\* a shutdown or by a crash, an overview room never has more messages than one
\* and two for every time something has gone wrong.
THEOREM OverviewsAreFew == Spec => []FewOverviews
<1>1. Types /\ OverviewInv => FewOverviews
  <2> SUFFICES ASSUME Types, NEW o \in OverviewRooms, RoomInv(o)
               PROVE  Cardinality(Live(o)) <= 1 + 2 * mishaps
    BY DEF FewOverviews, Live, OverviewInv
  <2>1. /\ Cardinality(Live(o)) \in Nat /\ mishaps \in Nat
        /\ Kept(o) \in {0, 1} /\ Pending(o) \in {0, 1} /\ Underway(o) \in {0, 1}
    BY LiveMessages DEF Types, PumpTypes, Kept, Pending, Underway
  <2> QED
    BY <2>1 DEF RoomInv
<1> QED
  BY <1>1, OverviewsAlways, TypesAlways, PTL
-----------------------------------------------------------------------------
(* How often a mail is posted under one head *)

Posts(m, r) == Cardinality(MailEvents(m, r))

\* What was posted and is not yet recorded.
Recording(m, r) ==
    /\ notifier.pc = "record mail" /\ notifier.mail = m
    /\ timeline[notifier.id].root = r

\* What the stage would post next time.
Awaited(m, r) ==
    /\ mail[m].matrix = None /\ mail[m].thread # None
    /\ thread[mail[m].thread].matrix = r

\* A stage that has been stopped does not record what it posts.
Stopping == IF closed = {} THEN 0 ELSE 1

PostedFew(m, r) ==
    /\ Posts(m, r) <= 1 + mishaps
    /\ Recording(m, r) => Posts(m, r) + Stopping <= 1 + mishaps
    /\ Awaited(m, r) /\ ~Recording(m, r) => Posts(m, r) <= mishaps

\* A mail that is listed has not been posted under the head of its row, but in
\* a mishap, and is listed once.
RowFew(row) ==
    /\ Posts(row.id, row.root) + Stopping <= mishaps
    /\ \A other \in notifier.mails : other.id = row.id => other = row
    /\ notifier.pc = "record mail" => row.id # notifier.mail

MoveSteps == {"forget head", "forget mails", "rehome", "request"}

\* A head has no mails when it becomes the one of its thread, and a thread
\* whose mails are posted anew has none.
MirrorInv ==
    /\ \A c \in Commands : cmd[c].pc \notin MoveSteps
    /\ \A m \in Mails : \A r \in Events : PostedFew(m, r)
    /\ \A row \in notifier.mails : RowFew(row)
    /\ notifier.pc = "record head" => \A m \in Mails : Posts(m, notifier.id) = 0
    /\ notifier.pc = "forget head" => \E row : notifier.gone = {row}
    /\ notifier.pc = "forget mails" =>
        \A row \in notifier.gone :
            row.thread \in Threads => thread[row.thread].matrix = None

LEMMA PostsCounted ==
  ASSUME Types, HomeInv
  PROVE  /\ \A m, r : Posts(m, r) \in Nat
         /\ \A m \in Mails : \A r : r \notin Events \/ mail[m].thread = None => Posts(m, r) = 0
         /\ UNCHANGED timeline => \A m, r : Posts(m, r)' = Posts(m, r)
         /\ \A e : Posting(e) =>
                \A m, r : Posts(m, r)' = Posts(m, r)
                            + IF e.kind = "mail" /\ e.of = m /\ e.root = r THEN 1 ELSE 0
<1>1. timeline \in Seq(Event)
  BY DEF Types, ChatTypes
<1>2. Events = 1 .. Len(timeline) /\ Len(timeline) \in Nat
  BY <1>1, LenProperties DEF Events
<1>3. IsFiniteSet(Events)
  BY <1>2, FS_Interval
<1>4. ASSUME NEW m, NEW r
      PROVE  IsFiniteSet(MailEvents(m, r))
  <2>1. MailEvents(m, r) \in SUBSET Events
    BY DEF MailEvents
  <2> QED
    BY <1>3, <2>1, FS_Subset
<1>5. ASSUME NEW m \in Mails, NEW r, r \notin Events \/ mail[m].thread = None
      PROVE  Posts(m, r) = 0
  <2>1. MailEvents(m, r) = {}
    BY <1>5 DEF MailEvents, HomeInv, PostedHome
  <2> QED
    BY <2>1, FS_EmptySet DEF Posts
<1>6. ASSUME UNCHANGED timeline, NEW m, NEW r
      PROVE  Posts(m, r)' = Posts(m, r)
  BY <1>6 DEF Posts, MailEvents, Events
<1>7. ASSUME NEW e, Posting(e), NEW m, NEW r
      PROVE  Posts(m, r)' = Posts(m, r)
                + IF e.kind = "mail" /\ e.of = m /\ e.root = r THEN 1 ELSE 0
  <2>1. PICK n : n = Len(timeline) + 1
    OBVIOUS
  <2>2. /\ Events' = Events \cup {n} /\ timeline'[n] = e /\ n \notin Events
        /\ \A i \in Events : timeline'[i] = timeline[i]
    BY <1>1, <1>2, <1>7, <2>1, PostTypes DEF Posting
  <2>3. CASE e.kind = "mail" /\ e.of = m /\ e.root = r
    <3>1. MailEvents(m, r)' = MailEvents(m, r) \cup {n} /\ n \notin MailEvents(m, r)
      BY <2>2, <2>3 DEF MailEvents
    <3> QED
      BY <1>4, <2>3, <3>1, FS_AddElement DEF Posts
  <2>4. CASE ~(e.kind = "mail" /\ e.of = m /\ e.root = r)
    <3>1. MailEvents(m, r)' = MailEvents(m, r)
      BY <2>2, <2>4 DEF MailEvents
    <3>2. Posts(m, r) \in Nat
      BY <1>4, FS_CardinalityType DEF Posts
    <3> QED
      BY <2>4, <3>1, <3>2 DEF Posts
  <2> QED
    BY <2>3, <2>4
<1> QED
  BY <1>4, <1>5, <1>6, <1>7, FS_CardinalityType DEF Posts

\* No command moves a thread.
NoMove == \A c \in Commands : Kind[c] # "move"

LEMMA NothingMoves ==
  ASSUME Types, SortInv, [Next]_vars,
         NoMove, \A c \in Commands : cmd[c].pc \notin MoveSteps
  PROVE  \A c \in Commands : cmd'[c].pc \notin MoveSteps
<1>1. cmd \in [Commands -> CommandRecord]
  BY DEF Types, CommandTypes, CommandRecord
<1>2. CASE Bystanders \/ SortingStage
  BY <1>2, BystandersStatements, SortingCases DEF commandVars
<1>3. CASE Crash \/ Exit
  <2>1. cmd' = [c \in Commands |-> [NewCommand EXCEPT !.tries = cmd[c].tries]]
    BY <1>3 DEF Crash, Exit, StartAgain
  <2>2. \A c \in Commands : cmd'[c].pc = "idle"
    BY <2>1 DEF NewCommand
  <2> QED
    BY <2>2 DEF MoveSteps
<1>4. ASSUME NEW c \in Commands, Command(c)
      PROVE  cmd'[c].pc \notin MoveSteps
  <2>1. ASSUME NEW w, cmd' = [cmd EXCEPT ![c] = w], w.pc \notin MoveSteps
        PROVE  cmd'[c].pc \notin MoveSteps
    BY <1>1, <2>1
  <2>2. Finish(c) => cmd'[c].pc \notin MoveSteps
    BY <1>1 DEF Finish, NewCommand, MoveSteps
  <2>3. \A step : Step(c, step) /\ step \notin MoveSteps => cmd'[c].pc \notin MoveSteps
    BY StepTo
  <2>4. ASSUME NEW e \in Events, Issue(c, e)
        PROVE  cmd'[c].pc \notin MoveSteps
    <3>1. \E w : /\ cmd' = [cmd EXCEPT ![c] = w]
                 /\ w.pc \in {"idle", "wait", "find original"}
      BY <2>4 DEF NoMove, Issue, SetThreadState, MoveStart, ReplyStart, NewCommand
    <3> QED
      BY <2>1, <3>1 DEF MoveSteps
  <2>5. CASE ReplyFindOriginal(c)
    <3>1. ASSUME NEW m, cmd' = [cmd EXCEPT ![c].pc = "lock", ![c].thread = mail[m].thread]
          PROVE  cmd'[c].pc = "lock"
      BY <1>1, <3>1 DEF CommandRecord
    <3> QED
      BY <2>2, <2>5, <3>1 DEF ReplyFindOriginal, MoveSteps
  <2>6. CASE (CommandStep(c) /\ ~ReplyFindOriginal(c)) \/ ReplySendFails(c)
    BY <2>2, <2>3, <2>6
       DEF CommandStep, MoveForgetHead, MoveForgetMails, MoveRehome, MoveRequest,
         ReplyLock, ReplySend, ReplyStore, ReplyAddMail, ReplySetMessages,
         ReplyJoinThread, ReplyTouchThread, ReplyRecord, StagesAnswer, ReplySendFails,
         MoveSteps
  <2> QED
    BY <1>4, <2>4, <2>5, <2>6 DEF Command
<1> QED
  BY <1>2, <1>3, <1>4, OthersStandBy, Steps

LEMMA NextEvent ==
  ASSUME Types, NEW e, Posting(e)
  PROVE  /\ Events' = Events \cup {Len(timeline) + 1} /\ timeline'[Len(timeline) + 1] = e
         /\ Len(timeline) + 1 \notin Events
<1>1. timeline \in Seq(Event)
  BY DEF Types, ChatTypes
<1>2. Events = 1 .. Len(timeline) /\ Len(timeline) \in Nat
  BY <1>1, LenProperties DEF Events
<1> QED
  BY <1>1, <1>2, PostTypes DEF Posting

\* A mail that has just become one to be posted under a head has not been.
LEMMA AwaitedBefore ==
  ASSUME Types, HomeInv, Settled, NoThreadIds,
         NEW m \in Mails, NEW r \in Events, mail'[m].matrix = mail[m].matrix,
         Awaited(m, r)'
  PROVE  Awaited(m, r) \/ Posts(m, r) = 0
<1>1. CASE mail[m].thread = None
  BY <1>1, PostsCounted
<1>2. CASE mail[m].thread # None
  <2>1. PICK t : t = mail[m].thread
    OBVIOUS
  <2>2. /\ t \in Threads /\ mail'[m].thread = t /\ mail[m].matrix = None
        /\ thread'[t].matrix = r
    BY <1>2, <2>1 DEF Types, DbTypes, Settled, Awaited
  <2>3. r # None
    BY Names, EventsAreNumbers DEF Types, ChatTypes
  <2>4. thread[t].matrix = r
    BY <2>2, <2>3 DEF NoThreadIds, Settled
  <2> QED
    BY <1>2, <2>1, <2>2, <2>4 DEF Awaited
<1> QED
  BY <1>1, <1>2

\* A row stays one that is posted for the first time while the room stays as
\* it is: a mishap pays for the end of the stages.
Slack ==
    \/ Stopping' = Stopping /\ mishaps <= mishaps'
    \/ Stopping = 0 /\ Stopping' = 1 /\ mishaps' = mishaps + 1

LEMMA Sums ==
  ASSUME NEW p \in Nat, NEW s \in Nat, NEW t \in Nat, NEW k \in Nat, NEW l \in Nat,
         p + s <= k, (t = s /\ k <= l) \/ (s = 0 /\ t = 1 /\ l = k + 1)
  PROVE  p + t <= l
OBVIOUS

LEMMA RowStays ==
  ASSUME mishaps \in Nat, mishaps' \in Nat, Stopping \in Nat, Stopping' \in Nat, Slack,
         NEW row, RowFew(row), Posts(row.id, row.root) \in Nat,
         Posts(row.id, row.root)' = Posts(row.id, row.root),
         notifier'.mails \subseteq notifier.mails,
         notifier'.pc = "record mail" => row.id # notifier'.mail
  PROVE  RowFew(row)'
<1>1. Posts(row.id, row.root) + Stopping <= mishaps
  BY DEF RowFew
<1>2. Posts(row.id, row.root) + Stopping' <= mishaps'
  <2>1. PICK p \in Nat : p = Posts(row.id, row.root)
    OBVIOUS
  <2>2. PICK k \in Nat, l \in Nat : k = mishaps /\ l = mishaps'
    OBVIOUS
  <2>3. PICK u \in Nat, t \in Nat : u = Stopping /\ t = Stopping'
    OBVIOUS
  <2>4. p + u <= k
    BY <1>1, <2>1, <2>2, <2>3
  <2>5. (t = u /\ k <= l) \/ (u = 0 /\ t = 1 /\ l = k + 1)
    BY <2>2, <2>3 DEF Slack
  <2>6. p + t <= l
    BY <2>4, <2>5, Sums
  <2> QED
    BY <2>1, <2>2, <2>3, <2>6
<1>3. \A other \in notifier'.mails : other.id = row.id => other = row
  BY DEF RowFew
<1> QED
  BY <1>2, <1>3 DEF RowFew

LEMMA OthersKeepMirror ==
  ASSUME Types, Types', SortInv, HomeInv, Settled, NoMove, MirrorInv, [Next]_vars,
         ~(NotificationStage \/ MistakeHead \/ LoseAnswer)
  PROVE  MirrorInv'
<1> USE Names
<1>0. /\ UNCHANGED timeline /\ Events' = Events /\ NoThreadIds /\ DbTypes
      /\ \A m, r : Posts(m, r) \in Nat /\ Posts(m, r)' = Posts(m, r)
  BY OtherIds, EventsStay, PostsCounted DEF Types
<1>a. /\ mishaps \in Nat /\ mishaps' \in Nat /\ mishaps' >= mishaps
      /\ Stopping \in Nat /\ Stopping' \in Nat
  BY MishapsGrow DEF Stopping
<1>1. \A c \in Commands : cmd'[c].pc \notin MoveSteps
  BY NothingMoves DEF MirrorInv
<1>2. ASSUME NEW m \in Mails, NEW r \in Events, Awaited(m, r)'
      PROVE  Awaited(m, r) \/ Posts(m, r) = 0
  <2>1. CASE SameMailIds
    BY <1>0, <1>2, <2>1, AwaitedBefore DEF SameMailIds
  <2>2. ASSUME NEW c \in Commands, UpdateMailMatrixId(NewMail(c), c), cmd[c].pc = "record"
        PROVE  Awaited(m, r) \/ Posts(m, r) = 0
    <3>1. PICK n \in Mails : n = NewMail(c)
      BY <2>2, RepliesDiffer DEF ReplySteps
    <3>2. mail'[n].matrix = c /\ \A k \in Mails \ {n} : mail'[k].matrix = mail[k].matrix
      BY <1>0, <2>2, <3>1, MailIds
    <3>3. m # n
      BY <1>2, <3>2 DEF Awaited
    <3> QED
      BY <1>0, <1>2, <3>2, <3>3, AwaitedBefore
  <2>3. ~\E c \in Commands : cmd[c].pc = "forget mails"
    BY DEF MirrorInv, MoveSteps
  <2> QED
    BY <2>1, <2>2, <2>3, OtherIds
<1>3. CASE Crash \/ Exit
  <2>1. notifier' = IdleNotifier
    BY <1>3 DEF Crash, Exit, StartAgain
  <2>2. mishaps' = mishaps + 1 \/ notifier.pc = "rest"
    BY <1>3 DEF Crash, Exit, Mishap, AtRest
  <2>3. notifier'.pc = "rest" /\ notifier'.mails = {}
    BY <2>1 DEF IdleNotifier
  <2>4. ASSUME NEW m \in Mails, NEW r \in Events
        PROVE  PostedFew(m, r)'
    <3>1. PostedFew(m, r) /\ ~Recording(m, r)'
      BY <2>3 DEF MirrorInv, Recording
    <3>2. Posts(m, r) \in Nat /\ Posts(m, r)' = Posts(m, r)
      BY <1>0
    <3>3. Awaited(m, r)' => Awaited(m, r) \/ Posts(m, r) = 0
      BY <1>2
    <3>4. mishaps' = mishaps + 1 \/ ~Recording(m, r)
      BY <2>2 DEF Recording
    <3> QED
      BY <1>a, <3>1, <3>2, <3>3, <3>4 DEF PostedFew
  <2> QED
    BY <1>0, <1>1, <2>3, <2>4 DEF MirrorInv
<1>4. CASE ~(Crash \/ Exit)
  <2>1. UNCHANGED notifier
    BY <1>4, OtherIds
  <2>2. \/ Stopping' = Stopping
        \/ Stopping' = 1 /\ Stopping = 0 /\ mishaps' = mishaps + 1
    <3>1. CASE Serves
      BY <3>1 DEF Serves, Stopping
    <3>2. CASE Stop
      BY <3>2 DEF Stop, Mishap, Stopping, StageNames
    <3> QED
      BY <1>4, <3>1, <3>2, StagesServe
  <2>3. ASSUME NEW m \in Mails, NEW r \in Events
        PROVE  PostedFew(m, r)'
    <3>1. PostedFew(m, r) /\ (Recording(m, r)' <=> Recording(m, r))
      BY <1>0, <2>1 DEF MirrorInv, Recording
    <3>2. Posts(m, r) \in Nat /\ Posts(m, r)' = Posts(m, r)
      BY <1>0
    <3>3. Awaited(m, r)' => Awaited(m, r) \/ Posts(m, r) = 0
      BY <1>2
    <3> QED
      BY <1>a, <2>2, <3>1, <3>2, <3>3 DEF PostedFew
  <2>4. ASSUME NEW row \in notifier.mails
        PROVE  RowFew(row)'
    <3>1. RowFew(row)
      BY DEF MirrorInv
    <3>2. /\ Posts(row.id, row.root) \in Nat
          /\ Posts(row.id, row.root)' = Posts(row.id, row.root)
      BY <1>0
    <3>3. Slack
      BY <1>a, <2>2 DEF Slack
    <3>4. notifier'.pc = "record mail" => row.id # notifier'.mail
      BY <2>1, <3>1 DEF RowFew
    <3> QED
      BY <1>a, <2>1, <3>1, <3>2, <3>3, <3>4, RowStays
  <2>5. ASSUME notifier.pc = "forget mails", NEW row \in notifier.gone,
               row.thread \in Threads'
        PROVE  thread'[row.thread].matrix = None
    BY <1>0, <2>5 DEF MirrorInv, NoThreadIds
  <2> QED
    BY <1>0, <1>1, <2>1, <2>3, <2>4, <2>5 DEF MirrorInv
<1> QED
  BY <1>3, <1>4

LEMMA NotifierKeepsMirror ==
  ASSUME Types, Types', SortInv, HomeInv, NoMove, MirrorInv, [Next]_vars,
         NotificationStage \/ MistakeHead \/ LoseAnswer
  PROVE  MirrorInv'
<1> USE Names
<1>a. /\ mishaps \in Nat /\ mishaps' \in Nat /\ mishaps' >= mishaps
      /\ Stopping \in Nat /\ Stopping' = Stopping
      /\ Cancelled <=> Stopping = 1
      /\ ~Cancelled => Stopping = 0
  <2>1. Serves /\ closed \in {{}, StageNames \cup OverviewRooms}
    BY StagesServe DEF Types, StageTypes
  <2>2. /\ Stopping \in Nat /\ Stopping' = Stopping
        /\ Cancelled <=> Stopping = 1
        /\ ~Cancelled => Stopping = 0
    BY <2>1 DEF Serves, Stopping, Cancelled, StageNames
  <2> QED
    BY <2>1, <2>2, MishapsGrow
<1>0. /\ Settled /\ DbTypes /\ Events \subseteq Nat
      /\ \A row \in notifier.mails \cup notifier.gone : row \in ReplyRow
  BY EventsAreNumbers, StaySettled DEF Types, NotifierTypes, ChatTypes
<1>b. \A m, r : Posts(m, r) \in Nat
  BY PostsCounted
<1>1. \A c \in Commands : cmd'[c].pc \notin MoveSteps
  BY NothingMoves DEF MirrorInv
<1>2. UNCHANGED timeline => /\ Events' = Events
                            /\ \A m, r : Posts(m, r)' = Posts(m, r)
  BY EventsStay, PostsCounted
<1>3. ASSUME UNCHANGED timeline, notifier'.mails \subseteq notifier.mails,
             notifier'.pc # "record mail"
      PROVE  \A row \in notifier'.mails : RowFew(row)'
  <2> SUFFICES ASSUME NEW row \in notifier.mails, row \in notifier'.mails
               PROVE  RowFew(row)'
    BY <1>3
  <2>1. RowFew(row)
    BY DEF MirrorInv
  <2>2. /\ Posts(row.id, row.root) \in Nat
        /\ Posts(row.id, row.root)' = Posts(row.id, row.root)
    BY <1>b, <1>2, <1>3
  <2>3. Slack
    BY <1>a DEF Slack
  <2> QED
    BY <1>a, <1>3, <2>1, <2>2, <2>3, RowStays
<1>4. ASSUME UNCHANGED timeline, notifier'.pc \notin {"record mail", "record head"},
             \A row \in notifier'.mails : RowFew(row)',
             notifier'.pc = "forget head" => \E row : notifier'.gone = {row},
             notifier'.pc = "forget mails" =>
                \A row \in notifier'.gone :
                    row.thread \in Threads' => thread'[row.thread].matrix = None,
             \A m \in Mails : \A r \in Events : Awaited(m, r)' =>
                \/ Awaited(m, r) /\ ~(Recording(m, r) /\ Stopping = 0)
                \/ Posts(m, r) = 0
      PROVE  MirrorInv'
  <2>1. ASSUME NEW m \in Mails, NEW r \in Events
        PROVE  PostedFew(m, r)'
    <3>1. PostedFew(m, r) /\ ~Recording(m, r)'
      BY <1>4 DEF MirrorInv, Recording
    <3>2. Posts(m, r) \in Nat /\ Posts(m, r)' = Posts(m, r) /\ r \in Events
      BY <1>b, <1>2, <1>4
    <3>3. Awaited(m, r)' => \/ Awaited(m, r) /\ ~(Recording(m, r) /\ Stopping = 0)
                            \/ Posts(m, r) = 0
      BY <1>4, <3>2
    <3> QED
      BY <1>a, <3>1, <3>2, <3>3 DEF PostedFew
  <2> QED
    BY <1>1, <1>2, <1>4, <2>1 DEF MirrorInv
<1>5. CASE Looks
  <2>1. \A m, r : Recording(m, r) => Stopping = 1
    BY <1>a, <1>5 DEF Looks, Recording
  <2>2. \A m, r : Awaited(m, r)' => Awaited(m, r)
    BY <1>5 DEF Looks, Awaited
  <2>3. \A row \in notifier'.mails : RowFew(row)'
    BY <1>3, <1>5 DEF Looks
  <2>4. \A m \in Mails : \A r \in Events : Awaited(m, r)' =>
            \/ Awaited(m, r) /\ ~(Recording(m, r) /\ Stopping = 0)
            \/ Posts(m, r) = 0
    BY <2>1, <2>2
  <2> QED
    BY <1>4, <1>5, <2>3, <2>4 DEF Looks
<1>6. CASE ListsMails
  <2>1. \A m, r : ~Recording(m, r)
    BY <1>6 DEF ListsMails, Recording
  <2>2. \A m, r : Awaited(m, r)' => Awaited(m, r)
    BY <1>6 DEF ListsMails, Awaited
  <2>3. ASSUME NEW row \in notifier'.mails
        PROVE  RowFew(row)'
    <3>1. /\ row.id \in MatrixReadyMails /\ row.thread = mail[row.id].thread
          /\ row.root = thread[row.thread].matrix /\ Stopping = 0
      BY <1>a, <1>6 DEF ListsMails
    <3>2. row.id \in Mails /\ Awaited(row.id, row.root) /\ row.root \in Events
      BY <1>0, <3>1 DEF MatrixReadyMails, Stored, Awaited, DbTypes
    <3>3. Posts(row.id, row.root) <= mishaps
      BY <2>1, <3>2 DEF MirrorInv, PostedFew
    <3>4. ASSUME NEW other \in notifier'.mails, other.id = row.id
          PROVE  other = row
      <4>1. \A x \in {row, other} :
                /\ x.thread = mail[x.id].thread /\ x.root = thread[x.thread].matrix
                /\ x.room = thread[x.thread].room
        BY <1>6, <3>4 DEF ListsMails
      <4>3. other.thread = row.thread /\ other.root = row.root /\ other.room = row.room
        BY <3>4, <4>1
      <4>2. other \in ReplyRow /\ row \in ReplyRow
        BY DEF Types, NotifierTypes
      <4> QED
        BY <3>4, <4>2, <4>3 DEF ReplyRow
    <3>5. notifier'.pc # "record mail"
      BY <1>6 DEF ListsMails
    <3>6. /\ Posts(row.id, row.root) \in Nat
          /\ Posts(row.id, row.root)' = Posts(row.id, row.root)
      BY <1>b, <1>2, <1>6 DEF ListsMails
    <3>7. (Posts(row.id, row.root) + Stopping)' <= mishaps'
      <4> DEFINE p == Posts(row.id, row.root)
      <4>1. p \in Nat /\ p <= mishaps /\ p' = p /\ Stopping = 0
        BY <3>1, <3>3, <3>6
      <4> HIDE DEF p
      <4> QED
        BY <1>a, <4>1 DEF p
    <3> QED
      BY <3>4, <3>5, <3>7 DEF RowFew
  <2> QED
    BY <1>4, <1>6, <2>1, <2>2, <2>3 DEF ListsMails
<1>7. CASE RecordsHead
  <2>1. PICK h, n : h = notifier.head /\ n = notifier.id
    OBVIOUS
  <2>2. h \in Threads /\ n \in Events
    BY <1>7, <2>1 DEF RecordsHead, Types, NotifierTypes
  <2>3. thread'[h].matrix = n /\ \A u \in Threads \ {h} : thread'[u] = thread[u]
    <3>1. UpdateThreadMatrixIds(h, timeline[n].room, n)
      BY <1>7, <2>1 DEF RecordsHead
    <3> QED
      BY <1>0, <2>2, <3>1, ThreadIds
  <2>4. \A m, r : ~Recording(m, r)
    BY <1>7 DEF RecordsHead, Recording
  <2>5. ASSUME NEW m \in Mails, NEW r \in Events, Awaited(m, r)'
        PROVE  Awaited(m, r) \/ Posts(m, r) = 0
    <3>1. PICK t : t = mail[m].thread
      OBVIOUS
    <3>2. /\ mail[m].matrix = None /\ t # None /\ t \in Threads
          /\ thread'[t].matrix = r
      BY <1>0, <1>7, <2>5, <3>1 DEF RecordsHead, Awaited, DbTypes
    <3>3. CASE t = h
      BY <1>7, <2>1, <2>3, <3>2, <3>3 DEF MirrorInv, RecordsHead
    <3>4. CASE t # h
      BY <2>3, <3>1, <3>2, <3>4 DEF Awaited
    <3> QED
      BY <3>3, <3>4
  <2>6. \A row \in notifier'.mails : RowFew(row)'
    BY <1>3, <1>7 DEF RecordsHead
  <2> QED
    BY <1>4, <1>7, <2>4, <2>5, <2>6 DEF RecordsHead
<1>8. CASE RecordsMail
  <2>1. PICK n, id : n = notifier.mail /\ id = notifier.id
    OBVIOUS
  <2>2. n \in Mails /\ id \in Events
    BY <1>8, <2>1 DEF RecordsMail, Types, NotifierTypes
  <2>3. mail'[n].matrix = id /\ \A m \in Mails \ {n} : mail'[m].matrix = mail[m].matrix
    BY <1>0, <1>8, <2>1, <2>2, MailIds DEF RecordsMail
  <2>4. ASSUME NEW m \in Mails, NEW r \in Events, Awaited(m, r)'
        PROVE  (Awaited(m, r) \/ Posts(m, r) = 0) /\ ~Recording(m, r)
    <3>1. m # n
      BY <1>0, <2>2, <2>3, <2>4 DEF Awaited
    <3>2. NoThreadIds
      BY <1>0, <1>8, ThreadIds DEF RecordsMail
    <3>3. ~Recording(m, r)
      BY <2>1, <3>1 DEF Recording
    <3> QED
      BY <1>0, <2>3, <2>4, <3>1, <3>2, <3>3, AwaitedBefore
  <2>5. \A row \in notifier'.mails : RowFew(row)'
    BY <1>3, <1>8 DEF RecordsMail
  <2> QED
    BY <1>4, <1>8, <2>4, <2>5 DEF RecordsMail
<1>9. ASSUME NEW row \in ReplyRow, ForgetsHead(row)
      PROVE  MirrorInv'
  <2>1. /\ NoThreadIds /\ Threads' = Threads
        /\ row.thread \in Threads => thread'[row.thread].matrix = None
    BY <1>0, <1>9, ThreadIds DEF ForgetsHead
  <2>2. ASSUME NEW m \in Mails, NEW r \in Events, Awaited(m, r)'
        PROVE  (Awaited(m, r) \/ Posts(m, r) = 0) /\ ~Recording(m, r)
    BY <1>0, <1>9, <2>1, <2>2, AwaitedBefore DEF ForgetsHead, Recording
  <2>3. \A other \in notifier'.gone : other = row
    <3>1. PICK x : notifier.gone = {x}
      BY <1>9 DEF MirrorInv, ForgetsHead
    <3> QED
      BY <1>9, <3>1 DEF ForgetsHead
  <2>4. \A other \in notifier'.mails : RowFew(other)'
    BY <1>3, <1>9 DEF ForgetsHead
  <2> QED
    BY <1>4, <1>9, <2>1, <2>2, <2>3, <2>4 DEF ForgetsHead
<1>10. ASSUME NEW row \in ReplyRow, ForgetsMails(row)
       PROVE  MirrorInv'
  <2>1. \A m \in Mails : mail[m].thread # row.thread => mail'[m] = mail[m]
    BY <1>0, <1>10 DEF ForgetsMails, RemoveMailMatrixIdsByThread, DbTypes
  <2>2. ASSUME NEW m \in Mails, NEW r \in Events, Awaited(m, r)'
        PROVE  Awaited(m, r) /\ ~Recording(m, r)
    <3>1. PICK t : t = mail[m].thread
      OBVIOUS
    <3>2. mail'[m].thread = t
      <4>1. mail[m] \in MailRow /\ mail'[m] \in {mail[m], [mail[m] EXCEPT !.matrix = None]}
        BY <1>0, <1>10 DEF ForgetsMails, RemoveMailMatrixIdsByThread, DbTypes
      <4> QED
        BY <3>1, <4>1 DEF MailRow
    <3>3. t # None /\ thread[t].matrix = r /\ UNCHANGED thread
      BY <1>10, <2>2, <3>2 DEF ForgetsMails, Awaited
    <3>4. t \in Threads
      BY <1>0, <3>1, <3>3 DEF DbTypes
    <3>5. t # row.thread
      BY <1>0, <1>10, <3>3, <3>4 DEF MirrorInv, ForgetsMails
    <3> QED
      BY <1>10, <2>1, <2>2, <3>1, <3>3, <3>5 DEF ForgetsMails, Awaited, Recording
  <2>3. \A other \in notifier'.mails : RowFew(other)'
    BY <1>3, <1>10 DEF ForgetsMails
  <2> QED
    BY <1>4, <1>10, <2>2, <2>3 DEF ForgetsMails
<1>11. ASSUME NEW e, Posting(e), e.kind # "mail", notifier'.mails = notifier.mails,
              notifier'.pc \notin {"record mail", "forget head", "forget mails"},
              notifier'.pc = "record head" => notifier'.id = Len(timeline) + 1
       PROVE  MirrorInv'
  <2>1. /\ \A m, r : Posts(m, r)' = Posts(m, r)
        /\ Events' = Events \cup {Len(timeline) + 1} /\ Len(timeline) + 1 \notin Events
    <3>1. ASSUME NEW m, NEW r
          PROVE  Posts(m, r)' = Posts(m, r)
      <4>1. \A x, y : Posts(x, y)' = Posts(x, y)
                + IF e.kind = "mail" /\ e.of = x /\ e.root = y THEN 1 ELSE 0
        BY <1>11, PostsCounted
      <4>2. Posts(m, r)' = Posts(m, r)
                + IF e.kind = "mail" /\ e.of = m /\ e.root = r THEN 1 ELSE 0
        BY <4>1
      <4>3. Posts(m, r) \in Nat /\ ~(e.kind = "mail" /\ e.of = m /\ e.root = r)
        BY <1>b, <1>11
      <4> QED
        BY <4>2, <4>3
    <3> QED
      BY <1>11, <3>1, NextEvent
  <2>2. ASSUME NEW m \in Mails, NEW r \in Events'
        PROVE  PostedFew(m, r)'
    <3>1. /\ ~Recording(m, r) /\ ~Recording(m, r)'
          /\ Awaited(m, r)' = Awaited(m, r) /\ Posts(m, r)' = Posts(m, r)
      BY <1>11, <2>1 DEF Posting, Recording, Awaited
    <3>2. r \in Events => PostedFew(m, r)
      BY DEF MirrorInv
    <3>3. r \notin Events => Posts(m, r) = 0
      BY PostsCounted
    <3>5. Posts(m, r) \in Nat
      BY <1>b
    <3>4. Posts(m, r) <= 1 + mishaps' /\ (Awaited(m, r) => Posts(m, r) <= mishaps')
      BY <1>a, <3>1, <3>2, <3>3, <3>5 DEF PostedFew
    <3> QED
      BY <3>1, <3>4 DEF PostedFew
  <2>3. ASSUME NEW row \in notifier'.mails
        PROVE  RowFew(row)'
    <3>1. RowFew(row)
      BY <1>11, <2>3 DEF MirrorInv
    <3>2. /\ Posts(row.id, row.root) \in Nat
          /\ Posts(row.id, row.root)' = Posts(row.id, row.root)
      BY <1>b, <2>1
    <3>3. Slack
      BY <1>a DEF Slack
    <3> QED
      BY <1>a, <1>11, <3>1, <3>2, <3>3, RowStays
  <2>4. notifier'.pc = "record head" => \A m \in Mails : Posts(m, notifier.id)' = 0
    BY <1>11, <2>1, PostsCounted
  <2> QED
    BY <1>1, <1>11, <2>2, <2>3, <2>4 DEF MirrorInv
<1>12. CASE PostsLink
  <2>1. PICK e : Posting(e) /\ e.kind = "link"
    BY <1>12 DEF PostsLink
  <2> QED
    BY <1>11, <1>12, <2>1 DEF PostsLink
<1>13. ASSUME NEW t \in Threads, NEW room \in Rooms, PostsHead(t, room)
       PROVE  MirrorInv'
  <2>1. PICK e : e = HeadEvent(t, room)
    OBVIOUS
  <2>2. Posting(e) /\ e.kind = "head"
    BY <1>13, <2>1 DEF PostsHead, HeadEvent
  <2> QED
    BY <1>11, <1>13, <2>2 DEF PostsHead
<1>14. ASSUME NEW row \in ReplyRow, PostsMail(row)
       PROVE  MirrorInv'
  <2> DEFINE n == Len(timeline) + 1
  <2>1. PICK e : e = MailEvent(row.id, row.room, row.root)
    OBVIOUS
  <2>2. /\ Posting(e) /\ e.kind = "mail" /\ e.of = row.id /\ e.root = row.root
        /\ row \in notifier.mails
    BY <1>14, <2>1 DEF PostsMail, MailEvent
  <2>3. /\ Events' = Events \cup {n} /\ n \notin Events /\ timeline'[n] = e
        /\ row.root \in Events /\ RowFew(row)
    BY <2>2, NextEvent DEF HomeInv, RowHome, MirrorInv
  <2>4. \A m, r : Posts(m, r)' = Posts(m, r) + IF m = row.id /\ r = row.root THEN 1 ELSE 0
    BY <2>2, PostsCounted
  <2>6. \A m, r : ~Recording(m, r) /\ Awaited(m, r)' = Awaited(m, r)
    BY <2>2 DEF Posting, Recording, Awaited
  <2>7. ASSUME NEW m \in Mails, NEW r \in Events'
        PROVE  /\ Posts(m, r)' <= 1 + mishaps
               /\ m # row.id \/ r # row.root =>
                    Posts(m, r)' = Posts(m, r) /\ (Awaited(m, r) => Posts(m, r) <= mishaps)
               /\ m = row.id /\ r = row.root => Posts(m, r)' + Stopping <= 1 + mishaps
    <3>0. Posts(m, r) \in Nat
      BY <1>b
    <3>1. CASE m = row.id /\ r = row.root
      <4>1. Posts(m, r)' = Posts(m, r) + 1
        BY <2>4, <3>1
      <4>2. Posts(m, r) + Stopping <= mishaps
        BY <2>3, <3>1 DEF RowFew
      <4> QED
        BY <1>a, <3>0, <3>1, <4>1, <4>2
    <3>2. CASE m # row.id \/ r # row.root
      <4>1. Posts(m, r)' = Posts(m, r)
        BY <2>4, <3>0, <3>2
      <4>2. r \in Events => PostedFew(m, r)
        BY DEF MirrorInv
      <4>3. r \notin Events => Posts(m, r) = 0
        BY PostsCounted
      <4> QED
        BY <1>a, <2>6, <3>0, <3>2, <4>1, <4>2, <4>3 DEF PostedFew
    <3> QED
      BY <3>1, <3>2
  <2>8. CASE /\ notifier'.mails = notifier.mails \ {row} /\ notifier'.pc = "record mail"
             /\ notifier'.mail = row.id /\ notifier'.id = n
    <3>1. \A m, r : Recording(m, r)' <=> m = row.id /\ r = row.root
      BY <2>2, <2>3, <2>8 DEF Recording
    <3>2. ASSUME NEW m \in Mails, NEW r \in Events'
          PROVE  PostedFew(m, r)'
      <4>1. /\ Posts(m, r) \in Nat
            /\ Posts(m, r)' \in Nat
        BY <1>b, <2>4
      <4>2. /\ Posts(m, r)' <= 1 + mishaps'
            /\ Recording(m, r)' => Posts(m, r)' + Stopping' <= 1 + mishaps'
            /\ Awaited(m, r)' /\ ~Recording(m, r)' => Posts(m, r)' <= mishaps'
        BY <1>a, <2>6, <2>7, <3>1, <4>1
      <4> QED
        BY <4>2 DEF PostedFew
    <3>3. ASSUME NEW other \in notifier'.mails
          PROVE  RowFew(other)'
      <4>1. RowFew(other) /\ other.id # row.id
        BY <2>3, <2>8, <3>3 DEF MirrorInv, RowFew
      <4>2. Posts(other.id, other.root) \in Nat
        BY <1>b
      <4>3. Posts(other.id, other.root)' = Posts(other.id, other.root)
        BY <2>4, <4>1, <4>2
      <4>4. Slack
        BY <1>a DEF Slack
      <4> QED
        BY <1>a, <2>8, <4>1, <4>2, <4>3, <4>4, RowStays
    <3> QED
      BY <1>1, <2>8, <3>2, <3>3 DEF MirrorInv
  <2>9. CASE /\ notifier'.mails = {} /\ notifier'.pc \in {"threads", "rest"}
             /\ mishaps' = mishaps + 1
    <3>1. ASSUME NEW m \in Mails, NEW r \in Events'
          PROVE  PostedFew(m, r)'
      <4>1. /\ Posts(m, r) \in Nat
            /\ Posts(m, r)' \in Nat
        BY <1>b, <2>4
      <4>2. ~Recording(m, r)'
        BY <2>9 DEF Recording
      <4>3. Posts(m, r)' <= 1 + mishaps /\ mishaps' = mishaps + 1
        BY <2>7, <2>9
      <4>4. Posts(m, r)' <= mishaps' /\ Posts(m, r)' <= 1 + mishaps'
        BY <1>a, <4>1, <4>3
      <4> QED
        BY <4>2, <4>4 DEF PostedFew
    <3> QED
      BY <1>1, <2>9, <3>1 DEF MirrorInv
  <2> QED
    BY <1>14, <2>8, <2>9 DEF PostsMail
<1> QED
  BY <1>5, <1>6, <1>7, <1>8, <1>9, <1>10, <1>12, <1>13, <1>14, NotifierCases

LEMMA MirrorKept ==
  ASSUME NoMove
  PROVE  Spec => [](Types /\ HomeInv /\ MirrorInv)
<1>1. Init => MirrorInv
  <2> SUFFICES ASSUME Init PROVE MirrorInv
    OBVIOUS
  <2>1. Events = {} /\ notifier = IdleNotifier
    BY DEF Init, NotificationInit, Events
  <2>2. \A c \in Commands : cmd[c].pc = "idle"
    BY DEF Init, CommandsInit, NewCommand
  <2>3. notifier.pc = "rest" /\ notifier.mails = {}
    BY <2>1 DEF IdleNotifier
  <2> QED
    BY <2>1, <2>2, <2>3 DEF MirrorInv, MoveSteps
<1>2. Types /\ Types' /\ SortInv /\ HomeInv /\ MirrorInv /\ [Next]_vars => MirrorInv'
  BY StaySettled, OthersKeepMirror, NotifierKeepsMirror
<1> QED
  BY <1>1, <1>2, HomeAlways, PTL DEF Spec

\* A mail that is waiting to be posted, is being posted or is on its way to the
\* database is posted again only where a mishap has come between: no mail
\* appears under a head more often than once and once for each of them, as long
\* as no command moves a thread.
THEOREM MailsAreMirroredOnce ==
  ASSUME NoMove
  PROVE  Spec => []MirroredOnce
<1>1. HomeInv /\ MirrorInv => MirroredOnce
  <2> SUFFICES ASSUME HomeInv, MirrorInv, NEW e \in Events, timeline[e].kind = "mail"
               PROVE  Posts(timeline[e].of, timeline[e].root) <= 1 + mishaps
    BY DEF MirroredOnce, Posts
  <2>1. timeline[e].of \in Mails /\ timeline[e].root \in Events
    BY DEF HomeInv, PostedHome
  <2> QED
    BY <2>1 DEF MirrorInv, PostedFew
<1> QED
  BY <1>1, MirrorKept, PTL
-----------------------------------------------------------------------------
(* The stages hand over completely, as long as no reply is written: where  *)
(* the process ends during a reply, its mail is left without messages and  *)
(* no fetcher, and the other mails of its thread wait for it.              *)

NoReply == \A c \in Commands : Kind[c] # "reply"

\* A move whose thread has no head any more, and which has yet to ask for one.
MovesOn == \E c \in Commands : cmd[c].pc \in {"forget mails", "rehome", "request"}

SorterWorks ==
    sorter.pc \in {"next", "references", "join", "touch", "head", "claim", "finish"}

\* A run of the stage is requested, or will be by the stage before it.
SortingAsked == "sorting" \in queued \/ pump.initial \/ (pump.busy /\ pump.added)
ExtractionAsked == "extraction" \in queued \/ sorter.first \/ SorterWorks
NotificationAsked ==
    "notification" \in queued \/ extractor.first \/ extractor.pc = "batches" \/ MovesOn

\* The run that is under way has not read the table yet, or has read the row.
SortingDue(m) ==
    SortingAsked \/ sorter.pc \in {"lock", "gate", "list"} \/ m \in sorter.rest

ExtractionDue(m) ==
    ExtractionAsked \/ extractor.pc = "list" \/ m \in extractor.todo

HeadAwaited(t) ==
    \/ notifier.pc \in {"threads", "forget mails"}
    \/ \E row \in notifier.threads : row.id = t
    \/ notifier.pc = "record head" /\ notifier.head = t

Relisting ==
    {"threads", "post", "record head", "link", "mails", "forget head", "forget mails"}

MailAwaited(m) ==
    \/ notifier.pc \in Relisting
    \/ notifier.pc = "record mail" /\ notifier.mail = m
    \/ \E row \in notifier.mails : row.id = m

\* The stage passes a thread over while one of its mails is being extracted.
HeldBack(t) == \E m \in MailsByThread(t) : ~mail[m].extracted

SortingLink ==
    /\ sorter.first => pump.initial \/ "sorting" \in queued \/ sorter.pc # "rest"
    /\ \A m \in MailsRequiringSorting : SortingDue(m)

ExtractionLink ==
    /\ extractor.first => ExtractionAsked \/ extractor.pc # "rest"
    /\ \A m \in MailsRequiringMessageExtraction : ExtractionDue(m)

NotificationLink ==
    /\ \A t \in MatrixReadyThreads : NotificationAsked \/ HeadAwaited(t)
    /\ \A m \in MatrixReadyMails :
        NotificationAsked \/ MailAwaited(m) \/ HeldBack(mail[m].thread)
    /\ notifier.pc = "check" => \A row \in notifier.mails :
        \/ row.thread \in notifier.unchecked \cup notifier.valid
        \/ NotificationAsked \/ HeldBack(row.thread)

\* Mails are extracted when they are sorted, and lists are empty when they have
\* been worked through.
ListsInv ==
    /\ \A m \in Mails : /\ mail[m].stored => mail[m].fetched
                        /\ mail[m].extracted => mail[m].sorted
    /\ sorter.pc = "touch" => mail[sorter.cur].sorted
    /\ extractor.pc # "batches" => extractor.todo = {}
    /\ \A m \in extractor.todo : mail[m].sorted
    /\ notifier.pc \notin {"post", "record head", "link"} => notifier.threads = {}
    /\ notifier.pc = "rest" => notifier.mails = {}

HandoverInv ==
    /\ ListsInv
    /\ closed = {} => SortingLink /\ ExtractionLink /\ NotificationLink

LEMMA SortingLinkStays ==
  ASSUME SortingLink, UNCHANGED <<pump, sorter>>,
         "sorting" \in queued => "sorting" \in queued',
         MailsRequiringSorting' \subseteq MailsRequiringSorting
  PROVE  SortingLink'
BY DEF SortingLink, SortingDue, SortingAsked

LEMMA ExtractionLinkStays ==
  ASSUME ExtractionLink, UNCHANGED extractor, ExtractionAsked => ExtractionAsked',
         MailsRequiringMessageExtraction' \subseteq MailsRequiringMessageExtraction
  PROVE  ExtractionLink'
BY DEF ExtractionLink, ExtractionDue

LEMMA NotificationLinkAsked ==
  ASSUME NotificationAsked' \/ notifier'.pc \in {"threads", "forget mails"}
  PROVE  NotificationLink'
BY DEF NotificationLink, HeadAwaited, MailAwaited, Relisting

LEMMA NotificationLinkStays ==
  ASSUME Types, NotificationLink, UNCHANGED notifier, NotificationAsked => NotificationAsked',
         MatrixReadyThreads' \subseteq MatrixReadyThreads,
         MatrixReadyMails' \subseteq MatrixReadyMails,
         \A t \in Nat : HeldBack(t) => HeldBack(t)',
         \A m \in MatrixReadyMails : mail'[m].thread = mail[m].thread
  PROVE  NotificationLink'
<1>1. \A t : HeadAwaited(t)' <=> HeadAwaited(t)
  BY DEF HeadAwaited
<1>2. \A m : MailAwaited(m)' <=> MailAwaited(m)
  BY DEF MailAwaited
<1>3. /\ \A m \in MatrixReadyMails : mail[m].thread \in Nat
      /\ \A row \in notifier.mails : row.thread \in Nat
  BY DEF Types, DbTypes, MailRow, NotifierTypes, ReplyRow, MatrixReadyMails, Stored
<1> QED
  BY <1>1, <1>2, <1>3 DEF NotificationLink
-----------------------------------------------------------------------------
(* What the statements change *)

\* The stages have nothing to do that they had not, but for what is posted.
SameStatus ==
    \A m \in Mails : /\ mail'[m].stored = mail[m].stored
                     /\ mail'[m].fetched = mail[m].fetched
                     /\ mail'[m].sorted = mail[m].sorted
                     /\ mail'[m].extracted = mail[m].extracted
                     /\ mail'[m].thread = mail[m].thread

LEMMA StatusStays ==
  ASSUME SameStatus
  PROVE  /\ Stored' = Stored
         /\ MailsRequiringSorting' = MailsRequiringSorting
         /\ MailsRequiringMessageExtraction' = MailsRequiringMessageExtraction
         /\ \A t : MailsByThread(t)' = MailsByThread(t)
         /\ \A t : HeldBack(t)' <=> HeldBack(t)
<1>1. Stored' = Stored
  BY DEF SameStatus, Stored
<1>2. \A t : MailsByThread(t)' = MailsByThread(t)
  BY <1>1 DEF SameStatus, MailsByThread, Stored
<1>3. \A t : HeldBack(t)' <=> HeldBack(t)
  BY <1>2 DEF SameStatus, HeldBack, MailsByThread, Stored
<1> QED
  BY <1>1, <1>2, <1>3 DEF SameStatus, MailsRequiringSorting,
     MailsRequiringMessageExtraction, Stored

\* A statement on one row.
LEMMA RowSet ==
  ASSUME DbTypes, NEW n \in Mails, NEW row, mail' = [mail EXCEPT ![n] = row]
  PROVE  mail'[n] = row /\ \A m \in Mails \ {n} : mail'[m] = mail[m]
BY DEF DbTypes

LEMMA Statuses ==
  ASSUME DbTypes
  PROVE  /\ UNCHANGED mail => SameStatus
         /\ AutoUpdateMailReplyTo => SameStatus
         /\ \A m \in Mails : \A id : UpdateMailMatrixId(m, id) => SameStatus
         /\ \A t : RemoveMailMatrixIdsByThread(t) => SameStatus
<1>0. \A m \in Mails : mail[m] \in MailRow
  BY DEF DbTypes
<1>1. UNCHANGED mail => SameStatus
  BY DEF SameStatus
<1>2. ASSUME AutoUpdateMailReplyTo
      PROVE  SameStatus
  <2>1. \A m \in Mails : mail'[m] \in {mail[m], [mail[m] EXCEPT !.replyTo = InReplyTo[m]]}
    BY <1>2 DEF AutoUpdateMailReplyTo
  <2> QED
    BY <1>0, <2>1 DEF SameStatus, MailRow
<1>3. ASSUME NEW m \in Mails, NEW id, UpdateMailMatrixId(m, id)
      PROVE  SameStatus
  <2>1. mail' = [mail EXCEPT ![m] = [mail[m] EXCEPT !.matrix = id]]
    BY <1>0, <1>3 DEF UpdateMailMatrixId, DbTypes
  <2>2. /\ mail'[m] = [mail[m] EXCEPT !.matrix = id]
        /\ \A n \in Mails \ {m} : mail'[n] = mail[n]
    BY <2>1, RowSet
  <2> QED
    BY <1>0, <2>2 DEF SameStatus, MailRow
<1>4. ASSUME NEW t, RemoveMailMatrixIdsByThread(t)
      PROVE  SameStatus
  <2>1. \A m \in Mails : mail'[m] \in {mail[m], [mail[m] EXCEPT !.matrix = None]}
    BY <1>4 DEF RemoveMailMatrixIdsByThread
  <2> QED
    BY <1>0, <2>1 DEF SameStatus, MailRow
<1> QED
  BY <1>1, <1>2, <1>3, <1>4

\* A mail is stored, is put into a thread or is marked, or is extracted.
StoresMail(n) ==
    /\ \A m \in Mails \ {n} : mail'[m] = mail[m]
    /\ mail[n].stored => mail'[n] = mail[n]
    /\ ~mail[n].stored =>
        /\ mail'[n].stored /\ mail'[n].fetched /\ mail'[n].sorted = mail[n].sorted
        /\ mail'[n].extracted = mail[n].extracted /\ mail'[n].thread = mail[n].thread

PlacesMail(n) ==
    /\ \A m \in Mails \ {n} : mail'[m] = mail[m]
    /\ mail'[n].stored = mail[n].stored /\ mail'[n].fetched = mail[n].fetched
    /\ mail'[n].sorted /\ mail'[n].extracted = mail[n].extracted

ExtractsMail(n) ==
    /\ \A m \in Mails \ {n} : mail'[m] = mail[m]
    /\ mail'[n].stored = mail[n].stored /\ mail'[n].fetched = mail[n].fetched
    /\ mail'[n].sorted = mail[n].sorted /\ mail'[n].extracted
    /\ mail'[n].thread = mail[n].thread

LEMMA MailEffects ==
  ASSUME DbTypes, NEW m \in Mails
  PROVE  /\ AddMail(m, TRUE) => StoresMail(m)
         /\ \A t, parent : UpdateMailSorting(m, t, parent) => PlacesMail(m)
         /\ UpdateMailMarkSorted(m) => PlacesMail(m)
         /\ UpdateExtractedMessages(m) => ExtractsMail(m)
<1>0. mail[m] \in MailRow /\ mail \in [Mails -> MailRow]
  BY DEF DbTypes
<1>1. ASSUME AddMail(m, TRUE)
      PROVE  StoresMail(m)
  <2> DEFINE row == [mail[m] EXCEPT !.stored = TRUE, !.fetched = TRUE]
  <2>1. \/ mail[m].stored /\ UNCHANGED mail
        \/ ~mail[m].stored /\ mail' = [mail EXCEPT ![m] = row]
    BY <1>0, <1>1 DEF AddMail
  <2>2. /\ row.stored /\ row.fetched /\ row.sorted = mail[m].sorted
        /\ row.extracted = mail[m].extracted /\ row.thread = mail[m].thread
    BY <1>0 DEF MailRow
  <2> HIDE DEF row
  <2> QED
    BY <2>1, <2>2, RowSet DEF StoresMail
<1>2. ASSUME NEW t, NEW parent, UpdateMailSorting(m, t, parent)
      PROVE  PlacesMail(m)
  <2> DEFINE row == [mail[m] EXCEPT !.replyTo = parent, !.thread = t, !.sorted = TRUE]
  <2>1. mail' = [mail EXCEPT ![m] = row]
    BY <1>0, <1>2 DEF UpdateMailSorting
  <2>2. /\ row.stored = mail[m].stored /\ row.fetched = mail[m].fetched
        /\ row.sorted /\ row.extracted = mail[m].extracted
    BY <1>0 DEF MailRow
  <2> HIDE DEF row
  <2> QED
    BY <2>1, <2>2, RowSet DEF PlacesMail
<1>3. ASSUME UpdateMailMarkSorted(m)
      PROVE  PlacesMail(m)
  <2> DEFINE row == [mail[m] EXCEPT !.sorted = TRUE]
  <2>1. mail' = [mail EXCEPT ![m] = row]
    BY <1>0, <1>3 DEF UpdateMailMarkSorted
  <2>2. /\ row.stored = mail[m].stored /\ row.fetched = mail[m].fetched
        /\ row.sorted /\ row.extracted = mail[m].extracted
    BY <1>0 DEF MailRow
  <2> HIDE DEF row
  <2> QED
    BY <2>1, <2>2, RowSet DEF PlacesMail
<1>4. ASSUME UpdateExtractedMessages(m)
      PROVE  ExtractsMail(m)
  <2> DEFINE row == [mail[m] EXCEPT !.extracted = TRUE]
  <2>1. mail' = [mail EXCEPT ![m] = row]
    BY <1>0, <1>4 DEF UpdateExtractedMessages
  <2>2. /\ row.stored = mail[m].stored /\ row.fetched = mail[m].fetched
        /\ row.sorted = mail[m].sorted /\ row.extracted /\ row.thread = mail[m].thread
    BY <1>0 DEF MailRow
  <2> HIDE DEF row
  <2> QED
    BY <2>1, <2>2, RowSet DEF ExtractsMail
<1> QED
  BY <1>1, <1>2, <1>3, <1>4

-----------------------------------------------------------------------------
(* The steps that hand over *)

\* A mail that is not stored is in no thread and has no messages.
LEMMA StoringAdds ==
  ASSUME Types, SortInv, ListsInv, NEW n \in Mails, StoresMail(n), UNCHANGED thread
  PROVE  /\ \A m \in Mails : /\ mail'[m].stored => mail'[m].fetched
                             /\ mail'[m].extracted = mail[m].extracted
                             /\ mail'[m].sorted = mail[m].sorted
         /\ MailsRequiringSorting' \subseteq MailsRequiringSorting
                                             \cup (IF mail[n].stored THEN {} ELSE {n})
         /\ MailsRequiringMessageExtraction' \subseteq MailsRequiringMessageExtraction
         /\ MatrixReadyThreads' \subseteq MatrixReadyThreads
         /\ MatrixReadyMails' \subseteq MatrixReadyMails
         /\ \A t \in Nat : HeldBack(t) => HeldBack(t)'
         /\ \A m \in MatrixReadyMails : mail'[m].thread = mail[m].thread
<1> USE Names
<1>1. \A m \in Mails : m # n \/ mail[n].stored => mail'[m] = mail[m]
  BY DEF StoresMail
<1>2. ~mail[n].stored => /\ ~mail[n].sorted /\ ~mail[n].extracted /\ mail[n].thread = None
                         /\ ~mail'[n].sorted /\ ~mail'[n].extracted
                         /\ mail'[n].stored /\ mail'[n].fetched
  BY DEF StoresMail, SortInv, RowsInv, ListsInv
<1>3. \A m \in Mails : /\ mail'[m].stored => mail'[m].fetched
                       /\ mail'[m].extracted = mail[m].extracted
                       /\ mail'[m].sorted = mail[m].sorted
                       /\ mail'[m].thread = mail[m].thread
                       /\ mail[m].stored => mail'[m] = mail[m]
                       /\ mail'[m].stored => mail[m].stored \/ m = n
  BY <1>1, <1>2 DEF StoresMail, ListsInv
<1>4. Threads' = Threads /\ \A t \in Threads : thread[t].first \in Mails
  BY DEF Threads, Types, DbTypes, Stored
<1>5. \A t \in Nat : HeldBack(t) => HeldBack(t)'
  BY <1>3 DEF HeldBack, MailsByThread, Stored
<1>6. MatrixReadyThreads' \subseteq MatrixReadyThreads
  BY <1>3, <1>4 DEF MatrixReadyThreads
<1>7. MatrixReadyMails' \subseteq MatrixReadyMails
  <2> SUFFICES ASSUME NEW m \in MatrixReadyMails' PROVE m \in MatrixReadyMails
    OBVIOUS
  <2>1. m \in Mails /\ mail'[m].stored /\ mail'[m].extracted
    BY DEF MatrixReadyMails, Stored
  <2>2. mail'[m] = mail[m] /\ m \in Stored
    BY <1>2, <1>3, <2>1 DEF Stored
  <2> QED
    BY <2>2 DEF MatrixReadyMails
<1>8. MailsRequiringMessageExtraction' \subseteq MailsRequiringMessageExtraction
  <2> SUFFICES ASSUME NEW m \in MailsRequiringMessageExtraction'
               PROVE  m \in MailsRequiringMessageExtraction
    OBVIOUS
  <2>1. m \in Mails /\ mail'[m].stored /\ mail'[m].sorted
    BY DEF MailsRequiringMessageExtraction, Stored
  <2>2. mail'[m] = mail[m] /\ m \in Stored
    BY <1>2, <1>3, <2>1 DEF Stored
  <2> QED
    BY <2>2 DEF MailsRequiringMessageExtraction
<1>9. MailsRequiringSorting' \subseteq MailsRequiringSorting
                                       \cup (IF mail[n].stored THEN {} ELSE {n})
  BY <1>3 DEF MailsRequiringSorting, Stored
<1> QED
  BY <1>3, <1>5, <1>6, <1>7, <1>8, <1>9 DEF MatrixReadyMails, Stored

LEMMA PumpHandsOver ==
  ASSUME Types, SortInv, HandoverInv, Pump
  PROVE  HandoverInv'
<1>0. /\ UNCHANGED <<closed, sorter, extractor, notifier, cmd, thread>>
      /\ pump \in [chunk : SUBSET Mails, busy : BOOLEAN, added : BOOLEAN,
                   initial : BOOLEAN]
      /\ \A x : x \in {"extraction", "notification"} /\ x \in queued => x \in queued'
      /\ ListsInv /\ DbTypes
  <2>1. UNCHANGED <<closed, thread>> /\ (UNCHANGED queued \/ QueueAll({"sorting"}))
    BY DEF Pump, ReceiveChunk, StoreMail, EndChunk, stageVars, dbVars, QueueWork
  <2>2. UNCHANGED <<sorter, extractor, notifier, cmd>>
    BY DEF Pump, ReceiveChunk, StoreMail, EndChunk, pumpRest, sortingVars,
         notifierVars, commandVars
  <2> QED
    BY <2>1, <2>2 DEF QueueAll, Types, PumpTypes, HandoverInv
<1>1. /\ ExtractionAsked => ExtractionAsked'
      /\ NotificationAsked => NotificationAsked'
  BY <1>0 DEF ExtractionAsked, NotificationAsked, SorterWorks, MovesOn
<1>2. ASSUME NEW n \in Mails, StoreMail(n)
      PROVE  HandoverInv'
  <2>1. /\ pump.busy /\ StoresMail(n) /\ UNCHANGED queued
        /\ pump' = [pump EXCEPT !.chunk = @ \ {n}, !.added = @ \/ ~mail[n].stored]
    BY <1>0, <1>2, MailEffects DEF StoreMail, stageVars
  <2>2. /\ pump'.busy /\ pump'.added = (pump.added \/ ~mail[n].stored)
        /\ pump'.initial = pump.initial
    BY <1>0, <2>1
  <2>3. /\ SortingAsked => SortingAsked'
        /\ ~mail[n].stored => SortingAsked'
    BY <2>1, <2>2 DEF SortingAsked
  <2>4. ListsInv'
    BY <1>0, <2>1, StoringAdds DEF ListsInv, Types, SorterTypes, ExtractorTypes, Stored
  <2>5. ASSUME closed = {}
        PROVE  SortingLink' /\ ExtractionLink' /\ NotificationLink'
    <3>1. SortingLink'
      BY <1>0, <2>1, <2>2, <2>3, <2>5, StoringAdds DEF HandoverInv, SortingLink, SortingDue
    <3>2. ExtractionLink'
      BY <1>0, <1>1, <2>1, <2>5, StoringAdds, ExtractionLinkStays DEF HandoverInv
    <3>3. NotificationLink'
      BY <1>0, <1>1, <2>1, <2>5, StoringAdds, NotificationLinkStays DEF HandoverInv
    <3> QED
      BY <3>1, <3>2, <3>3
  <2> QED
    BY <1>0, <2>4, <2>5 DEF HandoverInv
<1>3. ASSUME (\E chunk \in SUBSET mailbox : ReceiveChunk(chunk)) \/ EndChunk
      PROVE  HandoverInv'
  <2>1. UNCHANGED <<mail, thread>>
    BY <1>3 DEF ReceiveChunk, EndChunk, dbVars
  <2>2. ListsInv'
    BY <1>0, <2>1 DEF ListsInv
  <2>3. ASSUME closed = {}
        PROVE  /\ SortingAsked => SortingAsked'
               /\ pump.initial \/ "sorting" \in queued
                    => pump'.initial \/ "sorting" \in queued'
    <3>1. CASE \E chunk \in SUBSET mailbox : ReceiveChunk(chunk)
      <4>1. ~pump.busy /\ pump'.initial = pump.initial /\ UNCHANGED queued
        BY <1>0, <3>1 DEF ReceiveChunk, stageVars
      <4> QED
        BY <4>1 DEF SortingAsked
    <3>2. CASE EndChunk
      <4>1. pump.added \/ pump.initial => "sorting" \in queued'
        BY <2>3, <3>2 DEF EndChunk, QueueWork, QueueAll
      <4>2. queued \subseteq queued'
        BY <3>2 DEF EndChunk, QueueWork, QueueAll, stageVars
      <4> QED
        BY <4>1, <4>2 DEF SortingAsked
    <3> QED
      BY <1>3, <3>1, <3>2
  <2>4. SameStatus
    BY <1>0, <2>1, Statuses
  <2>5. ASSUME closed = {}
        PROVE  SortingLink' /\ ExtractionLink' /\ NotificationLink'
    <3>1. SortingLink'
      BY <1>0, <2>3, <2>4, <2>5, StatusStays DEF HandoverInv, SortingLink, SortingDue
    <3>2. ExtractionLink'
      BY <1>0, <1>1, <2>4, <2>5, StatusStays, ExtractionLinkStays DEF HandoverInv
    <3>3. /\ MatrixReadyThreads' = MatrixReadyThreads
          /\ MatrixReadyMails' = MatrixReadyMails
      BY <2>1 DEF MatrixReadyThreads, MatrixReadyMails, Threads, Stored
    <3>4. NotificationLink'
      BY <1>0, <1>1, <2>1, <2>4, <2>5, <3>3, StatusStays, NotificationLinkStays
         DEF HandoverInv
    <3> QED
      BY <3>1, <3>2, <3>4
  <2> QED
    BY <1>0, <2>2, <2>5 DEF HandoverInv
<1> QED
  BY <1>2, <1>3 DEF Pump

\* The threads have the same first mails and the same heads.
SameThreads ==
    /\ Threads' = Threads
    /\ \A t \in Threads : /\ thread'[t].first = thread[t].first
                          /\ thread'[t].matrix = thread[t].matrix

LEMMA SameTables ==
  ASSUME DbTypes
  PROVE  /\ UNCHANGED thread => SameThreads
         /\ \A t, m : UpdateThreadLastMail(t, m) => SameThreads
         /\ \A room, id, enabled, force :
                UpdateThreadEnabled(room, id, enabled, force) => SameThreads
         /\ SameStatus /\ SameMailIds /\ SameThreads =>
                /\ MatrixReadyThreads' = MatrixReadyThreads
                /\ MatrixReadyMails' = MatrixReadyMails
<1>a. thread \in [Threads -> ThreadRow]
  BY ThreadsAreNumbers, LenProperties DEF DbTypes
<1>0. /\ thread \in [Threads -> ThreadRow]
      /\ \A t \in Threads : thread[t] \in ThreadRow /\ thread[t].first \in Mails
  BY <1>a DEF ThreadRow
<1>1. UNCHANGED thread => SameThreads
  BY DEF SameThreads, Threads
<1>2. ASSUME NEW t, NEW m, UpdateThreadLastMail(t, m)
      PROVE  SameThreads
  <2>1. Threads' = Threads
    BY <1>0, <1>2 DEF UpdateThreadLastMail, Threads
  <2>2. \A u \in Threads : \/ thread'[u] = thread[u]
                           \/ thread'[u] = [thread[u] EXCEPT !.enabled = TRUE, !.last = m]
    BY <1>0, <1>2 DEF UpdateThreadLastMail
  <2> QED
    BY <1>0, <2>1, <2>2 DEF SameThreads, ThreadRow
<1>3. ASSUME NEW room, NEW id, NEW enabled, NEW force,
             UpdateThreadEnabled(room, id, enabled, force)
      PROVE  SameThreads
  <2>1. Threads' = Threads
    BY <1>0, <1>3 DEF UpdateThreadEnabled, Threads
  <2>2. \A u \in Threads :
            thread'[u] \in {thread[u],
                            [thread[u] EXCEPT !.enabled = enabled,
                                !.forceClose = IF force = None THEN @ ELSE force]}
    BY <1>3 DEF UpdateThreadEnabled
  <2> QED
    BY <1>0, <2>1, <2>2 DEF SameThreads, ThreadRow
<1>4. ASSUME SameStatus, SameMailIds, SameThreads
      PROVE  /\ MatrixReadyThreads' = MatrixReadyThreads
             /\ MatrixReadyMails' = MatrixReadyMails
  <2>1. MatrixReadyThreads' = MatrixReadyThreads
    BY <1>0, <1>4 DEF SameStatus, SameThreads, MatrixReadyThreads
  <2>2. \A m \in Mails : mail[m].thread # None => mail[m].thread \in Threads
    BY DEF DbTypes
  <2>3. MatrixReadyMails' = MatrixReadyMails
    BY <1>4, <2>2, StatusStays
       DEF SameStatus, SameMailIds, SameThreads, MatrixReadyMails, Stored
  <2> QED
    BY <2>1, <2>3
<1> QED
  BY <1>1, <1>2, <1>3, <1>4

\* What the sorting stage does to the tables.
LEMMA SortingTables ==
  ASSUME Types, SortInv, ListsInv, SortingStage
  PROVE  /\ \/ SameStatus
            \/ /\ PlacesMail(sorter.cur) /\ sorter.cur \in Stored /\ ~mail[sorter.cur].sorted
               /\ sorter.pc \in {"join", "head", "claim"}
         /\ MatrixReadyThreads' \subseteq MatrixReadyThreads
         /\ MatrixReadyMails' \subseteq MatrixReadyMails
         /\ \A t \in Nat : HeldBack(t) => HeldBack(t)'
         /\ \A m \in MatrixReadyMails : mail'[m].thread = mail[m].thread
         /\ \A m \in Mails : /\ mail'[m].stored => mail'[m].fetched
                             /\ mail'[m].extracted => mail'[m].sorted
                             /\ mail[m].sorted => mail'[m].sorted
<1> USE Names
<1>0. /\ DbTypes /\ Sorting
      /\ sorter.pc \in {"references", "join", "head", "claim"} =>
            sorter.cur \in Stored /\ ~mail[sorter.cur].sorted
  BY DEF Types, SorterTypes, SortingStage, SortInv, SorterInv, ListStaysUnsorted
<1>1. CASE SameStatus /\ SameMailIds /\ SameThreads
  <2>1. /\ \A t \in Nat : HeldBack(t) => HeldBack(t)'
        /\ \A m \in MatrixReadyMails : mail'[m].thread = mail[m].thread
    BY <1>1, StatusStays DEF SameStatus, MatrixReadyMails, Stored
  <2> QED
    BY <1>0, <1>1, <2>1, SameTables DEF SameStatus, ListsInv
<1>2. CASE UNCHANGED <<mail, thread>>
  BY <1>0, <1>1, <1>2, SameTables, Statuses DEF SameMailIds
<1>3. CASE AutoUpdateMailSorting
  BY <1>0, <1>1, <1>3, SameTables, Statuses, MailIds DEF AutoUpdateMailSorting
<1>4. CASE TouchThread
  BY <1>0, <1>1, <1>4, SameTables, Statuses DEF TouchThread, SameMailIds
<1>5. CASE JoinThread \/ MarkMailAsSorted \/ ClaimHead
  <2>1. PICK n \in Mails : n = sorter.cur /\ n \in Stored /\ ~mail[n].sorted
    BY <1>0, <1>5 DEF JoinThread, MarkMailAsSorted, ClaimHead, At, Stored
  <2>2. /\ PlacesMail(n) /\ UNCHANGED thread /\ ~mail[n].extracted /\ ~mail'[n].extracted
        /\ sorter.pc \in {"join", "head", "claim"}
    <3>1. PlacesMail(n)
      BY <1>0, <1>5, <2>1, MailEffects DEF JoinThread, MarkMailAsSorted, ClaimHead
    <3>2. UNCHANGED thread /\ sorter.pc \in {"join", "head", "claim"}
      BY <1>5 DEF JoinThread, MarkMailAsSorted, ClaimHead, At
    <3> QED
      BY <2>1, <3>1, <3>2 DEF PlacesMail, ListsInv
  <2>3. Stored' = Stored /\ Threads' = Threads
    BY <2>2 DEF PlacesMail, Stored, Threads
  <2>4. \A t \in Threads : thread[t].first \in Mails
    BY <1>0 DEF DbTypes, Stored
  <2>5. MatrixReadyThreads' \subseteq MatrixReadyThreads
    BY <2>2, <2>3, <2>4 DEF MatrixReadyThreads, PlacesMail
  <2>6. /\ MatrixReadyMails' \subseteq MatrixReadyMails
        /\ \A m \in MatrixReadyMails : mail'[m].thread = mail[m].thread
    BY <2>2, <2>3 DEF MatrixReadyMails, PlacesMail, Stored
  <2>7. \A t \in Nat : HeldBack(t) => HeldBack(t)'
    <3>1. mail[n].thread = None
      BY <2>1 DEF SortInv, RowsInv
    <3> SUFFICES ASSUME NEW t \in Nat, NEW m \in MailsByThread(t), ~mail[m].extracted
                 PROVE  HeldBack(t)'
      BY DEF HeldBack
    <3>2. CASE m # n
      BY <2>2, <2>3, <3>2 DEF HeldBack, MailsByThread, PlacesMail, Stored
    <3>3. CASE m = n
      <4>1. t = None
        BY <3>1, <3>3 DEF MailsByThread
      <4> QED
        BY <4>1
    <3> QED
      BY <3>2, <3>3
  <2> QED
    BY <2>1, <2>2, <2>5, <2>6, <2>7 DEF PlacesMail, ListsInv
<1>6. CASE CreateThread
  <2>1. PICK n \in Mails : n = sorter.cur /\ n \in Stored /\ ~mail[n].extracted
    BY <1>0, <1>6 DEF CreateThread, At, Stored, ListsInv
  <2>2. UNCHANGED <<mail, timeline>> /\ AddThread(n)
    BY <1>6, <2>1 DEF CreateThread, SortingStage, matrixVars
  <2>3. /\ Threads' = Threads \cup {Len(thread) + 1}
        /\ \A t \in Threads : thread'[t] = thread[t]
        /\ thread'[Len(thread) + 1].first = n
    BY <1>0, <2>1, <2>2, AddThreadTypes, EventsStay
  <2>4. SameStatus /\ SameMailIds
    BY <1>0, <2>2, Statuses DEF SameMailIds
  <2>5. MatrixReadyThreads' \subseteq MatrixReadyThreads
    BY <2>1, <2>2, <2>3 DEF MatrixReadyThreads
  <2>6. MatrixReadyMails' \subseteq MatrixReadyMails
    <3>1. \A m \in Mails : mail[m].thread # None => mail[m].thread \in Threads
      BY <1>0 DEF DbTypes
    <3> QED
      BY <2>2, <2>3, <3>1 DEF MatrixReadyMails, Stored
  <2> QED
    BY <2>2, <2>4, <2>5, <2>6, StatusStays DEF ListsInv
<1>7. \/ AutoUpdateMailSorting \/ TouchThread \/ JoinThread \/ MarkMailAsSorted
      \/ ClaimHead \/ CreateThread \/ UNCHANGED <<mail, thread>>
  BY <1>0 DEF Sorting, SortingStep, SortingBegin, LockThreadSorting, WaitForCompleteData,
     ListMailsRequiringSorting, LookUpReplyTo, LookUpReferences, FinishSorting, dbVars
<1> QED
  BY <1>2, <1>3, <1>4, <1>5, <1>6, <1>7

\* Where the worker of the sorting stage is afterwards.
SorterAt(pc, rest, first) ==
    sorter'.pc = pc /\ sorter'.rest = rest /\ sorter'.first = first

LEMMA SorterMoves ==
  ASSUME Types, SortingStage
  PROVE  /\ SortingBegin => SorterAt("lock", sorter.rest, sorter.first)
         /\ LockThreadSorting => SorterAt("gate", sorter.rest, sorter.first)
         /\ WaitForCompleteData => SorterAt("lock", sorter.rest, sorter.first)
         /\ AutoUpdateMailSorting => SorterAt("list", sorter.rest, sorter.first)
         /\ ListMailsRequiringSorting =>
                \/ /\ MailsRequiringSorting # {}
                   /\ SorterAt("next", MailsRequiringSorting, sorter.first)
                \/ MailsRequiringSorting = {} /\ SorterAt("rest", sorter.rest, FALSE)
         /\ LookUpReplyTo \/ LookUpReferences =>
                \E pc \in {"join", "references", "head"} :
                    SorterAt(pc, sorter.rest, sorter.first)
         /\ JoinThread => /\ SorterAt("touch", sorter.rest, sorter.first)
                          /\ sorter'.cur = sorter.cur
         /\ TouchThread \/ MarkMailAsSorted \/ ClaimHead =>
                \E pc \in {"next", "finish"} :
                    SorterAt(pc, sorter.rest \ {sorter.cur}, sorter.first)
         /\ CreateThread => SorterAt("claim", sorter.rest, sorter.first)
         /\ FinishSorting => SorterAt("rest", sorter.rest, FALSE)
<1>0. SorterTypes /\ sorter \in SorterRecord
  BY DEF Types, SorterTypes, SorterRecord
<1>1. \A pc : sorter' = [sorter EXCEPT !.pc = pc] =>
        SorterAt(pc, sorter.rest, sorter.first) /\ sorter'.cur = sorter.cur
  BY <1>0 DEF SorterRecord, SorterAt
<1>2. \A pc, t : sorter' = [sorter EXCEPT !.pc = pc, !.target = t] =>
        SorterAt(pc, sorter.rest, sorter.first)
  BY <1>0 DEF SorterRecord, SorterAt
<1>3. sorter' = [sorter EXCEPT !.pc = "rest", !.first = FALSE] =>
        SorterAt("rest", sorter.rest, FALSE)
  BY <1>0 DEF SorterRecord, SorterAt
<1>4. SortedCurrent => \E pc \in {"next", "finish"} :
                        SorterAt(pc, sorter.rest \ {sorter.cur}, sorter.first)
  BY <1>0 DEF SorterRecord, SorterAt, SortedCurrent
<1>5. ASSUME ListMailsRequiringSorting
      PROVE  \/ /\ MailsRequiringSorting # {}
                /\ SorterAt("next", MailsRequiringSorting, sorter.first)
             \/ MailsRequiringSorting = {} /\ SorterAt("rest", sorter.rest, FALSE)
  <2>1. CASE MailsRequiringSorting = {}
    BY <1>3, <1>5, <2>1 DEF ListMailsRequiringSorting
  <2>2. CASE MailsRequiringSorting # {}
    <3>1. sorter' = [sorter EXCEPT !.pc = "next", !.rest = MailsRequiringSorting]
      BY <1>5, <2>2 DEF ListMailsRequiringSorting
    <3> QED
      BY <1>0, <2>2, <3>1 DEF SorterRecord, SorterAt
  <2> QED
    BY <2>1, <2>2
<1>6. ASSUME LookUpReplyTo \/ LookUpReferences
      PROVE  \E pc \in {"join", "references", "head"} :
                SorterAt(pc, sorter.rest, sorter.first)
  <2>1. CASE LookUpReplyTo
    <3>1. PICK t : \E m \in sorter.rest, pc \in {"join", "references"} :
                    sorter' = [sorter EXCEPT !.cur = m, !.target = t, !.pc = pc]
      BY <2>1, LookedUp
    <3> QED
      BY <1>0, <3>1 DEF SorterRecord, SorterAt
  <2>2. CASE LookUpReferences
    <3>1. PICK t : \E pc \in {"join", "head"} :
                    sorter' = [sorter EXCEPT !.target = t, !.pc = pc]
      BY <1>0, <2>2, LookedUp
    <3> QED
      BY <1>0, <3>1 DEF SorterRecord, SorterAt
  <2> QED
    BY <1>6, <2>1, <2>2
<1>7. /\ SortingBegin => SorterAt("lock", sorter.rest, sorter.first)
      /\ LockThreadSorting => SorterAt("gate", sorter.rest, sorter.first)
      /\ WaitForCompleteData => SorterAt("lock", sorter.rest, sorter.first)
      /\ AutoUpdateMailSorting => SorterAt("list", sorter.rest, sorter.first)
      /\ JoinThread => /\ SorterAt("touch", sorter.rest, sorter.first)
                       /\ sorter'.cur = sorter.cur
  BY <1>1 DEF SortingBegin, LockThreadSorting, WaitForCompleteData, AutoUpdateMailSorting,
     JoinThread
<1>8. /\ CreateThread => SorterAt("claim", sorter.rest, sorter.first)
      /\ FinishSorting => SorterAt("rest", sorter.rest, FALSE)
      /\ TouchThread \/ MarkMailAsSorted \/ ClaimHead =>
            \E pc \in {"next", "finish"} :
                SorterAt(pc, sorter.rest \ {sorter.cur}, sorter.first)
  BY <1>2, <1>3, <1>4 DEF CreateThread, FinishSorting, TouchThread, MarkMailAsSorted,
     ClaimHead
<1> QED
  BY <1>5, <1>6, <1>7, <1>8

LEMMA SortingHandsOver ==
  ASSUME Types, SortInv, HandoverInv, SortingStage
  PROVE  HandoverInv'
<1> USE Names
<1>0. /\ UNCHANGED <<closed, extractor, notifier, cmd, pump>> /\ ListsInv /\ DbTypes
      /\ Sorting /\ SorterTypes /\ ExtractorTypes
  <2>1. UNCHANGED closed
    BY DEF SortingStage, Sorting, SortingStep, SortingBegin, LockThreadSorting,
       WaitForCompleteData, AutoUpdateMailSorting, ListMailsRequiringSorting,
       LookUpReplyTo, LookUpReferences, JoinThread, TouchThread, MarkMailAsSorted,
       CreateThread, ClaimHead, FinishSorting, stageVars, TakeUp, QueueWork
  <2> QED
    BY <2>1 DEF SortingStage, notifierVars, commandVars, Types, HandoverInv
<1>1. /\ SortingBegin => queued' = queued \ {"sorting"}
      /\ ListMailsRequiringSorting /\ ~(sorter.first /\ MailsRequiringSorting = {}) =>
            UNCHANGED queued
      /\ \/ ListMailsRequiringSorting /\ sorter.first /\ MailsRequiringSorting = {}
         \/ FinishSorting
         => QueueAll({"extraction"})
      /\ SortingBegin \/ ListMailsRequiringSorting \/ FinishSorting \/ UNCHANGED queued
  BY <1>0 DEF Sorting, SortingStep, SortingBegin, LockThreadSorting,
     WaitForCompleteData, AutoUpdateMailSorting, ListMailsRequiringSorting,
     LookUpReplyTo, LookUpReferences, JoinThread, TouchThread, MarkMailAsSorted,
     CreateThread, ClaimHead, FinishSorting, stageVars, TakeUp, QueueWork
<1>2. /\ \A s : s # "sorting" /\ s \in queued => s \in queued'
      /\ ~SortingBegin /\ "sorting" \in queued => "sorting" \in queued'
  BY <1>1 DEF QueueAll
<1>3. NotificationAsked => NotificationAsked'
  BY <1>0, <1>2 DEF NotificationAsked, MovesOn
<1>4. ASSUME closed = {}
      PROVE  NotificationLink'
  BY <1>0, <1>3, <1>4, SortingTables, NotificationLinkStays DEF HandoverInv
<1>5. ListsInv'
  <2>1. sorter'.pc = "touch" => mail'[sorter'.cur].sorted
    <3>1. CASE JoinThread
      <4>1. sorter'.cur = sorter.cur /\ sorter.cur \in Mails
        BY <1>0, <3>1, SorterMoves DEF JoinThread, At, SorterTypes, Stored
      <4>2. PICK m \in Mails : m = sorter.cur
        BY <4>1
      <4>3. PlacesMail(m)
        BY <1>0, <3>1, <4>2, MailEffects DEF JoinThread
      <4> QED
        BY <4>1, <4>2, <4>3 DEF PlacesMail
    <3>2. CASE ~JoinThread
      BY <1>0, <3>2, SorterMoves DEF SorterAt, Sorting, SortingStep
    <3> QED
      BY <3>1, <3>2
  <2>2. /\ \A m \in Mails : /\ mail'[m].stored => mail'[m].fetched
                            /\ mail'[m].extracted => mail'[m].sorted
                            /\ mail[m].sorted => mail'[m].sorted
        /\ extractor.todo \subseteq Mails
    BY <1>0, SortingTables DEF ExtractorTypes
  <2> QED
    BY <1>0, <2>1, <2>2 DEF ListsInv
<1>6. ASSUME closed = {}
      PROVE  SortingLink'
  <2>1. MailsRequiringSorting' \subseteq
          MailsRequiringSorting \ (IF sorter.pc \in {"join", "head", "claim"} /\ ~SameStatus
                                   THEN {sorter.cur} ELSE {})
    <3>1. CASE SameStatus
      BY <3>1, StatusStays
    <3>2. CASE ~SameStatus
      BY <1>0, <3>2, SortingTables DEF PlacesMail, MailsRequiringSorting, Stored
    <3> QED
      BY <3>1, <3>2
  <2>2. SortingAsked /\ ~SortingBegin => SortingAsked'
    BY <1>0, <1>2 DEF SortingAsked
  <2>3. \A m \in MailsRequiringSorting : SortingDue(m)
    BY <1>6 DEF HandoverInv, SortingLink
  <2>4. CASE sorter'.pc \in {"lock", "gate", "list"}
    BY <2>4 DEF SortingLink, SortingDue
  <2>5. CASE ListMailsRequiringSorting
    <3>1. MailsRequiringSorting' \subseteq MailsRequiringSorting
      BY <2>1
    <3> QED
      BY <2>5, <3>1, SorterMoves DEF SortingLink, SortingDue, SorterAt
  <2>6. CASE LookUpReplyTo \/ LookUpReferences \/ JoinThread \/ CreateThread
    <3>1. /\ sorter'.rest = sorter.rest /\ sorter'.pc # "rest"
          /\ sorter.pc \notin {"lock", "gate", "list"} /\ ~SortingBegin
      BY <2>6, SorterMoves DEF SorterAt, LookUpReplyTo, LookUpReferences, JoinThread,
         CreateThread, SortingBegin, At
    <3> QED
      BY <2>1, <2>2, <2>3, <3>1 DEF SortingLink, SortingDue
  <2>7. CASE TouchThread \/ MarkMailAsSorted \/ ClaimHead
    <3>1. /\ sorter'.rest = sorter.rest \ {sorter.cur} /\ sorter'.pc # "rest"
          /\ sorter.pc \in {"touch", "head", "claim"} /\ ~SortingBegin
      BY <2>7, SorterMoves DEF SorterAt, TouchThread, MarkMailAsSorted, ClaimHead,
         SortingBegin, At
    <3>2. sorter.cur \notin MailsRequiringSorting'
      <4>1. PICK m \in Mails : m = sorter.cur
        BY <1>0, <3>1 DEF SorterTypes, Stored
      <4>2. CASE TouchThread
        BY <4>1, <4>2 DEF TouchThread, At, ListsInv, HandoverInv, MailsRequiringSorting
      <4>3. CASE MarkMailAsSorted \/ ClaimHead
        <5>1. PlacesMail(m)
          BY <1>0, <4>1, <4>3, MailEffects DEF MarkMailAsSorted, ClaimHead
        <5> QED
          BY <4>1, <5>1 DEF PlacesMail, MailsRequiringSorting
      <4> QED
        BY <2>7, <4>2, <4>3
    <3> QED
      BY <2>1, <2>2, <2>3, <3>1, <3>2 DEF SortingLink, SortingDue
  <2>8. CASE FinishSorting
    <3>1. /\ sorter.rest = {} /\ sorter.pc = "finish" /\ ~sorter'.first /\ ~SortingBegin
      BY <2>8, SorterMoves DEF SorterAt, FinishSorting, SortingBegin, At, SortInv, SorterInv
    <3> QED
      BY <2>1, <2>2, <2>3, <3>1 DEF SortingLink, SortingDue
  <2>9. CASE SortingBegin \/ LockThreadSorting \/ WaitForCompleteData
             \/ AutoUpdateMailSorting
    BY <2>4, <2>9, SorterMoves DEF SorterAt
  <2> QED
    BY <1>0, <2>5, <2>6, <2>7, <2>8, <2>9 DEF Sorting, SortingStep
<1>7. ASSUME closed = {}
      PROVE  ExtractionLink'
  <2>1. ExtractionAsked' => ExtractionLink'
    BY DEF ExtractionLink, ExtractionDue
  <2>2. CASE FinishSorting \/ (ListMailsRequiringSorting /\ sorter.first
                                                    /\ MailsRequiringSorting = {})
    BY <1>1, <1>7, <2>1, <2>2 DEF QueueAll, ExtractionAsked
  <2>3. CASE \/ LookUpReplyTo \/ LookUpReferences \/ JoinThread \/ TouchThread
             \/ MarkMailAsSorted \/ CreateThread \/ ClaimHead
             \/ ListMailsRequiringSorting /\ MailsRequiringSorting # {}
    <3>1. SorterWorks'
      BY <2>3, SorterMoves DEF SorterAt, SorterWorks
    <3> QED
      BY <2>1, <3>1 DEF ExtractionAsked
  <2>4. CASE \/ SortingBegin \/ LockThreadSorting \/ WaitForCompleteData
             \/ AutoUpdateMailSorting
             \/ ListMailsRequiringSorting /\ ~sorter.first /\ MailsRequiringSorting = {}
    <3>1. sorter.pc \in {"rest", "lock", "gate", "list"}
      BY <2>4 DEF SortingBegin, LockThreadSorting, WaitForCompleteData,
         AutoUpdateMailSorting, ListMailsRequiringSorting, At
    <3>2. sorter.first => sorter'.first
      BY <2>4, SorterMoves DEF SorterAt
    <3>3. ExtractionAsked => ExtractionAsked'
      BY <1>2, <3>1, <3>2 DEF ExtractionAsked, SorterWorks
    <3>4. SameStatus
      BY <1>0, <3>1, SortingTables
    <3> QED
      BY <1>0, <1>7, <3>3, <3>4, StatusStays, ExtractionLinkStays DEF HandoverInv
  <2> QED
    BY <1>0, <2>2, <2>3, <2>4 DEF Sorting, SortingStep
<1> QED
  BY <1>0, <1>4, <1>5, <1>6, <1>7 DEF HandoverInv

LEMMA ExtractionHandsOver ==
  ASSUME Types, SortInv, HandoverInv, ExtractionStage
  PROVE  HandoverInv'
<1> USE Names
<1>0. /\ UNCHANGED <<closed, sorter, notifier, cmd, pump, thread>> /\ ListsInv /\ DbTypes
      /\ Extraction /\ Threads' = Threads
      /\ extractor \in [pc : ExtractorSteps, todo : SUBSET Mails, first : BOOLEAN]
  <2>1. UNCHANGED <<closed, thread>>
    BY DEF ExtractionStage, Extraction, ExtractionStep, ExtractionFails, ExtractionBegin,
       ListMailsRequiringMessageExtraction, PerformMessageExtraction, FinishExtraction,
       CancelBatch, stageVars, dbVars, TakeUp, QueueWork
  <2> QED
    BY <2>1 DEF ExtractionStage, sortingVars, notifierVars, commandVars, Types,
       ExtractorTypes, HandoverInv, Threads
<1>1. \A s : s # "extraction" /\ s \in queued => s \in queued'
  BY <1>0 DEF Extraction, ExtractionStep, ExtractionFails, ExtractionBegin,
     ListMailsRequiringMessageExtraction, PerformMessageExtraction, FinishExtraction,
     CancelBatch, stageVars, TakeUp, QueueWork, QueueAll
<1>2. ASSUME NEW n \in Mails, ExtractsMail(n), mail[n].sorted
      PROVE  /\ \A m \in Mails : /\ mail'[m].stored => mail'[m].fetched
                                 /\ mail'[m].extracted => mail'[m].sorted
                                 /\ mail'[m].sorted = mail[m].sorted
             /\ MailsRequiringSorting' \subseteq MailsRequiringSorting
             /\ MailsRequiringMessageExtraction' \subseteq
                    MailsRequiringMessageExtraction \ {n}
  <2>1. \A m \in Mails : /\ mail'[m].stored = mail[m].stored
                         /\ mail'[m].fetched = mail[m].fetched
                         /\ mail'[m].sorted = mail[m].sorted
                         /\ m = n \/ mail'[m].extracted = mail[m].extracted
                         /\ m = n => mail'[m].extracted /\ mail'[m].sorted
    BY <1>2 DEF ExtractsMail
  <2> QED
    BY <1>0, <2>1 DEF ListsInv, MailsRequiringSorting, MailsRequiringMessageExtraction,
       Stored
<1>3. ExtractionAsked' => ExtractionLink'
  BY DEF ExtractionLink, ExtractionDue
\* The stage goes on with the mails of todo.
<1>4. ASSUME NEW pc, NEW todo \in SUBSET Mails,
             extractor'.pc = pc /\ extractor'.todo = todo, UNCHANGED mail,
             pc # "batches" => todo = {}, \A m \in todo : mail[m].sorted,
             closed = {} => ExtractionLink' /\ (NotificationAsked => NotificationAsked')
      PROVE  HandoverInv'
  <2>1. ListsInv'
    BY <1>0, <1>4 DEF ListsInv
  <2>2. SameStatus /\ SameMailIds /\ SameThreads
    BY <1>0, <1>4, Statuses, SameTables DEF SameMailIds
  <2>3. ASSUME closed = {}
        PROVE  SortingLink' /\ NotificationLink'
    <3>1. SortingLink'
      BY <1>0, <1>1, <2>2, <2>3, StatusStays, SortingLinkStays DEF HandoverInv
    <3>2. NotificationLink'
      BY <1>0, <1>4, <2>2, <2>3, StatusStays, SameTables, NotificationLinkStays
         DEF HandoverInv
    <3> QED
      BY <3>1, <3>2
  <2> QED
    BY <1>0, <1>4, <2>1, <2>3 DEF HandoverInv
<1>5. CASE ExtractionBegin
  <2>1. /\ extractor'.pc = "list" /\ extractor'.todo = extractor.todo
        /\ extractor'.first = extractor.first /\ extractor.pc = "rest" /\ UNCHANGED mail
    BY <1>0, <1>5 DEF ExtractionBegin, dbVars
  <2>2. NotificationAsked => NotificationAsked'
    BY <1>0, <1>1, <2>1 DEF NotificationAsked, MovesOn
  <2>3. ExtractionLink'
    BY <2>1 DEF ExtractionLink, ExtractionDue
  <2> QED
    BY <1>0, <1>4, <2>1, <2>2, <2>3 DEF ListsInv
<1>6. CASE ListMailsRequiringMessageExtraction
  <2>1. CASE MailsRequiringMessageExtraction # {} /\ ~ExtractionCancelled
    <3>1. /\ extractor'.pc = "batches" /\ UNCHANGED mail
          /\ extractor'.todo = MailsRequiringMessageExtraction
      BY <1>0, <1>6, <2>1 DEF ListMailsRequiringMessageExtraction, dbVars
    <3>2. ExtractionLink' /\ NotificationAsked'
      <4>1. SameStatus
        BY <1>0, <3>1, Statuses
      <4>2. MailsRequiringMessageExtraction' = MailsRequiringMessageExtraction
        BY <4>1, StatusStays
      <4> QED
        BY <3>1, <4>2 DEF ExtractionLink, ExtractionDue, NotificationAsked
    <3>3. /\ MailsRequiringMessageExtraction \in SUBSET Mails
          /\ \A m \in MailsRequiringMessageExtraction : mail[m].sorted
      BY DEF MailsRequiringMessageExtraction, Stored
    <3> QED
      BY <1>4, <3>1, <3>2, <3>3
  <2>2. CASE MailsRequiringMessageExtraction = {} \/ ExtractionCancelled
    <3>1. /\ extractor'.pc = "rest" /\ extractor'.todo = extractor.todo /\ UNCHANGED mail
          /\ ~extractor'.first /\ extractor.pc = "list"
          /\ extractor.first => QueueAll({"notification"})
      BY <1>0, <1>6, <2>2 DEF ListMailsRequiringMessageExtraction, dbVars, QueueWork
    <3>2. ASSUME closed = {}
          PROVE  ExtractionLink' /\ (NotificationAsked => NotificationAsked')
      <4>1. MailsRequiringMessageExtraction = {}
        BY <2>2, <3>2 DEF ExtractionCancelled
      <4>2. MailsRequiringMessageExtraction' = {}
        BY <1>0, <3>1, <4>1, Statuses, StatusStays
      <4>3. extractor.first => "notification" \in queued'
        BY <3>1, <3>2 DEF QueueAll
      <4> QED
        BY <1>0, <1>1, <3>1, <4>2, <4>3 DEF ExtractionLink, NotificationAsked, MovesOn
    <3> QED
      BY <1>0, <1>4, <3>1, <3>2 DEF ListsInv
  <2> QED
    BY <2>1, <2>2
<1>7. ASSUME NEW m \in Mails, CancelBatch(m)
      PROVE  HandoverInv'
  <2>1. /\ extractor'.pc = "batches" /\ extractor'.todo = extractor.todo \ Batch(m)
        /\ UNCHANGED mail
    BY <1>0, <1>7 DEF CancelBatch, dbVars
  <2>2. closed = {} => "extraction" \in queued'
    BY <1>7 DEF CancelBatch, QueueWork, QueueAll
  <2>3. closed = {} => ExtractionLink' /\ NotificationAsked'
    BY <1>3, <2>1, <2>2 DEF ExtractionAsked, NotificationAsked
  <2> QED
    BY <1>0, <1>4, <2>1, <2>3 DEF ListsInv
<1>8. CASE FinishExtraction
  <2>1. /\ extractor'.pc = "rest" /\ extractor'.todo = {} /\ ~extractor'.first
        /\ UNCHANGED mail /\ extractor.pc = "batches" /\ extractor.todo = {}
        /\ QueueAll({"notification"})
    BY <1>0, <1>8 DEF FinishExtraction, dbVars, QueueWork
  <2>2. ASSUME closed = {}
        PROVE  ExtractionLink' /\ NotificationAsked'
    <3>1. "notification" \in queued' /\ queued \subseteq queued'
      BY <2>1, <2>2 DEF QueueAll
    <3>2. MailsRequiringMessageExtraction' = MailsRequiringMessageExtraction
      BY <1>0, <2>1, Statuses, StatusStays
    <3>3. ExtractionAsked => ExtractionAsked'
      BY <1>0, <3>1 DEF ExtractionAsked, SorterWorks
    <3>4. \A n \in MailsRequiringMessageExtraction : ExtractionDue(n)
      BY <2>2 DEF HandoverInv, ExtractionLink
    <3> QED
      BY <2>1, <3>1, <3>2, <3>3, <3>4 DEF ExtractionLink, ExtractionDue, NotificationAsked
  <2> QED
    BY <1>0, <1>4, <2>1, <2>2
<1>9. ASSUME NEW m \in Mails, PerformMessageExtraction(m)
      PROVE  HandoverInv'
  <2>1. /\ extractor.pc = "batches" /\ extractor'.pc = "batches" /\ m \in extractor.todo
        /\ extractor'.todo = extractor.todo \ {m} /\ UNCHANGED queued
        /\ extractor'.first = extractor.first
    BY <1>0, <1>9 DEF PerformMessageExtraction, stageVars
  <2>2. CASE ExtractionCancelled
    <3>1. UNCHANGED mail /\ closed # {}
      BY <1>9, <2>2 DEF PerformMessageExtraction, ExtractionCancelled
    <3> QED
      BY <1>0, <1>4, <2>1, <3>1 DEF ListsInv
  <2>3. CASE ~ExtractionCancelled
    <3>1. ExtractsMail(m) /\ mail[m].sorted
      BY <1>0, <1>9, <2>1, <2>3, MailEffects DEF PerformMessageExtraction, ListsInv
    <3>2. ListsInv'
      <4>1. sorter.pc = "touch" => sorter.cur \in Mails
        BY DEF Types, SorterTypes, Stored
      <4> QED
        BY <1>0, <1>2, <2>1, <3>1, <4>1 DEF ListsInv
    <3>3. ASSUME closed = {}
          PROVE  SortingLink' /\ ExtractionLink' /\ NotificationLink'
      <4>1. SortingLink'
        BY <1>0, <1>1, <1>2, <3>1, <3>3, SortingLinkStays DEF HandoverInv
      <4>2. ExtractionAsked => ExtractionAsked'
        BY <1>0, <2>1 DEF ExtractionAsked, SorterWorks
      <4>3. \A n \in MailsRequiringMessageExtraction : ExtractionDue(n)
        BY <3>3 DEF HandoverInv, ExtractionLink
      <4>4. ExtractionLink'
        BY <1>2, <2>1, <3>1, <4>2, <4>3 DEF ExtractionLink, ExtractionDue
      <4>5. NotificationLink'
        BY <2>1, NotificationLinkAsked DEF NotificationAsked
      <4> QED
        BY <4>1, <4>4, <4>5
    <3> QED
      BY <1>0, <3>2, <3>3 DEF HandoverInv
  <2> QED
    BY <2>2, <2>3
<1> QED
  BY <1>0, <1>5, <1>6, <1>7, <1>8, <1>9 DEF Extraction, ExtractionStep, ExtractionFails

\* The run of the notification stage that is under way does what has to be done.
Awaiting ==
    /\ \A t \in MatrixReadyThreads : HeadAwaited(t)
    /\ \A m \in MatrixReadyMails : MailAwaited(m) \/ HeldBack(mail[m].thread)
    /\ notifier.pc = "check" => \A row \in notifier.mails :
        row.thread \in notifier.unchecked \cup notifier.valid \/ HeldBack(row.thread)

LEMMA AwaitingLinks ==
  /\ NotificationLink => NotificationAsked \/ Awaiting
  /\ Awaiting' => NotificationLink'
BY DEF NotificationLink, Awaiting

\* What the notification stage leaves as it is.
LEMMA NotifierLeaves ==
  ASSUME Types, SortInv, NotificationStage \/ MistakeHead \/ LoseAnswer
  PROVE  /\ UNCHANGED <<closed, sorter, extractor, cmd, pump>> /\ SameStatus
         /\ \A s : s # "notification" /\ s \in queued => s \in queued'
         /\ NotificationBegin \/ ("notification" \in queued => "notification" \in queued')
<1>0. DbTypes /\ (notifier.pc = "record mail" => notifier.mail \in Mails)
  BY DEF Types, NotifierTypes
<1>1. UNCHANGED <<sorter, extractor, cmd, pump>>
  BY DEF NotificationStage, MistakeHead, LoseAnswer, sortingVars, commandVars
<1>2. \/ UNCHANGED mail
      \/ UpdateMailMatrixId(notifier.mail, notifier.id) /\ notifier.pc = "record mail"
      \/ \E row \in notifier.gone : RemoveMailMatrixIdsByThread(row.thread)
  BY DEF NotificationStage, MistakeHead, LoseAnswer, Notification, NotificationStep,
     NotificationFails, NotificationBegin, ListMatrixReadyThreads, PostHead, RecordHead,
     LinkRecreation, LinkFails, ListMatrixReadyMails, CheckThread, SendMail, RecordMail,
     FindHeadRedacted, MistakeHeadForRedacted, ForgetHead, ForgetMails, ForgettingFails,
     SendFails, AnswerLost, FinishNotification, dbVars, NAt
<1>3. SameStatus
  BY <1>0, <1>2, Statuses
<1>4. CallAgain => UNCHANGED <<queued, closed>>
  BY DEF CallAgain, stageVars
<1>5. UNCHANGED closed /\ (UNCHANGED queued \/ FinishNotification \/ NotificationBegin)
  BY <1>4 DEF NotificationStage, MistakeHead, LoseAnswer, Notification, NotificationStep,
     NotificationFails, NotificationBegin, ListMatrixReadyThreads, PostHead, RecordHead,
     LinkRecreation, LinkFails, ListMatrixReadyMails, CheckThread, SendMail, RecordMail,
     FindHeadRedacted, MistakeHeadForRedacted, ForgetHead, ForgetMails, ForgettingFails,
     SendFails, AnswerLost, FinishNotification, TakeUp, stageVars
<1>6. /\ FinishNotification => queued \subseteq queued'
      /\ NotificationBegin => queued' = queued \ {"notification"}
  BY DEF FinishNotification, QueueAll, NotificationBegin, TakeUp
<1> QED
  BY <1>1, <1>3, <1>5, <1>6

LEMMA NotifierHandsOver ==
  ASSUME Types, SortInv, HomeInv, HandoverInv,
         NotificationStage \/ MistakeHead \/ LoseAnswer
  PROVE  HandoverInv'
<1> USE Names
<1>0. /\ UNCHANGED <<closed, sorter, extractor, cmd, pump>> /\ SameStatus /\ ListsInv
      /\ DbTypes /\ NotifierTypes /\ notifier \in NotifierRecord
      /\ Cancelled => closed # {}
      /\ \A row \in notifier.mails : row \in ReplyRow /\ row.thread = mail[row.id].thread
      /\ notifier.pc \notin {"post", "record head", "link"} => notifier.threads = {}
  BY NotifierLeaves DEF Types, NotifierTypes, NotifierRecord, HandoverInv, ListsInv, HomeInv,
     RowHome, Cancelled
<1>1. SortingLink /\ ExtractionLink => SortingLink' /\ ExtractionLink'
  BY <1>0, NotifierLeaves, StatusStays, SortingLinkStays, ExtractionLinkStays
     DEF ExtractionAsked, SorterWorks
<1>2. \/ NotificationBegin \/ (NotificationAsked => NotificationAsked')
  BY <1>0, NotifierLeaves DEF NotificationAsked, MovesOn
<1>3. ASSUME notifier'.pc \notin {"post", "record head", "link"} => notifier'.threads = {},
             notifier'.pc = "rest" => notifier'.mails = {},
             closed = {} => \/ NotificationLink'
                            \/ ~NotificationBegin /\ (Awaiting => Awaiting')
      PROVE  HandoverInv'
  <2>1. ListsInv'
    <3>1. extractor.todo \subseteq Mails /\ (sorter.pc = "touch" => sorter.cur \in Mails)
      BY DEF Types, ExtractorTypes, SorterTypes, Stored
    <3> QED
      BY <1>0, <1>3, <3>1 DEF ListsInv, SameStatus
  <2>2. ASSUME closed = {}, ~NotificationLink'
        PROVE  FALSE
    <3>1. ~NotificationBegin /\ (Awaiting => Awaiting')
      BY <1>3, <2>2
    <3>2. CASE Awaiting
      BY <2>2, <3>1, <3>2, AwaitingLinks
    <3>3. CASE NotificationAsked
      BY <1>2, <2>2, <3>1, <3>3, NotificationLinkAsked
    <3> QED
      BY <2>2, <3>2, <3>3, AwaitingLinks DEF HandoverInv
  <2> QED
    BY <1>0, <1>1, <2>1, <2>2 DEF HandoverInv
<1>4. ASSUME UNCHANGED <<mail, thread>>
      PROVE  /\ MatrixReadyThreads' = MatrixReadyThreads
             /\ MatrixReadyMails' = MatrixReadyMails
  BY <1>0, <1>4, SameTables DEF SameMailIds
<1>5. \A t : HeldBack(t)' <=> HeldBack(t)
  BY <1>0, StatusStays
\* The stage starts to list what is to be posted.
<1>6. ASSUME notifier'.pc \in {"threads", "forget mails"}, notifier'.threads = {}
      PROVE  HandoverInv'
  BY <1>3, <1>6, NotificationLinkAsked
<1>7. ASSUME CallAgain, notifier.threads = {}
      PROVE  HandoverInv'
  <2>1. CASE Cancelled
    <3>1. notifier' = IdleNotifier
      BY <1>7, <2>1 DEF CallAgain
    <3>2. notifier'.pc = "rest" /\ notifier'.mails = {} /\ notifier'.threads = {}
      BY <3>1 DEF IdleNotifier
    <3> QED
      BY <1>0, <1>3, <2>1, <3>2
  <2>2. CASE ~Cancelled
    <3>1. notifier'.pc = "threads" /\ notifier'.threads = {}
      BY <1>0, <1>7, <2>2 DEF CallAgain, NotifierRecord
    <3> QED
      BY <1>6, <3>1
  <2> QED
    BY <2>1, <2>2
<1>8. CASE NotificationBegin
  <2>1. notifier'.pc = "threads" /\ notifier'.threads = {}
    BY <1>0, <1>8 DEF NotificationBegin, NAt, NotifierRecord
  <2> QED
    BY <1>6, <2>1
<1>9. CASE SendFails \/ LoseAnswer \/ ForgetMails \/ ForgettingFails
  <2>1. CallAgain /\ notifier.pc \in {"send", "forget head", "forget mails"}
    BY <1>9 DEF SendFails, LoseAnswer, AnswerLost, ForgetMails, ForgettingFails, NAt
  <2> QED
    BY <1>0, <1>7, <2>1
<1>10. CASE ForgetHead
  <2>1. notifier'.pc = "forget mails" /\ notifier'.threads = {}
    BY <1>0, <1>10 DEF ForgetHead, NAt, NotifierRecord
  <2> QED
    BY <1>6, <2>1
<1>11. CASE ListMatrixReadyThreads
  <2> DEFINE listed == IF Cancelled THEN {} ELSE MatrixReadyThreads
             rows == {[id |-> t, first |-> thread[t].first, room |-> thread[t].room] :
                        t \in listed}
  <2>1. /\ UNCHANGED <<mail, thread>>
        /\ notifier'.pc = IF listed = {} THEN "mails" ELSE "post"
        /\ notifier'.threads = rows
    BY <1>0, <1>11 DEF ListMatrixReadyThreads, dbVars, NotifierRecord
  <2>2. /\ listed = {} => rows = {}
        /\ \A t \in listed : \E row \in rows : row.id = t
    <3>1. ASSUME NEW t \in listed
          PROVE  \E row \in rows : row.id = t
      <4> DEFINE row == [id |-> t, first |-> thread[t].first, room |-> thread[t].room]
      <4>1. row \in rows /\ row.id = t
        OBVIOUS
      <4> QED
        BY <4>1
    <3> QED
      BY <3>1
  <2>3. closed = {} => listed = MatrixReadyThreads
    BY <1>0
  <2> HIDE DEF rows, listed
  <2>4. closed = {} => Awaiting'
    BY <1>4, <2>1, <2>2, <2>3 DEF Awaiting, HeadAwaited, MailAwaited, Relisting
  <2>5. NAt("threads") /\ ~NotificationBegin
    BY <1>11 DEF ListMatrixReadyThreads, NotificationBegin, NAt
  <2> QED
    BY <1>3, <2>1, <2>2, <2>4, <2>5
<1>12. CASE PostHead
  <2>1. PICK row \in notifier.threads :
            notifier' = [notifier EXCEPT !.pc = "record head", !.threads = @ \ {row},
                                         !.head = row.id, !.id = Len(timeline) + 1]
    BY <1>12 DEF PostHead
  <2>2. /\ UNCHANGED <<mail, thread>> /\ notifier.pc = "post"
        /\ notifier'.pc = "record head" /\ notifier'.threads = notifier.threads \ {row}
        /\ notifier'.head = row.id
    BY <1>0, <1>12, <2>1 DEF PostHead, dbVars, NAt, NotifierRecord
  <2>3. Awaiting => Awaiting'
    BY <1>4, <2>1, <2>2 DEF Awaiting, HeadAwaited, MailAwaited, Relisting
  <2> QED
    BY <1>3, <2>2, <2>3 DEF NotificationBegin, NAt
<1>13. CASE RecordHead
  <2>1. /\ UNCHANGED mail /\ notifier.pc = "record head" /\ notifier'.pc = "link"
        /\ notifier'.threads = notifier.threads
        /\ Cancelled \/ UpdateThreadMatrixIds(notifier.head, timeline[notifier.id].room,
                                              notifier.id)
    BY <1>0, <1>13 DEF RecordHead, NAt, NotifierRecord
  <2>2. ASSUME closed = {}
        PROVE  MatrixReadyThreads' \subseteq MatrixReadyThreads \ {notifier.head}
    <3>1. PICK h, n : h = notifier.head /\ n = notifier.id
      OBVIOUS
    <3>2. h \in Threads /\ n # None
      BY <1>0, <2>1, <3>1, EventsAreNumbers DEF Types, ChatTypes, NotifierTypes
    <3>3. UpdateThreadMatrixIds(h, timeline[n].room, n)
      BY <1>0, <2>1, <2>2, <3>1
    <3>4. /\ Threads' = Threads /\ thread'[h].matrix = n
          /\ \A u \in Threads \ {h} : thread'[u] = thread[u]
      BY <1>0, <3>2, <3>3, ThreadIds
    <3> QED
      BY <2>1, <3>1, <3>2, <3>4 DEF MatrixReadyThreads
  <2>3. closed = {} /\ Awaiting => Awaiting'
    BY <2>1, <2>2 DEF Awaiting, HeadAwaited, MailAwaited, Relisting
  <2> QED
    BY <1>3, <2>1, <2>3 DEF NotificationBegin, NAt
<1>14. CASE LinkRecreation \/ LinkFails
  <2>1. /\ UNCHANGED <<mail, thread>> /\ notifier.pc = "link" /\ notifier'.pc = "post"
        /\ notifier'.threads = notifier.threads
    BY <1>0, <1>14 DEF LinkRecreation, LinkFails, dbVars, NAt, NotifierRecord
  <2>2. Awaiting => Awaiting'
    BY <1>4, <2>1 DEF Awaiting, HeadAwaited, MailAwaited, Relisting
  <2> QED
    BY <1>3, <2>1, <2>2 DEF NotificationBegin, NAt
<1>15. CASE ListMatrixReadyMails
  <2> DEFINE listed == IF Cancelled THEN {} ELSE MatrixReadyMails
             rows == {[id |-> m, thread |-> mail[m].thread,
                       root |-> thread[mail[m].thread].matrix,
                       room |-> thread[mail[m].thread].room] : m \in listed}
             unchecked == {mail[m].thread : m \in listed}
  <2>1. /\ UNCHANGED <<mail, thread>> /\ notifier.pc \in {"mails", "post"}
        /\ notifier.threads = {}
        /\ notifier'.pc = IF listed = {} THEN "send" ELSE "check"
        /\ notifier'.threads = notifier.threads
        /\ notifier'.mails = rows /\ notifier'.unchecked = unchecked
    BY <1>0, <1>15 DEF ListMatrixReadyMails, dbVars, NAt, NotifierRecord
  <2>2. /\ \A m \in listed : \E row \in rows : row.id = m
        /\ \A row \in rows : row.thread \in unchecked
    <3>1. ASSUME NEW m \in listed
          PROVE  \E row \in rows : row.id = m
      <4> DEFINE row == [id |-> m, thread |-> mail[m].thread,
                         root |-> thread[mail[m].thread].matrix,
                         room |-> thread[mail[m].thread].room]
      <4>1. row \in rows /\ row.id = m
        OBVIOUS
      <4> QED
        BY <4>1
    <3>2. \A row \in rows : row.thread \in unchecked
      OBVIOUS
    <3> QED
      BY <3>1, <3>2
  <2>3. closed = {} => listed = MatrixReadyMails
    BY <1>0
  <2> HIDE DEF rows, listed, unchecked
  <2>4. closed = {} /\ Awaiting => Awaiting'
    BY <1>4, <2>1, <2>2, <2>3 DEF Awaiting, HeadAwaited, MailAwaited
  <2> QED
    BY <1>3, <2>1, <2>4 DEF NotificationBegin, NAt
<1>16. ASSUME NEW t \in Threads, CheckThread(t)
       PROVE  HandoverInv'
  <2> DEFINE valid == notifier.valid \cup
                        {u \in {t} : Cancelled \/ \A m \in MailsByThread(t) : mail[m].extracted}
             left == notifier.unchecked \ {t}
             rows == {row \in notifier.mails : row.thread \in valid}
  <2>1. /\ UNCHANGED <<mail, thread>> /\ notifier.pc = "check"
        /\ notifier'.threads = notifier.threads /\ notifier'.unchecked = left
        /\ left # {} => /\ notifier'.pc = "check" /\ notifier'.mails = notifier.mails
                        /\ notifier'.valid = valid
        /\ left = {} => notifier'.pc = "send" /\ notifier'.mails = rows
    BY <1>0, <1>16 DEF CheckThread, dbVars, NAt, NotifierRecord
  <2>2. \A row \in notifier.mails :
            row.thread \in notifier.unchecked \cup notifier.valid
                => row.thread \in left \cup valid \/ HeldBack(row.thread)
    BY DEF HeldBack
  <2>3. \A m \in MatrixReadyMails : \A row \in notifier.mails :
            row.id = m => row.thread = mail[m].thread
    BY <1>0
  <2> HIDE DEF valid, left
  <2>4. ASSUME Awaiting
        PROVE  Awaiting'
    <3>1. notifier.threads = {} /\ MatrixReadyThreads = {}
      BY <1>0, <2>1, <2>4 DEF Awaiting, HeadAwaited
    <3>2. \A row \in notifier.mails : row.thread \in left \cup valid \/ HeldBack(row.thread)
      BY <2>1, <2>2, <2>4 DEF Awaiting
    <3>3. \A m \in MatrixReadyMails :
            (\E row \in notifier.mails : row.id = m) \/ HeldBack(mail[m].thread)
      BY <2>1, <2>4 DEF Awaiting, MailAwaited, Relisting
    <3>4. CASE left # {}
      BY <1>4, <1>5, <2>1, <3>1, <3>2, <3>3, <3>4 DEF Awaiting, MailAwaited
    <3>5. CASE left = {}
      <4>1. \A m \in MatrixReadyMails :
                (\E row \in rows : row.id = m) \/ HeldBack(mail[m].thread)
        BY <2>3, <3>2, <3>3, <3>5
      <4> QED
        BY <1>4, <1>5, <2>1, <3>1, <3>5, <4>1 DEF Awaiting, MailAwaited
    <3> QED
      BY <3>4, <3>5
  <2> QED
    BY <1>0, <1>3, <2>1, <2>4 DEF NotificationBegin, NAt
<1>17. CASE SendMail
  <2>1. PICK row \in notifier.mails :
            notifier' = [notifier EXCEPT !.pc = "record mail", !.mails = @ \ {row},
                                         !.mail = row.id, !.id = Len(timeline) + 1]
    BY <1>17 DEF SendMail, NextMails
  <2>2. /\ UNCHANGED <<mail, thread>> /\ notifier.pc = "send" /\ notifier'.mail = row.id
        /\ notifier'.pc = "record mail" /\ notifier'.mails = notifier.mails \ {row}
        /\ notifier'.threads = notifier.threads
    BY <1>0, <1>17, <2>1 DEF SendMail, dbVars, NAt, NotifierRecord
  <2>3. Awaiting => Awaiting'
    BY <1>0, <1>4, <1>5, <2>1, <2>2 DEF Awaiting, HeadAwaited, MailAwaited, Relisting
  <2> QED
    BY <1>0, <1>3, <2>2, <2>3 DEF NotificationBegin, NAt
<1>18. CASE RecordMail
  <2>1. /\ UNCHANGED thread /\ notifier.pc = "record mail" /\ notifier'.pc = "send"
        /\ notifier'.threads = notifier.threads /\ notifier'.mails = notifier.mails
        /\ Cancelled \/ UpdateMailMatrixId(notifier.mail, notifier.id)
    BY <1>0, <1>18 DEF RecordMail, NAt, NotifierRecord
  <2>2. ASSUME closed = {}
        PROVE  /\ MatrixReadyThreads' = MatrixReadyThreads
               /\ MatrixReadyMails' \subseteq MatrixReadyMails \ {notifier.mail}
    <3>1. PICK n, id : n = notifier.mail /\ id = notifier.id
      OBVIOUS
    <3>2. n \in Mails /\ id # None
      BY <1>0, <2>1, <3>1, EventsAreNumbers DEF Types, ChatTypes, NotifierTypes
    <3>3. UpdateMailMatrixId(n, id)
      BY <1>0, <2>1, <2>2, <3>1
    <3>4. mail'[n].matrix = id /\ \A m \in Mails \ {n} : mail'[m].matrix = mail[m].matrix
      BY <1>0, <3>2, <3>3, MailIds
    <3>5. Stored' = Stored /\ Threads' = Threads /\ \A t \in Threads : thread[t].first \in Mails
      BY <1>0, <2>1, StatusStays DEF Threads, DbTypes, Stored
    <3>6. MatrixReadyThreads' = MatrixReadyThreads
      BY <1>0, <2>1, <3>5 DEF MatrixReadyThreads, SameStatus
    <3>7. MatrixReadyMails' \subseteq MatrixReadyMails \ {n}
      BY <1>0, <2>1, <3>2, <3>4, <3>5 DEF MatrixReadyMails, SameStatus, Stored
    <3> QED
      BY <3>1, <3>6, <3>7
  <2>3. \A m \in MatrixReadyMails : mail'[m].thread = mail[m].thread
    BY <1>0 DEF SameStatus, MatrixReadyMails, Stored
  <2>4. closed = {} /\ Awaiting => Awaiting'
    BY <1>0, <1>5, <2>1, <2>2, <2>3 DEF Awaiting, HeadAwaited, MailAwaited, Relisting
  <2> QED
    BY <1>0, <1>3, <2>1, <2>4 DEF NotificationBegin, NAt
<1>19. CASE FindHeadRedacted \/ MistakeHead
  <2>1. /\ UNCHANGED <<mail, thread>> /\ notifier.pc = "send"
        /\ notifier'.pc = "forget head" /\ notifier'.threads = notifier.threads
    BY <1>0, <1>19 DEF FindHeadRedacted, MistakeHead, MistakeHeadForRedacted, dbVars, NAt,
       NotifierRecord
  <2>2. Awaiting => Awaiting'
    BY <1>4, <2>1 DEF Awaiting, HeadAwaited, MailAwaited, Relisting
  <2> QED
    BY <1>0, <1>3, <2>1, <2>2 DEF NotificationBegin, NAt
<1>20. CASE FinishNotification
  <2>1. /\ UNCHANGED <<mail, thread>> /\ notifier.pc = "send" /\ notifier.mails = {}
        /\ notifier' = IdleNotifier
    BY <1>20 DEF FinishNotification, dbVars, NAt
  <2>2. notifier'.pc = "rest" /\ notifier'.mails = {} /\ notifier'.threads = {}
    BY <2>1 DEF IdleNotifier
  <2>3. Awaiting => Awaiting'
    BY <1>0, <1>4, <1>5, <2>1, <2>2 DEF Awaiting, HeadAwaited, MailAwaited, Relisting
  <2> QED
    BY <1>3, <2>1, <2>2, <2>3 DEF NotificationBegin, NAt
<1> QED
  BY <1>8, <1>9, <1>10, <1>11, <1>12, <1>13, <1>14, <1>15, <1>16, <1>17, <1>18, <1>19, <1>20
     DEF NotificationStage, Notification, NotificationStep, NotificationFails

LEMMA AsideHandsOver ==
  ASSUME Types, HandoverInv, SameStatus,
         UNCHANGED <<sorter, extractor, notifier, pump, closed>>,
         \A s \in StageNames : s \in queued => s \in queued',
         closed = {} => NotificationLink'
  PROVE  HandoverInv'
<1>1. extractor.todo \subseteq Mails /\ (sorter.pc = "touch" => sorter.cur \in Mails)
  BY DEF Types, ExtractorTypes, SorterTypes, Stored
<1>2. ListsInv'
  BY <1>1 DEF HandoverInv, ListsInv, SameStatus
<1>3. closed = {} => SortingLink' /\ ExtractionLink'
  BY StatusStays, SortingLinkStays, ExtractionLinkStays
     DEF HandoverInv, ExtractionAsked, SorterWorks, StageNames
<1> QED
  BY <1>2, <1>3 DEF HandoverInv

\* Steps that write nothing that a stage reads.
LEMMA SameTablesHandOver ==
  ASSUME Types, HandoverInv, UNCHANGED <<mail, sorter, extractor, notifier, pump, closed>>,
         SameThreads, MovesOn => MovesOn', \A s \in StageNames : s \in queued => s \in queued'
  PROVE  HandoverInv'
<1>1. SameStatus /\ SameMailIds /\ DbTypes
  BY Statuses DEF Types, SameMailIds
<1>2. /\ MatrixReadyThreads' = MatrixReadyThreads /\ MatrixReadyMails' = MatrixReadyMails
      /\ \A t : HeldBack(t)' <=> HeldBack(t)
  BY <1>1, SameTables, StatusStays
<1>3. closed = {} => NotificationLink'
  BY <1>2, NotificationLinkStays DEF HandoverInv, NotificationAsked, StageNames
<1> QED
  BY <1>1, <1>3, AsideHandsOver

LEMMA BystandersHandOver ==
  ASSUME Types, SortInv, HomeInv, HandoverInv, Bystanders
  PROVE  HandoverInv'
<1>1. CASE Pump
  BY <1>1, PumpHandsOver
<1>2. CASE ExtractionStage
  BY <1>2, ExtractionHandsOver
<1>3. CASE NotificationStage \/ MistakeHead \/ LoseAnswer
  BY <1>3, NotifierHandsOver
<1>4. ASSUME UNCHANGED <<dbVars, sorter, extractor, notifier, cmd, pump, closed>>,
             \A s \in StageNames : s \in queued => s \in queued'
      PROVE  HandoverInv'
  BY <1>4, SameTables, SameTablesHandOver DEF dbVars, MovesOn, Types
<1>5. ASSUME NEW o \in OverviewRooms,
             OverviewStage(o) \/ OverviewFails(o) \/ RepostOverview(o) \/ Resend(o)
      PROVE  HandoverInv'
  <2>1. UNCHANGED <<dbVars, sorter, extractor, notifier, cmd, pump>>
    BY <1>5 DEF OverviewStage, OverviewFails, RepostOverview, Resend, others, sortingVars,
       notifierVars, commandVars, OverviewStep, ListOverviewThreads, EditThreadOverview,
       PostThreadOverview, PostSecondOverview, PostMessage, RemoveLargeOverview, UpdateFails,
       OverviewMessageUpdated, ResendThreadOverview
  <2>2. UNCHANGED closed /\ (UNCHANGED queued \/ TakeUp(o) \/ QueueAll({o}))
    BY <1>5 DEF OverviewStage, OverviewFails, RepostOverview, Resend, OverviewStep,
       ListOverviewThreads, EditThreadOverview, PostThreadOverview, PostSecondOverview,
       PostMessage, RemoveLargeOverview, UpdateFails, OverviewMessageUpdated,
       ResendThreadOverview, stageVars, QueueWork, TakeUp
  <2>3. o \notin StageNames
    BY OverviewAssumption
  <2>4. \A s \in StageNames : s \in queued => s \in queued'
    BY <2>2, <2>3 DEF TakeUp, QueueAll
  <2> QED
    BY <1>4, <2>1, <2>2, <2>4
<1>6. ASSUME NEW e \in Events, RemoveHead(e)
      PROVE  HandoverInv'
  BY <1>4, <1>6 DEF RemoveHead, Redact, sortingVars, notifierVars, commandVars, stageVars
<1>7. CASE UNCHANGED vars
  BY <1>4, <1>7 DEF vars, stageVars, dbVars
<1>8. CASE Stop
  <2>1. UNCHANGED <<mail, sorter, extractor, notifier>> /\ closed' # {}
    BY <1>8 DEF Stop, StageNames, dbVars, sortingVars, notifierVars
  <2> QED
    BY <2>1 DEF HandoverInv, ListsInv
<1> QED
  BY <1>1, <1>2, <1>3, <1>5, <1>6, <1>7, <1>8 DEF Bystanders

LEMMA CommandsHandOver ==
  ASSUME NoReply, Types, SortInv, HandoverInv, NEW c \in Commands, Command(c)
  PROVE  HandoverInv'
<1>0. /\ Kind[c] # "reply" /\ cmd[c].pc \notin ReplySteps
      /\ cmd \in [Commands -> CommandRecord] /\ DbTypes
      /\ \A d \in Commands \ {c} : cmd'[d] = cmd[d]
  BY OthersStandBy DEF NoReply, SortInv, WritingInv, Types, CommandTypes, CommandRecord
<1>1. \/ \E e \in Events : SetThreadState(c, e) \/ MoveStart(c, e)
      \/ MoveForgetHead(c) \/ MoveForgetMails(c) \/ MoveRehome(c) \/ MoveRequest(c)
      \/ StagesAnswer(c)
  BY <1>0 DEF Command, CommandStep, Issue, ReplyStart, ReplySendFails, ReplyFindOriginal,
     ReplyLock, ReplySend, ReplyStore, ReplyAddMail, ReplySetMessages, ReplyJoinThread,
     ReplyTouchThread, ReplyRecord, ReplySteps
<1>2. UNCHANGED <<sorter, extractor, notifier, pump, closed>>
  BY <1>1 DEF Command, SetThreadState, MoveStart, MoveForgetHead, MoveForgetMails, MoveRehome,
     MoveRequest, StagesAnswer, stageVars, sortingVars, notifierVars, QueueOverviewUpdate,
     QueueWorkBlocking
<1>3. \A s \in StageNames : s \in queued => s \in queued'
  BY <1>1 DEF SetThreadState, MoveStart, MoveForgetHead, MoveForgetMails, MoveRehome,
     MoveRequest, StagesAnswer, stageVars, QueueOverviewUpdate, QueueWorkBlocking, QueueAll
<1>4. ASSUME NEW e \in Events, SetThreadState(c, e) \/ MoveStart(c, e)
      PROVE  HandoverInv'
  <2>1. UNCHANGED mail /\ cmd[c].pc = "idle"
    BY <1>4 DEF SetThreadState, MoveStart, dbVars
  <2>2. SameThreads
    BY <1>0, <1>4, SameTables DEF SetThreadState, MoveStart, dbVars
  <2>3. MovesOn => MovesOn'
    BY <1>0, <2>1 DEF MovesOn
  <2> QED
    BY <1>2, <1>3, <2>1, <2>2, <2>3, SameTablesHandOver
<1>5. CASE StagesAnswer(c)
  <2>1. UNCHANGED mail /\ SameThreads /\ cmd[c].pc = "wait"
    BY <1>0, <1>5, SameTables DEF StagesAnswer, dbVars
  <2>2. MovesOn => MovesOn'
    BY <1>0, <2>1 DEF MovesOn
  <2> QED
    BY <1>2, <1>3, <2>1, <2>2, SameTablesHandOver
<1>6. CASE MoveForgetHead(c) \/ MoveForgetMails(c) \/ MoveRehome(c)
  <2>1. cmd'[c].pc \in {"forget mails", "rehome", "request"}
    BY <1>6, StepTo DEF MoveForgetHead, MoveForgetMails, MoveRehome
  <2>2. NotificationLink'
    BY <2>1, NotificationLinkAsked DEF NotificationAsked, MovesOn
  <2>3. SameStatus
    BY <1>0, <1>6, Statuses DEF MoveForgetHead, MoveForgetMails, MoveRehome
  <2> QED
    BY <1>2, <1>3, <2>2, <2>3, AsideHandsOver
<1>7. CASE MoveRequest(c)
  <2>1. closed = {} => "notification" \in queued'
    BY <1>7 DEF MoveRequest, QueueWorkBlocking, QueueAll
  <2>2. closed = {} => NotificationLink'
    BY <2>1, NotificationLinkAsked DEF NotificationAsked
  <2>3. SameStatus
    BY <1>0, <1>7, Statuses DEF MoveRequest, dbVars
  <2> QED
    BY <1>2, <1>3, <2>2, <2>3, AsideHandsOver
<1> QED
  BY <1>1, <1>4, <1>5, <1>6, <1>7

\* A process that has just been started has asked for everything.
Started ==
    /\ sorter.pc = "rest" /\ sorter.first
    /\ extractor.pc = "rest" /\ extractor.first /\ extractor.todo = {}
    /\ notifier = IdleNotifier
    /\ pump.initial

\* What it finds in the table.
MailsInOrder ==
    \A m \in Mails : /\ mail[m].stored => mail[m].fetched
                     /\ mail[m].extracted => mail[m].sorted

LEMMA StartedHandsOver == Started /\ MailsInOrder => HandoverInv
<1> SUFFICES ASSUME Started, MailsInOrder PROVE HandoverInv
  OBVIOUS
<1>1. notifier.pc = "rest" /\ notifier.threads = {} /\ notifier.mails = {}
  BY DEF Started, IdleNotifier
<1>2. ListsInv
  BY <1>1 DEF Started, MailsInOrder, ListsInv
<1>3. SortingLink /\ ExtractionLink /\ NotificationLink
  BY <1>1 DEF Started, SortingLink, SortingDue, SortingAsked, ExtractionLink, ExtractionDue,
     ExtractionAsked, NotificationLink, NotificationAsked
<1> QED
  BY <1>2, <1>3 DEF HandoverInv

LEMMA HandoverAlways ==
  ASSUME NoReply
  PROVE  Spec => [](Types /\ SortInv /\ HandoverInv)
<1>1. Init => HandoverInv
  <2> SUFFICES ASSUME Init PROVE HandoverInv
    OBVIOUS
  <2>1. MailsInOrder
    BY DEF Init, DbInit, NoMail, MailsInOrder
  <2>2. Started
    BY DEF Init, SortingInit, ExtractionInit, NotificationInit, PumpInit, StartedPump, Started
  <2> QED
    BY <2>1, <2>2, StartedHandsOver
<1>2. ASSUME Types, Types', SortInv, HomeInv, HandoverInv, [Next]_vars
      PROVE  HandoverInv'
  <2>1. CASE Bystanders
    BY <1>2, <2>1, BystandersHandOver
  <2>2. CASE SortingStage
    BY <1>2, <2>2, SortingHandsOver
  <2>3. ASSUME NEW c \in Commands, Command(c)
        PROVE  HandoverInv'
    BY <1>2, <2>3, CommandsHandOver
  <2>4. CASE Crash \/ Exit
    <3>1. UNCHANGED mail /\ Started'
      BY <2>4 DEF Crash, Exit, StartAgain, StartedPump, Started, dbVars
    <3>2. MailsInOrder'
      BY <1>2, <3>1 DEF HandoverInv, ListsInv, MailsInOrder
    <3> QED
      BY <3>1, <3>2, StartedHandsOver, PTL
  <2> QED
    BY <1>2, <2>1, <2>2, <2>3, <2>4, Steps
<1> QED
  BY <1>1, <1>2, HomeAlways, PTL DEF Spec

\* The stages hand over completely: a mail that is stored while the sorting
\* stage works, sorted while the extraction stage does, or extracted while the
\* notification stage passes its thread over, is taken up by a run that has
\* been asked for; so nothing is left when no run is asked for and none is
\* under way, whatever failed, was moved or was restarted. Replies are left out.
THEOREM EverythingIsHandedOver ==
  ASSUME NoReply
  PROVE  Spec => []QuietMeansDone
<1>1. Types /\ SortInv /\ HandoverInv => QuietMeansDone
  <2> SUFFICES ASSUME Types, SortInv, HandoverInv, Quiet
               PROVE  /\ MailsRequiringSorting = {}
                      /\ MailsRequiringMessageExtraction = {}
                      /\ MatrixReadyThreads = {}
                      /\ MatrixReadyMails = {}
    BY DEF QuietMeansDone
  <2>1. /\ queued = {} /\ ~pump.initial /\ ~pump.busy
        /\ sorter.pc = "rest" /\ sorter.rest = {} /\ extractor.pc = "rest"
        /\ extractor.todo = {}
        /\ notifier.pc = "rest" /\ notifier.threads = {} /\ notifier.mails = {}
        /\ SortingLink /\ ExtractionLink /\ NotificationLink
    BY DEF Quiet, AtRest, SortInv, SorterInv, HandoverInv, ListsInv
  <2>2. MailsRequiringSorting = {} /\ ~sorter.first
    BY <2>1 DEF SortingLink, SortingDue, SortingAsked
  <2>3. ~ExtractionAsked
    BY <2>1, <2>2 DEF ExtractionAsked, SorterWorks
  <2>4. MailsRequiringMessageExtraction = {} /\ ~extractor.first
    BY <2>1, <2>3 DEF ExtractionLink, ExtractionDue
  <2>5. ~MovesOn
    BY DEF MovesOn, Quiet, Running
  <2>6. ~NotificationAsked
    BY <2>1, <2>4, <2>5 DEF NotificationAsked
  <2>7. MatrixReadyThreads = {}
    BY <2>1, <2>6 DEF NotificationLink, HeadAwaited
  <2>8. ASSUME NEW m \in MatrixReadyMails
        PROVE  FALSE
    <3>1. mail[m].thread # None /\ HeldBack(mail[m].thread)
      BY <2>1, <2>6 DEF NotificationLink, MailAwaited, Relisting, MatrixReadyMails
    <3>2. PICK n \in Stored : mail[n].thread # None /\ ~mail[n].extracted
      BY <3>1 DEF HeldBack, MailsByThread
    <3>3. mail[n].sorted /\ mail[n].fetched
      BY <3>2 DEF Stored, SortInv, RowsInv, HandoverInv, ListsInv
    <3> QED
      BY <2>4, <3>2, <3>3 DEF MailsRequiringMessageExtraction
  <2> QED
    BY <2>2, <2>4, <2>7, <2>8
<1> QED
  BY <1>1, HandoverAlways, PTL
-----------------------------------------------------------------------------
(* A mail is posted after the mail it answers, as long as every answer has  *)
(* a later date than what it answers, and nothing is moved or written here: *)
(* the stages take the mails of a thread in the order of their dates.       *)

TimesInOrder ==
    \A m \in Mails : InReplyTo[m] # None => Time[InReplyTo[m]] < Time[m]

\* m answers p, and they are in the same thread.
Follows(m, p) ==
    mail[m].replyTo = p /\ mail[m].thread # None /\ mail[p].thread = mail[m].thread

Placing == {"references", "join", "head", "claim"}

\* A mail is sorted after the mail it answers.
AnsweredFirst ==
    \A m, p \in Mails : mail[m].replyTo = p =>
        /\ p = InReplyTo[m] /\ mail[p].stored
        /\ mail[m].thread # None => mail[p].sorted
        /\ m \in sorter.rest => mail[p].sorted \/ p \in sorter.rest
        /\ m = sorter.cur /\ sorter.pc \in Placing => mail[p].sorted

\* A mail is extracted after the mail it answers, unless the stage has been
\* stopped and extracts no more.
ExtractedFirst ==
    \A m, p \in Mails : Follows(m, p) =>
        /\ mail[m].extracted => mail[p].extracted
        /\ closed = {} /\ m \in extractor.todo => mail[p].extracted \/ p \in extractor.todo

SameReplies == \A m \in Mails : mail'[m].replyTo = mail[m].replyTo

LEMMA Replies ==
  ASSUME DbTypes
  PROVE  /\ UNCHANGED mail => SameReplies
         /\ \A m \in Mails :
            /\ UpdateExtractedMessages(m) => SameReplies
            /\ \A f : AddMail(m, f) => SameReplies
            /\ \A t : UpdateMailSorting(m, t, mail[m].replyTo) => SameReplies
            /\ UpdateMailMarkSorted(m) => SameReplies
            /\ \A id : UpdateMailMatrixId(m, id) => SameReplies
         /\ \A t : RemoveMailMatrixIdsByThread(t) => SameReplies
         /\ AutoUpdateMailReplyTo => \A m \in Mails :
                \/ mail'[m].replyTo = mail[m].replyTo
                \/ /\ mail[m].thread = None /\ InReplyTo[m] \in Stored
                   /\ mail'[m].replyTo = InReplyTo[m]
<1>0. mail \in [Mails -> MailRow] /\ \A m \in Mails : mail[m] \in MailRow
  BY DEF DbTypes
<1>1. ASSUME NEW m \in Mails, NEW row, mail' = [mail EXCEPT ![m] = row],
             row.replyTo = mail[m].replyTo
      PROVE  SameReplies
  BY <1>0, <1>1, RowSet DEF SameReplies, DbTypes
<1>2. ASSUME NEW m \in Mails, UpdateExtractedMessages(m)
      PROVE  SameReplies
  <2>1. /\ mail' = [mail EXCEPT ![m] = [mail[m] EXCEPT !.extracted = TRUE]]
        /\ [mail[m] EXCEPT !.extracted = TRUE].replyTo = mail[m].replyTo
    BY <1>0, <1>2 DEF UpdateExtractedMessages, MailRow
  <2> QED
    BY <1>1, <2>1
<1>3. ASSUME NEW m \in Mails, NEW f, AddMail(m, f)
      PROVE  SameReplies
  <2> DEFINE row == [mail[m] EXCEPT !.stored = TRUE, !.fetched = f]
  <2>1. UNCHANGED mail \/ mail' = [mail EXCEPT ![m] = row]
    BY <1>0, <1>3 DEF AddMail
  <2>2. row.replyTo = mail[m].replyTo
    BY <1>0 DEF MailRow
  <2> HIDE DEF row
  <2> QED
    BY <1>1, <2>1, <2>2 DEF SameReplies
<1>4. ASSUME NEW m \in Mails, NEW t, UpdateMailSorting(m, t, mail[m].replyTo)
      PROVE  SameReplies
  <2> DEFINE row == [mail[m] EXCEPT !.replyTo = mail[m].replyTo, !.thread = t,
                                    !.sorted = TRUE]
  <2>1. mail' = [mail EXCEPT ![m] = row]
    BY <1>0, <1>4 DEF UpdateMailSorting
  <2>2. row.replyTo = mail[m].replyTo
    BY <1>0 DEF MailRow
  <2> HIDE DEF row
  <2> QED
    BY <1>1, <2>1, <2>2
<1>5. ASSUME NEW m \in Mails, UpdateMailMarkSorted(m)
      PROVE  SameReplies
  <2>1. /\ mail' = [mail EXCEPT ![m] = [mail[m] EXCEPT !.sorted = TRUE]]
        /\ [mail[m] EXCEPT !.sorted = TRUE].replyTo = mail[m].replyTo
    BY <1>0, <1>5 DEF UpdateMailMarkSorted, MailRow
  <2> QED
    BY <1>1, <2>1
<1>6. ASSUME NEW m \in Mails, NEW id, UpdateMailMatrixId(m, id)
      PROVE  SameReplies
  <2>1. /\ mail' = [mail EXCEPT ![m] = [mail[m] EXCEPT !.matrix = id]]
        /\ [mail[m] EXCEPT !.matrix = id].replyTo = mail[m].replyTo
    BY <1>0, <1>6 DEF UpdateMailMatrixId, MailRow
  <2> QED
    BY <1>1, <2>1
<1>7. ASSUME NEW t, RemoveMailMatrixIdsByThread(t)
      PROVE  SameReplies
  <2>1. \A m \in Mails : mail'[m] \in {mail[m], [mail[m] EXCEPT !.matrix = None]}
    BY <1>7 DEF RemoveMailMatrixIdsByThread
  <2> QED
    BY <1>0, <2>1 DEF SameReplies, MailRow
<1>8. ASSUME AutoUpdateMailReplyTo, NEW m \in Mails
      PROVE  \/ mail'[m].replyTo = mail[m].replyTo
             \/ /\ mail[m].thread = None /\ InReplyTo[m] \in Stored
                /\ mail'[m].replyTo = InReplyTo[m]
  <2>1. \/ mail'[m] = mail[m]
        \/ /\ mail[m].thread = None /\ InReplyTo[m] \in Stored
           /\ mail'[m] = [mail[m] EXCEPT !.replyTo = InReplyTo[m]]
    BY <1>8 DEF AutoUpdateMailReplyTo
  <2> QED
    BY <1>0, <2>1 DEF MailRow
<1> QED
  BY <1>2, <1>3, <1>4, <1>5, <1>6, <1>7, <1>8 DEF SameReplies

\* Only the sorting stage writes to what an answer is known by.
LEMMA OthersKeepReplies ==
  ASSUME NoReply, Types, SortInv, [Next]_vars, ~SortingStage
  PROVE  /\ SameReplies /\ SameRows
         /\ \/ UNCHANGED sorter
            \/ Crash \/ Exit
         /\ Crash \/ Exit => sorter'.pc = "rest" /\ sorter'.rest = {}
<1> USE Names
<1>0. DbTypes
  BY DEF Types
<1>1. CASE Bystanders
  <2>1. SameRows /\ UNCHANGED sorter
    BY <1>1, BystandersAside DEF Aside
  <2>2. notifier.pc = "record mail" => notifier.mail \in Mails
    BY DEF Types, NotifierTypes
  <2>3. \/ UNCHANGED mail
        \/ \E m \in Mails : AddMail(m, TRUE)
        \/ \E m \in Mails : UpdateExtractedMessages(m)
        \/ UpdateMailMatrixId(notifier.mail, notifier.id) /\ notifier.pc = "record mail"
        \/ \E row \in notifier.gone : RemoveMailMatrixIdsByThread(row.thread)
    BY <1>1, BystandersStatements DEF ReceiveChunk, StoreMail, EndChunk, dbVars
  <2>4. SameReplies
    BY <1>0, <2>2, <2>3, Replies
  <2>5. Crash \/ Exit => sorter'.pc = "rest" /\ sorter'.rest = {}
    BY DEF Crash, Exit, StartAgain
  <2> QED
    BY <2>1, <2>4, <2>5
<1>2. ASSUME NEW c \in Commands, Command(c)
      PROVE  SameReplies /\ SameRows /\ UNCHANGED sorter
  <2>1. Kind[c] # "reply" /\ cmd[c].pc \notin ReplySteps
    BY DEF NoReply, SortInv, WritingInv
  <2>2. \/ \E e \in Events : SetThreadState(c, e) \/ MoveStart(c, e)
        \/ MoveForgetHead(c) \/ MoveForgetMails(c) \/ MoveRehome(c) \/ MoveRequest(c)
        \/ StagesAnswer(c)
    BY <1>2, <2>1 DEF Command, CommandStep, Issue, ReplyStart, ReplySendFails,
       ReplyFindOriginal, ReplyLock, ReplySend, ReplyStore, ReplyAddMail, ReplySetMessages,
       ReplyJoinThread, ReplyTouchThread, ReplyRecord, ReplySteps
  <2>3. UNCHANGED mail \/ \E t : RemoveMailMatrixIdsByThread(t)
    BY <2>2 DEF SetThreadState, MoveStart, MoveForgetHead, MoveForgetMails, MoveRehome,
       MoveRequest, StagesAnswer, dbVars
  <2>4. ~Writes(c)
    BY <2>1 DEF Writes, ReplyLock, ReplyStore, ReplyAddMail, ReplyJoinThread, ReplySteps
  <2>5. SameReplies
    BY <1>0, <2>3, Replies
  <2>6. UNCHANGED sorter
    BY <2>2 DEF SetThreadState, MoveStart, MoveForgetHead, MoveForgetMails, MoveRehome,
       MoveRequest, StagesAnswer, sortingVars
  <2>7. SameRows
    <3>1. Types'
      BY TypesStep
    <3> QED
      BY <1>2, <2>4, <3>1, CommandsAside DEF Aside
  <2> QED
    BY <2>5, <2>6, <2>7
<1>3. CASE Crash \/ Exit
  <2>1. /\ UNCHANGED <<mail, thread>> /\ sorter'.pc = "rest" /\ sorter'.rest = {}
    BY <1>3 DEF Crash, Exit, StartAgain, dbVars
  <2> QED
    BY <1>0, <1>3, <2>1, MailsStay, Replies
<1>4. Crash \/ Exit => sorter'.pc = "rest" /\ sorter'.rest = {}
  BY DEF Crash, Exit, StartAgain
<1> QED
  BY <1>1, <1>2, <1>3, <1>4, Steps

\* The list shrinks by what has been sorted, and only a mail whose parent has
\* been sorted gets into a thread.
LEMMA AnsweredStays ==
  ASSUME AnsweredFirst, SameReplies,
         \A m \in Mails : /\ mail[m].stored => mail'[m].stored
                          /\ mail[m].sorted => mail'[m].sorted
                          /\ \/ mail'[m].thread = mail[m].thread
                             \/ m = sorter.cur /\ sorter.pc \in Placing,
         sorter'.rest \subseteq sorter.rest,
         \A m \in sorter.rest \ sorter'.rest : mail'[m].sorted,
         sorter'.pc \in Placing => sorter.pc \in Placing /\ sorter'.cur = sorter.cur
  PROVE  AnsweredFirst'
<1> SUFFICES ASSUME NEW m \in Mails, NEW p \in Mails, mail'[m].replyTo = p
             PROVE  /\ p = InReplyTo[m] /\ mail'[p].stored
                    /\ mail'[m].thread # None => mail'[p].sorted
                    /\ m \in sorter'.rest => mail'[p].sorted \/ p \in sorter'.rest
                    /\ m = sorter'.cur /\ sorter'.pc \in Placing => mail'[p].sorted
  BY DEF AnsweredFirst
<1>1. mail[m].replyTo = p
  BY DEF SameReplies
<1>2. /\ p = InReplyTo[m] /\ mail[p].stored
      /\ mail[m].thread # None => mail[p].sorted
      /\ m \in sorter.rest => mail[p].sorted \/ p \in sorter.rest
      /\ m = sorter.cur /\ sorter.pc \in Placing => mail[p].sorted
  BY <1>1 DEF AnsweredFirst
<1> QED
  BY <1>2

LEMMA SortingKeepsAnswered ==
  ASSUME TimesInOrder, Types, SortInv, ListsInv, AnsweredFirst, SortingStage
  PROVE  AnsweredFirst'
<1> USE Names
<1>0. /\ DbTypes /\ SorterTypes /\ sorter \in SorterRecord /\ Sorting
      /\ sorter.rest \subseteq Mails
  BY DEF Types, SorterTypes, SorterRecord, SortingStage
<1>1. ASSUME UNCHANGED mail, sorter'.rest = sorter.rest,
             sorter'.pc \in Placing => sorter.pc \in Placing /\ sorter'.cur = sorter.cur
      PROVE  AnsweredFirst'
  BY <1>0, <1>1, Replies, AnsweredStays
<1>2. CASE SortingBegin \/ LockThreadSorting \/ WaitForCompleteData \/ FinishSorting
  BY <1>1, <1>2, SorterMoves DEF SorterAt, Placing, SortingBegin, LockThreadSorting,
     WaitForCompleteData, FinishSorting, dbVars
<1>3. CASE AutoUpdateMailSorting
  <2>1. /\ AutoUpdateMailReplyTo /\ sorter'.rest = {} /\ sorter'.pc = "list"
    BY <1>3, SorterMoves DEF AutoUpdateMailSorting, SorterAt, SortInv, SorterInv, At
  <2>2. SameRows
    BY <1>0, <1>3, <2>1, MailsStay DEF AutoUpdateMailSorting
  <2>3. ASSUME NEW m \in Mails, NEW p \in Mails, mail'[m].replyTo = p
        PROVE  /\ p = InReplyTo[m] /\ mail'[p].stored
               /\ mail'[m].thread # None => mail'[p].sorted
    <3>1. CASE mail[m].replyTo = p
      BY <2>2, <3>1 DEF AnsweredFirst, SameRows
    <3>2. CASE mail[m].replyTo # p
      <4>1. mail[m].thread = None /\ InReplyTo[m] \in Stored /\ p = InReplyTo[m]
        BY <1>0, <2>1, <2>3, <3>2, Replies
      <4> QED
        BY <2>2, <4>1 DEF SameRows, Stored
    <3> QED
      BY <3>1, <3>2
  <2> QED
    BY <2>1, <2>3 DEF AnsweredFirst, Placing
<1>4. CASE ListMailsRequiringSorting
  <2>1. UNCHANGED mail
    BY <1>4 DEF ListMailsRequiringSorting, dbVars
  <2>2. CASE SorterAt("rest", sorter.rest, FALSE)
    BY <1>1, <2>1, <2>2 DEF SorterAt, Placing
  <2>3. CASE SorterAt("next", MailsRequiringSorting, sorter.first)
    <3>1. /\ sorter'.rest = MailsRequiringSorting /\ sorter'.pc \notin Placing
      BY <2>3 DEF SorterAt, Placing
    <3> QED
      BY <2>1, <3>1 DEF AnsweredFirst, MailsRequiringSorting, Stored
  <2> QED
    BY <1>4, <2>2, <2>3, SorterMoves
<1>5. CASE LookUpReplyTo
  <2>1. /\ UNCHANGED mail /\ sorter'.rest = sorter.rest
    BY <1>5, SorterMoves DEF LookUpReplyTo, SorterAt, dbVars
  <2>2. sorter'.cur \in Oldest(sorter.rest)
    <3>1. PICK m \in Oldest(sorter.rest) : \E t, pc :
            sorter' = [sorter EXCEPT !.cur = m, !.target = t, !.pc = pc]
      BY <1>5 DEF LookUpReplyTo
    <3> QED
      BY <1>0, <3>1 DEF SorterRecord
  <2>3. ASSUME NEW p \in Mails, mail[sorter'.cur].replyTo = p
        PROVE  mail[p].sorted
    <3>1. PICK m \in Mails : m = sorter'.cur /\ m \in sorter.rest
      BY <1>0, <2>2 DEF Oldest
    <3>2. p = InReplyTo[m] /\ (mail[p].sorted \/ p \in sorter.rest)
      BY <2>3, <3>1 DEF AnsweredFirst
    <3>3. Time[p] < Time[m] /\ Time[p] \in Nat /\ Time[m] \in Nat
      BY <3>1, <3>2, MailAssumption DEF TimesInOrder
    <3>4. p \notin sorter.rest
      BY <2>2, <3>1, <3>3 DEF Oldest
    <3> QED
      BY <3>2, <3>4
  <2> QED
    BY <2>1, <2>3 DEF AnsweredFirst
<1>6. CASE LookUpReferences
  <2>1. PICK t : \E pc \in {"join", "head"} :
                sorter' = [sorter EXCEPT !.target = t, !.pc = pc]
    BY <1>0, <1>6, LookedUp
  <2>2. /\ UNCHANGED mail /\ sorter'.rest = sorter.rest /\ sorter'.cur = sorter.cur
        /\ sorter.pc \in Placing
    BY <1>0, <1>6, <2>1 DEF LookUpReferences, dbVars, SorterRecord, At, Placing
  <2> QED
    BY <1>1, <2>2
<1>7. CASE CreateThread
  <2>1. /\ UNCHANGED mail /\ sorter'.rest = sorter.rest /\ sorter'.cur = sorter.cur
        /\ sorter.pc \in Placing
    BY <1>0, <1>7 DEF CreateThread, SorterRecord, At, Placing
  <2> QED
    BY <1>1, <2>1
<1>8. CASE JoinThread \/ MarkMailAsSorted \/ ClaimHead
  <2>1. PICK n \in Mails : n = sorter.cur /\ n \in sorter.rest
    BY <1>0, <1>8 DEF JoinThread, MarkMailAsSorted, ClaimHead, At, SortInv, SorterInv
  <2>2. sorter.pc \in Placing /\ sorter'.pc \notin Placing
    BY <1>8, SorterMoves DEF JoinThread, MarkMailAsSorted, ClaimHead, At, Placing, SorterAt
  <2>3. /\ sorter'.rest \subseteq sorter.rest
        /\ sorter.rest \ sorter'.rest \subseteq {n}
    BY <1>8, <2>1, SorterMoves DEF SorterAt
  <2>4. SameReplies
    BY <1>0, <1>8, <2>1, Replies DEF JoinThread, MarkMailAsSorted, ClaimHead
  <2>5. PlacesMail(n)
    BY <1>0, <1>8, <2>1, MailEffects DEF JoinThread, MarkMailAsSorted, ClaimHead
  <2>6. \A m \in Mails : /\ mail[m].stored => mail'[m].stored
                         /\ mail[m].sorted => mail'[m].sorted
                         /\ m # n => mail'[m].thread = mail[m].thread
    BY <2>5 DEF PlacesMail
  <2>7. mail'[n].sorted
    BY <2>5 DEF PlacesMail
  <2> QED
    BY <2>1, <2>2, <2>3, <2>4, <2>6, <2>7, AnsweredStays
<1>9. CASE TouchThread
  <2>1. /\ UNCHANGED mail /\ mail[sorter.cur].sorted
        /\ sorter'.rest = sorter.rest \ {sorter.cur} /\ sorter'.pc \notin Placing
    BY <1>9, SorterMoves DEF TouchThread, At, SorterAt, Placing, ListsInv
  <2> QED
    BY <1>0, <2>1, Replies, AnsweredStays
<1> QED
  BY <1>0, <1>2, <1>3, <1>4, <1>5, <1>6, <1>7, <1>8, <1>9 DEF Sorting, SortingStep

LEMMA AnsweredKept ==
  ASSUME TimesInOrder, NoReply, Types, SortInv, ListsInv, AnsweredFirst, [Next]_vars
  PROVE  AnsweredFirst'
<1>1. CASE SortingStage
  BY <1>1, SortingKeepsAnswered
<1>2. CASE ~SortingStage
  <2>1. /\ SameReplies /\ SameRows
    BY <1>2, OthersKeepReplies
  <2>2. \A m \in Mails : /\ mail[m].stored => mail'[m].stored
                         /\ mail'[m].sorted = mail[m].sorted
                         /\ mail'[m].thread = mail[m].thread
    BY <2>1 DEF SameRows
  <2>3. CASE UNCHANGED sorter
    BY <2>1, <2>2, <2>3, AnsweredStays
  <2>4. CASE Crash \/ Exit
    <3>1. sorter'.pc \notin Placing /\ sorter'.rest = {}
      BY <1>2, <2>4, OthersKeepReplies DEF Placing
    <3> QED
      BY <2>1, <2>2, <3>1 DEF AnsweredFirst, SameReplies
  <2> QED
    BY <1>2, <2>3, <2>4, OthersKeepReplies
<1> QED
  BY <1>1, <1>2
-----------------------------------------------------------------------------

\* What has been sorted stays where it is, and answers what it did.
LEMMA SortedStay ==
  ASSUME NoReply, Types, SortInv, ListsInv, [Next]_vars
  PROVE  /\ \A m \in Mails : mail[m].sorted =>
                mail'[m].sorted /\ mail'[m].thread = mail[m].thread
         /\ \A m \in Mails : mail[m].thread # None => mail'[m].replyTo = mail[m].replyTo
<1> USE Names
<1>0. DbTypes
  BY DEF Types
<1>1. CASE SortingStage
  <2>1. \A m \in Mails : mail[m].sorted =>
            mail'[m].sorted /\ mail'[m].thread = mail[m].thread
    BY <1>1, SortingCases DEF SameRows, SortsNext, Sorts
  <2>2. CASE AutoUpdateMailSorting
    BY <1>0, <2>1, <2>2, Replies DEF AutoUpdateMailSorting
  <2>3. CASE JoinThread \/ MarkMailAsSorted \/ ClaimHead
    <3>1. sorter.cur \in Mails
      BY <2>3 DEF JoinThread, MarkMailAsSorted, ClaimHead, At, Types, SorterTypes, Stored
    <3> QED
      BY <1>0, <2>1, <2>3, <3>1, Replies
         DEF JoinThread, MarkMailAsSorted, ClaimHead, SameReplies
  <2>4. CASE UNCHANGED mail
    BY <2>1, <2>4
  <2>5. \/ AutoUpdateMailSorting \/ JoinThread \/ MarkMailAsSorted \/ ClaimHead
        \/ UNCHANGED mail
    BY <1>1 DEF SortingStage, Sorting, SortingStep, SortingBegin, LockThreadSorting,
       WaitForCompleteData, ListMailsRequiringSorting, LookUpReplyTo, LookUpReferences,
       FinishSorting, TouchThread, CreateThread, dbVars
  <2> QED
    BY <2>2, <2>3, <2>4, <2>5
<1>2. CASE ~SortingStage
  BY <1>2, OthersKeepReplies DEF SameRows, SameReplies
<1> QED
  BY <1>1, <1>2

\* A mail that had been sorted answers a mail of its thread only if it did.
LEMMA FollowsStays ==
  ASSUME NoReply, Types, SortInv, ListsInv, AnsweredFirst, [Next]_vars,
         NEW m \in Mails, NEW p \in Mails
  PROVE  /\ Follows(m, p)' /\ mail[m].sorted => Follows(m, p)
         /\ Follows(m, p) => Follows(m, p)'
<1>1. mail[m].thread # None => mail[m].sorted
  BY DEF SortInv, RowsInv
<1>2. /\ mail[m].sorted => mail'[m].thread = mail[m].thread
      /\ mail[p].sorted => mail'[p].thread = mail[p].thread
      /\ mail[m].thread # None => mail'[m].replyTo = mail[m].replyTo
  BY SortedStay
<1>3. mail[m].replyTo = p /\ mail[m].thread # None => mail[p].sorted
  BY DEF AnsweredFirst
<1> QED
  BY <1>1, <1>2, <1>3 DEF Follows

\* Only the extraction stage extracts.
LEMMA OthersExtractNothing ==
  ASSUME NoReply, Types, SortInv, ListsInv, [Next]_vars, ~ExtractionStage
  PROVE  /\ \A m \in Mails : mail'[m].extracted = mail[m].extracted
         /\ \/ UNCHANGED extractor /\ (closed' = {} => closed = {})
            \/ extractor'.todo = {}
<1> USE Names
<1>0. DbTypes /\ (notifier.pc = "record mail" => notifier.mail \in Mails)
  BY DEF Types, NotifierTypes
<1>1. /\ UNCHANGED mail => SameStatus
      /\ SameStatus => \A m \in Mails : mail'[m].extracted = mail[m].extracted
  BY <1>0, Statuses DEF SameStatus
<1>2. \/ Serves \/ Stop \/ Crash \/ Exit
  BY StagesServe
<1>3. Serves \/ Stop => (closed' = {} => closed = {})
  BY DEF Serves, Stop, StageNames
<1>4. CASE SortingStage
  <2>1. UNCHANGED extractor
    BY <1>4 DEF SortingStage
  <2>2. \A m \in Mails : mail'[m].extracted = mail[m].extracted
    BY <1>1, <1>4, SortingTables DEF PlacesMail
  <2>3. UNCHANGED closed
    BY <1>4 DEF SortingStage, Sorting, SortingStep, SortingBegin, LockThreadSorting,
       WaitForCompleteData, AutoUpdateMailSorting, ListMailsRequiringSorting,
       LookUpReplyTo, LookUpReferences, JoinThread, TouchThread, MarkMailAsSorted,
       CreateThread, ClaimHead, FinishSorting, stageVars, TakeUp, QueueWork
  <2> QED
    BY <2>1, <2>2, <2>3
<1>5. CASE Crash \/ Exit
  BY <1>1, <1>5 DEF Crash, Exit, StartAgain, dbVars
<1>6. CASE Bystanders
  <2>1. \/ UNCHANGED mail
        \/ \E m \in Mails : StoreMail(m)
        \/ UpdateMailMatrixId(notifier.mail, notifier.id) /\ notifier.pc = "record mail"
        \/ \E t : RemoveMailMatrixIdsByThread(t)
        \/ ExtractionStage
    BY <1>6, BystandersStatements DEF ReceiveChunk, EndChunk, dbVars, Bystanders, Pump,
       NotificationStage, MistakeHead, LoseAnswer, RemoveHead, Redact, Stop, vars,
       OverviewStage, OverviewFails, RepostOverview, Resend, others, Notification,
       NotificationStep, NotificationFails, NotificationBegin, ListMatrixReadyThreads,
       PostHead, RecordHead, LinkRecreation, LinkFails, ListMatrixReadyMails, CheckThread,
       SendMail, RecordMail, FindHeadRedacted, MistakeHeadForRedacted, ForgetHead,
       ForgetMails, ForgettingFails, SendFails, AnswerLost, FinishNotification, NAt,
       OverviewStep, ListOverviewThreads, EditThreadOverview, PostThreadOverview,
       PostMessage, OverviewMessageUpdated, UpdateFails, PostSecondOverview,
       RemoveLargeOverview, ResendThreadOverview
  <2>2. ASSUME NEW n \in Mails, StoreMail(n)
        PROVE  \A m \in Mails : mail'[m].extracted = mail[m].extracted
    BY <1>0, <2>2, MailEffects DEF StoreMail, StoresMail
  <2>3. \A m \in Mails : mail'[m].extracted = mail[m].extracted
    BY <1>0, <1>1, <2>1, <2>2, Statuses
  <2>4. UNCHANGED extractor
    BY <1>6 DEF Bystanders, Pump, ReceiveChunk, StoreMail, EndChunk, pumpRest,
       NotificationStage, MistakeHead, LoseAnswer, RemoveHead, Stop, vars,
       OverviewStage, OverviewFails, RepostOverview, Resend, others
  <2> QED
    BY <1>2, <1>3, <1>5, <2>3, <2>4
<1>7. ASSUME NEW c \in Commands, Command(c)
      PROVE  /\ \A m \in Mails : mail'[m].extracted = mail[m].extracted
             /\ UNCHANGED extractor /\ (closed' = {} => closed = {})
  <2>1. Kind[c] # "reply" /\ cmd[c].pc \notin ReplySteps
    BY DEF NoReply, SortInv, WritingInv
  <2>2. \/ \E e \in Events : SetThreadState(c, e) \/ MoveStart(c, e)
        \/ MoveForgetHead(c) \/ MoveForgetMails(c) \/ MoveRehome(c) \/ MoveRequest(c)
        \/ StagesAnswer(c)
    BY <1>7, <2>1 DEF Command, CommandStep, Issue, ReplyStart, ReplySendFails,
       ReplyFindOriginal, ReplyLock, ReplySend, ReplyStore, ReplyAddMail, ReplySetMessages,
       ReplyJoinThread, ReplyTouchThread, ReplyRecord, ReplySteps
  <2>3. UNCHANGED mail \/ \E t : RemoveMailMatrixIdsByThread(t)
    BY <2>2 DEF SetThreadState, MoveStart, MoveForgetHead, MoveForgetMails, MoveRehome,
       MoveRequest, StagesAnswer, dbVars
  <2>4. UNCHANGED <<closed, extractor>>
    BY <1>7, <2>2 DEF Command, SetThreadState, MoveStart, MoveForgetHead, MoveForgetMails,
       MoveRehome, MoveRequest, StagesAnswer, stageVars, QueueOverviewUpdate, QueueWorkBlocking
  <2> QED
    BY <1>0, <1>1, <2>3, <2>4, Statuses
<1> QED
  BY <1>4, <1>5, <1>6, <1>7, Steps

LEMMA ExtractedKept ==
  ASSUME TimesInOrder, NoReply, Types, SortInv, ListsInv, AnsweredFirst, ExtractedFirst,
         [Next]_vars
  PROVE  ExtractedFirst'
<1> USE Names
<1>0. /\ DbTypes /\ extractor \in [pc : ExtractorSteps, todo : SUBSET Mails, first : BOOLEAN]
      /\ \A m \in Mails : mail[m].extracted => mail[m].sorted
      /\ \A m \in extractor.todo : m \in Mails /\ mail[m].sorted
      /\ \A m, p \in Mails : Follows(m, p) => mail[p].sorted
  BY DEF Types, ExtractorTypes, ListsInv, AnsweredFirst, Follows
<1>1. CASE ~ExtractionStage
  <2> SUFFICES ASSUME NEW m \in Mails, NEW p \in Mails, Follows(m, p)'
               PROVE  /\ mail'[m].extracted => mail'[p].extracted
                      /\ closed' = {} /\ m \in extractor'.todo =>
                            mail'[p].extracted \/ p \in extractor'.todo
    BY DEF ExtractedFirst
  <2>1. /\ mail'[m].extracted = mail[m].extracted /\ mail'[p].extracted = mail[p].extracted
        /\ \/ UNCHANGED extractor /\ (closed' = {} => closed = {})
           \/ extractor'.todo = {}
    BY <1>1, OthersExtractNothing
  <2>2. mail[m].sorted => Follows(m, p)
    BY FollowsStays
  <2>3. mail[m].sorted => /\ mail[m].extracted => mail[p].extracted
                          /\ closed = {} /\ m \in extractor.todo =>
                                mail[p].extracted \/ p \in extractor.todo
    BY <2>2 DEF ExtractedFirst
  <2> QED
    BY <1>0, <2>1, <2>3
<1>2. ASSUME UNCHANGED <<mail, closed>>,
             extractor'.todo \subseteq extractor.todo,
             \A m, p \in Mails : Follows(m, p) /\ m \in extractor'.todo /\ p \in extractor.todo =>
                p \in extractor'.todo
      PROVE  ExtractedFirst'
  BY <1>2 DEF ExtractedFirst, Follows
<1>3. CASE ExtractionStage
  <2>1. Extraction
    BY <1>3 DEF ExtractionStage
  <2>2. CASE ExtractionBegin \/ FinishExtraction
    <3>1. UNCHANGED <<mail, closed>> /\ extractor'.todo = extractor.todo
      BY <1>0, <2>2 DEF ExtractionBegin, FinishExtraction, dbVars, TakeUp, QueueWork
    <3> QED
      BY <1>2, <3>1
  <2>3. CASE ListMailsRequiringMessageExtraction
    <3>1. UNCHANGED <<mail, closed>>
      BY <2>3 DEF ListMailsRequiringMessageExtraction, dbVars, stageVars, QueueWork
    <3>2. CASE extractor'.todo = extractor.todo
      BY <1>2, <3>1, <3>2
    <3>3. CASE extractor'.todo = MailsRequiringMessageExtraction
      <4> SUFFICES ASSUME NEW m \in Mails, NEW p \in Mails, Follows(m, p),
                          m \in MailsRequiringMessageExtraction
                   PROVE  mail[p].extracted \/ p \in MailsRequiringMessageExtraction
        BY <3>1, <3>3 DEF ExtractedFirst, Follows
      <4>1. mail[p].stored /\ mail[p].sorted
        BY <1>0 DEF AnsweredFirst, Follows
      <4> QED
        BY <4>1 DEF MailsRequiringMessageExtraction, Stored, ListsInv
    <3> QED
      BY <1>0, <2>3, <3>2, <3>3 DEF ListMailsRequiringMessageExtraction
  <2>4. ASSUME NEW n \in Mails, CancelBatch(n)
        PROVE  ExtractedFirst'
    <3>1. UNCHANGED <<mail, closed>> /\ extractor'.todo = extractor.todo \ Batch(n)
      BY <1>0, <2>4 DEF CancelBatch, dbVars, QueueWork
    <3> QED
      BY <1>2, <3>1 DEF Batch, Follows
  <2>5. ASSUME NEW n \in Mails, PerformMessageExtraction(n)
        PROVE  ExtractedFirst'
    <3>1. /\ UNCHANGED closed /\ extractor'.todo = extractor.todo \ {n}
          /\ n \in extractor.todo /\ n \in Oldest(Batch(n))
      BY <1>0, <2>5 DEF PerformMessageExtraction, stageVars
    <3>2. CASE ExtractionCancelled
      <4>1. UNCHANGED mail /\ closed' # {}
        BY <2>5, <3>1, <3>2 DEF PerformMessageExtraction, ExtractionCancelled
      <4> QED
        BY <4>1 DEF ExtractedFirst, Follows
    <3>3. CASE ~ExtractionCancelled
      <4>1. closed = {}
        BY <3>3 DEF ExtractionCancelled, Types, StageTypes, StageNames
      <4>2. UpdateExtractedMessages(n)
        BY <2>5, <3>3 DEF PerformMessageExtraction
      <4>3. ExtractsMail(n) /\ SameReplies
        BY <1>0, <4>2, MailEffects, Replies
      <4> SUFFICES ASSUME NEW m \in Mails, NEW p \in Mails, Follows(m, p)'
                   PROVE  /\ mail'[m].extracted => mail'[p].extracted
                          /\ m \in extractor'.todo =>
                                mail'[p].extracted \/ p \in extractor'.todo
        BY DEF ExtractedFirst
      <4>4. Follows(m, p)
        BY <4>3 DEF Follows, ExtractsMail, SameReplies
      <4>5. /\ mail[m].extracted => mail[p].extracted
            /\ m \in extractor.todo => mail[p].extracted \/ p \in extractor.todo
        BY <4>1, <4>4 DEF ExtractedFirst
      <4>6. m = n => mail[p].extracted
        <5>1. ASSUME m = n, p \in extractor.todo
              PROVE  FALSE
          <6>1. p \in Batch(n)
            BY <4>4, <5>1 DEF Batch, Follows
          <6>2. Time[n] <= Time[p] /\ p = InReplyTo[n]
            BY <3>1, <4>4, <5>1, <6>1 DEF Oldest, Follows, AnsweredFirst
          <6> QED
            BY <6>2, MailAssumption DEF TimesInOrder
        <5> QED
          BY <3>1, <4>5, <5>1
      <4>7. /\ mail'[p].extracted <=> mail[p].extracted \/ p = n
            /\ mail'[m].extracted <=> mail[m].extracted \/ m = n
        BY <1>0, <4>3 DEF ExtractsMail, DbTypes, MailRow
      <4> QED
        BY <3>1, <4>5, <4>6, <4>7
    <3> QED
      BY <3>2, <3>3
  <2> QED
    BY <2>1, <2>2, <2>3, <2>4, <2>5 DEF Extraction, ExtractionStep, ExtractionFails
<1> QED
  BY <1>1, <1>3
-----------------------------------------------------------------------------

\* The heads of the threads stay where they are.
SameHeads ==
    /\ Threads \subseteq Threads'
    /\ \A t \in Threads : /\ thread'[t].matrix = thread[t].matrix
                          /\ thread'[t].room = thread[t].room

LEMMA HeadsUntouched ==
  ASSUME DbTypes
  PROVE  /\ UNCHANGED thread => SameHeads
         /\ \A t, m : UpdateThreadLastMail(t, m) => SameHeads
         /\ \A room, id, enabled, force :
                UpdateThreadEnabled(room, id, enabled, force) => SameHeads
<1>1. /\ thread \in [Threads -> ThreadRow] /\ \A u \in Threads : thread[u] \in ThreadRow
  <2>1. thread \in [Threads -> ThreadRow]
    BY ThreadsAreNumbers, LenProperties DEF DbTypes
  <2> QED
    BY <2>1
<1>2. UNCHANGED thread => SameHeads
  BY DEF SameHeads, Threads
<1>3. ASSUME NEW t, NEW m, UpdateThreadLastMail(t, m)
      PROVE  SameHeads
  <2>1. Threads' = Threads
    BY <1>1, <1>3 DEF UpdateThreadLastMail, Threads
  <2>2. \A u \in Threads : \/ thread'[u] = thread[u]
                           \/ thread'[u] = [thread[u] EXCEPT !.enabled = TRUE, !.last = m]
    BY <1>1, <1>3 DEF UpdateThreadLastMail
  <2> QED
    BY <1>1, <2>1, <2>2 DEF SameHeads, ThreadRow
<1>4. ASSUME NEW room, NEW id, NEW enabled, NEW force,
             UpdateThreadEnabled(room, id, enabled, force)
      PROVE  SameHeads
  <2>1. Threads' = Threads
    BY <1>1, <1>4 DEF UpdateThreadEnabled, Threads
  <2>2. \A u \in Threads :
            thread'[u] \in {thread[u],
                            [thread[u] EXCEPT !.enabled = enabled,
                                !.forceClose = IF force = None THEN @ ELSE force]}
    BY <1>4 DEF UpdateThreadEnabled
  <2> QED
    BY <1>1, <2>1, <2>2 DEF SameHeads, ThreadRow
<1> QED
  BY <1>2, <1>3, <1>4

\* Only the notification stage and a move change the head of a thread, and only
\* a user removes one.
LEMMA OthersKeepHeads ==
  ASSUME Types, Types', SortInv, [Next]_vars,
         ~(NotificationStage \/ MistakeHead \/ LoseAnswer)
  PROVE  /\ (\A c \in Commands : cmd[c].pc \notin MoveSteps) => SameHeads
         /\ UNCHANGED redacted \/ mishaps' = mishaps + 1
<1> USE Names
<1>0. DbTypes
  BY DEF Types
<1>1. CASE Bystanders
  <2>1. UNCHANGED thread
    BY <1>1 DEF Bystanders, Pump, ReceiveChunk, StoreMail, EndChunk, dbVars,
         ExtractionStage, Extraction, ExtractionStep, ExtractionFails, ExtractionBegin,
         ListMailsRequiringMessageExtraction, PerformMessageExtraction, FinishExtraction,
         CancelBatch, RemoveHead, Redact, OverviewStage, OverviewFails, RepostOverview,
         Resend, OverviewStep, ListOverviewThreads, EditThreadOverview, PostThreadOverview,
         PostMessage, OverviewMessageUpdated, UpdateFails, PostSecondOverview,
         RemoveLargeOverview, ResendThreadOverview, Stop, vars
  <2>2. UNCHANGED redacted \/ \E e \in Events : RemoveHead(e)
    BY <1>1 DEF Bystanders, Pump, ReceiveChunk, StoreMail, EndChunk, pumpRest,
         ExtractionStage, OverviewStage, OverviewFails, RepostOverview, Resend, others,
         Stop, vars, matrixVars
  <2> QED
    BY <1>0, <2>1, <2>2, HeadsUntouched DEF RemoveHead, Mishap
<1>2. CASE SortingStage
  <2>1. UNCHANGED <<timeline, redacted>>
    BY <1>2 DEF SortingStage, matrixVars
  <2>2. CASE CreateThread
    <3>1. sorter.cur \in Stored /\ AddThread(sorter.cur) /\ UNCHANGED mail
      BY <2>2 DEF CreateThread, At, Types, SorterTypes
    <3>2. Threads' = Threads \cup {Len(thread) + 1} /\ Len(thread) + 1 \notin Threads
      BY <1>0, <2>1, <3>1, AddThreadTypes, EventsStay, ThreadsAreNumbers
    <3>3. ~SameRows /\ ~UNCHANGED thread
      BY <3>2 DEF SameRows, Threads
    <3>4. \A t \in Threads : thread'[t] = thread[t]
      BY <1>2, <3>3, SortingCases DEF SortsNext
    <3> QED
      BY <2>1, <3>2, <3>4 DEF SameHeads
  <2>3. CASE ~CreateThread
    <3>1. UNCHANGED thread \/ UpdateThreadLastMail(sorter.target, sorter.cur)
      BY <1>2, <2>3 DEF SortingStage, Sorting, SortingStep, SortingBegin,
         LockThreadSorting, WaitForCompleteData, AutoUpdateMailSorting,
         ListMailsRequiringSorting, LookUpReplyTo, LookUpReferences, JoinThread,
         TouchThread, MarkMailAsSorted, ClaimHead, FinishSorting, dbVars
    <3> QED
      BY <1>0, <2>1, <3>1, HeadsUntouched
  <2> QED
    BY <2>2, <2>3
<1>3. ASSUME NEW c \in Commands, Command(c)
      PROVE  /\ cmd[c].pc \notin MoveSteps => SameHeads
             /\ UNCHANGED redacted
  <2>1. UNCHANGED redacted
    BY <1>3 DEF Command, Issue, SetThreadState, MoveStart, ReplyStart, CommandStep,
         MoveForgetHead, MoveForgetMails, MoveRehome, MoveRequest, ReplyFindOriginal,
         ReplyLock, ReplySend, ReplyStore, ReplyAddMail, ReplySetMessages,
         ReplyJoinThread, ReplyTouchThread, ReplyRecord, StagesAnswer, ReplySendFails,
         matrixVars
  <2>2. ASSUME cmd[c].pc \notin MoveSteps
        PROVE  \/ UNCHANGED thread
               \/ UpdateThreadLastMail(cmd[c].thread, NewMail(c))
               \/ \E room, id, enabled, force : UpdateThreadEnabled(room, id, enabled, force)
    BY <1>3, <2>2 DEF MoveSteps, Command, Issue, SetThreadState, MoveStart, ReplyStart,
         CommandStep, MoveForgetHead, MoveForgetMails, MoveRehome, MoveRequest,
         ReplyFindOriginal, ReplyLock, ReplySend, ReplyStore, ReplyAddMail, ReplySetMessages,
         ReplyJoinThread, ReplyTouchThread, ReplyRecord, StagesAnswer, ReplySendFails,
         dbVars
  <2> QED
    BY <1>0, <2>1, <2>2, HeadsUntouched
<1>4. CASE Crash \/ Exit
  BY <1>0, <1>4, HeadsUntouched DEF Crash, Exit, StartAgain, dbVars, matrixVars
<1> QED
  BY <1>1, <1>2, <1>3, <1>4, Steps

\* What the notification stage does with the list of the threads without a head.
ListsHeads ==
    /\ UNCHANGED thread /\ notifier'.pc # "record head"
    /\ \A row \in notifier'.threads :
        /\ row.id \in MatrixReadyThreads
        /\ \A other \in notifier'.threads : other.id = row.id => other = row

TakesHead ==
    /\ UNCHANGED thread
    /\ \E row \in notifier.threads : /\ notifier'.head = row.id
                                     /\ notifier'.threads = notifier.threads \ {row}

KeepsHeads ==
    /\ notifier'.threads \subseteq notifier.threads /\ notifier'.pc # "record head"
    /\ NoThreadIds \/ RecordsHead

Forgetting == {"forget head", "forget mails"}

LEMMA NotifierHeads ==
  ASSUME Types, NotificationStage \/ MistakeHead \/ LoseAnswer
  PROVE  /\ ListsHeads \/ TakesHead \/ KeepsHeads
         /\ UNCHANGED redacted
         /\ notifier'.pc \in Forgetting =>
                notifier.pc = "forget head" \/ redacted # {} \/ mishaps' = mishaps + 1
<1> USE Names
<1>0. DbTypes /\ notifier \in NotifierRecord
  BY DEF Types, NotifierTypes, NotifierRecord
<1>1. UNCHANGED redacted
  BY DEF NotificationStage, MistakeHead, LoseAnswer, Notification, NotificationStep,
     NotificationFails, NotificationBegin, ListMatrixReadyThreads, PostHead, RecordHead,
     LinkRecreation, LinkFails, ListMatrixReadyMails, CheckThread, SendMail, RecordMail,
     FindHeadRedacted, MistakeHeadForRedacted, ForgetHead, ForgetMails, ForgettingFails,
     SendFails, AnswerLost, FinishNotification, matrixVars
<1>2. UNCHANGED thread => NoThreadIds
  BY <1>0, ThreadIds
<1>3. ASSUME NEW pc \in NotifierSteps \ ({"record head"} \cup Forgetting),
             notifier'.pc = pc, notifier'.threads \subseteq notifier.threads,
             NoThreadIds \/ RecordsHead
      PROVE  KeepsHeads /\ notifier'.pc \notin Forgetting
  BY <1>3 DEF KeepsHeads
<1>4. CASE \/ NotificationBegin \/ LinkRecreation \/ LinkFails \/ SendMail \/ RecordMail
  <2>1. /\ UNCHANGED thread /\ notifier'.threads = notifier.threads
        /\ notifier'.pc \in {"threads", "post", "record mail", "send"}
    BY <1>0, <1>4 DEF NotificationBegin, LinkRecreation, LinkFails, SendMail, RecordMail,
       dbVars, NotifierRecord
  <2> QED
    BY <1>1, <1>2, <1>3, <2>1 DEF NotifierSteps, Forgetting
<1>5. CASE ListMatrixReadyMails
  <2>1. /\ UNCHANGED thread /\ notifier'.threads = notifier.threads
        /\ notifier'.pc \in {"check", "send"}
    BY <1>0, <1>5 DEF ListMatrixReadyMails, dbVars, NotifierRecord
  <2> QED
    BY <1>1, <1>2, <1>3, <2>1 DEF NotifierSteps, Forgetting
<1>6. CASE \E t \in Threads : CheckThread(t)
  <2>1. /\ UNCHANGED thread /\ notifier'.threads = notifier.threads
        /\ notifier'.pc \in {"check", "send"}
    BY <1>0, <1>6 DEF CheckThread, dbVars, NotifierRecord
  <2> QED
    BY <1>1, <1>2, <1>3, <2>1 DEF NotifierSteps, Forgetting
<1>7. CASE SendFails \/ LoseAnswer \/ ForgetMails \/ ForgettingFails \/ FinishNotification
  <2>1. UNCHANGED thread /\ (CallAgain \/ notifier' = IdleNotifier)
    BY <1>7 DEF SendFails, LoseAnswer, AnswerLost, ForgetMails, ForgettingFails,
       FinishNotification, dbVars
  <2>2. notifier'.threads \subseteq notifier.threads /\ notifier'.pc \in {"threads", "rest"}
    <3>1. IdleNotifier.threads = {} /\ IdleNotifier.pc = "rest"
      BY DEF IdleNotifier
    <3>2. \/ notifier' = IdleNotifier
          \/ notifier' = [notifier EXCEPT !.pc = "threads", !.mails = {}, !.gone = {}]
      BY <2>1 DEF CallAgain
    <3> QED
      BY <1>0, <3>1, <3>2 DEF NotifierRecord
  <2> QED
    BY <1>1, <1>2, <1>3, <2>1, <2>2 DEF NotifierSteps, Forgetting
<1>8. CASE ListMatrixReadyThreads
  <2> DEFINE listed == IF Cancelled THEN {} ELSE MatrixReadyThreads
             rows == {[id |-> t, first |-> thread[t].first, room |-> thread[t].room] :
                        t \in listed}
  <2>1. /\ UNCHANGED thread /\ notifier'.pc \in {"mails", "post"}
        /\ notifier'.threads = rows
    BY <1>0, <1>8 DEF ListMatrixReadyThreads, dbVars, NotifierRecord
  <2>2. \A row \in rows : /\ row.id \in MatrixReadyThreads
                          /\ \A other \in rows : other.id = row.id => other = row
    OBVIOUS
  <2> HIDE DEF rows
  <2> QED
    BY <1>1, <2>1, <2>2 DEF ListsHeads, Forgetting
<1>9. CASE PostHead
  <2>1. PICK row \in notifier.threads :
            notifier' = [notifier EXCEPT !.pc = "record head", !.threads = @ \ {row},
                                         !.head = row.id, !.id = Len(timeline) + 1]
    BY <1>9 DEF PostHead
  <2>2. /\ UNCHANGED thread /\ notifier'.pc = "record head"
        /\ notifier'.threads = notifier.threads \ {row} /\ notifier'.head = row.id
    BY <1>0, <1>9, <2>1 DEF PostHead, dbVars, NotifierRecord
  <2> QED
    BY <1>1, <2>2 DEF TakesHead, Forgetting
<1>10. CASE RecordHead
  <2>1. /\ UNCHANGED <<mail, timeline>> /\ notifier.pc = "record head"
        /\ notifier'.pc = "link" /\ notifier'.threads = notifier.threads
        /\ notifier'.mails = notifier.mails
        /\ UNCHANGED thread \/ UpdateThreadMatrixIds(notifier.head,
                                  timeline[notifier.id].room, notifier.id)
    BY <1>0, <1>10 DEF RecordHead, NAt, NotifierRecord, matrixVars
  <2>2. UNCHANGED thread \/ RecordsHead
    BY <2>1 DEF RecordsHead
  <2> QED
    BY <1>1, <1>2, <1>3, <2>1, <2>2 DEF NotifierSteps, Forgetting
<1>11. CASE FindHeadRedacted \/ MistakeHead
  <2>1. /\ UNCHANGED thread /\ notifier'.threads = notifier.threads
        /\ notifier'.pc = "forget head"
    BY <1>0, <1>11 DEF FindHeadRedacted, MistakeHead, MistakeHeadForRedacted, dbVars,
       NotifierRecord
  <2>2. redacted # {} \/ mishaps' = mishaps + 1
    BY <1>11 DEF FindHeadRedacted, MistakeHead, Mishap
  <2> QED
    BY <1>1, <1>2, <2>1, <2>2 DEF KeepsHeads
<1>12. CASE ForgetHead
  <2>1. /\ \E t : RemoveThreadMatrixId(t)
        /\ notifier'.threads = notifier.threads
        /\ notifier.pc = "forget head" /\ notifier'.pc = "forget mails"
    BY <1>0, <1>12 DEF ForgetHead, NAt, NotifierRecord
  <2>2. NoThreadIds
    BY <1>0, <2>1, ThreadIds
  <2> QED
    BY <1>1, <2>1, <2>2 DEF KeepsHeads
<1> QED
  BY <1>1, <1>4, <1>5, <1>6, <1>7, <1>8, <1>9, <1>10, <1>11, <1>12
     DEF NotificationStage, Notification, NotificationStep, NotificationFails
-----------------------------------------------------------------------------

PostedBefore(p) == \E e \in Events : timeline[e].kind = "mail" /\ timeline[e].of = p

\* p is posted under the head r; two mishaps may have left it under another one.
PostedUnder(p, r) ==
    \E e \in Events : /\ timeline[e].kind = "mail" /\ timeline[e].of = p
                      /\ timeline[e].root = r \/ mishaps > 1

\* The mails that m answers in its thread are posted under the head r, or are
\* going to be.
Precedes(m, r, rows) ==
    \A p \in Mails : Follows(m, p) =>
        PostedUnder(p, r) \/ \E other \in rows : other.id = p

\* What e answers was posted before.
PostedAfter(e) ==
    timeline[e].kind = "mail" =>
        \A p \in Mails : Follows(timeline[e].of, p) =>
            \E f \in Events :
                /\ timeline[f].kind = "mail" /\ timeline[f].of = p /\ f < e
                /\ timeline[f].root = timeline[e].root \/ mishaps > 1

\* A mail that has an id is posted under the head of its thread, unless the
\* stage is about to forget the ids of the thread.
KnownPosted(m) ==
    mail[m].matrix # None =>
        \/ PostedUnder(m, thread[mail[m].thread].matrix)
        \/ /\ notifier.pc = "forget mails" /\ PostedBefore(m)
           /\ \E row \in notifier.gone : row.thread = mail[m].thread

\* A mishap comes before every head that is removed or taken to be, and before
\* every shutdown.
MishapsPaid ==
    /\ mishaps >= Stopping
    /\ redacted # {} \/ notifier.pc \in Forgetting => mishaps >= 1 + Stopping

\* A thread that waits for a head has none, and waits once.
HeadsListed ==
    /\ \A row \in notifier.threads :
        /\ thread[row.id].matrix = None
        /\ \A other \in notifier.threads : other.id = row.id => other = row
        /\ notifier.pc = "record head" => row.id # notifier.head
    /\ notifier.pc = "record head" => thread[notifier.head].matrix = None

Sending == {"check", "send", "record mail"}

\* The mails that are listed go under the heads of their threads.
ParentsInv ==
    /\ MishapsPaid /\ HeadsListed
    /\ \A e \in Events : PostedAfter(e)
    /\ \A m \in Mails : KnownPosted(m)
    /\ notifier.pc \in Sending => \A row \in notifier.mails :
        /\ row.root = thread[row.thread].matrix
        /\ Precedes(row.id, row.root, notifier.mails)
    /\ notifier.pc = "record mail" =>
        timeline[notifier.id].root = thread[mail[notifier.mail].thread].matrix
    /\ notifier.pc = "forget mails" => \E row : notifier.gone = {row}

LEMMA PaidStays ==
  ASSUME Types, Types', SortInv, MishapsPaid, [Next]_vars
  PROVE  MishapsPaid'
<1>0. /\ mishaps \in Nat /\ mishaps' \in Nat /\ mishaps' >= mishaps
      /\ Stopping \in Nat /\ Stopping' \in Nat
  BY MishapsGrow DEF Stopping
<1>1. Serves => Stopping' = Stopping
  BY DEF Serves, Stopping
<1>2. CASE NotificationStage \/ MistakeHead \/ LoseAnswer
  <2>1. /\ Serves /\ UNCHANGED redacted
        /\ notifier'.pc \in Forgetting =>
            notifier.pc \in Forgetting \/ redacted # {} \/ mishaps' = mishaps + 1
    BY <1>2, StagesServe, NotifierHeads DEF Forgetting
  <2> QED
    BY <1>0, <1>1, <2>1 DEF MishapsPaid
<1>3. CASE ~(NotificationStage \/ MistakeHead \/ LoseAnswer)
  <2>1. CASE Crash \/ Exit
    <3>1. /\ notifier'.pc = "rest" /\ Stopping' = 0 /\ UNCHANGED redacted
          /\ mishaps' = mishaps + 1 \/ Stopping = 1
      BY <2>1 DEF Crash, Exit, StartAgain, IdleNotifier, Stopping, Mishap, matrixVars
    <3>2. mishaps' >= 1
      <4>1. CASE mishaps' = mishaps + 1
        BY <1>0, <4>1
      <4>2. CASE Stopping = 1
        BY <1>0, <4>2 DEF MishapsPaid
      <4> QED
        BY <3>1, <4>1, <4>2
    <3>3. notifier'.pc \notin Forgetting
      BY <3>1 DEF Forgetting
    <3>4. mishaps' >= 1 + Stopping' /\ mishaps' >= Stopping'
      BY <1>0, <3>1, <3>2
    <3> QED
      BY <3>3, <3>4 DEF MishapsPaid
  <2>2. CASE ~(Crash \/ Exit)
    <3>1. UNCHANGED notifier /\ (UNCHANGED redacted \/ mishaps' = mishaps + 1)
      BY <1>3, <2>2, OtherIds, OthersKeepHeads
    <3>2. CASE Serves
      BY <1>0, <1>1, <3>1, <3>2 DEF MishapsPaid
    <3>3. CASE Stop
      <4>1. /\ UNCHANGED redacted /\ mishaps' = mishaps + 1
            /\ Stopping = 0 /\ Stopping' = 1
        BY <3>3 DEF Stop, Mishap, matrixVars, Stopping, StageNames
      <4> QED
        BY <1>0, <3>1, <4>1 DEF MishapsPaid
    <3> QED
      BY <2>2, <3>2, <3>3, StagesServe
  <2> QED
    BY <2>1, <2>2
<1> QED
  BY <1>2, <1>3

LEMMA HeadsStayListed ==
  ASSUME Types, Types', SortInv, HeadsListed, [Next]_vars
  PROVE  HeadsListed'
<1> USE Names
<1>0. /\ \A row \in notifier.threads : row.id \in Threads
      /\ notifier.pc = "record head" => notifier.head \in Threads
  BY DEF Types, NotifierTypes
<1>1. NoThreadIds => \A t \in Threads : t \in Threads' /\ thread[t].matrix = None
                                            => thread'[t].matrix = None
  BY DEF NoThreadIds
<1>2. Threads \subseteq Threads'
  BY StaySettled DEF Settled
<1>3. CASE NotificationStage \/ MistakeHead \/ LoseAnswer
  <2>1. CASE ListsHeads
    BY <2>1 DEF ListsHeads, HeadsListed, MatrixReadyThreads
  <2>2. CASE TakesHead
    BY <2>2 DEF TakesHead, HeadsListed
  <2>3. CASE KeepsHeads /\ NoThreadIds
    BY <1>0, <1>1, <1>2, <2>3 DEF KeepsHeads, HeadsListed
  <2>4. CASE KeepsHeads /\ RecordsHead
    <3>1. PICK h, n : h = notifier.head /\ n = notifier.id /\ h \in Threads
      BY <1>0, <2>4 DEF RecordsHead
    <3>2. \A u \in Threads \ {h} : thread'[u] = thread[u]
      BY <2>4, <3>1, ThreadIds DEF RecordsHead, Types
    <3> QED
      BY <1>0, <2>4, <3>1, <3>2 DEF RecordsHead, KeepsHeads, HeadsListed
  <2> QED
    BY <1>3, <2>1, <2>2, <2>3, <2>4, NotifierHeads DEF KeepsHeads
<1>4. CASE ~(NotificationStage \/ MistakeHead \/ LoseAnswer)
  <2>1. NoThreadIds /\ (UNCHANGED notifier \/ notifier' = IdleNotifier)
    BY <1>4, OtherIds
  <2>2. CASE UNCHANGED notifier
    BY <1>0, <1>1, <1>2, <2>1, <2>2 DEF HeadsListed
  <2>3. CASE notifier' = IdleNotifier
    BY <2>3 DEF HeadsListed, IdleNotifier
  <2> QED
    BY <2>1, <2>2, <2>3
<1> QED
  BY <1>3, <1>4

\* What has been posted stays, and another mishap takes nothing back.
LEMMA PostsStay ==
  ASSUME Lasting, mishaps \in Nat, mishaps' \in Nat, mishaps' >= mishaps
  PROVE  /\ \A p, r : PostedUnder(p, r) => PostedUnder(p, r)'
         /\ \A p : PostedBefore(p) => PostedBefore(p)'
         /\ mishaps' > 1 => \A p, r : PostedBefore(p) => PostedUnder(p, r)'
BY DEF Lasting, PostedUnder, PostedBefore

\* Where nothing is sorted anew, what was posted after another mail still is,
\* and a list stays complete from which only posted mails are taken.
LEMMA OrderStays ==
  ASSUME Types, HomeInv, Lasting, mishaps \in Nat, mishaps' \in Nat, mishaps' >= mishaps,
         \A m, p \in Mails : mail[m].thread # None /\ Follows(m, p)' => Follows(m, p)
  PROVE  /\ \A e \in Events : PostedAfter(e) => PostedAfter(e)'
         /\ \A m \in Mails : \A r, rows, newer :
            /\ mail[m].thread # None /\ Precedes(m, r, rows)
            /\ \A p \in Mails : \A other \in rows :
                Follows(m, p) /\ other.id = p => other \in newer \/ PostedUnder(p, r)'
            => Precedes(m, r, newer)'
<1>1. ASSUME NEW e \in Events, PostedAfter(e)
      PROVE  PostedAfter(e)'
  <2> SUFFICES ASSUME timeline'[e].kind = "mail", NEW p \in Mails,
                      Follows(timeline[e].of, p)'
               PROVE  \E f \in Events' :
                        /\ timeline'[f].kind = "mail" /\ timeline'[f].of = p /\ f < e
                        /\ timeline'[f].root = timeline'[e].root \/ mishaps' > 1
    BY DEF PostedAfter
  <2>1. timeline'[e] = timeline[e]
    BY DEF Lasting
  <2>2. PICK m \in Mails : m = timeline[e].of /\ mail[m].thread # None
    BY <2>1 DEF HomeInv, PostedHome
  <2>3. Follows(m, p)'
    BY <2>1, <2>2 DEF Follows
  <2>4. PICK f \in Events :
            /\ timeline[f].kind = "mail" /\ timeline[f].of = p /\ f < e
            /\ timeline[f].root = timeline[e].root \/ mishaps > 1
    BY <1>1, <2>1, <2>2, <2>3 DEF PostedAfter
  <2> QED
    BY <2>1, <2>4 DEF Lasting
<1>2. ASSUME NEW m \in Mails, NEW r, NEW rows, NEW newer,
             mail[m].thread # None, Precedes(m, r, rows),
             \A p \in Mails : \A other \in rows :
                Follows(m, p) /\ other.id = p => other \in newer \/ PostedUnder(p, r)'
      PROVE  Precedes(m, r, newer)'
  <2> SUFFICES ASSUME NEW p \in Mails, Follows(m, p)'
               PROVE  PostedUnder(p, r)' \/ \E other \in newer : other.id = p
    BY DEF Precedes
  <2>1. Follows(m, p)
    BY <1>2
  <2> QED
    BY <1>2, <2>1, PostsStay DEF Precedes
<1> QED
  BY <1>1, <1>2

LEMMA OthersKeepParents ==
  ASSUME NoReply, Types, Types', SortInv, ListsInv, HomeInv, MirrorInv, AnsweredFirst,
         ParentsInv, [Next]_vars, ~(NotificationStage \/ MistakeHead \/ LoseAnswer)
  PROVE  ParentsInv'
<1> USE Names
<1>0. /\ UNCHANGED timeline /\ Events' = Events /\ Lasting /\ DbTypes /\ Settled
      /\ mishaps \in Nat /\ mishaps' \in Nat /\ mishaps' >= mishaps
  BY OtherIds, EventsStay, EventsLast, MishapsGrow, StaySettled DEF Types
<1>1. /\ SameHeads /\ SameMailIds
      /\ UNCHANGED notifier \/ (notifier' = IdleNotifier /\ (Crash \/ Exit))
  <2>1. \A c \in Commands : cmd[c].pc \notin MoveSteps /\ cmd[c].pc # "record"
    BY DEF MirrorInv, NoReply, SortInv, WritingInv, ReplySteps
  <2>2. SameMailIds
    BY <2>1, OtherIds DEF MoveSteps
  <2>3. SameHeads
    BY <2>1, OthersKeepHeads
  <2>4. UNCHANGED notifier \/ (notifier' = IdleNotifier /\ (Crash \/ Exit))
    BY OtherIds
  <2> QED
    BY <2>2, <2>3, <2>4
<1>2. \A m, p \in Mails : mail[m].thread # None /\ Follows(m, p)' => Follows(m, p)
  BY FollowsStays DEF SortInv, RowsInv
<1>3. MishapsPaid' /\ HeadsListed'
  BY PaidStays, HeadsStayListed DEF ParentsInv
<1>4. \A e \in Events' : PostedAfter(e)'
  BY <1>0, <1>2, OrderStays DEF ParentsInv
<1>5. ASSUME NEW m \in Mails
      PROVE  KnownPosted(m)'
  <2>1. CASE mail[m].matrix = None
    BY <1>1, <2>1 DEF KnownPosted, SameMailIds
  <2>2. CASE mail[m].matrix # None
    <3>1. KnownPosted(m)
      BY DEF ParentsInv
    <3>2. PostedBefore(m)
      BY <2>2, <3>1 DEF KnownPosted, PostedBefore, PostedUnder
    <3>3. mail[m].thread # None
      BY <3>2 DEF PostedBefore, HomeInv, PostedHome
    <3>4. PICK t \in Threads : t = mail[m].thread
      BY <1>0, <3>3 DEF DbTypes
    <3>5. mail'[m].thread = t /\ thread'[t].matrix = thread[t].matrix
      BY <1>0, <1>1, <3>3, <3>4 DEF Settled, SameHeads
    <3>6. CASE PostedUnder(m, thread[t].matrix)
      <4>1. PICK r : r = thread[t].matrix
        OBVIOUS
      <4>2. PostedUnder(m, r)'
        BY <1>0, <3>6, <4>1, PostsStay
      <4> QED
        BY <3>5, <4>1, <4>2 DEF KnownPosted
    <3>7. CASE ~PostedUnder(m, thread[t].matrix)
      <4>1. /\ notifier.pc = "forget mails"
            /\ \E row \in notifier.gone : row.thread = mail[m].thread
        BY <2>2, <3>1, <3>4, <3>7 DEF KnownPosted
      <4>2. CASE UNCHANGED notifier
        BY <1>0, <3>2, <3>4, <3>5, <4>1, <4>2, PostsStay DEF KnownPosted
      <4>3. CASE Crash \/ Exit
        <5>1. mishaps >= 1
          <6>1. mishaps >= 1 + Stopping /\ Stopping \in Nat
            BY <4>1 DEF ParentsInv, MishapsPaid, Forgetting, Stopping
          <6> QED
            BY <1>0, <6>1
        <5>4. mishaps' = mishaps + 1
          BY <4>1, <4>3 DEF Crash, Exit, AtRest, Mishap
        <5>2. PICK r : r = thread'[t].matrix
          OBVIOUS
        <5>3. PostedUnder(m, r)'
          BY <1>0, <3>2, <5>1, <5>4, PostsStay
        <5> QED
          BY <3>5, <5>2, <5>3 DEF KnownPosted
      <4> QED
        BY <1>1, <4>2, <4>3
    <3> QED
      BY <3>6, <3>7
  <2> QED
    BY <2>1, <2>2
<1>6. CASE notifier' = IdleNotifier
  <2>1. notifier'.pc = "rest"
    BY <1>6 DEF IdleNotifier
  <2> QED
    BY <1>3, <1>4, <1>5, <2>1 DEF ParentsInv, Sending
<1>7. CASE UNCHANGED notifier
  <2>1. ASSUME notifier.pc \in Sending, NEW row \in notifier.mails
        PROVE  /\ row.root = thread'[row.thread].matrix
               /\ Precedes(row.id, row.root, notifier.mails)'
    <3>1. /\ row.id \in Mails /\ row.thread \in Threads /\ mail[row.id].thread = row.thread
          /\ row.thread # None
      <4>1. row \in ReplyRow /\ RowHome(row)
        BY DEF Types, NotifierTypes, HomeInv
      <4>2. row.id \in Mails /\ row.thread # None /\ mail[row.id].thread = row.thread
        BY <4>1 DEF ReplyRow, RowHome
      <4> QED
        BY <1>0, <4>2 DEF DbTypes
    <3>2. row.root = thread[row.thread].matrix /\ Precedes(row.id, row.root, notifier.mails)
      BY <2>1 DEF ParentsInv
    <3>3. PICK m, r, rows : m \in Mails /\ m = row.id /\ r = row.root /\ rows = notifier.mails
      BY <3>1
    <3>4. Precedes(m, r, rows)'
      BY <1>0, <1>2, <3>1, <3>2, <3>3, OrderStays
    <3>5. Precedes(m, r, notifier.mails)'
      BY <1>7, <3>3, <3>4
    <3> QED
      BY <1>1, <3>1, <3>2, <3>3, <3>5 DEF SameHeads
  <2>2. ASSUME notifier.pc = "record mail"
        PROVE  timeline'[notifier'.id].root = thread'[mail'[notifier'.mail].thread].matrix
    <3>1. PICK m \in Mails : /\ m = notifier.mail /\ mail[m].thread # None
      BY <2>2 DEF HomeInv, PostedHome, Types, NotifierTypes
    <3>2. mail[m].thread \in Threads
      BY <1>0, <3>1 DEF DbTypes
    <3>3. timeline[notifier.id].root = thread[mail[m].thread].matrix
      BY <2>2, <3>1 DEF ParentsInv
    <3> QED
      BY <1>0, <1>1, <1>7, <3>1, <3>2, <3>3 DEF Settled, SameHeads
  <2>3. \A row \in notifier'.mails : notifier'.pc \in Sending =>
            /\ row.root = thread'[row.thread].matrix
            /\ Precedes(row.id, row.root, notifier.mails)'
    BY <1>7, <2>1
  <2> QED
    BY <1>3, <1>4, <1>5, <1>7, <2>2, <2>3 DEF ParentsInv
<1> QED
  BY <1>1, <1>6, <1>7

LEMMA NotifierKeepsParents ==
  ASSUME TimesInOrder, NoReply, Types, Types', SortInv, ListsInv, HomeInv, MirrorInv,
         AnsweredFirst, ExtractedFirst, ParentsInv, [Next]_vars,
         NotificationStage \/ MistakeHead \/ LoseAnswer
  PROVE  ParentsInv'
<1> USE Names
<1>0. /\ Lasting /\ DbTypes
      /\ mishaps \in Nat /\ mishaps' \in Nat /\ mishaps' >= mishaps
      /\ MishapsPaid' /\ HeadsListed' /\ MishapsPaid /\ HeadsListed
  BY EventsLast, MishapsGrow, PaidStays, HeadsStayListed DEF Types, ParentsInv
<1>1. SameStatus /\ SameReplies
  <2>1. notifier.pc = "record mail" => notifier.mail \in Mails
    BY DEF Types, NotifierTypes
  <2>2. \/ UNCHANGED mail
        \/ UpdateMailMatrixId(notifier.mail, notifier.id) /\ notifier.pc = "record mail"
        \/ \E t : RemoveMailMatrixIdsByThread(t)
    BY NotifierCases DEF Looks, ListsMails, PostsLink, RecordsHead, RecordsMail, PostsHead,
       PostsMail, ForgetsHead, ForgetsMails, Posting
  <2> QED
    BY <1>0, <2>1, <2>2, NotifierLeaves, Replies
<1>2. /\ \A m, p \in Mails : Follows(m, p)' <=> Follows(m, p)
      /\ \A m \in Mails : mail'[m].thread = mail[m].thread
  BY <1>1 DEF Follows, SameStatus, SameReplies
<1>3. /\ \A e \in Events : PostedAfter(e) => PostedAfter(e)'
      /\ \A m \in Mails : \A r, rows, newer :
            /\ mail[m].thread # None /\ Precedes(m, r, rows)
            /\ \A p \in Mails : \A other \in rows :
                Follows(m, p) /\ other.id = p => other \in newer \/ PostedUnder(p, r)'
            => Precedes(m, r, newer)'
  BY <1>0, <1>2, OrderStays
<1>4. UNCHANGED timeline => \A e \in Events' : PostedAfter(e)'
  BY <1>3 DEF ParentsInv, Events
<1>5. \A row \in notifier.mails :
        /\ row.id \in Mails /\ row.thread # None /\ mail[row.id].thread = row.thread
        /\ row.thread \in Threads
  <2> SUFFICES ASSUME NEW row \in notifier.mails
               PROVE  /\ row.id \in Mails /\ row.thread # None
                      /\ mail[row.id].thread = row.thread /\ row.thread \in Threads
    OBVIOUS
  <2>1. row \in ReplyRow /\ RowHome(row)
    BY DEF Types, NotifierTypes, HomeInv
  <2>2. row.id \in Mails /\ row.thread # None /\ mail[row.id].thread = row.thread
    BY <2>1 DEF ReplyRow, RowHome
  <2> QED
    BY <1>0, <2>2 DEF DbTypes
\* Where the tables do not change, what was known to be posted is.
<1>6. ASSUME UNCHANGED <<mail, thread>>, notifier.pc = "forget mails" => Cancelled
      PROVE  \A m \in Mails : KnownPosted(m)'
  <2> SUFFICES ASSUME NEW m \in Mails, mail[m].matrix # None
               PROVE  KnownPosted(m)'
    BY <1>6 DEF KnownPosted
  <2>1. PICK r : r = thread[mail[m].thread].matrix
    OBVIOUS
  <2>2. KnownPosted(m)
    BY DEF ParentsInv
  <2>3. CASE PostedUnder(m, r)
    BY <1>0, <1>6, <2>1, <2>3, PostsStay DEF KnownPosted
  <2>4. CASE ~PostedUnder(m, r)
    <3>1. notifier.pc = "forget mails" /\ PostedBefore(m)
      BY <2>1, <2>2, <2>4 DEF KnownPosted
    <3>2. Stopping = 1
      BY <1>6, <3>1 DEF Cancelled, Stopping
    <3>3. mishaps >= 2 /\ mishaps' > 1
      <4>1. mishaps >= 1 + Stopping
        BY <1>0, <3>1 DEF MishapsPaid, Forgetting
      <4> QED
        BY <1>0, <3>2, <4>1
    <3>4. PostedUnder(m, r)'
      BY <1>0, <3>1, <3>3, PostsStay
    <3> QED
      BY <1>6, <2>1, <3>4 DEF KnownPosted
  <2> QED
    BY <2>3, <2>4
\* The other parts, where nothing is listed or to be recorded.
<1>7. ASSUME notifier'.pc \notin Sending \cup {"forget mails"},
             \A e \in Events' : PostedAfter(e)', \A m \in Mails : KnownPosted(m)'
      PROVE  ParentsInv'
  BY <1>0, <1>7 DEF ParentsInv, Sending
<1>8. ASSUME notifier'.pc \in {"check", "send"},
             \A e \in Events' : PostedAfter(e)', \A m \in Mails : KnownPosted(m)',
             NEW newer, newer = notifier'.mails,
             \A row \in newer :
                /\ row.root = thread'[row.thread].matrix
                /\ Precedes(row.id, row.root, newer)'
      PROVE  ParentsInv'
  BY <1>0, <1>8 DEF ParentsInv
<1>9. ASSUME NEW e, Posting(e)
      PROVE  /\ Events' = Events \cup {Len(timeline) + 1} /\ timeline'[Len(timeline) + 1] = e
             /\ \A i \in Events : i < Len(timeline) + 1 /\ PostedAfter(i)'
             /\ \A m \in Mails : KnownPosted(m)'
  <2>1. /\ Events' = Events \cup {Len(timeline) + 1} /\ timeline'[Len(timeline) + 1] = e
        /\ UNCHANGED <<mail, thread>> /\ notifier.pc # "forget mails"
    BY <1>9, NextEvent DEF Posting
  <2>2. \A i \in Events : i < Len(timeline) + 1
    BY LenProperties DEF Types, ChatTypes, Events
  <2> QED
    BY <1>3, <1>6, <2>1, <2>2 DEF ParentsInv
<1>10. CASE Looks
  <2>1. (\A e \in Events' : PostedAfter(e)') /\ \A m \in Mails : KnownPosted(m)'
    BY <1>4, <1>6, <1>10 DEF Looks
  <2>2. CASE notifier'.pc \notin {"check", "send"}
    <3>1. notifier'.pc \notin Sending \cup {"forget mails"}
      BY <1>10, <2>2 DEF Looks, Sending
    <3> QED
      BY <1>7, <2>1, <3>1
  <2>3. CASE notifier'.pc \in {"check", "send"}
    <3> PICK newer : newer = notifier'.mails
      OBVIOUS
    <3>1. ASSUME NEW row \in newer
          PROVE  /\ row.root = thread'[row.thread].matrix
                 /\ Precedes(row.id, row.root, newer)'
      <4>1. /\ row \in notifier.mails /\ row.root = thread[row.thread].matrix
            /\ Precedes(row.id, row.root, notifier.mails)
        BY <1>10, <2>3, <3>1 DEF Looks, ParentsInv, Sending
      <4>2. PICK m, r, rows :
                /\ m \in Mails /\ m = row.id /\ r = row.root /\ rows = notifier.mails
        BY <1>5, <4>1
      <4>5. \A other \in rows : other.thread = row.thread => other \in newer
        BY <1>10, <2>3, <3>1, <4>2 DEF Looks
      <4>3. \A p \in Mails : \A other \in rows :
                Follows(m, p) /\ other.id = p => other \in newer
        BY <1>5, <4>1, <4>2, <4>5 DEF Follows
      <4>4. Precedes(m, r, newer)'
        BY <1>3, <1>5, <4>1, <4>2, <4>3
      <4> QED
        BY <1>10, <4>1, <4>2, <4>4 DEF Looks
    <3> QED
      BY <1>8, <2>1, <2>3, <3>1
  <2> QED
    BY <2>2, <2>3
<1>11. CASE ListsMails
  <2>1. (\A e \in Events' : PostedAfter(e)') /\ \A m \in Mails : KnownPosted(m)'
    BY <1>4, <1>6, <1>11 DEF ListsMails
  <2> PICK newer : newer = notifier'.mails
    OBVIOUS
  <2>2. ASSUME NEW row \in newer
        PROVE  /\ row.root = thread'[row.thread].matrix
               /\ Precedes(row.id, row.root, newer)'
    <3>1. PICK m \in MatrixReadyMails :
            /\ m = row.id /\ row.thread = mail[m].thread
            /\ row.root = thread[row.thread].matrix
      BY <1>11, <2>2 DEF ListsMails
    <3>2. \A n \in MatrixReadyMails : \E other \in notifier'.mails : other.id = n
      BY <1>11, <2>2 DEF ListsMails
    <3>3. ASSUME NEW p \in Mails, Follows(m, p)
          PROVE  PostedUnder(p, row.root)' \/ \E other \in notifier'.mails : other.id = p
      <4>1. /\ m \in Mails /\ mail[p].thread = mail[m].thread /\ mail[m].thread # None
            /\ thread[mail[m].thread].matrix # None /\ mail[m].extracted
        BY <3>1, <3>3 DEF MatrixReadyMails, Stored, Follows
      <4>2. mail[p].extracted /\ mail[p].stored
        BY <3>3, <4>1 DEF ExtractedFirst, AnsweredFirst, Follows
      <4>3. CASE mail[p].matrix = None
        <5>1. p \in MatrixReadyMails
          BY <4>1, <4>2, <4>3 DEF MatrixReadyMails, Stored
        <5> QED
          BY <3>2, <5>1
      <4>4. CASE mail[p].matrix # None
        <5>1. KnownPosted(p) /\ notifier.pc # "forget mails"
          BY <1>11 DEF ParentsInv, ListsMails
        <5>2. PICK r : r = row.root
          OBVIOUS
        <5>3. PostedUnder(p, r)
          BY <3>1, <4>1, <4>4, <5>1, <5>2 DEF KnownPosted
        <5>4. PostedUnder(p, r)'
          BY <1>0, <5>3, PostsStay
        <5> QED
          BY <5>2, <5>4
      <4> QED
        BY <4>3, <4>4
    <3>4. PICK r : r = row.root
      OBVIOUS
    <3>5. \A p \in Mails : Follows(m, p)' => PostedUnder(p, r)' \/ \E other \in newer : other.id = p
      BY <1>2, <3>1, <3>3, <3>4 DEF MatrixReadyMails, Stored
    <3>6. Precedes(m, r, newer)'
      BY <3>5 DEF Precedes
    <3> QED
      BY <1>11, <3>1, <3>4, <3>6 DEF ListsMails
  <2>3. notifier'.pc \in {"check", "send"}
    BY <1>11 DEF ListsMails
  <2> QED
    BY <1>8, <2>1, <2>2, <2>3
<1>12. ASSUME NEW e, Posting(e), e.kind # "mail"
       PROVE  (\A i \in Events' : PostedAfter(i)') /\ \A m \in Mails : KnownPosted(m)'
  <2>1. PICK n : /\ Events' = Events \cup {n} /\ timeline'[n] = e
                 /\ \A i \in Events : PostedAfter(i)'
                 /\ \A m \in Mails : KnownPosted(m)'
    BY <1>9, <1>12
  <2>2. PostedAfter(n)'
    BY <1>12, <2>1 DEF PostedAfter
  <2> QED
    BY <2>1, <2>2
<1>13. CASE PostsLink \/ \E t \in Threads, room \in Rooms : PostsHead(t, room)
  <2>1. /\ notifier'.pc \in {"post", "record head"}
        /\ \E e : Posting(e) /\ e.kind # "mail"
    <3>1. \A t, room : HeadEvent(t, room).kind = "head"
      BY DEF HeadEvent
    <3> QED
      BY <1>13, <3>1 DEF PostsLink, PostsHead
  <2>2. notifier'.pc \notin Sending \cup {"forget mails"}
    BY <2>1 DEF Sending
  <2> QED
    BY <1>7, <1>12, <2>1, <2>2
<1>14. ASSUME NEW row \in ReplyRow, PostsMail(row)
       PROVE  ParentsInv'
  <2>1. /\ row \in NextMails /\ row \in notifier.mails /\ notifier.pc = "send"
        /\ row.id \in Mails /\ row.root = thread[row.thread].matrix
        /\ Precedes(row.id, row.root, notifier.mails)
        /\ mail[row.id].thread = row.thread /\ row.thread # None
        /\ UNCHANGED <<mail, thread>>
    BY <1>5, <1>14 DEF PostsMail, ParentsInv, Sending, Posting
  <2>2. PICK e : /\ Posting(e) /\ e.kind = "mail" /\ e.of = row.id /\ e.root = row.root
    <3>1. PICK e : e = MailEvent(row.id, row.room, row.root)
      OBVIOUS
    <3>2. e.kind = "mail" /\ e.of = row.id /\ e.root = row.root
      BY <3>1 DEF MailEvent
    <3>3. Posting(e)
      BY <1>14, <3>1 DEF PostsMail
    <3> QED
      BY <3>2, <3>3
  <2>3. PICK n : /\ n = Len(timeline) + 1 /\ Events' = Events \cup {n} /\ timeline'[n] = e
                 /\ \A i \in Events : i < n /\ PostedAfter(i)'
                 /\ \A m \in Mails : KnownPosted(m)'
    BY <1>9, <2>2
\* What the mail answers has an earlier date, so it is not on the list any more.
  <2>4. PostedAfter(n)'
    <3> SUFFICES ASSUME NEW p \in Mails, Follows(row.id, p)'
                 PROVE  \E f \in Events' :
                            /\ timeline'[f].kind = "mail" /\ timeline'[f].of = p /\ f < n
                            /\ timeline'[f].root = timeline'[n].root \/ mishaps' > 1
      <4>1. PICK m : m = row.id
        OBVIOUS
      <4>2. timeline'[n].of = m
        BY <2>2, <2>3, <4>1
      <4> QED
        BY <2>2, <2>3, <4>1, <4>2 DEF PostedAfter
    <3>1. Follows(row.id, p)
      BY <1>2, <2>1
    <3>2. p = InReplyTo[row.id] /\ Time[p] < Time[row.id]
          /\ Time[p] \in Nat /\ Time[row.id] \in Nat
      BY <2>1, <3>1, MailAssumption DEF AnsweredFirst, Follows, TimesInOrder
    <3>3. \A other \in notifier.mails : other.id # p
      BY <2>1, <3>2 DEF NextMails
    <3>4. PostedUnder(p, row.root)
      BY <2>1, <3>1, <3>3 DEF Precedes
    <3>5. PICK f \in Events : /\ timeline[f].kind = "mail" /\ timeline[f].of = p
                              /\ timeline[f].root = row.root \/ mishaps > 1
      BY <3>4 DEF PostedUnder
    <3> QED
      BY <1>0, <2>2, <2>3, <3>5 DEF Lasting
  <2>5. \A i \in Events' : PostedAfter(i)'
    BY <2>3, <2>4
  <2>6. CASE notifier'.pc \in {"threads", "rest"}
    <3>1. notifier'.pc \notin Sending \cup {"forget mails"}
      BY <2>6 DEF Sending
    <3> QED
      BY <1>7, <2>3, <2>5, <3>1
  <2>7. CASE notifier'.pc = "record mail"
    <3>1. /\ notifier'.mails = notifier.mails \ {row} /\ notifier'.mail = row.id
          /\ notifier'.id = n
      BY <1>14, <2>3, <2>7 DEF PostsMail
    <3> PICK newer : newer = notifier'.mails
      OBVIOUS
    <3>2. ASSUME NEW other \in newer
          PROVE  /\ other.root = thread'[other.thread].matrix
                 /\ Precedes(other.id, other.root, newer)'
      <4>1. /\ other \in notifier.mails /\ other.root = thread[other.thread].matrix
            /\ Precedes(other.id, other.root, notifier.mails)
            /\ other.id \in Mails /\ mail[other.id].thread = other.thread
            /\ other.thread # None
        BY <1>5, <2>1, <3>1 DEF ParentsInv, Sending
      <4>2. PICK m, r, rows :
                /\ m \in Mails /\ m = other.id /\ r = other.root /\ rows = notifier.mails
        BY <4>1
      <4>3. ASSUME NEW p \in Mails, NEW third \in rows, Follows(m, p), third.id = p
            PROVE  third \in newer \/ PostedUnder(p, r)'
        <5>1. CASE third # row
          BY <3>1, <4>2, <4>3, <5>1
        <5>2. CASE third = row
          <6>1. row.thread = other.thread
            BY <2>1, <4>1, <4>2, <4>3, <5>2 DEF Follows
          <6>2. /\ n \in Events' /\ timeline'[n].kind = "mail" /\ timeline'[n].of = p
                /\ timeline'[n].root = r
            BY <2>1, <2>2, <2>3, <4>1, <4>2, <4>3, <5>2, <6>1
          <6> QED
            BY <6>2 DEF PostedUnder
        <5> QED
          BY <5>1, <5>2
      <4>4. Precedes(m, r, newer)'
        BY <1>3, <4>1, <4>2, <4>3
      <4> QED
        BY <2>1, <4>1, <4>2, <4>4
    <3>3. timeline'[notifier'.id].root = thread'[mail'[notifier'.mail].thread].matrix
      BY <2>1, <2>2, <2>3, <3>1
    <3> QED
      BY <1>0, <2>3, <2>5, <2>7, <3>2, <3>3 DEF ParentsInv
  <2> QED
    BY <1>14, <2>6, <2>7 DEF PostsMail
\* The head goes to a thread that has had none, and none of its mails an id.
<1>15. CASE RecordsHead
  <2>1. /\ UNCHANGED <<mail, timeline>> /\ notifier.pc = "record head" /\ notifier'.pc = "link"
    BY <1>15 DEF RecordsHead
  <2>2. PICK h, i : h = notifier.head /\ i = notifier.id /\ h \in Threads
    BY <2>1 DEF Types, NotifierTypes
  <2>3. /\ thread[h].matrix = None
        /\ \A t \in Threads \ {h} : thread'[t] = thread[t]
    BY <1>0, <1>15, <2>1, <2>2, ThreadIds DEF RecordsHead, HeadsListed
  <2>4. ASSUME NEW m \in Mails, mail[m].matrix # None
        PROVE  KnownPosted(m)'
    <3>1. PICK t, r : t = mail[m].thread /\ r = thread[t].matrix
      OBVIOUS
    <3>2. PostedUnder(m, r)
      BY <2>1, <2>4, <3>1 DEF ParentsInv, KnownPosted
    <3>3. PICK e \in Events : /\ timeline[e].kind = "mail" /\ timeline[e].of = m
                              /\ timeline[e].root = r \/ mishaps > 1
      BY <3>2 DEF PostedUnder
    <3>4. /\ t # None /\ timeline[e].root \in Events
      BY <3>1, <3>3 DEF HomeInv, PostedHome
    <3>5. t \in Threads
      BY <1>0, <3>1, <3>4 DEF DbTypes
    <3>6. CASE t # h
      <4>1. PostedUnder(m, r)' /\ thread'[t].matrix = r
        BY <1>0, <2>3, <3>1, <3>2, <3>5, <3>6, PostsStay
      <4> QED
        BY <2>1, <3>1, <4>1 DEF KnownPosted
    <3>7. CASE t = h
      <4>1. None \notin Events
        BY EventsAreNumbers DEF Types, ChatTypes
      <4>2. mishaps > 1
        BY <2>3, <3>1, <3>3, <3>4, <3>7, <4>1
      <4>3. PICK s : s = thread'[t].matrix
        OBVIOUS
      <4>4. PostedUnder(m, s)'
        BY <1>0, <3>3, <4>2, PostsStay DEF PostedBefore
      <4> QED
        BY <2>1, <3>1, <4>3, <4>4 DEF KnownPosted
    <3> QED
      BY <3>6, <3>7
  <2>5. \A m \in Mails : KnownPosted(m)'
    BY <2>1, <2>4 DEF KnownPosted
  <2>6. notifier'.pc \notin Sending \cup {"forget mails"}
    BY <2>1 DEF Sending
  <2> QED
    BY <1>4, <1>7, <2>1, <2>5, <2>6
<1>16. CASE RecordsMail
  <2>1. /\ UNCHANGED <<thread, timeline>> /\ notifier.pc = "record mail"
        /\ notifier'.pc = "send" /\ notifier'.mails = notifier.mails
    BY <1>16 DEF RecordsMail
  <2>2. PICK to, i : to = notifier.mail /\ i = notifier.id /\ to \in Mails /\ i \in Events
    BY <2>1 DEF Types, NotifierTypes
  <2>3. /\ \A m \in Mails \ {to} : mail'[m].matrix = mail[m].matrix
        /\ timeline[i].kind = "mail" /\ timeline[i].of = to
        /\ timeline[i].root = thread[mail[to].thread].matrix
    BY <1>0, <1>16, <2>1, <2>2, MailIds DEF RecordsMail, HomeInv, ParentsInv
  <2>4. ASSUME NEW m \in Mails
        PROVE  KnownPosted(m)'
    <3>1. PICK r : r = thread[mail[m].thread].matrix /\ thread'[mail'[m].thread].matrix = r
      BY <1>2, <2>1
    <3>2. CASE m = to
      <4>1. PostedUnder(m, r)
        BY <2>2, <2>3, <3>1, <3>2 DEF PostedUnder
      <4> QED
        BY <1>0, <3>1, <4>1, PostsStay DEF KnownPosted
    <3>3. CASE m # to
      <4>1. mail[m].matrix # None => PostedUnder(m, r)
        BY <2>1, <3>1 DEF ParentsInv, KnownPosted
      <4> QED
        BY <1>0, <2>3, <3>1, <3>3, <4>1, PostsStay DEF KnownPosted
    <3> QED
      BY <3>2, <3>3
  <2> PICK newer : newer = notifier'.mails
    OBVIOUS
  <2>5. ASSUME NEW row \in newer
        PROVE  /\ row.root = thread'[row.thread].matrix
               /\ Precedes(row.id, row.root, newer)'
    <3>1. /\ row.root = thread[row.thread].matrix
          /\ Precedes(row.id, row.root, notifier.mails)
      BY <2>1, <2>5 DEF ParentsInv, Sending
    <3>2. PICK m, r : m = row.id /\ r = row.root /\ m \in Mails /\ mail[m].thread # None
      BY <1>5, <2>1, <2>5
    <3>3. Precedes(m, r, newer)'
      BY <1>3, <2>1, <3>1, <3>2
    <3> QED
      BY <2>1, <3>1, <3>2, <3>3
  <2> QED
    BY <1>4, <1>8, <2>1, <2>4, <2>5
<1>17. ASSUME NEW row \in ReplyRow, ForgetsHead(row)
       PROVE  ParentsInv'
  <2>1. /\ UNCHANGED <<mail, timeline>> /\ notifier.pc = "forget head"
        /\ notifier'.pc = "forget mails" /\ notifier'.gone = {row}
        /\ RemoveThreadMatrixId(row.thread)
    BY <1>17 DEF ForgetsHead, MirrorInv
  <2>2. \A t \in Threads : t # row.thread => thread'[t] = thread[t]
    BY <1>0, <2>1 DEF RemoveThreadMatrixId, DbTypes, Threads
  <2>3. ASSUME NEW m \in Mails, mail[m].matrix # None
        PROVE  KnownPosted(m)'
    <3>1. PICK t, r : t = mail[m].thread /\ r = thread[t].matrix
      OBVIOUS
    <3>2. PostedUnder(m, r)
      BY <2>1, <2>3, <3>1 DEF ParentsInv, KnownPosted
    <3>3. PostedBefore(m)' /\ PostedUnder(m, r)'
      BY <1>0, <3>2, PostsStay DEF PostedUnder, PostedBefore
    <3>4. t \in Threads
      <4>1. t # None
        BY <3>1, <3>2 DEF PostedUnder, HomeInv, PostedHome
      <4> QED
        BY <1>0, <3>1, <4>1 DEF DbTypes
    <3>5. CASE t = row.thread
      BY <2>1, <3>1, <3>3, <3>5 DEF KnownPosted
    <3>6. CASE t # row.thread
      BY <2>1, <2>2, <3>1, <3>3, <3>4, <3>6 DEF KnownPosted
    <3> QED
      BY <3>5, <3>6
  <2>4. \A m \in Mails : KnownPosted(m)'
    BY <2>1, <2>3 DEF KnownPosted
  <2>5. notifier'.pc \notin Sending
    BY <2>1 DEF Sending
  <2>6. \A e \in Events' : PostedAfter(e)'
    BY <1>4, <2>1
  <2> QED
    BY <1>0, <2>1, <2>4, <2>5, <2>6 DEF ParentsInv
<1>18. ASSUME NEW row \in ReplyRow, ForgetsMails(row)
       PROVE  ParentsInv'
  <2>1. /\ UNCHANGED <<thread, timeline>> /\ notifier.pc = "forget mails"
        /\ notifier'.pc \in {"threads", "rest"} /\ notifier.gone = {row}
        /\ RemoveMailMatrixIdsByThread(row.thread)
    BY <1>18 DEF ForgetsMails, ParentsInv
  <2>2. ASSUME NEW m \in Mails, mail'[m].matrix # None
        PROVE  KnownPosted(m)'
    <3>1. mail'[m].matrix = mail[m].matrix /\ mail[m].thread # row.thread
      BY <1>0, <2>1, <2>2 DEF RemoveMailMatrixIdsByThread, DbTypes, MailRow
    <3>2. PICK r : r = thread[mail[m].thread].matrix
      OBVIOUS
    <3>3. PostedUnder(m, r)
      BY <2>1, <2>2, <3>1, <3>2 DEF ParentsInv, KnownPosted
    <3>4. PostedUnder(m, r)'
      BY <1>0, <3>3, PostsStay
    <3> QED
      BY <1>2, <2>1, <3>2, <3>4 DEF KnownPosted
  <2>3. \A m \in Mails : KnownPosted(m)'
    BY <2>2 DEF KnownPosted
  <2>4. notifier'.pc \notin Sending \cup {"forget mails"}
    BY <2>1 DEF Sending
  <2> QED
    BY <1>4, <1>7, <2>1, <2>3, <2>4
<1> QED
  BY <1>10, <1>11, <1>13, <1>14, <1>15, <1>16, <1>17, <1>18, NotifierCases

ParentsKept == AnsweredFirst /\ ExtractedFirst /\ ParentsInv

LEMMA ParentsAtFirst == Init => ParentsKept
<1> SUFFICES ASSUME Init PROVE ParentsKept
  OBVIOUS
<1>1. /\ mail = [m \in Mails |-> NoMail] /\ Events = {} /\ notifier = IdleNotifier
      /\ mishaps = 0 /\ redacted = {} /\ closed = {}
      /\ sorter.pc = "rest" /\ sorter.rest = {} /\ extractor.todo = {}
  BY DEF Init, DbInit, StagesInit, SortingInit, ExtractionInit, NotificationInit, Events
<1>2. \A m \in Mails : /\ mail[m].replyTo = None /\ mail[m].thread = None
                       /\ mail[m].matrix = None
  BY <1>1 DEF NoMail
<1>3. AnsweredFirst
  BY <1>2, MailAssumption DEF AnsweredFirst
<1>4. ExtractedFirst
  BY <1>2 DEF ExtractedFirst, Follows
<1>5. /\ notifier.pc = "rest" /\ notifier.threads = {}
  BY <1>1 DEF IdleNotifier
<1>6. MishapsPaid /\ HeadsListed
  BY <1>1, <1>5 DEF MishapsPaid, HeadsListed, Stopping, Forgetting
<1>7. ParentsInv
  BY <1>1, <1>2, <1>5, <1>6 DEF ParentsInv, Sending, KnownPosted
<1> QED
  BY <1>3, <1>4, <1>7 DEF ParentsKept

\* A list that is read while an answer arrives holds the answer only with what
\* it answers, and the stages take the mails of a list in the order of their
\* dates; so a mail that has been sorted as an answer to a mail of its thread
\* is posted after that mail, and under the same head unless two things have
\* gone wrong, whatever was retried, recreated or restarted. It is shown where
\* every answer has a later date than what it answers and no command moves a
\* thread or writes a reply.
THEOREM ParentsArePostedFirst ==
  ASSUME TimesInOrder, NoMove, NoReply
  PROVE  Spec => []ParentFirst
<1>1. /\ Types /\ Types' /\ SortInv /\ HomeInv /\ MirrorInv /\ HandoverInv /\ ParentsKept
      /\ [Next]_vars
      => ParentsKept'
  BY AnsweredKept, ExtractedKept, OthersKeepParents, NotifierKeepsParents
     DEF ParentsKept, HandoverInv
<1>2. Types /\ HomeInv /\ ParentsKept => ParentFirst
  <2> SUFFICES ASSUME Types, HomeInv, ParentsInv, NEW e \in Events, timeline[e].kind = "mail",
                      NEW m, NEW p, m = timeline[e].of, p = mail[m].replyTo,
                      p # None, mail[p].thread = mail[m].thread
               PROVE  \E f \in Events :
                        /\ timeline[f].kind = "mail" /\ timeline[f].of = p /\ f < e
                        /\ timeline[f].root = timeline[e].root \/ mishaps > 1
    BY DEF ParentFirst, ParentsKept
  <2>1. m \in Mails /\ mail[m].thread # None /\ PostedAfter(e)
    BY DEF HomeInv, PostedHome, ParentsInv
  <2>2. p \in Mails
    BY <2>1 DEF Types, DbTypes, MailRow
  <2> QED
    BY <2>1, <2>2 DEF PostedAfter, Follows
<1> QED
  BY <1>1, <1>2, ParentsAtFirst, HomeAlways, MirrorKept, HandoverAlways, PTL DEF Spec
-----------------------------------------------------------------------------
(* What an overview shows, as long as nothing is moved or written here and  *)
(* every overview hears of all the rooms it lists: an overview of all rooms *)
(* does not hear of a room that only a rule names (EmptyListIsAllRooms).    *)

Covered == \A o \in OverviewRooms : RoomsOverview[o] = {} => Rooms \subseteq RoomsWithOverview

LEMMA ListedRooms ==
  ASSUME Covered, NEW o \in OverviewRooms, NEW room \in GetOverviewRoomTargets(o)
  PROVE  o \in GetOverviewRooms(room)
<1>1. RoomsOverview[o] # {} => room \in RoomsOverview[o]
  BY DEF GetOverviewRoomTargets
<1>2. RoomsOverview[o] \subseteq RoomsWithOverview
  BY DEF RoomsWithOverview
<1>3. RoomsOverview[o] = {} => room \in RoomsWithOverview
  BY DEF GetOverviewRoomTargets, Covered
<1> QED
  BY <1>1, <1>2, <1>3 DEF GetOverviewRooms

\* A thread that has mails has its first mail, and only a new mail is added.
FirstMails ==
    /\ \A m \in Mails : mail[m].thread # None =>
        mail[thread[mail[m].thread].first].thread = mail[m].thread
    /\ sorter.pc \in {"join", "touch"} =>
        mail[thread[sorter.target].first].thread = sorter.target
    /\ sorter.pc = "touch" => thread[sorter.target].first # sorter.cur

\* What is extracted stays so, and in its thread.
LEMMA ExtractedStay ==
  ASSUME NoReply, Types, SortInv, ListsInv, [Next]_vars
  PROVE  \A m \in Mails : mail[m].extracted =>
            mail'[m].extracted /\ mail'[m].thread = mail[m].thread
<1>1. DbTypes
  BY DEF Types
<1>2. CASE ExtractionStage
  <2>1. UNCHANGED mail \/ \E m \in Mails : UpdateExtractedMessages(m)
    BY <1>2 DEF ExtractionStage, Extraction, ExtractionStep, ExtractionFails,
       ExtractionBegin, ListMailsRequiringMessageExtraction, PerformMessageExtraction,
       FinishExtraction, CancelBatch, dbVars
  <2>2. ASSUME NEW n \in Mails, UpdateExtractedMessages(n), NEW m \in Mails
        PROVE  mail'[m] = mail[m] \/ mail'[m] = [mail[m] EXCEPT !.extracted = TRUE]
    BY <1>1, <2>2 DEF UpdateExtractedMessages, DbTypes
  <2> QED
    BY <1>1, <2>1, <2>2 DEF DbTypes, MailRow
<1>3. CASE ~ExtractionStage
  BY <1>3, OthersExtractNothing, SortedStay DEF ListsInv
<1> QED
  BY <1>2, <1>3

LEMMA FirstMailsKept ==
  ASSUME NoReply, Types, Types', SortInv, ListsInv, FirstMails, [Next]_vars
  PROVE  FirstMails'
<1> USE Names
<1>0. /\ DbTypes /\ Settled /\ sorter \in SorterRecord
      /\ \A t \in Threads : thread[t].first \in Mails
      /\ \A m \in Mails : mail[m].thread \in Threads \cup {None}
      /\ None \notin Threads
  BY StaySettled, ThreadsAreNumbers DEF Types, SorterTypes, SorterRecord, DbTypes, Stored
<1>1. ASSUME SameRows, sorter'.pc \notin {"join", "touch"}
      PROVE  FirstMails'
  BY <1>0, <1>1 DEF FirstMails, SameRows
<1>2. CASE ~SortingStage
  <2>1. SameRows /\ (UNCHANGED sorter \/ sorter'.pc = "rest")
    BY <1>2, OthersKeepReplies
  <2>2. CASE UNCHANGED sorter
    <3>1. sorter.pc \in {"join", "touch"} => sorter.target \in Threads
      BY DEF Types, SorterTypes
    <3> QED
      BY <1>0, <2>1, <2>2, <3>1 DEF FirstMails, SameRows
  <2> QED
    BY <1>1, <2>1, <2>2
<1>3. CASE SortingStage
  <2>0. Sorting
    BY <1>3 DEF SortingStage
  <2>1. CASE \/ SortingBegin \/ LockThreadSorting \/ WaitForCompleteData \/ FinishSorting
             \/ AutoUpdateMailSorting \/ ListMailsRequiringSorting
    <3>1. sorter'.pc \notin {"join", "touch", "claim"} /\ sorter.pc # "head"
      BY <1>0, <2>1 DEF SortingBegin, LockThreadSorting, WaitForCompleteData, FinishSorting,
         AutoUpdateMailSorting, ListMailsRequiringSorting, At, SorterRecord
    <3>2. UNCHANGED mail \/ AutoUpdateMailReplyTo
      BY <2>1 DEF SortingBegin, LockThreadSorting, WaitForCompleteData, FinishSorting,
         AutoUpdateMailSorting, ListMailsRequiringSorting, dbVars
    <3>3. UNCHANGED thread
      BY <2>1 DEF SortingBegin, LockThreadSorting, WaitForCompleteData, FinishSorting,
         AutoUpdateMailSorting, ListMailsRequiringSorting, dbVars
    <3>4. SameRows
      BY <1>0, <3>2, <3>3, MailsStay
    <3> QED
      BY <1>1, <3>1, <3>4
  <2>2. CASE LookUpReplyTo \/ LookUpReferences
    <3>1. UNCHANGED <<mail, thread>>
      BY <2>2 DEF LookUpReplyTo, LookUpReferences, dbVars
    <3>2. sorter'.pc # "touch"
      BY <1>0, <2>2 DEF LookUpReplyTo, LookUpReferences, SorterRecord
    <3>3. sorter'.pc = "join" =>
            \E m \in Mails : mail[m].thread # None /\ sorter'.target = mail[m].thread
      <4>1. CASE LookUpReplyTo
        <5>1. PICK m \in Oldest(sorter.rest) :
                LET parent == mail[m].replyTo
                    t == IF parent = None THEN None ELSE mail[parent].thread
                    found == t # None /\ ~thread[t].forceClose
                IN  sorter' = [sorter EXCEPT
                        !.cur = m,
                        !.target = IF found THEN t ELSE None,
                        !.pc = IF found THEN "join" ELSE "references"]
          BY <4>1 DEF LookUpReplyTo
        <5>2. m \in Mails
          BY <1>0 DEF Oldest, SorterRecord
        <5>3. mail[m].replyTo \in Mails \cup {None}
          BY <1>0, <5>2 DEF DbTypes, MailRow
        <5> QED
          BY <1>0, <5>1, <5>3 DEF SorterRecord
      <4>2. CASE LookUpReferences
        <5>1. sorter'.pc = "join" => \E r \in ReferencedThreadParents(sorter.cur) :
                sorter' = [sorter EXCEPT !.pc = "join", !.target = mail[r].thread]
          BY <1>0, <4>2 DEF LookUpReferences, SorterRecord
        <5>2. \A r \in ReferencedThreadParents(sorter.cur) :
                r \in Mails /\ mail[r].thread # None
          BY DEF ReferencedThreadParents, Stored
        <5> QED
          BY <1>0, <5>1, <5>2 DEF SorterRecord
      <4> QED
        BY <2>2, <4>1, <4>2
    <3> QED
      BY <3>1, <3>2, <3>3 DEF FirstMails
  <2>3. CASE JoinThread
    <3>1. PICK m, t : m = sorter.cur /\ t = sorter.target
      OBVIOUS
    <3>2. /\ m \in Mails /\ t \in Threads /\ mail[m].thread = None
          /\ mail[thread[t].first].thread = t
      BY <2>3, <3>1 DEF JoinThread, At, Types, SorterTypes, Stored, FirstMails, SortInv,
         SorterInv, ListStaysUnsorted, RowsInv
    <3>3. /\ sorter'.pc = "touch" /\ sorter'.cur = m /\ sorter'.target = t
      BY <1>0, <2>3, <3>1 DEF JoinThread, SorterRecord
    <3>4. /\ UNCHANGED thread /\ mail'[m].thread = t
          /\ \A n \in Mails \ {m} : mail'[n].thread = mail[n].thread
      <4>1. UNCHANGED thread /\ UpdateMailSorting(m, t, mail[m].replyTo)
        BY <2>3, <3>1 DEF JoinThread
      <4> QED
        BY <1>0, <3>2, <4>1 DEF UpdateMailSorting, DbTypes, MailRow
    <3>5. thread[t].first # m
      BY <1>0, <3>2
    <3> QED
      BY <1>0, <3>2, <3>3, <3>4, <3>5 DEF FirstMails
  <2>4. CASE ClaimHead
    <3>1. PICK m, t : m = sorter.cur /\ t = sorter.target
      OBVIOUS
    <3>2. /\ m \in Mails /\ t \in Threads /\ mail[m].thread = None
          /\ thread[t].first = m
      BY <2>4, <3>1 DEF ClaimHead, At, Types, SorterTypes, Stored, SortInv,
         SorterInv, ListStaysUnsorted, RowsInv
    <3>3. sorter'.pc \in {"next", "finish"}
      BY <1>3, <2>4, SorterMoves DEF SorterAt
    <3>4. /\ UNCHANGED thread /\ mail'[m].thread = t
          /\ \A n \in Mails \ {m} : mail'[n].thread = mail[n].thread
      <4>1. UNCHANGED thread /\ UpdateMailSorting(m, t, mail[m].replyTo)
        BY <2>4, <3>1 DEF ClaimHead
      <4> QED
        BY <1>0, <3>2, <4>1 DEF UpdateMailSorting, DbTypes, MailRow
    <3> QED
      BY <1>0, <3>2, <3>3, <3>4 DEF FirstMails
  <2>5. CASE TouchThread \/ MarkMailAsSorted \/ CreateThread
    <3>1. sorter'.pc \notin {"join", "touch"}
      <4>1. CASE CreateThread
        BY <1>0, <4>1 DEF CreateThread, SorterRecord
      <4> QED
        BY <1>3, <2>5, <4>1, SorterMoves DEF SorterAt
    <3>2. \A m \in Mails : mail'[m].thread = mail[m].thread
      <4>1. CASE MarkMailAsSorted
        <5>1. sorter.cur \in Mails
          BY <4>1 DEF MarkMailAsSorted, At, Types, SorterTypes, Stored
        <5> QED
          BY <1>0, <4>1, <5>1 DEF MarkMailAsSorted, UpdateMailMarkSorted, DbTypes, MailRow
      <4> QED
        BY <2>5, <4>1 DEF TouchThread, CreateThread
    <3> QED
      BY <1>0, <3>1, <3>2 DEF FirstMails, Settled
  <2> QED
    BY <2>0, <2>1, <2>2, <2>3, <2>4, <2>5 DEF Sorting, SortingStep
<1> QED
  BY <1>2, <1>3
-----------------------------------------------------------------------------
(* What the notification stage has listed, and what it will list *)

FirstExtracted(t) == mail[thread[t].first].extracted

\* The first mail of every thread that has a head, is to get one or has just
\* lost it is extracted; the head goes to the room of the thread.
HeadsReady ==
    /\ \A t \in Threads : thread[t].matrix # None => FirstExtracted(t)
    /\ \A row \in notifier.threads :
        FirstExtracted(row.id) /\ row.room = thread[row.id].room
    /\ notifier.pc = "record head" =>
        /\ FirstExtracted(notifier.head)
        /\ thread[notifier.head].room \in {None, timeline[notifier.id].room}
    /\ notifier.pc \in Forgetting =>
        \A row \in notifier.gone : row.thread \in Threads /\ FirstExtracted(row.thread)

\* A mail that is listed is listed again until its id is recorded, and goes to
\* the room of its thread.
MailsReady ==
    /\ notifier.pc \notin Sending \cup Forgetting => notifier.mails = {}
    /\ notifier.pc # "forget mails" => \A row \in notifier.mails :
        row.id \in MatrixReadyMails /\ row.room = thread[row.thread].room
    /\ notifier.pc = "record mail" =>
        timeline[notifier.id].room = thread[mail[notifier.mail].thread].room

\* A run that is called again finds something as long as rooms are touched.
TouchedAwait ==
    /\ notifier.pc = "rest" => notifier.touched = {}
    /\ closed = {} /\ notifier.touched # {} =>
        /\ notifier.pc = "threads" => MatrixReadyThreads \cup MatrixReadyMails # {}
        /\ notifier.pc = "mails" => MatrixReadyMails # {}

ReadyInv == HeadsReady /\ MailsReady /\ TouchedAwait

\* What the other goroutines leave as it is.
LEMMA OthersKeepTables ==
  ASSUME NoReply, Types, Types', SortInv, ListsInv, MirrorInv, [Next]_vars,
         ~(NotificationStage \/ MistakeHead \/ LoseAnswer)
  PROVE  /\ SameHeads /\ NoThreadIds /\ SameMailIds /\ Settled /\ UNCHANGED timeline
         /\ MatrixReadyMails \subseteq MatrixReadyMails'
         /\ MatrixReadyThreads \subseteq MatrixReadyThreads'
         /\ \/ UNCHANGED notifier /\ (closed' = {} => closed = {})
            \/ notifier' = IdleNotifier
<1>1. \A c \in Commands : cmd[c].pc \notin MoveSteps \cup {"record"}
  BY DEF NoReply, MirrorInv, SortInv, WritingInv, ReplySteps
<1>2. /\ UNCHANGED timeline /\ NoThreadIds /\ SameMailIds
      /\ UNCHANGED notifier \/ (notifier' = IdleNotifier /\ (Crash \/ Exit))
  BY <1>1, OtherIds DEF MoveSteps
<1>3. SameHeads /\ Settled
  BY <1>1, OthersKeepHeads, StaySettled
<1>4. \A m \in Mails : /\ mail[m].extracted => mail'[m].extracted
                       /\ mail[m].thread # None => mail'[m].thread = mail[m].thread
                       /\ mail'[m].matrix = mail[m].matrix
                       /\ mail[m].stored => mail'[m].stored
                       /\ mail[m].thread \in Threads \cup {None}
  <2>1. \A m \in Mails : mail[m].stored => mail'[m].stored
    <3>1. CASE SortingStage
      <4>1. Stored' = Stored
        BY <3>1, SortingCases
      <4> QED
        BY <4>1 DEF Stored
    <3>2. CASE ~SortingStage
      BY <3>2, OthersKeepReplies DEF SameRows
    <3> QED
      BY <3>1, <3>2
  <2> QED
    BY <1>2, <1>3, <2>1, ExtractedStay DEF SameMailIds, Settled, Types, DbTypes
<1>5. \A t \in Threads : thread[t].first \in Mails
  BY DEF Types, DbTypes, Stored
<1>6. MatrixReadyMails \subseteq MatrixReadyMails'
  <2> SUFFICES ASSUME NEW m \in MatrixReadyMails
               PROVE  m \in MatrixReadyMails'
    OBVIOUS
  <2>1. /\ m \in Mails /\ mail[m].stored /\ mail[m].matrix = None /\ mail[m].extracted
        /\ mail[m].thread \in Threads /\ thread[mail[m].thread].matrix # None
    BY <1>4 DEF MatrixReadyMails, Stored
  <2>2. thread'[mail[m].thread].matrix # None
    BY <1>3, <2>1 DEF SameHeads
  <2> QED
    BY <1>4, <2>1, <2>2, Names DEF MatrixReadyMails, Stored
<1>7. MatrixReadyThreads \subseteq MatrixReadyThreads'
  BY <1>3, <1>4, <1>5 DEF MatrixReadyThreads, SameHeads, Settled
<1>8. \/ UNCHANGED notifier /\ (closed' = {} => closed = {})
      \/ notifier' = IdleNotifier
  <2>1. Serves \/ Stop => (closed' = {} => closed = {})
    BY DEF Serves, Stop
  <2>2. Crash \/ Exit => notifier' = IdleNotifier
    BY DEF Crash, Exit, StartAgain
  <2> QED
    BY <1>2, <2>1, <2>2, StagesServe
<1> QED
  BY <1>2, <1>3, <1>6, <1>7, <1>8

LEMMA OthersKeepReady ==
  ASSUME NoReply, Types, Types', SortInv, ListsInv, HomeInv, MirrorInv, ReadyInv,
         [Next]_vars, ~(NotificationStage \/ MistakeHead \/ LoseAnswer)
  PROVE  ReadyInv'
<1>0. /\ SameHeads /\ NoThreadIds /\ SameMailIds /\ Settled /\ UNCHANGED timeline
      /\ MatrixReadyMails \subseteq MatrixReadyMails'
      /\ MatrixReadyThreads \subseteq MatrixReadyThreads'
      /\ \/ UNCHANGED notifier /\ (closed' = {} => closed = {})
         \/ notifier' = IdleNotifier
  BY OthersKeepTables
<1>1. \A t \in Threads : /\ t \in Threads' /\ thread'[t].room = thread[t].room
                         /\ FirstExtracted(t) => FirstExtracted(t)'
  BY <1>0, ExtractedStay DEF FirstExtracted, Settled, SameHeads, Types, DbTypes, Stored
<1>2. \A t \in Threads' : thread'[t].matrix # None => FirstExtracted(t)'
  BY <1>0, <1>1 DEF NoThreadIds, ReadyInv, HeadsReady
<1>3. CASE notifier' = IdleNotifier
  <2>1. /\ notifier'.pc = "rest" /\ notifier'.threads = {} /\ notifier'.mails = {}
        /\ notifier'.touched = {}
    BY <1>3 DEF IdleNotifier
  <2> QED
    BY <1>2, <2>1 DEF ReadyInv, HeadsReady, MailsReady, TouchedAwait, Forgetting
<1>4. CASE UNCHANGED notifier /\ (closed' = {} => closed = {})
  <2>1. HeadsReady'
    <3>1. /\ \A row \in notifier.threads : row.id \in Threads
          /\ notifier.pc = "record head" => notifier.head \in Threads
      BY DEF Types, NotifierTypes
    <3> QED
      BY <1>0, <1>1, <1>2, <1>4, <3>1 DEF ReadyInv, HeadsReady
  <2>2. MailsReady'
    <3>1. ASSUME NEW row \in notifier.mails, notifier.pc # "forget mails"
          PROVE  row.id \in MatrixReadyMails' /\ row.room = thread'[row.thread].room
      <4>1. /\ row.id \in MatrixReadyMails /\ row.room = thread[row.thread].room
            /\ mail[row.id].thread = row.thread
        BY <3>1 DEF ReadyInv, MailsReady, HomeInv, RowHome
      <4>2. row.thread \in Threads
        BY <4>1 DEF MatrixReadyMails, Stored, Types, DbTypes
      <4> QED
        BY <1>0, <1>1, <4>1, <4>2
    <3>2. ASSUME notifier.pc = "record mail"
          PROVE  timeline'[notifier.id].room = thread'[mail'[notifier.mail].thread].room
      <4>1. PICK m, t : m = notifier.mail /\ t = mail[m].thread
        OBVIOUS
      <4>2. m \in Mails /\ notifier.id \in Events
        BY <3>2, <4>1 DEF Types, NotifierTypes
      <4>3. t # None
        BY <3>2, <4>1, <4>2 DEF HomeInv, PostedHome
      <4>4. t \in Threads /\ mail'[m].thread = t
        BY <1>0, <4>1, <4>2, <4>3 DEF Types, DbTypes, Settled
      <4> QED
        BY <1>0, <1>1, <3>2, <4>1, <4>4 DEF ReadyInv, MailsReady
    <3> QED
      BY <1>4, <3>1, <3>2 DEF ReadyInv, MailsReady
  <2>3. TouchedAwait'
    BY <1>0, <1>4 DEF ReadyInv, TouchedAwait
  <2> QED
    BY <2>1, <2>2, <2>3 DEF ReadyInv
<1> QED
  BY <1>0, <1>3, <1>4

\* A run that is called again, or ends.
LEMMA AgainReady ==
  ASSUME Types, ReadyInv, CallAgain,
         \A t \in Threads' : thread'[t].matrix # None => FirstExtracted(t)',
         \A row \in notifier.threads :
            FirstExtracted(row.id)' /\ row.room = thread'[row.id].room,
         closed = {} => MatrixReadyThreads' \cup MatrixReadyMails' # {}
  PROVE  ReadyInv'
<1> USE Names DEF Sending, Forgetting
<1>1. CASE Cancelled
  <2>1. notifier' = IdleNotifier
    BY <1>1 DEF CallAgain
  <2> QED
    BY <2>1 DEF IdleNotifier, ReadyInv, HeadsReady, MailsReady, TouchedAwait
<1>2. CASE ~Cancelled
  <2>1. /\ notifier'.pc = "threads" /\ notifier'.mails = {}
        /\ notifier'.threads = notifier.threads /\ notifier'.touched = notifier.touched
        /\ UNCHANGED closed
    BY <1>2 DEF CallAgain, Types, NotifierTypes, stageVars
  <2> QED
    BY <2>1 DEF ReadyInv, HeadsReady, MailsReady, TouchedAwait
<1> QED
  BY <1>1, <1>2

LEMMA ReadsKeepReady ==
  ASSUME Types, MirrorInv, HomeInv, ReadyInv, NotifierReads
  PROVE  ReadyInv'
<1> USE Names DEF FirstExtracted, Sending, Forgetting
<1>0. /\ notifier \in NotifierRecord /\ DbTypes /\ UNCHANGED <<mail, thread, timeline>>
      /\ HeadsReady /\ MailsReady /\ TouchedAwait
  BY DEF Types, NotifierTypes, NotifierRecord, NotifierReads, NotificationBegin,
     ListMatrixReadyThreads, ListMatrixReadyMails, CheckThread, FindHeadRedacted,
     MistakeHeadForRedacted, LinkFails, ReadyInv, dbVars, matrixVars
<1>1. /\ MatrixReadyMails' = MatrixReadyMails /\ MatrixReadyThreads' = MatrixReadyThreads
      /\ \A t \in Threads' : thread'[t].matrix # None => FirstExtracted(t)'
  <2>1. MatrixReadyMails' = MatrixReadyMails
    BY <1>0 DEF MatrixReadyMails, Stored
  <2>2. Threads' = Threads
    BY <1>0 DEF Threads
  <2>3. MatrixReadyThreads' = MatrixReadyThreads
    BY <1>0, <2>2 DEF MatrixReadyThreads
  <2> QED
    BY <1>0, <2>1, <2>2, <2>3 DEF HeadsReady
<1>2. CASE NotificationBegin
  <2>1. /\ notifier' = [notifier EXCEPT !.pc = "threads"] /\ notifier.pc = "rest"
    BY <1>2 DEF NotificationBegin, NAt
  <2> QED
    BY <1>0, <1>1, <2>1 DEF NotifierRecord, ReadyInv, HeadsReady, MailsReady, TouchedAwait
<1>3. CASE ListMatrixReadyThreads
  <2>1. PICK listed : /\ listed = IF Cancelled THEN {} ELSE MatrixReadyThreads
                      /\ notifier.pc = "threads" /\ UNCHANGED stageVars
                      /\ notifier' = [notifier EXCEPT
                            !.pc = IF listed = {} THEN "mails" ELSE "post",
                            !.threads = {[id |-> t, first |-> thread[t].first,
                                          room |-> thread[t].room] : t \in listed}]
    BY <1>3 DEF ListMatrixReadyThreads, NAt
  <2>2. /\ notifier'.pc = (IF listed = {} THEN "mails" ELSE "post")
        /\ notifier'.threads = {[id |-> t, first |-> thread[t].first,
                                 room |-> thread[t].room] : t \in listed}
        /\ notifier'.mails = notifier.mails /\ notifier'.touched = notifier.touched
    BY <1>0, <2>1 DEF NotifierRecord
  <2>3. HeadsReady'
    BY <1>0, <1>1, <2>1, <2>2 DEF HeadsReady, MatrixReadyThreads
  <2>4. MailsReady'
    BY <1>0, <1>1, <2>1, <2>2 DEF MailsReady
  <2>5. TouchedAwait'
    <3>1. closed = {} => listed = MatrixReadyThreads
      BY <2>1 DEF Cancelled
    <3> QED
      BY <1>0, <1>1, <2>1, <2>2, <3>1 DEF TouchedAwait, stageVars
  <2> QED
    BY <2>3, <2>4, <2>5 DEF ReadyInv
<1>4. CASE ListMatrixReadyMails
  <2>1. PICK listed, newer :
            /\ listed \subseteq MatrixReadyMails
            /\ newer = {[id |-> m, thread |-> mail[m].thread,
                         root |-> thread[mail[m].thread].matrix,
                         room |-> thread[mail[m].thread].room] : m \in listed}
            /\ notifier.pc = "mails" \/ (notifier.pc = "post" /\ notifier.threads = {})
            /\ notifier' = [notifier EXCEPT
                    !.pc = IF listed = {} THEN "send" ELSE "check",
                    !.touched = IF NAt("mails") /\ listed = {} THEN {} ELSE @,
                    !.mails = newer,
                    !.unchecked = {mail[m].thread : m \in listed},
                    !.valid = {}]
    BY <1>4 DEF ListMatrixReadyMails, NAt
  <2>5. /\ notifier'.pc \in {"send", "check"} /\ notifier'.mails = newer
        /\ notifier'.threads = notifier.threads
    BY <1>0, <2>1 DEF NotifierRecord
  <2>2. HeadsReady'
    BY <1>0, <1>1, <2>5 DEF HeadsReady
  <2>3. MailsReady'
    <3>1. \A row \in newer :
            row.id \in MatrixReadyMails /\ row.room = thread[row.thread].room
      BY <2>1
    <3> QED
      BY <1>0, <1>1, <2>5, <3>1 DEF MailsReady
  <2>4. TouchedAwait'
    BY <2>5 DEF TouchedAwait
  <2> QED
    BY <2>2, <2>3, <2>4 DEF ReadyInv
<1>5. CASE \E t \in Threads : CheckThread(t)
  <2>1. /\ notifier.pc = "check" /\ notifier'.pc \in {"send", "check"}
        /\ notifier'.mails \subseteq notifier.mails /\ notifier'.threads = notifier.threads
    BY <1>0, <1>5 DEF CheckThread, NAt, NotifierRecord
  <2> QED
    BY <1>0, <1>1, <2>1 DEF ReadyInv, HeadsReady, MailsReady, TouchedAwait
<1>6. CASE FindHeadRedacted \/ MistakeHeadForRedacted
  <2>1. PICK row \in notifier.mails :
            /\ notifier.pc = "send"
            /\ notifier' = [notifier EXCEPT !.pc = "forget head", !.gone = {row}]
    BY <1>6 DEF FindHeadRedacted, MistakeHeadForRedacted, NAt, NextMails
  <2>2. /\ notifier'.pc = "forget head" /\ notifier'.gone = {row}
        /\ notifier'.mails = notifier.mails /\ notifier'.threads = notifier.threads
    BY <1>0, <2>1 DEF NotifierRecord
  <2>3. row.thread \in Threads /\ FirstExtracted(row.thread)
    <3>1. row.id \in MatrixReadyMails /\ mail[row.id].thread = row.thread
      BY <1>0, <2>1 DEF MailsReady, HomeInv, RowHome
    <3>2. row.thread \in Threads /\ thread[row.thread].matrix # None
      BY <1>0, <3>1 DEF MatrixReadyMails, Stored, DbTypes
    <3> QED
      BY <1>0, <3>2 DEF HeadsReady
  <2>4. HeadsReady'
    BY <1>0, <1>1, <2>2, <2>3 DEF HeadsReady, Threads
  <2>5. MailsReady'
    BY <1>0, <1>1, <2>1, <2>2 DEF MailsReady
  <2>6. TouchedAwait'
    BY <2>2 DEF TouchedAwait
  <2> QED
    BY <2>4, <2>5, <2>6 DEF ReadyInv
<1>7. CASE LinkFails
  <2>1. /\ notifier.pc = "link" /\ notifier'.pc = "post"
        /\ notifier'.mails = notifier.mails /\ notifier'.threads = notifier.threads
    BY <1>0, <1>7 DEF LinkFails, NAt, NotifierRecord
  <2> QED
    BY <1>0, <1>1, <2>1 DEF ReadyInv, HeadsReady, MailsReady, TouchedAwait
<1> QED
  BY <1>2, <1>3, <1>4, <1>5, <1>6, <1>7 DEF NotifierReads

LEMMA PostsKeepReady ==
  ASSUME Types, HomeInv, ReadyInv, NotifierPosts
  PROVE  ReadyInv'
<1> USE Names DEF FirstExtracted, Sending, Forgetting
<1>0. /\ notifier \in NotifierRecord /\ DbTypes /\ UNCHANGED <<mail, thread>>
      /\ HeadsReady /\ MailsReady /\ TouchedAwait
  <2>1. UNCHANGED <<mail, thread>>
    BY DEF NotifierPosts, PostHead, LinkRecreation, SendMail, AnswerLost, dbVars
  <2> QED
    BY <2>1 DEF Types, NotifierTypes, NotifierRecord, ReadyInv
<1>1. /\ MatrixReadyMails' = MatrixReadyMails /\ MatrixReadyThreads' = MatrixReadyThreads
      /\ \A t \in Threads' : thread'[t].matrix # None => FirstExtracted(t)'
  <2>1. MatrixReadyMails' = MatrixReadyMails
    BY <1>0 DEF MatrixReadyMails, Stored
  <2>2. Threads' = Threads
    BY <1>0 DEF Threads
  <2>3. MatrixReadyThreads' = MatrixReadyThreads
    BY <1>0, <2>2 DEF MatrixReadyThreads
  <2> QED
    BY <1>0, <2>1, <2>2, <2>3 DEF HeadsReady
<1>2. CASE PostHead
  <2>1. PICK row, room :
            /\ row \in notifier.threads
            /\ room = (IF row.room = None THEN HomeRoom[row.first] ELSE row.room)
            /\ notifier.pc = "post"
            /\ timeline' = Append(timeline, HeadEvent(row.id, room))
            /\ notifier' = [notifier EXCEPT !.pc = "record head",
                                            !.threads = @ \ {row},
                                            !.head = row.id,
                                            !.id = Len(timeline) + 1]
    BY <1>2 DEF PostHead, NAt
  <2>2. /\ notifier'.pc = "record head" /\ notifier'.threads = notifier.threads \ {row}
        /\ notifier'.head = row.id /\ notifier'.mails = notifier.mails
        /\ notifier'.id = Len(timeline) + 1
    BY <1>0, <2>1 DEF NotifierRecord
  <2>3. row.room # None => timeline'[notifier'.id].room = row.room
    <3>1. timeline'[notifier'.id].room = room
      BY <2>1, <2>2, AppendProperties DEF HeadEvent, Types, ChatTypes
    <3> QED
      BY <2>1, <3>1
  <2> QED
    BY <1>0, <1>1, <2>1, <2>2, <2>3 DEF ReadyInv, HeadsReady, MailsReady, TouchedAwait
<1>3. CASE LinkRecreation
  <2>1. /\ notifier.pc = "link" /\ notifier'.pc = "post"
        /\ notifier'.mails = notifier.mails /\ notifier'.threads = notifier.threads
    BY <1>0, <1>3 DEF LinkRecreation, NAt, NotifierRecord
  <2> QED
    BY <1>0, <1>1, <2>1 DEF ReadyInv, HeadsReady, MailsReady, TouchedAwait
<1>4. CASE SendMail
  <2>1. PICK row \in notifier.mails :
            /\ notifier.pc = "send"
            /\ timeline' = Append(timeline, MailEvent(row.id, row.room, row.root))
            /\ notifier' = [notifier EXCEPT !.pc = "record mail",
                                            !.mails = @ \ {row},
                                            !.mail = row.id,
                                            !.id = Len(timeline) + 1]
    BY <1>4 DEF SendMail, NAt, NextMails
  <2>2. /\ notifier'.pc = "record mail" /\ notifier'.threads = notifier.threads
        /\ notifier'.mails = notifier.mails \ {row} /\ notifier'.mail = row.id
        /\ notifier'.id = Len(timeline) + 1
    BY <1>0, <2>1 DEF NotifierRecord
  <2>3. timeline'[notifier'.id].room = thread[mail[row.id].thread].room
    <3>1. timeline'[notifier'.id].room = row.room
      BY <2>1, <2>2, AppendProperties DEF MailEvent, Types, ChatTypes
    <3> QED
      BY <1>0, <2>1, <3>1 DEF MailsReady, HomeInv, RowHome
  <2> QED
    BY <1>0, <1>1, <2>1, <2>2, <2>3 DEF ReadyInv, HeadsReady, MailsReady, TouchedAwait
<1>5. CASE AnswerLost
  <2>1. PICK row \in notifier.mails : notifier.pc = "send" /\ CallAgain
    BY <1>5 DEF AnswerLost, NAt, NextMails
  <2>2. row.id \in MatrixReadyMails'
    BY <1>0, <1>1, <2>1 DEF MailsReady
  <2>3. \A other \in notifier.threads :
            FirstExtracted(other.id)' /\ other.room = thread'[other.id].room
    BY <1>0 DEF HeadsReady
  <2> QED
    BY <1>1, <2>1, <2>2, <2>3, AgainReady
<1> QED
  BY <1>2, <1>3, <1>4, <1>5 DEF NotifierPosts

LEMMA WritesKeepReady ==
  ASSUME Types, HeadsListed, MirrorInv, HomeInv, ReadyInv, NotifierWrites, SameStatus,
         Settled
  PROVE  ReadyInv'
<1> USE Names DEF FirstExtracted, Sending, Forgetting
<1>0. /\ notifier \in NotifierRecord /\ DbTypes /\ UNCHANGED timeline
      /\ HeadsReady /\ MailsReady /\ TouchedAwait
  <2>1. UNCHANGED timeline
    BY DEF NotifierWrites, RecordHead, RecordMail, ForgetHead, ForgetMails, ForgettingFails,
       SendFails, FinishNotification, matrixVars
  <2> QED
    BY <2>1 DEF Types, NotifierTypes, NotifierRecord, ReadyInv
<1>1. ASSUME UNCHANGED thread
      PROVE  /\ Threads' = Threads
             /\ \A t \in Threads : FirstExtracted(t)' <=> FirstExtracted(t)
             /\ \A t \in Threads' : thread'[t].matrix # None => FirstExtracted(t)'
             /\ \A row \in notifier.threads :
                    FirstExtracted(row.id)' /\ row.room = thread'[row.id].room
             /\ MatrixReadyThreads' = MatrixReadyThreads
  <2>1. Threads' = Threads
    BY <1>1 DEF Threads
  <2>2. \A t \in Threads : FirstExtracted(t)' <=> FirstExtracted(t)
    BY <1>0, <1>1 DEF SameStatus, DbTypes, Stored
  <2>3. \A row \in notifier.threads : row.id \in Threads
    BY DEF Types, NotifierTypes
  <2> QED
    BY <1>0, <1>1, <2>1, <2>2, <2>3 DEF HeadsReady, MatrixReadyThreads
<1>2. UNCHANGED <<mail, thread>> => MatrixReadyMails' = MatrixReadyMails
  BY DEF MatrixReadyMails, Stored
<1>3. CASE RecordHead
  <2>1. /\ notifier.pc = "record head" /\ notifier'.pc = "link"
        /\ notifier'.threads = notifier.threads /\ notifier'.mails = notifier.mails
        /\ UNCHANGED mail
    BY <1>0, <1>3 DEF RecordHead, NAt, NotifierRecord
  <2>2. CASE UNCHANGED thread
    BY <1>0, <1>1, <2>1, <2>2 DEF ReadyInv, HeadsReady, MailsReady, TouchedAwait
  <2>3. CASE UpdateThreadMatrixIds(notifier.head, timeline[notifier.id].room, notifier.id)
    <3>1. PICK t : t = notifier.head
      OBVIOUS
    <3>2. /\ Threads' = Threads /\ t \in Threads
          /\ \A u \in Threads \ {t} : thread'[u] = thread[u]
      BY <1>0, <2>1, <2>3, <3>1, ThreadIds DEF Types, NotifierTypes
    <3>3. \A u \in Threads : thread'[u].first = thread[u].first
      BY DEF Settled
    <3>4. \A u \in Threads : FirstExtracted(u)' <=> FirstExtracted(u)
      BY <2>1, <3>3
    <3>5. \A row \in notifier.threads : row.id \in Threads \ {t}
      BY <2>1, <3>1 DEF HeadsListed, Types, NotifierTypes
    <3>6. \A u \in Threads' : thread'[u].matrix # None => FirstExtracted(u)'
      <4>1. FirstExtracted(t)
        BY <1>0, <2>1, <3>1 DEF HeadsReady
      <4>2. \A u \in Threads \ {t} : thread[u].matrix # None => FirstExtracted(u)
        BY <1>0 DEF HeadsReady
      <4> QED
        BY <3>2, <3>4, <4>1, <4>2
    <3>7. \A row \in notifier.threads :
            FirstExtracted(row.id)' /\ row.room = thread'[row.id].room
      BY <1>0, <3>2, <3>4, <3>5 DEF HeadsReady
    <3>8. HeadsReady'
      BY <2>1, <3>6, <3>7 DEF HeadsReady
    <3> QED
      BY <1>0, <2>1, <3>8 DEF ReadyInv, MailsReady, TouchedAwait
  <2> QED
    BY <1>3, <2>2, <2>3 DEF RecordHead
<1>4. CASE RecordMail
  <2>1. /\ notifier.pc = "record mail" /\ notifier'.pc = "send"
        /\ notifier'.threads = notifier.threads /\ notifier'.mails = notifier.mails
        /\ UNCHANGED thread
    BY <1>0, <1>4 DEF RecordMail, NAt, NotifierRecord
  <2>2. \A m \in Mails : m # notifier.mail => mail'[m].matrix = mail[m].matrix
    <3>1. notifier.mail \in Mails
      BY <2>1 DEF Types, NotifierTypes
    <3> QED
      BY <1>0, <1>4, <3>1, MailIds DEF RecordMail
  <2>3. \A m \in MatrixReadyMails : m # notifier.mail => m \in MatrixReadyMails'
    BY <2>1, <2>2 DEF MatrixReadyMails, Stored, SameStatus
  <2>4. MailsReady'
    BY <1>0, <2>1, <2>3 DEF MailsReady, MirrorInv, RowFew
  <2>5. HeadsReady'
    BY <1>1, <2>1 DEF HeadsReady
  <2>6. TouchedAwait'
    BY <2>1 DEF TouchedAwait
  <2> QED
    BY <2>4, <2>5, <2>6 DEF ReadyInv
<1>5. CASE ForgetHead
  <2>1. /\ notifier.pc = "forget head" /\ notifier'.pc = "forget mails"
        /\ notifier'.threads = notifier.threads /\ notifier'.gone = notifier.gone
        /\ UNCHANGED mail
    BY <1>0, <1>5 DEF ForgetHead, NAt, NotifierRecord
  <2>2. PICK t : RemoveThreadMatrixId(t)
    BY <1>5 DEF ForgetHead
  <2>3. /\ Threads' = Threads /\ NoThreadIds
        /\ \A u \in Threads : /\ thread'[u].first = thread[u].first
                              /\ thread'[u].room = thread[u].room
    <3>1. \A u \in Threads : /\ thread'[u].first = thread[u].first
                             /\ thread'[u].room = thread[u].room
      BY <1>0, <2>2 DEF RemoveThreadMatrixId, DbTypes, ThreadRow
    <3> QED
      BY <1>0, <2>2, <3>1, ThreadIds
  <2>4. \A u \in Threads : FirstExtracted(u)' <=> FirstExtracted(u)
    BY <2>1, <2>3
  <2>5. \A row \in notifier.threads : row.id \in Threads
    BY DEF Types, NotifierTypes
  <2>6. HeadsReady'
    BY <1>0, <2>1, <2>3, <2>4, <2>5 DEF HeadsReady, NoThreadIds
  <2> QED
    BY <2>1, <2>6 DEF ReadyInv, MailsReady, TouchedAwait
<1>6. CASE ForgetMails
  <2>1. PICK row \in notifier.gone : TRUE
    BY <1>6 DEF ForgetMails
  <2>2. /\ notifier.pc = "forget mails" /\ UNCHANGED thread /\ CallAgain
    BY <1>6 DEF ForgetMails, NAt
  <2>3. /\ row.thread \in Threads /\ FirstExtracted(row.thread)
        /\ thread[row.thread].matrix = None
    BY <1>0, <2>1, <2>2 DEF HeadsReady, MirrorInv
  <2>4. row.thread \in MatrixReadyThreads'
    BY <1>1, <2>2, <2>3 DEF MatrixReadyThreads
  <2> QED
    BY <1>1, <2>2, <2>4, AgainReady
<1>7. CASE ForgettingFails \/ SendFails
  <2>1. UNCHANGED <<mail, thread>> /\ CallAgain
    BY <1>7 DEF ForgettingFails, SendFails, dbVars
  <2>2. closed = {} => MatrixReadyThreads' \cup MatrixReadyMails' # {}
    <3>1. CASE ForgettingFails
      BY <3>1 DEF ForgettingFails, Cancelled
    <3>2. CASE SendFails
      <4>1. PICK row \in notifier.mails : notifier.pc = "send"
        BY <3>2 DEF SendFails, NAt
      <4> QED
        BY <1>0, <1>2, <2>1, <4>1 DEF MailsReady
    <3> QED
      BY <1>7, <3>1, <3>2
  <2> QED
    BY <1>1, <2>1, <2>2, AgainReady
<1>8. CASE FinishNotification
  <2>1. UNCHANGED thread /\ notifier' = IdleNotifier
    BY <1>8 DEF FinishNotification, dbVars
  <2> QED
    BY <1>1, <2>1 DEF IdleNotifier, ReadyInv, HeadsReady, MailsReady, TouchedAwait
<1> QED
  BY <1>3, <1>4, <1>5, <1>6, <1>7, <1>8 DEF NotifierWrites

LEMMA ReadyKept ==
  ASSUME NoReply, Types, Types', SortInv, ListsInv, HomeInv, MirrorInv, HeadsListed,
         ReadyInv, [Next]_vars
  PROVE  ReadyInv'
<1>1. CASE NotificationStage \/ MistakeHead \/ LoseAnswer
  <2>1. SameStatus /\ Settled
    BY <1>1, NotifierLeaves, StaySettled
  <2>2. NotifierReads \/ NotifierPosts \/ NotifierWrites
    BY <1>1 DEF NotificationStage, MistakeHead, LoseAnswer, Notification, NotificationStep,
       NotificationFails, NotifierReads, NotifierPosts, NotifierWrites
  <2> QED
    BY <2>1, <2>2, ReadsKeepReady, PostsKeepReady, WritesKeepReady
<1> QED
  BY <1>1, OthersKeepReady
-----------------------------------------------------------------------------
(* What an overview should show, step by step *)

Closing == \E c \in Commands : Kind[c] \in {"close", "forceclose"} /\ cmd[c].tries > 0

\* Only a close ends what AddThread begins.
OpenInv == Closing \/ \A t \in Threads : thread[t].enabled

\* An answer may have reopened every other thread.
Due(t) == thread[t].last = thread[t].first \/ ~Closing

\* The rows are open threads of the rooms of the overview, with their links,
\* and no thread is missing that is due.
Agrees(o, rows) ==
    /\ \A row \in rows :
        /\ row.thread \in Threads /\ row.room \in GetOverviewRoomTargets(o)
        /\ thread[row.thread].enabled /\ thread[row.thread].room = row.room
        /\ FirstExtracted(row.thread)
        /\ LET m == thread[row.thread].first
           IN  mail[m].thread = row.thread /\ mail[m].matrix # None =>
                    row.message = mail[m].matrix
    /\ \A t \in Threads :
        /\ thread[t].enabled /\ thread[t].matrix # None
        /\ thread[t].room \in GetOverviewRoomTargets(o) /\ Due(t)
        => \E row \in rows : row.thread = t

LEMMA ClosingStays ==
  ASSUME NoReply, Types, Types', SortInv, MirrorInv, [Next]_vars
  PROVE  Closing => Closing'
<1> SUFFICES ASSUME NEW c \in Commands, cmd[c].tries > 0
             PROVE  cmd'[c].tries > 0
  BY DEF Closing
<1>1. cmd[c].tries \in Nat /\ cmd'[c].tries \in Nat
  BY CommandFacts DEF Types, CommandTypes
<1>2. CASE Bystanders \/ SortingStage
  BY <1>2, BystandersStatements DEF SortingStage, commandVars
<1>3. ASSUME NEW d \in Commands, Command(d)
      PROVE  cmd'[c].tries > 0
  <2>1. ~Writes(d)
    BY DEF NoReply, Writes, ReplyLock, ReplyStore, ReplyAddMail, ReplyJoinThread, SortInv,
       WritingInv, ReplySteps
  <2> QED
    BY <1>1, <1>3, <2>1, CommandsAside DEF Aside, Onward
<1>4. CASE Crash \/ Exit
  <2>1. cmd' = [d \in Commands |-> [NewCommand EXCEPT !.tries = cmd[d].tries]]
    BY <1>4 DEF Crash, Exit, StartAgain
  <2> QED
    BY <2>1 DEF NewCommand
<1> QED
  BY <1>2, <1>3, <1>4, Steps

LEMMA AgreesStays ==
  ASSUME NoReply, Types, Types', SortInv, ListsInv, [Next]_vars, NEW o \in OverviewRooms,
         \A t \in Threads : thread[t].room \in GetOverviewRoomTargets(o) =>
            thread'[t].room = thread[t].room /\ (thread[t].enabled => thread'[t].enabled),
         \A m \in Mails :
            /\ mail[m].thread \in Threads
            /\ thread[mail[m].thread].room \in GetOverviewRoomTargets(o)
            => mail'[m].matrix \in {mail[m].matrix, None},
         \A t \in Threads' :
            /\ thread'[t].enabled /\ thread'[t].matrix # None
            /\ thread'[t].room \in GetOverviewRoomTargets(o) /\ Due(t)'
            => /\ t \in Threads /\ thread[t].enabled /\ thread[t].matrix # None
               /\ thread[t].room \in GetOverviewRoomTargets(o) /\ Due(t)
  PROVE  \A rows : Agrees(o, rows) => Agrees(o, rows)'
<1> SUFFICES ASSUME NEW rows, Agrees(o, rows)
             PROVE  Agrees(o, rows)'
  OBVIOUS
<1>1. ASSUME NEW row \in rows
      PROVE  /\ row.thread \in Threads' /\ row.room \in GetOverviewRoomTargets(o)
             /\ thread'[row.thread].enabled /\ thread'[row.thread].room = row.room
             /\ FirstExtracted(row.thread)'
             /\ LET m == thread'[row.thread].first
                IN  mail'[m].thread = row.thread /\ mail'[m].matrix # None =>
                        row.message = mail'[m].matrix
  <2>1. PICK t : t = row.thread
    OBVIOUS
  <2>2. PICK m : m = thread[t].first
    OBVIOUS
  <2>3. /\ t \in Threads /\ row.room \in GetOverviewRoomTargets(o)
        /\ thread[t].enabled /\ thread[t].room = row.room /\ mail[m].extracted
        /\ mail[m].thread = t /\ mail[m].matrix # None => row.message = mail[m].matrix
    BY <2>1, <2>2 DEF Agrees, FirstExtracted
  <2>4. m \in Mails /\ t \in Threads' /\ thread'[t].first = m
    BY <2>2, <2>3, StaySettled DEF Settled, Types, DbTypes, Stored
  <2>5. mail'[m].extracted /\ mail'[m].thread = mail[m].thread
    BY <2>3, <2>4, ExtractedStay
  <2>6. mail[m].thread = t => mail'[m].matrix \in {mail[m].matrix, None}
    BY <2>3, <2>4
  <2> QED
    BY <2>1, <2>3, <2>4, <2>5, <2>6 DEF FirstExtracted
<1>2. ASSUME NEW t \in Threads', thread'[t].enabled, thread'[t].matrix # None,
             thread'[t].room \in GetOverviewRoomTargets(o), Due(t)'
      PROVE  \E row \in rows : row.thread = t
  BY <1>2 DEF Agrees
<1> QED
  BY <1>1, <1>2 DEF Agrees, GetOverviewRoomTargets

\* Where the rows of the threads are as they were, in the rooms of the overview.
LEMMA AgreesWithRows ==
  ASSUME NoReply, Types, Types', SortInv, ListsInv, MirrorInv, [Next]_vars,
         NEW o \in OverviewRooms, Threads' = Threads,
         \A t \in Threads :
            \/ thread'[t] = thread[t]
            \/ thread[t].room \notin GetOverviewRoomTargets(o)
               /\ thread'[t].room \notin GetOverviewRoomTargets(o),
         \A m \in Mails :
            /\ mail[m].thread \in Threads
            /\ thread[mail[m].thread].room \in GetOverviewRoomTargets(o)
            => mail'[m].matrix \in {mail[m].matrix, None}
  PROVE  \A rows : Agrees(o, rows) => Agrees(o, rows)'
<1>1. Closing => Closing'
  BY ClosingStays
<1>2. \A t \in Threads : thread[t].room \in GetOverviewRoomTargets(o) =>
            thread'[t].room = thread[t].room /\ (thread[t].enabled => thread'[t].enabled)
  OBVIOUS
<1>3. \A t \in Threads' :
            /\ thread'[t].enabled /\ thread'[t].matrix # None
            /\ thread'[t].room \in GetOverviewRoomTargets(o) /\ Due(t)'
            => /\ t \in Threads /\ thread[t].enabled /\ thread[t].matrix # None
               /\ thread[t].room \in GetOverviewRoomTargets(o) /\ Due(t)
  BY <1>1 DEF Due
<1> QED
  BY <1>2, <1>3, AgreesStays

\* What the statements do to the rows of the threads.
LEMMA ThreadRows ==
  ASSUME DbTypes
  PROVE  /\ \A t, m : UpdateThreadLastMail(t, m) =>
                /\ Threads' = Threads /\ \A u \in Threads \ {t} : thread'[u] = thread[u]
                /\ t \in Threads =>
                    /\ thread'[t].enabled /\ thread'[t].last = m
                    /\ thread'[t].matrix = thread[t].matrix
                    /\ thread'[t].room = thread[t].room
         /\ \A room, id, enabled, force : UpdateThreadEnabled(room, id, enabled, force) =>
                /\ Threads' = Threads
                /\ \A u \in Threads :
                    \/ thread'[u] = thread[u]
                    \/ /\ thread[u].room = room /\ thread'[u].room = room
                       /\ thread'[u].enabled = enabled
         /\ \A t : RemoveThreadMatrixId(t) =>
                /\ Threads' = Threads
                /\ \A u \in Threads :
                    /\ thread'[u].matrix \in {thread[u].matrix, None}
                    /\ thread'[u].room = thread[u].room
                    /\ thread'[u].enabled = thread[u].enabled
                    /\ thread'[u].last = thread[u].last
         /\ \A m : AddThread(m) => thread'[Len(thread) + 1].enabled
         /\ \A t \in Threads : \A room, id : UpdateThreadMatrixIds(t, room, id) =>
                thread'[t].enabled = thread[t].enabled
<1>1. /\ thread \in [Threads -> ThreadRow] /\ \A u \in Threads : thread[u] \in ThreadRow
  <2>1. thread \in [Threads -> ThreadRow]
    BY ThreadsAreNumbers, LenProperties DEF DbTypes
  <2> QED
    BY <2>1
<1>2. ASSUME NEW t, NEW m, UpdateThreadLastMail(t, m)
      PROVE  /\ Threads' = Threads /\ \A u \in Threads \ {t} : thread'[u] = thread[u]
             /\ t \in Threads =>
                    /\ thread'[t].enabled /\ thread'[t].last = m
                    /\ thread'[t].matrix = thread[t].matrix
                    /\ thread'[t].room = thread[t].room
  <2>1. Threads' = Threads
    BY <1>1, <1>2 DEF UpdateThreadLastMail, Threads
  <2>2. /\ \A u \in Threads \ {t} : thread'[u] = thread[u]
        /\ t \in Threads => thread'[t] = [thread[t] EXCEPT !.enabled = TRUE, !.last = m]
    BY <1>1, <1>2 DEF UpdateThreadLastMail
  <2> QED
    BY <1>1, <2>1, <2>2 DEF ThreadRow
<1>3. ASSUME NEW room, NEW id, NEW enabled, NEW force,
             UpdateThreadEnabled(room, id, enabled, force)
      PROVE  /\ Threads' = Threads
             /\ \A u \in Threads :
                    \/ thread'[u] = thread[u]
                    \/ /\ thread[u].room = room /\ thread'[u].room = room
                       /\ thread'[u].enabled = enabled
  <2>1. Threads' = Threads
    BY <1>1, <1>3 DEF UpdateThreadEnabled, Threads
  <2>2. ASSUME NEW u \in Threads
        PROVE  \/ thread'[u] = thread[u]
               \/ /\ thread[u].room = room /\ thread'[u].room = room
                  /\ thread'[u].enabled = enabled
    <3> DEFINE close == IF force = None THEN thread[u].forceClose ELSE force
    <3>1. \/ thread'[u] = thread[u]
          \/ /\ u \in UpdateThreadEnabledMatches(room, id, enabled, force)
             /\ thread'[u] = [thread[u] EXCEPT !.enabled = enabled, !.forceClose = close]
      BY <1>1, <1>3 DEF UpdateThreadEnabled, ThreadRow
    <3> HIDE DEF close
    <3>2. u \in UpdateThreadEnabledMatches(room, id, enabled, force) => thread[u].room = room
      BY DEF UpdateThreadEnabledMatches
    <3> QED
      BY <1>1, <3>1, <3>2 DEF ThreadRow
  <2> QED
    BY <2>1, <2>2
<1>4. ASSUME NEW t, RemoveThreadMatrixId(t)
      PROVE  /\ Threads' = Threads
             /\ \A u \in Threads :
                    /\ thread'[u].matrix \in {thread[u].matrix, None}
                    /\ thread'[u].room = thread[u].room
                    /\ thread'[u].enabled = thread[u].enabled
                    /\ thread'[u].last = thread[u].last
  <2>1. Threads' = Threads
    BY <1>1, <1>4 DEF RemoveThreadMatrixId, Threads
  <2>2. \A u \in Threads : \/ thread'[u] = thread[u]
                           \/ thread'[u] = [thread[u] EXCEPT !.matrix = None]
    BY <1>1, <1>4 DEF RemoveThreadMatrixId
  <2> QED
    BY <1>1, <2>1, <2>2 DEF ThreadRow
<1>5. ASSUME NEW m, AddThread(m)
      PROVE  thread'[Len(thread) + 1].enabled
  <2> DEFINE row == [enabled |-> TRUE, forceClose |-> FALSE, first |-> m, last |-> m,
                     matrix |-> None, room |-> None]
  <2>1. thread' = Append(thread, row)
    BY <1>5 DEF AddThread
  <2>2. thread'[Len(thread) + 1] = row
    <3> HIDE DEF row
    <3> QED
      BY <2>1 DEF DbTypes
  <2> QED
    BY <2>2
<1>6. ASSUME NEW t \in Threads, NEW room, NEW id, UpdateThreadMatrixIds(t, room, id)
      PROVE  thread'[t].enabled = thread[t].enabled
  <2>1. thread'[t] = [thread[t] EXCEPT !.matrix = id, !.room = room]
    BY <1>1, <1>6 DEF UpdateThreadMatrixIds
  <2> QED
    BY <1>1, <2>1 DEF ThreadRow
<1> QED
  BY <1>2, <1>3, <1>4, <1>5, <1>6

\* The sorting stage reopens a thread for an answer, which is not its first mail.
LEMMA SortingShows ==
  ASSUME NoReply, Types, Types', SortInv, ListsInv, MirrorInv, FirstMails, OpenInv,
         [Next]_vars, SortingStage
  PROVE  /\ OpenInv'
         /\ \A o \in OverviewRooms : \A rows : Agrees(o, rows) => Agrees(o, rows)'
<1> USE Names
<1>0. /\ DbTypes /\ (Closing => Closing')
      /\ \A m \in Mails : mail[m].matrix = mail'[m].matrix
  <2>1. SameMailIds
    <3>1. \/ UNCHANGED mail \/ AutoUpdateMailReplyTo
          \/ \E m \in Mails : \/ UpdateMailMarkSorted(m)
                            \/ \E t, p : UpdateMailSorting(m, t, p)
      BY DEF SortingStage, Sorting, SortingStep, SortingBegin, LockThreadSorting,
         WaitForCompleteData, AutoUpdateMailSorting, ListMailsRequiringSorting,
         LookUpReplyTo, LookUpReferences, JoinThread, TouchThread, CreateThread,
         MarkMailAsSorted, ClaimHead, FinishSorting, dbVars, At, Types, SorterTypes, Stored
    <3> QED
      BY <3>1, MailIds DEF Types
  <2> QED
    BY <2>1, ClosingStays DEF Types, SameMailIds
<1>1. CASE UNCHANGED thread
  <2>1. OpenInv'
    BY <1>0, <1>1 DEF OpenInv, Threads
  <2>2. Threads' = Threads /\ \A t \in Threads : thread'[t] = thread[t]
    BY <1>1 DEF Threads
  <2> QED
    BY <1>0, <2>1, <2>2, AgreesWithRows
<1>2. CASE TouchThread
  <2>1. PICK t, m : t = sorter.target /\ m = sorter.cur
    OBVIOUS
  <2>2. t \in Threads /\ thread[t].first # m
    BY <1>2, <2>1 DEF TouchThread, At, Types, SorterTypes, FirstMails
  <2>3. UpdateThreadLastMail(t, m)
    BY <1>2, <2>1 DEF TouchThread
  <2>4. /\ Threads' = Threads /\ \A u \in Threads \ {t} : thread'[u] = thread[u]
        /\ thread'[t].enabled /\ thread'[t].last = m
        /\ thread'[t].matrix = thread[t].matrix /\ thread'[t].room = thread[t].room
        /\ thread'[t].first # m
    BY <1>0, <2>2, <2>3, ThreadRows, StaySettled DEF Settled
  <2>5. OpenInv'
    BY <1>0, <2>4 DEF OpenInv
  <2>6. Due(t)' => Due(t) /\ thread[t].enabled
    BY <1>0, <2>2, <2>4 DEF Due, OpenInv
  <2>7. ASSUME NEW o \in OverviewRooms
        PROVE  \A rows : Agrees(o, rows) => Agrees(o, rows)'
    <3>1. \A u \in Threads : thread[u].room \in GetOverviewRoomTargets(o) =>
            thread'[u].room = thread[u].room /\ (thread[u].enabled => thread'[u].enabled)
      BY <2>4
    <3>2. \A u \in Threads' :
            /\ thread'[u].enabled /\ thread'[u].matrix # None
            /\ thread'[u].room \in GetOverviewRoomTargets(o) /\ Due(u)'
            => /\ u \in Threads /\ thread[u].enabled /\ thread[u].matrix # None
               /\ thread[u].room \in GetOverviewRoomTargets(o) /\ Due(u)
      <4>1. \A u \in Threads \ {t} : Due(u)' => Due(u)
        BY <1>0, <2>4 DEF Due
      <4> QED
        BY <2>4, <2>6, <4>1
    <3> QED
      BY <1>0, <3>1, <3>2, AgreesStays
  <2> QED
    BY <2>5, <2>7
<1>3. CASE CreateThread
  <2>1. sorter.cur \in Stored /\ AddThread(sorter.cur) /\ UNCHANGED mail
    BY <1>3 DEF CreateThread, At, Types, SorterTypes
  <2>2. PICK n : n = Len(thread) + 1
    OBVIOUS
  <2>3. /\ Threads' = Threads \cup {n} /\ n \notin Threads
        /\ \A t \in Threads : thread'[t] = thread[t]
        /\ thread'[n].enabled /\ thread'[n].matrix = None
    <3>1. UNCHANGED timeline
      BY DEF SortingStage, matrixVars
    <3>2. Threads' = Threads \cup {n} /\ n \notin Threads
      BY <1>0, <2>1, <2>2, <3>1, AddThreadTypes, EventsStay, ThreadsAreNumbers
    <3>3. ~SameRows /\ ~UNCHANGED thread
      BY <3>2 DEF SameRows, Threads
    <3>4. (\A t \in Threads : thread'[t] = thread[t]) /\ thread'[n].matrix = None
      BY <2>2, <3>3, SortingCases DEF SortsNext
    <3> QED
      BY <1>0, <2>1, <2>2, <3>2, <3>4, ThreadRows
  <2>4. OpenInv'
    BY <1>0, <2>3 DEF OpenInv
  <2>5. ASSUME NEW o \in OverviewRooms
        PROVE  \A rows : Agrees(o, rows) => Agrees(o, rows)'
    <3>1. \A u \in Threads : thread[u].room \in GetOverviewRoomTargets(o) =>
            thread'[u].room = thread[u].room /\ (thread[u].enabled => thread'[u].enabled)
      BY <2>3
    <3>2. \A u \in Threads' :
            /\ thread'[u].enabled /\ thread'[u].matrix # None
            /\ thread'[u].room \in GetOverviewRoomTargets(o) /\ Due(u)'
            => /\ u \in Threads /\ thread[u].enabled /\ thread[u].matrix # None
               /\ thread[u].room \in GetOverviewRoomTargets(o) /\ Due(u)
      <4>1. \A u \in Threads : Due(u)' => Due(u)
        BY <1>0, <2>3 DEF Due
      <4> QED
        BY <2>3, <4>1
    <3> QED
      BY <1>0, <3>1, <3>2, AgreesStays
  <2> QED
    BY <2>4, <2>5
<1>4. UNCHANGED thread \/ TouchThread \/ CreateThread
  BY DEF SortingStage, Sorting, SortingStep, SortingBegin, LockThreadSorting,
     WaitForCompleteData, AutoUpdateMailSorting, ListMailsRequiringSorting, LookUpReplyTo,
     LookUpReferences, JoinThread, MarkMailAsSorted, ClaimHead, FinishSorting, dbVars
<1> QED
  BY <1>1, <1>2, <1>3, <1>4

\* A command that changes threads queues the overviews of their room.
LEMMA OthersShow ==
  ASSUME Covered, NoReply, Types, Types', SortInv, ListsInv, MirrorInv, OpenInv, [Next]_vars,
         ~(NotificationStage \/ MistakeHead \/ LoseAnswer), ~SortingStage
  PROVE  /\ OpenInv'
         /\ closed' = {} => \A o \in OverviewRooms : o \in queued' \/
                \A rows : Agrees(o, rows) => Agrees(o, rows)'
<1> USE Names
<1>0. /\ DbTypes /\ (Closing => Closing')
      /\ \A m \in Mails : mail[m].matrix = mail'[m].matrix
      /\ \A c \in Commands : cmd[c].pc \in {"idle", "wait"}
  <2>1. \A c \in Commands : cmd[c].pc \notin MoveSteps \cup ReplySteps
    BY DEF NoReply, MirrorInv, SortInv, WritingInv
  <2>2. SameMailIds
    BY <2>1, OtherIds DEF MoveSteps, ReplySteps
  <2>3. \A c \in Commands : cmd[c].pc \in {"idle", "wait"}
    BY <2>1 DEF Types, CommandTypes, CommandSteps, MoveSteps, ReplySteps
  <2> QED
    BY <2>2, <2>3, ClosingStays DEF Types, SameMailIds
<1>1. CASE UNCHANGED thread
  <2>1. OpenInv'
    BY <1>0, <1>1 DEF OpenInv, Threads
  <2>2. Threads' = Threads /\ \A t \in Threads : thread'[t] = thread[t]
    BY <1>1 DEF Threads
  <2> QED
    BY <1>0, <2>1, <2>2, AgreesWithRows
<1>2. ASSUME NEW c \in Commands, NEW e \in Events, SetThreadState(c, e)
      PROVE  /\ OpenInv'
             /\ closed' = {} => \A o \in OverviewRooms : o \in queued' \/
                    \A rows : Agrees(o, rows) => Agrees(o, rows)'
  <2>1. PICK room, force : /\ room = timeline[e].room
                           /\ UpdateThreadEnabled(room, e, Enables(c), force)
    BY <1>2 DEF SetThreadState
  <2>2. /\ Threads' = Threads
        /\ \A u \in Threads : \/ thread'[u] = thread[u]
                              \/ /\ thread[u].room = room /\ thread'[u].room = room
                                 /\ thread'[u].enabled = Enables(c)
    BY <1>0, <2>1, ThreadRows
  <2>3. Kind[c] # "open" => Closing'
    <3>1. Kind[c] \in {"open", "close", "forceclose"} /\ cmd'[c].tries = 1
      <4>1. PICK pc : cmd' = [cmd EXCEPT ![c] =
                [NewCommand EXCEPT !.tries = 1, !.room = timeline[e].room, !.pc = pc]]
        BY <1>2 DEF SetThreadState
      <4>2. cmd'[c].tries = 1
        BY <4>1 DEF Types, CommandTypes, NewCommand
      <4> QED
        BY <1>2, <4>2 DEF SetThreadState
    <3> QED
      BY <3>1 DEF Closing
  <2>4. OpenInv'
    BY <1>0, <2>2, <2>3 DEF OpenInv, Enables
  <2>5. ASSUME NEW o \in OverviewRooms, closed' = {}, o \notin queued'
        PROVE  \A rows : Agrees(o, rows) => Agrees(o, rows)'
    <3>1. CASE Matches(c, e) = {}
      <4>1. \A t \in Threads : thread'[t] = thread[t]
        BY <1>2, <3>1 DEF SetThreadState, UpdateThreadEnabled, Matches
      <4> QED
        BY <1>0, <2>2, <4>1, AgreesWithRows
    <3>2. CASE Matches(c, e) # {}
      <4>1. QueueWorkBlocking(GetOverviewRooms(room), c)
        BY <1>2, <2>1, <3>2 DEF SetThreadState, QueueOverviewUpdate
      <4>2. o \notin GetOverviewRooms(room)
        BY <2>5, <4>1 DEF QueueWorkBlocking, QueueAll
      <4>3. room \notin GetOverviewRoomTargets(o)
        BY <4>2, ListedRooms
      <4> QED
        BY <1>0, <2>2, <4>3, AgreesWithRows
    <3> QED
      BY <3>1, <3>2
  <2> QED
    BY <2>4, <2>5
<1>3. UNCHANGED thread \/ \E c \in Commands, e \in Events : SetThreadState(c, e)
  <2>1. CASE Bystanders
    BY <2>1 DEF Bystanders, Pump, ReceiveChunk, StoreMail, EndChunk, dbVars,
         ExtractionStage, Extraction, ExtractionStep, ExtractionFails, ExtractionBegin,
         ListMailsRequiringMessageExtraction, PerformMessageExtraction, FinishExtraction,
         CancelBatch, RemoveHead, Redact, OverviewStage, OverviewFails, RepostOverview,
         Resend, OverviewStep, ListOverviewThreads, EditThreadOverview, PostThreadOverview,
         PostMessage, OverviewMessageUpdated, UpdateFails, PostSecondOverview,
         RemoveLargeOverview, ResendThreadOverview, Stop, vars
  <2>2. ASSUME NEW c \in Commands, Command(c)
        PROVE  UNCHANGED thread \/ \E e \in Events : SetThreadState(c, e)
    BY <1>0, <2>2 DEF Command, Issue, MoveStart, ReplyStart, CommandStep,
         MoveForgetHead, MoveForgetMails, MoveRehome, MoveRequest, ReplyFindOriginal,
         ReplyLock, ReplySend, ReplyStore, ReplyAddMail, ReplySetMessages,
         ReplyJoinThread, ReplyTouchThread, ReplyRecord, StagesAnswer, ReplySendFails,
         dbVars
  <2>3. CASE Crash \/ Exit
    BY <2>3 DEF Crash, Exit, StartAgain, dbVars
  <2> QED
    BY <2>1, <2>2, <2>3, Steps
<1> QED
  BY <1>1, <1>2, <1>3

\* The notification stage notes the overviews of every room it changes.
Noted(o) ==
    /\ o \in notifier.touched => o \in notifier'.touched \cup queued'
    /\ \/ o \in notifier'.touched \cup queued'
       \/ \A rows : Agrees(o, rows) => Agrees(o, rows)'

LEMMA NotifierShows ==
  ASSUME Covered, NoReply, Types, Types', SortInv, ListsInv, HomeInv, MirrorInv, ReadyInv,
         OpenInv, [Next]_vars, NotificationStage \/ MistakeHead \/ LoseAnswer
  PROVE  OpenInv' /\ (closed' = {} => \A o \in OverviewRooms : Noted(o))
<1> USE Names
<1>0. /\ DbTypes /\ (Closing => Closing') /\ notifier \in NotifierRecord
      /\ HeadsReady /\ MailsReady /\ TouchedAwait
      /\ UNCHANGED closed /\ SameStatus /\ Settled
  BY ClosingStays, NotifierLeaves, StaySettled DEF Types, NotifierTypes, NotifierRecord, ReadyInv
\* Where the tables stay as they are.
<1>1. ASSUME UNCHANGED <<mail, thread>>
      PROVE  OpenInv' /\ \A o \in OverviewRooms : \A rows : Agrees(o, rows) => Agrees(o, rows)'
  <2>1. OpenInv'
    BY <1>0, <1>1 DEF OpenInv, Threads
  <2>2. Threads' = Threads /\ \A t \in Threads : thread'[t] = thread[t]
    BY <1>1 DEF Threads
  <2> QED
    BY <1>1, <2>1, <2>2, AgreesWithRows
<1>2. CASE NotifierReads \/ NotifierPosts \/ ForgettingFails \/ SendFails \/ FinishNotification
  <2>1. UNCHANGED <<mail, thread>>
    BY <1>2 DEF NotifierReads, NotificationBegin, ListMatrixReadyThreads,
       ListMatrixReadyMails, CheckThread, FindHeadRedacted, MistakeHeadForRedacted, LinkFails,
       NotifierPosts, PostHead, LinkRecreation, SendMail, AnswerLost, ForgettingFails,
       SendFails, FinishNotification, dbVars
  <2>2. ASSUME closed = {}, NEW o \in notifier.touched
        PROVE  o \in notifier'.touched \cup queued'
    <3>1. CASE FinishNotification
      BY <2>2, <3>1 DEF FinishNotification, QueueAll
    <3>2. CASE ListMatrixReadyMails
      <4>1. PICK listed : /\ listed = MatrixReadyMails
                          /\ notifier'.touched = IF NAt("mails") /\ listed = {} THEN {}
                                                 ELSE notifier.touched
        BY <1>0, <2>2, <3>2 DEF ListMatrixReadyMails, Cancelled, NotifierRecord
      <4>2. NAt("mails") => listed # {}
        BY <1>0, <2>2, <4>1 DEF TouchedAwait, NAt
      <4> QED
        BY <2>2, <4>1, <4>2
    <3>3. CASE AnswerLost \/ ForgettingFails \/ SendFails
      <4>1. CallAgain
        BY <3>3 DEF AnswerLost, ForgettingFails, SendFails
      <4>2. notifier'.touched = notifier.touched
        BY <1>0, <2>2, <4>1 DEF CallAgain, Cancelled, NotifierRecord
      <4> QED
        BY <2>2, <4>2
    <3>4. CASE \/ NotificationBegin \/ ListMatrixReadyThreads
               \/ \E t \in Threads : CheckThread(t)
               \/ FindHeadRedacted \/ MistakeHeadForRedacted \/ LinkFails
               \/ PostHead \/ LinkRecreation \/ SendMail
      <4>1. notifier'.touched = notifier.touched
        BY <1>0, <3>4 DEF NotificationBegin, ListMatrixReadyThreads, CheckThread,
           FindHeadRedacted, MistakeHeadForRedacted, LinkFails, PostHead, LinkRecreation,
           SendMail, NotifierRecord
      <4> QED
        BY <2>2, <4>1
    <3> QED
      BY <1>2, <3>1, <3>2, <3>3, <3>4 DEF NotifierReads, NotifierPosts
  <2> QED
    BY <1>0, <1>1, <2>1, <2>2 DEF Noted
<1>3. CASE RecordHead
  <2>1. PICK t, room : t = notifier.head /\ room = timeline[notifier.id].room
    OBVIOUS
  <2>2. /\ notifier'.touched = notifier.touched \cup GetOverviewRooms(room)
        /\ notifier.pc = "record head" /\ t \in Threads /\ UNCHANGED mail
    BY <1>0, <1>3, <2>1 DEF RecordHead, NAt, NotifierRecord, Types, NotifierTypes
  <2>3. CASE UNCHANGED thread
    BY <1>0, <1>1, <2>2, <2>3 DEF Noted
  <2>4. CASE UpdateThreadMatrixIds(t, room, notifier.id)
    <3>1. /\ Threads' = Threads /\ thread'[t].room = room
          /\ \A u \in Threads \ {t} : thread'[u] = thread[u]
      BY <1>0, <2>2, <2>4, ThreadIds
    <3>2. thread'[t].enabled = thread[t].enabled
      BY <1>0, <2>2, <2>4, ThreadRows
    <3>3. OpenInv'
      BY <1>0, <3>1, <3>2 DEF OpenInv
    <3>4. ASSUME NEW o \in OverviewRooms, o \notin GetOverviewRooms(room)
          PROVE  \A rows : Agrees(o, rows) => Agrees(o, rows)'
      <4>1. room \notin GetOverviewRoomTargets(o)
        BY <3>4, ListedRooms
      <4>2. None \notin GetOverviewRoomTargets(o)
        BY OverviewAssumption DEF GetOverviewRoomTargets
      <4>3. thread[t].room \in {None, room}
        BY <1>0, <2>1, <2>2 DEF HeadsReady
      <4> QED
        BY <2>2, <3>1, <4>1, <4>2, <4>3, AgreesWithRows
    <3> QED
      BY <2>2, <3>3, <3>4 DEF Noted
  <2> QED
    BY <1>3, <2>1, <2>3, <2>4 DEF RecordHead
<1>4. CASE RecordMail
  <2>1. PICK m, room : m = notifier.mail /\ room = timeline[notifier.id].room
    OBVIOUS
  <2>2. /\ notifier'.touched = notifier.touched \cup GetOverviewRooms(room)
        /\ notifier.pc = "record mail" /\ m \in Mails /\ UNCHANGED thread
    BY <1>0, <1>4, <2>1 DEF RecordMail, NAt, NotifierRecord, Types, NotifierTypes
  <2>3. CASE UNCHANGED mail
    BY <1>0, <1>1, <2>2, <2>3 DEF Noted
  <2>4. CASE UpdateMailMatrixId(m, notifier.id)
    <3>1. \A n \in Mails \ {m} : mail'[n].matrix = mail[n].matrix
      BY <1>0, <2>2, <2>4, MailIds
    <3>2. Threads' = Threads /\ \A u \in Threads : thread'[u] = thread[u]
      BY <2>2 DEF Threads
    <3>3. OpenInv'
      BY <1>0, <3>2 DEF OpenInv
    <3>4. ASSUME NEW o \in OverviewRooms, o \notin GetOverviewRooms(room)
          PROVE  \A rows : Agrees(o, rows) => Agrees(o, rows)'
      <4>1. thread[mail[m].thread].room \notin GetOverviewRoomTargets(o)
        BY <1>0, <2>1, <2>2, <3>4, ListedRooms DEF MailsReady
      <4> QED
        BY <3>1, <3>2, <4>1, AgreesWithRows
    <3> QED
      BY <2>2, <3>3, <3>4 DEF Noted
  <2> QED
    BY <1>4, <2>1, <2>3, <2>4 DEF RecordMail
<1>5. CASE ForgetHead
  <2>1. PICK t : RemoveThreadMatrixId(t)
    BY <1>5 DEF ForgetHead
  <2>2. /\ Threads' = Threads /\ UNCHANGED mail
        /\ notifier'.touched = notifier.touched
        /\ \A u \in Threads :
             /\ thread'[u].matrix \in {thread[u].matrix, None}
             /\ thread'[u].room = thread[u].room /\ thread'[u].enabled = thread[u].enabled
             /\ thread'[u].last = thread[u].last /\ thread'[u].first = thread[u].first
    BY <1>0, <1>5, <2>1, ThreadRows DEF ForgetHead, NotifierRecord, Settled
  <2>3. OpenInv'
    BY <1>0, <2>2 DEF OpenInv
  <2>4. \A u \in Threads : Due(u)' => Due(u)
    BY <1>0, <2>2 DEF Due
  <2>5. \A o \in OverviewRooms : \A rows : Agrees(o, rows) => Agrees(o, rows)'
    BY <2>2, <2>4, AgreesStays
  <2> QED
    BY <2>2, <2>3, <2>5 DEF Noted
<1>6. CASE ForgetMails
  <2>1. PICK t : RemoveMailMatrixIdsByThread(t)
    BY <1>6 DEF ForgetMails
  <2>2. /\ UNCHANGED thread /\ CallAgain
        /\ \A m \in Mails : mail'[m].matrix \in {mail[m].matrix, None}
    BY <1>0, <1>6, <2>1, MailIds DEF ForgetMails, NoMailIds
  <2>3. closed = {} => notifier'.touched = notifier.touched
    BY <1>0, <2>2 DEF CallAgain, Cancelled, NotifierRecord
  <2>4. Threads' = Threads /\ \A u \in Threads : thread'[u] = thread[u]
    BY <2>2 DEF Threads
  <2>5. OpenInv'
    BY <1>0, <2>4 DEF OpenInv
  <2>6. \A o \in OverviewRooms : \A rows : Agrees(o, rows) => Agrees(o, rows)'
    BY <2>2, <2>4, AgreesWithRows
  <2> QED
    BY <1>0, <2>3, <2>5, <2>6 DEF Noted
<1>7. NotifierReads \/ NotifierPosts \/ NotifierWrites
  BY DEF NotificationStage, MistakeHead, LoseAnswer, Notification, NotificationStep,
     NotificationFails, NotifierReads, NotifierPosts, NotifierWrites
<1> QED
  BY <1>2, <1>3, <1>4, <1>5, <1>6, <1>7 DEF NotifierWrites
-----------------------------------------------------------------------------
(* What an overview shows *)

\* What the run in hand is going to show, and between the runs what is there.
Picture(o) ==
    IF overviewer[o].pc \in {"update", "replace"} THEN overviewer[o].rows
    ELSE IF overviewer[o].pc = "record" THEN board[o][overviewer[o].id].shows
    ELSE board[o][overviewId[o]].shows

Pictured(o) ==
    /\ overviewer[o].pc = "rest" => overviewId[o] \in Live(o)
    /\ o \in notifier.touched \/ Agrees(o, Picture(o))

\* An overview that is not up to date is updated again.
PictureInv == closed = {} => \A o \in OverviewRooms : o \in queued \/ Pictured(o)

OwnStep(o) == OverviewStage(o) \/ OverviewFails(o) \/ RepostOverview(o) \/ Resend(o)

SameBoard(o) ==
    /\ overviewer'[o] = overviewer[o] /\ overviewId'[o] = overviewId[o]
    /\ board'[o] = board[o]

LEMMA BoardCases ==
  ASSUME Types, [Next]_vars, NEW o \in OverviewRooms
  PROVE  SameBoard(o) \/ OwnStep(o) \/ Crash \/ Exit
<1>1. UNCHANGED overviewVars => SameBoard(o)
  BY DEF overviewVars, SameBoard
<1>2. ASSUME NEW p \in OverviewRooms \ {o}, OwnStep(p)
      PROVE  SameBoard(o)
  <2>1. \/ UNCHANGED overviewer
        \/ \E w : overviewer' = [overviewer EXCEPT ![p] = w]
    <3>1. RemoveLargeOverview(p) => \E w : overviewer' = [overviewer EXCEPT ![p] = w]
      BY DEF RemoveLargeOverview, Types, OverviewTypes
    <3> QED
      BY <1>2, <3>1 DEF OwnStep, OverviewStage, OverviewFails, RepostOverview, Resend,
         OverviewStep, ListOverviewThreads, EditThreadOverview, PostThreadOverview,
         PostMessage, OverviewMessageUpdated, UpdateFails, PostSecondOverview,
         ResendThreadOverview, EndRun
  <2>2. \/ UNCHANGED overviewId
        \/ \E i : overviewId' = [overviewId EXCEPT ![p] = i]
    BY <1>2 DEF OwnStep, OverviewStage, OverviewFails, RepostOverview, Resend,
       OverviewStep, ListOverviewThreads, EditThreadOverview, PostThreadOverview,
       PostMessage, OverviewMessageUpdated, UpdateFails, PostSecondOverview,
       RemoveLargeOverview, ResendThreadOverview
  <2>3. \/ UNCHANGED board
        \/ \E b : board' = [board EXCEPT ![p] = b]
    <3>1. board \in [OverviewRooms -> Seq(OverviewMessage)]
      BY DEF Types, OverviewTypes
    <3>2. \A n : board' = [board EXCEPT ![p][n].removed = TRUE] =>
                \E b : board' = [board EXCEPT ![p] = b]
      BY <3>1
    <3>3. EditThreadOverview(p) => \E b : board' = [board EXCEPT ![p] = b]
      BY <3>1 DEF EditThreadOverview
    <3>4. PostMessage(p) => \E b : board' = [board EXCEPT ![p] = b]
      BY <3>1 DEF PostMessage
    <3> QED
      BY <1>2, <3>2, <3>3, <3>4 DEF OwnStep, OverviewStage, OverviewFails, RepostOverview,
         Resend, OverviewStep, ListOverviewThreads, PostThreadOverview,
         OverviewMessageUpdated, UpdateFails, PostSecondOverview, RemoveLargeOverview,
         ResendThreadOverview
  <2>4. o # p
    BY <1>2
  <2> QED
    BY <2>1, <2>2, <2>3, <2>4 DEF SameBoard, Types, OverviewTypes
<1>3. CASE Pump \/ SortingStage \/ ExtractionStage \/ NotificationStage \/ MistakeHead
           \/ LoseAnswer \/ (\E e \in Events : RemoveHead(e))
           \/ (\E c \in Commands : Command(c)) \/ Stop \/ UNCHANGED vars
  BY <1>1, <1>3 DEF Pump, ReceiveChunk, StoreMail, EndChunk, pumpRest, SortingStage,
       ExtractionStage, NotificationStage, MistakeHead, LoseAnswer, RemoveHead, Command,
       Stop, vars, overviewVars
<1> QED
  BY <1>2, <1>3 DEF Next, OwnStep

\* Only a run of its stage takes up a request for an overview.
LEMMA RequestsStay ==
  ASSUME Types, SortInv, [Next]_vars, NEW o \in OverviewRooms, o \in queued, ~OwnStep(o)
  PROVE  o \in queued'
<1>1. /\ \A S : QueueAll(S) => o \in queued'
      /\ \A s : s # o /\ TakeUp(s) => o \in queued'
      /\ UNCHANGED stageVars \/ UNCHANGED queued => o \in queued'
  BY DEF QueueAll, TakeUp, stageVars
<1>2. o \notin StageNames
  BY OverviewAssumption
<1>3. CASE Pump
  BY <1>1, <1>3 DEF Pump, ReceiveChunk, StoreMail, EndChunk, pumpRest, QueueWork
<1>4. CASE SortingStage
  BY <1>1, <1>2, <1>4 DEF StageNames, SortingStage, Sorting, SortingStep, SortingBegin,
     LockThreadSorting, WaitForCompleteData, AutoUpdateMailSorting, ListMailsRequiringSorting,
     LookUpReplyTo, LookUpReferences, JoinThread, TouchThread, MarkMailAsSorted,
     CreateThread, ClaimHead, FinishSorting, QueueWork
<1>5. CASE ExtractionStage
  BY <1>1, <1>2, <1>5 DEF StageNames, ExtractionStage, Extraction, ExtractionStep,
     ExtractionFails, ExtractionBegin, ListMailsRequiringMessageExtraction,
     PerformMessageExtraction, FinishExtraction, CancelBatch, QueueWork
<1>6. CASE NotificationStage \/ MistakeHead \/ LoseAnswer
  <2>1. o # "notification"
    BY <1>2 DEF StageNames
  <2> QED
    BY <1>6, <2>1, NotifierLeaves
<1>7. ASSUME NEW p \in OverviewRooms, OwnStep(p)
      PROVE  o \in queued'
  <2>1. p # o
    BY <1>7
  <2> QED
    BY <1>1, <1>7, <2>1 DEF OwnStep, OverviewStage, OverviewFails, RepostOverview, Resend,
       OverviewStep, ListOverviewThreads, EditThreadOverview, PostThreadOverview,
       PostMessage, OverviewMessageUpdated, UpdateFails, PostSecondOverview,
       RemoveLargeOverview, ResendThreadOverview, QueueWork
<1>8. ASSUME NEW c \in Commands, Command(c)
      PROVE  o \in queued'
  BY <1>1, <1>8 DEF Command, Issue, SetThreadState, MoveStart, ReplyStart, CommandStep,
     MoveForgetHead, MoveForgetMails, MoveRehome, MoveRequest, ReplyFindOriginal,
     ReplyLock, ReplySend, ReplyStore, ReplyAddMail, ReplySetMessages, ReplyJoinThread,
     ReplyTouchThread, ReplyRecord, StagesAnswer, ReplySendFails, QueueWorkBlocking,
     QueueOverviewUpdate
<1>9. CASE (\E e \in Events : RemoveHead(e)) \/ Crash \/ Exit \/ Stop \/ UNCHANGED vars
  BY <1>1, <1>9 DEF RemoveHead, Redact, Crash, Exit, StartAgain, Stop, vars
<1> QED
  BY <1>3, <1>4, <1>5, <1>6, <1>7, <1>8, <1>9 DEF Next, OwnStep

\* The rows of the database are up to date when they are read.
LEMMA FreshAgrees ==
  ASSUME HeadsReady, NEW o \in OverviewRooms
  PROVE  Agrees(o, OverviewThreads(o))
<1>1. ASSUME NEW row \in OverviewThreads(o)
      PROVE  /\ row.thread \in Threads /\ row.room \in GetOverviewRoomTargets(o)
             /\ thread[row.thread].enabled /\ thread[row.thread].room = row.room
             /\ FirstExtracted(row.thread)
             /\ row.message = mail[thread[row.thread].first].matrix
  <2> DEFINE Row(u) == [thread |-> u, room |-> thread[u].room,
                        message |-> mail[thread[u].first].matrix]
  <2>1. PICK t \in Threads : /\ thread[t].enabled /\ thread[t].matrix # None
                             /\ thread[t].room \in GetOverviewRoomTargets(o)
                             /\ row = Row(t)
    BY DEF OverviewThreads
  <2>2. /\ row.thread = t /\ row.room = thread[t].room
        /\ row.message = mail[thread[t].first].matrix
    BY <2>1
  <2> QED
    BY <2>1, <2>2 DEF HeadsReady
<1>2. ASSUME NEW t \in Threads, thread[t].enabled, thread[t].matrix # None,
             thread[t].room \in GetOverviewRoomTargets(o)
      PROVE  \E row \in OverviewThreads(o) : row.thread = t
  <2> DEFINE row == [thread |-> t, room |-> thread[t].room,
                     message |-> mail[thread[t].first].matrix]
  <2>1. row \in OverviewThreads(o)
    BY <1>2 DEF OverviewThreads
  <2>2. row.thread = t
    OBVIOUS
  <2> QED
    BY <2>1, <2>2
<1> QED
  BY <1>1, <1>2 DEF Agrees

LEMMA OwnStepsShow ==
  ASSUME Types, HeadsReady, closed = {}, NEW o \in OverviewRooms, RoomInv(o), OwnStep(o),
         o \in queued \/ Pictured(o)
  PROVE  o \in queued' \/ Pictured(o)'
<1> USE Names
<1> DEFINE w == overviewer[o]
           n == w.id
           b == board[o]
<1>0. /\ overviewer \in [OverviewRooms -> [pc : OverviewerSteps, id : Nat \cup {None},
                                           rows : SUBSET OverviewRow]]
      /\ overviewId \in [OverviewRooms -> Nat \cup {None}]
      /\ board \in [OverviewRooms -> Seq(OverviewMessage)]
      /\ b \in Seq(OverviewMessage) /\ Len(b) \in Nat /\ DOMAIN b = 1 .. Len(b)
      /\ \A i \in DOMAIN b : b[i] \in OverviewMessage
      /\ n \in DOMAIN b \cup {None} /\ o \notin closed
  BY LenProperties, ElementOfSeq DEF Types, OverviewTypes
<1>1. UNCHANGED <<mail, thread, notifier, cmd>>
  BY DEF OwnStep, OverviewStage, OverviewFails, RepostOverview, Resend, others, dbVars,
     notifierVars, commandVars, OverviewStep, ListOverviewThreads, EditThreadOverview,
     PostThreadOverview, PostMessage, OverviewMessageUpdated, UpdateFails,
     PostSecondOverview, RemoveLargeOverview, ResendThreadOverview
<1>2. \A rows : Agrees(o, rows) => Agrees(o, rows)'
  BY <1>1 DEF Agrees, Due, Closing, FirstExtracted, Threads
<1>3. /\ Posted(o) => n \in Live(o)
      /\ w.pc \in {"update", "replace"} => n = overviewId[o]
      /\ w.pc = "record" => n \in Live(o)
  BY <1>0 DEF Posted, Live, RoomInv
<1>4. ASSUME Pictured(o),
             overviewer'[o].pc = "rest" => overviewId'[o] \in Live(o)',
             Picture(o)' = Picture(o)
      PROVE  Pictured(o)'
  BY <1>1, <1>2, <1>4 DEF Pictured
<1>5. ASSUME overviewer' = [overviewer EXCEPT ![o] = Listed(o)]
      PROVE  Pictured(o)'
  <2>1. overviewer'[o].pc = "update" /\ overviewer'[o].rows = OverviewThreads(o)
    BY <1>0, <1>5 DEF Listed
  <2>2. Picture(o)' = OverviewThreads(o)
    BY <2>1 DEF Picture
  <2>3. \A rows : Agrees(o, rows) /\ Picture(o)' = rows => Agrees(o, Picture(o))'
    BY <1>2
  <2> QED
    BY <2>1, <2>2, <2>3, FreshAgrees DEF Pictured
<1>6. CASE ListOverviewThreads(o)
  BY <1>5, <1>6 DEF ListOverviewThreads
<1>7. CASE UpdateFails(o)
  BY <1>0, <1>5, <1>7 DEF UpdateFails
<1>8. ASSUME EditThreadOverview(o), Pictured(o)
      PROVE  Pictured(o)'
  <2> DEFINE messages == [b EXCEPT ![n].shows = w.rows]
  <2>1. /\ UNCHANGED <<queued, overviewId>> /\ w.pc = "update" /\ n \in Live(o)
        /\ overviewer' = [overviewer EXCEPT ![o] = Resting]
        /\ board' = [board EXCEPT ![o] = messages]
    BY <1>3, <1>8 DEF EditThreadOverview, EndRun
  <2>2. /\ DOMAIN messages = DOMAIN b /\ messages[n].shows = w.rows
        /\ messages[n].removed = b[n].removed
    BY <1>0, <2>1 DEF OverviewMessage, Live
  <2> HIDE DEF messages
  <2>3. board'[o] = messages /\ overviewer'[o].pc = "rest" /\ overviewId'[o] = n
    BY <1>0, <1>3, <2>1 DEF Resting
  <2>4. n \in Live(o)'
    BY <2>1, <2>2, <2>3 DEF Live
  <2>5. Picture(o)' = Picture(o)
    BY <2>1, <2>2, <2>3 DEF Picture
  <2> QED
    BY <1>4, <1>8, <2>1, <2>3, <2>4, <2>5
<1>9. ASSUME PostMessage(o), w.pc \in {"update", "replace"}, Pictured(o)
      PROVE  Pictured(o)'
  <2> DEFINE new == [shows |-> w.rows, removed |-> FALSE]
             messages == Append(b, new)
             v == [Resting EXCEPT !.pc = "record", !.id = Len(b) + 1]
  <2>1. /\ board' = [board EXCEPT ![o] = messages] /\ UNCHANGED queued
        /\ overviewer' = [overviewer EXCEPT ![o] = v]
    BY <1>9 DEF PostMessage, stageVars
  <2>2. new \in OverviewMessage /\ new.shows = w.rows
    BY <1>0 DEF OverviewMessage
  <2>3. v.pc = "record" /\ v.id = Len(b) + 1
    BY DEF Resting
  <2> HIDE DEF new, v
  <2>4. messages[Len(b) + 1] = new
    BY <1>0, <2>2, Longer
  <2> HIDE DEF messages
  <2>5. board'[o] = messages /\ overviewer'[o] = v
    BY <1>0, <2>1
  <2>6. Picture(o)' = w.rows
    BY <2>2, <2>3, <2>4, <2>5 DEF Picture
  <2>7. Picture(o)' = Picture(o)
    BY <1>9, <2>6 DEF Picture
  <2> QED
    BY <1>4, <1>9, <2>1, <2>3, <2>5, <2>7
<1>10. ASSUME RemoveLargeOverview(o), Pictured(o)
       PROVE  Pictured(o)'
  <2>1. /\ UNCHANGED queued /\ w.pc = "update"
        /\ overviewer' = [overviewer EXCEPT ![o].pc = "replace"]
    BY <1>10 DEF RemoveLargeOverview, stageVars
  <2>2. overviewer'[o].pc = "replace" /\ overviewer'[o].rows = w.rows
    BY <1>0, <2>1
  <2>3. Picture(o)' = Picture(o)
    BY <2>1, <2>2 DEF Picture
  <2> QED
    BY <1>4, <1>10, <2>1, <2>2, <2>3
<1>11. ASSUME OverviewMessageUpdated(o), Pictured(o)
       PROVE  Pictured(o)'
  <2>1. /\ UNCHANGED <<queued, board>> /\ w.pc = "record"
        /\ overviewer' = [overviewer EXCEPT ![o] = Resting]
        /\ overviewId' = [overviewId EXCEPT ![o] = n]
    BY <1>0, <1>11 DEF OverviewMessageUpdated, EndRun
  <2>2. overviewer'[o].pc = "rest" /\ overviewId'[o] = n
    BY <1>0, <2>1 DEF Resting
  <2>3. Picture(o)' = Picture(o) /\ n \in Live(o)'
    BY <1>3, <2>1, <2>2 DEF Picture, Live
  <2> QED
    BY <1>4, <1>11, <2>1, <2>2, <2>3
<1>12. CASE Resend(o)
  BY <1>0, <1>12 DEF Resend, ResendThreadOverview, QueueWork, QueueAll
<1>13. CASE o \in queued
  <2>1. UNCHANGED queued \/ ListOverviewThreads(o) \/ UpdateFails(o) \/ Resend(o)
    BY DEF OwnStep, OverviewStage, OverviewFails, RepostOverview, OverviewStep,
       EditThreadOverview, PostThreadOverview, PostMessage, OverviewMessageUpdated,
       PostSecondOverview, RemoveLargeOverview, stageVars
  <2> QED
    BY <1>6, <1>7, <1>12, <1>13, <2>1
<1>14. CASE Pictured(o)
  BY <1>6, <1>7, <1>8, <1>9, <1>10, <1>11, <1>12, <1>14
     DEF OwnStep, OverviewStage, OverviewFails, RepostOverview, OverviewStep,
         PostThreadOverview, PostSecondOverview
<1> QED
  BY <1>13, <1>14

LEMMA PicturesKept ==
  ASSUME Covered, NoReply, Types, Types', SortInv, ListsInv, HomeInv, MirrorInv, ReadyInv,
         FirstMails, OpenInv, OverviewInv, PictureInv, [Next]_vars
  PROVE  OpenInv' /\ PictureInv'
<1>1. OpenInv'
  BY NotifierShows, SortingShows, OthersShow
<1>2. ASSUME closed' = {}, NEW o \in OverviewRooms, ~(Crash \/ Exit)
      PROVE  o \in queued' \/ Pictured(o)'
  <2>1. closed = {}
    BY <1>2, StagesServe DEF Serves, Stop, StageNames
  <2>2. o \in queued \/ Pictured(o)
    BY <2>1 DEF PictureInv
  <2>3. CASE OwnStep(o)
    BY <2>1, <2>2, <2>3, OwnStepsShow DEF ReadyInv, OverviewInv
  <2>4. CASE o \in queued /\ ~OwnStep(o)
    BY <2>4, RequestsStay
  <2>5. CASE Pictured(o) /\ SameBoard(o)
    <3>1. /\ Picture(o)' = Picture(o) /\ Live(o)' = Live(o)
          /\ overviewer'[o].pc = "rest" => overviewId'[o] \in Live(o)'
      BY <2>5 DEF SameBoard, Picture, Live, Pictured
    <3>2. CASE NotificationStage \/ MistakeHead \/ LoseAnswer
      <4>1. Noted(o)
        BY <1>2, <3>2, NotifierShows
      <4> QED
        BY <2>5, <3>1, <4>1 DEF Noted, Pictured
    <3>3. CASE ~(NotificationStage \/ MistakeHead \/ LoseAnswer)
      <4>1. UNCHANGED notifier
        BY <1>2, <3>3, OtherIds
      <4>2. o \in queued' \/ \A rows : Agrees(o, rows) => Agrees(o, rows)'
        BY <1>2, <3>3, SortingShows, OthersShow
      <4> QED
        BY <2>5, <3>1, <4>1, <4>2 DEF Pictured
    <3> QED
      BY <3>2, <3>3
  <2> QED
    BY <1>2, <2>2, <2>3, <2>4, <2>5, BoardCases
<1>3. CASE Crash \/ Exit
  BY <1>1, <1>3 DEF PictureInv, Crash, Exit, StartAgain
<1> QED
  BY <1>1, <1>2, <1>3 DEF PictureInv

ShowInv == FirstMails /\ HeadsListed /\ ReadyInv /\ OpenInv /\ PictureInv

LEMMA ShowsAtFirst == Init => ShowInv
<1> SUFFICES ASSUME Init PROVE ShowInv
  OBVIOUS
<1>1. /\ Threads = {} /\ mail = [m \in Mails |-> NoMail] /\ notifier = IdleNotifier
      /\ sorter.pc = "rest" /\ queued = {"notification"} \cup OverviewRooms
  BY DEF Init, DbInit, StagesInit, SortingInit, NotificationInit, Threads
<1>2. /\ notifier.pc = "rest" /\ notifier.threads = {} /\ notifier.mails = {}
      /\ notifier.touched = {}
  BY <1>1 DEF IdleNotifier
<1>3. FirstMails
  BY <1>1 DEF FirstMails, NoMail
<1>4. HeadsListed /\ ReadyInv
  BY <1>1, <1>2 DEF HeadsListed, ReadyInv, HeadsReady, MailsReady, TouchedAwait, Forgetting
<1>5. OpenInv /\ PictureInv
  BY <1>1 DEF OpenInv, PictureInv
<1> QED
  BY <1>3, <1>4, <1>5 DEF ShowInv

LEMMA QuietPictures ==
  ASSUME Types, ReadyInv, PictureInv, QuietMeansDone
  PROVE  OverviewsUpToDate
<1> USE Names
<1> SUFFICES ASSUME Quiet, NEW o \in OverviewRooms,
                    NEW shown, shown = board[o][overviewId[o]].shows
             PROVE  LET Open(rows) == {<<row.thread, row.room>> : row \in rows}
                        Linked(rows) == {row \in rows : LET m == thread[row.thread].first
                                                        IN  mail[m].thread = row.thread}
                    IN  /\ overviewId[o] # None
                        /\ ~board[o][overviewId[o]].removed
                        /\ Open(shown) \subseteq Open(OverviewThreads(o))
                        /\ Linked(shown) \subseteq OverviewThreads(o)
                        /\ \A row \in OverviewThreads(o) :
                             <<row.thread, row.room>> \in Open(shown) \/ OpenedLate(row.thread)
  BY DEF OverviewsUpToDate
<1> DEFINE Row(t) == [thread |-> t, room |-> thread[t].room,
                      message |-> mail[thread[t].first].matrix]
           Open(rows) == {<<row.thread, row.room>> : row \in rows}
<1>1. /\ overviewer[o].pc = "rest" /\ o \notin queued /\ notifier.touched = {}
      /\ MatrixReadyThreads = {} /\ MatrixReadyMails = {} /\ closed = {}
  BY DEF Quiet, AtRest, QuietMeansDone, ReadyInv, TouchedAwait
<1>2. Pictured(o) /\ Picture(o) = shown
  BY <1>1 DEF PictureInv, Picture
<1>3. Agrees(o, shown) /\ overviewId[o] \in Live(o)
  BY <1>1, <1>2 DEF Pictured
<1>4. /\ overviewId[o] # None /\ ~board[o][overviewId[o]].removed
      /\ shown \subseteq OverviewRow
  <2>1. /\ overviewId[o] \in DOMAIN board[o] /\ ~board[o][overviewId[o]].removed
        /\ board[o] \in Seq(OverviewMessage)
    BY <1>3 DEF Live, Types, OverviewTypes
  <2>2. board[o][overviewId[o]] \in OverviewMessage /\ DOMAIN board[o] \subseteq Nat
    BY <2>1, LenProperties, ElementOfSeq
  <2> QED
    BY <2>1, <2>2 DEF OverviewMessage
<1>5. ASSUME NEW row \in shown
      PROVE  /\ Row(row.thread) \in OverviewThreads(o) /\ row.room = thread[row.thread].room
             /\ mail[thread[row.thread].first].thread = row.thread => row = Row(row.thread)
  <2>1. PICK t, m : t = row.thread /\ m = thread[t].first
    OBVIOUS
  <2>2. /\ t \in Threads /\ thread[t].enabled /\ row.room = thread[t].room
        /\ thread[t].room \in GetOverviewRoomTargets(o) /\ mail[m].extracted
        /\ mail[m].thread = t /\ mail[m].matrix # None => row.message = mail[m].matrix
    BY <1>3, <2>1 DEF Agrees, FirstExtracted
  <2>3. m \in Stored
    BY <2>1, <2>2 DEF Types, DbTypes
  <2>4. thread[t].matrix # None
    BY <1>1, <2>1, <2>2 DEF MatrixReadyThreads
  <2>5. Row(t) \in OverviewThreads(o)
    BY <2>2, <2>4 DEF OverviewThreads
  <2>6. mail[m].thread = t => mail[m].matrix # None
    BY <1>1, <2>2, <2>3, <2>4, ThreadsAreNumbers DEF MatrixReadyMails, Types
  <2>7. row = [thread |-> row.thread, room |-> row.room, message |-> row.message]
    BY <1>4 DEF OverviewRow
  <2> QED
    BY <2>1, <2>2, <2>5, <2>6, <2>7
<1>6. Open(shown) \subseteq Open(OverviewThreads(o))
  <2> SUFFICES ASSUME NEW row \in shown
               PROVE  <<row.thread, row.room>> \in Open(OverviewThreads(o))
    OBVIOUS
  <2>1. PICK r \in OverviewThreads(o) : r = Row(row.thread)
    BY <1>5
  <2>2. r.thread = row.thread /\ r.room = row.room
    BY <1>5, <2>1
  <2> QED
    BY <2>2
<1>7. ASSUME NEW row \in OverviewThreads(o)
      PROVE  <<row.thread, row.room>> \in Open(shown) \/ OpenedLate(row.thread)
  <2>1. PICK t \in Threads : /\ thread[t].enabled /\ thread[t].matrix # None
                             /\ thread[t].room \in GetOverviewRoomTargets(o)
                             /\ row = Row(t)
    BY DEF OverviewThreads
  <2>2. row.thread = t /\ row.room = thread[t].room
    BY <2>1
  <2>3. CASE Due(t)
    <3>1. PICK r \in shown : r.thread = t
      BY <1>3, <2>1, <2>3 DEF Agrees
    <3>2. r.room = thread[t].room
      BY <1>5, <3>1
    <3> QED
      BY <2>2, <3>1, <3>2
  <2>4. CASE ~Due(t)
    BY <2>2, <2>4 DEF Due, Closing, OpenedLate
  <2> QED
    BY <2>3, <2>4
<1> QED
  BY <1>4, <1>5, <1>6, <1>7

\* Every overview shows what there is to show when nothing is left to do: what
\* changes a thread that it lists, a command, the notification stage or an
\* answer, either queues it, or leaves what its message shows, or what its run
\* in hand has read, as true as it was; and a run that ends has posted what it
\* has read and knows the message. The overviews of all rooms must hear of all
\* of them (see EmptyListIsAllRooms), and it is shown where no command moves a
\* thread or writes a reply. Then the threads that have been reopened late are
\* the only ones an overview may miss.
THEOREM OverviewsAreUpToDate ==
  ASSUME NoMove, NoReply, Covered
  PROVE  Spec => []OverviewsUpToDate
<1>1. /\ Types /\ Types' /\ SortInv /\ HomeInv /\ MirrorInv /\ HandoverInv /\ OverviewInv
      /\ ShowInv /\ [Next]_vars
      => ShowInv'
  BY FirstMailsKept, HeadsStayListed, ReadyKept, PicturesKept DEF ShowInv, HandoverInv
<1>2. Types /\ ShowInv /\ QuietMeansDone => OverviewsUpToDate
  BY QuietPictures DEF ShowInv
<1>3. Spec => []QuietMeansDone
  BY EverythingIsHandedOver
<1> QED
  BY <1>1, <1>2, <1>3, ShowsAtFirst, HomeAlways, MirrorKept, HandoverAlways, OverviewsAlways,
     PTL DEF Spec
=============================================================================
