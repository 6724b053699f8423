--------------------------- MODULE InboxTypeProofs ---------------------------
(***************************************************************************)
(* Proofs about InboxCollab, for any mails, commands, rooms and overviews: *)
(* the tables and the local variables of all workers have their types, and *)
(* whatever refers to a thread, a mail or an event refers to one that      *)
(* exists.                                                                 *)
(***************************************************************************)
EXTENDS InboxCollab, SequenceTheorems, TLAPS

MailRow ==
    [stored : BOOLEAN, fetched : BOOLEAN, extracted : BOOLEAN,
     sorted : BOOLEAN, replyTo : Mails \cup {None},
     thread : Nat \cup {None}, matrix : Nat \cup Commands \cup {None}]

ThreadRow ==
    [enabled : BOOLEAN, forceClose : BOOLEAN, first : Mails, last : Mails,
     matrix : Nat \cup {None}, room : Rooms \cup {None}]

Event ==
    [kind : {"head", "mail", "link"}, of : Mails \cup Nat,
     room : Rooms \cup {None}, root : Nat \cup {None}]

DbTypes ==
    /\ mail \in [Mails -> MailRow] /\ thread \in Seq(ThreadRow)
    /\ \A m \in Mails : /\ mail[m].thread \in Threads \cup {None}
                        /\ mail[m].matrix \in Events \cup Commands \cup {None}
    /\ \A t \in Threads : /\ {thread[t].first, thread[t].last} \subseteq Stored
                          /\ thread[t].matrix \in Events \cup {None}

StageTypes ==
    /\ queued \subseteq StageNames \cup OverviewRooms
    /\ closed \in {{}, StageNames \cup OverviewRooms}
    /\ waiting \subseteq ({"notification"} \cup OverviewRooms) \X Commands

\* The mail being sorted and the thread it goes to are in the database.
SorterTypes ==
    /\ sorter \in [pc : SorterSteps, rest : SUBSET Mails, cur : Mails \cup {None},
                   target : Nat \cup {None}, first : BOOLEAN]
    /\ sorter.rest \subseteq Stored
    /\ sorter.pc \in {"references", "join", "touch", "head", "claim"} =>
        sorter.cur \in Stored
    /\ sorter.pc \in {"join", "touch", "claim"} => sorter.target \in Threads
    /\ sortingMutex \in {"sorting", None} \cup Commands

ExtractorTypes ==
    extractor \in [pc : ExtractorSteps, todo : SUBSET Mails, first : BOOLEAN]

HeadRow == [id : Nat, first : Mails, room : Rooms \cup {None}]
ReplyRow == [id : Mails, thread : Nat, root : Nat, room : Rooms \cup {None}]

\* The message that is to be recorded has been posted.
NotifierTypes ==
    /\ notifier \in
        [pc : NotifierSteps, threads : SUBSET HeadRow, unchecked : SUBSET Nat,
         valid : SUBSET Nat, mails : SUBSET ReplyRow, head : Nat \cup {None},
         mail : Mails \cup {None}, id : Nat \cup {None}, gone : SUBSET ReplyRow,
         touched : SUBSET OverviewRooms]
    /\ \A row \in notifier.threads : row.id \in Threads
    /\ notifier.pc \in {"record head", "link"} => /\ notifier.id \in Events
                                                  /\ notifier.head \in Threads
    /\ notifier.pc = "record mail" => /\ notifier.id \in Events
                                      /\ notifier.mail \in Mails

ChatTypes ==
    /\ timeline \in Seq(Event) /\ redacted \subseteq Events
    /\ recreated \subseteq [thread : Nat \cup {None}, room : Rooms \cup {None},
                            root : Nat \cup {None}]

OverviewRow ==
    [thread : Nat, room : Rooms \cup {None}, message : Nat \cup Commands \cup {None}]
OverviewMessage == [shows : SUBSET OverviewRow, removed : BOOLEAN]

OverviewTypes ==
    /\ overviewer \in [OverviewRooms -> [pc : OverviewerSteps, id : Nat \cup {None},
                                         rows : SUBSET OverviewRow]]
    /\ overviewId \in [OverviewRooms -> Nat \cup {None}]
    /\ board \in [OverviewRooms -> Seq(OverviewMessage)]
    /\ \A o \in OverviewRooms :
        {overviewer[o].id, overviewId[o]} \subseteq DOMAIN board[o] \cup {None}

ReplySteps == {"find original", "lock", "send", "store", "add", "extracted", "sort",
               "touch", "record"}

\* A running reply has a mail to send, and sorts it only when it is stored.
CommandTypes ==
    /\ cmd \in [Commands ->
            [pc : CommandSteps, event : Nat \cup {None}, room : Rooms \cup {None},
             thread : Nat \cup {None}, tries : Nat]]
    /\ \A c \in Commands :
        /\ cmd[c].thread \in Threads \cup {None}
        /\ cmd[c].pc \in ReplySteps => cmd[c].tries \in 1 .. Len(ReplyMails[c])
        /\ cmd[c].pc \in {"extracted", "sort", "touch", "record"} =>
            NewMail(c) \in Stored
    /\ sent \subseteq Mails /\ mailbox \subseteq Mails

PumpTypes ==
    /\ pump \in [chunk : SUBSET Mails, busy : BOOLEAN, added : BOOLEAN,
                 initial : BOOLEAN]
    /\ mishaps \in Nat

Types ==
    /\ DbTypes /\ StageTypes /\ SorterTypes /\ ExtractorTypes /\ NotifierTypes
    /\ ChatTypes /\ OverviewTypes /\ CommandTypes /\ PumpTypes
-----------------------------------------------------------------------------
(* Helpers *)

\* Nothing that others may refer to ever goes away.
Grows ==
    /\ Stored \subseteq Stored' /\ Threads \subseteq Threads'
    /\ Events \subseteq Events'

LEMMA Names ==
  /\ None \notin Mails /\ None \notin Rooms /\ None \notin Nat
  /\ None \notin Commands /\ None # "sorting" /\ "sorting" \notin Commands
  /\ None \notin OverviewRooms
BY MailAssumption, CommandAssumption, OverviewAssumption

\* A function on 1 .. n is a sequence of length n.
LEMMA FunctionIsSeq ==
  ASSUME NEW S, NEW n \in Nat, NEW f \in [1 .. n -> S]
  PROVE  f \in Seq(S) /\ Len(f) = n
<1>1. f \in Seq(S)
  BY SeqDef
<1>2. Len(f) \in Nat /\ DOMAIN f = 1 .. Len(f) /\ DOMAIN f = 1 .. n
  BY <1>1, LenProperties
<1>3. Len(f) = n
  BY <1>2
<1> QED
  BY <1>1, <1>3

\* Appending keeps what was there.
LEMMA Longer ==
  ASSUME NEW S, NEW s \in Seq(S), NEW e \in S
  PROVE  /\ Append(s, e) \in Seq(S) /\ Len(Append(s, e)) = Len(s) + 1
         /\ DOMAIN s = 1 .. Len(s) /\ Len(s) \in Nat
         /\ DOMAIN Append(s, e) = 1 .. Len(s) + 1
         /\ \A i \in DOMAIN s : Append(s, e)[i] = s[i]
         /\ Append(s, e)[Len(s) + 1] = e
<1>1. /\ Append(s, e) \in Seq(S) /\ Len(Append(s, e)) = Len(s) + 1
      /\ \A i \in 1 .. Len(s) : Append(s, e)[i] = s[i]
      /\ Append(s, e)[Len(s) + 1] = e
  BY AppendProperties
<1>2. Len(s) \in Nat /\ DOMAIN s = 1 .. Len(s)
  BY LenProperties
<1>3. DOMAIN Append(s, e) = 1 .. Len(s) + 1
  BY <1>1, LenProperties
<1> QED
  BY <1>1, <1>2, <1>3
-----------------------------------------------------------------------------
(* The statements of the database *)

LEMMA ThreadsAreNumbers ==
  ASSUME DbTypes
  PROVE  Threads \subseteq Nat /\ Len(thread) \in Nat /\ Threads = 1 .. Len(thread)
BY LenProperties DEF DbTypes, Threads

\* A statement that changes rows of the mail table.
LEMMA MailStatement ==
  ASSUME DbTypes, UNCHANGED thread, Events \subseteq Events',
         mail' \in [Mails -> MailRow],
         \A m \in Mails : /\ mail[m].stored => mail'[m].stored
                          /\ mail'[m].thread \in Threads \cup {None}
                          /\ mail'[m].matrix \in Events' \cup Commands \cup {None}
  PROVE  DbTypes' /\ Grows
<1>1. Threads' = Threads /\ Stored \subseteq Stored'
  BY DEF Threads, Stored
<1> QED
  BY <1>1 DEF DbTypes, Grows

\* A statement that changes rows of the thread table, or adds some.
LEMMA ThreadStatement ==
  ASSUME DbTypes, UNCHANGED mail, Events \subseteq Events',
         thread' \in Seq(ThreadRow), Threads \subseteq Threads',
         \A t \in Threads' : /\ {thread'[t].first, thread'[t].last} \subseteq Stored
                             /\ thread'[t].matrix \in Events' \cup {None}
  PROVE  DbTypes' /\ Grows
<1>1. Stored' = Stored
  BY DEF Stored
<1>2. \A m \in Mails : /\ mail'[m].thread \in Threads' \cup {None}
                       /\ mail'[m].matrix \in Events' \cup Commands \cup {None}
  BY DEF DbTypes
<1> QED
  BY <1>1, <1>2 DEF DbTypes, Grows

LEMMA NoStatement ==
  ASSUME DbTypes, UNCHANGED dbVars, Events \subseteq Events'
  PROVE  DbTypes' /\ Grows
<1>1. Threads' = Threads /\ Stored' = Stored
  BY DEF Threads, Stored, dbVars
<1> QED
  BY <1>1 DEF DbTypes, Grows, dbVars

\* One row of the mail table gets new values.
LEMMA MailRowStatement ==
  ASSUME DbTypes, UNCHANGED thread, Events \subseteq Events', NEW m \in Mails,
         NEW row \in MailRow, mail' = [mail EXCEPT ![m] = row],
         mail[m].stored => row.stored, row.thread \in Threads \cup {None},
         row.matrix \in Events' \cup Commands \cup {None}
  PROVE  DbTypes' /\ Grows
<1>1. mail' \in [Mails -> MailRow]
  BY DEF DbTypes
<1>2. \A n \in Mails : mail'[n] = IF n = m THEN row ELSE mail[n]
  BY DEF DbTypes
<1>3. \A n \in Mails : /\ mail[n].stored => mail'[n].stored
                       /\ mail'[n].thread \in Threads \cup {None}
                       /\ mail'[n].matrix \in Events' \cup Commands \cup {None}
  BY <1>2 DEF DbTypes
<1> QED
  BY <1>1, <1>3, MailStatement

LEMMA AddMailTypes ==
  ASSUME DbTypes, UNCHANGED thread, Events \subseteq Events', NEW m \in Mails,
         NEW f \in BOOLEAN, AddMail(m, f)
  PROVE  DbTypes' /\ Grows /\ m \in Stored'
<1>1. CASE mail[m].stored
  <2>1. mail' = mail
    BY <1>1 DEF AddMail
  <2> QED
    BY <2>1, <1>1, NoStatement DEF dbVars, Stored
<1>2. CASE ~mail[m].stored
  <2> DEFINE row == [mail[m] EXCEPT !.stored = TRUE, !.fetched = f]
  <2>1. mail[m] \in MailRow /\ mail \in [Mails -> MailRow]
    BY DEF DbTypes
  <2>2. mail' = [mail EXCEPT ![m] = row]
    BY <1>2, <2>1 DEF AddMail
  <2>3. row \in MailRow /\ row.stored = TRUE /\ row.thread = mail[m].thread
        /\ row.matrix = mail[m].matrix
    BY <2>1 DEF MailRow
  <2>4. row.thread \in Threads \cup {None}
        /\ row.matrix \in Events' \cup Commands \cup {None}
    BY <2>3 DEF DbTypes
  <2>5. DbTypes' /\ Grows
    BY <2>2, <2>3, <2>4, MailRowStatement
  <2>6. mail'[m].stored
    BY <2>1, <2>2, <2>3
  <2> QED
    BY <2>5, <2>6 DEF Stored
<1> QED
  BY <1>1, <1>2

LEMMA ReplyToTypes ==
  ASSUME DbTypes, UNCHANGED thread, Events \subseteq Events', AutoUpdateMailReplyTo
  PROVE  DbTypes' /\ Grows
<1>1. mail \in [Mails -> MailRow] /\ InReplyTo \in [Mails -> Mails \cup {None}]
  BY MailAssumption DEF DbTypes
<1>2. \A m \in Mails : mail'[m] = mail[m]
                       \/ /\ InReplyTo[m] \in Stored
                          /\ mail'[m] = [mail[m] EXCEPT !.replyTo = InReplyTo[m]]
  BY DEF AutoUpdateMailReplyTo
<1>3. ASSUME NEW m \in Mails
      PROVE  /\ mail'[m] \in MailRow /\ mail'[m].stored = mail[m].stored
             /\ mail'[m].thread = mail[m].thread
             /\ mail'[m].matrix = mail[m].matrix
  <2>1. mail[m] \in MailRow /\ InReplyTo[m] \in Mails \cup {None}
    BY <1>1
  <2>2. CASE mail'[m] = mail[m]
    BY <2>1, <2>2
  <2>3. CASE mail'[m] = [mail[m] EXCEPT !.replyTo = InReplyTo[m]]
    BY <2>1, <2>3 DEF MailRow
  <2> QED
    BY <1>2, <2>2, <2>3
<1>4. mail' \in [Mails -> MailRow]
  BY <1>3 DEF AutoUpdateMailReplyTo
<1> QED
  BY <1>3, <1>4, MailStatement DEF DbTypes

LEMMA SortingTypes ==
  ASSUME DbTypes, UNCHANGED thread, Events \subseteq Events', NEW m \in Mails,
         NEW t \in Threads \cup {None},
         UpdateMailSorting(m, t, mail[m].replyTo)
  PROVE  DbTypes' /\ Grows
<1> DEFINE row == [mail[m] EXCEPT !.thread = t, !.sorted = TRUE]
<1>1. mail[m] \in MailRow /\ mail \in [Mails -> MailRow]
  BY DEF DbTypes
<1>2. t \in Nat \cup {None}
  BY ThreadsAreNumbers
<1>3. /\ row \in MailRow /\ row.stored = mail[m].stored /\ row.thread = t
      /\ row.matrix = mail[m].matrix
  BY <1>1, <1>2 DEF MailRow
<1>4. [mail[m] EXCEPT !.replyTo = mail[m].replyTo] = mail[m]
  BY <1>1 DEF MailRow
<1>5. mail' = [mail EXCEPT ![m] = row]
  BY <1>1, <1>4 DEF UpdateMailSorting, MailRow
<1>6. row.matrix \in Events' \cup Commands \cup {None}
  BY <1>3 DEF DbTypes
<1> QED
  BY <1>3, <1>5, <1>6, MailRowStatement

LEMMA MarkSortedTypes ==
  ASSUME DbTypes, UNCHANGED thread, Events \subseteq Events', NEW m \in Mails,
         UpdateMailMarkSorted(m) \/ UpdateExtractedMessages(m)
  PROVE  DbTypes' /\ Grows
<1>1. mail[m] \in MailRow /\ mail \in [Mails -> MailRow]
  BY DEF DbTypes
<1>2. PICK row : /\ mail' = [mail EXCEPT ![m] = row]
                 /\ \/ row = [mail[m] EXCEPT !.sorted = TRUE]
                    \/ row = [mail[m] EXCEPT !.extracted = TRUE]
  BY <1>1 DEF UpdateMailMarkSorted, UpdateExtractedMessages
<1>3. /\ row \in MailRow /\ row.stored = mail[m].stored
      /\ row.thread = mail[m].thread /\ row.matrix = mail[m].matrix
  BY <1>1, <1>2 DEF MailRow
<1>4. row.thread \in Threads \cup {None}
      /\ row.matrix \in Events' \cup Commands \cup {None}
  BY <1>3 DEF DbTypes
<1> QED
  BY <1>2, <1>3, <1>4, MailRowStatement

LEMMA MatrixIdTypes ==
  ASSUME DbTypes, UNCHANGED thread, Events \subseteq Events', NEW m \in Mails,
         NEW id \in Events' \cup Commands, Events' \subseteq Nat,
         UpdateMailMatrixId(m, id)
  PROVE  DbTypes' /\ Grows
<1> DEFINE row == [mail[m] EXCEPT !.matrix = id]
<1>1. mail[m] \in MailRow /\ mail \in [Mails -> MailRow]
  BY DEF DbTypes
<1>2. /\ row \in MailRow /\ row.stored = mail[m].stored
      /\ row.thread = mail[m].thread /\ row.matrix = id
  BY <1>1 DEF MailRow
<1>3. mail' = [mail EXCEPT ![m] = row]
  BY <1>1 DEF UpdateMailMatrixId
<1>4. row.thread \in Threads \cup {None}
  BY <1>2 DEF DbTypes
<1> QED
  BY <1>2, <1>3, <1>4, MailRowStatement

LEMMA ForgetMailsTypes ==
  ASSUME DbTypes, UNCHANGED thread, Events \subseteq Events', NEW t,
         RemoveMailMatrixIdsByThread(t)
  PROVE  DbTypes' /\ Grows
<1>1. mail \in [Mails -> MailRow]
  BY DEF DbTypes
<1>2. \A m \in Mails : \/ mail'[m] = mail[m]
                       \/ mail'[m] = [mail[m] EXCEPT !.matrix = None]
  BY DEF RemoveMailMatrixIdsByThread
<1>3. ASSUME NEW m \in Mails
      PROVE  /\ mail'[m] \in MailRow /\ mail'[m].stored = mail[m].stored
             /\ mail'[m].thread = mail[m].thread
             /\ mail'[m].matrix \in {mail[m].matrix, None}
  <2>1. mail[m] \in MailRow
    BY <1>1
  <2>2. CASE mail'[m] = mail[m]
    BY <2>1, <2>2
  <2>3. CASE mail'[m] = [mail[m] EXCEPT !.matrix = None]
    BY <2>1, <2>3 DEF MailRow
  <2> QED
    BY <1>2, <2>2, <2>3
<1>4. mail' \in [Mails -> MailRow]
  BY <1>3 DEF RemoveMailMatrixIdsByThread
<1>5. \A m \in Mails : /\ mail[m].stored => mail'[m].stored
                       /\ mail'[m].thread \in Threads \cup {None}
                       /\ mail'[m].matrix \in Events' \cup Commands \cup {None}
  BY <1>3 DEF DbTypes
<1> QED
  BY <1>4, <1>5, MailStatement

LEMMA AddThreadTypes ==
  ASSUME DbTypes, UNCHANGED mail, Events \subseteq Events', NEW m \in Stored, AddThread(m)
  PROVE  /\ DbTypes' /\ Grows /\ Len(thread) + 1 \in Threads'
         /\ Threads' = Threads \cup {Len(thread) + 1}
         /\ \A t \in Threads : thread'[t] = thread[t]
         /\ thread'[Len(thread) + 1].first = m
<1> DEFINE row == [enabled |-> TRUE, forceClose |-> FALSE, first |-> m, last |-> m,
                   matrix |-> None, room |-> None]
<1>1. row \in ThreadRow /\ row.first = m /\ row.last = m /\ row.matrix = None
  BY DEF ThreadRow, Stored
<1>2. thread \in Seq(ThreadRow) /\ thread' = Append(thread, row)
  BY DEF DbTypes, AddThread
<1>3. /\ thread' \in Seq(ThreadRow) /\ Threads = 1 .. Len(thread)
      /\ Threads' = 1 .. Len(thread) + 1 /\ Len(thread) \in Nat
      /\ \A t \in Threads : thread'[t] = thread[t]
      /\ thread'[Len(thread) + 1] = row
  <2> HIDE DEF row
  <2> QED
    BY <1>1, <1>2, Longer DEF Threads
<1>4. Threads' = Threads \cup {Len(thread) + 1}
  BY <1>3
<1>5. \A t \in Threads' : /\ {thread'[t].first, thread'[t].last} \subseteq Stored
                          /\ thread'[t].matrix \in Events' \cup {None}
  <2> SUFFICES ASSUME NEW t \in Threads'
               PROVE  /\ {thread'[t].first, thread'[t].last} \subseteq Stored
                      /\ thread'[t].matrix \in Events' \cup {None}
    OBVIOUS
  <2>1. CASE t \in Threads
    BY <2>1, <1>3 DEF DbTypes
  <2>2. CASE t = Len(thread) + 1
    BY <2>2, <1>3, <1>1
  <2> QED
    BY <2>1, <2>2, <1>4
<1>6. DbTypes' /\ Grows
  BY <1>3, <1>4, <1>5, ThreadStatement
<1> QED
  BY <1>1, <1>3, <1>4, <1>6

\* Rows of the thread table get new values.
LEMMA ThreadRowsStatement ==
  ASSUME DbTypes, UNCHANGED mail, Events \subseteq Events', Threads' = Threads,
         thread' \in [Threads -> ThreadRow],
         \A t \in Threads : /\ {thread'[t].first, thread'[t].last} \subseteq Stored
                            /\ thread'[t].matrix \in Events' \cup {None}
  PROVE  DbTypes' /\ Grows
<1>1. Threads = 1 .. Len(thread) /\ Len(thread) \in Nat
  BY ThreadsAreNumbers
<1>2. thread' \in Seq(ThreadRow)
  BY <1>1, FunctionIsSeq
<1> QED
  BY <1>2, ThreadStatement

LEMMA LastMailTypes ==
  ASSUME DbTypes, UNCHANGED mail, Events \subseteq Events', NEW t, NEW m \in Stored,
         UpdateThreadLastMail(t, m)
  PROVE  DbTypes' /\ Grows
<1>1. thread \in [Threads -> ThreadRow]
  BY ThreadsAreNumbers, LenProperties DEF DbTypes
<1>2. Threads' = Threads
  BY <1>1 DEF UpdateThreadLastMail, Threads
<1>3. \A u \in Threads : \/ thread'[u] = thread[u]
                         \/ thread'[u] = [thread[u] EXCEPT !.enabled = TRUE, !.last = m]
  BY <1>1 DEF UpdateThreadLastMail
<1>4. m \in Mails
  BY DEF Stored
<1>5. ASSUME NEW u \in Threads
      PROVE  /\ thread'[u] \in ThreadRow
             /\ thread'[u].first = thread[u].first
             /\ thread'[u].last \in {thread[u].last, m}
             /\ thread'[u].matrix = thread[u].matrix
  <2>1. thread[u] \in ThreadRow
    BY <1>1
  <2>2. CASE thread'[u] = thread[u]
    BY <2>1, <2>2
  <2>3. CASE thread'[u] = [thread[u] EXCEPT !.enabled = TRUE, !.last = m]
    BY <1>4, <2>1, <2>3 DEF ThreadRow
  <2> QED
    BY <1>3, <2>2, <2>3
<1>6. thread' \in [Threads -> ThreadRow]
  BY <1>1, <1>5 DEF UpdateThreadLastMail
<1>7. \A u \in Threads : /\ {thread'[u].first, thread'[u].last} \subseteq Stored
                         /\ thread'[u].matrix \in Events' \cup {None}
  BY <1>5 DEF DbTypes
<1> QED
  BY <1>2, <1>6, <1>7, ThreadRowsStatement

LEMMA EnabledTypes ==
  ASSUME DbTypes, UNCHANGED mail, Events \subseteq Events', NEW room, NEW id,
         NEW enabled \in BOOLEAN, NEW force \in BOOLEAN \cup {None},
         UpdateThreadEnabled(room, id, enabled, force)
  PROVE  DbTypes' /\ Grows
<1>1. thread \in [Threads -> ThreadRow]
  BY ThreadsAreNumbers, LenProperties DEF DbTypes
<1>2. Threads' = Threads
  BY DEF UpdateThreadEnabled, Threads
<1>3. \A u \in Threads : \/ thread'[u] = thread[u]
                         \/ \E close \in BOOLEAN :
                              thread'[u] = [thread[u] EXCEPT !.enabled = enabled,
                                                             !.forceClose = close]
  <2> SUFFICES ASSUME NEW u \in Threads, thread'[u] # thread[u]
               PROVE  \E close \in BOOLEAN :
                        thread'[u] = [thread[u] EXCEPT !.enabled = enabled,
                                                       !.forceClose = close]
    OBVIOUS
  <2> DEFINE close == IF force = None THEN thread[u].forceClose ELSE force
  <2>1. close \in BOOLEAN
    BY <1>1 DEF ThreadRow
  <2>2. thread'[u] = [thread[u] EXCEPT !.enabled = enabled, !.forceClose = close]
    BY <1>1 DEF UpdateThreadEnabled, ThreadRow
  <2> QED
    BY <2>1, <2>2
<1>5. ASSUME NEW u \in Threads
      PROVE  /\ thread'[u] \in ThreadRow
             /\ thread'[u].first = thread[u].first
             /\ thread'[u].last = thread[u].last
             /\ thread'[u].matrix = thread[u].matrix
  <2>1. thread[u] \in ThreadRow
    BY <1>1
  <2>2. CASE thread'[u] = thread[u]
    BY <2>1, <2>2
  <2>3. CASE \E close \in BOOLEAN :
              thread'[u] = [thread[u] EXCEPT !.enabled = enabled, !.forceClose = close]
    BY <2>1, <2>3 DEF ThreadRow
  <2> QED
    BY <1>3, <2>2, <2>3
<1>6. thread' \in [Threads -> ThreadRow]
  BY <1>5 DEF UpdateThreadEnabled
<1>7. \A u \in Threads : /\ {thread'[u].first, thread'[u].last} \subseteq Stored
                         /\ thread'[u].matrix \in Events' \cup {None}
  BY <1>5 DEF DbTypes
<1> QED
  BY <1>2, <1>6, <1>7, ThreadRowsStatement

LEMMA ThreadIdsTypes ==
  ASSUME DbTypes, UNCHANGED mail, Events \subseteq Events', Events' \subseteq Nat, NEW t,
         NEW room \in Rooms \cup {None}, NEW id \in Events' \cup {None},
         UpdateThreadMatrixIds(t, room, id)
  PROVE  DbTypes' /\ Grows
<1>1. thread \in [Threads -> ThreadRow]
  BY ThreadsAreNumbers, LenProperties DEF DbTypes
<1>2. Threads' = Threads
  BY <1>1 DEF UpdateThreadMatrixIds, Threads
<1>3. \A u \in Threads : \/ thread'[u] = thread[u]
                         \/ thread'[u] = [thread[u] EXCEPT !.matrix = id, !.room = room]
  BY <1>1 DEF UpdateThreadMatrixIds
<1>5. ASSUME NEW u \in Threads
      PROVE  /\ thread'[u] \in ThreadRow
             /\ thread'[u].first = thread[u].first
             /\ thread'[u].last = thread[u].last
             /\ thread'[u].matrix \in {thread[u].matrix, id}
  <2>1. thread[u] \in ThreadRow
    BY <1>1
  <2>2. CASE thread'[u] = thread[u]
    BY <2>1, <2>2
  <2>3. CASE thread'[u] = [thread[u] EXCEPT !.matrix = id, !.room = room]
    BY <2>1, <2>3 DEF ThreadRow
  <2> QED
    BY <1>3, <2>2, <2>3
<1>6. thread' \in [Threads -> ThreadRow]
  BY <1>1, <1>5 DEF UpdateThreadMatrixIds
<1>7. \A u \in Threads : /\ {thread'[u].first, thread'[u].last} \subseteq Stored
                         /\ thread'[u].matrix \in Events' \cup {None}
  BY <1>5 DEF DbTypes
<1> QED
  BY <1>2, <1>6, <1>7, ThreadRowsStatement

LEMMA ForgetHeadTypes ==
  ASSUME DbTypes, UNCHANGED mail, Events \subseteq Events', NEW t,
         RemoveThreadMatrixId(t)
  PROVE  DbTypes' /\ Grows
<1>1. thread \in [Threads -> ThreadRow]
  BY ThreadsAreNumbers, LenProperties DEF DbTypes
<1>2. Threads' = Threads
  BY <1>1 DEF RemoveThreadMatrixId, Threads
<1>3. \A u \in Threads : \/ thread'[u] = thread[u]
                         \/ thread'[u] = [thread[u] EXCEPT !.matrix = None]
  BY <1>1 DEF RemoveThreadMatrixId
<1>5. ASSUME NEW u \in Threads
      PROVE  /\ thread'[u] \in ThreadRow
             /\ thread'[u].first = thread[u].first
             /\ thread'[u].last = thread[u].last
             /\ thread'[u].matrix \in {thread[u].matrix, None}
  <2>1. thread[u] \in ThreadRow
    BY <1>1
  <2>2. CASE thread'[u] = thread[u]
    BY <2>1, <2>2
  <2>3. CASE thread'[u] = [thread[u] EXCEPT !.matrix = None]
    BY <2>1, <2>3 DEF ThreadRow
  <2> QED
    BY <1>3, <2>2, <2>3
<1>6. thread' \in [Threads -> ThreadRow]
  BY <1>1, <1>5 DEF RemoveThreadMatrixId
<1>7. \A u \in Threads : /\ {thread'[u].first, thread'[u].last} \subseteq Stored
                         /\ thread'[u].matrix \in Events' \cup {None}
  BY <1>5 DEF DbTypes
<1> QED
  BY <1>2, <1>6, <1>7, ThreadRowsStatement
-----------------------------------------------------------------------------
(* What a step leaves alone keeps its type *)

LEMMA Stable ==
  ASSUME Types, Grows
  PROVE  /\ UNCHANGED stageVars => StageTypes'
         /\ UNCHANGED sortingVars => SorterTypes'
         /\ UNCHANGED extractor => ExtractorTypes'
         /\ UNCHANGED notifier => NotifierTypes'
         /\ UNCHANGED <<matrixVars, recreated>> => ChatTypes'
         /\ UNCHANGED overviewVars => OverviewTypes'
         /\ UNCHANGED commandVars => CommandTypes'
         /\ UNCHANGED <<pump, mishaps>> => PumpTypes'
<1>1. UNCHANGED stageVars => StageTypes'
  BY DEF Types, StageTypes, stageVars
<1>2. UNCHANGED sortingVars => SorterTypes'
  BY DEF Types, SorterTypes, sortingVars, Grows
<1>3. UNCHANGED extractor => ExtractorTypes'
  BY DEF Types, ExtractorTypes
<1>4. UNCHANGED notifier => NotifierTypes'
  BY DEF Types, NotifierTypes, Grows
<1>5. UNCHANGED <<matrixVars, recreated>> => ChatTypes'
  BY DEF Types, ChatTypes, matrixVars, Grows
<1>6. UNCHANGED overviewVars => OverviewTypes'
  BY DEF Types, OverviewTypes, overviewVars
<1>7. UNCHANGED commandVars => CommandTypes'
  BY DEF Types, CommandTypes, commandVars, Grows, NewMail
<1>8. UNCHANGED <<pump, mishaps>> => PumpTypes'
  BY DEF Types, PumpTypes
<1> QED
  BY <1>1, <1>2, <1>3, <1>4, <1>5, <1>6, <1>7, <1>8

\* The requests a step makes to the stages are requests to stages there are.
LEMMA RequestTypes ==
  ASSUME StageTypes
  PROVE  /\ \A s : TakeUp(s) => StageTypes'
         /\ \A s \in StageNames \cup OverviewRooms : QueueWork(s) => StageTypes'
         /\ \A c \in Commands, S \in SUBSET ({"notification"} \cup OverviewRooms) :
                QueueWorkBlocking(S, c) => StageTypes'
         /\ \A s : /\ LetGo(s) /\ UNCHANGED closed
                   /\ queued' \subseteq queued \cup OverviewRooms
                   => StageTypes'
<1>1. \A s : TakeUp(s) => StageTypes'
  BY DEF StageTypes, TakeUp
<1>2. \A s \in StageNames \cup OverviewRooms : QueueWork(s) => StageTypes'
  BY DEF StageTypes, QueueWork, QueueAll
<1>3. \A c \in Commands, S \in SUBSET ({"notification"} \cup OverviewRooms) :
        QueueWorkBlocking(S, c) => StageTypes'
  BY DEF StageTypes, QueueWorkBlocking, QueueAll, StageNames
<1>4. \A s : LetGo(s) => waiting' \subseteq waiting
  BY DEF LetGo
<1> QED
  BY <1>1, <1>2, <1>3, <1>4 DEF StageTypes

LEMMA OverviewRoomsOfRoom ==
  \A room : GetOverviewRooms(room) \subseteq OverviewRooms
BY DEF GetOverviewRooms

LEMMA EventsAreNumbers ==
  ASSUME ChatTypes
  PROVE  Events \subseteq Nat /\ Len(timeline) \in Nat /\ Events = 1 .. Len(timeline)
BY LenProperties DEF ChatTypes, Events

LEMMA EventsStay == UNCHANGED timeline => Events' = Events
BY DEF Events
-----------------------------------------------------------------------------
(* The pump *)

LEMMA PumpKeeps ==
  ASSUME Types, Pump
  PROVE  Types'
<1>1. CASE \E chunk \in SUBSET mailbox : ReceiveChunk(chunk)
  <2>1. PICK chunk \in SUBSET mailbox : ReceiveChunk(chunk)
    BY <1>1
  <2>2. UNCHANGED <<dbVars, stageVars, pumpRest>>
    BY <2>1 DEF ReceiveChunk
  <2>3. DbTypes' /\ Grows
    BY <2>2, NoStatement, EventsStay DEF Types, pumpRest, matrixVars
  <2>4. PumpTypes'
    BY <2>1, <2>2 DEF ReceiveChunk, Types, PumpTypes, CommandTypes, pumpRest
  <2> QED
    BY <2>2, <2>3, <2>4, Stable
       DEF Types, pumpRest, notifierVars
<1>2. CASE \E m \in Mails : StoreMail(m)
  <2>1. PICK m \in Mails : StoreMail(m)
    BY <1>2
  <2>2. UNCHANGED <<thread, stageVars, pumpRest>> /\ AddMail(m, TRUE)
    BY <2>1 DEF StoreMail
  <2>3. DbTypes' /\ Grows
    BY <2>2, AddMailTypes, EventsStay DEF Types, pumpRest, matrixVars
  <2>4. mail[m].stored \in BOOLEAN
    BY DEF Types, DbTypes, MailRow
  <2>5. PumpTypes'
    BY <2>1, <2>2, <2>4 DEF StoreMail, Types, PumpTypes, pumpRest
  <2> QED
    BY <2>2, <2>3, <2>5, Stable DEF Types, pumpRest, notifierVars
<1>3. CASE EndChunk
  <2>1. UNCHANGED <<dbVars, pumpRest>>
    BY <1>3 DEF EndChunk
  <2>2. DbTypes' /\ Grows
    BY <2>1, NoStatement, EventsStay DEF Types, pumpRest, matrixVars
  <2>3. QueueWork("sorting") \/ UNCHANGED stageVars
    BY <1>3 DEF EndChunk
  <2>4. StageTypes'
    BY <2>2, <2>3, RequestTypes, Stable DEF Types, StageNames
  <2>5. PumpTypes'
    BY <1>3, <2>1 DEF EndChunk, Types, PumpTypes, pumpRest
  <2> QED
    BY <2>1, <2>2, <2>4, <2>5, Stable DEF Types, pumpRest, notifierVars
<1> QED
  BY <1>1, <1>2, <1>3 DEF Pump
-----------------------------------------------------------------------------
(* The sorting stage *)

LEMMA SortingMoves ==
  ASSUME Types, Sorting
  PROVE  /\ Events' = Events => DbTypes' /\ Grows
         /\ StageTypes'
         /\ Events' = Events => SorterTypes'
<1> USE Names
<1> DEFINE Sorter == [pc : SorterSteps, rest : SUBSET Mails, cur : Mails \cup {None},
                      target : Nat \cup {None}, first : BOOLEAN]
           Moves == /\ Events' = Events => DbTypes' /\ Grows
                    /\ StageTypes'
                    /\ Events' = Events => SorterTypes'
<1>0. /\ StageTypes /\ DbTypes /\ SorterTypes /\ sorter \in Sorter
      /\ sorter.rest \subseteq Stored
      /\ Threads \subseteq Nat /\ Len(thread) \in Nat
  BY ThreadsAreNumbers DEF Types, SorterTypes
<1>1. CASE SortingBegin
  <2>1. UNCHANGED dbVars /\ TakeUp("sorting")
    BY <1>1 DEF SortingBegin
  <2>2. StageTypes' /\ (Events' = Events => DbTypes' /\ Grows)
    BY <1>0, <2>1, NoStatement, RequestTypes
  <2>3. SorterTypes'
    BY <1>0, <1>1 DEF SortingBegin, SorterTypes, SorterSteps, Stored, dbVars
  <2> QED
    BY <2>2, <2>3
<1>2. CASE LockThreadSorting \/ WaitForCompleteData
  <2>1. UNCHANGED dbVars /\ UNCHANGED stageVars
    BY <1>2 DEF LockThreadSorting, WaitForCompleteData
  <2>2. StageTypes' /\ (Events' = Events => DbTypes' /\ Grows)
    BY <1>0, <2>1, NoStatement DEF StageTypes, stageVars
  <2>3. SorterTypes'
    BY <1>0, <1>2 DEF LockThreadSorting, WaitForCompleteData, SorterTypes,
                      SorterSteps, Stored, dbVars
  <2> QED
    BY <2>2, <2>3
<1>3. CASE AutoUpdateMailSorting
  <2>1. UNCHANGED thread /\ UNCHANGED stageVars /\ AutoUpdateMailReplyTo
    BY <1>3 DEF AutoUpdateMailSorting
  <2>2. StageTypes' /\ (Events' = Events => DbTypes' /\ Grows)
    BY <1>0, <2>1, ReplyToTypes DEF StageTypes, stageVars
  <2>3. Grows => SorterTypes'
    BY <1>0, <1>3 DEF AutoUpdateMailSorting, SorterTypes, SorterSteps, Grows
  <2> QED
    BY <2>2, <2>3
<1>4. CASE ListMailsRequiringSorting
  <2>1. UNCHANGED dbVars /\ (UNCHANGED stageVars \/ QueueWork("extraction"))
    BY <1>4 DEF ListMailsRequiringSorting
  <2>2. StageTypes' /\ (Events' = Events => DbTypes' /\ Grows)
    BY <1>0, <2>1, NoStatement, RequestTypes DEF StageTypes, stageVars, StageNames
  <2>3. MailsRequiringSorting \subseteq Stored /\ Stored \subseteq Mails /\ Stored' = Stored
    BY <2>1 DEF MailsRequiringSorting, Stored, dbVars
  <2>4. CASE MailsRequiringSorting # {}
    BY <1>0, <1>4, <2>2, <2>3, <2>4 DEF ListMailsRequiringSorting, SorterTypes, SorterSteps
  <2>5. CASE MailsRequiringSorting = {}
    BY <1>0, <1>4, <2>3, <2>2, <2>5 DEF ListMailsRequiringSorting, SorterTypes, SorterSteps
  <2> QED
    BY <2>2, <2>4, <2>5
<1>5. CASE LookUpReplyTo
  <2>1. UNCHANGED dbVars /\ UNCHANGED stageVars
    BY <1>5 DEF LookUpReplyTo
  <2>2. StageTypes' /\ (Events' = Events => DbTypes' /\ Grows)
    BY <1>0, <2>1, NoStatement DEF StageTypes, stageVars
  <2>3. PICK m \in Oldest(sorter.rest) :
          LET parent == mail[m].replyTo
              t == IF parent = None THEN None ELSE mail[parent].thread
              found == t # None /\ ~thread[t].forceClose
          IN  sorter' = [sorter EXCEPT
                  !.cur = m,
                  !.target = IF found THEN t ELSE None,
                  !.pc = IF found THEN "join" ELSE "references"]
    BY <1>5 DEF LookUpReplyTo
  <2> DEFINE parent == mail[m].replyTo
             t == IF parent = None THEN None ELSE mail[parent].thread
             found == t # None /\ ~thread[t].forceClose
  <2>4. m \in sorter.rest /\ m \in Mails /\ m \in Stored
    BY <1>0 DEF Oldest, Stored
  <2>5. parent \in Mails \cup {None}
    BY <1>0, <2>4 DEF DbTypes, MailRow
  <2>6. t \in Threads \cup {None}
    BY <1>0, <2>5 DEF DbTypes
  <2>7. /\ sorter' = [sorter EXCEPT !.cur = m, !.target = IF found THEN t ELSE None,
                                    !.pc = IF found THEN "join" ELSE "references"]
        /\ UNCHANGED sortingMutex
    BY <1>5, <2>3 DEF LookUpReplyTo
  <2> HIDE DEF t
  <2>8. CASE found
    <3>1. sorter' = [sorter EXCEPT !.cur = m, !.target = t, !.pc = "join"]
      BY <2>7, <2>8
    <3>2. t \in Threads
      BY <2>6, <2>8
    <3> QED
      BY <1>0, <2>1, <2>2, <2>4, <2>7, <3>1, <3>2
         DEF SorterTypes, SorterSteps, Stored, Threads, dbVars
  <2>9. CASE ~found
    <3>1. sorter' = [sorter EXCEPT !.cur = m, !.target = None, !.pc = "references"]
      BY <2>7, <2>9
    <3> QED
      BY <1>0, <2>1, <2>2, <2>4, <2>7, <3>1
         DEF SorterTypes, SorterSteps, Stored, Threads, dbVars
  <2> QED
    BY <2>8, <2>9
<1>6. CASE LookUpReferences
  <2>1. UNCHANGED dbVars /\ UNCHANGED stageVars /\ sorter.cur \in Stored
    BY <1>0, <1>6 DEF LookUpReferences, At, SorterTypes
  <2>2. StageTypes' /\ (Events' = Events => DbTypes' /\ Grows)
    BY <1>0, <2>1, NoStatement DEF StageTypes, stageVars
  <2>3. CASE sorter' = [sorter EXCEPT !.pc = "head"]
    BY <1>0, <1>6, <2>1, <2>2, <2>3
       DEF LookUpReferences, SorterTypes, SorterSteps, Stored, dbVars
  <2>4. ASSUME NEW r \in ReferencedThreadParents(sorter.cur),
               sorter' = [sorter EXCEPT !.pc = "join", !.target = mail[r].thread]
        PROVE  Moves
    <3>1. r \in Stored /\ mail[r].thread # None
      BY DEF ReferencedThreadParents
    <3>2. mail[r].thread \in Threads
      BY <1>0, <3>1 DEF DbTypes, Stored
    <3> QED
      BY <1>0, <1>6, <2>1, <2>2, <2>4, <3>2
         DEF LookUpReferences, SorterTypes, SorterSteps, Stored, Threads, dbVars
  <2> QED
    BY <1>6, <2>3, <2>4 DEF LookUpReferences
<1>7. CASE JoinThread
  <2>1. /\ UNCHANGED thread /\ UNCHANGED stageVars /\ sorter.cur \in Stored
        /\ sorter.target \in Threads
        /\ UpdateMailSorting(sorter.cur, sorter.target, mail[sorter.cur].replyTo)
    BY <1>0, <1>7 DEF JoinThread, At, SorterTypes
  <2>2. sorter.cur \in Mails
    BY <2>1 DEF Stored
  <2>3. StageTypes' /\ (Events' = Events => DbTypes' /\ Grows)
    BY <1>0, <2>1, <2>2, SortingTypes DEF StageTypes, stageVars
  <2>4. Grows => SorterTypes'
    BY <1>0, <1>7, <2>1 DEF JoinThread, SorterTypes, SorterSteps, Grows
  <2> QED
    BY <2>3, <2>4
<1>8. ASSUME SortedCurrent, UNCHANGED sortingMutex, Stored \subseteq Stored'
      PROVE  SorterTypes'
  <2>1. PICK pc \in {"finish", "next"} :
          sorter' = [sorter EXCEPT !.rest = sorter.rest \ {sorter.cur}, !.cur = None,
                                   !.target = None, !.pc = pc]
    BY <1>8 DEF SortedCurrent
  <2> QED
    BY <1>0, <1>8, <2>1 DEF SorterTypes, SorterSteps
<1>9. CASE TouchThread
  <2>1. /\ UNCHANGED mail /\ UNCHANGED stageVars /\ sorter.cur \in Stored
        /\ UpdateThreadLastMail(sorter.target, sorter.cur)
        /\ SortedCurrent /\ UNCHANGED sortingMutex
    BY <1>0, <1>9 DEF TouchThread, At, SorterTypes
  <2>2. StageTypes' /\ (Events' = Events => DbTypes' /\ Grows)
    BY <1>0, <2>1, LastMailTypes DEF StageTypes, stageVars
  <2> QED
    BY <2>1, <2>2, <1>8 DEF Grows
<1>10. CASE MarkMailAsSorted
  <2>1. /\ UNCHANGED thread /\ UNCHANGED stageVars /\ sorter.cur \in Mails
        /\ UpdateMailMarkSorted(sorter.cur)
        /\ SortedCurrent /\ UNCHANGED sortingMutex
    BY <1>0, <1>10 DEF MarkMailAsSorted, At, SorterTypes, Stored
  <2>2. StageTypes' /\ (Events' = Events => DbTypes' /\ Grows)
    BY <1>0, <2>1, MarkSortedTypes DEF StageTypes, stageVars
  <2> QED
    BY <2>1, <2>2, <1>8 DEF Grows
<1>11. CASE CreateThread
  <2>1. /\ UNCHANGED mail /\ UNCHANGED stageVars /\ sorter.cur \in Stored
        /\ AddThread(sorter.cur)
    BY <1>0, <1>11 DEF CreateThread, At, SorterTypes
  <2>2. /\ StageTypes'
        /\ Events' = Events => DbTypes' /\ Grows /\ Len(thread) + 1 \in Threads'
    BY <1>0, <2>1, AddThreadTypes DEF StageTypes, stageVars
  <2>3. /\ sorter' = [sorter EXCEPT !.pc = "claim", !.target = Len(thread) + 1]
        /\ UNCHANGED sortingMutex /\ Len(thread) + 1 \in Nat
    BY <1>0, <1>11 DEF CreateThread
  <2>4. sorter' \in Sorter /\ sorter'.rest = sorter.rest /\ sorter'.pc = "claim"
        /\ sorter'.cur = sorter.cur /\ sorter'.target = Len(thread) + 1
    BY <1>0, <2>3 DEF SorterSteps
  <2>5. Grows /\ Len(thread) + 1 \in Threads' => SorterTypes'
    BY <1>0, <2>1, <2>3, <2>4 DEF SorterTypes, Grows
  <2> QED
    BY <2>2, <2>5
<1>12. CASE ClaimHead
  <2>1. /\ UNCHANGED thread /\ UNCHANGED stageVars /\ sorter.cur \in Stored
        /\ sorter.target \in Threads
        /\ UpdateMailSorting(sorter.cur, sorter.target, mail[sorter.cur].replyTo)
        /\ SortedCurrent /\ UNCHANGED sortingMutex
    BY <1>0, <1>12 DEF ClaimHead, At, SorterTypes
  <2>2. sorter.cur \in Mails
    BY <2>1 DEF Stored
  <2>3. StageTypes' /\ (Events' = Events => DbTypes' /\ Grows)
    BY <1>0, <2>1, <2>2, SortingTypes DEF StageTypes, stageVars
  <2> QED
    BY <2>1, <2>3, <1>8 DEF Grows
<1>13. CASE FinishSorting
  <2>1. UNCHANGED dbVars /\ QueueWork("extraction")
    BY <1>13 DEF FinishSorting
  <2>2. StageTypes' /\ (Events' = Events => DbTypes' /\ Grows)
    BY <1>0, <2>1, NoStatement, RequestTypes DEF StageNames
  <2>3. SorterTypes'
    BY <1>0, <1>13, <2>1 DEF FinishSorting, SorterTypes, SorterSteps, Stored, dbVars
  <2> QED
    BY <2>2, <2>3
<1> QED
  BY <1>1, <1>2, <1>3, <1>4, <1>5, <1>6, <1>7, <1>9, <1>10, <1>11, <1>12, <1>13
     DEF Sorting, SortingStep

LEMMA SortingStageKeeps ==
  ASSUME Types, SortingStage
  PROVE  Types'
<1>1. /\ Sorting
      /\ UNCHANGED <<extractor, notifierVars, matrixVars, commandVars, pump, mishaps,
                     overviewVars>>
  BY DEF SortingStage
<1>2. Events' = Events
  BY <1>1, EventsStay DEF matrixVars
<1> QED
  BY <1>1, <1>2, SortingMoves, Stable DEF Types, notifierVars

(* The extraction stage *)

LEMMA ExtractionStageKeeps ==
  ASSUME Types, ExtractionStage
  PROVE  Types'
<1> DEFINE Extractor == [pc : ExtractorSteps, todo : SUBSET Mails, first : BOOLEAN]
<1>0. /\ Extraction /\ StageTypes /\ DbTypes /\ extractor \in Extractor
      /\ UNCHANGED <<sortingVars, notifierVars, matrixVars, commandVars, pump, mishaps,
                     overviewVars>>
  BY DEF ExtractionStage, Types, ExtractorTypes
<1>1. Events' = Events
  BY <1>0, EventsStay DEF matrixVars
<1>2. ASSUME DbTypes', Grows, StageTypes', extractor' \in Extractor
      PROVE  Types'
  BY <1>0, <1>2, Stable DEF Types, notifierVars, ExtractorTypes
<1>3. CASE ExtractionBegin
  BY <1>0, <1>1, <1>2, <1>3, NoStatement, RequestTypes DEF ExtractionBegin, ExtractorSteps
<1>4. CASE ListMailsRequiringMessageExtraction
  <2>1. MailsRequiringMessageExtraction \subseteq Mails
    BY DEF MailsRequiringMessageExtraction, Stored
  <2>2. extractor' \in Extractor
    BY <1>0, <1>4, <2>1 DEF ListMailsRequiringMessageExtraction, ExtractorSteps
  <2>3. UNCHANGED dbVars /\ (UNCHANGED stageVars \/ QueueWork("notification"))
    BY <1>4 DEF ListMailsRequiringMessageExtraction
  <2>4. DbTypes' /\ Grows
    BY <1>0, <1>1, <2>3, NoStatement
  <2>5. StageTypes'
    BY <1>0, <2>3, <2>4, Stable, RequestTypes DEF StageNames
  <2> QED
    BY <1>2, <2>2, <2>4, <2>5
<1>5. ASSUME NEW m \in Mails, PerformMessageExtraction(m)
      PROVE  Types'
  <2>1. /\ UNCHANGED thread /\ UNCHANGED stageVars
        /\ UNCHANGED mail \/ UpdateExtractedMessages(m)
    BY <1>5 DEF PerformMessageExtraction
  <2>2. DbTypes' /\ Grows
    BY <1>0, <1>1, <2>1, NoStatement, MarkSortedTypes DEF dbVars
  <2>3. extractor' \in Extractor
    BY <1>0, <1>5 DEF PerformMessageExtraction, ExtractorSteps
  <2> QED
    BY <1>2, <2>1, <2>2, <2>3, Stable
<1>6. ASSUME NEW m \in Mails, CancelBatch(m)
      PROVE  Types'
  <2>1. extractor' \in Extractor
    BY <1>0, <1>6 DEF CancelBatch
  <2>2. UNCHANGED dbVars /\ QueueWork("extraction")
    BY <1>6 DEF CancelBatch
  <2> QED
    BY <1>0, <1>1, <1>2, <2>1, <2>2, NoStatement, RequestTypes DEF StageNames
<1>7. CASE FinishExtraction
  <2>1. extractor' \in Extractor
    BY <1>0, <1>7 DEF FinishExtraction, ExtractorSteps
  <2>2. UNCHANGED dbVars /\ QueueWork("notification")
    BY <1>7 DEF FinishExtraction
  <2> QED
    BY <1>0, <1>1, <1>2, <2>1, <2>2, NoStatement, RequestTypes DEF StageNames
<1> QED
  BY <1>0, <1>3, <1>4, <1>5, <1>6, <1>7 DEF Extraction, ExtractionStep, ExtractionFails
-----------------------------------------------------------------------------
(* The notification stage *)

NotifierRecord ==
    [pc : NotifierSteps, threads : SUBSET HeadRow, unchecked : SUBSET Nat,
     valid : SUBSET Nat, mails : SUBSET ReplyRow, head : Nat \cup {None},
     mail : Mails \cup {None}, id : Nat \cup {None}, gone : SUBSET ReplyRow,
     touched : SUBSET OverviewRooms]

LEMMA PostTypes ==
  ASSUME timeline \in Seq(Event), NEW e \in Event, timeline' = Append(timeline, e)
  PROVE  /\ timeline' \in Seq(Event) /\ Len(timeline) + 1 \in Events'
         /\ Events \subseteq Events' /\ Events' \subseteq Nat
         /\ Events' = Events \cup {Len(timeline) + 1}
         /\ \A i \in Events : timeline'[i] = timeline[i]
         /\ timeline'[Len(timeline) + 1] = e
<1>1. /\ timeline' \in Seq(Event) /\ Len(timeline) \in Nat
      /\ Events = 1 .. Len(timeline) /\ Events' = 1 .. Len(timeline) + 1
      /\ \A i \in Events : timeline'[i] = timeline[i]
      /\ timeline'[Len(timeline) + 1] = e
  BY Longer DEF Events
<1> QED
  BY <1>1

LEMMA CallAgainTypes ==
  ASSUME NotifierTypes, StageTypes, Grows, CallAgain
  PROVE  NotifierTypes' /\ StageTypes'
<1> USE Names
<1>1. CASE Cancelled
  <2>1. notifier' = IdleNotifier /\ LetGo("notification") /\ UNCHANGED <<queued, closed>>
    BY <1>1 DEF CallAgain
  <2>2. StageTypes'
    BY <2>1, RequestTypes
  <2>3. NotifierTypes'
    BY <2>1 DEF NotifierTypes, IdleNotifier, NotifierSteps
  <2> QED
    BY <2>2, <2>3
<1>2. CASE ~Cancelled
  <2>1. /\ notifier' = [notifier EXCEPT !.pc = "threads", !.mails = {}, !.gone = {}]
        /\ UNCHANGED stageVars
    BY <1>2 DEF CallAgain
  <2>2. StageTypes'
    BY <2>1 DEF StageTypes, stageVars
  <2>3. /\ notifier' \in NotifierRecord /\ notifier'.threads = notifier.threads
        /\ notifier'.pc = "threads"
    BY <2>1 DEF NotifierTypes, NotifierRecord, NotifierSteps
  <2>4. \A row \in notifier'.threads : row.id \in Threads'
    BY <2>3 DEF NotifierTypes, Grows
  <2> QED
    BY <2>2, <2>3, <2>4 DEF NotifierTypes, NotifierRecord
<1> QED
  BY <1>1, <1>2

\* The actions of the stage that say only how its own variables change.
NotifierReads ==
    \/ NotificationBegin \/ ListMatrixReadyThreads \/ ListMatrixReadyMails
    \/ \E t \in Threads : CheckThread(t)
    \/ FindHeadRedacted \/ MistakeHeadForRedacted \/ LinkFails

LEMMA NotifierReadsTypes ==
  ASSUME Types, NotifierReads
  PROVE  DbTypes' /\ Grows /\ StageTypes' /\ NotifierTypes' /\ ChatTypes'
<1> USE Names
<1>0. /\ StageTypes /\ DbTypes /\ NotifierTypes /\ ChatTypes
      /\ notifier \in NotifierRecord
      /\ \A row \in notifier.threads : row.id \in Threads
  BY DEF Types, NotifierTypes, NotifierRecord
<1>1. UNCHANGED <<recreated, matrixVars, dbVars>>
      /\ (UNCHANGED stageVars \/ TakeUp("notification"))
  BY DEF NotifierReads, NotificationBegin, ListMatrixReadyThreads, ListMatrixReadyMails,
         CheckThread, FindHeadRedacted, MistakeHeadForRedacted, LinkFails
<1>2. Events' = Events /\ Threads' = Threads
  BY <1>1, EventsStay DEF matrixVars, dbVars, Threads
<1>3. DbTypes' /\ Grows
  BY <1>0, <1>1, <1>2, NoStatement
<1>4. StageTypes' /\ ChatTypes'
  BY <1>0, <1>1, <1>3, Stable, RequestTypes
<1>5. ASSUME notifier' \in NotifierRecord,
             notifier'.pc \notin {"record head", "link", "record mail"},
             \A row \in notifier'.threads : row.id \in Threads
      PROVE  NotifierTypes'
  BY <1>2, <1>5 DEF NotifierTypes, NotifierRecord
<1>6. CASE NotificationBegin
  <2>1. notifier' = [notifier EXCEPT !.pc = "threads"]
    BY <1>6 DEF NotificationBegin
  <2>2. /\ notifier' \in NotifierRecord /\ notifier'.pc = "threads"
        /\ notifier'.threads = notifier.threads
    BY <1>0, <2>1 DEF NotifierRecord, NotifierSteps
  <2> QED
    BY <1>0, <1>3, <1>4, <1>5, <2>2
<1>7. CASE ListMatrixReadyThreads
  <2> DEFINE listed == IF Cancelled THEN {} ELSE MatrixReadyThreads
             rows == {[id |-> t, first |-> thread[t].first, room |-> thread[t].room] :
                         t \in listed}
  <2>1. notifier' = [notifier EXCEPT !.pc = IF listed = {} THEN "mails" ELSE "post",
                                     !.threads = rows]
    BY <1>7 DEF ListMatrixReadyThreads
  <2>2. listed \subseteq Threads
    BY DEF MatrixReadyThreads
  <2>3. \A t \in Threads : t \in Nat /\ thread[t] \in ThreadRow
    BY <1>0, ThreadsAreNumbers, ElementOfSeq DEF DbTypes
  <2>4. rows \subseteq HeadRow /\ \A row \in rows : row.id \in Threads
    <3> HIDE DEF listed
    <3> QED
      BY <2>2, <2>3 DEF HeadRow, ThreadRow
  <2>5. PICK pc \in {"mails", "post"} :
          notifier' = [notifier EXCEPT !.pc = pc, !.threads = rows]
    BY <2>1
  <2> HIDE DEF rows
  <2>6. /\ notifier' \in NotifierRecord /\ notifier'.pc \in {"mails", "post"}
        /\ notifier'.threads = rows
    BY <1>0, <2>4, <2>5 DEF NotifierRecord, NotifierSteps
  <2> QED
    BY <1>3, <1>4, <1>5, <2>4, <2>6
<1>8. CASE ListMatrixReadyMails
  <2> DEFINE listed == IF Cancelled THEN {} ELSE MatrixReadyMails
             rows == {[id |-> m, thread |-> mail[m].thread,
                       root |-> thread[mail[m].thread].matrix,
                       room |-> thread[mail[m].thread].room] : m \in listed}
             numbers == {mail[m].thread : m \in listed}
  <2>1. PICK pc \in {"send", "check"}, touched \in {{}, notifier.touched} :
          notifier' = [notifier EXCEPT !.pc = pc, !.touched = touched, !.mails = rows,
                                       !.unchecked = numbers, !.valid = {}]
    BY <1>8 DEF ListMatrixReadyMails
  <2>2. \A m \in listed : m \in Mails /\ mail[m].thread # None
                          /\ thread[mail[m].thread].matrix # None
    BY DEF MatrixReadyMails, Stored
  <2>3. \A t \in Threads : t \in Nat /\ thread[t] \in ThreadRow
    BY <1>0, ThreadsAreNumbers, ElementOfSeq DEF DbTypes
  <2>4. \A m \in listed : /\ mail[m].thread \in Nat
                          /\ thread[mail[m].thread] \in ThreadRow
    <3> HIDE DEF listed
    <3> QED
      BY <1>0, <2>2, <2>3 DEF DbTypes
  <2> HIDE DEF listed
  <2>5. numbers \subseteq Nat /\ rows \subseteq ReplyRow
    BY <2>2, <2>4 DEF ReplyRow, ThreadRow
  <2> HIDE DEF numbers, rows
  <2>6. /\ notifier' \in NotifierRecord /\ notifier'.pc \in {"send", "check"}
        /\ notifier'.threads = notifier.threads
    BY <1>0, <2>1, <2>5 DEF NotifierRecord, NotifierSteps
  <2> QED
    BY <1>0, <1>3, <1>4, <1>5, <2>6
<1>9. ASSUME NEW t \in Threads, CheckThread(t)
      PROVE  NotifierTypes'
  <2>1. t \in Nat
    BY <1>0, ThreadsAreNumbers
  <2> DEFINE ready == Cancelled \/ \A m \in MailsByThread(t) : mail[m].extracted
             valid == notifier.valid \cup {u \in {t} : ready}
             left == notifier.unchecked \ {t}
  <2>2. PICK pc \in {"send", "check"}, vs \in {{}, valid},
             ms \in {notifier.mails, {row \in notifier.mails : row.thread \in valid}} :
          notifier' = [notifier EXCEPT !.unchecked = left, !.valid = vs, !.mails = ms,
                                       !.pc = pc]
    <3>1. CASE left = {}
      BY <1>9, <3>1 DEF CheckThread
    <3>2. CASE left # {}
      BY <1>9, <3>2 DEF CheckThread
    <3> QED
      BY <3>1, <3>2
  <2>3. valid \subseteq Nat /\ left \subseteq Nat
    BY <1>0, <2>1 DEF NotifierRecord
  <2>4. vs \subseteq Nat /\ ms \subseteq ReplyRow
    <3> HIDE DEF valid
    <3> QED
      BY <1>0, <2>3 DEF NotifierRecord
  <2> HIDE DEF left
  <2>5. /\ notifier' \in NotifierRecord /\ notifier'.pc \in {"send", "check"}
        /\ notifier'.threads = notifier.threads
    BY <1>0, <2>2, <2>3, <2>4 DEF NotifierRecord, NotifierSteps
  <2> QED
    BY <1>0, <1>5, <2>5
<1>10. CASE FindHeadRedacted \/ MistakeHeadForRedacted
  <2>1. PICK row \in notifier.mails :
          notifier' = [notifier EXCEPT !.pc = "forget head", !.gone = {row}]
    BY <1>10 DEF FindHeadRedacted, MistakeHeadForRedacted, NextMails
  <2>2. /\ notifier' \in NotifierRecord /\ notifier'.pc = "forget head"
        /\ notifier'.threads = notifier.threads
    BY <1>0, <2>1 DEF NotifierRecord, NotifierSteps
  <2> QED
    BY <1>0, <1>3, <1>4, <1>5, <2>2
<1>11. CASE LinkFails
  <2>1. notifier' = [notifier EXCEPT !.pc = "post", !.head = None, !.id = None]
    BY <1>11 DEF LinkFails
  <2>2. /\ notifier' \in NotifierRecord /\ notifier'.pc = "post"
        /\ notifier'.threads = notifier.threads
    BY <1>0, <2>1 DEF NotifierRecord, NotifierSteps
  <2> QED
    BY <1>0, <1>3, <1>4, <1>5, <2>2
<1> QED
  BY <1>3, <1>4, <1>6, <1>7, <1>8, <1>9, <1>10, <1>11 DEF NotifierReads

\* The actions that post to the chat server.
NotifierPosts == PostHead \/ LinkRecreation \/ SendMail \/ AnswerLost

LEMMA NotifierPostsTypes ==
  ASSUME Types, NotifierPosts
  PROVE  DbTypes' /\ Grows /\ StageTypes' /\ NotifierTypes' /\ ChatTypes'
<1> USE Names
<1>0. /\ StageTypes /\ DbTypes /\ NotifierTypes /\ ChatTypes
      /\ notifier \in NotifierRecord /\ timeline \in Seq(Event)
      /\ \A row \in notifier.threads : row.id \in Threads
  BY DEF Types, NotifierTypes, NotifierRecord, ChatTypes
<1>1. UNCHANGED <<redacted, dbVars>>
  BY DEF NotifierPosts, PostHead, LinkRecreation, SendMail, AnswerLost
<1>2. Threads' = Threads /\ Threads \subseteq Nat
  BY <1>0, <1>1, ThreadsAreNumbers DEF dbVars, Threads
<1>3. ASSUME NEW e \in Event, timeline' = Append(timeline, e)
      PROVE  /\ timeline' \in Seq(Event) /\ redacted' \subseteq Events'
             /\ DbTypes' /\ Grows
             /\ Len(timeline) + 1 \in Events' /\ Len(timeline) + 1 \in Nat
  <2>1. timeline' \in Seq(Event) /\ Len(timeline) + 1 \in Events'
        /\ Events \subseteq Events' /\ Events' \subseteq Nat
    BY <1>0, <1>3, PostTypes
  <2>2. DbTypes' /\ Grows
    BY <1>0, <1>1, <2>1, NoStatement
  <2> QED
    BY <1>0, <1>1, <2>1, <2>2 DEF ChatTypes
<1>4. CASE PostHead
  <2>1. PICK row \in notifier.threads :
          LET room == IF row.room = None THEN HomeRoom[row.first] ELSE row.room
          IN  /\ timeline' = Append(timeline, HeadEvent(row.id, room))
              /\ notifier' = [notifier EXCEPT !.pc = "record head",
                                              !.threads = @ \ {row},
                                              !.head = row.id,
                                              !.id = Len(timeline) + 1]
    BY <1>4 DEF PostHead
  <2> DEFINE room == IF row.room = None THEN HomeRoom[row.first] ELSE row.room
  <2>2. row \in HeadRow /\ row.id \in Threads
    BY <1>0 DEF NotifierRecord
  <2>3. room \in Rooms
    BY <2>2, MailAssumption DEF HeadRow
  <2>4. HeadEvent(row.id, room) \in Event
    BY <1>2, <2>2, <2>3 DEF HeadEvent, Event
  <2>5. timeline' = Append(timeline, HeadEvent(row.id, room))
    BY <2>1
  <2> HIDE DEF room
  <2>6. /\ timeline' \in Seq(Event) /\ redacted' \subseteq Events' /\ DbTypes' /\ Grows
        /\ Len(timeline) + 1 \in Events' /\ Len(timeline) + 1 \in Nat
    BY <1>3, <2>4, <2>5
  <2>7. UNCHANGED <<stageVars, recreated>>
    BY <1>4 DEF PostHead
  <2>8. notifier' = [notifier EXCEPT !.pc = "record head",
                                     !.threads = notifier.threads \ {row},
                                     !.head = row.id, !.id = Len(timeline) + 1]
    BY <2>1
  <2>9. /\ notifier' \in NotifierRecord /\ notifier'.pc = "record head"
        /\ notifier'.threads = notifier.threads \ {row}
        /\ notifier'.head = row.id /\ notifier'.id = Len(timeline) + 1
    BY <1>0, <1>2, <2>2, <2>6, <2>8 DEF NotifierRecord, NotifierSteps
  <2>10. NotifierTypes'
    BY <1>0, <1>2, <2>2, <2>6, <2>9 DEF NotifierTypes, NotifierRecord
  <2> QED
    BY <1>0, <2>6, <2>7, <2>10, Stable DEF ChatTypes
<1>5. CASE LinkRecreation
  <2>1. /\ notifier' = [notifier EXCEPT !.pc = "post", !.head = None, !.id = None]
        /\ UNCHANGED stageVars /\ notifier.id \in Events
    BY <1>0, <1>5 DEF LinkRecreation, NAt, NotifierTypes
  <2>2. /\ notifier' \in NotifierRecord /\ notifier'.pc = "post"
        /\ notifier'.threads = notifier.threads
    BY <1>0, <2>1 DEF NotifierRecord, NotifierSteps
  <2>3. NotifierTypes'
    BY <1>0, <1>2, <2>2 DEF NotifierTypes, NotifierRecord
  <2>4. CASE UNCHANGED <<timeline, recreated>>
    <3>1. Events' = Events
      BY <2>4, EventsStay
    <3>2. DbTypes' /\ Grows
      BY <1>0, <1>1, <3>1, NoStatement
    <3>3. ChatTypes'
      BY <1>0, <1>1, <2>4, <3>1 DEF ChatTypes
    <3> QED
      BY <2>1, <2>3, <3>2, <3>3, Stable
  <2>5. ASSUME NEW old \in recreated,
               timeline' = Append(timeline, LinkEvent(notifier.id, old.room, old.root)),
               recreated' = recreated \ {old}
        PROVE  DbTypes' /\ Grows /\ ChatTypes'
    <3>1. notifier.id \in Nat /\ old.room \in Rooms \cup {None}
          /\ old.root \in Nat \cup {None}
      BY <1>0, <2>1, EventsAreNumbers DEF ChatTypes
    <3>2. LinkEvent(notifier.id, old.room, old.root) \in Event
      BY <3>1 DEF LinkEvent, Event
    <3> QED
      BY <1>0, <1>3, <2>5, <3>2 DEF ChatTypes
  <2> QED
    BY <1>5, <2>1, <2>3, <2>4, <2>5, Stable DEF LinkRecreation
<1>6. ASSUME NEW row \in notifier.mails
      PROVE  MailEvent(row.id, row.room, row.root) \in Event /\ row.id \in Mails
  <2>1. row \in ReplyRow
    BY <1>0 DEF NotifierRecord
  <2> QED
    BY <2>1 DEF MailEvent, Event, ReplyRow
<1>7. CASE SendMail
  <2>1. PICK row \in notifier.mails :
          /\ timeline' = Append(timeline, MailEvent(row.id, row.room, row.root))
          /\ notifier' = [notifier EXCEPT !.pc = "record mail",
                                          !.mails = notifier.mails \ {row},
                                          !.mail = row.id, !.id = Len(timeline) + 1]
    BY <1>7 DEF SendMail, NextMails
  <2>2. MailEvent(row.id, row.room, row.root) \in Event /\ row.id \in Mails
    BY <1>6
  <2>3. /\ timeline' \in Seq(Event) /\ redacted' \subseteq Events' /\ DbTypes' /\ Grows
        /\ Len(timeline) + 1 \in Events' /\ Len(timeline) + 1 \in Nat
    BY <1>3, <2>1, <2>2
  <2>4. UNCHANGED <<stageVars, recreated>>
    BY <1>7 DEF SendMail
  <2>5. /\ notifier' \in NotifierRecord /\ notifier'.pc = "record mail"
        /\ notifier'.threads = notifier.threads
        /\ notifier'.mail = row.id /\ notifier'.id = Len(timeline) + 1
    BY <1>0, <2>1, <2>2, <2>3 DEF NotifierRecord, NotifierSteps
  <2>6. NotifierTypes'
    BY <1>0, <1>2, <2>2, <2>3, <2>5 DEF NotifierTypes, NotifierRecord
  <2> QED
    BY <1>0, <2>3, <2>4, <2>6, Stable DEF ChatTypes
<1>8. CASE AnswerLost
  <2>1. PICK row \in notifier.mails :
          timeline' = Append(timeline, MailEvent(row.id, row.room, row.root))
    BY <1>8 DEF AnswerLost, NextMails
  <2>2. /\ timeline' \in Seq(Event) /\ redacted' \subseteq Events' /\ DbTypes' /\ Grows
    BY <1>3, <1>6, <2>1
  <2>3. UNCHANGED recreated /\ CallAgain
    BY <1>8 DEF AnswerLost
  <2> QED
    BY <1>0, <2>2, <2>3, CallAgainTypes DEF ChatTypes
<1> QED
  BY <1>4, <1>5, <1>7, <1>8 DEF NotifierPosts

\* Its other actions: those that write to the database, or end a run.
NotifierWrites ==
    \/ RecordHead \/ RecordMail \/ ForgetHead \/ ForgetMails \/ ForgettingFails
    \/ SendFails \/ FinishNotification

LEMMA NotifierWritesTypes ==
  ASSUME Types, NotifierWrites
  PROVE  DbTypes' /\ Grows /\ StageTypes' /\ NotifierTypes' /\ ChatTypes'
<1> USE Names
<1>0. /\ StageTypes /\ DbTypes /\ NotifierTypes /\ ChatTypes
      /\ notifier \in NotifierRecord /\ timeline \in Seq(Event)
      /\ \A row \in notifier.threads : row.id \in Threads
  BY DEF Types, NotifierTypes, NotifierRecord, ChatTypes
<1>1. UNCHANGED matrixVars
  BY DEF NotifierWrites, RecordHead, RecordMail, ForgetHead, ForgetMails,
         ForgettingFails, SendFails, FinishNotification
<1>2. Events' = Events /\ Events \subseteq Nat /\ Threads \subseteq Nat
  BY <1>0, <1>1, EventsStay, EventsAreNumbers, ThreadsAreNumbers DEF matrixVars
<1>3. ASSUME NEW e \in Events
      PROVE  timeline[e].room \in Rooms \cup {None}
  <2>1. timeline[e] \in Event
    BY <1>0, EventsAreNumbers, ElementOfSeq
  <2> QED
    BY <2>1 DEF Event
<1>4. CASE RecordHead
  <2>1. notifier.id \in Events /\ notifier.head \in Threads
    BY <1>0, <1>4 DEF RecordHead, NAt, NotifierTypes
  <2>2. /\ UNCHANGED <<stageVars, recreated, mail>>
        /\ \/ UNCHANGED thread
           \/ UpdateThreadMatrixIds(notifier.head, timeline[notifier.id].room, notifier.id)
        /\ notifier' = [notifier EXCEPT !.pc = "link",
              !.touched = notifier.touched \cup GetOverviewRooms(timeline[notifier.id].room)]
    BY <1>4 DEF RecordHead
  <2>3. DbTypes' /\ Grows
    BY <1>0, <1>2, <1>3, <2>1, <2>2, NoStatement, ThreadIdsTypes DEF dbVars
  <2>4. /\ notifier' \in NotifierRecord /\ notifier'.pc = "link"
        /\ notifier'.threads = notifier.threads
        /\ notifier'.head = notifier.head /\ notifier'.id = notifier.id
    BY <1>0, <2>2, OverviewRoomsOfRoom DEF NotifierRecord, NotifierSteps
  <2>5. NotifierTypes'
    BY <1>0, <1>2, <2>1, <2>3, <2>4 DEF NotifierTypes, NotifierRecord, Grows
  <2> QED
    BY <1>1, <2>2, <2>3, <2>5, Stable
<1>5. CASE RecordMail
  <2>1. notifier.id \in Events /\ notifier.mail \in Mails
    BY <1>0, <1>5 DEF RecordMail, NAt, NotifierTypes
  <2>2. /\ UNCHANGED <<stageVars, recreated, thread>>
        /\ UNCHANGED mail \/ UpdateMailMatrixId(notifier.mail, notifier.id)
        /\ notifier' = [notifier EXCEPT !.pc = "send", !.mail = None, !.id = None,
              !.touched = notifier.touched \cup GetOverviewRooms(timeline[notifier.id].room)]
    BY <1>5 DEF RecordMail
  <2>3. DbTypes' /\ Grows
    BY <1>0, <1>2, <2>1, <2>2, NoStatement, MatrixIdTypes DEF dbVars
  <2>4. /\ notifier' \in NotifierRecord /\ notifier'.pc = "send"
        /\ notifier'.threads = notifier.threads
    BY <1>0, <2>2, OverviewRoomsOfRoom DEF NotifierRecord, NotifierSteps
  <2>5. NotifierTypes'
    BY <1>0, <2>3, <2>4 DEF NotifierTypes, NotifierRecord, Grows
  <2> QED
    BY <1>1, <2>2, <2>3, <2>5, Stable
<1>6. CASE ForgetHead
  <2>1. PICK t : RemoveThreadMatrixId(t)
    BY <1>6 DEF ForgetHead
  <2>2. /\ UNCHANGED <<stageVars, recreated, mail>>
        /\ notifier' = [notifier EXCEPT !.pc = "forget mails"]
    BY <1>6 DEF ForgetHead
  <2>3. DbTypes' /\ Grows
    BY <1>0, <1>2, <2>1, <2>2, ForgetHeadTypes
  <2>4. /\ notifier' \in NotifierRecord /\ notifier'.pc = "forget mails"
        /\ notifier'.threads = notifier.threads
    BY <1>0, <2>2 DEF NotifierRecord, NotifierSteps
  <2>5. NotifierTypes'
    BY <1>0, <2>3, <2>4 DEF NotifierTypes, NotifierRecord, Grows
  <2> QED
    BY <1>1, <2>2, <2>3, <2>5, Stable
<1>7. CASE ForgetMails
  <2>1. PICK row \in notifier.gone : /\ RemoveMailMatrixIdsByThread(row.thread)
                                     /\ Recreate(row.thread, row.room, row.root)
    BY <1>7 DEF ForgetMails
  <2>2. CallAgain /\ UNCHANGED thread
    BY <1>7 DEF ForgetMails
  <2>3. DbTypes' /\ Grows
    BY <1>0, <1>2, <2>1, <2>2, ForgetMailsTypes
  <2>4. row \in ReplyRow
    BY <1>0 DEF NotifierRecord
  <2>5. ChatTypes'
    BY <1>0, <1>1, <1>2, <2>1, <2>4 DEF ChatTypes, Recreate, ReplyRow, matrixVars
  <2> QED
    BY <1>0, <2>2, <2>3, <2>5, CallAgainTypes
<1>8. CASE ForgettingFails \/ SendFails
  <2>1. CallAgain /\ UNCHANGED <<recreated, matrixVars, dbVars>>
    BY <1>8 DEF ForgettingFails, SendFails
  <2>2. DbTypes' /\ Grows
    BY <1>0, <1>2, <2>1, NoStatement
  <2> QED
    BY <1>0, <2>1, <2>2, CallAgainTypes, Stable
<1>9. CASE FinishNotification
  <2>1. /\ QueueAll(notifier.touched) /\ LetGo("notification") /\ notifier' = IdleNotifier
        /\ UNCHANGED <<closed, recreated, matrixVars, dbVars>>
    BY <1>9 DEF FinishNotification
  <2>2. DbTypes' /\ Grows
    BY <1>0, <1>2, <2>1, NoStatement
  <2>3. notifier.touched \subseteq OverviewRooms
    BY <1>0 DEF NotifierRecord
  <2>4. StageTypes'
    BY <1>0, <2>1, <2>3, RequestTypes DEF QueueAll
  <2>5. NotifierTypes'
    BY <2>1 DEF NotifierTypes, IdleNotifier, NotifierSteps
  <2> QED
    BY <2>1, <2>2, <2>4, <2>5, Stable
<1> QED
  BY <1>4, <1>5, <1>6, <1>7, <1>8, <1>9 DEF NotifierWrites

LEMMA NotificationKeeps ==
  ASSUME Types,
         NotificationStage \/ MistakeHead \/ LoseAnswer \/ \E e \in Events : RemoveHead(e)
  PROVE  Types'
<1>1. UNCHANGED <<sortingVars, extractor, commandVars, pump, overviewVars>>
      /\ (UNCHANGED mishaps \/ mishaps' = mishaps + 1)
  BY DEF NotificationStage, MistakeHead, LoseAnswer, RemoveHead, Mishap
<1>2. PumpTypes'
  BY <1>1 DEF Types, PumpTypes
<1>3. ASSUME DbTypes' /\ Grows /\ StageTypes' /\ NotifierTypes' /\ ChatTypes'
      PROVE  Types'
  BY <1>1, <1>2, <1>3, Stable DEF Types
<1>4. CASE Notification \/ MistakeHeadForRedacted \/ AnswerLost
  <2>1. NotifierReads \/ NotifierPosts \/ NotifierWrites
    BY <1>4 DEF Notification, NotificationStep, NotificationFails, NotifierReads,
                NotifierPosts, NotifierWrites
  <2> QED
    BY <2>1, <1>3, NotifierReadsTypes, NotifierPostsTypes, NotifierWritesTypes
<1>5. ASSUME NEW e \in Events, Redact(e)
      PROVE  Types'
  <2>1. UNCHANGED <<timeline, stageVars, notifierVars, dbVars>>
        /\ redacted' = redacted \cup {e}
    BY <1>5 DEF Redact
  <2>2. Events' = Events
    BY <2>1, EventsStay
  <2>3. DbTypes' /\ Grows
    BY <2>1, <2>2, NoStatement DEF Types
  <2>4. ChatTypes'
    BY <2>1, <2>2 DEF Types, ChatTypes, notifierVars
  <2> QED
    BY <1>3, <2>1, <2>3, <2>4, Stable DEF notifierVars
<1> QED
  BY <1>4, <1>5 DEF NotificationStage, MistakeHead, LoseAnswer, RemoveHead
-----------------------------------------------------------------------------
(* The overview stages *)

Overviewer == [pc : OverviewerSteps, id : Nat \cup {None}, rows : SUBSET OverviewRow]

\* A step of the stage of o that leaves worker w, column i and messages b.
LEMMA OverviewStatement ==
  ASSUME OverviewTypes, NEW o \in OverviewRooms, NEW w \in Overviewer,
         NEW i \in Nat \cup {None}, NEW b \in Seq(OverviewMessage),
         overviewer' = [overviewer EXCEPT ![o] = w],
         overviewId' = [overviewId EXCEPT ![o] = i],
         board' = [board EXCEPT ![o] = b],
         w.id \in DOMAIN b \cup {None}, i \in DOMAIN b \cup {None}
  PROVE  OverviewTypes'
<1>1. /\ overviewer' \in [OverviewRooms -> Overviewer]
      /\ overviewId' \in [OverviewRooms -> Nat \cup {None}]
      /\ board' \in [OverviewRooms -> Seq(OverviewMessage)]
  BY DEF OverviewTypes, Overviewer
<1>2. \A p \in OverviewRooms :
        /\ overviewer'[p] = IF p = o THEN w ELSE overviewer[p]
        /\ overviewId'[p] = IF p = o THEN i ELSE overviewId[p]
        /\ board'[p] = IF p = o THEN b ELSE board[p]
  BY DEF OverviewTypes
<1>3. \A p \in OverviewRooms :
        {overviewer'[p].id, overviewId'[p]} \subseteq DOMAIN board'[p] \cup {None}
  BY <1>2 DEF OverviewTypes
<1> QED
  BY <1>1, <1>3 DEF OverviewTypes, Overviewer

\* What a run reads.
LEMMA ListedTypes ==
  ASSUME DbTypes, OverviewTypes, NEW o \in OverviewRooms
  PROVE  Listed(o) \in Overviewer /\ Listed(o).id \in {overviewId[o], None}
<1> USE Names
<1>1. OverviewThreads(o) \subseteq OverviewRow
  <2>1. \A t \in Threads : /\ t \in Nat /\ thread[t].room \in Rooms \cup {None}
                           /\ thread[t].first \in Mails
    <3>1. \A t \in Threads : t \in Nat /\ thread[t] \in ThreadRow
      BY ThreadsAreNumbers, ElementOfSeq DEF DbTypes
    <3> QED
      BY <3>1 DEF ThreadRow
  <2>2. \A m \in Mails : mail[m].matrix \in Nat \cup Commands \cup {None}
    BY DEF DbTypes, MailRow
  <2> QED
    BY <2>1, <2>2 DEF OverviewThreads, OverviewRow
<1>2. overviewId[o] \in Nat \cup {None}
  BY DEF OverviewTypes
<1> HIDE Names
<1>3. CASE o \in closed
  BY <1>3, <1>1, <1>2 DEF Listed, Overviewer, OverviewerSteps
<1>4. CASE o \notin closed
  BY <1>4, <1>1, <1>2 DEF Listed, Overviewer, OverviewerSteps
<1> QED
  BY <1>3, <1>4

LEMMA OverviewMoves ==
  ASSUME Types, NEW o \in OverviewRooms,
         \/ OverviewStep(o) \/ UpdateFails(o) \/ PostSecondOverview(o)
         \/ RemoveLargeOverview(o) \/ ResendThreadOverview(o)
  PROVE  UNCHANGED dbVars /\ StageTypes' /\ OverviewTypes'
<1> USE Names
<1> DEFINE ids == DOMAIN board[o]
<1>0. /\ StageTypes /\ DbTypes /\ OverviewTypes
      /\ overviewer \in [OverviewRooms -> Overviewer]
      /\ overviewId \in [OverviewRooms -> Nat \cup {None}]
      /\ board \in [OverviewRooms -> Seq(OverviewMessage)]
      /\ overviewer[o] \in Overviewer /\ board[o] \in Seq(OverviewMessage)
      /\ overviewer[o].id \in ids \cup {None} /\ overviewId[o] \in ids \cup {None}
      /\ overviewId[o] \in Nat \cup {None}
  BY DEF Types, OverviewTypes, Overviewer
<1>1. /\ UNCHANGED overviewer => overviewer' = [overviewer EXCEPT ![o] = overviewer[o]]
      /\ UNCHANGED overviewId => overviewId' = [overviewId EXCEPT ![o] = overviewId[o]]
      /\ UNCHANGED board => board' = [board EXCEPT ![o] = board[o]]
  BY <1>0
<1>2. ids = 1 .. Len(board[o]) /\ Len(board[o]) \in Nat
  BY <1>0, LenProperties
<1>3. Resting \in Overviewer /\ Resting.id = None
  BY DEF Resting, Overviewer, OverviewerSteps
<1>4. ASSUME NEW k \in ids, NEW e \in OverviewMessage
      PROVE  [board[o] EXCEPT ![k] = e] \in Seq(OverviewMessage)
             /\ DOMAIN [board[o] EXCEPT ![k] = e] = ids
  BY <1>0, <1>2, ExceptSeq
<1>5. ASSUME NEW k \in ids
      PROVE  board[o][k] \in OverviewMessage
  BY <1>0, <1>2, ElementOfSeq
<1>6. CASE ListOverviewThreads(o)
  <2>1. /\ TakeUp(o) /\ overviewer' = [overviewer EXCEPT ![o] = Listed(o)]
        /\ UNCHANGED <<overviewId, board, dbVars>>
    BY <1>6 DEF ListOverviewThreads
  <2>2. Listed(o) \in Overviewer /\ Listed(o).id \in {overviewId[o], None}
    BY <1>0, ListedTypes
  <2>3. OverviewTypes'
    BY <1>0, <1>1, <2>1, <2>2, OverviewStatement
  <2> QED
    BY <1>0, <2>1, <2>3, RequestTypes
<1>7. ASSUME EndRun(o), UNCHANGED <<queued, closed, dbVars>>
      PROVE  StageTypes' /\ overviewer' = [overviewer EXCEPT ![o] = Resting]
  BY <1>0, <1>7, RequestTypes DEF EndRun
<1>8. CASE EditThreadOverview(o)
  <2> DEFINE k == overviewer[o].id
             e == [board[o][k] EXCEPT !.shows = overviewer[o].rows]
             b == [board[o] EXCEPT ![k] = e]
  <2>1. /\ Posted(o) /\ EndRun(o) /\ UNCHANGED <<queued, closed, overviewId, dbVars>>
        /\ board' = [board EXCEPT ![o][k].shows = overviewer[o].rows]
    BY <1>8 DEF EditThreadOverview
  <2>2. k \in ids
    BY <1>0, <2>1 DEF Posted
  <2>3. e \in OverviewMessage
    BY <1>0, <1>5, <2>2 DEF OverviewMessage, Overviewer
  <2>4. board' = [board EXCEPT ![o] = b]
    BY <1>0, <2>1
  <2>5. b \in Seq(OverviewMessage) /\ DOMAIN b = ids
    BY <1>4, <2>2, <2>3
  <2> HIDE DEF b
  <2>6. /\ StageTypes' /\ overviewer' = [overviewer EXCEPT ![o] = Resting]
        /\ overviewId' = [overviewId EXCEPT ![o] = overviewId[o]]
    BY <1>1, <1>7, <2>1
  <2>7. OverviewTypes'
    BY <1>0, <1>3, <2>4, <2>5, <2>6, OverviewStatement
  <2> QED
    BY <2>1, <2>6, <2>7
<1>9. CASE PostMessage(o)
  <2> DEFINE e == [shows |-> overviewer[o].rows, removed |-> FALSE]
             w == [Resting EXCEPT !.pc = "record", !.id = Len(board[o]) + 1]
             b == Append(board[o], e)
  <2>1. /\ board' = [board EXCEPT ![o] = b] /\ overviewer' = [overviewer EXCEPT ![o] = w]
        /\ UNCHANGED <<stageVars, overviewId, dbVars>>
    BY <1>0, <1>9 DEF PostMessage
  <2>2. e \in OverviewMessage
    BY <1>0 DEF OverviewMessage, Overviewer
  <2>3. w \in Overviewer /\ w.id = Len(board[o]) + 1
    <3>1. Len(board[o]) + 1 \in Nat
      BY <1>2
    <3> QED
      BY <1>3, <3>1 DEF Overviewer, OverviewerSteps
  <2> HIDE DEF e, w
  <2>4. b \in Seq(OverviewMessage) /\ DOMAIN b = 1 .. Len(board[o]) + 1
    BY <1>0, <2>2, Longer
  <2> HIDE DEF b
  <2>5. w.id \in DOMAIN b \cup {None} /\ overviewId[o] \in DOMAIN b \cup {None}
    BY <1>0, <1>2, <2>3, <2>4
  <2>6. OverviewTypes'
    BY <1>0, <1>1, <2>1, <2>3, <2>4, <2>5, OverviewStatement
  <2> QED
    BY <1>0, <2>1, <2>6 DEF StageTypes, stageVars
<1>10. ASSUME NEW k \in ids, NEW w \in Overviewer, w.id \in ids \cup {None},
              board' = [board EXCEPT ![o][k].removed = TRUE],
              overviewer' = [overviewer EXCEPT ![o] = w], UNCHANGED overviewId
       PROVE  OverviewTypes'
  <2> DEFINE e == [board[o][k] EXCEPT !.removed = TRUE]
             b == [board[o] EXCEPT ![k] = e]
  <2>1. e \in OverviewMessage
    BY <1>5 DEF OverviewMessage
  <2>2. board' = [board EXCEPT ![o] = b]
    BY <1>0, <1>10
  <2>3. b \in Seq(OverviewMessage) /\ DOMAIN b = ids
    BY <1>4, <2>1
  <2> HIDE DEF b
  <2> QED
    BY <1>0, <1>1, <1>10, <2>2, <2>3, OverviewStatement
<1>11. CASE RemoveLargeOverview(o)
  <2>1. /\ Posted(o) /\ UNCHANGED <<stageVars, overviewId, dbVars>>
        /\ board' = [board EXCEPT ![o][overviewer[o].id].removed = TRUE]
        /\ overviewer' = [overviewer EXCEPT ![o].pc = "replace"]
    BY <1>11 DEF RemoveLargeOverview
  <2> DEFINE w == [overviewer[o] EXCEPT !.pc = "replace"]
  <2>2. w \in Overviewer /\ w.id = overviewer[o].id
    BY <1>0 DEF Overviewer, OverviewerSteps
  <2>3. overviewer' = [overviewer EXCEPT ![o] = w] /\ overviewer[o].id \in ids
    BY <1>0, <2>1 DEF Posted
  <2>4. OverviewTypes'
    BY <1>10, <2>1, <2>2, <2>3
  <2> QED
    BY <1>0, <2>1, <2>4 DEF StageTypes, stageVars
<1>12. CASE UpdateFails(o)
  <2>1. /\ UNCHANGED <<queued, closed, overviewId, board, dbVars>>
        /\ \/ EndRun(o)
           \/ /\ UNCHANGED waiting
              /\ overviewer' = [overviewer EXCEPT ![o] = Listed(o)]
    BY <1>12, Zenon DEF UpdateFails
  <2>2. CASE EndRun(o)
    <3>1. StageTypes' /\ overviewer' = [overviewer EXCEPT ![o] = Resting]
      BY <1>7, <2>1, <2>2
    <3>2. /\ overviewId' = [overviewId EXCEPT ![o] = overviewId[o]]
          /\ board' = [board EXCEPT ![o] = board[o]]
      BY <1>1, <2>1
    <3>3. OverviewTypes'
      BY <1>0, <1>3, <3>1, <3>2, OverviewStatement
    <3> QED
      BY <2>1, <3>1, <3>3
  <2>3. CASE UNCHANGED waiting /\ overviewer' = [overviewer EXCEPT ![o] = Listed(o)]
    <3>1. Listed(o) \in Overviewer /\ Listed(o).id \in {overviewId[o], None}
      BY <1>0, ListedTypes
    <3>2. OverviewTypes'
      BY <1>0, <1>1, <2>1, <2>3, <3>1, OverviewStatement
    <3> QED
      BY <1>0, <2>1, <2>3, <3>2 DEF StageTypes
  <2> QED
    BY <2>1, <2>2, <2>3
<1>13. CASE OverviewMessageUpdated(o)
  <2>1. /\ UNCHANGED <<queued, closed, board, dbVars>> /\ EndRun(o)
        /\ \/ UNCHANGED overviewId
           \/ overviewId' = [overviewId EXCEPT ![o] = overviewer[o].id]
    BY <1>13 DEF OverviewMessageUpdated
  <2>2. PICK i \in {overviewId[o], overviewer[o].id} :
          overviewId' = [overviewId EXCEPT ![o] = i]
    BY <1>1, <2>1
  <2>3. i \in Nat \cup {None} /\ i \in ids \cup {None}
    BY <1>0 DEF Overviewer
  <2>4. OverviewTypes'
    BY <1>0, <1>1, <1>3, <1>7, <2>1, <2>2, <2>3, OverviewStatement
  <2> QED
    BY <1>7, <2>1, <2>4
<1>14. CASE ResendThreadOverview(o)
  <2>1. /\ overviewId[o] # None /\ QueueWork(o) /\ UNCHANGED <<overviewer, overviewId, dbVars>>
        /\ board' = [board EXCEPT ![o][overviewId[o]].removed = TRUE]
    BY <1>14 DEF ResendThreadOverview
  <2>2. overviewId[o] \in ids
    BY <1>0, <2>1
  <2>3. OverviewTypes'
    BY <1>0, <1>1, <1>10, <2>1, <2>2
  <2> QED
    BY <1>0, <2>1, <2>3, RequestTypes
<1> QED
  BY <1>6, <1>8, <1>9, <1>11, <1>12, <1>13, <1>14
     DEF OverviewStep, PostThreadOverview, PostSecondOverview

LEMMA OverviewsKeep ==
  ASSUME Types, NEW o \in OverviewRooms,
         OverviewStage(o) \/ OverviewFails(o) \/ RepostOverview(o) \/ Resend(o)
  PROVE  Types'
<1>1. /\ UNCHANGED others /\ (UNCHANGED mishaps \/ mishaps' = mishaps + 1)
      /\ \/ OverviewStep(o) \/ UpdateFails(o) \/ PostSecondOverview(o)
         \/ RemoveLargeOverview(o) \/ ResendThreadOverview(o)
  BY DEF OverviewStage, OverviewFails, RepostOverview, Resend, Mishap
<1>2. UNCHANGED dbVars /\ StageTypes' /\ OverviewTypes'
  BY <1>1, OverviewMoves
<1>3. UNCHANGED <<sortingVars, extractor, notifierVars, matrixVars, commandVars, pump>>
  BY <1>1 DEF others
<1>4. Events' = Events
  BY <1>3, EventsStay DEF matrixVars
<1>5. DbTypes' /\ Grows
  BY <1>2, <1>4, NoStatement DEF Types
<1>6. PumpTypes'
  BY <1>1, <1>3 DEF Types, PumpTypes
<1> QED
  BY <1>2, <1>3, <1>5, <1>6, Stable DEF Types, notifierVars
-----------------------------------------------------------------------------
(* The commands *)

CommandRecord ==
    [pc : CommandSteps, event : Nat \cup {None}, room : Rooms \cup {None},
     thread : Nat \cup {None}, tries : Nat]

LEMMA CommandStatement ==
  ASSUME CommandTypes, Grows, NEW c \in Commands, NEW w \in CommandRecord,
         cmd' = [cmd EXCEPT ![c] = w], w.thread \in Threads \cup {None},
         w.pc \in ReplySteps => w.tries \in 1 .. Len(ReplyMails[c]),
         w.pc \in {"extracted", "sort", "touch", "record"} =>
            ReplyMails[c][w.tries] \in Stored',
         sent' \subseteq Mails, mailbox' \subseteq Mails
  PROVE  CommandTypes'
<1>1. cmd' \in [Commands -> CommandRecord]
  BY DEF CommandTypes, CommandRecord
<1>2. \A d \in Commands : cmd'[d] = IF d = c THEN w ELSE cmd[d]
  BY DEF CommandTypes
<1>3. \A d \in Commands :
        /\ cmd'[d].thread \in Threads' \cup {None}
        /\ cmd'[d].pc \in ReplySteps => cmd'[d].tries \in 1 .. Len(ReplyMails[d])
        /\ cmd'[d].pc \in {"extracted", "sort", "touch", "record"} =>
            ReplyMails[d][cmd'[d].tries] \in Stored'
  <2> SUFFICES ASSUME NEW d \in Commands
               PROVE  /\ cmd'[d].thread \in Threads' \cup {None}
                      /\ cmd'[d].pc \in ReplySteps =>
                            cmd'[d].tries \in 1 .. Len(ReplyMails[d])
                      /\ cmd'[d].pc \in {"extracted", "sort", "touch", "record"} =>
                            ReplyMails[d][cmd'[d].tries] \in Stored'
    OBVIOUS
  <2>1. CASE d = c
    BY <1>2, <2>1 DEF Grows
  <2>2. CASE d # c
    BY <1>2, <2>2 DEF Grows, CommandTypes, NewMail
  <2> QED
    BY <2>1, <2>2
<1> QED
  BY <1>1, <1>3 DEF CommandTypes, CommandRecord, NewMail

LEMMA CommandFacts ==
  ASSUME CommandTypes, NEW c \in Commands
  PROVE  /\ cmd[c] \in CommandRecord /\ cmd[c].thread \in Threads \cup {None}
         /\ cmd[c].room \in Rooms \cup {None} /\ cmd[c].tries \in Nat
         /\ cmd[c].event \in Nat \cup {None}
         /\ cmd[c].pc \in ReplySteps => cmd[c].tries \in 1 .. Len(ReplyMails[c])
         /\ cmd[c].pc \in ReplySteps => NewMail(c) \in Mails
         /\ ReplyMails[c] \in Seq(Mails) /\ Len(ReplyMails[c]) \in Nat
         /\ sent \subseteq Mails /\ mailbox \subseteq Mails
<1>1. cmd[c] \in CommandRecord
  BY DEF CommandTypes, CommandRecord
<1>2. ReplyMails[c] \in Seq(Mails)
  BY CommandAssumption
<1>3. Len(ReplyMails[c]) \in Nat
  BY <1>2, LenProperties
<1>4. cmd[c].pc \in ReplySteps => NewMail(c) \in Mails
  BY <1>2, ElementOfSeq DEF CommandTypes, NewMail
<1> QED
  BY <1>1, <1>2, <1>3, <1>4 DEF CommandTypes, CommandRecord

LEMMA StepTypes ==
  ASSUME CommandTypes, Grows, NEW c \in Commands, NEW step \in CommandSteps,
         Step(c, step), sent' \subseteq Mails, mailbox' \subseteq Mails,
         step \in ReplySteps => cmd[c].pc \in ReplySteps,
         step \in {"extracted", "sort", "touch", "record"} => NewMail(c) \in Stored'
  PROVE  CommandTypes'
<1> DEFINE w == [cmd[c] EXCEPT !.pc = step]
<1>1. cmd[c] \in CommandRecord /\ cmd \in [Commands -> CommandRecord]
  BY DEF CommandTypes, CommandRecord
<1>2. /\ w \in CommandRecord /\ w.pc = step /\ w.thread = cmd[c].thread
      /\ w.tries = cmd[c].tries
  BY <1>1 DEF CommandRecord
<1>3. cmd' = [cmd EXCEPT ![c] = w]
  BY <1>1 DEF Step
<1>4. ReplyMails[c][w.tries] = NewMail(c)
  BY <1>2 DEF NewMail
<1> HIDE DEF w
<1> QED
  BY <1>2, <1>3, <1>4, CommandFacts, CommandStatement

\* A command that has ended, or does not begin.
LEMMA IdleTypes ==
  ASSUME CommandTypes, Grows, NEW c \in Commands, NEW n \in Nat,
         cmd' = [cmd EXCEPT ![c] = [NewCommand EXCEPT !.tries = n]],
         UNCHANGED <<sent, mailbox>>
  PROVE  CommandTypes'
<1> USE Names
<1> DEFINE w == [NewCommand EXCEPT !.tries = n]
<1>1. w \in CommandRecord /\ w.pc = "idle" /\ w.thread = None
  BY DEF NewCommand, CommandRecord, CommandSteps
<1>2. w.pc \notin ReplySteps /\ w.pc \notin {"extracted", "sort", "touch", "record"}
  BY <1>1 DEF ReplySteps
<1> HIDE DEF w
<1> QED
  BY <1>1, <1>2, CommandFacts, CommandStatement DEF w

LEMMA FinishTypes ==
  ASSUME CommandTypes, Grows, NEW c \in Commands, Finish(c), UNCHANGED <<sent, mailbox>>
  PROVE  CommandTypes'
BY CommandFacts, IdleTypes DEF Finish

LEMMA MutexTypes ==
  ASSUME SorterTypes, Grows, UNCHANGED sorter,
         sortingMutex' \in {sortingMutex, None} \cup Commands
  PROVE  SorterTypes'
BY DEF SorterTypes, Grows

\* What a step of a command has to keep, the rest it leaves alone.
CommandGoal ==
    /\ DbTypes' /\ Grows /\ StageTypes' /\ SorterTypes' /\ CommandTypes' /\ ChatTypes'
    /\ UNCHANGED <<notifier, matrixVars>>

LEMMA IssueTypes ==
  ASSUME Types, NEW c \in Commands, NEW e \in Events, Issue(c, e)
  PROVE  CommandGoal
<1> USE Names
<1>0. /\ StageTypes /\ DbTypes /\ SorterTypes /\ CommandTypes /\ ChatTypes
      /\ cmd[c] \in CommandRecord /\ cmd[c].tries \in Nat
      /\ ReplyMails[c] \in Seq(Mails) /\ Len(ReplyMails[c]) \in Nat
      /\ sent \subseteq Mails /\ mailbox \subseteq Mails
      /\ cmd \in [Commands -> CommandRecord]
  BY CommandFacts DEF Types, CommandTypes, CommandRecord
<1>1. UNCHANGED <<sortingVars, notifierVars, matrixVars, sent, mailbox>>
  BY DEF Issue, SetThreadState, MoveStart, ReplyStart
<1>2. Events' = Events
  BY <1>1, EventsStay DEF matrixVars
<1>3. timeline[e] \in Event /\ timeline[e].room \in Rooms \cup {None} /\ e \in Nat
  <2>1. timeline[e] \in Event /\ e \in Nat
    BY <1>0, EventsAreNumbers, ElementOfSeq DEF ChatTypes
  <2> QED
    BY <2>1 DEF Event
<1>4. ASSUME DbTypes' /\ Grows /\ StageTypes' /\ CommandTypes'
      PROVE  CommandGoal
  <2>1. SorterTypes' /\ ChatTypes'
    BY <1>1, <1>4, Stable DEF notifierVars
  <2> QED
    BY <1>1, <1>4, <2>1 DEF CommandGoal, notifierVars
<1>5. CASE SetThreadState(c, e)
  <2>1. UNCHANGED mail /\ UpdateThreadEnabled(timeline[e].room, e, Enables(c), Forces(c))
    BY <1>5 DEF SetThreadState
  <2>2. Enables(c) \in BOOLEAN /\ Forces(c) \in BOOLEAN \cup {None}
    BY DEF Enables, Forces
  <2>3. DbTypes' /\ Grows
    BY <1>0, <1>2, <2>1, <2>2, EnabledTypes
  <2>4. UNCHANGED stageVars \/ QueueOverviewUpdate(timeline[e].room, c)
    BY <1>5 DEF SetThreadState
  <2>5. StageTypes'
    <3>1. GetOverviewRooms(timeline[e].room) \in SUBSET ({"notification"} \cup OverviewRooms)
      BY OverviewRoomsOfRoom
    <3> QED
      BY <1>0, <2>3, <2>4, <3>1, Stable, RequestTypes DEF QueueOverviewUpdate
  <2>6. PICK pc \in {"idle", "wait"} :
          cmd' = [cmd EXCEPT ![c] = [NewCommand EXCEPT !.tries = 1,
                                        !.room = timeline[e].room, !.pc = pc]]
    BY <1>5 DEF SetThreadState
  <2> DEFINE w == [NewCommand EXCEPT !.tries = 1, !.room = timeline[e].room, !.pc = pc]
  <2>7. w \in CommandRecord /\ w.pc \in {"idle", "wait"} /\ w.thread = None
    BY <1>3 DEF NewCommand, CommandRecord, CommandSteps
  <2>8. w.pc \notin ReplySteps /\ w.pc \notin {"extracted", "sort", "touch", "record"}
    BY <2>7 DEF ReplySteps
  <2>9. cmd' = [cmd EXCEPT ![c] = w]
    BY <2>6
  <2> HIDE DEF w
  <2>10. CommandTypes'
    BY <1>0, <1>1, <2>3, <2>7, <2>8, <2>9, CommandStatement
  <2> QED
    BY <1>4, <2>3, <2>5, <2>10
<1>6. CASE MoveStart(c, e)
  <2>1. UNCHANGED <<dbVars, stageVars>>
    BY <1>6 DEF MoveStart
  <2>2. DbTypes' /\ Grows
    BY <1>0, <1>2, <2>1, NoStatement
  <2>3. StageTypes'
    BY <2>1, <2>2, Stable
  <2>4. ASSUME NEW w \in CommandRecord, cmd' = [cmd EXCEPT ![c] = w],
               w.pc \in {"idle", "forget head"}, w.thread \in Threads \cup {None}
        PROVE  CommandGoal
    <3>1. w.pc \notin ReplySteps /\ w.pc \notin {"extracted", "sort", "touch", "record"}
      BY <2>4 DEF ReplySteps
    <3>2. CommandTypes'
      BY <1>0, <1>1, <2>2, <2>4, <3>1, CommandStatement
    <3> QED
      BY <1>4, <2>2, <2>3, <3>2
  <2>5. CASE cmd' = [cmd EXCEPT ![c].tries = 1]
    <3> DEFINE w == [cmd[c] EXCEPT !.tries = 1]
    <3>1. w \in CommandRecord /\ w.pc = cmd[c].pc /\ w.thread = cmd[c].thread
      BY <1>0 DEF CommandRecord
    <3>2. cmd[c].pc = "idle" /\ cmd[c].thread \in Threads \cup {None}
      BY <1>0, <1>6, CommandFacts DEF MoveStart
    <3>3. cmd' = [cmd EXCEPT ![c] = w]
      BY <1>0, <2>5
    <3> HIDE DEF w
    <3> QED
      BY <2>4, <3>1, <3>2, <3>3
  <2>6. ASSUME NEW t \in ThreadsByMatrixId(e),
               cmd' = [cmd EXCEPT ![c] = [pc |-> "forget head", event |-> e,
                            room |-> timeline[e].room, thread |-> t, tries |-> 1]]
        PROVE  CommandGoal
    <3> DEFINE w == [pc |-> "forget head", event |-> e, room |-> timeline[e].room,
                     thread |-> t, tries |-> 1]
    <3>1. t \in Threads /\ t \in Nat
      BY <1>0, ThreadsAreNumbers DEF ThreadsByMatrixId
    <3>2. w \in CommandRecord /\ w.pc = "forget head" /\ w.thread = t
      BY <1>3, <3>1 DEF CommandRecord, CommandSteps
    <3>3. cmd' = [cmd EXCEPT ![c] = w]
      BY <2>6
    <3> HIDE DEF w
    <3> QED
      BY <2>4, <3>1, <3>2, <3>3
  <2> QED
    BY <1>6, <2>5, <2>6 DEF MoveStart
<1>7. CASE ReplyStart(c, e)
  <2>1. UNCHANGED <<dbVars, stageVars>>
    BY <1>7 DEF ReplyStart
  <2>2. DbTypes' /\ Grows
    BY <1>0, <1>2, <2>1, NoStatement
  <2>3. StageTypes'
    BY <2>1, <2>2, Stable
  <2> DEFINE n == cmd[c].tries + 1
             w == [NewCommand EXCEPT !.tries = cmd[c].tries + 1, !.event = e,
                                     !.pc = "find original", !.room = timeline[e].room]
  <2>4. n \in Nat /\ n \in 1 .. Len(ReplyMails[c])
    BY <1>0, <1>7 DEF ReplyStart
  <2>5. CASE cmd' = [cmd EXCEPT ![c] = [NewCommand EXCEPT !.tries = n]]
    BY <1>0, <1>1, <1>4, <2>2, <2>3, <2>4, <2>5, IdleTypes
  <2>6. CASE cmd' = [cmd EXCEPT ![c] = w]
    <3>1. /\ w \in CommandRecord /\ w.pc = "find original" /\ w.thread = None
          /\ w.tries = n
      BY <1>3, <2>4 DEF NewCommand, CommandRecord, CommandSteps
    <3> HIDE DEF w
    <3>2. CommandTypes'
      BY <1>0, <1>1, <2>2, <2>4, <2>6, <3>1, CommandStatement
    <3> QED
      BY <1>4, <2>2, <2>3, <3>2
  <2> QED
    BY <1>7, <2>5, <2>6 DEF ReplyStart
<1> QED
  BY <1>5, <1>6, <1>7 DEF Issue

LEMMA MoveTypes ==
  ASSUME Types, NEW c \in Commands,
         \/ MoveForgetHead(c) \/ MoveForgetMails(c) \/ MoveRehome(c) \/ MoveRequest(c)
  PROVE  CommandGoal
<1> USE Names
<1>0. /\ StageTypes /\ DbTypes /\ SorterTypes /\ CommandTypes /\ ChatTypes
      /\ cmd[c] \in CommandRecord /\ sent \subseteq Mails /\ mailbox \subseteq Mails
      /\ cmd[c].room \in Rooms \cup {None} /\ cmd[c].thread \in Nat \cup {None}
      /\ cmd[c].event \in Nat \cup {None}
  BY CommandFacts DEF Types, CommandRecord
<1>1. UNCHANGED <<sortingVars, notifier, matrixVars, sent, mailbox>>
  BY DEF MoveForgetHead, MoveForgetMails, MoveRehome, MoveRequest, notifierVars
<1>2. Events' = Events /\ Events \subseteq Nat
  BY <1>0, <1>1, EventsStay, EventsAreNumbers DEF matrixVars
<1>3. PICK step \in {"forget mails", "rehome", "request", "wait"} : Step(c, step)
  BY DEF MoveForgetHead, MoveForgetMails, MoveRehome, MoveRequest
<1>4. step \in CommandSteps /\ step \notin ReplySteps
      /\ step \notin {"extracted", "sort", "touch", "record"}
  BY <1>3 DEF CommandSteps, ReplySteps
<1>5. ASSUME DbTypes' /\ Grows /\ StageTypes' /\ ChatTypes'
      PROVE  CommandGoal
  <2>1. SorterTypes'
    BY <1>1, <1>5, Stable
  <2>2. CommandTypes'
    BY <1>0, <1>1, <1>3, <1>4, <1>5, StepTypes
  <2> QED
    BY <1>1, <1>5, <2>1, <2>2 DEF CommandGoal
<1>6. CASE MoveForgetHead(c) \/ MoveForgetMails(c) \/ MoveRehome(c)
  <2>1. UNCHANGED <<stageVars, recreated>>
    BY <1>6 DEF MoveForgetHead, MoveForgetMails, MoveRehome, notifierVars
  <2>2. CASE MoveForgetHead(c)
    <3>1. UNCHANGED mail /\ RemoveThreadMatrixId(cmd[c].thread)
      BY <2>2 DEF MoveForgetHead
    <3>2. DbTypes' /\ Grows
      BY <1>0, <1>2, <3>1, ForgetHeadTypes
    <3> QED
      BY <1>1, <1>5, <2>1, <3>2, Stable
  <2>3. CASE MoveForgetMails(c)
    <3>1. UNCHANGED thread /\ RemoveMailMatrixIdsByThread(cmd[c].thread)
      BY <2>3 DEF MoveForgetMails
    <3>2. DbTypes' /\ Grows
      BY <1>0, <1>2, <3>1, ForgetMailsTypes
    <3> QED
      BY <1>1, <1>5, <2>1, <3>2, Stable
  <2>4. CASE MoveRehome(c)
    <3>1. UNCHANGED mail /\ UpdateThreadMatrixIds(cmd[c].thread, MoveTo[c], None)
      BY <2>4 DEF MoveRehome
    <3>2. MoveTo[c] \in Rooms \cup {None}
      BY CommandAssumption
    <3>3. DbTypes' /\ Grows
      BY <1>0, <1>2, <3>1, <3>2, ThreadIdsTypes
    <3> QED
      BY <1>1, <1>5, <2>1, <3>3, Stable
  <2> QED
    BY <1>6, <2>2, <2>3, <2>4
<1>7. CASE MoveRequest(c)
  <2>1. /\ UNCHANGED dbVars /\ Recreate(cmd[c].thread, cmd[c].room, cmd[c].event)
        /\ QueueWorkBlocking({"notification"} \cup GetOverviewRooms(cmd[c].room), c)
    BY <1>7 DEF MoveRequest
  <2>2. DbTypes' /\ Grows
    BY <1>0, <1>2, <2>1, NoStatement
  <2>3. {"notification"} \cup GetOverviewRooms(cmd[c].room)
            \in SUBSET ({"notification"} \cup OverviewRooms)
    BY OverviewRoomsOfRoom
  <2>4. StageTypes'
    BY <1>0, <2>1, <2>3, RequestTypes
  <2>5. ChatTypes'
    <3> DEFINE entry == [thread |-> cmd[c].thread, room |-> cmd[c].room,
                         root |-> cmd[c].event]
    <3>1. entry \in [thread : Nat \cup {None}, room : Rooms \cup {None},
                    root : Nat \cup {None}]
      BY <1>0
    <3>2. recreated' \subseteq recreated \cup {entry}
      BY <2>1 DEF Recreate
    <3> HIDE DEF entry
    <3> QED
      BY <1>0, <1>1, <1>2, <3>1, <3>2 DEF ChatTypes, matrixVars
  <2> QED
    BY <1>5, <2>2, <2>4, <2>5
<1> QED
  BY <1>6, <1>7

\* The steps of a reply.
ReplyStep(c) ==
    \/ ReplyFindOriginal(c) \/ ReplyLock(c) \/ ReplySend(c) \/ ReplySendFails(c)
    \/ ReplyStore(c) \/ ReplyAddMail(c) \/ ReplySetMessages(c) \/ ReplyJoinThread(c)
    \/ ReplyTouchThread(c) \/ ReplyRecord(c)

LEMMA ReplyTypes ==
  ASSUME Types, NEW c \in Commands, ReplyStep(c) \/ StagesAnswer(c)
  PROVE  CommandGoal
<1> USE Names
<1>0. /\ StageTypes /\ DbTypes /\ SorterTypes /\ CommandTypes /\ ChatTypes
      /\ cmd[c] \in CommandRecord /\ sent \subseteq Mails /\ mailbox \subseteq Mails
      /\ cmd[c].room \in Rooms \cup {None} /\ cmd[c].thread \in Threads \cup {None}
      /\ cmd[c].pc \in ReplySteps => NewMail(c) \in Mails
      /\ cmd \in [Commands -> CommandRecord]
  BY CommandFacts DEF Types, CommandTypes, CommandRecord
<1>1. UNCHANGED <<sorter, notifierVars, matrixVars>>
  BY DEF ReplyStep, ReplyFindOriginal, ReplyLock, ReplySend, ReplySendFails, ReplyStore,
         ReplyAddMail, ReplySetMessages, ReplyJoinThread, ReplyTouchThread, ReplyRecord,
         StagesAnswer, sortingVars
<1>2. Events' = Events /\ Events \subseteq Nat
  BY <1>0, <1>1, EventsStay, EventsAreNumbers DEF matrixVars
<1>3. ASSUME DbTypes' /\ Grows /\ StageTypes' /\ CommandTypes',
             sortingMutex' \in {sortingMutex, None} \cup Commands
      PROVE  CommandGoal
  <2>1. SorterTypes'
    BY <1>0, <1>1, <1>3, MutexTypes
  <2>2. ChatTypes'
    BY <1>1, <1>3, Stable DEF notifierVars
  <2> QED
    BY <1>1, <1>3, <2>1, <2>2 DEF CommandGoal, notifierVars
<1>4. ASSUME UNCHANGED <<dbVars, stageVars>>
      PROVE  DbTypes' /\ Grows /\ StageTypes'
  <2>1. DbTypes' /\ Grows
    BY <1>0, <1>2, <1>4, NoStatement
  <2> QED
    BY <1>4, <2>1, Stable
<1>5. CASE ReplyFindOriginal(c)
  <2>1. UNCHANGED <<dbVars, stageVars, sortingMutex, sent, mailbox>>
        /\ cmd[c].pc = "find original"
    BY <1>5 DEF ReplyFindOriginal, sortingVars
  <2>2. CASE Finish(c)
    BY <1>0, <1>3, <1>4, <2>1, <2>2, FinishTypes
  <2>3. ASSUME NEW original \in MailsByMatrixId(cmd[c].event),
               cmd' = [cmd EXCEPT ![c].pc = "lock", ![c].thread = mail[original].thread]
        PROVE  CommandGoal
    <3> DEFINE t == mail[original].thread
               w == [cmd[c] EXCEPT !.pc = "lock", !.thread = t]
    <3>1. t \in Threads \cup {None} /\ t \in Nat \cup {None}
      BY <1>0, ThreadsAreNumbers DEF MailsByMatrixId, Stored, DbTypes
    <3>2. cmd' = [cmd EXCEPT ![c] = w]
      BY <1>0, <2>3
    <3> HIDE DEF t
    <3>3. w \in CommandRecord /\ w.pc = "lock" /\ w.thread = t /\ w.tries = cmd[c].tries
      BY <1>0, <3>1 DEF CommandRecord, CommandSteps
    <3>4. cmd[c].tries \in 1 .. Len(ReplyMails[c])
      BY <1>0, <2>1 DEF CommandTypes, ReplySteps
    <3> HIDE DEF w
    <3>5. CommandTypes'
      BY <1>0, <1>4, <2>1, <3>1, <3>2, <3>3, <3>4, CommandStatement
    <3> QED
      BY <1>3, <1>4, <2>1, <3>5
  <2> QED
    BY <1>5, <2>2, <2>3 DEF ReplyFindOriginal
<1>6. CASE ReplyLock(c)
  <2>1. /\ UNCHANGED <<dbVars, stageVars, sent, mailbox>> /\ sortingMutex' = c
        /\ Step(c, "send") /\ cmd[c].pc = "lock"
    BY <1>6 DEF ReplyLock
  <2>2. CommandTypes'
    BY <1>0, <1>4, <2>1, StepTypes DEF CommandSteps, ReplySteps
  <2> QED
    BY <1>3, <1>4, <2>1, <2>2
<1>7. CASE ReplySend(c)
  <2>1. /\ UNCHANGED <<dbVars, stageVars, sortingMutex, mailbox>>
        /\ sent' = sent \cup {NewMail(c)} /\ Step(c, "store") /\ cmd[c].pc = "send"
    BY <1>7 DEF ReplySend, sortingVars
  <2>2. NewMail(c) \in Mails
    BY <1>0, <2>1 DEF ReplySteps
  <2>3. CommandTypes'
    BY <1>0, <1>4, <2>1, <2>2, StepTypes DEF CommandSteps, ReplySteps
  <2> QED
    BY <1>3, <1>4, <2>1, <2>3
<1>8. CASE ReplySendFails(c)
  <2>1. /\ UNCHANGED <<dbVars, stageVars, sent, mailbox>> /\ sortingMutex' = None
        /\ Finish(c)
    BY <1>8 DEF ReplySendFails
  <2>2. CommandTypes'
    BY <1>0, <1>4, <2>1, FinishTypes
  <2> QED
    BY <1>3, <1>4, <2>1, <2>2
<1>9. CASE ReplyStore(c)
  <2>1. /\ UNCHANGED <<dbVars, stageVars, sortingMutex, sent>>
        /\ mailbox' \in {mailbox, mailbox \cup {NewMail(c)}}
        /\ Step(c, "add") /\ cmd[c].pc = "store"
    BY <1>9 DEF ReplyStore, sortingVars
  <2>2. NewMail(c) \in Mails
    BY <1>0, <2>1 DEF ReplySteps
  <2>3. CommandTypes'
    BY <1>0, <1>4, <2>1, <2>2, StepTypes DEF CommandSteps, ReplySteps
  <2> QED
    BY <1>3, <1>4, <2>1, <2>3
<1>10. CASE ReplyAddMail(c)
  <2>1. /\ UNCHANGED <<thread, stageVars, sortingMutex, sent, mailbox>>
        /\ AddMail(NewMail(c), FALSE) /\ Step(c, "extracted") /\ cmd[c].pc = "add"
    BY <1>10 DEF ReplyAddMail, sortingVars
  <2>2. NewMail(c) \in Mails
    BY <1>0, <2>1 DEF ReplySteps
  <2>3. DbTypes' /\ Grows /\ NewMail(c) \in Stored'
    BY <1>0, <1>2, <2>1, <2>2, AddMailTypes
  <2>4. CommandTypes'
    BY <1>0, <2>1, <2>3, StepTypes DEF CommandSteps, ReplySteps
  <2> QED
    BY <1>3, <2>1, <2>3, <2>4, Stable
<1>11. CASE ReplySetMessages(c)
  <2>1. /\ UNCHANGED <<thread, stageVars, sortingMutex, sent, mailbox>>
        /\ UpdateExtractedMessages(NewMail(c)) /\ Step(c, "sort") /\ cmd[c].pc = "extracted"
    BY <1>11 DEF ReplySetMessages, sortingVars
  <2>2. NewMail(c) \in Mails /\ NewMail(c) \in Stored
    BY <1>0, <2>1 DEF ReplySteps, CommandTypes
  <2>3. DbTypes' /\ Grows
    BY <1>0, <1>2, <2>1, <2>2, MarkSortedTypes
  <2>4. CommandTypes'
    BY <1>0, <2>1, <2>2, <2>3, StepTypes DEF CommandSteps, ReplySteps, Grows
  <2> QED
    BY <1>3, <2>1, <2>3, <2>4, Stable
<1>12. CASE ReplyJoinThread(c)
  <2>1. /\ UNCHANGED <<thread, stageVars, sortingMutex, sent, mailbox>>
        /\ UpdateMailSorting(NewMail(c), cmd[c].thread, mail[NewMail(c)].replyTo)
        /\ Step(c, "touch") /\ cmd[c].pc = "sort"
    BY <1>12 DEF ReplyJoinThread, sortingVars
  <2>2. NewMail(c) \in Mails /\ NewMail(c) \in Stored
    BY <1>0, <2>1 DEF ReplySteps, CommandTypes
  <2>3. DbTypes' /\ Grows
    BY <1>0, <1>2, <2>1, <2>2, SortingTypes
  <2>4. CommandTypes'
    BY <1>0, <2>1, <2>2, <2>3, StepTypes DEF CommandSteps, ReplySteps, Grows
  <2> QED
    BY <1>3, <2>1, <2>3, <2>4, Stable
<1>13. CASE ReplyTouchThread(c)
  <2>1. /\ UNCHANGED <<mail, stageVars, sortingMutex, sent, mailbox>>
        /\ UpdateThreadLastMail(cmd[c].thread, NewMail(c))
        /\ Step(c, "record") /\ cmd[c].pc = "touch"
    BY <1>13 DEF ReplyTouchThread, sortingVars
  <2>2. NewMail(c) \in Stored
    BY <1>0, <2>1 DEF CommandTypes
  <2>3. DbTypes' /\ Grows
    BY <1>0, <1>2, <2>1, <2>2, LastMailTypes
  <2>4. CommandTypes'
    BY <1>0, <2>1, <2>2, <2>3, StepTypes DEF CommandSteps, ReplySteps, Grows
  <2> QED
    BY <1>3, <2>1, <2>3, <2>4, Stable
<1>14. CASE ReplyRecord(c)
  <2>1. /\ UNCHANGED <<thread, sortingMutex, sent, mailbox>>
        /\ UpdateMailMatrixId(NewMail(c), c) /\ QueueOverviewUpdate(cmd[c].room, c)
        /\ Step(c, "wait") /\ cmd[c].pc = "record"
    BY <1>14 DEF ReplyRecord, sortingVars
  <2>2. NewMail(c) \in Mails
    BY <1>0, <2>1 DEF ReplySteps
  <2>3. DbTypes' /\ Grows
    BY <1>0, <1>2, <2>1, <2>2, MatrixIdTypes
  <2>4. StageTypes'
    <3>1. GetOverviewRooms(cmd[c].room) \in SUBSET ({"notification"} \cup OverviewRooms)
      BY OverviewRoomsOfRoom
    <3> QED
      BY <1>0, <2>1, <3>1, RequestTypes DEF QueueOverviewUpdate
  <2>5. CommandTypes'
    BY <1>0, <2>1, <2>3, StepTypes DEF CommandSteps, ReplySteps
  <2> QED
    BY <1>3, <2>1, <2>3, <2>4, <2>5
<1>15. CASE StagesAnswer(c)
  <2>1. /\ UNCHANGED <<dbVars, stageVars, sent, mailbox>>
        /\ sortingMutex' \in {sortingMutex, None} /\ Finish(c)
    BY <1>15 DEF StagesAnswer
  <2>2. CommandTypes'
    BY <1>0, <1>4, <2>1, FinishTypes
  <2> QED
    BY <1>3, <1>4, <2>1, <2>2
<1> QED
  BY <1>5, <1>6, <1>7, <1>8, <1>9, <1>10, <1>11, <1>12, <1>13, <1>14, <1>15
     DEF ReplyStep

LEMMA CommandKeeps ==
  ASSUME Types, NEW c \in Commands, Command(c)
  PROVE  Types'
<1>1. UNCHANGED <<extractor, pump, mishaps, overviewVars>>
  BY DEF Command
<1>2. CommandGoal
  <2>1. \/ \E e \in Events : Issue(c, e)
        \/ MoveForgetHead(c) \/ MoveForgetMails(c) \/ MoveRehome(c) \/ MoveRequest(c)
        \/ ReplyStep(c) \/ StagesAnswer(c)
    BY DEF Command, CommandStep, ReplyStep
  <2> QED
    BY <2>1, IssueTypes, MoveTypes, ReplyTypes
<1> QED
  BY <1>1, <1>2, Stable DEF CommandGoal, Types
-----------------------------------------------------------------------------
(* Shutdowns, crashes and the beginning *)

LEMMA StartTypes ==
  ASSUME Types, StartAgain \/ UNCHANGED vars \/ Stop, mishaps' \in Nat
  PROVE  Types'
<1> USE Names
<1>1. UNCHANGED <<dbVars, matrixVars, sent, mailbox, overviewId, board>>
  BY DEF StartAgain, Stop, vars, dbVars, matrixVars, commandVars, overviewVars
<1>2. Events' = Events /\ Threads' = Threads /\ Stored' = Stored
  BY <1>1, EventsStay DEF matrixVars, dbVars, Threads, Stored
<1>3. DbTypes' /\ Grows
  BY <1>1, <1>2, NoStatement DEF Types
<1>4. CASE StartAgain
  <2>1. StageTypes'
    BY <1>4 DEF StartAgain, StageTypes, StageNames
  <2>2. SorterTypes'
    BY <1>4 DEF StartAgain, SorterTypes, SorterSteps
  <2>3. ExtractorTypes'
    BY <1>4 DEF StartAgain, ExtractorTypes, ExtractorSteps
  <2>4. NotifierTypes'
    BY <1>4 DEF StartAgain, NotifierTypes, IdleNotifier, NotifierSteps
  <2>5. ChatTypes'
    BY <1>1, <1>2, <1>4 DEF StartAgain, Types, ChatTypes, matrixVars
  <2>6. OverviewTypes'
    <3>1. Resting \in Overviewer /\ Resting.id = None
      BY DEF Resting, Overviewer, OverviewerSteps
    <3>2. overviewer' = [o \in OverviewRooms |-> Resting]
      BY <1>4 DEF StartAgain
    <3>3. overviewer' \in [OverviewRooms -> Overviewer]
          /\ \A o \in OverviewRooms : overviewer'[o].id = None
      BY <3>1, <3>2
    <3> QED
      BY <1>1, <3>3 DEF Types, OverviewTypes, Overviewer
  <2>7. CommandTypes'
    <3>1. \A c \in Commands : /\ [NewCommand EXCEPT !.tries = cmd[c].tries] \in CommandRecord
                              /\ [NewCommand EXCEPT !.tries = cmd[c].tries].pc = "idle"
                              /\ [NewCommand EXCEPT !.tries = cmd[c].tries].thread = None
      <4> SUFFICES ASSUME NEW c \in Commands
                   PROVE  LET w == [NewCommand EXCEPT !.tries = cmd[c].tries]
                          IN  w \in CommandRecord /\ w.pc = "idle" /\ w.thread = None
        OBVIOUS
      <4>1. cmd[c].tries \in Nat
        BY CommandFacts DEF Types
      <4> QED
        BY <4>1 DEF NewCommand, CommandRecord, CommandSteps
    <3>2. cmd' = [c \in Commands |-> [NewCommand EXCEPT !.tries = cmd[c].tries]]
      BY <1>4 DEF StartAgain
    <3>3. cmd' \in [Commands -> CommandRecord]
          /\ \A c \in Commands : cmd'[c].pc = "idle" /\ cmd'[c].thread = None
      BY <3>1, <3>2
    <3>4. \A c \in Commands : cmd'[c].pc \notin ReplySteps
            /\ cmd'[c].pc \notin {"extracted", "sort", "touch", "record"}
      BY <3>3 DEF ReplySteps
    <3> QED
      BY <1>1, <3>3, <3>4 DEF Types, CommandTypes, CommandRecord
  <2>8. PumpTypes'
    BY <1>4 DEF StartAgain, PumpTypes, StartedPump
  <2> QED
    BY <1>3, <2>1, <2>2, <2>3, <2>4, <2>5, <2>6, <2>7, <2>8 DEF Types
<1>5. CASE UNCHANGED vars
  BY <1>3, <1>5, Stable DEF vars, Types, sortingVars, matrixVars, overviewVars, commandVars
<1>6. CASE Stop
  <2>1. /\ UNCHANGED <<queued, waiting, sortingVars, extractor, notifierVars, matrixVars,
                       commandVars, pump, overviewVars>>
        /\ closed' = StageNames \cup OverviewRooms
    BY <1>6 DEF Stop
  <2>2. StageTypes'
    BY <2>1 DEF Types, StageTypes
  <2>3. PumpTypes'
    BY <2>1 DEF Types, PumpTypes
  <2> QED
    BY <1>3, <2>1, <2>2, <2>3, Stable DEF Types, notifierVars
<1> QED
  BY <1>4, <1>5, <1>6

LEMMA InitTypes == Init => Types
<1> SUFFICES ASSUME Init PROVE Types
  OBVIOUS
<1> USE Names
<1>1. mail = [m \in Mails |-> NoMail] /\ thread = <<>> /\ timeline = <<>> /\ redacted = {}
      /\ recreated = {}
  BY DEF Init, DbInit, NotificationInit
<1>2. DOMAIN thread = {} /\ DOMAIN timeline = {} /\ thread \in Seq(ThreadRow)
      /\ timeline \in Seq(Event)
  <2>1. \A S : <<>> \in Seq(S) /\ DOMAIN <<>> = {}
    BY EmptySeq, LenProperties
  <2> QED
    BY <1>1, <2>1
<1>3. DbTypes
  <2>1. NoMail \in MailRow /\ NoMail.thread = None /\ NoMail.matrix = None
    BY DEF NoMail, MailRow
  <2> QED
    BY <1>1, <1>2, <2>1 DEF DbTypes, Threads
<1>4. StageTypes
  BY DEF Init, StagesInit, StageTypes, StageNames
<1>5. SorterTypes
  BY DEF Init, SortingInit, SorterTypes, SorterSteps
<1>6. ExtractorTypes
  BY DEF Init, ExtractionInit, ExtractorTypes, ExtractorSteps
<1>7. NotifierTypes
  BY DEF Init, NotificationInit, NotifierTypes, IdleNotifier, NotifierSteps
<1>8. ChatTypes
  BY <1>1, <1>2 DEF ChatTypes, Events
<1>9. OverviewTypes
  <2>1. /\ overviewer = [o \in OverviewRooms |-> Resting]
        /\ overviewId = [o \in OverviewRooms |-> None]
        /\ board = [o \in OverviewRooms |-> <<>>]
    BY DEF Init, OverviewInit
  <2>2. Resting \in Overviewer /\ Resting.id = None
    BY DEF Resting, Overviewer, OverviewerSteps
  <2>3. <<>> \in Seq(OverviewMessage)
    BY EmptySeq
  <2> QED
    BY <2>1, <2>2, <2>3 DEF OverviewTypes, Overviewer
<1>10. CommandTypes
  <2>1. NewCommand \in CommandRecord /\ NewCommand.pc = "idle" /\ NewCommand.thread = None
    BY DEF NewCommand, CommandRecord, CommandSteps
  <2>2. cmd = [c \in Commands |-> NewCommand] /\ sent = {} /\ mailbox = Incoming
    BY DEF Init, CommandsInit
  <2>3. cmd \in [Commands -> CommandRecord]
        /\ \A c \in Commands : cmd[c].pc = "idle" /\ cmd[c].thread = None
    BY <2>1, <2>2
  <2>4. \A c \in Commands : cmd[c].pc \notin ReplySteps
            /\ cmd[c].pc \notin {"extracted", "sort", "touch", "record"}
    BY <2>3 DEF ReplySteps
  <2> QED
    BY <2>2, <2>3, <2>4, InboxAssumption DEF CommandTypes, CommandRecord
<1>11. PumpTypes
  BY DEF Init, PumpInit, StartedPump, PumpTypes
<1> QED
  BY <1>3, <1>4, <1>5, <1>6, <1>7, <1>8, <1>9, <1>10, <1>11 DEF Types

\* Every step keeps the types, and takes nothing away that is referred to.
LEMMA TypesStep == Types /\ [Next]_vars => Types'
<1> SUFFICES ASSUME Types, [Next]_vars PROVE Types'
  OBVIOUS
<1>1. CASE Pump
  BY <1>1, PumpKeeps
<1>2. CASE SortingStage
  BY <1>2, SortingStageKeeps
<1>3. CASE ExtractionStage
  BY <1>3, ExtractionStageKeeps
<1>4. CASE NotificationStage \/ MistakeHead \/ LoseAnswer \/ \E e \in Events : RemoveHead(e)
  BY <1>4, NotificationKeeps
<1>5. CASE \E o \in OverviewRooms :
             OverviewStage(o) \/ OverviewFails(o) \/ RepostOverview(o) \/ Resend(o)
  BY <1>5, OverviewsKeep
<1>6. CASE \E c \in Commands : Command(c)
  BY <1>6, CommandKeeps
<1>7. CASE Crash \/ Stop \/ Exit \/ UNCHANGED vars
  <2>1. mishaps' \in {mishaps, mishaps + 1}
    BY <1>7 DEF Crash, Stop, Exit, Mishap, vars
  <2>2. mishaps' \in Nat
    BY <2>1 DEF Types, PumpTypes
  <2>3. StartAgain \/ UNCHANGED vars \/ Stop
    BY <1>7 DEF Crash, Exit
  <2> QED
    BY <2>2, <2>3, StartTypes
<1> QED
  BY <1>1, <1>2, <1>3, <1>4, <1>5, <1>6, <1>7 DEF Next

LEMMA TypesAlways == Spec => []Types
<1>1. Init => Types
  BY InitTypes
<1>2. Types /\ [Next]_vars => Types'
  BY TypesStep
<1> QED
  BY <1>1, <1>2, PTL DEF Spec

LEMMA TypesAreOK == Types => TypeOK
<1> SUFFICES ASSUME Types PROVE TypeOK
  OBVIOUS
<1>1. mail \in [Mails ->
            [stored : BOOLEAN, fetched : BOOLEAN, extracted : BOOLEAN,
             sorted : BOOLEAN, replyTo : Mails \cup {None},
             thread : Threads \cup {None},
             matrix : Events \cup Commands \cup {None}]]
  BY DEF Types, DbTypes, MailRow
<1>2. \A t \in Threads : thread[t] \in
            [enabled : BOOLEAN, forceClose : BOOLEAN, first : Stored,
             last : Stored, matrix : Events \cup {None},
             room : Rooms \cup {None}]
  <2> SUFFICES ASSUME NEW t \in Threads
               PROVE  thread[t] \in
                        [enabled : BOOLEAN, forceClose : BOOLEAN, first : Stored,
                         last : Stored, matrix : Events \cup {None},
                         room : Rooms \cup {None}]
    OBVIOUS
  <2>1. thread[t] \in ThreadRow
    BY ThreadsAreNumbers, ElementOfSeq DEF Types, DbTypes
  <2> QED
    BY <2>1 DEF ThreadRow, Types, DbTypes
<1>3. /\ queued \subseteq StageNames \cup OverviewRooms
      /\ closed \in {{}, StageNames \cup OverviewRooms}
      /\ waiting \subseteq ({"notification"} \cup OverviewRooms) \X Commands
  BY DEF Types, StageTypes
<1>4. \A o \in OverviewRooms : /\ overviewer[o].pc \in OverviewerSteps
                               /\ overviewId[o] \in DOMAIN board[o] \cup {None}
  BY DEF Types, OverviewTypes
<1>5. sorter.pc \in SorterSteps /\ extractor.pc \in ExtractorSteps
      /\ notifier.pc \in NotifierSteps
  BY DEF Types, SorterTypes, ExtractorTypes, NotifierTypes
<1>6. (\A c \in Commands : cmd[c].pc \in CommandSteps) /\ sent \subseteq Mails
      /\ mailbox \subseteq Mails
  BY DEF Types, CommandTypes
<1> QED
  BY <1>1, <1>2, <1>3, <1>4, <1>5, <1>6 DEF TypeOK

\* Whatever the stages, the commands, the users and the failures do, rows refer
\* to threads, mails and events that exist, and the first and the last mail of
\* a thread are in the database.
THEOREM PipelineTypes == Spec => []TypeOK
BY TypesAlways, TypesAreOK, PTL
=============================================================================
