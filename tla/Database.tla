------------------------------ MODULE Database ------------------------------
(***************************************************************************)
(* The mail and thread tables of internal/db/sqlc/schema.sql and the       *)
(* statements of queries.sql that the pipeline issues through db.go. Every *)
(* statement commits by itself: db.go opens no transaction, so a handler   *)
(* that issues two of them can be interrupted between them.                *)
(*                                                                         *)
(* A mail is known by its header id, the unique key of its row; a thread   *)
(* by its serial number. Of a mail's data only what decides about sorting, *)
(* extraction and mirroring is kept.                                       *)
(***************************************************************************)
EXTENDS Naturals, Sequences

CONSTANTS
    Mails,       \* every mail that is ever sent, received or written here
    InReplyTo,   \* [Mails -> Mails or None]: the In-Reply-To header
    References,  \* [Mails -> sets of Mails]: the References header
    Time,        \* [Mails -> Nat]: the Date header
    HomeRoom,    \* [Mails -> Rooms]: what determineMatrixRoom finds for it
    Rooms,       \* the chat rooms that threads are posted in
    None         \* SQL NULL

ASSUME MailAssumption ==
    /\ None \notin Mails \cup Rooms \cup Nat
    /\ InReplyTo \in [Mails -> Mails \cup {None}]
    /\ References \in [Mails -> SUBSET Mails]
    /\ Time \in [Mails -> Nat]
    /\ HomeRoom \in [Mails -> Rooms]

VARIABLES
    mail,    \* one row per mail; stored says whether it has been inserted
    thread   \* the thread rows, in the order of their serial numbers

dbVars == <<mail, thread>>

Threads == DOMAIN thread

NoMail == [stored |-> FALSE, fetched |-> FALSE, extracted |-> FALSE,
           sorted |-> FALSE, replyTo |-> None, thread |-> None,
           matrix |-> None]

DbInit ==
    /\ mail = [m \in Mails |-> NoMail]
    /\ thread = <<>>

Stored == {m \in Mails : mail[m].stored}
-----------------------------------------------------------------------------
(* Statements on mail *)

\* INSERT ... ON CONFLICT (header_id) DO NOTHING. A fetcher of NULL means
\* that the mail has been written here.
AddMail(m, fetched) ==
    mail' = IF mail[m].stored THEN mail
            ELSE [mail EXCEPT ![m].stored = TRUE, ![m].fetched = fetched]

\* One statement over all mails that are in no thread yet.
AutoUpdateMailReplyTo ==
    mail' = [m \in Mails |->
        IF /\ mail[m].stored
           /\ mail[m].thread = None
           /\ InReplyTo[m] \in Stored
        THEN [mail[m] EXCEPT !.replyTo = InReplyTo[m]]
        ELSE mail[m]]

UpdateMailSorting(m, t, parent) ==
    mail' = [mail EXCEPT ![m].replyTo = parent, ![m].thread = t,
                         ![m].sorted = TRUE]

UpdateMailMarkSorted(m) == mail' = [mail EXCEPT ![m].sorted = TRUE]

UpdateExtractedMessages(m) == mail' = [mail EXCEPT ![m].extracted = TRUE]

UpdateMailMatrixId(m, id) == mail' = [mail EXCEPT ![m].matrix = id]

RemoveMailMatrixIdsByThread(t) ==
    mail' = [m \in Mails |-> IF mail[m].thread = t
                             THEN [mail[m] EXCEPT !.matrix = None]
                             ELSE mail[m]]
-----------------------------------------------------------------------------
(* Statements on thread *)

AddThread(m) ==
    thread' = Append(thread,
        [enabled |-> TRUE, forceClose |-> FALSE, first |-> m, last |-> m,
         matrix |-> None, room |-> None])

\* A new mail always reopens the thread, force_close or not.
UpdateThreadLastMail(t, m) ==
    thread' = [thread EXCEPT ![t].enabled = TRUE, ![t].last = m]

\* force is None where COALESCE($4, force_close) keeps the column. Threads
\* that would not change are not matched.
UpdateThreadEnabledMatches(room, id, enabled, force) ==
    {t \in Threads :
        /\ id # None
        /\ thread[t].matrix = id
        /\ thread[t].room = room
        /\ \/ thread[t].enabled # enabled
           \/ force # None /\ thread[t].forceClose # force}

UpdateThreadEnabled(room, id, enabled, force) ==
    thread' = [t \in Threads |->
        IF t \in UpdateThreadEnabledMatches(room, id, enabled, force)
        THEN [thread[t] EXCEPT
                !.enabled = enabled,
                !.forceClose = IF force = None THEN @ ELSE force]
        ELSE thread[t]]

UpdateThreadMatrixIds(t, room, id) ==
    thread' = [thread EXCEPT ![t].matrix = id, ![t].room = room]

RemoveThreadMatrixId(t) == thread' = [thread EXCEPT ![t].matrix = None]
-----------------------------------------------------------------------------
(* Queries *)

Oldest(S) == {m \in S : \A n \in S : Time[m] <= Time[n]}

MailsRequiringSorting == {m \in Stored : ~mail[m].sorted}

MailsRequiringMessageExtraction ==
    {m \in Stored : mail[m].sorted /\ mail[m].fetched /\ ~mail[m].extracted}

MailsByThread(t) == {m \in Stored : mail[m].thread = t}

MailsByMatrixId(id) == {m \in Stored : id # None /\ mail[m].matrix = id}

ThreadsByMatrixId(id) == {t \in Threads : id # None /\ thread[t].matrix = id}

\* The referenced mails in threads that are not force closed; the query
\* returns one of the newest.
ReferencedThreadParents(m) ==
    LET open == {r \in References[m] \cap Stored :
                    /\ mail[r].thread # None
                    /\ ~thread[mail[r].thread].forceClose}
    IN  {r \in open : \A s \in open : Time[s] <= Time[r]}

\* The head of the thread has been extracted and it is not on Matrix.
MatrixReadyThreads ==
    {t \in Threads : thread[t].matrix = None /\ mail[thread[t].first].extracted}

MatrixReadyMails ==
    {m \in Stored : /\ mail[m].matrix = None
                    /\ mail[m].extracted
                    /\ mail[m].thread # None
                    /\ thread[mail[m].thread].matrix # None}
=============================================================================
