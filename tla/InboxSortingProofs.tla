------------------------- MODULE InboxSortingProofs -------------------------
(***************************************************************************)
(* Proofs about InboxCollab: the sorting stage and the replies write the   *)
(* same columns of the mail table, each under threadSortingMutex, and no   *)
(* mail is sorted twice.                                                   *)
(***************************************************************************)
EXTENDS InboxTypeProofs

(* Sorting: the invariant *)

\* A mail is in a thread only when it is sorted, and sorted only when it is
\* stored; the pump stores what has been delivered.
RowsInv ==
    /\ \A m \in Mails : /\ mail[m].thread # None => mail[m].sorted
                        /\ mail[m].sorted => mail[m].stored
    /\ pump.chunk \subseteq mailbox

\* The mutex is held by the sorting stage or by a reply that is writing a mail.
Writing == {"send", "store", "add", "extracted", "sort", "touch", "record"}

MutexInv ==
    /\ sorter.pc \notin {"rest", "lock"} <=> sortingMutex = "sorting"
    /\ \A c \in Commands : cmd[c].pc \in Writing => sortingMutex = c

SorterInv ==
    /\ sorter.pc \in {"rest", "lock", "gate", "list", "finish"} => sorter.rest = {}
    /\ ListStaysUnsorted
    /\ sorter.pc \in {"references", "join", "head", "claim"} => sorter.cur \in sorter.rest
    /\ sorter.pc = "claim" => thread[sorter.target].first = sorter.cur

\* A mail that has not been sent is nowhere.
Unwritten == {"find original", "lock", "send", "store"}

Unsent(c, i) ==
    \/ Kind[c] # "reply"
    \/ i > cmd[c].tries
    \/ i = cmd[c].tries /\ cmd[c].pc \in Unwritten

Unsorted == {"send", "store", "add", "extracted", "sort"}

WritingInv ==
    /\ \A c \in Commands : \A i \in DOMAIN ReplyMails[c] :
        Unsent(c, i) => ReplyMails[c][i] \notin mailbox \cup Stored
    /\ \A c \in Commands :
        /\ cmd[c].pc \in ReplySteps => Kind[c] = "reply"
        /\ cmd[c].pc \in Unsorted => ~mail[NewMail(c)].sorted

SortInv == RowsInv /\ MutexInv /\ SorterInv /\ WritingInv
-----------------------------------------------------------------------------
(* Steps that sort nothing *)

\* The mails stay in their threads and the threads have the same first mails.
SameRows ==
    /\ \A m \in Mails : /\ mail'[m].sorted = mail[m].sorted
                        /\ mail'[m].thread = mail[m].thread
                        /\ mail[m].stored => mail'[m].stored
    /\ Threads' = Threads
    /\ \A t \in Threads : thread'[t].first = thread[t].first

LEMMA MailsStay ==
  ASSUME DbTypes, UNCHANGED thread
  PROVE  /\ \A m \in Mails :
            /\ UpdateExtractedMessages(m) => SameRows /\ Stored' = Stored
            /\ \A id : UpdateMailMatrixId(m, id) => SameRows /\ Stored' = Stored
            /\ \A f : AddMail(m, f) => SameRows /\ Stored' = Stored \cup {m}
         /\ \A t : RemoveMailMatrixIdsByThread(t) => SameRows /\ Stored' = Stored
         /\ AutoUpdateMailReplyTo => SameRows /\ Stored' = Stored
         /\ UNCHANGED mail => SameRows /\ Stored' = Stored
<1>1. mail \in [Mails -> MailRow] /\ Threads' = Threads
  BY DEF DbTypes, Threads
<1>2. ASSUME \A m \in Mails : /\ mail'[m].sorted = mail[m].sorted
                              /\ mail'[m].thread = mail[m].thread
                              /\ mail'[m].stored = mail[m].stored
      PROVE  SameRows /\ Stored' = Stored
  BY <1>1, <1>2 DEF SameRows, Stored
<1>3. ASSUME NEW m \in Mails, UpdateExtractedMessages(m)
      PROVE  SameRows /\ Stored' = Stored
  <2>1. \A n \in Mails : \/ mail'[n] = mail[n]
                         \/ mail'[n] = [mail[n] EXCEPT !.extracted = TRUE]
    BY <1>1, <1>3 DEF UpdateExtractedMessages
  <2>2. ASSUME NEW n \in Mails
        PROVE  /\ mail'[n].sorted = mail[n].sorted /\ mail'[n].thread = mail[n].thread
               /\ mail'[n].stored = mail[n].stored
    <3>1. mail[n] \in MailRow
      BY <1>1
    <3>2. CASE mail'[n] = [mail[n] EXCEPT !.extracted = TRUE]
      BY <3>1, <3>2 DEF MailRow
    <3> QED
      BY <2>1, <3>2
  <2> QED
    BY <1>2, <2>2
<1>4. ASSUME NEW m \in Mails, NEW id, UpdateMailMatrixId(m, id)
      PROVE  SameRows /\ Stored' = Stored
  <2>1. \A n \in Mails : \/ mail'[n] = mail[n]
                         \/ mail'[n] = [mail[n] EXCEPT !.matrix = id]
    BY <1>1, <1>4 DEF UpdateMailMatrixId
  <2>2. ASSUME NEW n \in Mails
        PROVE  /\ mail'[n].sorted = mail[n].sorted /\ mail'[n].thread = mail[n].thread
               /\ mail'[n].stored = mail[n].stored
    <3>1. mail[n] \in MailRow
      BY <1>1
    <3>2. CASE mail'[n] = [mail[n] EXCEPT !.matrix = id]
      BY <3>1, <3>2 DEF MailRow
    <3> QED
      BY <2>1, <3>2
  <2> QED
    BY <1>2, <2>2
<1>5. ASSUME NEW m \in Mails, NEW f, AddMail(m, f)
      PROVE  SameRows /\ Stored' = Stored \cup {m}
  <2>1. CASE mail[m].stored
    <3>1. mail' = mail /\ m \in Stored
      BY <1>5, <2>1 DEF AddMail, Stored
    <3> QED
      BY <1>2, <3>1
  <2>2. CASE ~mail[m].stored
    <3> DEFINE row == [mail[m] EXCEPT !.stored = TRUE, !.fetched = f]
    <3>1. mail' = [mail EXCEPT ![m] = row]
      BY <1>1, <1>5, <2>2 DEF AddMail
    <3>2. row.stored = TRUE /\ row.sorted = mail[m].sorted /\ row.thread = mail[m].thread
      BY <1>1 DEF MailRow
    <3> HIDE DEF row
    <3>3. \A n \in Mails : mail'[n] = IF n = m THEN row ELSE mail[n]
      BY <1>1, <3>1
    <3> QED
      BY <1>1, <3>2, <3>3 DEF SameRows, Stored
  <2> QED
    BY <2>1, <2>2
<1>6. ASSUME NEW t, RemoveMailMatrixIdsByThread(t)
      PROVE  SameRows /\ Stored' = Stored
  <2>1. \A n \in Mails : \/ mail'[n] = mail[n]
                         \/ mail'[n] = [mail[n] EXCEPT !.matrix = None]
    BY <1>6 DEF RemoveMailMatrixIdsByThread
  <2>2. ASSUME NEW n \in Mails
        PROVE  /\ mail'[n].sorted = mail[n].sorted /\ mail'[n].thread = mail[n].thread
               /\ mail'[n].stored = mail[n].stored
    <3>1. mail[n] \in MailRow
      BY <1>1
    <3>2. CASE mail'[n] = [mail[n] EXCEPT !.matrix = None]
      BY <3>1, <3>2 DEF MailRow
    <3> QED
      BY <2>1, <3>2
  <2> QED
    BY <1>2, <2>2
<1>7. ASSUME AutoUpdateMailReplyTo
      PROVE  SameRows /\ Stored' = Stored
  <2>1. \A n \in Mails : \/ mail'[n] = mail[n]
                         \/ mail'[n] = [mail[n] EXCEPT !.replyTo = InReplyTo[n]]
    BY <1>7 DEF AutoUpdateMailReplyTo
  <2>2. ASSUME NEW n \in Mails
        PROVE  /\ mail'[n].sorted = mail[n].sorted /\ mail'[n].thread = mail[n].thread
               /\ mail'[n].stored = mail[n].stored
    <3>1. mail[n] \in MailRow
      BY <1>1
    <3>2. CASE mail'[n] = [mail[n] EXCEPT !.replyTo = InReplyTo[n]]
      BY <3>1, <3>2 DEF MailRow
    <3> QED
      BY <2>1, <3>2
  <2> QED
    BY <1>2, <2>2
<1> QED
  BY <1>2, <1>3, <1>4, <1>5, <1>6, <1>7

LEMMA ThreadsStay ==
  ASSUME DbTypes, UNCHANGED mail
  PROVE  /\ \A t, m : UpdateThreadLastMail(t, m) => SameRows /\ Stored' = Stored
         /\ \A room, id, enabled, force :
                UpdateThreadEnabled(room, id, enabled, force) => SameRows /\ Stored' = Stored
         /\ \A t, room, id : UpdateThreadMatrixIds(t, room, id) => SameRows /\ Stored' = Stored
         /\ \A t : RemoveThreadMatrixId(t) => SameRows /\ Stored' = Stored
<1>1. thread \in [Threads -> ThreadRow]
  BY ThreadsAreNumbers, LenProperties DEF DbTypes
<1>2. ASSUME DOMAIN thread' = DOMAIN thread,
             \A t \in Threads : thread'[t].first = thread[t].first
      PROVE  SameRows /\ Stored' = Stored
  BY <1>2 DEF SameRows, Stored, Threads
<1>3. ASSUME NEW t, NEW m, UpdateThreadLastMail(t, m)
      PROVE  SameRows /\ Stored' = Stored
  <2>1. \A u \in Threads : \/ thread'[u] = thread[u]
                           \/ thread'[u] = [thread[u] EXCEPT !.enabled = TRUE, !.last = m]
    BY <1>1, <1>3 DEF UpdateThreadLastMail
  <2>2. DOMAIN thread' = DOMAIN thread
    BY <1>3 DEF UpdateThreadLastMail
  <2>3. \A u \in Threads : thread'[u].first = thread[u].first
    BY <1>1, <2>1 DEF ThreadRow
  <2> QED
    BY <1>2, <2>2, <2>3
<1>4. ASSUME NEW room, NEW id, NEW enabled, NEW force,
             UpdateThreadEnabled(room, id, enabled, force)
      PROVE  SameRows /\ Stored' = Stored
  <2>1. \A u \in Threads :
          \/ thread'[u] = thread[u]
          \/ \E close : thread'[u] = [thread[u] EXCEPT !.enabled = enabled,
                                                       !.forceClose = close]
    <3> SUFFICES ASSUME NEW u \in Threads, thread'[u] # thread[u]
                 PROVE  \E close : thread'[u] = [thread[u] EXCEPT !.enabled = enabled,
                                                                  !.forceClose = close]
      OBVIOUS
    <3> DEFINE close == IF force = None THEN thread[u].forceClose ELSE force
    <3>1. thread'[u] = [thread[u] EXCEPT !.enabled = enabled, !.forceClose = close]
      BY <1>1, <1>4 DEF UpdateThreadEnabled, ThreadRow
    <3> QED
      BY <3>1
  <2>2. DOMAIN thread' = DOMAIN thread
    BY <1>4 DEF UpdateThreadEnabled, Threads
  <2>3. \A u \in Threads : thread'[u].first = thread[u].first
    BY <1>1, <2>1 DEF ThreadRow
  <2> QED
    BY <1>2, <2>2, <2>3
<1>5. ASSUME NEW t, NEW room, NEW id, UpdateThreadMatrixIds(t, room, id)
      PROVE  SameRows /\ Stored' = Stored
  <2>1. \A u \in Threads : \/ thread'[u] = thread[u]
                           \/ thread'[u] = [thread[u] EXCEPT !.matrix = id, !.room = room]
    BY <1>1, <1>5 DEF UpdateThreadMatrixIds
  <2>2. DOMAIN thread' = DOMAIN thread
    BY <1>5 DEF UpdateThreadMatrixIds
  <2>3. \A u \in Threads : thread'[u].first = thread[u].first
    BY <1>1, <2>1 DEF ThreadRow
  <2> QED
    BY <1>2, <2>2, <2>3
<1>6. ASSUME NEW t, RemoveThreadMatrixId(t)
      PROVE  SameRows /\ Stored' = Stored
  <2>1. \A u \in Threads : \/ thread'[u] = thread[u]
                           \/ thread'[u] = [thread[u] EXCEPT !.matrix = None]
    BY <1>1, <1>6 DEF RemoveThreadMatrixId
  <2> QED
    BY <1>1, <1>2, <1>6, <2>1 DEF RemoveThreadMatrixId, ThreadRow
<1> QED
  BY <1>3, <1>4, <1>5, <1>6
-----------------------------------------------------------------------------

\* A command goes on without writing a mail of its own.
Onward(c) ==
    /\ cmd'[c].tries >= cmd[c].tries
    /\ cmd'[c].pc \in ReplySteps => Kind[c] = "reply"
    /\ cmd'[c].pc \in Unsorted => cmd'[c].tries = cmd[c].tries
    /\ cmd'[c].pc \in Unwritten => \/ cmd'[c].tries > cmd[c].tries
                                   \/ cmd[c].pc \in Unwritten
    /\ cmd'[c].pc \in Unsorted => cmd[c].pc \in Unsorted
    /\ cmd'[c].pc \in Writing => cmd[c].pc \in Writing

Released ==
    /\ sortingMutex \in Commands /\ sortingMutex' = None
    /\ cmd'[sortingMutex].pc \notin Writing

\* A step that neither sorts nor writes a reply; only the pump stores a mail.
Aside ==
    /\ SameRows /\ Stored' \subseteq Stored \cup mailbox
    /\ UNCHANGED <<sorter, mailbox>> /\ pump'.chunk \subseteq mailbox
    /\ UNCHANGED sortingMutex \/ Released
    /\ \A c \in Commands : Onward(c)

LEMMA AsideKeepsSorting ==
  ASSUME Types, Types', SortInv, Aside
  PROVE  SortInv'
<1> USE Names
<1>1. RowsInv'
  BY DEF SortInv, RowsInv, Aside, SameRows
<1>2. MutexInv'
  <2>1. CASE UNCHANGED sortingMutex
    BY <2>1 DEF SortInv, MutexInv, Aside, Onward
  <2>2. CASE Released
    BY <2>2 DEF SortInv, MutexInv, Aside, Onward, Released
  <2> QED
    BY <2>1, <2>2 DEF Aside
<1>3. SorterInv'
  <2>1. UNCHANGED sorter /\ SameRows /\ SorterInv
    BY DEF Aside, SortInv
  <2>2. sorter.rest \subseteq Mails /\ (sorter.pc = "claim" => sorter.target \in Threads)
    BY DEF Types, SorterTypes
  <2> QED
    BY <2>1, <2>2 DEF SorterInv, SameRows, ListStaysUnsorted
<1>4. WritingInv'
  <2>1. ASSUME NEW c \in Commands, NEW i \in DOMAIN ReplyMails[c], Unsent(c, i)'
        PROVE  ReplyMails[c][i] \notin mailbox' \cup Stored'
    <3>1. i \in Nat /\ cmd[c].tries \in Nat /\ cmd'[c].tries \in Nat
      BY CommandFacts, LenProperties DEF Types, CommandTypes
    <3>2. Unsent(c, i)
      BY <2>1, <3>1 DEF Unsent, Aside, Onward
    <3> QED
      BY <2>1, <3>2 DEF SortInv, WritingInv, Aside
  <2>2. ASSUME NEW c \in Commands
        PROVE  /\ cmd'[c].pc \in ReplySteps => Kind[c] = "reply"
               /\ cmd'[c].pc \in Unsorted => ~mail'[NewMail(c)'].sorted
    <3>1. cmd'[c].pc \in Unsorted => NewMail(c)' = NewMail(c) /\ NewMail(c) \in Mails
      BY CommandFacts DEF Aside, Onward, NewMail, Types, Unsorted, ReplySteps
    <3> QED
      BY <3>1 DEF Aside, Onward, SortInv, WritingInv, SameRows
  <2> QED
    BY <2>1, <2>2 DEF WritingInv
<1> QED
  BY <1>1, <1>2, <1>3, <1>4 DEF SortInv
-----------------------------------------------------------------------------
(* The steps of the sorting stage *)

\* Mail m is sorted, into thread t or into none.
Sorts(m, t) ==
    /\ mail'[m].sorted /\ mail'[m].thread = t
    /\ \A n \in Mails \ {m} : /\ mail'[n].sorted = mail[n].sorted
                              /\ mail'[n].thread = mail[n].thread
    /\ \A n \in Mails : mail'[n].stored = mail[n].stored
    /\ Stored' = Stored /\ Threads' = Threads
    /\ \A u \in Threads : thread'[u].first = thread[u].first

LEMMA MailIsSorted ==
  ASSUME DbTypes, UNCHANGED thread, NEW m \in Mails
  PROVE  /\ \A t, p : UpdateMailSorting(m, t, p) => Sorts(m, t)
         /\ UpdateMailMarkSorted(m) => Sorts(m, mail[m].thread)
<1>1. mail \in [Mails -> MailRow] /\ Threads' = Threads
  BY DEF DbTypes, Threads
<1>2. ASSUME NEW row, mail' = [mail EXCEPT ![m] = row], row.sorted,
             row.stored = mail[m].stored
      PROVE  Sorts(m, row.thread)
  <2>1. \A n \in Mails : mail'[n] = IF n = m THEN row ELSE mail[n]
    BY <1>1, <1>2
  <2> QED
    BY <1>1, <1>2, <2>1 DEF Sorts, Stored
<1>3. ASSUME NEW t, NEW p, UpdateMailSorting(m, t, p)
      PROVE  Sorts(m, t)
  <2> DEFINE row == [mail[m] EXCEPT !.replyTo = p, !.thread = t, !.sorted = TRUE]
  <2>1. mail' = [mail EXCEPT ![m] = row]
    BY <1>1, <1>3 DEF UpdateMailSorting, MailRow
  <2>2. row.sorted /\ row.stored = mail[m].stored /\ row.thread = t
    BY <1>1 DEF MailRow
  <2> HIDE DEF row
  <2> QED
    BY <1>2, <2>1, <2>2
<1>4. ASSUME UpdateMailMarkSorted(m)
      PROVE  Sorts(m, mail[m].thread)
  <2> DEFINE row == [mail[m] EXCEPT !.sorted = TRUE]
  <2>1. mail' = [mail EXCEPT ![m] = row]
    BY <1>1, <1>4 DEF UpdateMailMarkSorted
  <2>2. row.sorted /\ row.stored = mail[m].stored /\ row.thread = mail[m].thread
    BY <1>1 DEF MailRow
  <2> HIDE DEF row
  <2> QED
    BY <1>2, <2>1, <2>2
<1> QED
  BY <1>3, <1>4

SorterRecord ==
    [pc : SorterSteps, rest : SUBSET Mails, cur : Mails \cup {None},
     target : Nat \cup {None}, first : BOOLEAN]

\* What the stage leaves alone: the replies that are being written.
LEMMA WritersStay ==
  ASSUME Types, SortInv, UNCHANGED <<commandVars, pump>>, Stored' = Stored,
         \/ SameRows
         \/ UNCHANGED mail
         \/ /\ sorter.pc \notin {"rest", "lock"}
            /\ \E m \in Stored : \E t : Sorts(m, t)
  PROVE  RowsInv' /\ WritingInv'
<1> USE Names
<1>1. UNCHANGED <<cmd, mailbox, pump>>
  BY DEF commandVars
<1>2. \A c \in Commands : cmd[c].pc \in Unsorted => NewMail(c) \in Mails /\ NewMail(c)' = NewMail(c)
  BY <1>1, CommandFacts DEF Types, Unsorted, ReplySteps, NewMail
<1>3. CASE SameRows \/ UNCHANGED mail
  <2>1. RowsInv'
    BY <1>1, <1>3 DEF SortInv, RowsInv, SameRows
  <2>2. WritingInv'
    BY <1>1, <1>2, <1>3 DEF SortInv, WritingInv, SameRows, Unsent
  <2> QED
    BY <2>1, <2>2
<1>4. ASSUME NEW m \in Stored, NEW t, Sorts(m, t), sorter.pc \notin {"rest", "lock"}
      PROVE  RowsInv' /\ WritingInv'
  <2>1. m \in Mails /\ mail[m].stored
    BY DEF Stored
  <2>2. RowsInv'
    BY <1>1, <1>4, <2>1 DEF SortInv, RowsInv, Sorts
  <2>3. \A c \in Commands : cmd[c].pc \notin Unsorted
    BY <1>4 DEF SortInv, MutexInv, Writing, Unsorted
  <2>4. WritingInv'
    BY <1>1, <1>4, <2>3 DEF SortInv, WritingInv, Sorts, Unsent
  <2> QED
    BY <2>2, <2>4
<1> QED
  BY <1>3, <1>4

\* Where the stage looks for a thread.
LEMMA LookedUp ==
  /\ LookUpReplyTo =>
        \E t : \E m \in sorter.rest, pc \in {"join", "references"} :
            sorter' = [sorter EXCEPT !.cur = m, !.target = t, !.pc = pc]
  /\ SorterTypes /\ LookUpReferences =>
        \E t : \E pc \in {"join", "head"} :
            sorter' = [sorter EXCEPT !.target = t, !.pc = pc]
<1>1. ASSUME LookUpReplyTo
      PROVE  \E t : \E m \in sorter.rest, pc \in {"join", "references"} :
                sorter' = [sorter EXCEPT !.cur = m, !.target = t, !.pc = pc]
  <2>1. PICK m \in Oldest(sorter.rest) :
          LET parent == mail[m].replyTo
              t == IF parent = None THEN None ELSE mail[parent].thread
              found == t # None /\ ~thread[t].forceClose
          IN  sorter' = [sorter EXCEPT
                  !.cur = m,
                  !.target = IF found THEN t ELSE None,
                  !.pc = IF found THEN "join" ELSE "references"]
    BY <1>1 DEF LookUpReplyTo
  <2> DEFINE parent == mail[m].replyTo
             t == IF parent = None THEN None ELSE mail[parent].thread
             found == t # None /\ ~thread[t].forceClose
             u == IF found THEN t ELSE None
             pc == IF found THEN "join" ELSE "references"
  <2>2. sorter' = [sorter EXCEPT !.cur = m, !.target = u, !.pc = pc]
    BY <2>1
  <2>3. pc \in {"join", "references"} /\ m \in sorter.rest
    BY DEF Oldest
  <2> HIDE DEF u, pc
  <2> QED
    BY <2>2, <2>3
<1>2. ASSUME SorterTypes, LookUpReferences
      PROVE  \E t : \E pc \in {"join", "head"} :
                sorter' = [sorter EXCEPT !.target = t, !.pc = pc]
  <2>1. CASE ReferencedThreadParents(sorter.cur) = {}
    <3>1. sorter' = [sorter EXCEPT !.target = sorter.target, !.pc = "head"]
      BY <1>2, <2>1 DEF LookUpReferences, SorterTypes
    <3> QED
      BY <3>1
  <2>2. CASE ReferencedThreadParents(sorter.cur) # {}
    <3>1. PICK r : sorter' = [sorter EXCEPT !.pc = "join", !.target = mail[r].thread]
      BY <1>2, <2>2 DEF LookUpReferences
    <3>2. sorter' = [sorter EXCEPT !.target = mail[r].thread, !.pc = "join"]
      BY <1>2, <3>1 DEF SorterTypes
    <3> QED
      BY <3>2
  <2> QED
    BY <2>1, <2>2
<1> QED
  BY <1>1, <1>2

LEMMA SortingKeepsSorting ==
  ASSUME Types, SortInv, SortingStage
  PROVE  SortInv'
<1> USE Names
<1> DEFINE Goal == MutexInv' /\ SorterInv' /\ RowsInv' /\ WritingInv'
<1> SUFFICES Goal
  BY DEF SortInv
<1>0. /\ DbTypes /\ SorterTypes /\ sorter \in SorterRecord /\ SorterInv /\ MutexInv
      /\ UNCHANGED <<commandVars, pump>> /\ UNCHANGED cmd /\ Sorting
      /\ Stored \subseteq Mails
  BY DEF Types, SorterTypes, SorterRecord, SortInv, SortingStage, commandVars, Stored
<1>1. CASE SortingBegin
  <2>1. UNCHANGED <<mail, thread, sortingMutex>> /\ sorter' = [sorter EXCEPT !.pc = "lock"]
        /\ sorter.pc = "rest"
    BY <1>1 DEF SortingBegin, dbVars, At
  <2>2. SameRows /\ Stored' = Stored
    BY <1>0, <2>1, MailsStay
  <2>3. MutexInv'
    BY <1>0, <2>1 DEF MutexInv, SorterRecord
  <2>4. SorterInv'
    BY <1>0, <2>1 DEF SorterInv, SorterRecord, ListStaysUnsorted
  <2> QED
    BY <1>0, <2>2, <2>3, <2>4, WritersStay
<1>2. CASE LockThreadSorting
  <2>1. UNCHANGED <<mail, thread>> /\ sorter' = [sorter EXCEPT !.pc = "gate"]
        /\ sorter.pc = "lock" /\ sortingMutex = None /\ sortingMutex' = "sorting"
    BY <1>2 DEF LockThreadSorting, dbVars, At
  <2>2. SameRows /\ Stored' = Stored
    BY <1>0, <2>1, MailsStay
  <2>3. MutexInv'
    BY <1>0, <2>1 DEF MutexInv, SorterRecord
  <2>4. SorterInv'
    BY <1>0, <2>1 DEF SorterInv, SorterRecord, ListStaysUnsorted
  <2> QED
    BY <1>0, <2>2, <2>3, <2>4, WritersStay
<1>3. CASE WaitForCompleteData
  <2>1. UNCHANGED <<mail, thread>> /\ sorter' = [sorter EXCEPT !.pc = "lock"]
        /\ sorter.pc = "gate" /\ sortingMutex' = None
    BY <1>3 DEF WaitForCompleteData, dbVars, At
  <2>2. SameRows /\ Stored' = Stored
    BY <1>0, <2>1, MailsStay
  <2>3. MutexInv'
    BY <1>0, <2>1 DEF MutexInv, SorterRecord
  <2>4. SorterInv'
    BY <1>0, <2>1 DEF SorterInv, SorterRecord, ListStaysUnsorted
  <2> QED
    BY <1>0, <2>2, <2>3, <2>4, WritersStay
<1>4. CASE AutoUpdateMailSorting
  <2>1. UNCHANGED <<thread, sortingMutex>> /\ sorter' = [sorter EXCEPT !.pc = "list"]
        /\ sorter.pc = "gate" /\ AutoUpdateMailReplyTo
    BY <1>4 DEF AutoUpdateMailSorting, At
  <2>2. SameRows /\ Stored' = Stored
    BY <1>0, <2>1, MailsStay
  <2>3. MutexInv'
    BY <1>0, <2>1 DEF MutexInv, SorterRecord
  <2>4. SorterInv'
    BY <1>0, <2>1 DEF SorterInv, SorterRecord, ListStaysUnsorted
  <2> QED
    BY <1>0, <2>2, <2>3, <2>4, WritersStay
<1>5. CASE ListMailsRequiringSorting
  <2>1. UNCHANGED <<mail, thread>> /\ sorter.pc = "list"
    BY <1>5 DEF ListMailsRequiringSorting, At, dbVars
  <2>2. SameRows /\ Stored' = Stored
    BY <1>0, <2>1, MailsStay
  <2>3. CASE MailsRequiringSorting # {}
    <3>1. /\ sorter' = [sorter EXCEPT !.pc = "next", !.rest = MailsRequiringSorting]
          /\ UNCHANGED sortingMutex
      BY <1>5, <2>3 DEF ListMailsRequiringSorting
    <3>2. MutexInv'
      BY <1>0, <2>1, <3>1 DEF MutexInv, SorterRecord
    <3>3. \A m \in MailsRequiringSorting : ~mail[m].sorted
      BY DEF MailsRequiringSorting
    <3>4. SorterInv'
      BY <1>0, <2>1, <3>1, <3>3 DEF SorterInv, SorterRecord, ListStaysUnsorted
    <3> QED
      BY <1>0, <2>2, <3>2, <3>4, WritersStay
  <2>4. CASE MailsRequiringSorting = {}
    <3>1. /\ sorter' = [sorter EXCEPT !.pc = "rest", !.first = FALSE]
          /\ sortingMutex' = None
      BY <1>5, <2>4 DEF ListMailsRequiringSorting
    <3>2. MutexInv'
      BY <1>0, <2>1, <3>1 DEF MutexInv, SorterRecord
    <3>3. SorterInv'
      BY <1>0, <2>1, <3>1 DEF SorterInv, SorterRecord, ListStaysUnsorted
    <3> QED
      BY <1>0, <2>2, <3>2, <3>3, WritersStay
  <2> QED
    BY <2>3, <2>4
<1>6. CASE LookUpReplyTo
  <2>1. UNCHANGED <<mail, thread, sortingMutex>> /\ sorter.pc = "next"
    BY <1>6 DEF LookUpReplyTo, At, dbVars
  <2>2. SameRows /\ Stored' = Stored
    BY <1>0, <2>1, MailsStay
  <2>3. PICK t : \E m \in sorter.rest, pc \in {"join", "references"} :
          sorter' = [sorter EXCEPT !.cur = m, !.target = t, !.pc = pc]
    BY <1>6, LookedUp
  <2>4. MutexInv'
    BY <1>0, <2>1, <2>3 DEF MutexInv, SorterRecord
  <2>5. SorterInv'
    BY <1>0, <2>1, <2>3 DEF SorterInv, SorterRecord, ListStaysUnsorted
  <2> QED
    BY <1>0, <2>2, <2>4, <2>5, WritersStay
<1>7. CASE LookUpReferences
  <2>1. UNCHANGED <<mail, thread, sortingMutex>> /\ sorter.pc = "references"
    BY <1>7 DEF LookUpReferences, At, dbVars
  <2>2. SameRows /\ Stored' = Stored
    BY <1>0, <2>1, MailsStay
  <2>3. PICK t : \E pc \in {"join", "head"} :
          sorter' = [sorter EXCEPT !.target = t, !.pc = pc]
    BY <1>7, LookedUp DEF Types
  <2>4. MutexInv'
    BY <1>0, <2>1, <2>3 DEF MutexInv, SorterRecord
  <2>5. SorterInv'
    BY <1>0, <2>1, <2>3 DEF SorterInv, SorterRecord, ListStaysUnsorted
  <2> QED
    BY <1>0, <2>2, <2>4, <2>5, WritersStay
<1>8. CASE JoinThread
  <2>1. /\ UNCHANGED <<thread, sortingMutex>> /\ sorter' = [sorter EXCEPT !.pc = "touch"]
        /\ sorter.pc = "join" /\ sorter.cur \in Stored
        /\ UpdateMailSorting(sorter.cur, sorter.target, mail[sorter.cur].replyTo)
    BY <1>0, <1>8 DEF JoinThread, At, SorterTypes
  <2>2. Sorts(sorter.cur, sorter.target)
    BY <1>0, <2>1, MailIsSorted
  <2>3. RowsInv' /\ WritingInv'
    BY <1>0, <2>1, <2>2, WritersStay DEF Sorts
  <2>4. MutexInv'
    BY <1>0, <2>1 DEF MutexInv, SorterRecord
  <2>5. SorterInv'
    BY <1>0, <2>1, <2>2 DEF SorterInv, SorterRecord, ListStaysUnsorted, Sorts
  <2> QED
    BY <2>3, <2>4, <2>5
<1>9. ASSUME SortedCurrent, sorter.pc \in {"touch", "head", "claim"}, UNCHANGED sortingMutex,
             \A m \in sorter.rest \ {sorter.cur} : mail'[m].sorted = mail[m].sorted
      PROVE  MutexInv' /\ SorterInv'
  <2>1. PICK pc \in {"finish", "next"} :
          /\ sorter' = [sorter EXCEPT !.rest = sorter.rest \ {sorter.cur}, !.cur = None,
                                      !.target = None, !.pc = pc]
          /\ pc = "finish" => sorter.rest \ {sorter.cur} = {}
    BY <1>9 DEF SortedCurrent
  <2>2. MutexInv'
    BY <1>0, <1>9, <2>1 DEF MutexInv, SorterRecord
  <2>3. SorterInv'
    BY <1>0, <1>9, <2>1 DEF SorterInv, SorterRecord, ListStaysUnsorted
  <2> QED
    BY <2>2, <2>3
<1>10. CASE TouchThread
  <2>1. /\ UNCHANGED <<mail, sortingMutex>> /\ SortedCurrent /\ sorter.pc = "touch"
        /\ UpdateThreadLastMail(sorter.target, sorter.cur)
    BY <1>10 DEF TouchThread, At
  <2>2. SameRows /\ Stored' = Stored
    BY <1>0, <2>1, ThreadsStay
  <2> QED
    BY <1>0, <1>9, <2>1, <2>2, WritersStay
<1>11. ASSUME UNCHANGED <<thread, sortingMutex>>, SortedCurrent, sorter.pc \in {"head", "claim"},
              \/ UpdateMailMarkSorted(sorter.cur)
              \/ UpdateMailSorting(sorter.cur, sorter.target, mail[sorter.cur].replyTo)
       PROVE  Goal
  <2>1. sorter.cur \in Stored
    BY <1>0, <1>11 DEF SorterTypes
  <2>2. PICK t : Sorts(sorter.cur, t)
    BY <1>0, <1>11, <2>1, MailIsSorted
  <2>3. RowsInv' /\ WritingInv'
    BY <1>0, <1>11, <2>1, <2>2, WritersStay DEF Sorts
  <2>4. \A m \in sorter.rest \ {sorter.cur} : mail'[m].sorted = mail[m].sorted
    BY <1>0, <2>2 DEF Sorts, SorterRecord
  <2> QED
    BY <1>9, <1>11, <2>3, <2>4
<1>12. CASE MarkMailAsSorted \/ ClaimHead
  BY <1>11, <1>12 DEF MarkMailAsSorted, ClaimHead, At
<1>13. CASE CreateThread
  <2>1. /\ UNCHANGED <<mail, sortingMutex>> /\ sorter.pc = "head" /\ sorter.cur \in Stored
        /\ sorter' = [sorter EXCEPT !.pc = "claim", !.target = Len(thread) + 1]
        /\ AddThread(sorter.cur)
    BY <1>0, <1>13 DEF CreateThread, At, SorterTypes
  <2>2. Events' = Events
    BY EventsStay DEF SortingStage, matrixVars
  <2>3. thread'[Len(thread) + 1].first = sorter.cur
    BY <1>0, <2>1, <2>2, AddThreadTypes
  <2>4. RowsInv' /\ WritingInv'
    BY <1>0, <2>1, WritersStay DEF Stored
  <2>5. MutexInv'
    BY <1>0, <2>1 DEF MutexInv, SorterRecord
  <2>6. SorterInv'
    BY <1>0, <2>1, <2>3 DEF SorterInv, SorterRecord, ListStaysUnsorted
  <2> QED
    BY <2>4, <2>5, <2>6
<1>14. CASE FinishSorting
  <2>1. /\ UNCHANGED <<mail, thread>> /\ sorter.pc = "finish" /\ sortingMutex' = None
        /\ sorter' = [sorter EXCEPT !.pc = "rest", !.first = FALSE]
    BY <1>14 DEF FinishSorting, At, dbVars
  <2>2. SameRows /\ Stored' = Stored
    BY <1>0, <2>1, MailsStay
  <2>3. MutexInv'
    BY <1>0, <2>1 DEF MutexInv, SorterRecord
  <2>4. SorterInv'
    BY <1>0, <2>1 DEF SorterInv, SorterRecord, ListStaysUnsorted
  <2> QED
    BY <1>0, <2>2, <2>3, <2>4, WritersStay
<1> QED
  BY <1>0, <1>1, <1>2, <1>3, <1>4, <1>5, <1>6, <1>7, <1>8, <1>10, <1>12, <1>13, <1>14
     DEF Sorting, SortingStep
-----------------------------------------------------------------------------
(* The steps of the others *)

LEMMA NobodyMoves ==
  ASSUME Types, SortInv, UNCHANGED cmd
  PROVE  \A c \in Commands : Onward(c)
<1>1. \A c \in Commands : cmd[c].tries \in Nat
  BY CommandFacts DEF Types
<1> QED
  BY <1>1 DEF Onward, SortInv, WritingInv

\* Everything but the sorting stage, the commands and a new start.
Bystanders ==
    \/ Pump \/ ExtractionStage \/ NotificationStage \/ MistakeHead \/ LoseAnswer
    \/ \E e \in Events : RemoveHead(e)
    \/ \E o \in OverviewRooms :
        OverviewStage(o) \/ OverviewFails(o) \/ RepostOverview(o) \/ Resend(o)
    \/ Stop \/ UNCHANGED vars

\* What each of them does to the database.
LEMMA BystandersStatements ==
  ASSUME Bystanders
  PROVE  /\ UNCHANGED <<sortingVars, commandVars>>
         /\ \/ UNCHANGED <<dbVars, pump>>
            \/ \E chunk \in SUBSET mailbox : ReceiveChunk(chunk)
            \/ \E m \in Mails : StoreMail(m)
            \/ EndChunk
            \/ /\ UNCHANGED <<thread, pump>>
               /\ \/ \E m \in Mails : UpdateExtractedMessages(m)
                  \/ UpdateMailMatrixId(notifier.mail, notifier.id) /\ notifier.pc = "record mail"
                  \/ \E row \in notifier.gone : RemoveMailMatrixIdsByThread(row.thread)
            \/ /\ UNCHANGED <<mail, pump>>
               /\ \/ UpdateThreadMatrixIds(notifier.head, timeline[notifier.id].room, notifier.id)
                  \/ \E row \in notifier.gone : RemoveThreadMatrixId(row.thread)
<1> USE DEF sortingVars, dbVars
<1>1. CASE Pump
  BY <1>1 DEF Pump, ReceiveChunk, StoreMail, EndChunk, pumpRest
<1>2. CASE ExtractionStage
  BY <1>2 DEF ExtractionStage, Extraction, ExtractionStep, ExtractionFails,
              ExtractionBegin, ListMailsRequiringMessageExtraction, PerformMessageExtraction,
              FinishExtraction, CancelBatch
<1>3. CASE NotificationStage \/ MistakeHead \/ LoseAnswer \/ \E e \in Events : RemoveHead(e)
  <2>1. UNCHANGED <<sortingVars, commandVars, pump>>
    BY <1>3 DEF NotificationStage, MistakeHead, LoseAnswer, RemoveHead
  <2>2. CASE \E e \in Events : RemoveHead(e)
    BY <2>1, <2>2 DEF RemoveHead, Redact
  <2>3. CASE NotifierReads \/ NotifierPosts
    BY <2>1, <2>3 DEF NotifierReads, NotifierPosts, NotificationBegin,
         ListMatrixReadyThreads, ListMatrixReadyMails, CheckThread, FindHeadRedacted,
         MistakeHeadForRedacted, LinkFails, PostHead, LinkRecreation, SendMail, AnswerLost
  <2>4. CASE NotifierWrites
    BY <2>1, <2>4 DEF NotifierWrites, RecordHead, RecordMail, ForgetHead, ForgetMails,
         ForgettingFails, SendFails, FinishNotification, NAt
  <2>5. NotifierReads \/ NotifierPosts \/ NotifierWrites \/ \E e \in Events : RemoveHead(e)
    BY <1>3 DEF NotificationStage, MistakeHead, LoseAnswer, Notification,
                NotificationStep, NotificationFails, NotifierReads, NotifierPosts,
                NotifierWrites
  <2> QED
    BY <2>2, <2>3, <2>4, <2>5
<1>4. ASSUME NEW o \in OverviewRooms,
             OverviewStage(o) \/ OverviewFails(o) \/ RepostOverview(o) \/ Resend(o)
      PROVE  UNCHANGED <<sortingVars, commandVars, dbVars, pump>>
  <2>1. UNCHANGED others
    BY <1>4 DEF OverviewStage, OverviewFails, RepostOverview, Resend
  <2>2. UNCHANGED dbVars
    BY <1>4 DEF OverviewStage, OverviewFails, RepostOverview, Resend, OverviewStep,
         ListOverviewThreads, EditThreadOverview, PostThreadOverview, PostMessage,
         OverviewMessageUpdated, UpdateFails, PostSecondOverview, RemoveLargeOverview,
         ResendThreadOverview
  <2> QED
    BY <2>1, <2>2 DEF others
<1>5. CASE Stop \/ UNCHANGED vars
  BY <1>5 DEF Stop, vars, commandVars
<1> QED
  BY <1>1, <1>2, <1>3, <1>4, <1>5 DEF Bystanders

LEMMA BystandersAside ==
  ASSUME Types, SortInv, Bystanders
  PROVE  Aside
<1> USE Names
<1>1. /\ DbTypes /\ UNCHANGED <<sorter, sortingMutex, cmd, mailbox>>
      /\ \A c \in Commands : Onward(c)
  BY BystandersStatements, NobodyMoves DEF Types, sortingVars, commandVars
<1>2. ASSUME SameRows, Stored' \subseteq Stored \cup mailbox, pump'.chunk \subseteq mailbox
      PROVE  Aside
  BY <1>1, <1>2 DEF Aside
<1>3. pump.chunk \subseteq mailbox
  BY DEF SortInv, RowsInv
<1>4. CASE UNCHANGED <<dbVars, pump>>
  BY <1>1, <1>2, <1>3, <1>4, MailsStay DEF dbVars
<1>5. ASSUME NEW chunk \in SUBSET mailbox, ReceiveChunk(chunk)
      PROVE  Aside
  <2>1. UNCHANGED <<mail, thread>> /\ pump' = [pump EXCEPT !.chunk = chunk, !.busy = TRUE,
                                                          !.added = FALSE]
    BY <1>5 DEF ReceiveChunk, dbVars
  <2>2. pump'.chunk \subseteq mailbox
    BY <2>1 DEF Types, PumpTypes
  <2> QED
    BY <1>1, <1>2, <2>1, <2>2, MailsStay
<1>6. ASSUME NEW m \in Mails, StoreMail(m)
      PROVE  Aside
  <2>1. /\ UNCHANGED thread /\ AddMail(m, TRUE) /\ m \in pump.chunk
        /\ pump' = [pump EXCEPT !.chunk = pump.chunk \ {m},
                                !.added = pump.added \/ ~mail[m].stored]
    BY <1>6 DEF StoreMail
  <2>2. pump'.chunk \subseteq mailbox /\ m \in mailbox
    BY <1>3, <2>1 DEF Types, PumpTypes
  <2> QED
    BY <1>1, <1>2, <2>1, <2>2, MailsStay
<1>7. CASE EndChunk
  <2>1. UNCHANGED <<mail, thread>> /\ pump' = [pump EXCEPT !.busy = FALSE, !.added = FALSE,
                                                          !.initial = FALSE]
    BY <1>7 DEF EndChunk, dbVars
  <2>2. pump'.chunk \subseteq mailbox
    BY <1>3, <2>1 DEF Types, PumpTypes
  <2> QED
    BY <1>1, <1>2, <2>1, <2>2, MailsStay
<1>8. CASE /\ UNCHANGED <<thread, pump>>
           /\ \/ \E m \in Mails : UpdateExtractedMessages(m)
              \/ UpdateMailMatrixId(notifier.mail, notifier.id) /\ notifier.pc = "record mail"
              \/ \E row \in notifier.gone : RemoveMailMatrixIdsByThread(row.thread)
  <2>1. notifier.pc = "record mail" => notifier.mail \in Mails
    BY DEF Types, NotifierTypes
  <2>2. SameRows /\ Stored' = Stored
    BY <1>1, <1>8, <2>1, MailsStay
  <2> QED
    BY <1>2, <1>3, <1>8, <2>2
<1>9. CASE /\ UNCHANGED <<mail, pump>>
           /\ \/ UpdateThreadMatrixIds(notifier.head, timeline[notifier.id].room, notifier.id)
              \/ \E row \in notifier.gone : RemoveThreadMatrixId(row.thread)
  <2>1. SameRows /\ Stored' = Stored
    BY <1>1, <1>9, ThreadsStay
  <2> QED
    BY <1>2, <1>3, <1>9, <2>1
<1> QED
  BY <1>4, <1>5, <1>6, <1>7, <1>8, <1>9, BystandersStatements

\* The four steps of a reply that Aside leaves out.
Writes(c) == ReplyLock(c) \/ ReplyStore(c) \/ ReplyAddMail(c) \/ ReplyJoinThread(c)

\* c goes on with record w.
Advances(c, w) ==
    /\ cmd' = [cmd EXCEPT ![c] = w]
    /\ w.tries \in Nat /\ w.tries >= cmd[c].tries
    /\ w.pc \in ReplySteps => Kind[c] = "reply"
    /\ w.pc \in Unsorted => w.tries = cmd[c].tries /\ cmd[c].pc \in Unsorted
    /\ w.pc \in Unwritten => w.tries > cmd[c].tries \/ cmd[c].pc \in Unwritten
    /\ w.pc \in Writing => cmd[c].pc \in Writing

\* The other commands, and the other steps of a reply.
LEMMA CommandsAside ==
  ASSUME Types, Types', SortInv, NEW c \in Commands, Command(c), ~Writes(c)
  PROVE  Aside
<1> USE Names
<1>0. /\ DbTypes /\ cmd \in [Commands -> CommandRecord] /\ cmd[c] \in CommandRecord
      /\ cmd[c].tries \in Nat /\ pump.chunk \subseteq mailbox
      /\ \A d \in Commands : cmd[d].tries \in Nat
      /\ \A d \in Commands : cmd[d].pc \in ReplySteps => Kind[d] = "reply"
      /\ cmd[c].pc \in ReplySteps => NewMail(c) \in Mails
  BY CommandFacts DEF Types, CommandTypes, CommandRecord, SortInv, RowsInv, WritingInv
<1>1. ASSUME NEW w, Advances(c, w)
      PROVE  cmd'[c] = w /\ \A d \in Commands : Onward(d)
  <2>1. \A d \in Commands : cmd'[d] = IF d = c THEN w ELSE cmd[d]
    BY <1>0, <1>1 DEF Advances
  <2>2. \A d \in Commands : d # c => Onward(d)
    BY <1>0, <2>1 DEF Onward
  <2>3. Onward(c)
    BY <1>1, <2>1 DEF Onward, Advances
  <2> QED
    BY <2>1, <2>2, <2>3
<1>2. ASSUME NEW step, Step(c, step),
             step \in ReplySteps => cmd[c].pc \in ReplySteps,
             step \in Unsorted => cmd[c].pc \in Unsorted,
             step \in Unwritten => cmd[c].pc \in Unwritten,
             step \in Writing => cmd[c].pc \in Writing
      PROVE  \A d \in Commands : Onward(d)
  <2> DEFINE w == [cmd[c] EXCEPT !.pc = step]
  <2>1. w.pc = step /\ w.tries = cmd[c].tries
    BY <1>0 DEF CommandRecord
  <2>2. cmd' = [cmd EXCEPT ![c] = w]
    BY <1>0, <1>2 DEF Step
  <2> HIDE DEF w
  <2>3. Advances(c, w)
    BY <1>0, <1>2, <2>1, <2>2 DEF Advances
  <2> QED
    BY <1>1, <2>3
<1>3. ASSUME NEW n \in Nat, n >= cmd[c].tries,
             cmd' = [cmd EXCEPT ![c] = [NewCommand EXCEPT !.tries = n]]
      PROVE  cmd'[c].pc = "idle" /\ \A d \in Commands : Onward(d)
  <2> DEFINE w == [NewCommand EXCEPT !.tries = n]
  <2>1. w.pc = "idle" /\ w.tries = n
    BY DEF NewCommand
  <2> HIDE DEF w
  <2>2. w.pc \notin ReplySteps \cup Unsorted \cup Unwritten \cup Writing
    BY <2>1 DEF ReplySteps, Unsorted, Unwritten, Writing
  <2>3. Advances(c, w)
    BY <1>3, <2>1, <2>2 DEF Advances, w
  <2> QED
    BY <1>1, <2>1, <2>3
<1>4. ASSUME Finish(c)
      PROVE  cmd'[c].pc = "idle" /\ \A d \in Commands : Onward(d)
  <2>1. cmd[c].tries >= cmd[c].tries
    BY <1>0
  <2> QED
    BY <1>0, <1>3, <1>4, <2>1 DEF Finish
<1>5. UNCHANGED <<sorter, pump>>
  BY DEF Command, Issue, SetThreadState, MoveStart, ReplyStart, CommandStep,
         MoveForgetHead, MoveForgetMails, MoveRehome, MoveRequest, ReplyFindOriginal,
         ReplyLock, ReplySend, ReplyStore, ReplyAddMail, ReplySetMessages,
         ReplyJoinThread, ReplyTouchThread, ReplyRecord, StagesAnswer, ReplySendFails,
         sortingVars
<1>6. ASSUME SameRows, Stored' = Stored, UNCHANGED mailbox,
             UNCHANGED sortingMutex \/ Released, \A d \in Commands : Onward(d)
      PROVE  Aside
  BY <1>0, <1>5, <1>6 DEF Aside
<1>7. UNCHANGED dbVars => SameRows /\ Stored' = Stored
  BY <1>0, MailsStay DEF dbVars
<1>8. ASSUME NEW e \in Events, SetThreadState(c, e)
      PROVE  Aside
  <2>1. /\ UNCHANGED <<mail, mailbox, sortingMutex>>
        /\ UpdateThreadEnabled(timeline[e].room, e, Enables(c), Forces(c))
        /\ cmd[c].tries = 0
    BY <1>8 DEF SetThreadState, sortingVars
  <2>2. SameRows /\ Stored' = Stored
    BY <1>0, <2>1, ThreadsStay
  <2>3. PICK pc \in {"idle", "wait"} :
          cmd' = [cmd EXCEPT ![c] = [NewCommand EXCEPT !.tries = 1,
                                        !.room = timeline[e].room, !.pc = pc]]
    BY <1>8 DEF SetThreadState
  <2> DEFINE w == [NewCommand EXCEPT !.tries = 1, !.room = timeline[e].room, !.pc = pc]
  <2>4. w.pc \in {"idle", "wait"} /\ w.tries = 1 /\ cmd' = [cmd EXCEPT ![c] = w]
    BY <2>3 DEF NewCommand
  <2> HIDE DEF w
  <2>5. w.pc \notin ReplySteps \cup Unsorted \cup Unwritten \cup Writing
    BY <2>4 DEF ReplySteps, Unsorted, Unwritten, Writing
  <2>6. Advances(c, w)
    BY <2>1, <2>4, <2>5 DEF Advances
  <2>7. \A d \in Commands : Onward(d)
    BY <1>1, <2>6
  <2> QED
    BY <1>6, <2>1, <2>2, <2>7
<1>9. ASSUME NEW e \in Events, MoveStart(c, e)
      PROVE  Aside
  <2>1. UNCHANGED <<dbVars, mailbox, sortingMutex>> /\ cmd[c].tries = 0 /\ cmd[c].pc = "idle"
    BY <1>9 DEF MoveStart, sortingVars
  <2>2. ASSUME NEW w, cmd' = [cmd EXCEPT ![c] = w], w.pc \in {"idle", "forget head"},
               w.tries = 1
        PROVE  Aside
    <3>1. w.pc \notin ReplySteps \cup Unsorted \cup Unwritten \cup Writing
      BY <2>2 DEF ReplySteps, Unsorted, Unwritten, Writing
    <3>2. w.tries \in Nat /\ w.tries >= cmd[c].tries
      <4>1. w.tries = 1 /\ cmd[c].tries = 0
        BY <2>1, <2>2
      <4>2. 1 \in Nat /\ 1 >= 0
        OBVIOUS
      <4> QED
        BY <4>1, <4>2, Zenon
    <3>3. Advances(c, w)
      BY <2>2, <3>1, <3>2, Zenon DEF Advances
    <3>4. \A d \in Commands : Onward(d)
      BY <1>1, <3>3
    <3> QED
      BY <1>6, <1>7, <2>1, <3>4
  <2>3. CASE cmd' = [cmd EXCEPT ![c].tries = 1]
    <3> DEFINE w == [cmd[c] EXCEPT !.tries = 1]
    <3>1. w.pc = "idle" /\ w.tries = 1 /\ cmd' = [cmd EXCEPT ![c] = w]
      BY <1>0, <2>1, <2>3 DEF CommandRecord
    <3> HIDE DEF w
    <3> QED
      BY <2>2, <3>1
  <2>4. ASSUME NEW t, cmd' = [cmd EXCEPT ![c] = [pc |-> "forget head", event |-> e,
                            room |-> timeline[e].room, thread |-> t, tries |-> 1]]
        PROVE  Aside
    BY <2>2, <2>4
  <2> QED
    BY <1>9, <2>3, <2>4 DEF MoveStart
<1>10. ASSUME NEW e \in Events, ReplyStart(c, e)
       PROVE  Aside
  <2>1. UNCHANGED <<dbVars, mailbox, sortingMutex>> /\ Kind[c] = "reply"
    BY <1>10 DEF ReplyStart, sortingVars
  <2>2. CASE cmd' = [cmd EXCEPT ![c] = [NewCommand EXCEPT !.tries = cmd[c].tries + 1]]
    <3> DEFINE n == cmd[c].tries + 1
    <3>0. n \in Nat /\ n >= cmd[c].tries
      BY <1>0
    <3> HIDE DEF n
    <3>1. \A d \in Commands : Onward(d)
      BY <1>3, <2>2, <3>0 DEF n
    <3> QED
      BY <1>6, <1>7, <2>1, <3>1
  <2> DEFINE w == [NewCommand EXCEPT !.tries = cmd[c].tries + 1, !.event = e,
                                     !.pc = "find original", !.room = timeline[e].room]
  <2>3. CASE cmd' = [cmd EXCEPT ![c] = w]
    <3>1. w.pc = "find original" /\ w.tries = cmd[c].tries + 1
      BY DEF NewCommand
    <3> HIDE DEF w
    <3>2. w.pc \notin Unsorted \cup Writing
      BY <3>1 DEF Unsorted, Writing
    <3>3. w.tries \in Nat /\ w.tries > cmd[c].tries /\ w.tries >= cmd[c].tries
      <4>1. cmd[c].tries \in Nat => /\ cmd[c].tries + 1 \in Nat
                                   /\ cmd[c].tries + 1 > cmd[c].tries
                                   /\ cmd[c].tries + 1 >= cmd[c].tries
        OBVIOUS
      <4> QED
        BY <1>0, <3>1, <4>1, Zenon
    <3>4. Advances(c, w)
      BY <2>1, <2>3, <3>2, <3>3, Zenon DEF Advances
    <3>5. \A d \in Commands : Onward(d)
      BY <1>1, <3>4
    <3> QED
      BY <1>6, <1>7, <2>1, <3>5
  <2> QED
    BY <1>10, <2>2, <2>3 DEF ReplyStart
<1>11. CASE MoveForgetHead(c) \/ MoveForgetMails(c) \/ MoveRehome(c) \/ MoveRequest(c)
  <2>1. UNCHANGED <<sortingMutex, mailbox>>
    BY <1>11 DEF MoveForgetHead, MoveForgetMails, MoveRehome, MoveRequest, sortingVars
  <2>2. SameRows /\ Stored' = Stored
    BY <1>0, <1>7, <1>11, MailsStay, ThreadsStay
       DEF MoveForgetHead, MoveForgetMails, MoveRehome, MoveRequest
  <2>3. PICK step \in {"forget mails", "rehome", "request", "wait"} : Step(c, step)
    BY <1>11 DEF MoveForgetHead, MoveForgetMails, MoveRehome, MoveRequest
  <2>4. step \notin ReplySteps \cup Unsorted \cup Unwritten \cup Writing
    BY DEF ReplySteps, Unsorted, Unwritten, Writing
  <2>5. \A d \in Commands : Onward(d)
    BY <1>2, <2>3, <2>4
  <2> QED
    BY <1>6, <2>1, <2>2, <2>5
<1>12. CASE ReplyFindOriginal(c)
  <2>1. UNCHANGED <<dbVars, sortingMutex, mailbox>> /\ cmd[c].pc = "find original"
    BY <1>12 DEF ReplyFindOriginal, sortingVars
  <2>2. CASE Finish(c)
    BY <1>4, <1>6, <1>7, <2>1, <2>2
  <2>3. ASSUME NEW t, cmd' = [cmd EXCEPT ![c].pc = "lock", ![c].thread = t]
        PROVE  Aside
    <3> DEFINE w == [cmd[c] EXCEPT !.pc = "lock", !.thread = t]
    <3>1. w.pc = "lock" /\ w.tries = cmd[c].tries /\ cmd' = [cmd EXCEPT ![c] = w]
      BY <1>0, <2>3 DEF CommandRecord
    <3> HIDE DEF w
    <3>2. w.pc \notin Unsorted \cup Writing /\ cmd[c].pc \in ReplySteps \cap Unwritten
      BY <2>1, <3>1 DEF ReplySteps, Unsorted, Unwritten, Writing
    <3>3. Advances(c, w)
      BY <1>0, <3>1, <3>2 DEF Advances
    <3>4. \A d \in Commands : Onward(d)
      BY <1>1, <3>3
    <3> QED
      BY <1>6, <1>7, <2>1, <3>4
  <2> QED
    BY <1>12, <2>2, <2>3 DEF ReplyFindOriginal
<1>13. CASE ReplySend(c)
  <2>1. /\ UNCHANGED <<dbVars, sortingMutex, mailbox>> /\ cmd[c].pc = "send"
        /\ Step(c, "store")
    BY <1>13 DEF ReplySend, sortingVars
  <2>2. \A d \in Commands : Onward(d)
    BY <1>2, <2>1 DEF ReplySteps, Unsorted, Unwritten, Writing
  <2> QED
    BY <1>6, <1>7, <2>1, <2>2
<1>14. CASE ReplySendFails(c) \/ StagesAnswer(c)
  <2>1. UNCHANGED <<dbVars, mailbox>> /\ Finish(c)
    BY <1>14 DEF ReplySendFails, StagesAnswer
  <2>2. cmd'[c].pc \notin Writing
    BY <1>4, <2>1 DEF Writing
  <2>3. ReplySendFails(c) => sortingMutex = c /\ sortingMutex' = None
    BY DEF ReplySendFails, SortInv, MutexInv, Writing
  <2>4. UNCHANGED sortingMutex \/ Released
    BY <1>14, <2>2, <2>3 DEF StagesAnswer, Released
  <2> QED
    BY <1>4, <1>6, <1>7, <2>1, <2>4
<1>15. CASE ReplySetMessages(c)
  <2>1. /\ UNCHANGED <<thread, sortingMutex, mailbox>> /\ cmd[c].pc = "extracted"
        /\ UpdateExtractedMessages(NewMail(c)) /\ Step(c, "sort")
    BY <1>15 DEF ReplySetMessages, sortingVars
  <2>2. NewMail(c) \in Mails
    BY <1>0, <2>1 DEF ReplySteps
  <2>3. \A d \in Commands : Onward(d)
    BY <1>2, <2>1 DEF ReplySteps, Unsorted, Unwritten, Writing
  <2> QED
    BY <1>0, <1>6, <2>1, <2>2, <2>3, MailsStay
<1>16. CASE ReplyTouchThread(c)
  <2>1. /\ UNCHANGED <<mail, sortingMutex, mailbox>> /\ cmd[c].pc = "touch"
        /\ UpdateThreadLastMail(cmd[c].thread, NewMail(c)) /\ Step(c, "record")
    BY <1>16 DEF ReplyTouchThread, sortingVars
  <2>2. \A d \in Commands : Onward(d)
    BY <1>2, <2>1 DEF ReplySteps, Unsorted, Unwritten, Writing
  <2> QED
    BY <1>0, <1>6, <2>1, <2>2, ThreadsStay
<1>17. CASE ReplyRecord(c)
  <2>1. /\ UNCHANGED <<thread, sortingMutex, mailbox>> /\ cmd[c].pc = "record"
        /\ UpdateMailMatrixId(NewMail(c), c) /\ Step(c, "wait")
    BY <1>17 DEF ReplyRecord, sortingVars
  <2>2. NewMail(c) \in Mails
    BY <1>0, <2>1 DEF ReplySteps
  <2>3. \A d \in Commands : Onward(d)
    BY <1>2, <2>1 DEF ReplySteps, Unsorted, Unwritten, Writing
  <2> QED
    BY <1>0, <1>6, <2>1, <2>2, <2>3, MailsStay
<1> QED
  BY <1>8, <1>9, <1>10, <1>11, <1>12, <1>13, <1>14, <1>15, <1>16, <1>17
     DEF Command, Issue, CommandStep, Writes

\* The mails that are written here are known apart.
LEMMA RepliesDiffer ==
  ASSUME Types, NEW c \in Commands, cmd[c].pc \in ReplySteps
  PROVE  /\ NewMail(c) \in Mails /\ cmd[c].tries \in DOMAIN ReplyMails[c]
         /\ \A d \in Commands : \A i \in DOMAIN ReplyMails[d] :
                ReplyMails[d][i] = NewMail(c) => d = c /\ i = cmd[c].tries
<1>1. NewMail(c) \in Mails /\ cmd[c].tries \in DOMAIN ReplyMails[c]
  BY CommandFacts, LenProperties DEF Types
<1>2. NewMail(c) = ReplyMails[c][cmd[c].tries]
  BY DEF NewMail
<1>3. \A d \in Commands : \A i \in DOMAIN ReplyMails[d] :
        ReplyMails[d][i] = ReplyMails[c][cmd[c].tries] => d = c /\ i = cmd[c].tries
  BY <1>1, ReplyAssumption
<1> QED
  BY <1>1, <1>2, <1>3

\* After a step of c alone.
LEMMA StepTo ==
  ASSUME Types, NEW c \in Commands, NEW step, Step(c, step)
  PROVE  /\ cmd'[c].pc = step /\ cmd'[c].tries = cmd[c].tries
         /\ cmd'[c].thread = cmd[c].thread /\ cmd'[c].event = cmd[c].event
         /\ \A d \in Commands \ {c} : cmd'[d] = cmd[d]
         /\ NewMail(c)' = NewMail(c)
<1>1. cmd \in [Commands -> CommandRecord]
  BY DEF Types, CommandTypes, CommandRecord
<1>2. \A d \in Commands : cmd'[d] = IF d = c THEN [cmd[c] EXCEPT !.pc = step] ELSE cmd[d]
  BY <1>1 DEF Step
<1>3. /\ cmd'[c].pc = step /\ cmd'[c].tries = cmd[c].tries
      /\ cmd'[c].thread = cmd[c].thread /\ cmd'[c].event = cmd[c].event
  BY <1>1, <1>2 DEF CommandRecord
<1> QED
  BY <1>2, <1>3 DEF NewMail

LEMMA WritesKeepSorting ==
  ASSUME Types, SortInv, NEW c \in Commands, Command(c), Writes(c)
  PROVE  SortInv'
<1> USE Names
<1>0. /\ DbTypes /\ RowsInv /\ MutexInv /\ SorterInv /\ WritingInv
      /\ UNCHANGED <<sorter, pump>> /\ cmd[c].pc \in ReplySteps
      /\ \A d \in Commands : cmd[d].pc \in Unsorted => NewMail(d) \in Mails
  BY CommandFacts DEF Types, SortInv, Command, Writes, ReplyLock, ReplyStore, ReplyAddMail,
         ReplyJoinThread, sortingVars, ReplySteps, Unsorted
<1>1. NewMail(c) \in Mails
  BY <1>0, RepliesDiffer
<1>2. PICK step \in {"send", "add", "extracted", "touch"} : Step(c, step)
  BY DEF Writes, ReplyLock, ReplyStore, ReplyAddMail, ReplyJoinThread
<1>3. /\ cmd'[c].pc = step /\ cmd'[c].tries = cmd[c].tries
      /\ \A d \in Commands \ {c} : cmd'[d] = cmd[d]
      /\ NewMail(c)' = NewMail(c)
  BY <1>2, StepTo
<1>4. \A d \in Commands : NewMail(d)' = NewMail(d)
  BY <1>3 DEF NewMail
<1>5. \A d \in Commands : cmd'[d].pc \in ReplySteps => Kind[d] = "reply"
  BY <1>0, <1>3 DEF WritingInv
<1>6. CASE ReplyLock(c)
  <2>1. /\ UNCHANGED <<mail, thread, mailbox>> /\ cmd[c].pc = "lock"
        /\ sortingMutex = None /\ sortingMutex' = c /\ Step(c, "send")
    BY <1>6 DEF ReplyLock, dbVars
  <2>2. cmd'[c].pc = "send"
    BY <2>1, StepTo
  <2>3. SameRows /\ Stored' = Stored
    BY <1>0, <2>1, MailsStay
  <2>4. RowsInv' /\ SorterInv'
    BY <1>0, <2>1, <2>3 DEF RowsInv, SorterInv, ListStaysUnsorted
  <2>5. MutexInv'
    BY <1>0, <1>3, <2>1, <2>2 DEF MutexInv
  <2>6. NewMail(c) \notin Stored
    <3>1. Unsent(c, cmd[c].tries)
      BY <2>1 DEF Unsent, Unwritten
    <3> QED
      BY <1>0, <3>1, RepliesDiffer DEF WritingInv, NewMail
  <2>7. ~mail[NewMail(c)].sorted
    BY <1>0, <1>1, <2>6 DEF RowsInv, Stored
  <2>8. \A d \in Commands : \A i \in DOMAIN ReplyMails[d] : Unsent(d, i)' => Unsent(d, i)
    BY <1>3, <2>1 DEF Unsent, Unwritten
  <2>9. WritingInv'
    BY <1>0, <1>3, <1>4, <1>5, <2>1, <2>3, <2>7, <2>8 DEF WritingInv
  <2> QED
    BY <2>4, <2>5, <2>9 DEF SortInv
<1>7. CASE ReplyStore(c)
  <2>1. /\ UNCHANGED <<mail, thread, sortingMutex>> /\ cmd[c].pc = "store"
        /\ mailbox' \in {mailbox, mailbox \cup {NewMail(c)}} /\ Step(c, "add")
    BY <1>7 DEF ReplyStore, dbVars, sortingVars
  <2>2. cmd'[c].pc = "add"
    BY <2>1, StepTo
  <2>3. Stored' = Stored
    BY <2>1 DEF Stored
  <2>4. RowsInv' /\ SorterInv'
    BY <1>0, <2>1 DEF RowsInv, SorterInv, ListStaysUnsorted
  <2>5. MutexInv'
    BY <1>0, <1>3, <2>1, <2>2 DEF MutexInv, Writing
  <2>6. ASSUME NEW d \in Commands, NEW i \in DOMAIN ReplyMails[d], Unsent(d, i)'
        PROVE  ReplyMails[d][i] \notin mailbox' \cup Stored'
    <3>1. Unsent(d, i)
      BY <1>3, <2>1, <2>6 DEF Unsent, Unwritten
    <3>2. ReplyMails[d][i] \notin mailbox \cup Stored
      BY <1>0, <3>1 DEF WritingInv
    <3>3. ReplyMails[d][i] # NewMail(c)
      <4>1. ASSUME d = c, i = cmd[c].tries
            PROVE  FALSE
        <5>1. i \in Nat
          BY <4>1, CommandFacts DEF Types
        <5>2. Kind[c] = "reply"
          BY <1>0, <2>1 DEF WritingInv, ReplySteps
        <5>3. cmd'[d].pc \notin Unwritten /\ cmd'[d].tries = i /\ Kind[d] = "reply"
          BY <1>3, <2>2, <4>1, <5>2 DEF Unwritten
        <5>4. ~(i > i)
          BY <5>1
        <5> QED
          BY <2>6, <5>3, <5>4 DEF Unsent
      <4> QED
        BY <1>0, <4>1, RepliesDiffer
    <3> QED
      BY <2>1, <2>3, <3>2, <3>3
  <2>7. \A d \in Commands : cmd'[d].pc \in Unsorted => ~mail'[NewMail(d)'].sorted
    BY <1>0, <1>3, <1>4, <2>1 DEF WritingInv, Unsorted
  <2>8. WritingInv'
    BY <1>5, <2>6, <2>7 DEF WritingInv
  <2> QED
    BY <2>4, <2>5, <2>8 DEF SortInv
<1>8. CASE ReplyAddMail(c)
  <2>1. /\ UNCHANGED <<thread, sortingMutex, mailbox>> /\ cmd[c].pc = "add"
        /\ AddMail(NewMail(c), FALSE) /\ Step(c, "extracted")
    BY <1>8 DEF ReplyAddMail, sortingVars
  <2>2. cmd'[c].pc = "extracted"
    BY <2>1, StepTo
  <2>3. SameRows /\ Stored' = Stored \cup {NewMail(c)}
    BY <1>0, <1>1, <2>1, MailsStay
  <2>4. RowsInv'
    BY <1>0, <2>1, <2>3 DEF RowsInv, SameRows
  <2>5. SorterInv'
    <3>1. sorter.rest \subseteq Mails /\ (sorter.pc = "claim" => sorter.target \in Threads)
      BY DEF Types, SorterTypes
    <3> QED
      BY <1>0, <2>1, <2>3, <3>1 DEF SameRows, SorterInv, ListStaysUnsorted
  <2>6. MutexInv'
    BY <1>0, <1>3, <2>1, <2>2 DEF MutexInv, Writing
  <2>7. ASSUME NEW d \in Commands, NEW i \in DOMAIN ReplyMails[d], Unsent(d, i)'
        PROVE  ReplyMails[d][i] \notin mailbox' \cup Stored'
    <3>1. Unsent(d, i)
      BY <1>3, <2>1, <2>2, <2>7 DEF Unsent, Unwritten
    <3>2. ReplyMails[d][i] \notin mailbox \cup Stored
      BY <1>0, <3>1 DEF WritingInv
    <3>3. ReplyMails[d][i] # NewMail(c)
      <4>1. ASSUME d = c, i = cmd[c].tries
            PROVE  FALSE
        <5>1. i \in Nat
          BY <4>1, CommandFacts DEF Types
        <5>2. Kind[c] = "reply"
          BY <1>0, <2>1 DEF WritingInv, ReplySteps
        <5>3. cmd'[d].pc \notin Unwritten /\ cmd'[d].tries = i /\ Kind[d] = "reply"
          BY <1>3, <2>2, <4>1, <5>2 DEF Unwritten
        <5>4. ~(i > i)
          BY <5>1
        <5> QED
          BY <2>7, <5>3, <5>4 DEF Unsent
      <4> QED
        BY <1>0, <4>1, RepliesDiffer
    <3> QED
      BY <2>1, <2>3, <3>2, <3>3
  <2>8. \A d \in Commands : cmd'[d].pc \in Unsorted => ~mail'[NewMail(d)'].sorted
    BY <1>0, <1>1, <1>3, <1>4, <2>1, <2>3 DEF WritingInv, Unsorted, SameRows
  <2>9. WritingInv'
    BY <1>5, <2>7, <2>8 DEF WritingInv
  <2> QED
    BY <2>4, <2>5, <2>6, <2>9 DEF SortInv
<1>9. CASE ReplyJoinThread(c)
  <2>1. /\ UNCHANGED <<thread, sortingMutex, mailbox>> /\ cmd[c].pc = "sort"
        /\ UpdateMailSorting(NewMail(c), cmd[c].thread, mail[NewMail(c)].replyTo)
        /\ Step(c, "touch")
    BY <1>9 DEF ReplyJoinThread, sortingVars
  <2>2. cmd'[c].pc = "touch" /\ mail[NewMail(c)].stored
    BY <1>0, <2>1, StepTo DEF Types, CommandTypes, Stored
  <2>3. Sorts(NewMail(c), cmd[c].thread)
    BY <1>0, <1>1, <2>1, MailIsSorted
  <2>4. RowsInv'
    BY <1>0, <1>1, <2>1, <2>2, <2>3 DEF RowsInv, Sorts
  <2>5. sortingMutex = c
    BY <1>0, <2>1 DEF MutexInv, Writing
  <2>6. SorterInv'
    <3>1. sorter.pc \in {"rest", "lock"}
      BY <1>0, <2>5 DEF MutexInv
    <3> QED
      BY <1>0, <3>1 DEF SorterInv, ListStaysUnsorted
  <2>7. MutexInv'
    BY <1>0, <1>3, <2>1, <2>2 DEF MutexInv, Writing
  <2>8. \A d \in Commands : \A i \in DOMAIN ReplyMails[d] : Unsent(d, i)' => Unsent(d, i)
    BY <1>3, <2>1, <2>2 DEF Unsent, Unwritten
  <2>9. \A d \in Commands : cmd'[d].pc \notin Unsorted
    <3>1. \A d \in Commands \ {c} : cmd[d].pc \notin Unsorted
      BY <1>0, <2>5 DEF MutexInv, Writing, Unsorted
    <3> QED
      BY <1>3, <2>2, <3>1 DEF Unsorted
  <2>10. WritingInv'
    BY <1>0, <1>5, <2>1, <2>3, <2>8, <2>9 DEF WritingInv, Sorts
  <2> QED
    BY <2>4, <2>6, <2>7, <2>10 DEF SortInv
<1> QED
  BY <1>6, <1>7, <1>8, <1>9 DEF Writes

LEMMA StartKeepsSorting ==
  ASSUME Types, SortInv, StartAgain
  PROVE  SortInv'
<1> USE Names
<1>1. /\ UNCHANGED <<mail, thread, mailbox>> /\ sortingMutex' = None /\ pump'.chunk = {}
      /\ sorter'.pc = "rest" /\ sorter'.rest = {}
  BY DEF StartAgain, dbVars, StartedPump
<1>2. Stored' = Stored
  BY <1>1 DEF Stored
<1>3. \A c \in Commands : cmd'[c].pc = "idle" /\ cmd'[c].tries = cmd[c].tries
  <2>1. cmd' = [c \in Commands |-> [NewCommand EXCEPT !.tries = cmd[c].tries]]
    BY DEF StartAgain
  <2> QED
    BY <2>1 DEF NewCommand
<1>4. RowsInv' /\ MutexInv' /\ SorterInv'
  BY <1>1, <1>3 DEF SortInv, RowsInv, MutexInv, SorterInv, ListStaysUnsorted, Writing
<1>5. \A c \in Commands : \A i \in DOMAIN ReplyMails[c] : Unsent(c, i)' => Unsent(c, i)
  BY <1>3 DEF Unsent, Unwritten
<1>6. WritingInv'
  BY <1>1, <1>2, <1>3, <1>5 DEF SortInv, WritingInv, ReplySteps, Unsorted
<1> QED
  BY <1>4, <1>6 DEF SortInv

LEMMA InitSorting == Init => SortInv
<1> SUFFICES ASSUME Init PROVE SortInv
  OBVIOUS
<1> USE Names
<1>1. /\ mail = [m \in Mails |-> NoMail] /\ sorter.pc = "rest" /\ sorter.rest = {}
      /\ sortingMutex = None /\ pump.chunk = {} /\ mailbox = Incoming
      /\ cmd = [c \in Commands |-> NewCommand]
  BY DEF Init, DbInit, SortingInit, PumpInit, StartedPump, CommandsInit
<1>2. /\ \A m \in Mails : /\ ~mail[m].stored /\ ~mail[m].sorted /\ mail[m].thread = None
      /\ \A c \in Commands : cmd[c].pc = "idle"
  BY <1>1 DEF NoMail, NewCommand
<1>3. \A c \in Commands : \A i \in DOMAIN ReplyMails[c] :
        ReplyMails[c][i] \notin mailbox \cup Stored
  BY <1>1, <1>2, ReplyAssumption DEF Stored
<1> QED
  BY <1>1, <1>2, <1>3 DEF SortInv, RowsInv, MutexInv, SorterInv, WritingInv,
         ListStaysUnsorted, Writing, ReplySteps, Unsorted

\* The steps of the system, as the proofs tell them apart.
LEMMA Steps ==
  ASSUME [Next]_vars
  PROVE  \/ Bystanders \/ SortingStage \/ \E c \in Commands : Command(c)
         \/ Crash \/ Exit
BY DEF Next, Bystanders

LEMMA SortingKept ==
  ASSUME Types, Types', SortInv, [Next]_vars
  PROVE  SortInv'
<1>1. CASE Bystanders
  BY <1>1, BystandersAside, AsideKeepsSorting
<1>2. CASE SortingStage
  BY <1>2, SortingKeepsSorting
<1>3. ASSUME NEW c \in Commands, Command(c)
      PROVE  SortInv'
  BY <1>3, CommandsAside, AsideKeepsSorting, WritesKeepSorting
<1>4. CASE Crash \/ Exit
  BY <1>4, StartKeepsSorting DEF Crash, Exit
<1> QED
  BY <1>1, <1>2, <1>3, <1>4, Steps

LEMMA SortingAlways == Spec => [](Types /\ SortInv)
<1>1. Init => Types /\ SortInv
  BY InitTypes, InitSorting
<1>2. Types /\ SortInv /\ [Next]_vars => Types' /\ SortInv'
  BY TypesStep, SortingKept
<1> QED
  BY <1>1, <1>2, PTL DEF Spec

\* Mails are stored, replies are sorted by hand and threads are closed and moved
\* while the sorting stage works through the list it has read, and it sorts no
\* mail a second time.
THEOREM SortedOnce == Spec => []ListStaysUnsorted
<1>1. SortInv => ListStaysUnsorted
  BY DEF SortInv, SorterInv
<1> QED
  BY <1>1, SortingAlways, PTL
=============================================================================
