--------------------------- MODULE InboxThreadProofs ---------------------------
(***************************************************************************)
(* Proofs about InboxCollab: a mail never leaves its thread, every thread  *)
(* but one that a crash has left behind holds its first mail, the ids of   *)
(* the chat server stay in the right threads, and a reply gets into the    *)
(* thread of the mail it answers.                                          *)
(***************************************************************************)
EXTENDS InboxSortingProofs, FiniteSetTheorems

(* What sorting does to the tables *)

\* The mail that is sorted, and its thread, if it gets one.
SortsNext(m, t) ==
    /\ m \in Mails /\ Sorts(m, t) /\ mail[m].thread = None /\ ~mail[m].sorted
    /\ UNCHANGED thread

LEMMA SortingCases ==
  ASSUME Types, SortInv, SortingStage
  PROVE  /\ UNCHANGED <<mishaps, timeline, notifier, commandVars>> /\ Stored' = Stored
         /\ \/ SameRows /\ sorter.pc # "claim" /\ sorter'.pc # "claim"
            \/ /\ SortsNext(sorter.cur, mail'[sorter.cur].thread)
               /\ sorter.cur \in Stored /\ sortingMutex = "sorting"
               /\ sorter'.pc # "claim"
               /\ sorter.pc = "claim" => /\ mail'[sorter.cur].thread = sorter.target
                                         /\ sorter.target \in Threads
                                         /\ thread[sorter.target].first = sorter.cur
            \/ /\ UNCHANGED mail /\ sorter.pc = "head" /\ sorter'.pc = "claim"
               /\ Threads' = Threads \cup {Len(thread) + 1}
               /\ \A t \in Threads : thread'[t] = thread[t]
               /\ thread'[Len(thread) + 1].matrix = None
<1> USE Names
<1>0. /\ DbTypes /\ SorterTypes /\ sorter \in SorterRecord /\ Sorting
      /\ UNCHANGED <<mishaps, timeline, notifier, commandVars>> /\ Stored \subseteq Mails
  BY DEF Types, SorterTypes, SorterRecord, SortingStage, notifierVars, matrixVars, Stored
<1>1. sorter.pc \in {"references", "join", "head", "claim"} =>
        /\ sorter.cur \in Stored /\ mail[sorter.cur].thread = None /\ ~mail[sorter.cur].sorted
  BY <1>0 DEF SortInv, SorterInv, RowsInv, ListStaysUnsorted, SorterTypes
<1>2. CASE SortingBegin \/ LockThreadSorting \/ WaitForCompleteData \/ FinishSorting
  <2>1. /\ UNCHANGED <<mail, thread>> /\ sorter.pc # "claim"
        /\ \E step \in {"lock", "gate"} : sorter' = [sorter EXCEPT !.pc = step]
           \/ sorter' = [sorter EXCEPT !.pc = "rest", !.first = FALSE]
    BY <1>2 DEF SortingBegin, LockThreadSorting, WaitForCompleteData, FinishSorting, At, dbVars
  <2>2. sorter'.pc # "claim"
    BY <1>0, <2>1 DEF SorterRecord
  <2> QED
    BY <1>0, <2>1, <2>2, MailsStay
<1>3. CASE AutoUpdateMailSorting
  <2>1. /\ UNCHANGED thread /\ sorter.pc # "claim" /\ AutoUpdateMailReplyTo
        /\ sorter' = [sorter EXCEPT !.pc = "list"]
    BY <1>3 DEF AutoUpdateMailSorting, At
  <2>2. sorter'.pc # "claim"
    BY <1>0, <2>1 DEF SorterRecord
  <2> QED
    BY <1>0, <2>1, <2>2, MailsStay
<1>4. CASE ListMailsRequiringSorting
  <2>1. /\ UNCHANGED <<mail, thread>> /\ sorter.pc # "claim"
        /\ \/ sorter' = [sorter EXCEPT !.pc = "next", !.rest = MailsRequiringSorting]
           \/ sorter' = [sorter EXCEPT !.pc = "rest", !.first = FALSE]
    BY <1>4 DEF ListMailsRequiringSorting, At, dbVars
  <2>2. sorter'.pc # "claim"
    BY <1>0, <2>1 DEF SorterRecord
  <2> QED
    BY <1>0, <2>1, <2>2, MailsStay
<1>5. CASE LookUpReplyTo
  <2>1. UNCHANGED <<mail, thread>> /\ sorter.pc # "claim"
    BY <1>5 DEF LookUpReplyTo, At, dbVars
  <2>2. PICK t : \E m \in sorter.rest, pc \in {"join", "references"} :
          sorter' = [sorter EXCEPT !.cur = m, !.target = t, !.pc = pc]
    BY <1>5, LookedUp
  <2>3. sorter'.pc # "claim"
    BY <1>0, <2>2 DEF SorterRecord
  <2> QED
    BY <1>0, <2>1, <2>3, MailsStay
<1>6. CASE LookUpReferences
  <2>1. UNCHANGED <<mail, thread>> /\ sorter.pc # "claim"
    BY <1>6 DEF LookUpReferences, At, dbVars
  <2>2. PICK t : \E pc \in {"join", "head"} :
          sorter' = [sorter EXCEPT !.target = t, !.pc = pc]
    BY <1>0, <1>6, LookedUp
  <2>3. sorter'.pc # "claim"
    BY <1>0, <2>2 DEF SorterRecord
  <2> QED
    BY <1>0, <2>1, <2>3, MailsStay
<1>7. ASSUME SortedCurrent
      PROVE  sorter'.pc # "claim"
  <2>1. PICK pc \in {"finish", "next"} :
          sorter' = [sorter EXCEPT !.rest = sorter.rest \ {sorter.cur}, !.cur = None,
                                   !.target = None, !.pc = pc]
    BY <1>7 DEF SortedCurrent
  <2> QED
    BY <1>0, <2>1 DEF SorterRecord
<1>8. CASE TouchThread
  <2>1. /\ UNCHANGED mail /\ SortedCurrent /\ sorter.pc # "claim"
        /\ UpdateThreadLastMail(sorter.target, sorter.cur)
    BY <1>8 DEF TouchThread, At
  <2> QED
    BY <1>0, <1>7, <2>1, ThreadsStay
<1>9. ASSUME sorter.pc \in {"join", "head", "claim"}, UNCHANGED thread,
             sorter'.pc # "claim",
             \/ UpdateMailMarkSorted(sorter.cur) /\ sorter.pc = "head"
             \/ UpdateMailSorting(sorter.cur, sorter.target, mail[sorter.cur].replyTo)
      PROVE  /\ SortsNext(sorter.cur, mail'[sorter.cur].thread)
             /\ sorter.cur \in Stored /\ sortingMutex = "sorting"
             /\ sorter'.pc # "claim"
             /\ sorter.pc = "claim" => /\ mail'[sorter.cur].thread = sorter.target
                                       /\ sorter.target \in Threads
                                       /\ thread[sorter.target].first = sorter.cur
  <2>1. sorter.cur \in Mails /\ sorter.cur \in Stored
    BY <1>0, <1>1, <1>9
  <2>2. PICK t : Sorts(sorter.cur, t) /\ (sorter.pc = "claim" => t = sorter.target)
    BY <1>0, <1>9, <2>1, MailIsSorted
  <2>3. t = mail'[sorter.cur].thread
    BY <2>2 DEF Sorts
  <2>4. sortingMutex = "sorting"
    BY <1>9 DEF SortInv, MutexInv
  <2>5. sorter.pc = "claim" => /\ sorter.target \in Threads
                               /\ thread[sorter.target].first = sorter.cur
    BY <1>0 DEF SortInv, SorterInv, SorterTypes
  <2> QED
    BY <1>1, <1>9, <2>1, <2>2, <2>3, <2>4, <2>5 DEF SortsNext
<1>10. CASE JoinThread
  <2>1. /\ UNCHANGED thread /\ sorter.pc = "join" /\ sorter' = [sorter EXCEPT !.pc = "touch"]
        /\ UpdateMailSorting(sorter.cur, sorter.target, mail[sorter.cur].replyTo)
    BY <1>10 DEF JoinThread, At
  <2>2. sorter'.pc # "claim"
    BY <1>0, <2>1 DEF SorterRecord
  <2> QED
    BY <1>0, <1>9, <2>1, <2>2 DEF SortsNext, Sorts
<1>11. CASE MarkMailAsSorted \/ ClaimHead
  <2>1. /\ UNCHANGED thread /\ sorter.pc \in {"head", "claim"} /\ SortedCurrent
        /\ \/ UpdateMailMarkSorted(sorter.cur) /\ sorter.pc = "head"
           \/ UpdateMailSorting(sorter.cur, sorter.target, mail[sorter.cur].replyTo)
    BY <1>11 DEF MarkMailAsSorted, ClaimHead, At
  <2> QED
    BY <1>0, <1>7, <1>9, <2>1 DEF SortsNext, Sorts
<1>12. CASE CreateThread
  <2>1. /\ UNCHANGED mail /\ sorter.pc = "head" /\ sorter.cur \in Stored
        /\ AddThread(sorter.cur)
        /\ sorter' = [sorter EXCEPT !.pc = "claim", !.target = Len(thread) + 1]
    BY <1>1, <1>12 DEF CreateThread, At
  <2>2. Events' = Events
    BY <1>0, EventsStay
  <2>3. /\ Threads' = Threads \cup {Len(thread) + 1}
        /\ \A t \in Threads : thread'[t] = thread[t]
    BY <1>0, <2>1, <2>2, AddThreadTypes
  <2> DEFINE row == [enabled |-> TRUE, forceClose |-> FALSE, first |-> sorter.cur,
                     last |-> sorter.cur, matrix |-> None, room |-> None]
  <2>4. row \in ThreadRow /\ row.matrix = None /\ thread' = Append(thread, row)
    BY <1>0, <2>1 DEF AddThread, ThreadRow
  <2> HIDE DEF row
  <2>5. thread'[Len(thread) + 1].matrix = None
    BY <1>0, <2>4, Longer DEF DbTypes
  <2>6. sorter'.pc = "claim"
    BY <1>0, <2>1 DEF SorterRecord
  <2> QED
    BY <1>0, <2>1, <2>3, <2>5, <2>6 DEF Stored
<1> QED
  BY <1>0, <1>2, <1>3, <1>4, <1>5, <1>6, <1>8, <1>10, <1>11, <1>12
     DEF Sorting, SortingStep
-----------------------------------------------------------------------------

LEMMA WritesCases ==
  ASSUME Types, SortInv, NEW c \in Commands, Command(c), Writes(c)
  PROVE  /\ UNCHANGED <<sorter, mishaps>>
         /\ \/ SameRows
            \/ SortsNext(NewMail(c), cmd[c].thread) /\ cmd[c].pc = "sort"
<1> USE Names
<1>0. /\ DbTypes /\ UNCHANGED <<sorter, mishaps>>
      /\ cmd[c].pc \in ReplySteps => NewMail(c) \in Mails
  BY CommandFacts DEF Types, Command, Writes, ReplyLock, ReplyStore, ReplyAddMail,
         ReplyJoinThread, sortingVars
<1>1. CASE ReplyLock(c) \/ ReplyStore(c)
  BY <1>0, <1>1, MailsStay DEF ReplyLock, ReplyStore, dbVars
<1>2. CASE ReplyAddMail(c)
  <2>1. UNCHANGED thread /\ AddMail(NewMail(c), FALSE) /\ cmd[c].pc = "add"
    BY <1>2 DEF ReplyAddMail
  <2> QED
    BY <1>0, <2>1, MailsStay DEF ReplySteps
<1>3. CASE ReplyJoinThread(c)
  <2>1. /\ UNCHANGED thread /\ cmd[c].pc = "sort"
        /\ UpdateMailSorting(NewMail(c), cmd[c].thread, mail[NewMail(c)].replyTo)
    BY <1>3 DEF ReplyJoinThread
  <2>2. NewMail(c) \in Mails
    BY <1>0, <2>1 DEF ReplySteps
  <2>3. ~mail[NewMail(c)].sorted /\ mail[NewMail(c)].thread = None
    BY <2>1, <2>2 DEF SortInv, WritingInv, RowsInv, Unsorted
  <2>4. Sorts(NewMail(c), cmd[c].thread)
    BY <1>0, <2>1, <2>2, MailIsSorted
  <2> QED
    BY <1>0, <2>1, <2>2, <2>3, <2>4 DEF SortsNext
<1> QED
  BY <1>0, <1>1, <1>2, <1>3 DEF Writes

\* A mail that is in a thread stays there, and a thread keeps its first mail.
Settled ==
    /\ \A m \in Mails : mail[m].thread # None => mail'[m].thread = mail[m].thread
    /\ Threads \subseteq Threads'
    /\ \A t \in Threads : thread'[t].first = thread[t].first

LEMMA Settling ==
  /\ SameRows => Settled /\ Threads' = Threads
  /\ \A m, t : SortsNext(m, t) => Settled /\ Threads' = Threads
BY DEF SameRows, SortsNext, Sorts, Settled

\* Whatever is not done by the sorting stage.
LEMMA NotSortingCases ==
  ASSUME Types, Types', SortInv, [Next]_vars, ~SortingStage
  PROVE  /\ Settled /\ Threads' = Threads
         /\ mishaps' \in Nat /\ mishaps' >= mishaps
         /\ \/ UNCHANGED sorter
            \/ mishaps' = mishaps + 1 /\ sorter'.pc = "rest"
            \/ sorter.pc = "rest" /\ sorter'.pc = "rest"
<1> USE Names
<1>0. mishaps \in Nat /\ mishaps' \in Nat /\ DbTypes
  BY DEF Types, PumpTypes
<1>1. CASE Bystanders
  <2>1. SameRows /\ UNCHANGED sorter
    BY <1>1, BystandersAside DEF Aside
  <2>2. mishaps' = mishaps \/ mishaps' = mishaps + 1
    BY <1>1 DEF Bystanders, Pump, ReceiveChunk, StoreMail, EndChunk, pumpRest,
         ExtractionStage, NotificationStage, MistakeHead, LoseAnswer, RemoveHead,
         OverviewStage, OverviewFails, RepostOverview, Resend, Stop, vars, Mishap
  <2> QED
    BY <1>0, <2>1, <2>2, Settling
<1>2. ASSUME NEW c \in Commands, Command(c)
      PROVE  Settled /\ Threads' = Threads /\ UNCHANGED <<sorter, mishaps>>
  <2>1. CASE Writes(c)
    BY <1>2, <2>1, WritesCases, Settling
  <2>2. CASE ~Writes(c)
    <3>1. SameRows /\ UNCHANGED sorter
      BY <1>2, <2>2, CommandsAside DEF Aside
    <3> QED
      BY <1>2, <3>1, Settling DEF Command
  <2> QED
    BY <2>1, <2>2
<1>3. CASE Crash \/ Exit
  <2>1. UNCHANGED <<mail, thread>> /\ sorter'.pc = "rest"
    BY <1>3 DEF Crash, Exit, StartAgain, dbVars
  <2>2. \/ mishaps' = mishaps + 1
        \/ mishaps' = mishaps /\ sorter.pc = "rest"
    BY <1>3 DEF Crash, Exit, Mishap, AtRest
  <2> QED
    BY <1>0, <2>1, <2>2, MailsStay, Settling
<1> QED
  BY <1>0, <1>1, <1>2, <1>3, Steps

\* No mail ever leaves its thread.
LEMMA StaySettled ==
  ASSUME Types, Types', SortInv, [Next]_vars
  PROVE  Settled
<1>1. CASE SortingStage
  BY <1>1, SortingCases, Settling DEF Settled
<1> QED
  BY <1>1, NotSortingCases
-----------------------------------------------------------------------------
(* The first mail of a thread *)

Unclaimed == IF sorter.pc = "claim" THEN 1 ELSE 0

LEMMA HeadlessThreads ==
  ASSUME Types
  PROVE  /\ IsFiniteSet(Headless) /\ Cardinality(Headless) \in Nat
         /\ \A S : S \subseteq Headless => Cardinality(S) <= Cardinality(Headless)
<1>1. Threads = 1 .. Len(thread) /\ Len(thread) \in Nat
  BY ThreadsAreNumbers DEF Types
<1>2. IsFiniteSet(Threads)
  BY <1>1, FS_Interval
<1>3. Headless \in SUBSET Threads
  BY DEF Headless
<1>4. IsFiniteSet(Headless)
  BY <1>2, <1>3, FS_Subset
<1> QED
  BY <1>4, FS_CardinalityType, FS_Subset

\* A thread that has its first mail keeps it.
LEMMA HeadsStay ==
  ASSUME Types, Settled
  PROVE  Headless' \subseteq Headless \cup (Threads' \ Threads)
<1> USE Names
<1>1. ASSUME NEW t \in Threads, mail[thread[t].first].thread = t
      PROVE  mail'[thread'[t].first].thread = t
  <2>1. thread[t].first \in Mails /\ t # None
    BY ThreadsAreNumbers DEF Types, DbTypes, Stored
  <2> QED
    BY <1>1, <2>1 DEF Settled
<1> QED
  BY <1>1 DEF Headless, Settled

LEMMA HeadsKept ==
  ASSUME Types, Types', SortInv, HeadsBelong, [Next]_vars
  PROVE  HeadsBelong'
<1> USE Names
<1>0. /\ mishaps \in Nat /\ Cardinality(Headless) <= mishaps + Unclaimed
      /\ IsFiniteSet(Headless) /\ Cardinality(Headless) \in Nat
      /\ Headless' \subseteq Headless \cup (Threads' \ Threads)
  BY HeadlessThreads, HeadsStay, StaySettled DEF Types, PumpTypes, HeadsBelong, Unclaimed
<1>1. ASSUME Headless' \subseteq Headless
      PROVE  Cardinality(Headless') <= Cardinality(Headless) /\ Cardinality(Headless') \in Nat
  <2>1. Headless' \in SUBSET Headless
    BY <1>1
  <2> QED
    BY <1>0, <2>1, FS_Subset, FS_CardinalityType
<1>2. CASE ~SortingStage
  <2>1. Cardinality(Headless') <= Cardinality(Headless) /\ Cardinality(Headless') \in Nat
    BY <1>0, <1>1, <1>2, NotSortingCases
  <2>2. mishaps' \in Nat /\ mishaps' >= mishaps /\ mishaps + Unclaimed <= mishaps' + Unclaimed'
    BY <1>0, <1>2, NotSortingCases DEF Unclaimed
  <2>3. Unclaimed \in Nat /\ Unclaimed' \in Nat
    BY DEF Unclaimed
  <2>4. Cardinality(Headless') <= mishaps' + Unclaimed'
    BY <1>0, <2>1, <2>2, <2>3
  <2> QED
    BY <2>4 DEF HeadsBelong, Unclaimed
<1>3. CASE SortingStage
  <2>0. UNCHANGED mishaps
    BY <1>3, SortingCases
  <2>1. CASE SameRows /\ sorter.pc # "claim" /\ sorter'.pc # "claim"
    <3>1. Cardinality(Headless') <= Cardinality(Headless) /\ Cardinality(Headless') \in Nat
      BY <1>0, <1>1, <2>1, Settling
    <3>2. Unclaimed = 0 /\ Unclaimed' = 0
      BY <2>1 DEF Unclaimed
    <3>3. Cardinality(Headless') <= mishaps' + Unclaimed'
      BY <1>0, <2>0, <3>1, <3>2
    <3> QED
      BY <3>3 DEF HeadsBelong, Unclaimed
  <2>2. CASE /\ SortsNext(sorter.cur, mail'[sorter.cur].thread)
             /\ sorter'.pc # "claim"
             /\ sorter.pc = "claim" => /\ mail'[sorter.cur].thread = sorter.target
                                       /\ sorter.target \in Threads
                                       /\ thread[sorter.target].first = sorter.cur
    <3>1. Headless' \subseteq Headless
      BY <1>0, <2>2, Settling
    <3>2. CASE sorter.pc # "claim"
      <4>1. Unclaimed = 0 /\ Unclaimed' = 0
        BY <2>2, <3>2 DEF Unclaimed
      <4>2. Cardinality(Headless') <= mishaps' + Unclaimed'
        BY <1>0, <1>1, <2>0, <3>1, <4>1
      <4> QED
        BY <4>2 DEF HeadsBelong, Unclaimed
    <3>3. CASE sorter.pc = "claim"
      <4>1. sorter.target \in Headless
        BY <2>2, <3>3, ThreadsAreNumbers DEF Headless, SortsNext, Types
      <4>2. sorter.target \notin Headless'
        BY <2>2, <3>3 DEF Headless, SortsNext
      <4>3. Headless' \in SUBSET (Headless \ {sorter.target})
        BY <3>1, <4>2
      <4>4. /\ IsFiniteSet(Headless \ {sorter.target})
            /\ Cardinality(Headless \ {sorter.target}) = Cardinality(Headless) - 1
        BY <1>0, <4>1, FS_RemoveElement
      <4>5. Cardinality(Headless') <= Cardinality(Headless) - 1 /\ Cardinality(Headless') \in Nat
        BY <4>3, <4>4, FS_Subset, FS_CardinalityType
      <4>6. Unclaimed = 1 /\ Unclaimed' = 0
        BY <2>2, <3>3 DEF Unclaimed
      <4>7. Cardinality(Headless') <= mishaps' + Unclaimed'
        BY <1>0, <2>0, <4>5, <4>6
      <4> QED
        BY <4>7 DEF HeadsBelong, Unclaimed
    <3> QED
      BY <3>2, <3>3
  <2>3. CASE /\ sorter.pc = "head" /\ sorter'.pc = "claim"
             /\ Threads' = Threads \cup {Len(thread) + 1}
    <3> DEFINE more == Headless \cup {Len(thread) + 1}
    <3>1. Headless' \in SUBSET more
      BY <1>0, <2>3
    <3>2. /\ IsFiniteSet(more)
          /\ Cardinality(more) \in {Cardinality(Headless), Cardinality(Headless) + 1}
      BY <1>0, FS_AddElement
    <3>3. /\ Cardinality(Headless') <= Cardinality(more)
          /\ Cardinality(Headless') \in Nat
      BY <3>1, <3>2, FS_Subset, FS_CardinalityType
    <3> HIDE DEF more
    <3>4. Unclaimed = 0 /\ Unclaimed' = 1
      BY <2>3 DEF Unclaimed
    <3>5. Cardinality(Headless') <= mishaps' + Unclaimed'
      BY <1>0, <2>0, <3>2, <3>3, <3>4
    <3> QED
      BY <3>5 DEF HeadsBelong, Unclaimed
  <2> QED
    BY <1>3, <2>1, <2>2, <2>3, SortingCases
<1> QED
  BY <1>2, <1>3

\* Every thread holds its first mail, but for one that is being created and one
\* for every crash between the two statements of CreateThread: neither a reply
\* that is sorted meanwhile nor a second run takes a first mail away.
THEOREM FirstMailsBelong == Spec => []HeadsBelong
<1>1. Init => HeadsBelong
  <2> SUFFICES ASSUME Init PROVE HeadsBelong
    OBVIOUS
  <2>1. Headless = {} /\ mishaps = 0 /\ sorter.pc # "claim"
    BY DEF Init, DbInit, SortingInit, Headless, Threads
  <2>2. Cardinality(Headless) = 0
    BY <2>1, FS_EmptySet
  <2> QED
    BY <2>1, <2>2 DEF HeadsBelong
<1>2. Types /\ Types' /\ SortInv /\ HeadsBelong /\ [Next]_vars => HeadsBelong'
  BY HeadsKept
<1> QED
  BY <1>1, <1>2, SortingAlways, PTL DEF Spec
-----------------------------------------------------------------------------
(* What the notification stage does *)

\* The stage looks at the tables, or starts again, or ends its run. What it has
\* posted it forgets to record, and a thread it forgets halfway, only after it
\* has been stopped. It holds a thread back with all its mails.
Looks ==
    /\ UNCHANGED <<mail, thread, timeline>>
    /\ notifier'.mails \subseteq notifier.mails
    /\ notifier'.pc \notin {"record head", "record mail", "forget mails"}
    /\ notifier.pc \in {"record mail", "forget mails"} => Cancelled
    /\ notifier'.pc \in {"check", "send"} =>
        /\ notifier.pc \in {"check", "record mail"}
        /\ \A row \in notifier'.mails : \A other \in notifier.mails :
            other.thread = row.thread => other \in notifier'.mails
    /\ notifier'.pc = "forget head" => \E row : notifier'.gone = {row}

ListsMails ==
    /\ UNCHANGED <<mail, thread, timeline>>
    /\ \A row \in notifier'.mails :
        /\ row.id \in MatrixReadyMails /\ row.thread = mail[row.id].thread
        /\ row.root = thread[row.thread].matrix /\ row.room = thread[row.thread].room
        /\ \A m \in MatrixReadyMails : \E other \in notifier'.mails : other.id = m
        /\ ~Cancelled
    /\ notifier'.pc \in {"send", "check"} /\ notifier.pc \in {"mails", "post"}

\* e is posted, and what is read has not changed.
Posting(e) ==
    /\ UNCHANGED <<mail, thread>> /\ e \in Event
    /\ timeline' = Append(timeline, e)
    /\ notifier.pc \in {"post", "link", "send"}

PostsHead(t, room) ==
    /\ Posting(HeadEvent(t, room))
    /\ notifier'.mails = notifier.mails /\ notifier'.pc = "record head"
    /\ notifier'.head = t /\ notifier'.id = Len(timeline) + 1

PostsLink ==
    /\ \E e : Posting(e) /\ e.kind = "link"
    /\ notifier'.mails = notifier.mails /\ notifier'.pc = "post"

PostsMail(row) ==
    /\ row \in NextMails /\ notifier.pc = "send"
    /\ row \in notifier.mails /\ Posting(MailEvent(row.id, row.room, row.root))
    /\ \/ /\ notifier'.mails = notifier.mails \ {row} /\ notifier'.pc = "record mail"
          /\ notifier'.mail = row.id /\ notifier'.id = Len(timeline) + 1
       \/ /\ notifier'.mails = {} /\ notifier'.pc \in {"threads", "rest"}
          /\ mishaps' = mishaps + 1

RecordsHead ==
    /\ UNCHANGED <<mail, timeline>> /\ notifier.pc = "record head"
    /\ UpdateThreadMatrixIds(notifier.head, timeline[notifier.id].room, notifier.id)
    /\ notifier'.mails = notifier.mails /\ notifier'.pc = "link"

RecordsMail ==
    /\ UNCHANGED <<thread, timeline>> /\ notifier.pc = "record mail"
    /\ UpdateMailMatrixId(notifier.mail, notifier.id)
    /\ notifier'.mails = notifier.mails /\ notifier'.pc = "send"

ForgetsHead(row) ==
    /\ UNCHANGED <<mail, timeline>> /\ notifier.pc = "forget head"
    /\ row \in notifier.gone /\ RemoveThreadMatrixId(row.thread)
    /\ notifier'.mails = notifier.mails /\ notifier'.pc = "forget mails"
    /\ notifier'.gone = notifier.gone

ForgetsMails(row) ==
    /\ UNCHANGED <<thread, timeline>> /\ notifier.pc = "forget mails"
    /\ row \in notifier.gone /\ RemoveMailMatrixIdsByThread(row.thread)
    /\ notifier'.mails = {} /\ notifier'.pc \in {"threads", "rest"}

LEMMA NotifierCases ==
  ASSUME Types, NotificationStage \/ MistakeHead \/ LoseAnswer
  PROVE  \/ Looks \/ ListsMails \/ PostsLink \/ RecordsHead \/ RecordsMail
         \/ \E t \in Threads, room \in Rooms : PostsHead(t, room)
         \/ \E row \in ReplyRow : PostsMail(row) \/ ForgetsHead(row) \/ ForgetsMails(row)
<1> USE Names
<1>0. /\ NotifierTypes /\ ChatTypes /\ DbTypes /\ notifier \in NotifierRecord
      /\ \A row \in notifier.mails \cup notifier.gone : row \in ReplyRow
      /\ \A row \in notifier.threads : row \in HeadRow /\ row.id \in Threads
      /\ Threads \subseteq Nat
  BY ThreadsAreNumbers DEF Types, NotifierTypes, NotifierRecord
<1>1. CASE NotificationBegin \/ LinkFails
  <2>1. /\ UNCHANGED <<mail, thread, timeline>> /\ notifier.pc \in {"rest", "link"}
        /\ \/ notifier' = [notifier EXCEPT !.pc = "threads"]
           \/ notifier' = [notifier EXCEPT !.pc = "post", !.head = None, !.id = None]
    BY <1>1 DEF NotificationBegin, LinkFails, NAt, dbVars, matrixVars
  <2> QED
    BY <1>0, <2>1 DEF Looks, NotifierRecord
<1>2. CASE ListMatrixReadyThreads
  <2>1. /\ UNCHANGED <<mail, thread, timeline>> /\ notifier.pc = "threads"
        /\ \E rows : \E pc \in {"mails", "post"} :
            notifier' = [notifier EXCEPT !.pc = pc, !.threads = rows]
    BY <1>2 DEF ListMatrixReadyThreads, NAt, dbVars, matrixVars
  <2> QED
    BY <1>0, <2>1 DEF Looks, NotifierRecord
<1>3. CASE ListMatrixReadyMails
  <2> DEFINE listed == IF Cancelled THEN {} ELSE MatrixReadyMails
             rows == {[id |-> m, thread |-> mail[m].thread,
                       root |-> thread[mail[m].thread].matrix,
                       room |-> thread[mail[m].thread].room] : m \in listed}
             pc == IF listed = {} THEN "send" ELSE "check"
             touched == IF NAt("mails") /\ listed = {} THEN {} ELSE notifier.touched
             unchecked == {mail[m].thread : m \in listed}
  <2>1. /\ UNCHANGED <<mail, thread, timeline>> /\ notifier.pc \in {"mails", "post"}
        /\ notifier' = [notifier EXCEPT !.pc = pc, !.touched = touched, !.mails = rows,
                                        !.unchecked = unchecked, !.valid = {}]
    BY <1>3 DEF ListMatrixReadyMails, NAt, dbVars, matrixVars
  <2>2. pc \in {"send", "check"}
    OBVIOUS
  <2>3. \A row \in rows : /\ row.id \in MatrixReadyMails /\ row.thread = mail[row.id].thread
                          /\ row.root = thread[row.thread].matrix
                          /\ row.room = thread[row.thread].room /\ ~Cancelled
    OBVIOUS
  <2>5. ~Cancelled => \A m \in MatrixReadyMails : \E other \in rows : other.id = m
    <3> SUFFICES ASSUME ~Cancelled, NEW m \in MatrixReadyMails
                 PROVE  \E other \in rows : other.id = m
      OBVIOUS
    <3> DEFINE other == [id |-> m, thread |-> mail[m].thread,
                         root |-> thread[mail[m].thread].matrix,
                         room |-> thread[mail[m].thread].room]
    <3>1. other \in rows /\ other.id = m
      OBVIOUS
    <3> QED
      BY <3>1
  <2> HIDE DEF pc, touched, rows, unchecked
  <2>4. notifier'.pc = pc /\ notifier'.mails = rows
    BY <1>0, <2>1 DEF NotifierRecord
  <2> QED
    BY <2>1, <2>2, <2>3, <2>4, <2>5 DEF ListsMails
<1>4. CASE \E t \in Threads : CheckThread(t)
  <2>1. PICK t \in Threads : CheckThread(t)
    BY <1>4
  <2> DEFINE ready == Cancelled \/ \A m \in MailsByThread(t) : mail[m].extracted
             valid == notifier.valid \cup {u \in {t} : ready}
             left == notifier.unchecked \ {t}
             rows == IF left = {} THEN {row \in notifier.mails : row.thread \in valid}
                     ELSE notifier.mails
             good == IF left = {} THEN {} ELSE valid
             pc == IF left = {} THEN "send" ELSE "check"
  <2>2. /\ UNCHANGED <<mail, thread, timeline>> /\ notifier.pc = "check"
        /\ notifier' = [notifier EXCEPT !.unchecked = left, !.valid = good,
                                        !.mails = rows, !.pc = pc]
    BY <2>1 DEF CheckThread, NAt, dbVars, matrixVars
  <2>3. /\ pc \in {"send", "check"} /\ rows \subseteq notifier.mails
        /\ \A row \in rows : \A other \in notifier.mails :
            other.thread = row.thread => other \in rows
    OBVIOUS
  <2> HIDE DEF left, good, rows, pc
  <2> QED
    BY <1>0, <2>2, <2>3 DEF Looks, NotifierRecord
<1>5. CASE FindHeadRedacted \/ MistakeHeadForRedacted
  <2>1. /\ UNCHANGED <<mail, thread, timeline>> /\ notifier.pc = "send"
        /\ \E row : notifier' = [notifier EXCEPT !.pc = "forget head", !.gone = {row}]
    BY <1>5 DEF FindHeadRedacted, MistakeHeadForRedacted, NAt, dbVars, matrixVars
  <2> QED
    BY <1>0, <2>1 DEF Looks, NotifierRecord
<1>6. ASSUME CallAgain
      PROVE  notifier'.mails = {} /\ notifier'.pc \in {"threads", "rest"}
  <2>1. \/ notifier' = IdleNotifier
        \/ notifier' = [notifier EXCEPT !.pc = "threads", !.mails = {}, !.gone = {}]
    BY <1>6 DEF CallAgain
  <2>2. IdleNotifier.mails = {} /\ IdleNotifier.pc = "rest"
    BY DEF IdleNotifier
  <2> QED
    BY <1>0, <2>1, <2>2 DEF NotifierRecord
<1>7. CASE ForgettingFails \/ SendFails \/ FinishNotification
  <2>1. /\ UNCHANGED <<mail, thread, timeline>> /\ notifier.pc # "record mail"
        /\ notifier.pc = "forget mails" => Cancelled
        /\ CallAgain \/ notifier' = IdleNotifier
    BY <1>7 DEF ForgettingFails, SendFails, FinishNotification, NAt, dbVars, matrixVars
  <2>2. notifier'.mails = {} /\ notifier'.pc \in {"threads", "rest"}
    <3>1. IdleNotifier.mails = {} /\ IdleNotifier.pc = "rest"
      BY DEF IdleNotifier
    <3> QED
      BY <1>6, <2>1, <3>1
  <2> QED
    BY <2>1, <2>2 DEF Looks
<1>8. CASE PostHead
  <2>1. PICK row \in notifier.threads :
          LET room == IF row.room = None THEN HomeRoom[row.first] ELSE row.room
          IN  /\ timeline' = Append(timeline, HeadEvent(row.id, room))
              /\ notifier' = [notifier EXCEPT !.pc = "record head",
                                              !.threads = notifier.threads \ {row},
                                              !.head = row.id,
                                              !.id = Len(timeline) + 1]
    BY <1>8 DEF PostHead
  <2> DEFINE room == IF row.room = None THEN HomeRoom[row.first] ELSE row.room
  <2>2. room \in Rooms /\ row.id \in Threads /\ row.id \in Nat
    BY <1>0, MailAssumption DEF HeadRow
  <2>3. /\ UNCHANGED <<mail, thread>> /\ notifier.pc = "post"
        /\ timeline' = Append(timeline, HeadEvent(row.id, room))
        /\ notifier' = [notifier EXCEPT !.pc = "record head",
                                        !.threads = notifier.threads \ {row},
                                        !.head = row.id, !.id = Len(timeline) + 1]
    BY <1>8, <2>1 DEF PostHead, NAt, dbVars
  <2> HIDE DEF room
  <2>4. HeadEvent(row.id, room) \in Event
    BY <2>2 DEF HeadEvent, Event
  <2>5. PostsHead(row.id, room)
    BY <1>0, <2>3, <2>4 DEF PostsHead, Posting, NotifierRecord
  <2> QED
    BY <2>2, <2>5
<1>9. CASE LinkRecreation
  <2>1. /\ UNCHANGED <<mail, thread>> /\ notifier.pc = "link" /\ notifier.id \in Events
        /\ notifier' = [notifier EXCEPT !.pc = "post", !.head = None, !.id = None]
    BY <1>0, <1>9 DEF LinkRecreation, NAt, NotifierTypes, dbVars
  <2>2. notifier'.mails = notifier.mails /\ notifier'.pc = "post"
    BY <1>0, <2>1 DEF NotifierRecord
  <2>3. CASE UNCHANGED timeline
    BY <2>1, <2>2, <2>3 DEF Looks
  <2>4. ASSUME NEW old \in recreated,
               timeline' = Append(timeline, LinkEvent(notifier.id, old.room, old.root))
        PROVE  PostsLink
    <3>1. notifier.id \in Nat /\ old.room \in Rooms \cup {None} /\ old.root \in Nat \cup {None}
      BY <1>0, <2>1, EventsAreNumbers DEF ChatTypes
    <3>2. LinkEvent(notifier.id, old.room, old.root) \in Event
          /\ LinkEvent(notifier.id, old.room, old.root).kind = "link"
      BY <3>1 DEF LinkEvent, Event
    <3> QED
      BY <2>1, <2>2, <2>4, <3>2 DEF PostsLink, Posting
  <2> QED
    BY <1>9, <2>3, <2>4 DEF LinkRecreation
<1>10. ASSUME NEW row \in notifier.mails
       PROVE  row \in ReplyRow /\ MailEvent(row.id, row.room, row.root) \in Event
  BY <1>0 DEF MailEvent, Event, ReplyRow
<1>11. CASE SendMail
  <2>1. PICK row \in NextMails :
          /\ timeline' = Append(timeline, MailEvent(row.id, row.room, row.root))
          /\ notifier' = [notifier EXCEPT !.pc = "record mail",
                                          !.mails = notifier.mails \ {row},
                                          !.mail = row.id, !.id = Len(timeline) + 1]
    BY <1>11 DEF SendMail
  <2>2. UNCHANGED <<mail, thread>> /\ notifier.pc = "send"
    BY <1>11 DEF SendMail, NAt, dbVars
  <2>3. row \in notifier.mails
    BY DEF NextMails
  <2>4. PostsMail(row)
    BY <1>0, <1>10, <2>1, <2>2, <2>3 DEF PostsMail, Posting, NotifierRecord
  <2> QED
    BY <1>10, <2>3, <2>4
<1>12. CASE LoseAnswer
  <2>1. AnswerLost /\ mishaps' = mishaps + 1
    BY <1>12 DEF LoseAnswer, Mishap
  <2>2. PICK row \in NextMails :
          timeline' = Append(timeline, MailEvent(row.id, row.room, row.root))
    BY <2>1 DEF AnswerLost
  <2>3. UNCHANGED <<mail, thread>> /\ notifier.pc = "send" /\ CallAgain
    BY <2>1 DEF AnswerLost, NAt, dbVars
  <2>4. row \in notifier.mails
    BY DEF NextMails
  <2>5. PostsMail(row)
    BY <1>6, <1>10, <2>1, <2>2, <2>3, <2>4 DEF PostsMail, Posting
  <2> QED
    BY <1>10, <2>4, <2>5
<1>13. CASE RecordHead
  <2>1. /\ UNCHANGED <<mail, timeline>> /\ notifier.pc = "record head"
        /\ notifier' = [notifier EXCEPT !.pc = "link",
              !.touched = notifier.touched \cup GetOverviewRooms(timeline[notifier.id].room)]
        /\ \/ UNCHANGED thread
           \/ UpdateThreadMatrixIds(notifier.head, timeline[notifier.id].room, notifier.id)
    BY <1>13 DEF RecordHead, NAt, matrixVars
  <2>2. notifier'.mails = notifier.mails /\ notifier'.pc = "link"
    BY <1>0, <2>1 DEF NotifierRecord
  <2> QED
    BY <2>1, <2>2 DEF Looks, RecordsHead
<1>14. CASE RecordMail
  <2>1. /\ UNCHANGED <<thread, timeline>> /\ notifier.pc = "record mail"
        /\ notifier' = [notifier EXCEPT !.pc = "send", !.mail = None, !.id = None,
              !.touched = notifier.touched \cup GetOverviewRooms(timeline[notifier.id].room)]
        /\ \/ UNCHANGED mail /\ Cancelled
           \/ UpdateMailMatrixId(notifier.mail, notifier.id)
    BY <1>14 DEF RecordMail, NAt, matrixVars
  <2>2. notifier'.mails = notifier.mails /\ notifier'.pc = "send"
    BY <1>0, <2>1 DEF NotifierRecord
  <2> QED
    BY <2>1, <2>2 DEF Looks, RecordsMail
<1>15. CASE ForgetHead
  <2>1. PICK row \in notifier.gone : RemoveThreadMatrixId(row.thread)
    BY <1>15 DEF ForgetHead
  <2>2. /\ UNCHANGED <<mail, timeline>> /\ notifier.pc = "forget head"
        /\ notifier' = [notifier EXCEPT !.pc = "forget mails"]
    BY <1>15 DEF ForgetHead, NAt, matrixVars
  <2>3. /\ notifier'.mails = notifier.mails /\ notifier'.pc = "forget mails"
        /\ notifier'.gone = notifier.gone
    BY <1>0, <2>2 DEF NotifierRecord
  <2> QED
    BY <1>0, <2>1, <2>2, <2>3 DEF ForgetsHead
<1>16. CASE ForgetMails
  <2>1. PICK row \in notifier.gone : RemoveMailMatrixIdsByThread(row.thread)
    BY <1>16 DEF ForgetMails
  <2>2. UNCHANGED <<thread, timeline>> /\ notifier.pc = "forget mails" /\ CallAgain
    BY <1>16 DEF ForgetMails, NAt, matrixVars
  <2>3. ForgetsMails(row)
    BY <1>6, <2>1, <2>2 DEF ForgetsMails
  <2> QED
    BY <1>0, <2>3
<1> QED
  BY <1>1, <1>2, <1>3, <1>4, <1>5, <1>7, <1>8, <1>9, <1>11, <1>12, <1>13, <1>14, <1>15, <1>16
     DEF NotificationStage, MistakeHead, LoseAnswer, Notification, NotificationStep,
         NotificationFails
-----------------------------------------------------------------------------
(* Which ids the statements write *)

SameMailIds == \A m \in Mails : mail'[m].matrix = mail[m].matrix

NoMailIds == \A m \in Mails : mail'[m].matrix \in {mail[m].matrix, None}

NoThreadIds ==
    \A t \in Threads' : thread'[t].matrix # None =>
        t \in Threads /\ thread'[t].matrix = thread[t].matrix /\ thread'[t].room = thread[t].room

LEMMA MailIds ==
  ASSUME DbTypes
  PROVE  /\ \A m \in Mails :
            /\ UpdateExtractedMessages(m) => SameMailIds
            /\ \A f : AddMail(m, f) => SameMailIds
            /\ \A t, p : UpdateMailSorting(m, t, p) => SameMailIds
            /\ UpdateMailMarkSorted(m) => SameMailIds
            /\ \A id : UpdateMailMatrixId(m, id) =>
                  /\ mail'[m].matrix = id
                  /\ \A n \in Mails \ {m} : mail'[n].matrix = mail[n].matrix
         /\ \A t : RemoveMailMatrixIdsByThread(t) => NoMailIds
         /\ AutoUpdateMailReplyTo => SameMailIds
         /\ UNCHANGED mail => SameMailIds
         /\ SameMailIds => NoMailIds
<1>1. mail \in [Mails -> MailRow]
  BY DEF DbTypes
<1>2. ASSUME NEW m \in Mails, NEW w, mail' = [mail EXCEPT ![m] = w], w.matrix = mail[m].matrix
      PROVE  SameMailIds
  <2>1. \A n \in Mails : mail'[n] = IF n = m THEN w ELSE mail[n]
    BY <1>1, <1>2
  <2> QED
    BY <1>2, <2>1 DEF SameMailIds
<1>3. ASSUME NEW m \in Mails, UpdateExtractedMessages(m)
      PROVE  SameMailIds
  <2> DEFINE w == [mail[m] EXCEPT !.extracted = TRUE]
  <2>1. mail' = [mail EXCEPT ![m] = w] /\ w.matrix = mail[m].matrix
    BY <1>1, <1>3 DEF UpdateExtractedMessages, MailRow
  <2> HIDE DEF w
  <2> QED
    BY <1>2, <2>1
<1>4. ASSUME NEW m \in Mails, NEW f, AddMail(m, f)
      PROVE  SameMailIds
  <2> DEFINE w == [mail[m] EXCEPT !.stored = TRUE, !.fetched = f]
  <2>1. CASE mail[m].stored
    BY <1>4, <2>1 DEF AddMail, SameMailIds
  <2>2. CASE ~mail[m].stored
    <3>1. mail' = [mail EXCEPT ![m] = w] /\ w.matrix = mail[m].matrix
      BY <1>1, <1>4, <2>2 DEF AddMail, MailRow
    <3> HIDE DEF w
    <3> QED
      BY <1>2, <3>1
  <2> QED
    BY <2>1, <2>2
<1>5. ASSUME NEW m \in Mails, NEW t, NEW p, UpdateMailSorting(m, t, p)
      PROVE  SameMailIds
  <2> DEFINE w == [mail[m] EXCEPT !.replyTo = p, !.thread = t, !.sorted = TRUE]
  <2>1. mail' = [mail EXCEPT ![m] = w] /\ w.matrix = mail[m].matrix
    BY <1>1, <1>5 DEF UpdateMailSorting, MailRow
  <2> HIDE DEF w
  <2> QED
    BY <1>2, <2>1
<1>6. ASSUME NEW m \in Mails, UpdateMailMarkSorted(m)
      PROVE  SameMailIds
  <2> DEFINE w == [mail[m] EXCEPT !.sorted = TRUE]
  <2>1. mail' = [mail EXCEPT ![m] = w] /\ w.matrix = mail[m].matrix
    BY <1>1, <1>6 DEF UpdateMailMarkSorted, MailRow
  <2> HIDE DEF w
  <2> QED
    BY <1>2, <2>1
<1>7. ASSUME NEW m \in Mails, NEW id, UpdateMailMatrixId(m, id)
      PROVE  mail'[m].matrix = id /\ \A n \in Mails \ {m} : mail'[n].matrix = mail[n].matrix
  BY <1>1, <1>7 DEF UpdateMailMatrixId, MailRow
<1>8. ASSUME NEW t, RemoveMailMatrixIdsByThread(t)
      PROVE  NoMailIds
  <2>1. \A n \in Mails : mail'[n] = mail[n] \/ mail'[n] = [mail[n] EXCEPT !.matrix = None]
    BY <1>8 DEF RemoveMailMatrixIdsByThread
  <2> QED
    BY <1>1, <2>1 DEF NoMailIds, MailRow
<1>9. ASSUME AutoUpdateMailReplyTo
      PROVE  SameMailIds
  <2>1. \A n \in Mails : \/ mail'[n] = mail[n]
                         \/ mail'[n] = [mail[n] EXCEPT !.replyTo = InReplyTo[n]]
    BY <1>9 DEF AutoUpdateMailReplyTo
  <2> QED
    BY <1>1, <2>1 DEF SameMailIds, MailRow
<1> QED
  BY <1>3, <1>4, <1>5, <1>6, <1>7, <1>8, <1>9 DEF SameMailIds, NoMailIds

LEMMA ThreadIds ==
  ASSUME DbTypes
  PROVE  /\ \A t, m : UpdateThreadLastMail(t, m) => NoThreadIds
         /\ \A room, id, enabled, force :
                UpdateThreadEnabled(room, id, enabled, force) => NoThreadIds
         /\ \A t : RemoveThreadMatrixId(t) =>
                /\ NoThreadIds /\ Threads' = Threads
                /\ t \in Threads => thread'[t].matrix = None
         /\ \A t, room : UpdateThreadMatrixIds(t, room, None) => NoThreadIds
         /\ \A t, room, id : UpdateThreadMatrixIds(t, room, id) =>
                /\ Threads' = Threads
                /\ t \in Threads => thread'[t].matrix = id /\ thread'[t].room = room
                /\ \A u \in Threads \ {t} : thread'[u] = thread[u]
         /\ UNCHANGED thread => NoThreadIds
<1>1. thread \in [Threads -> ThreadRow]
  BY ThreadsAreNumbers, LenProperties DEF DbTypes
<1>2. ASSUME NEW t, NEW m, UpdateThreadLastMail(t, m)
      PROVE  NoThreadIds
  <2>1. DOMAIN thread' = DOMAIN thread
    BY <1>2 DEF UpdateThreadLastMail
  <2>2. \A u \in Threads : \/ thread'[u] = thread[u]
                           \/ thread'[u] = [thread[u] EXCEPT !.enabled = TRUE, !.last = m]
    BY <1>1, <1>2 DEF UpdateThreadLastMail
  <2> QED
    BY <1>1, <2>1, <2>2 DEF NoThreadIds, Threads, ThreadRow
<1>3. ASSUME NEW room, NEW id, NEW enabled, NEW force,
             UpdateThreadEnabled(room, id, enabled, force)
      PROVE  NoThreadIds
  <2>1. DOMAIN thread' = DOMAIN thread
    BY <1>3 DEF UpdateThreadEnabled, Threads
  <2>2. ASSUME NEW u \in Threads
        PROVE  thread'[u].matrix = thread[u].matrix /\ thread'[u].room = thread[u].room
    <3> DEFINE close == IF force = None THEN thread[u].forceClose ELSE force
    <3>1. \/ thread'[u] = thread[u]
          \/ thread'[u] = [thread[u] EXCEPT !.enabled = enabled, !.forceClose = close]
      BY <1>1, <1>3 DEF UpdateThreadEnabled, ThreadRow
    <3> HIDE DEF close
    <3> QED
      BY <1>1, <3>1 DEF ThreadRow
  <2> QED
    BY <2>1, <2>2 DEF NoThreadIds, Threads
<1>4. ASSUME NEW t, RemoveThreadMatrixId(t)
      PROVE  /\ NoThreadIds /\ Threads' = Threads
             /\ t \in Threads => thread'[t].matrix = None
  <2>1. DOMAIN thread' = DOMAIN thread
    BY <1>4 DEF RemoveThreadMatrixId
  <2>2. \A u \in Threads : thread'[u] = IF u = t THEN [thread[u] EXCEPT !.matrix = None]
                                        ELSE thread[u]
    BY <1>1, <1>4 DEF RemoveThreadMatrixId
  <2> QED
    BY <1>1, <2>1, <2>2 DEF NoThreadIds, Threads, ThreadRow
<1>5. ASSUME NEW t, NEW room, NEW id, UpdateThreadMatrixIds(t, room, id)
      PROVE  /\ Threads' = Threads
             /\ t \in Threads => thread'[t].matrix = id /\ thread'[t].room = room
             /\ \A u \in Threads \ {t} : thread'[u] = thread[u]
  <2>1. DOMAIN thread' = DOMAIN thread
    BY <1>5 DEF UpdateThreadMatrixIds
  <2>2. \A u \in Threads : thread'[u] = IF u = t
                                        THEN [thread[u] EXCEPT !.matrix = id, !.room = room]
                                        ELSE thread[u]
    BY <1>1, <1>5 DEF UpdateThreadMatrixIds
  <2> QED
    BY <1>1, <2>1, <2>2 DEF Threads, ThreadRow
<1>6. ASSUME NEW t, NEW room, UpdateThreadMatrixIds(t, room, None)
      PROVE  NoThreadIds
  BY <1>5, <1>6 DEF NoThreadIds
<1> QED
  BY <1>2, <1>3, <1>4, <1>5, <1>6 DEF NoThreadIds, Threads

\* The notification stage may start again; nobody else posts, and only a reply
\* records an id, that of the message it was typed in.
LEMMA OtherIds ==
  ASSUME Types, SortInv, [Next]_vars, ~(NotificationStage \/ MistakeHead \/ LoseAnswer)
  PROVE  /\ UNCHANGED timeline /\ NoThreadIds
         /\ \/ UNCHANGED notifier
            \/ notifier' = IdleNotifier /\ UNCHANGED mail /\ (Crash \/ Exit)
         /\ \/ SameMailIds
            \/ NoMailIds /\ \E c \in Commands : cmd[c].pc = "forget mails"
            \/ \E c \in Commands : /\ UpdateMailMatrixId(NewMail(c), c)
                                   /\ cmd[c].pc = "record" /\ UNCHANGED thread
<1> USE Names
<1>0. DbTypes
  BY DEF Types
<1>1. CASE Bystanders
  <2>1. UNCHANGED <<timeline, notifier>>
    BY <1>1 DEF Bystanders, Pump, ReceiveChunk, StoreMail, EndChunk, pumpRest,
         ExtractionStage, RemoveHead, Redact, OverviewStage, OverviewFails,
         RepostOverview, Resend, others, Stop, vars, notifierVars, matrixVars
  <2>2. UNCHANGED thread
    BY <1>1 DEF Bystanders, Pump, ReceiveChunk, StoreMail, EndChunk, dbVars,
         ExtractionStage, Extraction, ExtractionStep, ExtractionFails, ExtractionBegin,
         ListMailsRequiringMessageExtraction, PerformMessageExtraction, FinishExtraction,
         CancelBatch, RemoveHead, Redact, OverviewStage, OverviewFails, RepostOverview,
         Resend, OverviewStep, ListOverviewThreads, EditThreadOverview, PostThreadOverview,
         PostMessage, OverviewMessageUpdated, UpdateFails, PostSecondOverview,
         RemoveLargeOverview, ResendThreadOverview, Stop, vars
  <2>3. \/ UNCHANGED mail
        \/ \E m \in Mails : UpdateExtractedMessages(m) \/ AddMail(m, TRUE)
    BY <1>1 DEF Bystanders, Pump, ReceiveChunk, StoreMail, EndChunk, dbVars,
         ExtractionStage, Extraction, ExtractionStep, ExtractionFails, ExtractionBegin,
         ListMailsRequiringMessageExtraction, PerformMessageExtraction, FinishExtraction,
         CancelBatch, RemoveHead, Redact, OverviewStage, OverviewFails, RepostOverview,
         Resend, OverviewStep, ListOverviewThreads, EditThreadOverview, PostThreadOverview,
         PostMessage, OverviewMessageUpdated, UpdateFails, PostSecondOverview,
         RemoveLargeOverview, ResendThreadOverview, Stop, vars
  <2> QED
    BY <1>0, <2>1, <2>2, <2>3, MailIds, ThreadIds
<1>2. CASE SortingStage
  <2>1. UNCHANGED <<timeline, notifier>>
    BY <1>2 DEF SortingStage, notifierVars, matrixVars
  <2>2. sorter.pc \in {"join", "head", "claim"} => sorter.cur \in Mails
    BY DEF Types, SorterTypes, Stored
  <2>3. SameMailIds
    BY <1>0, <1>2, <2>2, MailIds DEF SortingStage, Sorting, SortingStep, SortingBegin,
         LockThreadSorting, WaitForCompleteData, AutoUpdateMailSorting,
         ListMailsRequiringSorting, LookUpReplyTo, LookUpReferences, JoinThread,
         TouchThread, MarkMailAsSorted, CreateThread, ClaimHead, FinishSorting, At, dbVars
  <2>4. ASSUME CreateThread
        PROVE  NoThreadIds
    <3>1. sorter.cur \in Stored /\ AddThread(sorter.cur) /\ UNCHANGED mail
      BY <2>4 DEF CreateThread, At, Types, SorterTypes
    <3>2. Threads' = Threads \cup {Len(thread) + 1} /\ Len(thread) + 1 \notin Threads
      BY <1>0, <2>1, <3>1, AddThreadTypes, EventsStay, ThreadsAreNumbers
    <3>3. ~SameRows /\ ~UNCHANGED thread
      BY <3>2 DEF SameRows, Threads
    <3>4. /\ \A t \in Threads : thread'[t] = thread[t]
          /\ thread'[Len(thread) + 1].matrix = None
      BY <1>2, <3>3, SortingCases DEF SortsNext
    <3> QED
      BY <3>2, <3>4 DEF NoThreadIds
  <2>5. ASSUME ~CreateThread
        PROVE  NoThreadIds
    <3>1. UNCHANGED thread \/ UpdateThreadLastMail(sorter.target, sorter.cur)
      BY <1>2, <2>5 DEF SortingStage, Sorting, SortingStep, SortingBegin,
         LockThreadSorting, WaitForCompleteData, AutoUpdateMailSorting,
         ListMailsRequiringSorting, LookUpReplyTo, LookUpReferences, JoinThread,
         TouchThread, MarkMailAsSorted, ClaimHead, FinishSorting, dbVars
    <3> QED
      BY <1>0, <3>1, ThreadIds
  <2>6. NoThreadIds
    BY <2>4, <2>5
  <2> QED
    BY <2>1, <2>3, <2>6
<1>3. ASSUME NEW c \in Commands, Command(c)
      PROVE  /\ UNCHANGED <<timeline, notifier>> /\ NoThreadIds
             /\ \/ SameMailIds
                \/ NoMailIds /\ cmd[c].pc = "forget mails"
                \/ /\ UpdateMailMatrixId(NewMail(c), c)
                   /\ cmd[c].pc = "record" /\ UNCHANGED thread
  <2>1. UNCHANGED <<timeline, notifier>>
    BY <1>3 DEF Command, Issue, SetThreadState, MoveStart, ReplyStart, CommandStep,
         MoveForgetHead, MoveForgetMails, MoveRehome, MoveRequest, ReplyFindOriginal,
         ReplyLock, ReplySend, ReplyStore, ReplyAddMail, ReplySetMessages,
         ReplyJoinThread, ReplyTouchThread, ReplyRecord, StagesAnswer, ReplySendFails,
         notifierVars, matrixVars
  <2>2. \/ UNCHANGED thread
        \/ UpdateThreadLastMail(cmd[c].thread, NewMail(c))
        \/ \E room, id, enabled, force : UpdateThreadEnabled(room, id, enabled, force)
        \/ RemoveThreadMatrixId(cmd[c].thread)
        \/ UpdateThreadMatrixIds(cmd[c].thread, MoveTo[c], None)
    BY <1>3 DEF Command, Issue, SetThreadState, MoveStart, ReplyStart, CommandStep,
         MoveForgetHead, MoveForgetMails, MoveRehome, MoveRequest, ReplyFindOriginal,
         ReplyLock, ReplySend, ReplyStore, ReplyAddMail, ReplySetMessages,
         ReplyJoinThread, ReplyTouchThread, ReplyRecord, StagesAnswer, ReplySendFails,
         dbVars
  <2>3. cmd[c].pc \in ReplySteps => NewMail(c) \in Mails
    BY CommandFacts DEF Types
  <2>4. \/ UNCHANGED mail
        \/ RemoveMailMatrixIdsByThread(cmd[c].thread) /\ cmd[c].pc = "forget mails"
        \/ /\ NewMail(c) \in Mails
           /\ \/ AddMail(NewMail(c), FALSE) \/ UpdateExtractedMessages(NewMail(c))
              \/ UpdateMailSorting(NewMail(c), cmd[c].thread, mail[NewMail(c)].replyTo)
              \/ UpdateMailMatrixId(NewMail(c), c) /\ cmd[c].pc = "record" /\ UNCHANGED thread
    BY <1>3, <2>3 DEF Command, Issue, SetThreadState, MoveStart, ReplyStart, CommandStep,
         MoveForgetHead, MoveForgetMails, MoveRehome, MoveRequest, ReplyFindOriginal,
         ReplyLock, ReplySend, ReplyStore, ReplyAddMail, ReplySetMessages,
         ReplyJoinThread, ReplyTouchThread, ReplyRecord, StagesAnswer, ReplySendFails,
         dbVars, ReplySteps
  <2> QED
    BY <1>0, <2>1, <2>2, <2>4, MailIds, ThreadIds
<1>4. CASE Crash \/ Exit
  <2>1. UNCHANGED <<mail, thread, timeline>> /\ notifier' = IdleNotifier
    BY <1>4 DEF Crash, Exit, StartAgain, dbVars, matrixVars
  <2> QED
    BY <1>0, <1>4, <2>1, MailIds, ThreadIds
<1> QED
  BY <1>1, <1>2, <1>3, <1>4, Steps
-----------------------------------------------------------------------------
(* The ids of the chat server *)

\* A mail is posted under a head of its thread.
PostedHome(e) ==
    timeline[e].kind = "mail" =>
        /\ timeline[e].of \in Mails /\ timeline[e].root \in Events
        /\ timeline[timeline[e].root].kind = "head"
        /\ mail[timeline[e].of].thread # None
        /\ timeline[timeline[e].root].of = mail[timeline[e].of].thread

RowHome(row) ==
    /\ mail[row.id].thread = row.thread /\ row.root \in Events
    /\ timeline[row.root].kind = "head" /\ timeline[row.root].of = row.thread

\* What the notification stage has posted, is going to post and is about to
\* record.
HomeInv ==
    /\ \A e \in Events : PostedHome(e)
    /\ \A row \in notifier.mails : RowHome(row)
    /\ notifier.pc = "record head" =>
        timeline[notifier.id].kind = "head" /\ timeline[notifier.id].of = notifier.head
    /\ notifier.pc = "record mail" =>
        timeline[notifier.id].kind = "mail" /\ timeline[notifier.id].of = notifier.mail

\* The two parts of IdsPointHome.
ThreadIdHome(t) ==
    thread[t].matrix # None =>
        /\ timeline[thread[t].matrix].kind = "head" /\ timeline[thread[t].matrix].of = t
        /\ timeline[thread[t].matrix].room = thread[t].room

MailIdHome(m) ==
    mail[m].matrix # None =>
        \/ \E c \in Commands : mail[m].matrix = c /\ m \in Range(ReplyMails[c])
        \/ \E e \in Events : /\ mail[m].matrix = e
                             /\ timeline[e].kind = "mail" /\ timeline[e].of = m
                             /\ timeline[timeline[e].root].of = mail[m].thread

LEMMA HomeParts ==
  /\ IdsPointHome <=> /\ \A t \in Threads : ThreadIdHome(t)
                      /\ \A m \in Mails : MailIdHome(m)
  /\ IdsPointHome' <=> /\ \A t \in Threads' : ThreadIdHome(t)'
                       /\ \A m \in Mails : MailIdHome(m)'
BY DEF IdsPointHome, ThreadIdHome, MailIdHome

\* Events stay as they are.
Lasting ==
    /\ Events \subseteq Events' /\ \A e \in Events : timeline'[e] = timeline[e]

LEMMA HomesStay ==
  ASSUME Types, HomeInv, IdsPointHome, Settled, Lasting
  PROVE  /\ \A e \in Events : PostedHome(e)'
         /\ \A row \in notifier.mails : RowHome(row)'
         /\ NoThreadIds => \A t \in Threads' : ThreadIdHome(t)'
         /\ \A t \in Threads : thread'[t].matrix = thread[t].matrix
                               /\ thread'[t].room = thread[t].room => ThreadIdHome(t)'
         /\ \A m \in Mails : mail'[m].matrix \in {mail[m].matrix, None} => MailIdHome(m)'
<1> USE Names
<1>0. /\ \A e \in Events : PostedHome(e)
      /\ \A row \in notifier.mails : RowHome(row) /\ row \in ReplyRow
      /\ \A t \in Threads : ThreadIdHome(t) /\ thread[t].matrix \in Events \cup {None}
      /\ \A m \in Mails : MailIdHome(m)
  BY HomeParts DEF HomeInv, Types, DbTypes, NotifierTypes
<1>1. ASSUME NEW e \in Events
      PROVE  PostedHome(e)'
  BY <1>0 DEF PostedHome, Lasting, Settled
<1>2. ASSUME NEW row \in notifier.mails
      PROVE  RowHome(row)'
  <2>1. row.id \in Mails /\ row.thread # None /\ RowHome(row)
    BY <1>0 DEF ReplyRow
  <2> QED
    BY <2>1 DEF RowHome, Lasting, Settled
<1>3. ASSUME NEW t \in Threads, thread'[t].matrix = thread[t].matrix,
             thread'[t].room = thread[t].room
      PROVE  ThreadIdHome(t)'
  BY <1>0, <1>3 DEF ThreadIdHome, Lasting
<1>4. ASSUME NEW m \in Mails, mail'[m].matrix \in {mail[m].matrix, None}
      PROVE  MailIdHome(m)'
  <2>1. CASE mail'[m].matrix = None
    BY <2>1 DEF MailIdHome
  <2>2. CASE mail'[m].matrix = mail[m].matrix /\ mail[m].matrix # None
    <3>1. CASE \E c \in Commands : mail[m].matrix = c /\ m \in Range(ReplyMails[c])
      BY <2>2, <3>1 DEF MailIdHome
    <3>2. ASSUME NEW e \in Events, mail[m].matrix = e, timeline[e].kind = "mail",
                 timeline[e].of = m, timeline[timeline[e].root].of = mail[m].thread
          PROVE  MailIdHome(m)'
      <4>1. timeline[e].root \in Events /\ mail[m].thread # None
        BY <1>0, <3>2 DEF PostedHome
      <4>2. /\ e \in Events' /\ mail'[m].matrix = e /\ timeline'[e].kind = "mail"
            /\ timeline'[e].of = m /\ timeline'[timeline'[e].root].of = mail'[m].thread
        BY <2>2, <3>2, <4>1 DEF Lasting, Settled
      <4> QED
        BY <4>2 DEF MailIdHome
    <3> QED
      BY <1>0, <2>2, <3>1, <3>2 DEF MailIdHome
  <2> QED
    BY <1>4, <2>1, <2>2
<1>5. ASSUME NoThreadIds, NEW t \in Threads'
      PROVE  ThreadIdHome(t)'
  <2>1. CASE thread'[t].matrix = None
    BY <2>1 DEF ThreadIdHome
  <2>2. CASE thread'[t].matrix # None
    BY <1>3, <1>5, <2>2 DEF NoThreadIds
  <2> QED
    BY <2>1, <2>2
<1> QED
  BY <1>1, <1>2, <1>3, <1>4, <1>5

LEMMA OthersKeepHome ==
  ASSUME Types, SortInv, HomeInv, IdsPointHome, Settled, [Next]_vars,
         ~(NotificationStage \/ MistakeHead \/ LoseAnswer)
  PROVE  HomeInv' /\ IdsPointHome'
<1> USE Names
<1>1. UNCHANGED timeline /\ NoThreadIds /\ Events' = Events /\ Lasting /\ DbTypes
  BY OtherIds, EventsStay DEF Lasting, Types
<1>2. /\ \A e \in Events : PostedHome(e)'
      /\ \A row \in notifier.mails : RowHome(row)'
      /\ \A t \in Threads' : ThreadIdHome(t)'
  BY <1>1, HomesStay
<1>3. HomeInv'
  <2>1. CASE UNCHANGED notifier
    BY <1>1, <1>2, <2>1 DEF HomeInv
  <2>2. CASE notifier' = IdleNotifier
    BY <1>1, <1>2, <2>2 DEF HomeInv, IdleNotifier
  <2> QED
    BY <2>1, <2>2, OtherIds
<1>4. \A m \in Mails : MailIdHome(m)'
  <2>1. CASE SameMailIds \/ NoMailIds
    BY <1>1, <2>1, HomesStay DEF SameMailIds, NoMailIds
  <2>2. ASSUME NEW c \in Commands, UpdateMailMatrixId(NewMail(c), c), cmd[c].pc = "record"
        PROVE  \A m \in Mails : MailIdHome(m)'
    <3>1. PICK n \in Mails : n = NewMail(c) /\ n \in Range(ReplyMails[c])
      <4>1. NewMail(c) \in Mails /\ cmd[c].tries \in DOMAIN ReplyMails[c]
        BY <2>2, RepliesDiffer DEF ReplySteps
      <4>2. NewMail(c) \in Range(ReplyMails[c])
        BY <4>1 DEF Range, NewMail
      <4> QED
        BY <4>1, <4>2
    <3>3. /\ mail'[n].matrix = c
          /\ \A m \in Mails \ {n} : mail'[m].matrix = mail[m].matrix
      BY <1>1, <2>2, <3>1, MailIds
    <3>4. MailIdHome(n)'
      BY <3>1, <3>3 DEF MailIdHome
    <3>5. \A m \in Mails \ {n} : MailIdHome(m)'
      BY <1>1, <3>3, HomesStay
    <3> QED
      BY <3>4, <3>5
  <2> QED
    BY <2>1, <2>2, OtherIds
<1> QED
  BY <1>2, <1>3, <1>4, HomeParts

LEMMA NotifierKeepsHome ==
  ASSUME Types, HomeInv, IdsPointHome, Settled,
         NotificationStage \/ MistakeHead \/ LoseAnswer
  PROVE  HomeInv' /\ IdsPointHome'
<1> USE Names
<1> DEFINE Goal == HomeInv' /\ IdsPointHome'
<1> SUFFICES Goal
  OBVIOUS
<1>0. /\ DbTypes /\ timeline \in Seq(Event) /\ Threads \subseteq Nat
      /\ \A row \in notifier.mails : RowHome(row) /\ row \in ReplyRow
  BY ThreadsAreNumbers DEF Types, ChatTypes, HomeInv, NotifierTypes
<1> DEFINE last == Len(timeline) + 1
<1>14. PICK n : n = last
  OBVIOUS
<1>1. ASSUME UNCHANGED timeline
      PROVE  Lasting /\ Events' = Events
  BY <1>1, EventsStay DEF Lasting
<1>2. UNCHANGED mail => \A m \in Mails : mail'[m].matrix \in {mail[m].matrix, None}
  OBVIOUS
<1>3. ASSUME UNCHANGED <<mail, thread, timeline>>,
             notifier'.pc \notin {"record head", "record mail"},
             \A row \in notifier'.mails : RowHome(row)
      PROVE  Goal
  <2>1. /\ \A e \in Events : PostedHome(e)'
        /\ \A t \in Threads' : ThreadIdHome(t)'
        /\ \A m \in Mails : MailIdHome(m)'
    BY <1>0, <1>1, <1>2, <1>3, ThreadIds, HomesStay
  <2>2. \A row \in notifier'.mails : RowHome(row)'
    BY <1>1, <1>3 DEF RowHome
  <2>3. HomeInv'
    BY <1>1, <1>3, <2>1, <2>2 DEF HomeInv
  <2> QED
    BY <2>1, <2>3, HomeParts
<1>4. CASE Looks
  BY <1>0, <1>3, <1>4 DEF Looks
<1>5. CASE ListsMails
  <2>1. ASSUME NEW row \in notifier'.mails
        PROVE  RowHome(row)
    <3>1. /\ row.id \in Mails /\ row.thread = mail[row.id].thread /\ row.thread # None
          /\ row.root = thread[row.thread].matrix /\ row.root # None
      BY <1>5, <2>1 DEF ListsMails, MatrixReadyMails, Stored
    <3>2. row.thread \in Threads /\ row.root \in Events
      BY <1>0, <3>1 DEF DbTypes
    <3>3. ThreadIdHome(row.thread)
      BY <3>2, HomeParts
    <3> QED
      BY <3>1, <3>2, <3>3 DEF ThreadIdHome, RowHome
  <2> QED
    BY <1>3, <1>5, <2>1 DEF ListsMails
<1>6. ASSUME NEW e, Posting(e)
      PROVE  /\ Lasting /\ Events' = Events \cup {n}
             /\ timeline'[n] = e
             /\ \A i \in Events : PostedHome(i)'
             /\ \A t \in Threads' : ThreadIdHome(t)'
             /\ \A m \in Mails : MailIdHome(m)'
             /\ \A row \in notifier.mails : RowHome(row)'
  <2>1. Lasting /\ Events' = Events \cup {n}
        /\ timeline'[n] = e
    BY <1>0, <1>14, <1>6, PostTypes DEF Posting, Lasting
  <2> QED
    BY <1>0, <1>2, <1>6, <2>1, ThreadIds, HomesStay DEF Posting
<1>7. ASSUME NEW t \in Threads, NEW room \in Rooms, PostsHead(t, room)
      PROVE  Goal
  <2>1. timeline'[n].kind = "head" /\ timeline'[n].of = t
    <3>1. timeline'[n] = HeadEvent(t, room)
      BY <1>6, <1>7 DEF PostsHead
    <3> QED
      BY <3>1 DEF HeadEvent
  <2>2. PostedHome(n)'
    BY <2>1 DEF PostedHome
  <2>3. HomeInv'
    BY <1>14, <1>6, <1>7, <2>1, <2>2 DEF HomeInv, PostsHead
  <2> QED
    BY <1>6, <1>7, <2>3, HomeParts DEF PostsHead
<1>8. CASE PostsLink
  <2>1. PICK e : Posting(e) /\ e.kind = "link"
    BY <1>8 DEF PostsLink
  <2>2. PostedHome(n)'
    BY <1>6, <2>1 DEF PostedHome
  <2>3. HomeInv'
    BY <1>6, <1>8, <2>1, <2>2 DEF HomeInv, PostsLink
  <2> QED
    BY <1>6, <2>1, <2>3, HomeParts
<1>9. ASSUME NEW row \in ReplyRow, PostsMail(row)
      PROVE  Goal
  <2>1. Posting(MailEvent(row.id, row.room, row.root)) /\ row \in notifier.mails
    BY <1>9 DEF PostsMail
  <2>2. RowHome(row)' /\ row.id \in Mails /\ row.thread \in Nat
    BY <1>6, <2>1 DEF ReplyRow
  <2>3. timeline'[n].kind = "mail" /\ timeline'[n].of = row.id /\ timeline'[n].root = row.root
    BY <1>6, <2>1 DEF MailEvent
  <2>4. PostedHome(n)'
    BY <2>2, <2>3 DEF PostedHome, RowHome
  <2>5. HomeInv'
    BY <1>14, <1>6, <1>9, <2>1, <2>3, <2>4 DEF HomeInv, PostsMail
  <2> QED
    BY <1>6, <2>1, <2>5, HomeParts
<1>10. ASSUME UNCHANGED timeline, notifier'.mails \subseteq notifier.mails,
              notifier'.pc \notin {"record head", "record mail"}
       PROVE  HomeInv'
  BY <1>1, <1>10, HomesStay DEF HomeInv
<1>11. CASE RecordsHead
  <2>1. PICK t \in Threads : /\ t = notifier.head /\ notifier.id \in Events
                             /\ timeline[notifier.id].kind = "head"
                             /\ timeline[notifier.id].of = t
    BY <1>11 DEF RecordsHead, Types, NotifierTypes, HomeInv
  <2>2. /\ Threads' = Threads /\ thread'[t].matrix = notifier.id
        /\ thread'[t].room = timeline[notifier.id].room
        /\ \A u \in Threads \ {t} : thread'[u] = thread[u]
    <3>1. UpdateThreadMatrixIds(t, timeline[notifier.id].room, notifier.id)
      BY <1>11, <2>1 DEF RecordsHead
    <3> QED
      BY <1>0, <3>1, ThreadIds
  <2>3. ThreadIdHome(t)'
    BY <1>11, <2>1, <2>2 DEF RecordsHead, ThreadIdHome
  <2>4. \A u \in Threads \ {t} : ThreadIdHome(u)'
    BY <1>1, <1>11, <2>2, HomesStay DEF RecordsHead
  <2>5. \A m \in Mails : MailIdHome(m)'
    BY <1>1, <1>2, <1>11, HomesStay DEF RecordsHead
  <2>6. HomeInv'
    BY <1>10, <1>11 DEF RecordsHead
  <2> QED
    BY <2>2, <2>3, <2>4, <2>5, <2>6, HomeParts
<1>12. CASE RecordsMail
  <2>1. PICK to \in Mails, i \in Events : /\ to = notifier.mail /\ i = notifier.id
                                         /\ timeline[i].kind = "mail"
                                         /\ timeline[i].of = to
    BY <1>12 DEF RecordsMail, Types, NotifierTypes, HomeInv
  <2>2. /\ mail'[to].matrix = i
        /\ \A m \in Mails \ {to} : mail'[m].matrix = mail[m].matrix
    BY <1>0, <1>12, <2>1, MailIds DEF RecordsMail
  <2>3. MailIdHome(to)'
    <3>1. PostedHome(i)'
      BY <1>1, <1>12, <2>1, HomesStay DEF RecordsMail
    <3> QED
      BY <1>1, <1>12, <2>1, <2>2, <3>1 DEF RecordsMail, MailIdHome, PostedHome
  <2>4. \A m \in Mails \ {to} : MailIdHome(m)'
    BY <1>1, <1>12, <2>2, HomesStay DEF RecordsMail
  <2>5. \A t \in Threads' : ThreadIdHome(t)'
    BY <1>0, <1>1, <1>12, ThreadIds, HomesStay DEF RecordsMail
  <2>6. HomeInv'
    BY <1>10, <1>12 DEF RecordsMail
  <2> QED
    BY <2>3, <2>4, <2>5, <2>6, HomeParts
<1>13. ASSUME NEW row \in ReplyRow, ForgetsHead(row) \/ ForgetsMails(row)
       PROVE  Goal
  <2>1. NoThreadIds /\ NoMailIds /\ UNCHANGED timeline
    BY <1>0, <1>13, ThreadIds, MailIds DEF ForgetsHead, ForgetsMails
  <2>2. (\A t \in Threads' : ThreadIdHome(t)') /\ \A m \in Mails : MailIdHome(m)'
    BY <1>1, <2>1, HomesStay DEF NoMailIds
  <2>3. HomeInv'
    BY <1>10, <1>13, <2>1 DEF ForgetsHead, ForgetsMails
  <2> QED
    BY <2>2, <2>3, HomeParts
<1> QED
  BY <1>4, <1>5, <1>7, <1>8, <1>9, <1>11, <1>12, <1>13, NotifierCases

LEMMA HomeAlways == Spec => [](Types /\ SortInv /\ HomeInv /\ IdsPointHome)
<1>1. Init => HomeInv /\ IdsPointHome
  <2> SUFFICES ASSUME Init PROVE HomeInv /\ IdsPointHome
    OBVIOUS
  <2>1. /\ Threads = {} /\ Events = {} /\ mail = [m \in Mails |-> NoMail]
        /\ notifier = IdleNotifier
    BY DEF Init, DbInit, NotificationInit, Threads, Events
  <2> QED
    BY <2>1 DEF HomeInv, IdsPointHome, NoMail, IdleNotifier
<1>2. /\ Types /\ Types' /\ SortInv /\ HomeInv /\ IdsPointHome /\ [Next]_vars
      => HomeInv' /\ IdsPointHome'
  BY StaySettled, OthersKeepHome, NotifierKeepsHome
<1> QED
  BY <1>1, <1>2, SortingAlways, PTL DEF Spec

\* Whatever was posted, lost, moved, recreated or forgotten meanwhile, the ids in
\* the tables are those of messages of the thread: a command that is typed
\* under a head or as an answer to a mail changes the thread it seems to.
THEOREM IdsAreRight == Spec => []IdsPointHome
BY HomeAlways, PTL
-----------------------------------------------------------------------------
(* What every step keeps *)

LEMMA MishapsGrow ==
  ASSUME Types, Types', SortInv, [Next]_vars
  PROVE  mishaps \in Nat /\ mishaps' \in Nat /\ mishaps' >= mishaps
<1>1. mishaps \in Nat
  BY DEF Types, PumpTypes
<1>2. CASE SortingStage
  BY <1>1, <1>2, SortingCases
<1> QED
  BY <1>1, <1>2, NotSortingCases

LEMMA EventsLast ==
  ASSUME Types, SortInv, [Next]_vars
  PROVE  Lasting
<1>1. CASE UNCHANGED timeline
  BY <1>1, EventsStay DEF Lasting
<1>2. ASSUME NEW e, Posting(e)
      PROVE  Lasting
  BY <1>2, PostTypes DEF Posting, Lasting, Types, ChatTypes
<1>3. CASE NotificationStage \/ MistakeHead \/ LoseAnswer
  BY <1>1, <1>2, <1>3, NotifierCases
     DEF Looks, ListsMails, PostsLink, RecordsHead, RecordsMail, PostsHead, PostsMail,
         ForgetsHead, ForgetsMails
<1>4. CASE ~(NotificationStage \/ MistakeHead \/ LoseAnswer)
  BY <1>1, <1>4, OtherIds
<1> QED
  BY <1>3, <1>4

\* A stage that has been stopped takes no requests.
LEMMA RequestsRefused ==
  ASSUME Types, closed # {}
  PROVE  \A stages \in SUBSET (StageNames \cup OverviewRooms) :
            QueueAll(stages) => UNCHANGED queued
BY DEF Types, StageTypes, QueueAll

\* What all steps do to the stages but a shutdown and a start.
Serves == UNCHANGED closed /\ (closed # {} => queued' \subseteq queued)

LEMMA StagesServe ==
  ASSUME Types, [Next]_vars
  PROVE  /\ Serves \/ Stop \/ Crash \/ Exit
         /\ NotificationStage \/ MistakeHead \/ LoseAnswer => Serves
<1>0. /\ StageNames = {"sorting", "extraction", "notification"}
      /\ \A room : GetOverviewRooms(room) \subseteq OverviewRooms
      /\ notifier.touched \subseteq OverviewRooms
  BY DEF StageNames, GetOverviewRooms, Types, NotifierTypes
<1>1. ASSUME NEW stages \in SUBSET (StageNames \cup OverviewRooms), QueueAll(stages),
             UNCHANGED closed
      PROVE  Serves
  BY <1>1, RequestsRefused DEF Serves
<1>2. UNCHANGED stageVars => Serves
  BY DEF stageVars, Serves
<1>3. \A s : TakeUp(s) => Serves
  BY DEF TakeUp, Serves
<1>4. \A s \in StageNames \cup OverviewRooms : QueueWork(s) => Serves
  BY <1>1 DEF QueueWork
<1>5. \A room, c : QueueOverviewUpdate(room, c) => Serves
  BY <1>0, <1>1 DEF QueueOverviewUpdate, QueueWorkBlocking
<1>6. CASE Pump
  BY <1>0, <1>2, <1>4, <1>6 DEF Pump, ReceiveChunk, StoreMail, EndChunk
<1>7. CASE SortingStage
  BY <1>0, <1>2, <1>3, <1>4, <1>7
     DEF SortingStage, Sorting, SortingStep, SortingBegin, LockThreadSorting,
       WaitForCompleteData, AutoUpdateMailSorting, ListMailsRequiringSorting,
       LookUpReplyTo, LookUpReferences, JoinThread, TouchThread, MarkMailAsSorted,
       CreateThread, ClaimHead, FinishSorting
<1>8. CASE ExtractionStage
  BY <1>0, <1>2, <1>3, <1>4, <1>8
     DEF ExtractionStage, Extraction, ExtractionStep, ExtractionFails,
       ExtractionBegin, ListMailsRequiringMessageExtraction, PerformMessageExtraction,
       FinishExtraction, CancelBatch
<1>9. CASE NotificationStage \/ MistakeHead \/ LoseAnswer
  <2>1. CallAgain => Serves
    BY <1>2 DEF CallAgain, Serves
  <2>2. FinishNotification => Serves
    BY <1>0, <1>1 DEF FinishNotification
  <2> QED
    BY <1>2, <1>3, <1>9, <2>1, <2>2
       DEF NotificationStage, MistakeHead, LoseAnswer, Notification, NotificationStep,
       NotificationFails, NotificationBegin, ListMatrixReadyThreads, PostHead, RecordHead,
       LinkRecreation, LinkFails, ListMatrixReadyMails, CheckThread, SendMail, RecordMail,
       FindHeadRedacted, MistakeHeadForRedacted, ForgetHead, ForgetMails, ForgettingFails,
       SendFails, AnswerLost
<1>10. ASSUME NEW o \in OverviewRooms,
              OverviewStage(o) \/ OverviewFails(o) \/ RepostOverview(o) \/ Resend(o)
       PROVE  Serves
  <2>1. UNCHANGED <<queued, closed>> => Serves
    BY DEF Serves
  <2> QED
    BY <1>2, <1>3, <1>4, <1>10, <2>1
       DEF OverviewStage, OverviewFails, RepostOverview, Resend, OverviewStep,
       ListOverviewThreads, EditThreadOverview, PostThreadOverview, PostMessage,
       OverviewMessageUpdated, UpdateFails, PostSecondOverview, RemoveLargeOverview,
       ResendThreadOverview
<1>11. ASSUME NEW c \in Commands, Command(c)
       PROVE  Serves
  <2>1. MoveRequest(c) => Serves
    BY <1>0, <1>1 DEF MoveRequest, QueueWorkBlocking
  <2> QED
    BY <1>2, <1>5, <1>11, <2>1
       DEF Command, Issue, SetThreadState, MoveStart, ReplyStart, CommandStep,
       MoveForgetHead, MoveForgetMails, MoveRehome, ReplyFindOriginal,
       ReplyLock, ReplySend, ReplyStore, ReplyAddMail, ReplySetMessages, ReplyJoinThread,
       ReplyTouchThread, ReplyRecord, StagesAnswer, ReplySendFails
<1>12. ASSUME NEW e \in Events, RemoveHead(e)
       PROVE  Serves
  BY <1>2, <1>12 DEF RemoveHead, Redact
<1>13. CASE UNCHANGED vars
  BY <1>2, <1>13 DEF vars
<1> QED
  BY <1>6, <1>7, <1>8, <1>9, <1>10, <1>11, <1>12, <1>13 DEF Next
-----------------------------------------------------------------------------
(* Replies *)

\* The command knows which mail it writes, and the thread of the mail it answers.
KnowsThread(c) ==
    /\ Kind[c] = "reply" /\ Running(c) => cmd[c].tries \in DOMAIN ReplyMails[c]
    /\ cmd[c].pc = "find original" =>
        /\ cmd[c].event \in Events /\ timeline[cmd[c].event].kind = "mail"
        /\ timeline[cmd[c].event].of = InReplyTo[NewMail(c)]
    /\ cmd[c].pc \in {"lock", "send", "store", "add", "extracted", "sort"} =>
        /\ cmd[c].thread # None /\ InReplyTo[NewMail(c)] \in Mails
        /\ cmd[c].thread = mail[InReplyTo[NewMail(c)]].thread

Current(c, i) == Running(c) /\ i = cmd[c].tries

InHand == {"add", "extracted", "sort"}

Answers(m) ==
    /\ InReplyTo[m] \in Mails /\ mail[m].thread # None
    /\ mail[m].thread = mail[InReplyTo[m]].thread

\* A reply that is stored, or may be stored by a fetcher, is in the hand of
\* its command, in its thread, or has lost its command.
ReplyPlaced(c, i) ==
    LET m == ReplyMails[c][i]
    IN  \/ m \notin mailbox \cup Stored
        \/ Current(c, i) /\ cmd[c].pc \in InHand /\ ~mail[m].sorted
        \/ Answers(m)
        \/ mishaps > 0 /\ ~Current(c, i)

AnswersInv ==
    /\ closed # {} => mishaps > 0
    /\ \A c \in Commands : KnowsThread(c)
    /\ \A c \in Commands : \A i \in DOMAIN ReplyMails[c] : ReplyPlaced(c, i)

\* What goes on without the command does not matter to it.
LEMMA AnswersStay ==
  ASSUME Types, Settled
  PROVE  /\ \A c \in Commands :
            /\ Lasting /\ KnowsThread(c) /\ cmd'[c] = cmd[c] => KnowsThread(c)'
            /\ \A step : /\ KnowsThread(c) /\ Running(c)
                         /\ Step(c, step) /\ step # "find original"
                         /\ step \in {"lock", "send", "store"} \cup InHand =>
                                cmd[c].pc \in {"lock", "send", "store"} \cup InHand
                         => KnowsThread(c)'
         /\ \A m : Answers(m) /\ m \in Mails => Answers(m)'
<1> USE Names
<1>1. ASSUME NEW c \in Commands, Lasting, KnowsThread(c), cmd'[c] = cmd[c]
      PROVE  KnowsThread(c)'
  <2>1. NewMail(c)' = NewMail(c)
    BY <1>1 DEF NewMail
  <2> QED
    BY <1>1, <2>1 DEF KnowsThread, Lasting, Settled, Running
<1>2. ASSUME NEW c \in Commands, NEW step, KnowsThread(c), Running(c), Step(c, step),
             step # "find original",
             step \in {"lock", "send", "store"} \cup InHand =>
                cmd[c].pc \in {"lock", "send", "store"} \cup InHand
      PROVE  KnowsThread(c)'
  <2>1. /\ cmd'[c].pc = step /\ cmd'[c].tries = cmd[c].tries
        /\ cmd'[c].thread = cmd[c].thread /\ NewMail(c)' = NewMail(c)
    BY <1>2, StepTo
  <2>2. cmd[c].pc \in {"lock", "send", "store", "add", "extracted", "sort"} =>
            mail'[InReplyTo[NewMail(c)]].thread = mail[InReplyTo[NewMail(c)]].thread
    BY <1>2 DEF KnowsThread, Settled
  <2> QED
    BY <1>2, <2>1, <2>2 DEF KnowsThread, Running, InHand
<1>3. ASSUME NEW m \in Mails, Answers(m)
      PROVE  Answers(m)'
  BY <1>3 DEF Answers, Settled
<1> QED
  BY <1>1, <1>2, <1>3

\* A reply stays placed unless its command lets go of it.
LEMMA PlacedStays ==
  ASSUME Types, Types', SortInv', Settled, mishaps \in Nat, mishaps' \in Nat,
         mishaps' >= mishaps, NEW c \in Commands, NEW i \in DOMAIN ReplyMails[c],
         ReplyPlaced(c, i),
         \/ Unsent(c, i)'
         \/ Current(c, i)' /\ cmd'[c].pc \in InHand
         \/ /\ Current(c, i)' => Current(c, i)
            /\ ReplyMails[c][i] \notin mailbox \cup Stored =>
                    ReplyMails[c][i] \notin mailbox' \cup Stored'
            /\ Current(c, i) => cmd[c].pc \notin InHand
  PROVE  ReplyPlaced(c, i)'
<1> DEFINE m == ReplyMails[c][i]
<1>0. m \in Mails /\ m = ReplyMails[c][i]
  BY CommandAssumption, ElementOfSeq, LenProperties
<1>1. CASE Unsent(c, i)'
  BY <1>1 DEF SortInv, WritingInv, ReplyPlaced
<1>2. CASE Current(c, i)' /\ cmd'[c].pc \in InHand
  <2>1. ~mail'[m].sorted
    <3>1. cmd'[c].pc \in Unsorted /\ NewMail(c)' = m
      BY <1>2 DEF InHand, Unsorted, Current, NewMail
    <3> QED
      BY <3>1 DEF SortInv, WritingInv
  <2> QED
    BY <1>2, <2>1 DEF ReplyPlaced
<1>3. CASE /\ Current(c, i)' => Current(c, i)
           /\ m \notin mailbox \cup Stored => m \notin mailbox' \cup Stored'
           /\ Current(c, i) => cmd[c].pc \notin InHand
  <2>1. CASE m \notin mailbox \cup Stored
    BY <1>3, <2>1 DEF ReplyPlaced
  <2>2. CASE Answers(m)
    BY <1>0, <2>2, AnswersStay DEF ReplyPlaced
  <2>3. CASE mishaps > 0 /\ ~Current(c, i)
    <3>1. mishaps' > 0
      BY <2>3
    <3> QED
      BY <1>3, <2>3, <3>1 DEF ReplyPlaced
  <2> QED
    BY <1>3, <2>1, <2>2, <2>3 DEF ReplyPlaced
<1> QED
  BY <1>1, <1>2, <1>3

\* What a command adds to the mailboxes and to the database.
LEMMA RepliesAdded ==
  ASSUME Types, Types', SortInv, NEW c \in Commands, Command(c)
  PROVE  \/ mailbox' \cup Stored' \subseteq mailbox \cup Stored
         \/ /\ cmd[c].pc \in ReplySteps /\ cmd'[c].pc \in InHand
            /\ cmd'[c].tries = cmd[c].tries
            /\ mailbox' \cup Stored' \subseteq mailbox \cup Stored \cup {NewMail(c)}
<1> USE Names
<1>0. DbTypes /\ mailbox \subseteq Mails
  BY DEF Types, CommandTypes
<1>1. CASE ~Writes(c)
  BY <1>1, CommandsAside DEF Aside
<1>2. CASE ReplyLock(c)
  BY <1>0, <1>2, MailsStay DEF ReplyLock, dbVars
<1>3. CASE ReplyStore(c)
  <2>1. /\ cmd[c].pc = "store" /\ Step(c, "add") /\ UNCHANGED <<mail, thread>>
        /\ mailbox' \subseteq mailbox \cup {NewMail(c)}
    BY <1>3 DEF ReplyStore, dbVars
  <2>2. Stored' = Stored
    BY <2>1 DEF Stored
  <2> QED
    BY <2>1, <2>2, StepTo DEF ReplySteps, InHand
<1>4. CASE ReplyAddMail(c)
  <2>1. /\ cmd[c].pc = "add" /\ Step(c, "extracted") /\ UNCHANGED <<thread, mailbox>>
        /\ AddMail(NewMail(c), FALSE)
    BY <1>4 DEF ReplyAddMail
  <2>2. NewMail(c) \in Mails
    BY <2>1, RepliesDiffer DEF ReplySteps
  <2>3. Stored' = Stored \cup {NewMail(c)}
    BY <1>0, <2>1, <2>2, MailsStay
  <2> QED
    BY <2>1, <2>3, StepTo DEF ReplySteps, InHand
<1>5. CASE ReplyJoinThread(c)
  <2>1. /\ cmd[c].pc = "sort" /\ UNCHANGED <<thread, mailbox>>
        /\ UpdateMailSorting(NewMail(c), cmd[c].thread, mail[NewMail(c)].replyTo)
    BY <1>5 DEF ReplyJoinThread
  <2>2. NewMail(c) \in Mails
    BY <2>1, RepliesDiffer DEF ReplySteps
  <2>3. Stored' = Stored
    BY <1>0, <2>1, <2>2, MailIsSorted DEF Sorts
  <2> QED
    BY <2>1, <2>3
<1> QED
  BY <1>1, <1>2, <1>3, <1>4, <1>5 DEF Writes

\* A step of a command is a step of no other one.
LEMMA OthersStandBy ==
  ASSUME Types, NEW c \in Commands, Command(c)
  PROVE  \A d \in Commands \ {c} : cmd'[d] = cmd[d]
<1>1. cmd \in [Commands -> CommandRecord]
  BY DEF Types, CommandTypes, CommandRecord
<1>2. ASSUME NEW w, cmd' = [cmd EXCEPT ![c] = w]
      PROVE  \A d \in Commands \ {c} : cmd'[d] = cmd[d]
  BY <1>1, <1>2
<1>3. CASE \E e \in Events : Issue(c, e)
  <2>1. UNCHANGED cmd \/ \E w : cmd' = [cmd EXCEPT ![c] = w]
    BY <1>3 DEF Issue, SetThreadState, MoveStart, ReplyStart
  <2> QED
    BY <1>2, <2>1
<1>4. ASSUME Finish(c)
      PROVE  \A d \in Commands \ {c} : cmd'[d] = cmd[d]
  BY <1>1, <1>4 DEF Finish
<1>5. CASE ReplyFindOriginal(c)
  BY <1>1, <1>4, <1>5 DEF ReplyFindOriginal
<1>6. CASE ~(\E e \in Events : Issue(c, e)) /\ ~ReplyFindOriginal(c)
  <2>1. Finish(c) \/ \E step : Step(c, step)
    BY <1>6 DEF Command, CommandStep, MoveForgetHead, MoveForgetMails, MoveRehome,
         MoveRequest, ReplyLock, ReplySend, ReplyStore, ReplyAddMail, ReplySetMessages,
         ReplyJoinThread, ReplyTouchThread, ReplyRecord, StagesAnswer, ReplySendFails
  <2> QED
    BY <1>4, <2>1, StepTo
<1> QED
  BY <1>3, <1>5, <1>6

\* The steps of a reply.
LEMMA ReplyMoves ==
  ASSUME Types, NEW c \in Commands, Command(c), Kind[c] = "reply"
  PROVE  \/ /\ ~Running(c) /\ cmd'[c].pc \in {"idle", "find original"}
            /\ \E e \in Events :
                 /\ timeline[e].kind = "mail"
                 /\ timeline[e].of = InReplyTo[ReplyMails[c][cmd'[c].tries]]
                 /\ cmd'[c].pc = "find original" => cmd'[c].event = e
            /\ cmd'[c].tries \in DOMAIN ReplyMails[c]
         \/ /\ Running(c) /\ cmd'[c].tries = cmd[c].tries /\ cmd'[c].pc = "idle"
            /\ cmd[c].pc \notin InHand
         \/ /\ Running(c) /\ cmd[c].pc = "find original"
            /\ cmd'[c].tries = cmd[c].tries /\ cmd'[c].pc = "lock"
            /\ \E m \in MailsByMatrixId(cmd[c].event) : cmd'[c].thread = mail[m].thread
         \/ /\ Running(c) /\ cmd[c].pc \notin InHand
            /\ \E step \in CommandSteps :
                 /\ step # "find original" /\ Step(c, step)
                 /\ step \in {"lock", "send", "store"} \cup InHand =>
                     cmd[c].pc \in {"lock", "send", "store"}
         \/ /\ cmd[c].pc \in InHand
            /\ \E step \in {"extracted", "sort"} : Step(c, step)
         \/ ReplyJoinThread(c)
<1> USE Names
<1>0. /\ cmd \in [Commands -> CommandRecord] /\ cmd[c] \in CommandRecord
      /\ cmd[c].tries \in Nat
  BY DEF Types, CommandTypes, CommandRecord
<1>1. ASSUME NEW e \in Events, ReplyStart(c, e)
      PROVE  /\ ~Running(c) /\ cmd'[c].pc \in {"idle", "find original"}
             /\ timeline[e].kind = "mail"
             /\ timeline[e].of = InReplyTo[ReplyMails[c][cmd'[c].tries]]
             /\ cmd'[c].pc = "find original" => cmd'[c].event = e
             /\ cmd'[c].tries \in DOMAIN ReplyMails[c]
  <2>1. PICK w : /\ cmd' = [cmd EXCEPT ![c] = w]
                 /\ w = IF MailsByMatrixId(c) # {}
                        THEN [NewCommand EXCEPT !.tries = cmd[c].tries + 1]
                        ELSE [NewCommand EXCEPT !.tries = cmd[c].tries + 1, !.event = e,
                                                !.pc = "find original",
                                                !.room = timeline[e].room]
    BY <1>1 DEF ReplyStart
  <2>2. /\ w.tries = cmd[c].tries + 1 /\ w.pc \in {"idle", "find original"}
        /\ w.pc = "find original" => w.event = e
    BY <2>1 DEF NewCommand
  <2>3. cmd'[c] = w
    BY <1>0, <2>1
  <2>4. cmd[c].tries + 1 \in DOMAIN ReplyMails[c]
    BY <1>0, <1>1, CommandAssumption, LenProperties DEF ReplyStart
  <2> QED
    BY <1>1, <2>2, <2>3, <2>4 DEF ReplyStart, Running
<1>2. ASSUME Finish(c)
      PROVE  /\ cmd'[c].tries = cmd[c].tries /\ cmd'[c].pc = "idle"
  BY <1>0, <1>2 DEF Finish, NewCommand
<1>3. CASE StagesAnswer(c) \/ ReplySendFails(c)
  BY <1>2, <1>3 DEF StagesAnswer, ReplySendFails, Running, InHand
<1>4. CASE ReplyFindOriginal(c)
  <2>1. cmd[c].pc = "find original" /\ Running(c) /\ cmd[c].pc \notin InHand
    BY <1>4 DEF ReplyFindOriginal, Running, InHand
  <2>2. CASE Finish(c)
    BY <1>2, <2>1, <2>2
  <2>3. CASE ~Finish(c)
    <3>1. PICK m \in MailsByMatrixId(cmd[c].event) :
            cmd' = [cmd EXCEPT ![c].pc = "lock", ![c].thread = mail[m].thread]
      BY <1>4, <2>3 DEF ReplyFindOriginal
    <3>2. /\ cmd'[c].tries = cmd[c].tries /\ cmd'[c].pc = "lock"
          /\ cmd'[c].thread = mail[m].thread
      BY <1>0, <3>1 DEF CommandRecord
    <3> QED
      BY <2>1, <3>2
  <2> QED
    BY <2>2, <2>3
<1>5. CASE MoveForgetHead(c) \/ MoveForgetMails(c) \/ MoveRehome(c) \/ MoveRequest(c)
           \/ ReplyLock(c) \/ ReplySend(c) \/ ReplyStore(c) \/ ReplyTouchThread(c)
           \/ ReplyRecord(c)
  <2>1. /\ cmd[c].pc \notin {"idle", "add", "extracted", "sort"}
        /\ \E step \in CommandSteps :
                /\ step # "find original" /\ Step(c, step)
                /\ step \in {"lock", "send", "store"} \cup InHand =>
                        cmd[c].pc \in {"lock", "send", "store"}
    BY <1>5 DEF MoveForgetHead, MoveForgetMails, MoveRehome, MoveRequest, ReplyLock,
         ReplySend, ReplyStore, ReplyTouchThread, ReplyRecord, CommandSteps, InHand
  <2> QED
    BY <2>1 DEF Running, InHand
<1>6. CASE ReplyAddMail(c) \/ ReplySetMessages(c)
  BY <1>6 DEF ReplyAddMail, ReplySetMessages, InHand
<1> QED
  BY <1>1, <1>3, <1>4, <1>5, <1>6
     DEF Command, Issue, SetThreadState, MoveStart, CommandStep

\* A step of a reply leaves what it knows and its mails in order.
LEMMA ReplyKeepsAnswers ==
  ASSUME Types, Types', SortInv, SortInv', HomeInv, IdsPointHome, AnswersInv,
         Settled, Lasting, NEW c \in Commands, Command(c), Kind[c] = "reply",
         mishaps \in Nat, UNCHANGED mishaps
  PROVE  KnowsThread(c)' /\ \A i \in DOMAIN ReplyMails[c] : ReplyPlaced(c, i)'
<1> USE Names
<1> DEFINE Unchanged == mailbox' \cup Stored' \subseteq mailbox \cup Stored
<1>0. /\ KnowsThread(c) /\ \A i \in DOMAIN ReplyMails[c] : ReplyPlaced(c, i)
      /\ CommandTypes /\ ChatTypes /\ Commands \cap Nat = {} /\ mishaps' \in Nat /\ mishaps' >= mishaps
  BY CommandAssumption DEF AnswersInv, Types
<1>1. \A i \in DOMAIN ReplyMails[c] : ReplyMails[c][i] \in Mails
  BY CommandAssumption, ElementOfSeq, LenProperties
<1>2. ASSUME Running(c), cmd'[c].tries = cmd[c].tries, cmd[c].pc \notin InHand
      PROVE  \A i \in DOMAIN ReplyMails[c] : ReplyPlaced(c, i)'
  <2> SUFFICES ASSUME NEW i \in DOMAIN ReplyMails[c] PROVE ReplyPlaced(c, i)'
    OBVIOUS
  <2>1. Current(c, i)' => Current(c, i)
    BY <1>2 DEF Current
  <2>2. CASE Unchanged
    BY <1>0, <1>2, <2>1, <2>2, PlacedStays
  <2>3. CASE ~Unchanged
    <3>1. /\ cmd[c].pc \in ReplySteps /\ cmd'[c].pc \in InHand
          /\ mailbox' \cup Stored' \subseteq mailbox \cup Stored \cup {NewMail(c)}
      BY <2>3, RepliesAdded
    <3>2. CASE i = cmd[c].tries
      <4>1. Current(c, i)'
        BY <1>2, <3>1, <3>2 DEF Current, Running, InHand
      <4> QED
        BY <1>0, <3>1, <4>1, PlacedStays
    <3>3. CASE i # cmd[c].tries
      <4>1. ReplyMails[c][i] # NewMail(c)
        BY <3>1, <3>3, RepliesDiffer
      <4> QED
        BY <1>0, <1>2, <2>1, <3>1, <4>1, PlacedStays
    <3> QED
      BY <3>2, <3>3
  <2> QED
    BY <2>2, <2>3
<1>3. CASE /\ ~Running(c) /\ cmd'[c].pc \in {"idle", "find original"}
           /\ \E e \in Events :
                /\ timeline[e].kind = "mail"
                /\ timeline[e].of = InReplyTo[ReplyMails[c][cmd'[c].tries]]
                /\ cmd'[c].pc = "find original" => cmd'[c].event = e
           /\ cmd'[c].tries \in DOMAIN ReplyMails[c]
  <2>1. KnowsThread(c)'
    BY <1>3 DEF KnowsThread, NewMail, Lasting, Running
  <2>2. ASSUME NEW i \in DOMAIN ReplyMails[c]
        PROVE  ReplyPlaced(c, i)'
    <3>1. ~Current(c, i) /\ (Current(c, i)' => Unsent(c, i)')
      BY <1>3 DEF Current, Running, Unsent, Unwritten
    <3>2. Unchanged
      BY <1>3, RepliesAdded DEF InHand
    <3> QED
      BY <1>0, <3>1, <3>2, PlacedStays
  <2> QED
    BY <2>1, <2>2
<1>4. CASE /\ Running(c) /\ cmd'[c].tries = cmd[c].tries /\ cmd'[c].pc = "idle"
           /\ cmd[c].pc \notin InHand
  BY <1>2, <1>4 DEF KnowsThread, InHand, Running
<1>5. CASE /\ Running(c) /\ cmd[c].pc = "find original"
           /\ cmd'[c].tries = cmd[c].tries /\ cmd'[c].pc = "lock"
           /\ \E m \in MailsByMatrixId(cmd[c].event) : cmd'[c].thread = mail[m].thread
  <2>1. PICK m \in Mails : mail[m].matrix = cmd[c].event /\ cmd'[c].thread = mail[m].thread
    BY <1>5 DEF MailsByMatrixId, Stored
  <2>2. PICK e \in Events : /\ e = cmd[c].event /\ timeline[e].kind = "mail"
                            /\ timeline[e].of = InReplyTo[NewMail(c)]
    BY <1>0, <1>5 DEF KnowsThread
  <2>3. e \in Nat /\ e \notin Commands /\ e # None
    BY <1>0, <2>2, EventsAreNumbers
  <2>4. MailIdHome(m)
    BY HomeParts
  <2>5. m = timeline[e].of
    BY <2>1, <2>2, <2>3, <2>4 DEF MailIdHome
  <2>6. mail[m].thread # None /\ NewMail(c)' = NewMail(c)
    BY <1>5, <2>2, <2>5 DEF HomeInv, PostedHome, NewMail
  <2>7. mail'[m].thread = mail[m].thread
    BY <2>6 DEF Settled
  <2>8. KnowsThread(c)'
    BY <1>0, <1>5, <2>1, <2>2, <2>5, <2>6, <2>7 DEF KnowsThread, Running
  <2> QED
    BY <1>2, <1>5, <2>8 DEF InHand
<1>6. CASE /\ Running(c) /\ cmd[c].pc \notin InHand
           /\ \E step \in CommandSteps :
                /\ step # "find original" /\ Step(c, step)
                /\ step \in {"lock", "send", "store"} \cup InHand =>
                        cmd[c].pc \in {"lock", "send", "store"}
  BY <1>0, <1>2, <1>6, StepTo, AnswersStay
<1>7. CASE /\ cmd[c].pc \in InHand
           /\ \E step \in {"extracted", "sort"} : Step(c, step)
  <2>1. KnowsThread(c)'
    BY <1>0, <1>7, AnswersStay DEF InHand, Running
  <2>2. cmd'[c].tries = cmd[c].tries /\ cmd'[c].pc \in InHand /\ cmd[c].pc \in ReplySteps
    BY <1>7, StepTo DEF InHand, ReplySteps
  <2>3. ASSUME NEW i \in DOMAIN ReplyMails[c]
        PROVE  ReplyPlaced(c, i)'
    <3>1. CASE i = cmd[c].tries
      BY <1>0, <2>2, <3>1, PlacedStays DEF Current, Running, InHand
    <3>2. CASE i # cmd[c].tries
      <4>1. ReplyMails[c][i] # NewMail(c) /\ ~Current(c, i) /\ ~Current(c, i)'
        BY <2>2, <3>2, RepliesDiffer DEF Current
      <4>2. mailbox' \cup Stored' \subseteq mailbox \cup Stored \cup {NewMail(c)}
        BY RepliesAdded
      <4> QED
        BY <1>0, <4>1, <4>2, PlacedStays
    <3> QED
      BY <3>1, <3>2
  <2> QED
    BY <2>1, <2>3
<1>8. CASE ReplyJoinThread(c)
  <2>1. /\ cmd[c].pc = "sort" /\ Step(c, "touch") /\ UNCHANGED <<thread, mailbox>>
        /\ UpdateMailSorting(NewMail(c), cmd[c].thread, mail[NewMail(c)].replyTo)
    BY <1>8 DEF ReplyJoinThread
  <2>2. /\ KnowsThread(c)' /\ cmd'[c].tries = cmd[c].tries /\ cmd'[c].pc = "touch"
    BY <1>0, <2>1, StepTo, AnswersStay DEF InHand, Running
  <2>3. NewMail(c) \in Mails /\ cmd[c].pc \in ReplySteps
    BY <2>1, RepliesDiffer DEF ReplySteps
  <2>4. Sorts(NewMail(c), cmd[c].thread)
    BY <2>1, <2>3, MailIsSorted DEF Types
  <2>5. PICK n, t, p : n = NewMail(c) /\ t = cmd[c].thread /\ p = InReplyTo[NewMail(c)]
    OBVIOUS
  <2>6. /\ n \in Mails /\ InReplyTo[n] = p /\ p \in Mails
        /\ t # None /\ t = mail[p].thread
    BY <1>0, <2>1, <2>3, <2>5 DEF KnowsThread
  <2>7. Answers(n)'
    BY <2>4, <2>5, <2>6 DEF Sorts, Settled, Answers
  <2>8. ASSUME NEW i \in DOMAIN ReplyMails[c]
        PROVE  ReplyPlaced(c, i)'
    <3>1. CASE i = cmd[c].tries
      <4>1. ReplyMails[c][i] = n
        BY <2>5, <3>1 DEF NewMail
      <4> QED
        BY <2>7, <4>1 DEF ReplyPlaced, Answers
    <3>2. CASE i # cmd[c].tries
      <4>1. ~Current(c, i) /\ ~Current(c, i)' /\ Unchanged
        BY <2>1, <2>2, <2>4, <3>2 DEF Current, Sorts
      <4> QED
        BY <1>0, <4>1, PlacedStays
    <3> QED
      BY <3>1, <3>2
  <2> QED
    BY <2>2, <2>8
<1> QED
  BY <1>3, <1>4, <1>5, <1>6, <1>7, <1>8, ReplyMoves

LEMMA AnswersKept ==
  ASSUME Types, Types', SortInv, SortInv', HomeInv, IdsPointHome, AnswersInv, [Next]_vars
  PROVE  AnswersInv'
<1> USE Names
<1>0. /\ Settled /\ Lasting /\ mishaps \in Nat /\ mishaps' \in Nat /\ mishaps' >= mishaps
      /\ \A c \in Commands : KnowsThread(c)
      /\ \A c \in Commands : \A i \in DOMAIN ReplyMails[c] : ReplyPlaced(c, i)
  BY StaySettled, EventsLast, MishapsGrow DEF AnswersInv
<1>1. closed' # {} => mishaps' > 0
  <2>1. CASE Serves \/ Crash \/ Exit
    BY <1>0, <2>1 DEF AnswersInv, Serves, Crash, Exit, StartAgain
  <2>2. CASE Stop
    BY <1>0, <2>2 DEF Stop, Mishap
  <2> QED
    BY <2>1, <2>2, StagesServe
<1>2. ASSUME NEW c \in Commands, cmd'[c] = cmd[c],
             \A i \in DOMAIN ReplyMails[c] :
                ReplyMails[c][i] \notin mailbox \cup Stored =>
                    ReplyMails[c][i] \notin mailbox' \cup Stored'
      PROVE  KnowsThread(c)' /\ \A i \in DOMAIN ReplyMails[c] : ReplyPlaced(c, i)'
  <2>1. \A i \in DOMAIN ReplyMails[c] : Current(c, i)' <=> Current(c, i)
    BY <1>2 DEF Current, Running
  <2>2. ASSUME NEW i \in DOMAIN ReplyMails[c]
        PROVE  ReplyPlaced(c, i)'
    BY <1>0, <1>2, <2>1, PlacedStays
  <2> QED
    BY <1>0, <1>2, <2>2, AnswersStay
<1>3. CASE Bystanders \/ SortingStage
  <2>1. UNCHANGED commandVars
    BY <1>3, BystandersStatements, SortingCases
  <2>2. Stored' \subseteq Stored \cup mailbox
    BY <1>3, BystandersAside, SortingCases DEF Aside
  <2> QED
    BY <1>1, <1>2, <2>1, <2>2 DEF AnswersInv, commandVars
<1>4. ASSUME NEW d \in Commands, Command(d)
      PROVE  \A c \in Commands :
                KnowsThread(c)' /\ \A i \in DOMAIN ReplyMails[c] : ReplyPlaced(c, i)'
  <2> SUFFICES ASSUME NEW c \in Commands
               PROVE  KnowsThread(c)' /\ \A i \in DOMAIN ReplyMails[c] : ReplyPlaced(c, i)'
    OBVIOUS
  <2>1. CASE c = d /\ Kind[d] = "reply"
    <3>1. UNCHANGED mishaps
      BY <1>4 DEF Command
    <3> QED
      BY <1>0, <1>4, <2>1, <3>1, ReplyKeepsAnswers
  <2>2. CASE c = d /\ Kind[d] # "reply"
    <3>1. cmd'[c].pc \notin ReplySteps
      BY <2>2 DEF SortInv, WritingInv
    <3>2. KnowsThread(c)'
      BY <2>2, <3>1 DEF KnowsThread, ReplySteps
    <3>3. \A i \in DOMAIN ReplyMails[c] : Unsent(c, i)'
      BY <2>2 DEF Unsent
    <3> QED
      BY <1>0, <3>2, <3>3, PlacedStays
  <2>3. CASE c # d
    <3>1. cmd'[c] = cmd[c]
      BY <1>4, <2>3, OthersStandBy
    <3>2. ASSUME NEW i \in DOMAIN ReplyMails[c], ReplyMails[c][i] \notin mailbox \cup Stored
          PROVE  ReplyMails[c][i] \notin mailbox' \cup Stored'
      BY <1>4, <2>3, <3>2, RepliesAdded, RepliesDiffer
    <3> QED
      BY <1>2, <3>1, <3>2
  <2> QED
    BY <2>1, <2>2, <2>3
<1>5. CASE Crash \/ Exit
  <2>1. \A c \in Commands : cmd'[c].pc = "idle"
    BY <1>5 DEF Crash, Exit, StartAgain, NewCommand
  <2>2. mishaps' > 0
    BY <1>0, <1>5 DEF Crash, Exit, Mishap, AnswersInv
  <2>3. \A c \in Commands :
            KnowsThread(c)' /\ \A i \in DOMAIN ReplyMails[c] : ReplyPlaced(c, i)'
    BY <2>1, <2>2 DEF KnowsThread, ReplyPlaced, Current, Running, InHand
  <2> QED
    BY <1>1, <2>3 DEF AnswersInv
<1> QED
  BY <1>1, <1>3, <1>4, <1>5, Steps DEF AnswersInv

LEMMA AnswersAlways ==
  Spec => [](Types /\ SortInv /\ HomeInv /\ IdsPointHome /\ AnswersInv)
<1>1. Init => AnswersInv
  <2> SUFFICES ASSUME Init PROVE AnswersInv
    OBVIOUS
  <2>1. /\ cmd = [c \in Commands |-> NewCommand] /\ closed = {} /\ mailbox = Incoming
        /\ mail = [m \in Mails |-> NoMail]
    BY DEF Init, CommandsInit, StagesInit, DbInit
  <2>2. Stored = {}
    BY <2>1 DEF Stored, NoMail
  <2>3. \A c \in Commands : KnowsThread(c)
    BY <2>1 DEF KnowsThread, NewCommand, Running
  <2>4. \A c \in Commands : \A i \in DOMAIN ReplyMails[c] : ReplyPlaced(c, i)
    BY <2>1, <2>2, ReplyAssumption DEF ReplyPlaced
  <2> QED
    BY <2>1, <2>3, <2>4 DEF AnswersInv
<1>2. /\ Types /\ Types' /\ SortInv /\ SortInv' /\ HomeInv /\ IdsPointHome
      /\ AnswersInv /\ [Next]_vars
      => AnswersInv'
  BY AnswersKept
<1> QED
  BY <1>1, <1>2, HomeAlways, PTL DEF Spec

\* A reply written here gets into the thread of the mail it answers, although a
\* fetcher may store it first, the thread may be force closed and the sorting
\* stage works on the same table: nobody else sorts it, unless the process has
\* ended before its command could.
THEOREM RepliesStayInThread == Spec => []ReplyInThread
<1>1. Types /\ AnswersInv /\ SortInv => ReplyInThread
  <2> SUFFICES ASSUME Types, AnswersInv, SortInv,
                      NEW c \in Commands, NEW m \in Range(ReplyMails[c]), mail[m].sorted
               PROVE  \/ mail[m].thread = mail[InReplyTo[m]].thread
                      \/ mishaps > 0 /\ ~(Running(c) /\ m = NewMail(c))
    BY DEF ReplyInThread
  <2>1. PICK i \in DOMAIN ReplyMails[c] : m = ReplyMails[c][i]
    BY DEF Range
  <2>2. m \in Mails /\ m \in Stored
    BY <2>1, CommandAssumption, ElementOfSeq, LenProperties DEF SortInv, RowsInv, Stored
  <2>3. CASE Answers(m)
    BY <2>3 DEF Answers
  <2>4. CASE mishaps > 0 /\ ~Current(c, i)
    <3>1. ASSUME Running(c), m = NewMail(c)
          PROVE  FALSE
      <4>1. Kind[c] = "reply"
        BY <2>1, <2>2 DEF SortInv, WritingInv, Unsent
      <4>2. cmd[c].tries \in DOMAIN ReplyMails[c]
        BY <3>1, <4>1 DEF AnswersInv, KnowsThread
      <4>3. PICK j \in DOMAIN ReplyMails[c] : j = cmd[c].tries /\ m = ReplyMails[c][j]
        BY <3>1, <4>2 DEF NewMail
      <4>4. ReplyMails[c][i] = ReplyMails[c][j] => i = j
        BY ReplyAssumption, Zenon
      <4> QED
        BY <2>1, <2>4, <3>1, <4>3, <4>4 DEF Current
    <3> QED
      BY <2>4, <3>1
  <2> QED
    BY <2>1, <2>2, <2>3, <2>4 DEF AnswersInv, ReplyPlaced
<1> QED
  BY <1>1, AnswersAlways, PTL
=============================================================================
