---------------------------- MODULE ThreadSorting ----------------------------
(***************************************************************************)
(* The thread sorting stage of internal/app/threadsorting.go, one action   *)
(* per database statement, and the mutex by which a reply command keeps it *)
(* from sorting the mail the command is sorting by hand.                   *)
(***************************************************************************)
EXTENDS Database, Stages

CONSTANT Blacklisted   \* mails whose sender matches HeadBlacklistRegex

VARIABLES
    sorter,       \* the worker: its next step and its local variables
    sortingMutex  \* who holds threadSortingMutex, or None

sortingVars == <<sorter, sortingMutex>>

SorterSteps ==
    {"rest", "lock", "gate", "list", "next", "references", "join", "touch",
     "head", "claim", "finish"}

SortingInit ==
    /\ sorter = [pc |-> "rest", rest |-> {}, cur |-> None, target |-> None,
                 first |-> TRUE]
    /\ sortingMutex = None

At(step) == sorter.pc = step
-----------------------------------------------------------------------------
SortingBegin ==
    /\ At("rest")
    /\ TakeUp("sorting")
    /\ sorter' = [sorter EXCEPT !.pc = "lock"]
    /\ UNCHANGED <<sortingMutex, dbVars>>

LockThreadSorting ==
    /\ At("lock")
    /\ sortingMutex = None
    /\ sortingMutex' = "sorting"
    /\ sorter' = [sorter EXCEPT !.pc = "gate"]
    /\ UNCHANGED <<stageVars, dbVars>>

\* waitForCompleteData: unlock, and the stage calls work again.
WaitForCompleteData ==
    /\ At("gate")
    /\ sortingMutex' = None
    /\ sorter' = [sorter EXCEPT !.pc = "lock"]
    /\ UNCHANGED <<stageVars, dbVars>>

AutoUpdateMailSorting ==
    /\ At("gate")
    /\ AutoUpdateMailReplyTo
    /\ sorter' = [sorter EXCEPT !.pc = "list"]
    /\ UNCHANGED <<sortingMutex, stageVars, thread>>

\* FAULT: a run that finds nothing to sort never hands over.
ListWithoutHandover ==
    /\ At("list")
    /\ sorter' = IF MailsRequiringSorting = {}
                 THEN [sorter EXCEPT !.pc = "rest", !.first = FALSE]
                 ELSE [sorter EXCEPT !.pc = "next", !.rest = MailsRequiringSorting]
    /\ sortingMutex' = IF MailsRequiringSorting = {} THEN None ELSE sortingMutex
    /\ UNCHANGED <<stageVars, dbVars>>

\* The rows are read here and used until the run ends. Their reply_to stays
\* what it was, because only this stage and, for its own mail, a reply
\* command under the same mutex write it.
ListMailsRequiringSorting ==
    /\ At("list")
    /\ IF MailsRequiringSorting # {}
       THEN /\ sorter' = [sorter EXCEPT !.pc = "next",
                                        !.rest = MailsRequiringSorting]
            /\ UNCHANGED <<sortingMutex, stageVars>>
       ELSE /\ sorter' = [sorter EXCEPT !.pc = "rest", !.first = FALSE]
            /\ sortingMutex' = None
            /\ IF sorter.first THEN QueueWork("extraction")
                               ELSE UNCHANGED stageVars
    /\ UNCHANGED dbVars

\* The oldest remaining mail; if it answers a mail in a thread that is not
\* force closed (GetMailById joins the thread), it goes there.
LookUpReplyTo ==
    /\ At("next")
    /\ \E m \in Oldest(sorter.rest) :
        LET parent == mail[m].replyTo
            t == IF parent = None THEN None ELSE mail[parent].thread
            found == t # None /\ ~thread[t].forceClose
        IN  sorter' = [sorter EXCEPT
                !.cur = m,
                !.target = IF found THEN t ELSE None,
                !.pc = IF found THEN "join" ELSE "references"]
    /\ UNCHANGED <<sortingMutex, stageVars, dbVars>>

LookUpReferences ==
    /\ At("references")
    /\ IF ReferencedThreadParents(sorter.cur) = {}
       THEN sorter' = [sorter EXCEPT !.pc = "head"]
       ELSE \E r \in ReferencedThreadParents(sorter.cur) :
                sorter' = [sorter EXCEPT !.pc = "join",
                                         !.target = mail[r].thread]
    /\ UNCHANGED <<sortingMutex, stageVars, dbVars>>

\* The loop goes on with the remaining mails, or ends.
SortedCurrent ==
    LET rest == sorter.rest \ {sorter.cur}
    IN  sorter' = [sorter EXCEPT !.rest = rest, !.cur = None, !.target = None,
                                 !.pc = IF rest = {} THEN "finish" ELSE "next"]

\* AddMailToThread: the mail first, then its thread.
JoinThread ==
    /\ At("join")
    /\ UpdateMailSorting(sorter.cur, sorter.target, mail[sorter.cur].replyTo)
    /\ sorter' = [sorter EXCEPT !.pc = "touch"]
    /\ UNCHANGED <<sortingMutex, stageVars, thread>>

TouchThread ==
    /\ At("touch")
    /\ UpdateThreadLastMail(sorter.target, sorter.cur)
    /\ SortedCurrent
    /\ UNCHANGED <<sortingMutex, stageVars, mail>>

MarkMailAsSorted ==
    /\ At("head")
    /\ sorter.cur \in Blacklisted
    /\ UpdateMailMarkSorted(sorter.cur)
    /\ SortedCurrent
    /\ UNCHANGED <<sortingMutex, stageVars, thread>>

\* FAULT: the mail is not put into the thread it starts.
CreateThreadOnly ==
    /\ At("head")
    /\ sorter.cur \notin Blacklisted
    /\ AddThread(sorter.cur)
    /\ SortedCurrent
    /\ UNCHANGED <<sortingMutex, stageVars, mail>>

\* CreateThread: the thread first, then the mail.
CreateThread ==
    /\ At("head")
    /\ sorter.cur \notin Blacklisted
    /\ AddThread(sorter.cur)
    /\ sorter' = [sorter EXCEPT !.pc = "claim", !.target = Len(thread) + 1]
    /\ UNCHANGED <<sortingMutex, stageVars, mail>>

ClaimHead ==
    /\ At("claim")
    /\ UpdateMailSorting(sorter.cur, sorter.target, mail[sorter.cur].replyTo)
    /\ SortedCurrent
    /\ UNCHANGED <<sortingMutex, stageVars, thread>>

FinishSorting ==
    /\ At("finish")
    /\ QueueWork("extraction")
    /\ sortingMutex' = None
    /\ sorter' = [sorter EXCEPT !.pc = "rest", !.first = FALSE]
    /\ UNCHANGED dbVars

SortingStep ==
    \/ SortingBegin \/ LockThreadSorting \/ AutoUpdateMailSorting
    \/ ListMailsRequiringSorting \/ LookUpReplyTo \/ LookUpReferences
    \/ JoinThread \/ TouchThread \/ MarkMailAsSorted \/ CreateThread
    \/ ClaimHead \/ FinishSorting

Sorting == SortingStep \/ WaitForCompleteData
=============================================================================
