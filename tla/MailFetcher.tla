----------------------------- MODULE MailFetcher -----------------------------
(***************************************************************************)
(* How one mailbox is collected (internal/mail/fetcher.go): the fetch loop *)
(* searches for the uids above the last one it has seen, saves that uid,   *)
(* and hands what it has fetched to storeMails (internal/app/app.go) over  *)
(* a channel. The connection may be lost and is opened again by another    *)
(* goroutine; the server may number its mails anew; the process may be     *)
(* stopped, or die, and start again from the saved state.                  *)
(*                                                                         *)
(* Left out: idling (an update of the mailbox queues a fetch while the     *)
(* connection is up), the locks around it, and the age limit of mails.     *)
(***************************************************************************)
EXTENDS Integers, Sequences, FiniteSetsExt

CONSTANTS
    Mails,             \* the mails that arrive in the mailbox
    Malformed,         \* those that parseMessage rejects
    FirstUid,          \* the uid of the first of them
    ChannelSize,       \* capacity of fetchedMails
    MaxCrashes,        \* bound: crashes in a behaviour
    MaxStops,          \* bound: shutdowns
    MaxDrops,          \* bound: lost connections
    MaxRenumberings    \* bound: changes of the mailbox's UIDVALIDITY

ASSUME FetcherAssumption ==
    /\ Malformed \subseteq Mails
    /\ FirstUid \in Nat \ {0} /\ ChannelSize \in Nat \ {0}
    /\ MaxCrashes \in Nat /\ MaxStops \in Nat
    /\ MaxDrops \in Nat /\ MaxRenumberings \in Nat

VARIABLES
    box,        \* the server: the uid of every mail (0: not there) and more
    up,         \* the connection of the fetcher works
    row,        \* the fetcher's row in the database
    loop,       \* the fetch loop
    seen,       \* uidLast and uidValidity in memory
    required,   \* fetchingRequired holds a token
    watcher,    \* the step of the goroutine that reconnects
    stopping,   \* Shutdown has been called
    channel,    \* fetchedMails
    chunk,      \* the mails storeMails is inserting
    stored,     \* the mails in the database
    dropped,    \* history: mails that were on their way in a crash
    budget      \* what is left of the four bounds

vars == <<box, up, row, loop, seen, required, watcher, stopping, channel,
          chunk, stored, dropped, budget>>

DefaultRow == [last |-> 1, validity |-> 1]   \* schema.sql
FirstValidity == 2                           \* what the server starts with

InBox == {m \in Mails : box.uid[m] # 0}
Highest == {m \in InBox : \A n \in InBox : box.uid[n] <= box.uid[m]}
Fresh == [pc |-> "setup", valid |-> FALSE, found |-> {}, batch |-> {}]

Init ==
    /\ box = [uid |-> [m \in Mails |-> 0], next |-> FirstUid,
              validity |-> FirstValidity]
    /\ up = FALSE
    /\ row = DefaultRow
    /\ loop = Fresh
    /\ seen = DefaultRow
    /\ required = FALSE
    /\ watcher = "rest"
    /\ stopping = FALSE
    /\ channel = <<>>
    /\ chunk = {}
    /\ stored = {} /\ dropped = {}
    /\ budget = [crashes |-> MaxCrashes, stops |-> MaxStops,
                 drops |-> MaxDrops, renumberings |-> MaxRenumberings]

pumpVars == <<channel, chunk, stored, dropped>>
-----------------------------------------------------------------------------
(* The mail server *)

Arrive(m) ==
    /\ box.uid[m] = 0
    /\ box' = [box EXCEPT !.uid[m] = box.next, !.next = @ + 1]
    /\ required' = (required \/ (up /\ ~stopping))
    /\ UNCHANGED <<up, row, loop, seen, watcher, stopping, pumpVars, budget>>

\* UIDVALIDITY changes: the mails are numbered from 1 in their old order.
Renumber ==
    /\ budget.renumberings > 0
    /\ ~up
    /\ box' = [uid |-> [m \in Mails |->
                    Cardinality({n \in InBox : box.uid[n] <= box.uid[m]})],
               next |-> Cardinality(InBox) + 1,
               validity |-> box.validity + 1]
    /\ budget' = [budget EXCEPT !.renumberings = @ - 1]
    /\ UNCHANGED <<up, row, loop, seen, required, watcher, stopping, pumpVars>>

\* What a running FETCH has not delivered yet comes back as nil.
Drop ==
    /\ budget.drops > 0
    /\ up
    /\ up' = FALSE
    /\ loop' = [loop EXCEPT !.found = {}]
    /\ budget' = [budget EXCEPT !.drops = @ - 1]
    /\ UNCHANGED <<box, row, seen, required, watcher, stopping, pumpVars>>
-----------------------------------------------------------------------------
(* Setup and the fetch loop *)

\* NewMailFetcher loads the row. login selects the mailbox, takes over its
\* UIDVALIDITY whether it is the saved one or not, and saves the state;
\* StartFetching queues the initial fetch.
Setup ==
    /\ loop.pc = "setup"
    /\ up' = TRUE
    /\ seen' = [last |-> row.last, validity |-> box.validity]
    /\ row' = seen'
    /\ required' = TRUE
    /\ loop' = [Fresh EXCEPT !.pc = "wait"]
    /\ UNCHANGED <<box, watcher, stopping, pumpVars, budget>>

TakeRequired ==
    /\ loop.pc = "wait"
    /\ required
    /\ required' = FALSE
    /\ loop' = [loop EXCEPT !.pc = "select"]
    /\ UNCHANGED <<box, up, row, seen, watcher, stopping, pumpVars, budget>>

\* uidsValid; an error counts as not valid.
Select ==
    /\ loop.pc = "select"
    /\ loop' = [loop EXCEPT !.pc = "search",
                            !.valid = up /\ seen.validity = box.validity]
    /\ seen' = IF up THEN [seen EXCEPT !.validity = box.validity] ELSE seen
    /\ UNCHANGED <<box, up, row, required, watcher, stopping, pumpVars, budget>>

\* The range (uidLast+1):* always includes the mail with the highest uid.
Matching ==
    IF loop.valid THEN {m \in InBox : box.uid[m] > seen.last} \cup Highest
                  ELSE InBox

Search ==
    /\ loop.pc = "search"
    /\ loop' = IF up /\ Matching # {}
               THEN [loop EXCEPT !.pc = "fetch", !.found = Matching, !.batch = {}]
               ELSE [loop EXCEPT !.pc = "send", !.batch = {}]
    /\ UNCHANGED <<box, up, row, seen, required, watcher, stopping, pumpVars,
                   budget>>

\* FAULT: uidLast is the uid of the last mail that was parsed, not the highest.
FetchLatest(m) ==
    /\ loop.pc = "fetch"
    /\ m \in loop.found
    /\ \A n \in loop.found : box.uid[m] <= box.uid[n]
    /\ IF m \in Malformed
       THEN /\ loop' = [loop EXCEPT !.found = @ \ {m}]
            /\ UNCHANGED seen
       ELSE /\ loop' = [loop EXCEPT !.found = @ \ {m}, !.batch = @ \cup {m}]
            /\ seen' = [seen EXCEPT !.last = box.uid[m]]
    /\ UNCHANGED <<box, up, row, required, watcher, stopping, pumpVars, budget>>

\* In the order of the uids; a mail that cannot be parsed leaves uidLast.
Fetch(m) ==
    /\ loop.pc = "fetch"
    /\ m \in loop.found
    /\ \A n \in loop.found : box.uid[m] <= box.uid[n]
    /\ IF m \in Malformed
       THEN /\ loop' = [loop EXCEPT !.found = @ \ {m}]
            /\ UNCHANGED seen
       ELSE /\ loop' = [loop EXCEPT !.found = @ \ {m}, !.batch = @ \cup {m}]
            /\ seen' = [seen EXCEPT !.last = Max({@, box.uid[m]})]
    /\ UNCHANGED <<box, up, row, required, watcher, stopping, pumpVars, budget>>

\* FAULT: the highest uid of the search is saved, fetched or not.
SaveSearched ==
    /\ loop.pc = "fetch"
    /\ loop.found = {}
    /\ row' = IF stopping THEN row
              ELSE [seen EXCEPT !.last = Max({@} \cup {box.uid[m] : m \in Highest})]
    /\ loop' = [loop EXCEPT !.pc = "send"]
    /\ UNCHANGED <<box, up, seen, required, watcher, stopping, pumpVars, budget>>

\* saveState; its context is cancelled once Shutdown has been called.
SaveFetched ==
    /\ loop.pc = "fetch"
    /\ loop.found = {}
    /\ row' = IF stopping THEN row ELSE seen
    /\ loop' = [loop EXCEPT !.pc = "send"]
    /\ UNCHANGED <<box, up, seen, required, watcher, stopping, pumpVars, budget>>

\* An empty batch is sent as well.
Send ==
    /\ loop.pc = "send"
    /\ Len(channel) < ChannelSize
    /\ channel' = Append(channel, loop.batch)
    /\ loop' = [Fresh EXCEPT !.pc = "wait"]
    /\ UNCHANGED <<box, up, row, seen, required, watcher, stopping, chunk,
                   stored, dropped, budget>>
-----------------------------------------------------------------------------
(* The connection watchers: ensureConnected and reconnect. They share the   *)
(* state in memory with the fetch loop.                                     *)

Reconnect ==
    /\ watcher = "rest"
    /\ loop.pc # "setup"
    /\ ~up /\ ~stopping
    /\ up' = TRUE
    /\ seen' = [seen EXCEPT !.validity = box.validity]
    /\ watcher' = "save"
    /\ UNCHANGED <<box, row, loop, required, stopping, pumpVars, budget>>

SaveReconnected ==
    /\ watcher = "save"
    /\ row' = IF stopping THEN row ELSE seen
    /\ watcher' = "queue"
    /\ UNCHANGED <<box, up, loop, seen, required, stopping, pumpVars, budget>>

\* FAULT: no fetch is queued after a reconnect.
ReconnectedOnly ==
    /\ watcher = "queue"
    /\ watcher' = "rest"
    /\ UNCHANGED <<box, up, row, loop, seen, required, stopping, pumpVars, budget>>

QueueReconnected ==
    /\ watcher = "queue"
    /\ required' = TRUE
    /\ watcher' = "rest"
    /\ UNCHANGED <<box, up, row, loop, seen, stopping, pumpVars, budget>>
-----------------------------------------------------------------------------
(* storeMails *)

Receive ==
    /\ chunk = {}
    /\ channel # <<>>
    /\ chunk' = Head(channel)
    /\ channel' = Tail(channel)
    /\ UNCHANGED <<box, up, row, loop, seen, required, watcher, stopping,
                   stored, dropped, budget>>

Store(m) ==
    /\ m \in chunk
    /\ stored' = stored \cup {m}
    /\ chunk' = chunk \ {m}
    /\ UNCHANGED <<box, up, row, loop, seen, required, watcher, stopping,
                   channel, dropped, budget>>
-----------------------------------------------------------------------------
(* Shutdown and crashes *)

\* Shutdown cancels the context and logs out.
Stop ==
    /\ budget.stops > 0
    /\ loop.pc # "setup"
    /\ ~stopping
    /\ stopping' = TRUE
    /\ up' = FALSE
    /\ loop' = [loop EXCEPT !.found = {}]
    /\ budget' = [budget EXCEPT !.stops = @ - 1]
    /\ UNCHANGED <<box, row, seen, required, watcher, pumpVars>>

LoopEnds ==
    /\ loop.pc = "wait"
    /\ stopping
    /\ loop' = [loop EXCEPT !.pc = "closed"]
    /\ UNCHANGED <<box, up, row, seen, required, watcher, stopping, pumpVars,
                   budget>>

InFlight == loop.batch \cup chunk \cup UNION {channel[i] : i \in DOMAIN channel}

\* The fetchers have ended, storeMails has emptied the closed channel, and
\* the process is started again.
Restart ==
    /\ loop.pc = "closed"
    /\ channel = <<>> /\ chunk = {}
    /\ loop' = Fresh
    /\ seen' = row
    /\ up' = FALSE /\ required' = FALSE /\ watcher' = "rest" /\ stopping' = FALSE
    /\ UNCHANGED <<box, row, pumpVars, budget>>

Crash ==
    /\ budget.crashes > 0
    /\ loop' = Fresh
    /\ seen' = row
    /\ up' = FALSE /\ required' = FALSE /\ watcher' = "rest" /\ stopping' = FALSE
    /\ channel' = <<>> /\ chunk' = {}
    /\ dropped' = dropped \cup (InFlight \ stored)
    /\ budget' = [budget EXCEPT !.crashes = @ - 1]
    /\ UNCHANGED <<box, row, stored>>
-----------------------------------------------------------------------------
LoopStep ==
    \/ Setup \/ TakeRequired \/ Select \/ Search
    \/ \E m \in Mails : Fetch(m)
    \/ SaveFetched \/ Send \/ LoopEnds

WatcherStep == Reconnect \/ SaveReconnected \/ QueueReconnected

PumpStep == Receive \/ \E m \in Mails : Store(m)

Next ==
    \/ \E m \in Mails : Arrive(m)
    \/ Renumber \/ Drop \/ Stop \/ Crash
    \/ LoopStep \/ WatcherStep \/ PumpStep \/ Restart

Spec == Init /\ [][Next]_vars

\* Every goroutine goes on; the watchers look every minute; the process is
\* started again.
FairSpec ==
    /\ Spec
    /\ WF_vars(LoopStep) /\ WF_vars(WatcherStep) /\ WF_vars(PumpStep)
    /\ WF_vars(Restart)
-----------------------------------------------------------------------------
\* What each variable may hold.
TypeOK ==
    /\ box.uid \in [Mails -> Nat] /\ box.next \in Nat /\ box.validity \in Nat
    /\ row \in [last : Nat, validity : Nat] /\ seen \in [last : Nat, validity : Nat]
    /\ loop \in [pc : {"setup", "wait", "select", "search", "fetch", "send", "closed"},
                 valid : BOOLEAN, found : SUBSET Mails, batch : SUBSET Mails]
    /\ {up, required, stopping} \subseteq BOOLEAN
    /\ watcher \in {"rest", "save", "queue"}
    /\ channel \in Seq(SUBSET Mails) /\ Len(channel) <= ChannelSize
    /\ chunk \subseteq Mails /\ stored \subseteq Mails /\ dropped \subseteq Mails

\* The loop, the watchers, every login and every start write uidLast and
\* uidValidity, in memory or to the row. Whatever comes between them, a row is
\* never ahead of what the process that saves it has seen, nor memory of the
\* mailbox: uidLast is a uid that has been given while the numbering lasts.
StateInOrder ==
    /\ TypeOK
    /\ row.last <= seen.last
    /\ row.validity <= seen.validity /\ seen.validity <= box.validity
    /\ box.validity = FirstValidity =>
        seen.last <= DefaultRow.last \/ seen.last < box.next

\* Mails that no search will find again (but for the highest uid).
Passed(m) ==
    m \in InBox /\ row.validity = box.validity /\ box.uid[m] <= row.last

\* A mail that the saved state passes over has been stored or is on its way,
\* unless it was on its way in a crash: a lost connection, a failed fetch or
\* a shutdown skips nothing, as long as the mailbox keeps its numbering. A new
\* row passes over the mail with uid 1, whatever has become of it.
NothingSkipped ==
    box.validity = FirstValidity =>
        \A m \in Mails \ Malformed :
            Passed(m) /\ box.uid[m] > DefaultRow.last =>
                m \in stored \cup InFlight \cup dropped

\* Every mail in the mailbox is stored in the end, with the same exceptions.
EventuallyStored ==
    \A m \in Mails \ Malformed :
        m \in InBox ~> \/ m \in stored \cup dropped
                       \/ box.validity # FirstValidity
=============================================================================
