# TLA+ models of inbox-collab

inbox-collab collects mails from imap mailboxes, sorts them by their reply
headers into threads, extracts from every mail the part that is new, and
mirrors the threads into Matrix rooms, where a team closes, moves and answers
them with chat commands. This directory holds TLA+ models of that program, the
TLC configurations that check them and TLAPS proofs about most of them. All paths below are relative to `src/internal/` unless
they say otherwise.

    tlc -config Pipeline.cfg MCInboxCollab      # one of the runs
    tlapm InboxChatProofs.tla                   # one of the proof modules

## 1. Inventory

| component | state | operations | talks to |
|---|---|---|---|
| pipeline stage (`app/pipeline.go`) | `launch` (channel, capacity 1), `done`, `active`, `blockings`, context | `QueueWork`, `QueueWorkBlocking`, `Run`, `Stop`, `ForceStop` | callers on other goroutines, its `work` |
| database (`db/db.go`, `db/sqlc/`) | tables mail, thread, room, fetcher | one statement per method or two, never a transaction | everything |
| thread sorting (`app/threadsorting.go`) | the list it has read, `threadSortingMutex` | wait for complete data, set reply_to, list, join or create a thread | database; requests extraction |
| message extraction (`app/messageextraction.go`) | batches of one thread each | list, extract in order, cancel a batch on failure | database, LLM service; requests notification |
| Matrix notification (`app/matrixnotifications.go`) | rows it has listed, `recreatedThreads` | post heads, post mails, recreate threads with a removed head | database, chat server; requests the overviews |
| Matrix overview (`app/matrixoverview.go`) | one stage per overview room | edit or resend the overview | database, chat server |
| mail pump (`app/app.go` `storeMails`) | the chunk being stored | store mails, request sorting | fetchers (channel), database |
| chat commands (`matrix/commands.go`, `app/app.go`) | one mutex per room | !open !close !forceclose !move !reply !send, overview commands | database, smtp, imap, stages |
| chat client (`matrix/matrix.go`, `matrix/client.go`) | sync, encryption | send, edit, redact, react | chat server |
| mail fetcher (`mail/fetcher.go`, `mail/mail.go`), one per mailbox | `uidLast`, `uidValidity`, `fetchingRequired`, idle state | search and fetch, idle, reconnect, save state, shutdown | imap server, pump, database |
| mail sender and parser (`mail/sender.go`, `mail/parser.go`) | smtp session | send a reply; parse headers | smtp server |
| text processor (`textprocessor/`) | none | replace the quotes of a mail, have the rest split, put the answer in order; compare texts | extraction service |
| configuration (`config/config.go`) | the maps between aliases, rooms and overview rooms, the room rules | load; look up | all |
| extraction service (`src/app/`) | none | HTTP service around a language model | text processor |
| start and stop (`src/cmd/main.go`, `app/app.go`) | | order of setup and shutdown | all |

What is hard here:

* Every stage is a goroutine; requests come from other stages, from the pump,
  from commands, and shutdown closes the channel under them.
* There are no transactions: a handler of two statements can die, or be
  overtaken, between them. Rows are listed once and used for a long time.
* The chat server, the mail servers and the LLM service fail, answer late, or do
  what was asked and lose the answer. Stages repeat failed work.
* The process may be killed at any time and starts again from the database. A
  shutdown cancels the contexts of the stages, so that statements fail in the
  middle of a run, while commands go on and wait for stages that have ended.
* Maps are walked in any order, and what the rooms, the overviews and the
  messages of a mail are must not depend on it.
* The chat server limits the size of a message: a mail is shortened until it
  fits, an overview is posted again.
* A `!reply` does by hand what three stages do, while they run.

What makes the components correct, in a sentence each: a stage loses no
request and never blocks its callers for good; sorting puts a mail into the
thread it answers and never sorts it twice; extraction and notification show the
mails of a thread once, parents first, under the head the thread has; commands
mean what their descriptions say whatever runs beside them; a fetcher skips no
mail; the text processor cuts out quotes and nothing else; the configuration
sends every thread to a room that is known and updates every overview that shows
it; and when everything is quiet nothing is left to be done.

## 2. Modules

| module | models |
|---|---|
| `WorkCoalescing` | what a stage promises: requests merge, a pending request is served by a later run, a closed stage serves what it has accepted |
| `PipelineStage` | `app/pipeline.go`, one action per access to shared state; `Implements` refines `WorkCoalescing` |
| `PipelineStageProofs` | the TLAPS proofs about `PipelineStage` |
| `Stages` | the promise as the handlers use it: a set of stages with a pending request |
| `Database` | the mail and thread tables, one operator per SQL statement |
| `ThreadSorting` | `app/threadsorting.go`, one action per statement, and the sorting mutex |
| `MessageExtraction` | `app/messageextraction.go`, the batches side by side |
| `MatrixOverview` | `app/matrixoverview.go`, a stage per overview room, its saved message and the maps between rooms and overview rooms of `config/config.go` |
| `MatrixNotification` | `app/matrixnotifications.go` with the chat server as the timeline of accepted events |
| `ThreadCommands` | the commands that change threads, each a goroutine of its own under its room's mutex |
| `InboxCollab` | the composition: the pump, all stages, commands, users who remove messages, lost answers, crashes, and the shutdown of `src/cmd/main.go` with what runs on during it |
| `TextMatching` | `textprocessor/levenshtein.go` and `smith_waterman.go`, and what a similarity is: the least cost of an alignment |
| `MessageExtractor` | `textprocessor/extractor.go`: placeholders, the answer of the service, what is made of it |
| `RoomConfig` | the rooms, rules and overviews of `config/config.go`, and the room that `matrix/matrix.go` finds for a new thread |
| `MailPosting` | composes the last three with `matrix/matrix.go`, `client.go` and `format.go`: one mail from its body to its message |
| `MailFetcher` | one mailbox: fetch loop, connection watcher, channel, pump, saved state, shutdown, crash, renumbering |
| `FetcherConnection` | the connection of one mailbox: idling, the two watchers, reconnect with its abandoned logins, `idleMutex`, mailbox updates, shutdown |
| `InboxTypeProofs`, `InboxSortingProofs`, `InboxThreadProofs`, `InboxChatProofs` | the proofs about `InboxCollab`, each on top of the one before: types, the sorting mutex, the threads and the ids in the tables, what is in the rooms and in which order, that nothing is left undone, what the overviews show |
| `MailFetcherProofs`, `FetcherConnectionProofs`, `MailPostingProofs` | the proofs about `MailFetcher`, `FetcherConnection`, and `MailPosting` with `RoomConfig` |
| `MCPipelineStage`, `MCInboxCollab`, `MCMailFetcher`, `MCFetcherConnection`, `MCMailPosting` | the instances for TLC |

How state and code correspond:

* **PipelineStage.** `launch`, `done`, `active`, `activeMutex` and `blockings`
  are the fields of the Go struct; `released` is the set of closed channels that
  callers still have to read; `pc` and `stage` say where each caller and `Run`
  are. `unserved` is a history variable. `Stamp` is the write of `queuedTime`,
  after the send and still under `activeMutex`.
* **Stages.** InboxCollab does not repeat the channel of every stage: it uses
  the abstract request set `queued`, which PipelineStage is shown to implement
  (`pending` is `~done`). A run begins with `TakeUp` and may be called again
  by the stage when `work` returns false. `closed` holds the stages that have
  been stopped, and `waiting` the callers of QueueWorkBlocking with the stage
  each waits for; `LetGo` ends the waits when a run ends.
* **Database.** Every operator is one SQL statement and commits by itself. A
  mail row keeps whether it is stored, has a fetcher, has messages and is sorted,
  with its reply_to, thread and matrix_id; a thread row keeps enabled,
  force_close, its first and last mail, matrix_id and room. Headers are constants
  of a mail. Chat event ids are positions in the timeline, and a command's own
  chat message stands for itself.
* **Workers.** `sorter`, `extractor`, `notifier`, `cmd[c]` and `pump` hold the
  program counter and the local variables of the goroutine, with rows exactly as
  old as the code's are.
* **MatrixOverview.** `board[o]` holds the messages posted in the overview room
  `o`, each with the rows it shows, and `overviewId[o]` is the saved id. A stage
  takes its request up and reads the table in one step: between the two it
  touches nothing that others see. An overview that cannot be fetched is posted
  a second time; one that is too large for an edit is removed and posted again.
* **Shutdown.** `Stop` is the moment at which main has stopped the fetchers:
  it closes all channels and cancels the contexts of all stages but sorting.
  From then on a statement of such a stage fails, and the model takes the path
  its code takes then. `Exit` is the return of the wait group, which does not wait
  for commands.
* **TextMatching.** A text is a sequence of chunks, as `normalizer.go` makes
  them; a chunk is a record of its letters and digits and of these with their
  punctuation, which is all that either comparison looks at. Distances are
  counted in halves and scores in tenths, so no rounding occurs where the code
  has float32.
* **MessageExtractor.** `extractor` is the goroutine in ExtractMessages, with the
  older mails it has still to look for, the latest first; `cut` is what it has
  replaced. A placeholder is a chunk that stands for an older mail. The service
  is external: it gives any answer that its schema allows and of which the
  parts come from the text it was given or from `OwnTexts`.
* **RoomConfig.** `settings` is the file, `rooms` what `Load` makes of it, one
  entry of the table at a time and in any order. A regular expression is the set
  of what it matches.
* **MailPosting.** Every chunk is a line of the message and every line has the
  same size, so that "a tenth of the lines" is what the code cuts off.
  `posting.whole` is what AddReply wrote and `posting.lines` what is left of it.
* **FetcherConnection.** `up` is the connection, `isIdle`, `isReconnecting` and
  `idleMutex` are the fields of the fetcher, the loop, the watchers and the
  logins are processes with a program counter. A login that is given up after
  its hard timeout stays behind as one of `Logins` and goes on.
* **MailFetcher.** `seen` is the pair uidLast, uidValidity in memory, `row` the
  saved one. The server numbers mails by uid; `Renumber` changes UIDVALIDITY
  while the fetcher is not connected.

Operators marked FAULT are not part of any specification: each is what a
plausible bug would make of the action that follows it, and is kept because
putting it in that action's place makes the named property fail
(`PROJECT.json`, "mutants").

## 3. Runs

| run | shows |
|---|---|
| `stage` | three callers, stop and cancel at any point. `Inv` and its consequences: no send blocks or panics (`SendNeverBlocks`), no accepted request is dropped (`NoLostRequest`), a stopped stage is drained (`DrainedOnExit`), no channel is closed twice (`ChannelsClosedOnce`), refinement of `WorkCoalescing` (`Implements`). Under fairness: requests are served (`RequestServed`), blocked callers go on (`BlockedReturns`), `ForceStop` ends a stage that is past its setup although the services are down (`ForcedStopEnds`), the abstract progress (`ImplementsProgress`) |
| `pipeline` | a chain of three mails arriving in any order and chunks, extraction and sending failing at will, a crash or an answer of the chat server that is lost or wrong: every mail once per head and once more per mishap (`MirroredOnce`), parents first (`ParentFirst`), heads are in their threads (`HeadsBelong`), and when all is quiet nothing is left (`QuietMeansDone`). Once something has gone wrong the third mail stays away (`TwoWhenAmiss`) |
| `restart` | a thread that has been posted and its overview, a !move and a !forceclose side by side, and one of: a crash, a shutdown and new start, a !resendoverview, an overview that is too large for an edit or cannot be fetched. When all is quiet nothing is left (`QuietMeansDone`), the overview shows the open threads (`OverviewsUpToDate`), and there are no more messages of it than mishaps explain (`FewOverviews`); no recorded id points elsewhere (`IdsPointHome`) |
| `shutdown` | a !reply into a thread that has been force closed, or whose head has been removed while the process was down, and a shutdown at any point of it: the sorter's list stays true (`ListStaysUnsorted`), the reply is where it belongs (`ReplyInThread`), the shutdown and the command end (`ShutdownEnds`, `CommandsFinish`), and whatever has its messages is on Matrix in the end (`EventuallyMirrored`) |
| `pipeline_live` | two mails and one mishap: a head that is removed, a post whose answer is lost, or a head that is there and taken to be gone. Both mails are shown in the end, under the head the thread has then (`EventuallyShown`) |
| `posting` | every small text against every history of up to two older mails and every answer of the service; every small configuration; limits of the server around every step of the shortening and down to nothing. The distance is the least cost of an alignment (`SimilarityIsBest`); what is cut out is a quote (`CutsAreQuotes`); of the answer only placeholders are missing (`NothingLost`); the overviews that a change updates are those that show it (`RoomsAgree`); a new thread gets a known room, and every thread stays in its first one when its head is posted again (`RoomIsConfigured`); the new text is what is posted (`NewTextPosted`), shortened no more than it must be (`CutLittle`); posting ends if the limit leaves room for the warning (`PostingEnds`) |
| `mail_fetcher` | three mails, one malformed, with a crash, a shutdown and restart, a lost connection and a renumbering: the row is never ahead of memory nor memory of the mailbox (`StateInOrder`), nothing skipped (`NothingSkipped`), all stored in the end (`EventuallyStored`) |
| `connection` | the fetch loop, two watchers, a login, mailbox updates, a shutdown and a lost connection at any point: `idleMutex` and `isReconnecting` have one owner each who gives them up (`Ownership`), the fetcher listens again (`ListensAgain`), a required fetch is made (`FetchServed`), a shutdown ends (`ShutdownEnds`) |

Four runs check what a text of the repository says and end in a counterexample:

| run | text | what happens |
|---|---|---|
| `force_close` | "Close a thread forever unless manually reopend.", `matrix/commands.go:58` | the sorter tests force_close, the command closes the thread, the sorter's second statement sets enabled again (`db/sqlc/queries.sql:83`) |
| `unparsed` | "Failed to extract messages, returning unmodified input", `src/app/internal/message_parser.py:139` | the service gives up on a mail with a quote and returns the text with its placeholder; every message that holds a placeholder is deleted (`textprocessor/extractor.go:119`), nothing is left, and AddReply reads the first message (`matrix/matrix.go:143`) at every start |
| `full_overview` | "an empty array results in an overview of open threads from all channels", `src/config/config.example.toml:63` | such an overview is added only to the rooms that another overview lists and to the default room (`config/config.go:300`); a thread in a room that only a rule names does not update it |
| `idle_deadlock` | "Mails from multiple configurable imap mail servers are collected", `src/README.md:4` | the connection is lost before `idle()`: the fetch loop reconnects while it holds `idleMutex`, and the login of the reconnect waits for that mutex (`mail/fetcher.go:141`) |

`restart` and `shutdown` start in states that a process reaches: the first mail of
a conversation has been sorted, extracted and posted, and its overview saved
(`PostedSpec`), and the process starts, or has started and rests
(`FairStoppedSpec`). This leaves room for the interleavings they are about.

Where a property has an exception, this is why:

* `ParentFirst` says nothing of a parent in another thread, nor of two mishaps: a
  head that is gone, or taken to be, and an end of the process between the two
  statements that forget it leave the parent with its id from the old head. With a crash or a lost
  answer between a post and the record of its id a mail is posted twice; the
  code cannot tell and no text promises otherwise, so `MirroredOnce` allows it
  once for each. A !move that races the notification stage doubles mails as well
  (it may clear their ids after they have been posted under a new head in the
  same room), so `MirroredOnce` is checked where nothing is moved.
* A crash between the two statements of CreateThread leaves a thread whose first
  mail is in another one, and both are posted. `HeadsBelong` allows one for each
  crash, and `OverviewsUpToDate` does not ask which message such a thread is
  linked to.
* `OverviewsUpToDate` exempts a thread that an answer has reopened (`OpenedLate`):
  `AddMailToThread` places the answer before it opens the thread
  (`db/db.go:224`, `db/db.go:235`). In between the answer can be extracted and
  posted and the overview updated without the thread, and nobody asks for the
  overview when it is opened. It also exempts an overview that another command
  may have robbed of its request (`TouchesLost`): a run of the notification stage
  that has posted something and fails keeps `touchedRooms` for its retry, and
  drops them if the retry finds nothing to list (`app/matrixnotifications.go:107`),
  because a !move has taken the last mail's thread away meanwhile or a !reply has
  recorded its mail itself. A !move queues the overviews of the room it leaves, so
  it matters only to the others. In `restart` neither case occurs, and the
  property holds as it stands.
* `ReplyInThread` exempts a reply whose process ended before its command could
  sort it: the row of the mail is there, nobody sorts it by hand again.
* `EventuallyShown` is checked with one mishap. With two, a head that is gone and
  an end of the process between the two statements that forget it
  (`db/db.go:351`), the thread is posted anew and its mails are not.
  `EventuallyMirrored`, whose run reaches that state by a shutdown, accepts the
  id that such a mail has kept from the old head.
* `NothingSkipped` speaks of the numbering in which the row was made, of mails
  above the uid a new row says has been seen, and counts what was on its way in a
  crash among what is kept.
* `ForcedStopEnds` exempts a stage in its setup. That of the notification stage is
  `WaitForRoomJoins` (`matrix/matrix.go:31`), which asks every 20 seconds whether
  the account is in every configured room and looks at no context: while the
  bot is not invited, or the chat server is down, `ForceStop` does not end that
  stage. `RequestServed` and `ImplementsProgress` assume that the rooms are joined
  in the end, as they assume that the services recover (`ServicesRecover`).
* `PostingEnds` speaks of limits that leave room for the warning (`FitsWarning`).
  Below, `truncateLarge` never returns: splitting an empty text gives it back
  (`matrix/format.go:146`), so it is shortened and refused for ever
  (`matrix/matrix.go:78`). The instance has such limits, and without the premise
  TLC finds the loop; a chat server accepts far more.
* `HeldUp`, in the liveness properties of `shutdown`: a !reply holds the sorting
  mutex while it waits for an overview stage (`app/app.go:204`). If that stage
  has served its last request and ended, nobody wakes the command
  (`app/pipeline.go:73`), the sorting stage waits for the mutex to serve the
  request it has accepted, and the process does not exit until it is killed.
* `ListensAgain`, `FetchServed` and the `ShutdownEnds` of `connection` exempt the
  two ways in which the fetch loop waits for itself: the one of `idle_deadlock`,
  and a reconnect of the loop that sends to `fetchingRequired`, which a mailbox
  update has filled after the test and which only the loop empties
  (`LoopWaitsForItself`).
* `NewTextPosted` speaks of answers that hold a text which resembles none of the
  older mails: a text that does resemble one may be taken for it.

What we know besides and no run checks, because no text of the repository says
otherwise: a mail that is being posted during a !move is recorded under the old
head and is not posted under the new one; a reply that is edited while its
message id is being replaced is sent twice (`app/app.go:196`); a mailbox that is
renumbered during a reconnect is not fetched anew (`mail/fetcher.go:293`);
smithWaterman reads the price of a
gap from the chunk before the gap (`textprocessor/smith_waterman.go:50`), which
`NextCell` does as well.

### Bounds

* `PipelineStage`: three callers. One can hold the mutex, one can wait for it
  and one can be blocked, which are all the roles there are; each may call any
  number of times. The proofs need no bound.
* `InboxCollab`: `Mails` (1 to 3), `Commands` (0 to 2), `MaxMishaps` (0 or 1) of
  the kinds in `Mishaps`, one overview room or none. Three mails give a parent, a
  child and a grandchild, which every ordering property here needs; a second
  thread arises when a mail is sorted before the one it names in References is
  known. One mishap is enough for each hazard on the list; two crashes are two
  starts from states that one crash can leave as well. Failures of extraction,
  of sends that reach nobody and of edits of an overview are unbounded. In
  `pipeline` the constraint `TwoWhenAmiss` keeps the third mail away once
  something has gone wrong, for its size: the third mail is there for the order in
  which mails arrive, the mishaps for what is done twice, and two mails meet all
  of them. A
  `!reply` is typed as often as it has mails; other commands are typed once.
* `MailPosting`: bodies of up to three chunks (a word, the same word with a comma,
  two other words, a citation mark), and quotes of two to four chunks with up to
  one chunk on each side; up to two older mails, among them one that quotes the
  other, one with the same text, one that has not been extracted and one without
  messages; answers of up to two messages. So a quote can be exact, altered,
  doubled, nested and missing, and each can stand before, after or between new
  text. Two rooms with an alias for one, two overview rooms with an alias for
  one, every subset of four rules and every table of overviews. Mails of 9 to 41
  lines with limits on both sides of one tenth, and limits from nothing up. Mails, configurations and limits
  vary one at a time (`MCInit`), since each has one reader. `MaxRedactions` is 1:
  a second removal of the head finds the state of the first.
* `MailFetcher`: three mails and one event of each kind of failure, which in
  any order cover a crash after a reconnect after a partial fetch. The channel
  has capacity one instead of 100, so that it does fill up. `FirstUid` is 2: a
  new row says that uid 1 has been seen (`db/sqlc/schema.sql:3`), so a mail
  with uid 1 is found only while it has the highest uid.
* `FetcherConnection`: one abandoned login, one lost connection and one mailbox
  update, which are what a self-wait takes; each login that times out can
  overlap one reconnect.

`CHECK_DEADLOCK FALSE` is set because the program may really rest: no mail
arrives, no command is typed, or the stage has exited.

### Fairness

The Go scheduler runs every goroutine that can go on (weak fairness per
goroutine), and a mutex that is released again and again is handed to whoever
has waited for a millisecond (strong fairness of the step that locks). Work
that calls a service need not succeed, and the setup of a stage need not return. `RequestServed`, `ImplementsProgress` and
the properties of `pipeline_live` and `shutdown` assume that services recover: strong fairness
of the success of extraction and of posting, and rooms that have been joined
(weak fairness of `Setup`; InboxCollab begins after it). `WaitForCompleteData` gives up after
120 seconds, so the sorting stage leaves its gate (strong fairness of
`AutoUpdateMailSorting`). The first chunk of the fetchers arrives, because
`StartFetching` queues a first fetch and sends even an empty one. Users,
crashes and failures are never forced; a process that has been stopped and whose
stages have ended exits and is started again. A command that waits for a stage
goes on when a run of it ends, which is not assumed but modelled. In
`MailPosting` the stage runs to the end of its work, and the server need not
accept, lose or remove anything. In `FetcherConnection` the timers fire, the imap
server answers in the end, a login is not given up every time, and a `select`
that finds two channels ready again and again takes each of them.

## 4. Proofs

A theorem holds for any sets of mails, commands, rooms, callers and
logins, any headers, and any number of mishaps; TLC has checked each
property on an instance first. The assumptions are the ones the modules name:

* `MailAssumption`, `InboxAssumption`, `FetcherAssumption`,
  `ConnectionAssumption`, `ExtractorAssumption`, `RoomAssumption` and
  `PostingAssumption` give the constants their types and keep `None` and "" apart;
  `NoCaller` is not a caller.
* `ReplyAssumption`: the mails that replies write are none that arrive from
  elsewhere, and two of them are two. The code makes the id of a reply
  from the second and the text (`generateMessageId`, `mail/sender.go:52`), so
  this leaves out two replies with one text in one second. `ListStaysUnsorted`,
  `HeadsBelong`, `IdsPointHome` and `ReplyInThread` rest on it.
* `MailsAreMirroredOnce` assumes that no command is a !move, as the
  comment of `MirroredOnce` says; a !move does double mails (section 3).
* `EverythingIsHandedOver` assumes that no command is a !reply (`NoReply`). With
  one the property is false of the code: a process that ends after `AddMail` and
  before `UpdateExtractedMessages` leaves a mail without messages and without a
  fetcher, which no stage takes up and which holds back its thread
  (`app/app.go:225`).
* `ParentsArePostedFirst` assumes that neither a !move nor a !reply is typed and
  that an answer has a later date than what it answers (`TimesInOrder`): the
  stages go through the mails of a thread by their dates, which the senders
  write, so an answer with an earlier date is extracted and posted before its
  parent when both arrive together. The instance of `pipeline` satisfies all three.
* `OverviewsAreUpToDate` assumes that neither a !move nor a !reply is typed, and
  `Covered`: an overview of all rooms does not hear of a room that only a rule
  names, which is the finding of `full_overview`. Any list of rooms satisfies it,
  and any overview of all rooms whose rooms are the default room or listed by
  another overview. With a !move the property is checked by `restart` only.

| theorem | property |
|---|---|
| `StageInvariant`, `SendIsSafe`, `RequestsAreKept`, `ExitIsDrained`, `ChannelsAreClosedOnce` | `Inv`, `SendNeverBlocks`, `NoLostRequest`, `DrainedOnExit`, `ChannelsClosedOnce` |
| `StageImplementsCoalescing` | `Implements` |
| `PipelineTypes` | `TypeOK` of `InboxCollab` |
| `SortedOnce` | `ListStaysUnsorted` |
| `FirstMailsBelong`, `IdsAreRight`, `RepliesStayInThread` | `HeadsBelong`, `IdsPointHome`, `ReplyInThread` |
| `OverviewsAreFew`, `MailsAreMirroredOnce`, `EverythingIsHandedOver` | `FewOverviews`, `MirroredOnce`, `QuietMeansDone` |
| `ParentsArePostedFirst`, `OverviewsAreUpToDate` | `ParentFirst`, `OverviewsUpToDate` |
| `FetcherStateInOrder`, `FetcherSkipsNothing` | `StateInOrder`, `NothingSkipped` |
| `ConnectionIsOwned` | `Ownership` |
| `RoomMapsAgree`, `NewThreadsAreShown`, `RepliesAreCutLittle` | `RoomsAgree`, `RoomIsConfigured`, `CutLittle` |
| `MessagesAreKept`, `TheNewTextIsPosted` | `NothingLost`, `NewTextPosted` |

**The stage.** `NoLostRequest` and `SendNeverBlocks` are not inductive: that the
channel is empty when a caller sends follows from `done` having been true when it
swapped it, so `Inv` relates `done`, the channel and the two places a token can
be besides (about to be sent, just received). `RunKeepsInv` and `CallerKeepsInv`
have a step per action. That no channel is closed twice needs that a caller in the
list has not gone on (`StepKeepsBlocked`). For `Implements`, every step of the
stage is a step of `WorkCoalescing` or a stutter under the mapping `Abstract`.

**Types of the pipeline.** `Types` is `TypeOK` in parts, one per worker, and
says of every row and local variable that the thread, mail or event it names
exists; every later invariant looks tables up with it. It is inductive since
threads and events are only added, rows refer to threads that exist when they
are read, and no crash removes either.

**Sorting** (`SortInv`). `ListStaysUnsorted` says that the list the sorter read
stays true while it works through it statement by statement. It needs `MutexInv`,
the mutual exclusion: the sorter past its lock, or a command at one of the steps
`Writing`, holds `threadSortingMutex`; `RowsInv`, that only sorted mails
have a thread; `SorterInv`, what the sorter knows of the mail it is at; and
`WritingInv`, that the mail of a reply is nowhere before it is sent and unsorted
until its command sorts it, since a fetcher may deliver it in between.

**Threads and ids.** Over `SortInv`, a mail never leaves its thread (`Settled`),
and a thread without its first mail is the one the sorter has just inserted or
was left behind by a crash at that point, which gives `HeadsBelong`. `HomeInv`
relates what was posted, listed and is about to be recorded to the tables: every
event is the head of its thread or a mail under the head of the thread that the
mail is in, and so is every row in the stage's hands, however old. From this
`IdsPointHome` follows through every !move, recreated head, wrong id of a lost
head, crash and stop. `AnswersInv` follows a reply from the lookup of the mail it
answers (`KnowsThread`) to its row, wherever its process ends: `ReplyInThread`.

**Rooms.** `FewOverviews`: per overview room, the messages that are shown, less
the saved one, are paid for by mishaps, two at most for each; `RoomInv` counts
besides the message that is posted and not yet saved and the one that a forced
end may leave behind. `MirroredOnce` needs more than its count: `MirrorInv`
says that a mail that waits to be posted (`Awaited`) or is listed (`RowFew`)
has been posted at most once per mishap, that a mail whose id is
about to be recorded may have been posted once more, that one is listed once, that
a new head has no mails, and that a stage that has been stopped, which posts and
does not record, has cost a mishap (`Stopping`).

**Handing over.** `QuietMeansDone` speaks of quiet states only; `HandoverInv`
says for every state who will see to what is not done. A mail that has to be
sorted is in the list of the sorter (`SortingDue`), or the list has yet to be
read, or a run is requested, or the pump, which has stored something new, will
request it (`SortingAsked`); the same between sorting and extraction and between
extraction and notification, where a !move that has made a thread headless
counts as well (`MovesOn`), until it asks for the stage. The first run of a stage
hands over even if it finds nothing, so a flag `first` stands for a request.
A mail that the notification stage leaves out because another one of its thread
has no messages yet (`HeldBack`) is taken up when that one has got them.
A request may be missing once the stages are closed: the next start asks for
everything (`StartedHandsOver`).

**Order.** `ParentFirst` is carried from stage to stage. `AnsweredFirst`: an answer
that is being sorted has a parent that is sorted or in the same list, and the
oldest of the list is taken first, which is where `TimesInOrder` is needed;
`ExtractedFirst`: an answer that is extracted follows an extracted parent, and a
batch that fails at the parent gives up the answer as well; `ParentsInv`: in the
list of the notification stage the parent is there too unless it has been posted
(`Precedes`), an id that is known stands for a post under the head of now
(`KnownPosted`), and what makes that false, a head that is gone and an end between
the two statements that forget it, has cost two mishaps (`MishapsPaid`).

**Overviews.** `OverviewsUpToDate` speaks of quiet states; `PictureInv` says for
every state that an overview is queued or that its picture agrees with the
tables, or that the notification stage has noted it. The picture is the message
that is saved, the one that is posted and not yet saved, or what the run in
hand has read (`Picture`), and to agree is kept weak enough to survive the
statements of one run of a stage (`Agrees`). Whoever changes a row either queues
the overviews of its room, as a command does, or notes them, as the
notification stage does (`NotifierShows`), or does no harm, as sorting
(`SortingShows`). That a noted room is queued in the end needs `ReadyInv`: a run
that is called again finds the mail it failed at (`TouchedAwait`), since what has
been listed is listed again until its id is recorded (`MailsReady`), which is what
a !move and a !reply break. With `QuietMeansDone` every listed thread has a head
and every first mail an id, and then to agree is to show exactly what is there.

**Fetcher.** `NothingSkipped` is a property of the saved uid, but the jump is
made in memory, which `StateInOrder` says is never behind: `Numbered` says that a search in progress still has every mail
below one that it has found, `Covered` that what uidLast passed in memory is
stored, on its way or was lost in a crash. `Ownership` of the connection is
inductive with `Placed`, which goroutine can be where; one lemma (`OneMoves`)
covers all steps that move one goroutine.

**Configuration and posting.** `RoomInv` holds while `Load` goes through the
overview entries in any order: none is read twice, and `full` holds those that
list nothing so far. `ThreadInv` adds that a thread has no room but its first and
that the room of a new one is known, which `RoomOfARule` gives for every rule.
`CutLittle` follows each round of shortening with what it
removes.

**Messages.** `ExtractionInv` says, step by step, what the messages of one mail
have to do with the answer of the service: at first they are the answer
(`AsAnswered`), then its texts without placeholders and in its order
(`Kept(result, 1)`), and after the first new one has gone to the front in its
order from the second on (`Kept(result, 2)`). While they are compared with older
mails, `Compared` says what being known means: a message that is not known is
like no older mail but those that another message has been found to be. So a new
text is never known, and the first message that is not known is new or one of two
that are alike (`FirstIsNew`), whichever order the maps are walked in.
`PostedInv` carries it to the reply. How the texts are compared plays no part in
it. What filtering a sequence gives is an induction over its length
(`OrderedEnumerates`): `SetInduction` states it with a set in place of a
predicate, from the minimum of a well-founded relation, since the induction
theorems of the library take an operator. For this `WithoutPlaceholders` picks the
places of what it keeps (`Ordered`). `TheNewTextIsPosted`, like
`RepliesAreCutLittle`, holds of a reply that is a sequence, of any chunks.

Only model-checked, and why:

* all liveness, as is ENABLED, and the fairness of the services;
* `SimilarityIsBest`, `CutsAreQuotes`: they compare what the folds of
  `TextMatching` compute, a matrix row by row, with a minimum over all alignments.
  The folds of the library take an operator, as do its theorems on recursive
  functions, which the provers cannot instantiate;
* `OverviewsUpToDate` and `ParentFirst` where threads are moved or replies are
  written: the invariants they rest on say that what is listed stays listed, which
  those commands break (section 3), so they would need one that follows every
  row in the stage's hands through a command.

## 5. Not modelled, and the plan

Not modelled:

* the mail parser, which is pure; `MailFetcher` knows which mails it rejects;
* the extraction service, whose answers `MessageExtractor` enumerates;
* Unicode normalisation, the rounding of float32, and markup;
* encryption, login, sync and the joining of rooms of the chat client, and what a command reports by
  reactions;
* errors of database statements other than those of a cancelled context: a
  statement succeeds, is cancelled, or the process dies before it;
* of the configuration: senders, credentials, flags, and what ends the process;
* the temporary fetchers that store a reply, the listing of mailboxes,
  !resendoverviewall, and the order in which Setup creates the parts
  (`app/app.go:77`).

Next, in this order:

1. Proofs: `OverviewsAreUpToDate` with a !move, whose stale rows may put a thread
   back into the room it has left.
2. Errors of single statements in `Database`, with the stages returning true on
   an empty list (`db/db.go:110`).
3. A crash during a `!reply`, which leaves a mail without messages that holds
   back its thread (`app/app.go:225`).
4. The reactions of commands, which are state that users rely on.
