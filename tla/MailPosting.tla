----------------------------- MODULE MailPosting -----------------------------
(***************************************************************************)
(* The way of one mail from its body to the message in the chat: the rooms *)
(* are loaded from the configuration, the messages of the mail extracted,  *)
(* a thread is created for it if there is none, and the reply is written   *)
(* and, while it is too large, shortened (internal/matrix/matrix.go,       *)
(* client.go, format.go). What the stages do around it, and the database,  *)
(* is in InboxCollab.                                                      *)
(*                                                                         *)
(* Every chunk of a text is a line of its own, and all lines have the same *)
(* size. The server (external) accepts up to `limit` lines.                *)
(***************************************************************************)
EXTENDS MessageExtractor, RoomConfig

CONSTANTS
    Senders,        \* the rooms from which mails can be sent
    MaxRedactions   \* bound: how often the head is redacted

ASSUME PostingAssumption == Senders \subseteq RoomNames /\ MaxRedactions \in Nat

VARIABLES
    letter,   \* of the mail: mailbox, from, to, and what its header shows
    thread,   \* its room, "" for none; whether its head is on Matrix; whether
              \* it got its room here; how often the head has been redacted;
              \* history: the first room it had
    posting   \* AddReply: the next step, the lines it wrote and those it sends,
              \* whether it warns that they are fewer, and the server's limit

vars == <<extractorVars, roomVars, letter, thread, posting>>

PostingInit(letters, rooms0, limits) ==
    /\ letter \in letters
    /\ thread \in {[room |-> r, head |-> r # "", new |-> FALSE, redacted |-> 0,
                     first |-> r] :
                    r \in rooms0}
    /\ \E limit \in limits :
        posting = [pc |-> "wait", whole |-> <<>>, lines |-> <<>>,
                   warned |-> FALSE, limit |-> limit]

\* What is posted has been extracted under a configuration that is loaded.
Ready == RoomsLoaded /\ EAt("done") /\ posting.pc = "wait"

\* SendRoomMessage has posted the head of the thread in a room.
PostHead(room) ==
    thread' = [thread EXCEPT !.room = room, !.head = TRUE,
                             !.new = @ \/ thread.room = "",
                             !.first = IF @ = "" THEN room ELSE @]

\* FAULT: the room of a thread whose head is gone is looked for again.
CreateThreadAnew ==
    /\ Ready
    /\ ~thread.head
    /\ \E room \in DetermineMatrixRoom(letter.mailbox, letter.from, letter.to) :
        PostHead(room)
    /\ UNCHANGED <<extractorVars, roomVars, letter, posting>>

\* A thread whose head is gone keeps its room.
CreateThread ==
    /\ Ready
    /\ ~thread.head
    /\ \E room \in IF thread.room # "" THEN {thread.room}
                   ELSE DetermineMatrixRoom(letter.mailbox, letter.from, letter.to) :
        PostHead(room)
    /\ UNCHANGED <<extractorVars, roomVars, letter, posting>>

\* SendRoomMessage takes the id from the response, which an error leaves nil,
\* a message that is too large included: a head is never truncated.
CreateThreadPanics ==
    /\ Ready
    /\ ~thread.head
    /\ posting' = [posting EXCEPT !.pc = "panicked"]
    /\ UNCHANGED <<extractorVars, roomVars, letter, thread>>

Line(s) == [norm |-> s, normPunct |-> s]

HeaderLines ==
    LET Shown(show, line) == IF show THEN <<Line(line)>> ELSE <<>>
        head == Shown(~letter.first, "author")
                \o Shown(answer.forwarded, "forwarded")
                \o Shown(~answer.forwarded /\ ~letter.recent, "time")
                \o Shown(letter.attachments, "attachments")
                \o Shown(thread.room \in Senders, "reply to")
    IN  head \o Shown(head # <<>>, "")

Written(text) == IF text = <<>> THEN <<Line("empty message")>> ELSE text

\* Of a forwarded mail all messages are posted, of others the first one.
ContentLines ==
    LET Text(i) == result[i].content
        Lines(i) == <<Line("author")>>
                    \o (IF Text(i) = <<>> THEN <<Line("")>> ELSE Text(i))
                    \o (IF i < Len(result) THEN <<Line("")>> ELSE <<>>)
    IN  IF answer.forwarded
        THEN FlattenSeq([i \in DOMAIN result |-> Lines(i)])
        ELSE Written(Text(1))

\* AddReply reads the first message, or the time of every message that was
\* forwarded, whether it is there or not.
Readable ==
    IF answer.forwarded THEN \A i \in DOMAIN result : result[i].place \notin answer.undated
    ELSE result # <<>>

AddReply ==
    /\ Ready
    /\ thread.head
    /\ Readable
    /\ LET lines == HeaderLines \o ContentLines
       IN  posting' = [posting EXCEPT !.pc = "send", !.whole = lines,
                                      !.lines = lines, !.warned = FALSE]
    /\ UNCHANGED <<extractorVars, roomVars, letter, thread>>

\* The process dies.
AddReplyPanics ==
    /\ Ready
    /\ thread.head
    /\ ~Readable
    /\ posting' = [posting EXCEPT !.pc = "panicked"]
    /\ UNCHANGED <<extractorVars, roomVars, letter, thread>>

\* An empty line and the warning follow what is left.
Size == Len(posting.lines) + IF posting.warned THEN 2 ELSE 0

SendThreadMessage ==
    /\ posting.pc = "send"
    /\ Size <= posting.limit
    /\ posting' = [posting EXCEPT !.pc = "posted"]
    /\ UNCHANGED <<extractorVars, roomVars, letter, thread>>

\* The head, looked up before every attempt, is redacted or not to be had: the
\* thread is created again and the mail posted there.
HeadRedacted ==
    /\ posting.pc = "send"
    /\ thread.redacted < MaxRedactions
    /\ thread' = [thread EXCEPT !.head = FALSE, !.redacted = @ + 1]
    /\ posting' = [posting EXCEPT !.pc = "wait"]
    /\ UNCHANGED <<extractorVars, roomVars, letter>>

\* Any other error ends the run of the stage, which tries again later.
SendFails ==
    /\ posting.pc = "send"
    /\ posting' = [posting EXCEPT !.pc = "failed"]
    /\ UNCHANGED <<extractorVars, roomVars, letter, thread>>

\* FAULT: a tenth of less than ten lines is nothing.
TruncateTenth(lines) == SubSeq(lines, 1, Len(lines) - Len(lines) \div 10)

\* FAULT: the beginning is cut off.
TruncateFront(lines) ==
    SubSeq(lines, 1 + Max({1, Len(lines) \div 10}), Len(lines))

TruncateLines(lines) ==
    SubSeq(lines, 1, Len(lines) - Max({1, Len(lines) \div 10}))

TruncateLarge ==
    /\ posting.pc = "send"
    /\ Size > posting.limit
    /\ posting' = [posting EXCEPT !.lines = TruncateLines(@), !.warned = TRUE]
    /\ UNCHANGED <<extractorVars, roomVars, letter, thread>>

\* What the stage does of itself, and what the server does to it.
PostingStep ==
    CreateThread \/ AddReply \/ AddReplyPanics \/ SendThreadMessage \/ TruncateLarge

Posting == PostingStep \/ CreateThreadPanics \/ HeadRedacted \/ SendFails

\* The configuration is loaded before anything else starts.
Next ==
    \/ LoadRooms /\ UNCHANGED <<extractorVars, letter, thread, posting>>
    \/ RoomsLoaded /\ Extraction /\ UNCHANGED <<roomVars, letter, thread, posting>>
    \/ Posting
-----------------------------------------------------------------------------
\* A thread gets a room the account is known to be in (ValidateRooms) and that
\* an overview of all rooms shows, whichever rule decides and whether it names
\* the room or an alias of it. The first room of a thread is its only one: its
\* head goes there again after it is gone, whatever the rules would say now.
RoomIsConfigured ==
    /\ thread.room = thread.first
    /\ thread.new => thread.room \in rooms.all \cap rooms.target

\* If the service found a text that is in no older mail it might be mistaken
\* for, the message of the mail is such a text, or the second of two that are
\* like the same older mail; it begins after the header and loses its end only.
NewTextPosted ==
    posting.pc = "posted" /\ ~answer.forwarded /\ answer # NoAnswer =>
        LET texts == answer.messages
            NewText(k) == ~IsPlaceholder(texts[k])
                          /\ \A o \in Recognizable : ~SameText(texts[k], o)
            Doubled(k) == \A o \in Recognizable : SameText(texts[k], o) =>
                            \E l \in DOMAIN texts \ {k} : SameText(texts[l], o)
            Shows(k) == LET lines == HeaderLines \o Written(texts[k])
                        IN  IF Len(lines) <= posting.limit
                            THEN posting.lines = lines
                            ELSE IsPrefix(posting.lines, lines)
        IN  (\E k \in DOMAIN texts : NewText(k)) =>
                \E k \in DOMAIN texts : Shows(k) /\ (NewText(k) \/ Doubled(k))

\* A mail that fits is posted whole. One that does not loses lines at its end
\* only, and with a tenth of them more, or one, it would not have fit.
CutLittle ==
    posting.pc = "posted" =>
        /\ IsPrefix(posting.lines, posting.whole)
        /\ posting.warned <=> Len(posting.whole) > posting.limit
        /\ posting.warned =>
            \E n \in Len(posting.lines) + 1 .. Len(posting.whole) :
                /\ n - Len(posting.lines) <= Max({1, n \div 10})
                /\ n + (IF n = Len(posting.whole) THEN 0 ELSE 2) > posting.limit

\* The limit has room for a text of which nothing is left but the warning.
FitsWarning == posting.limit >= 2

\* Once its messages are extracted, posting a mail comes to an end, if what
\* every shortened message consists of, the warning, fits. Else truncateLarge
\* shortens an empty text for ever.
PostingEnds ==
    Ready /\ FitsWarning ~> posting.pc \in {"posted", "failed", "panicked"}
=============================================================================
