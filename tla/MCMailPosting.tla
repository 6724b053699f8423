---------------------------- MODULE MCMailPosting ----------------------------
(* Texts of a few chunks: words, a word with punctuation, a citation mark.    *)
EXTENDS MailPosting

Word(w) == Line(w)
A == Word("a")
B == Word("b")
C == Word("c")
Comma == [norm |-> "a", normPunct |-> "a,"]
Mark == [norm |-> "", normPunct |-> ""]

Own == {<<C>>, <<Mark, C>>}

Old(body, messages, extracted) ==
    [body |-> body, messages |-> messages, extracted |-> extracted]

\* A mail, a reply that quotes it, one with the same text, one that has not been
\* extracted, and one whose messages have all been dropped.
FirstOld == Old(<<A, B>>, <<<<A, B>>>>, TRUE)
ReplyOld == Old(<<C, Mark, A, B>>, <<<<C>>>>, TRUE)
TwinOld == Old(<<A, B, B>>, <<<<A, B>>>>, TRUE)
NewOld == Old(<<A, B>>, <<>>, FALSE)
BareOld == Old(<<B>>, <<>>, TRUE)

Histories == {<<>>, <<FirstOld>>, <<FirstOld, ReplyOld>>, <<FirstOld, TwinOld>>,
              <<NewOld, ReplyOld>>, <<BareOld>>}

Mail(body, history, service) ==
    [body |-> body, history |-> history, service |-> service]

Bodies == SeqOf({A, B, C, Mark}, 3)
          \cup {x \o q \o y : x \in SeqOf({A, Comma, C}, 1),
                              q \in {<<A, B>>, <<C, Mark, A, B>>, <<C, A, Mark, B>>,
                                     <<Comma, B>>, <<A, B, A, B>>},
                              y \in SeqOf({B, C, Mark}, 1)}

Mails == {Mail(b, h, s) : b \in Bodies, h \in Histories, s \in Services}
PlainMail == Mail(<<A, B>>, <<>>, "passthrough")

\* Long enough that a tenth is more than one line.
LongMail(n) == Mail([i \in 1 .. n |-> A], <<>>, "passthrough")
-----------------------------------------------------------------------------
TheAliases == "alias" :> "r2" @@ "board" :> "o2"
TheNames == {"r1", "r2", "alias", "o1", "o2", "board"}

Rule(room, matches) == [room |-> room, matches |-> matches]

Rules == [to: SUBSET {Rule("r1", {"x"}), Rule("alias", {"x", "y"})},
          mailbox: SUBSET {Rule("r2", {"inbox"})},
          from: SUBSET {Rule("alias", {"z"})}]

Overviews == UNION {[names -> SUBSET {"r1", "r2", "alias"}] :
                        names \in SUBSET {"o1", "board"}}

Files == {[default |-> d, rules |-> r, overview |-> o] :
            d \in {"r1", "alias"}, r \in Rules, o \in Overviews}

PlainFile ==
    [default |-> "r1",
     rules |-> [to |-> {}, mailbox |-> {Rule("r2", {"inbox"})}, from |-> {}],
     overview |-> "o1" :> {"r1"}]

Letters == [mailbox: {"inbox", "box"}, from: {"z"}, to: {<<"w", "x">>, <<"y">>},
            first: {TRUE}, recent: {TRUE}, attachments: {FALSE}]
PlainLetter == [mailbox |-> "inbox", from |-> "z", to |-> <<"w">>,
                first |-> TRUE, recent |-> FALSE, attachments |-> FALSE]
FullLetter == [PlainLetter EXCEPT !.first = FALSE, !.attachments = TRUE]

\* Every mail, or every configuration, or every limit of the server.
MCInit ==
    \/ /\ ExtractorInit(Mails)
       /\ RoomInit({PlainFile})
       /\ PostingInit({PlainLetter}, {"r1"}, {4})
    \/ /\ ExtractorInit({PlainMail})
       /\ RoomInit(Files)
       /\ PostingInit(Letters, {""}, {9})
    \/ /\ ExtractorInit({LongMail(n) : n \in {9, 19, 20, 41}})
       /\ RoomInit({PlainFile})
       /\ PostingInit({PlainLetter, FullLetter}, {"r2"}, {0, 1, 2, 3, 4, 5, 9, 17, 18, 19, 20, 21, 38, 39, 45})

MCSpec == MCInit /\ [][Next]_vars

\* The notification stage runs to the end of its work.
MCFairSpec == MCSpec /\ WF_vars(PostingStep)
=============================================================================
