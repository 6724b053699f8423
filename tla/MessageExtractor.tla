-------------------------- MODULE MessageExtractor --------------------------
(***************************************************************************)
(* How the messages of one mail are extracted (internal/textprocessor/     *)
(* extractor.go): the texts of older mails it quotes are replaced by       *)
(* placeholders, the extraction service splits the rest into messages, and *)
(* the answer is put in order. Map iterations go in any order.             *)
(*                                                                         *)
(* The service (app/, external) answers with one to MaxMessages messages   *)
(* of which the first is no placeholder and has a time, the others may     *)
(* have none, or, when its models have failed, with the text as it is.     *)
(* "passthrough" does without a service.                                   *)
(***************************************************************************)
EXTENDS TextMatching

CONSTANTS
    Services,     \* of "python" and "passthrough", those that are configured
    OwnTexts,     \* what the service may take for the new text
    MaxMessages   \* bound: of an answer

ASSUME ExtractorAssumption ==
    /\ Services \subseteq {"python", "passthrough"}
    /\ MaxMessages \in Nat \ {0}

VARIABLES
    mail,      \* the mail: its body, the older mails of its thread that it may
               \* quote, and the service that is configured
    extractor, \* the next step, the body as it is now, and what is known of the
               \* older mails: removed, similar, and found again in the answer
    cut,       \* history: what has been replaced, by older mail
    answer,    \* what the service has answered
    result     \* the messages, each with its place in the answer

extractorVars == <<mail, extractor, cut, answer, result>>

\* computeMessageChunks of LLMPython's placeholder, whose signs are symbols
Sign == [norm |-> "", normPunct |-> ""]
Placeholder ==
    IF mail.service = "python"
    THEN <<Sign, [norm |-> "placeholder", normPunct |-> "placeholder"], Sign>>
    ELSE <<>>

\* The expression is looked for anywhere in the text; a passthrough has none.
IsPlaceholder(text) ==
    /\ mail.service = "python"
    /\ \E i \in DOMAIN text :
        i + 2 <= Len(text) /\ SubSeq(text, i, i + 2) = Placeholder

NoAnswer == [forwarded |-> FALSE, unmodified |-> FALSE, messages |-> <<>>,
             undated |-> {}]

ExtractorInit(mails) ==
    /\ mail \in mails
    /\ extractor = [pc |-> "begin", body |-> mail.body, left |-> Len(mail.history),
                    removed |-> {}, similar |-> {}, next |-> 1,
                    known |-> {}, oldKnown |-> {}]
    /\ cut = <<>>
    /\ answer = NoAnswer
    /\ result = <<>>

EAt(step) == extractor.pc = step

\* Older mails whose messages have not been extracted cannot be recognised.
Extracted == {o \in DOMAIN mail.history : mail.history[o].extracted}

FirstText(o) == mail.history[o].messages[1]

Message(i, text) == [place |-> i, content |-> text]
-----------------------------------------------------------------------------
\* An empty mail has one empty message.
ExtractMessages ==
    /\ EAt("begin")
    /\ IF Blank(mail.body)
       THEN /\ extractor' = [extractor EXCEPT !.pc = "done"]
            /\ result' = <<Message(1, <<>>)>>
       ELSE /\ extractor' = [extractor EXCEPT !.pc = "replace"]
            /\ UNCHANGED result
    /\ UNCHANGED <<mail, cut, answer>>

\* What smithWaterman finds of the older mail's body is replaced, if it is
\* enough of it.
ReplaceBestBlockMatch(o) ==
    LET block == mail.history[o].body
        base == extractor.body
        match == BestMatch(base, block)
    IN  IF block # <<>> /\ 10 * match.score >= 85 * Len(block)
        THEN /\ extractor' = [extractor EXCEPT
                    !.left = @ - 1,
                    !.removed = @ \cup {o},
                    !.body = SubSeq(base, 1, match.start - 1) \o Placeholder
                             \o SubSeq(base, match.end + 1, Len(base))]
             /\ cut' = [p \in DOMAIN cut \cup {o} |->
                        IF p = o THEN SubSeq(base, match.start, match.end)
                        ELSE cut[p]]
        ELSE /\ extractor' = [extractor EXCEPT !.left = @ - 1]
             /\ UNCHANGED cut

\* replaceOldMessages: the latest older mail first. A mail that is as a whole
\* like the older one may repeat it and is left alone.
ReplaceOldMessage ==
    /\ EAt("replace")
    /\ extractor.left > 0
    /\ LET o == extractor.left
           alike == /\ o \in Extracted
                    /\ Resembles(extractor.body, mail.history[o].body, 80)
       IN  /\ o \in Extracted => mail.history[o].messages # <<>>
           /\ IF o \in Extracted /\ ~alike
              THEN ReplaceBestBlockMatch(o)
              ELSE /\ extractor' = [extractor EXCEPT
                            !.left = @ - 1,
                            !.similar = IF alike THEN @ \cup {o} ELSE @]
                   /\ UNCHANGED cut
    /\ UNCHANGED <<mail, answer, result>>

\* The first message of an older mail that has none is read: the process dies.
ReplaceOldMessagePanics ==
    /\ EAt("replace")
    /\ extractor.left \in Extracted
    /\ mail.history[extractor.left].messages = <<>>
    /\ extractor' = [extractor EXCEPT !.pc = "panicked"]
    /\ UNCHANGED <<mail, cut, answer, result>>

Answer(forwarded, unmodified, texts, undated) ==
    [forwarded |-> forwarded, unmodified |-> unmodified, messages |-> texts,
     undated |-> undated]

ServiceTexts ==
    OwnTexts \cup {Placeholder} \cup
    {FirstText(o) : o \in {p \in Extracted : mail.history[p].messages # <<>>}}

Answers ==
    LET unmodified == Answer(FALSE, TRUE, <<extractor.body>>, {})
        split == {t \in SeqOf(ServiceTexts, MaxMessages) :
                    t # <<>> /\ ~IsPlaceholder(Head(t))}
    IN  IF mail.service = "passthrough" THEN {unmodified}
        ELSE {unmodified} \cup
             UNION {{Answer(forwarded, FALSE, texts, undated) :
                        forwarded \in BOOLEAN,
                        undated \in {{}, 2 .. Len(texts)}} : texts \in split}

ExtractLLM ==
    /\ EAt("replace")
    /\ extractor.left = 0
    /\ answer' \in Answers
    /\ result' = [i \in DOMAIN answer'.messages |-> Message(i, answer'.messages[i])]
    /\ extractor' = [extractor EXCEPT !.pc = "restore"]
    /\ UNCHANGED <<mail, cut>>

\* No answer, or one without messages; the stage tries again later.
ExtractLLMFails ==
    /\ EAt("replace")
    /\ extractor.left = 0
    /\ extractor' = [extractor EXCEPT !.pc = "failed"]
    /\ UNCHANGED <<mail, cut, answer, result>>

WithoutPlaceholders(messages) ==
    LET kept == Ordered({i \in DOMAIN messages : ~IsPlaceholder(messages[i].content)})
    IN  [k \in DOMAIN kept |-> messages[kept[k]]]

\* FAULT: the placeholders stay.
RestoreOnly ==
    /\ EAt("restore")
    /\ extractor' = [extractor EXCEPT !.pc = "detect"]
    /\ UNCHANGED <<mail, cut, answer, result>>

\* postExtraction: in a forwarded mail the first placeholder becomes the text
\* of some mail that was replaced; then the placeholders are deleted.
RestoreMessage ==
    /\ EAt("restore")
    /\ LET gaps == {i \in DOMAIN result : IsPlaceholder(result[i].content)}
       IN  IF answer.forwarded /\ gaps # {} /\ extractor.removed # {}
           THEN \E o \in extractor.removed :
                    result' = WithoutPlaceholders(
                        [result EXCEPT ![Min(gaps)].content = FirstText(o)])
           ELSE result' = WithoutPlaceholders(result)
    /\ extractor' = [extractor EXCEPT !.pc = "detect"]
    /\ UNCHANGED <<mail, cut, answer>>

\* The older mails that may be found again in the answer.
Recognizable == Extracted \ (extractor.removed \cup extractor.similar)

SameText(text, o) == Resembles(text, FirstText(o), 90)

\* Each message in turn is known if it is like an older mail that no other
\* message has been found to be.
DetectKnown ==
    /\ EAt("detect")
    /\ extractor.next <= Len(result)
    /\ LET found == {o \in Recognizable \ extractor.oldKnown :
                        SameText(result[extractor.next].content, o)}
       IN  IF found = {}
           THEN extractor' = [extractor EXCEPT !.next = @ + 1]
           ELSE \E o \in found :
                extractor' = [extractor EXCEPT !.next = @ + 1,
                                               !.known = @ \cup {extractor.next},
                                               !.oldKnown = @ \cup {o}]
    /\ UNCHANGED <<mail, cut, answer, result>>

\* FAULT: the messages stay as they are.
KeepOrder ==
    /\ EAt("detect")
    /\ extractor.next > Len(result)
    /\ extractor' = [extractor EXCEPT !.pc = "done"]
    /\ UNCHANGED <<mail, cut, answer, result>>

\* The first message that is new goes to the front.
MoveNewToFront ==
    /\ EAt("detect")
    /\ extractor.next > Len(result)
    /\ LET new == DOMAIN result \ extractor.known
       IN  result' = IF result = <<>> \/ 1 \in new \/ new = {} THEN result
                     ELSE <<result[Min(new)]>> \o RemoveAt(result, Min(new))
    /\ extractor' = [extractor EXCEPT !.pc = "done"]
    /\ UNCHANGED <<mail, cut, answer>>

Extraction ==
    \/ ExtractMessages \/ ReplaceOldMessage \/ ReplaceOldMessagePanics
    \/ ExtractLLM \/ ExtractLLMFails \/ RestoreMessage \/ DetectKnown
    \/ MoveNewToFront
-----------------------------------------------------------------------------
\* levenshtein, which keeps two rows of its matrix, gives the least cost of all
\* ways to turn one text into the other, in either direction, for the texts it
\* is given here.
SimilarityIsBest ==
    EAt("replace") /\ extractor.body = mail.body =>
        \A o \in DOMAIN mail.history :
            LET old == mail.history[o].body
            IN  /\ Distance(mail.body, old) = LeastCost(mail.body, old)
                /\ Distance(old, mail.body) = Distance(mail.body, old)

\* What is replaced holds nearly all of the older mail in its order and begins
\* and ends with chunks of it, so that no new text around a quote is lost, also
\* where a mail that was replaced before is in it; and the latest mail is
\* replaced wherever it is quoted word for word.
CutsAreQuotes ==
    /\ \A o \in DOMAIN cut :
        LET block == mail.history[o].body
            Of(chunk) == \E i \in DOMAIN block : block[i].norm = chunk.norm
        IN  /\ HoldsMost(cut[o], block, 85)
            /\ Of(Head(cut[o])) /\ Of(Last(cut[o]))
    /\ LET latest == Len(mail.history)
       IN  /\ EAt("replace") /\ extractor.left < latest
           /\ latest \in Extracted \ extractor.similar
           /\ mail.history[latest].body # <<>>
           /\ \E i \in 1 .. Len(mail.body) :
                IsPrefix(mail.history[latest].body,
                         SubSeq(mail.body, i, Len(mail.body)))
           => latest \in DOMAIN cut

\* Whatever the order of the maps, the messages are those of the answer, each
\* once and in the answer's order but for the first one. Only placeholders are
\* missing, and one may have become the text of a mail that was replaced.
NothingLost ==
    EAt("done") /\ answer # NoAnswer =>
        /\ \A i \in DOMAIN result : ~IsPlaceholder(result[i].content)
        /\ \A i, j \in 2 .. Len(result) : i < j => result[i].place < result[j].place
        /\ \A k \in DOMAIN answer.messages :
            LET text == answer.messages[k]
                now == {i \in DOMAIN result : result[i].place = k}
            IN  IF IsPlaceholder(text)
                THEN \A i \in now : /\ answer.forwarded
                                    /\ \E o \in extractor.removed :
                                        result[i].content = FirstText(o)
                ELSE /\ Cardinality(now) = 1
                     /\ \A i \in now : result[i].content = text

\* message_parser.py: "Failed to extract messages, returning unmodified input":
\* then the mail has its text as a message.
UnmodifiedIsKept ==
    EAt("done") /\ answer.unmodified => result # <<>>
=============================================================================
