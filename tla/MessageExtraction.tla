-------------------------- MODULE MessageExtraction --------------------------
(***************************************************************************)
(* The message extraction stage of internal/app/messageextraction.go: the  *)
(* mails of one thread are a batch that one goroutine extracts in order;   *)
(* the batches of a run proceed side by side. What is extracted from the   *)
(* text is outside this model, whether it succeeds is not.                 *)
(***************************************************************************)
EXTENDS Database, Stages

VARIABLE extractor   \* the worker: its step and the mails left in its batches

ExtractorSteps == {"rest", "list", "batches"}

ExtractionInit ==
    extractor = [pc |-> "rest", todo |-> {}, first |-> TRUE]

ExtractionBegin ==
    /\ extractor.pc = "rest"
    /\ TakeUp("extraction")
    /\ extractor' = [extractor EXCEPT !.pc = "list"]
    /\ UNCHANGED dbVars

\* ForceStop cancels the context of the statements and of the service.
ExtractionCancelled == "extraction" \in closed

ListMailsRequiringMessageExtraction ==
    /\ extractor.pc = "list"
    /\ IF MailsRequiringMessageExtraction # {} /\ ~ExtractionCancelled
       THEN /\ extractor' = [extractor EXCEPT
                                !.pc = "batches",
                                !.todo = MailsRequiringMessageExtraction]
            /\ UNCHANGED stageVars
       ELSE /\ extractor' = [extractor EXCEPT !.pc = "rest", !.first = FALSE]
            /\ IF extractor.first THEN QueueWork("notification")
                                  ELSE UNCHANGED stageVars
    /\ UNCHANGED dbVars

\* Mails sorted into no thread form one batch.
Batch(m) == {n \in extractor.todo : mail[n].thread = mail[m].thread}

PerformMessageExtraction(m) ==
    /\ extractor.pc = "batches"
    /\ m \in extractor.todo
    /\ m \in Oldest(Batch(m))
    /\ IF ExtractionCancelled THEN UNCHANGED mail ELSE UpdateExtractedMessages(m)
    /\ extractor' = [extractor EXCEPT !.todo = @ \ {m}]
    /\ UNCHANGED <<stageVars, thread>>

\* FAULT: the rest of the batch goes on after a failure.
SkipFailedMail(m) ==
    /\ extractor.pc = "batches"
    /\ m \in extractor.todo
    /\ m \in Oldest(Batch(m))
    /\ extractor' = [extractor EXCEPT !.todo = @ \ {m}]
    /\ QueueWork("extraction")
    /\ UNCHANGED dbVars

\* The extraction of m fails: its batch is cancelled and the stage queued.
CancelBatch(m) ==
    /\ extractor.pc = "batches"
    /\ m \in extractor.todo
    /\ m \in Oldest(Batch(m))
    /\ extractor' = [extractor EXCEPT !.todo = @ \ Batch(m)]
    /\ QueueWork("extraction")
    /\ UNCHANGED dbVars

FinishExtraction ==
    /\ extractor.pc = "batches"
    /\ extractor.todo = {}
    /\ QueueWork("notification")
    /\ extractor' = [extractor EXCEPT !.pc = "rest", !.first = FALSE]
    /\ UNCHANGED dbVars

ExtractionStep ==
    \/ ExtractionBegin
    \/ ListMailsRequiringMessageExtraction
    \/ \E m \in Mails : PerformMessageExtraction(m)
    \/ FinishExtraction

ExtractionFails == \E m \in Mails : CancelBatch(m)

Extraction == ExtractionStep \/ ExtractionFails
=============================================================================
