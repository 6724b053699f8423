------------------------------- MODULE Stages -------------------------------
(***************************************************************************)
(* The stages of internal/app as their callers see them: a request to a    *)
(* stage merges with one that is pending and is taken up by the next run;  *)
(* a stage that has been stopped takes no requests but serves the pending  *)
(* one. PipelineStage implements this (WorkCoalescing, one per stage).     *)
(***************************************************************************)
VARIABLES
    queued,   \* the stages with a pending request
    closed,   \* the stages that have been stopped
    waiting   \* blockings: pairs of a stage and a caller that waits for it

stageVars == <<queued, closed, waiting>>

StageNames == {"sorting", "extraction", "notification"}

\* NewStage: the notification stage and the overview stages, which are named
\* by their rooms, are created with initialQueue.
StagesInit(overviews) ==
    /\ queued = {"notification"} \cup overviews
    /\ closed = {}
    /\ waiting = {}

QueueAll(stages) == queued' = queued \cup (stages \ closed)

QueueWork(s) == QueueAll({s}) /\ UNCHANGED <<closed, waiting>>

\* QueueWorkBlocking, in a goroutine for each of the stages. A caller that
\* comes after the stage has ended waits for ever.
QueueWorkBlocking(stages, caller) ==
    /\ QueueAll(stages)
    /\ waiting' = waiting \cup (stages \X {caller})
    /\ UNCHANGED closed

\* FAULT: a stage that has been stopped leaves its pending request alone.
TakeUpOpen(s) ==
    /\ s \in queued \ closed
    /\ queued' = queued \ {s}
    /\ UNCHANGED <<closed, waiting>>

\* A run of s begins: done.Store(true) after the token has been received.
TakeUp(s) ==
    /\ s \in queued
    /\ queued' = queued \ {s}
    /\ UNCHANGED <<closed, waiting>>

WaitingFor(s) == {pair \in waiting : pair[1] = s}

\* FAULT: the callers that wait are not let go.
LetNobodyGo(s) == UNCHANGED waiting

\* A run of s ends. With no token in the channel all who wait are let go. A
\* pending request may not be in the channel yet: its caller registers first,
\* and is then let go too early.
LetGo(s) ==
    IF s \notin queued
    THEN waiting' = waiting \ WaitingFor(s)
    ELSE \E early \in SUBSET WaitingFor(s) : waiting' = waiting \ early

\* After Stop or ForceStop the run loop ends once the channel is empty.
Drained(s) == s \in closed /\ s \notin queued
=============================================================================
