-------------------------- MODULE WorkCoalescing --------------------------
(***************************************************************************)
(* What a pipeline stage promises to the code that queues work on it       *)
(* (internal/app/pipeline.go), without its channel, its mutexes or its     *)
(* callers: requests made while one is pending merge into it, a pending    *)
(* request is served by a run that begins after it, and a stage that has   *)
(* been stopped accepts nothing more but serves what it has accepted.      *)
(***************************************************************************)
VARIABLES
    pending,  \* a request no run has begun for
    phase,    \* "resting", "running" or "ended"
    open      \* the stage has not been stopped

vars == <<pending, phase, open>>

Init ==
    /\ pending \in BOOLEAN
    /\ phase = "resting"
    /\ open = TRUE

\* At most one request is pending, however often it is made.
Request ==
    /\ open
    /\ pending' = TRUE
    /\ UNCHANGED <<phase, open>>

Begin ==
    /\ phase = "resting"
    /\ pending
    /\ phase' = "running"
    /\ pending' = FALSE
    /\ UNCHANGED open

End ==
    /\ phase = "running"
    /\ phase' = "resting"
    /\ UNCHANGED <<pending, open>>

Close ==
    /\ open
    /\ open' = FALSE
    /\ UNCHANGED <<pending, phase>>

\* The stage ends only once what was accepted has been served.
Finish ==
    /\ phase = "resting"
    /\ ~open
    /\ ~pending
    /\ phase' = "ended"
    /\ UNCHANGED <<pending, open>>

Next == Request \/ Begin \/ End \/ Close \/ Finish

Spec == Init /\ [][Next]_vars

\* A pending request is served, a run ends and a closed stage finishes.
Progress == WF_vars(Begin) /\ WF_vars(End) /\ WF_vars(Finish)

LiveSpec == Spec /\ Progress
============================================================================
