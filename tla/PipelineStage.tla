--------------------------- MODULE PipelineStage ---------------------------
(***************************************************************************)
(* One pipeline stage of internal/app/pipeline.go: a goroutine (Run) that  *)
(* receives tokens from a channel of capacity one and performs the work,   *)
(* and the callers that queue work on it, from other stages, from the      *)
(* mail pump and from chat commands, while shutdown may close it at any    *)
(* time. Steps are the accesses to shared state: the channel launch, the   *)
(* atomic done, what activeMutex guards and what blockingsMutex guards.    *)
(***************************************************************************)
CONSTANTS
    Callers,   \* goroutines that call QueueWork or QueueWorkBlocking
    NoCaller   \* activeMutex is free

ASSUME NoCallerAssumption == NoCaller \notin Callers

VARIABLES
    active,       \* FALSE once close() has run: launch is then closed as well
    activeMutex,  \* the caller that holds it, or NoCaller
    launch,       \* the channel holds its one token
    done,         \* the atomic flag: no request is on its way to a run
    blockings,    \* blocked callers whose channel Run has not closed
    released,     \* blocked callers whose channel Run has closed
    cancelled,    \* the context given to work has been cancelled
    pc,           \* what each caller does next
    stage,        \* what Run does next
    unserved      \* history: callers whose request no run has begun for

callerVars == <<activeMutex, pc>>
vars == <<active, activeMutex, launch, done, blockings, released, cancelled,
          pc, stage, unserved>>

CallerStep == {"idle", "lock", "cas", "send", "stamp", "wait"}
StageStep == {"setup", "receive", "store", "work", "failed", "finish", "exited"}
Critical == {"cas", "send", "stamp"}   \* steps taken under activeMutex

\* What each variable may hold.
TypeOK ==
    /\ active \in BOOLEAN
    /\ activeMutex \in Callers \cup {NoCaller}
    /\ launch \in BOOLEAN
    /\ done \in BOOLEAN
    /\ blockings \subseteq Callers
    /\ released \subseteq Callers
    /\ cancelled \in BOOLEAN
    /\ pc \in [Callers -> CallerStep]
    /\ stage \in StageStep
    /\ unserved \subseteq Callers

\* NewStage; with initialQueue it has already queued the first run.
Init ==
    /\ active = TRUE
    /\ activeMutex = NoCaller
    /\ launch \in BOOLEAN
    /\ done = ~launch
    /\ blockings = {}
    /\ released = {}
    /\ cancelled = FALSE
    /\ pc = [c \in Callers |-> "idle"]
    /\ stage = "setup"
    /\ unserved = {}
-----------------------------------------------------------------------------
(* QueueWork and QueueWorkBlocking *)

Goto(c, step) == pc' = [pc EXCEPT ![c] = step]

\* QueueWork returns: a blocking caller goes on to wait for its channel.
Return(c) == Goto(c, IF c \in blockings \cup released THEN "wait" ELSE "idle")

QueueWork(c) ==
    /\ pc[c] = "idle"
    /\ Goto(c, "lock")
    /\ UNCHANGED <<active, activeMutex, launch, done, blockings, released,
                   cancelled, stage, unserved>>

QueueWorkBlocking(c) ==
    /\ pc[c] = "idle"
    /\ blockings' = blockings \cup {c}
    /\ Goto(c, "lock")
    /\ UNCHANGED <<active, activeMutex, launch, done, released, cancelled,
                   stage, unserved>>

\* FAULT: activeMutex covers the test of active but not the send after it.
EnterUnlocked(c) ==
    /\ pc[c] = "lock"
    /\ activeMutex = NoCaller
    /\ IF active THEN Goto(c, "cas") ELSE Return(c)
    /\ UNCHANGED <<active, activeMutex, launch, done, blockings, released,
                   cancelled, stage, unserved>>

\* Lock activeMutex and read active, which only its holder writes.
Enter(c) ==
    /\ pc[c] = "lock"
    /\ activeMutex = NoCaller
    /\ IF active
       THEN activeMutex' = c /\ Goto(c, "cas")
       ELSE Return(c) /\ UNCHANGED activeMutex
    /\ UNCHANGED <<active, launch, done, blockings, released, cancelled,
                   stage, unserved>>

\* done.CompareAndSwap(true, false); a lost swap unlocks and returns.
CompareAndSwap(c) ==
    /\ pc[c] = "cas"
    /\ unserved' = unserved \cup {c}
    /\ done' = FALSE
    /\ IF done
       THEN Goto(c, "send") /\ UNCHANGED activeMutex
       ELSE Return(c) /\ activeMutex' = NoCaller
    /\ UNCHANGED <<active, launch, blockings, released, cancelled, stage>>

\* The send blocks, with activeMutex held, while the channel is full.
Send(c) ==
    /\ pc[c] = "send"
    /\ ~launch
    /\ launch' = TRUE
    /\ Goto(c, "stamp")
    /\ UNCHANGED <<active, activeMutex, done, blockings, released, cancelled,
                   stage, unserved>>

\* Write queuedTime and unlock; Run may have received the token already.
Stamp(c) ==
    /\ pc[c] = "stamp"
    /\ activeMutex' = NoCaller
    /\ Return(c)
    /\ UNCHANGED <<active, launch, done, blockings, released, cancelled,
                   stage, unserved>>

\* <-done in QueueWorkBlocking.
Wake(c) ==
    /\ pc[c] = "wait"
    /\ c \in released
    /\ released' = released \ {c}
    /\ Goto(c, "idle")
    /\ UNCHANGED <<active, activeMutex, launch, done, blockings, cancelled,
                   stage, unserved>>
-----------------------------------------------------------------------------
(* Run *)

\* The setup of the stage returns. That of the notification stage asks every
\* 20 seconds whether the account is in all rooms by now (WaitForRoomJoins) and
\* looks at no context: neither close() nor a cancellation ends it.
Setup ==
    /\ stage = "setup"
    /\ stage' = "receive"
    /\ UNCHANGED <<active, launch, done, blockings, released, cancelled,
                   unserved, callerVars>>

\* FAULT: closing discards what is in the channel.
ReceiveWhileActive ==
    /\ stage = "receive"
    /\ active
    /\ launch
    /\ launch' = FALSE
    /\ stage' = "store"
    /\ UNCHANGED <<active, done, blockings, released, cancelled, unserved,
                   callerVars>>

\* range launch: a token that was sent before close() is still received.
Receive ==
    /\ stage = "receive"
    /\ launch
    /\ launch' = FALSE
    /\ stage' = "store"
    /\ UNCHANGED <<active, done, blockings, released, cancelled, unserved,
                   callerVars>>

\* FAULT: done stays false, as if a request were still on its way.
StoreDoneForgotten ==
    /\ stage = "store"
    /\ unserved' = {}
    /\ stage' = "work"
    /\ UNCHANGED <<active, launch, done, blockings, released, cancelled,
                   callerVars>>

\* done.Store(true), then the first call of work.
StoreDone ==
    /\ stage = "store"
    /\ done' = TRUE
    /\ unserved' = {}
    /\ stage' = "work"
    /\ UNCHANGED <<active, launch, blockings, released, cancelled, callerVars>>

WorkSucceeds ==
    /\ stage = "work"
    /\ stage' = "finish"
    /\ UNCHANGED <<active, launch, done, blockings, released, cancelled,
                   unserved, callerVars>>

WorkFails ==
    /\ stage = "work"
    /\ stage' = "failed"
    /\ UNCHANGED <<active, launch, done, blockings, released, cancelled,
                   unserved, callerVars>>

\* FAULT: failed work is repeated although the context has been cancelled.
RetryIgnoringCancel ==
    /\ stage = "failed"
    /\ stage' = "work"
    /\ UNCHANGED <<active, launch, done, blockings, released, cancelled,
                   unserved, callerVars>>

\* retry = !work(ctx) && ctx.Err() == nil
Retry ==
    /\ stage = "failed"
    /\ ~cancelled
    /\ stage' = "work"
    /\ UNCHANGED <<active, launch, done, blockings, released, cancelled,
                   unserved, callerVars>>

GiveUp ==
    /\ stage = "failed"
    /\ cancelled
    /\ stage' = "finish"
    /\ UNCHANGED <<active, launch, done, blockings, released, cancelled,
                   unserved, callerVars>>

\* FAULT: the list of blocked callers is not emptied, so that their channels
\* would be closed a second time.
ReleaseKeepingList ==
    /\ stage = "finish"
    /\ stage' = "receive"
    /\ released' = IF launch THEN released ELSE released \cup blockings
    /\ UNCHANGED <<active, launch, done, blockings, cancelled, unserved,
                   callerVars>>

\* FAULT: the list is emptied also when the callers have to wait for more.
ReleaseDroppingList ==
    /\ stage = "finish"
    /\ stage' = "receive"
    /\ released' = IF launch THEN released ELSE released \cup blockings
    /\ blockings' = {}
    /\ UNCHANGED <<active, launch, done, cancelled, unserved, callerVars>>

\* Under blockingsMutex: nothing in the channel counts as "actually done".
Release ==
    /\ stage = "finish"
    /\ stage' = "receive"
    /\ IF launch
       THEN UNCHANGED <<blockings, released>>
       ELSE /\ released' = released \cup blockings
            /\ blockings' = {}
    /\ UNCHANGED <<active, launch, done, cancelled, unserved, callerVars>>

\* FAULT: the loop ends at close() without draining the channel.
ExitUndrained ==
    /\ stage = "receive"
    /\ ~active
    /\ stage' = "exited"
    /\ UNCHANGED <<active, launch, done, blockings, released, cancelled,
                   unserved, callerVars>>

\* launch is closed and drained.
Exit ==
    /\ stage = "receive"
    /\ ~launch
    /\ ~active
    /\ stage' = "exited"
    /\ UNCHANGED <<active, launch, done, blockings, released, cancelled,
                   unserved, callerVars>>
-----------------------------------------------------------------------------
(* Stop and ForceStop *)

\* close(): active = false and close(launch) under activeMutex.
Close ==
    /\ active
    /\ activeMutex = NoCaller
    /\ active' = FALSE
    /\ UNCHANGED <<launch, done, blockings, released, cancelled, stage,
                   unserved, callerVars>>

\* The second half of ForceStop; Stop leaves the context alone.
Cancel ==
    /\ ~active
    /\ ~cancelled
    /\ cancelled' = TRUE
    /\ UNCHANGED <<active, launch, done, blockings, released, stage, unserved,
                   callerVars>>

Caller(c) ==
    \/ QueueWork(c) \/ QueueWorkBlocking(c) \/ Enter(c)
    \/ CompareAndSwap(c) \/ Send(c) \/ Stamp(c) \/ Wake(c)

Run ==
    \/ Setup \/ Receive \/ StoreDone \/ WorkSucceeds \/ WorkFails
    \/ Retry \/ GiveUp \/ Release \/ Exit

Next == (\E c \in Callers : Caller(c)) \/ Run \/ Close \/ Cancel

Spec == Init /\ [][Next]_vars

(***************************************************************************)
(* The Go scheduler runs every goroutine that can go on. A mutex is handed *)
(* over in order once somebody has waited a millisecond for it, so a       *)
(* caller that finds activeMutex free again and again gets it. Nobody has  *)
(* to call, close or cancel. Work returns under a cancelled context, with  *)
(* whatever result; otherwise it may wait for a service for ever. Setup    *)
(* may wait for ever whatever happens, and is under no fairness.           *)
(***************************************************************************)
Fairness ==
    /\ \A c \in Callers :
        /\ SF_vars(Enter(c))
        /\ WF_vars(CompareAndSwap(c) \/ Send(c) \/ Stamp(c) \/ Wake(c))
    /\ WF_vars(Receive \/ StoreDone \/ Retry \/ GiveUp \/ Release \/ Exit)
    /\ WF_vars(cancelled /\ (WorkSucceeds \/ WorkFails))

FairSpec == Spec /\ Fairness

\* The services recover: the rooms are joined in the end, so that setup returns,
\* and work is not called in vain for ever.
ServicesRecover ==
    /\ WF_vars(Setup)
    /\ WF_vars(WorkSucceeds \/ WorkFails) /\ SF_vars(WorkSucceeds)
-----------------------------------------------------------------------------
(* Safety *)

\* The send of QueueWork finds room in the channel and the channel open: it
\* neither blocks under activeMutex nor panics on a closed channel, although
\* done, the channel and active are three separate pieces of state.
SendNeverBlocks == \A c \in Callers : pc[c] = "send" => active /\ ~launch

\* A request that QueueWork has accepted or merged is never dropped: until a
\* run has begun for it, a token is in the channel, about to be sent, or just
\* received by Run.
NoLostRequest ==
    unserved # {} => \/ launch
                     \/ stage = "store"
                     \/ \E c \in Callers : pc[c] = "send"

\* Stopping a stage drains it: Run returns only when every accepted request
\* has had a run that began after it.
DrainedOnExit == stage = "exited" => unserved = {}

\* A blocked caller's channel is closed exactly once (a second close panics):
\* it is in the list that Run closes only while the caller has not gone on,
\* and not both there and closed.
ChannelsClosedOnce ==
    /\ blockings \cap released = {}
    /\ \A c \in blockings : pc[c] # "idle"

\* The state of the channel, of done and of active around every step, from
\* which the properties above follow.
Inv ==
    /\ TypeOK
    /\ \A c \in Callers : pc[c] \in Critical <=> activeMutex = c
    /\ \A c \in Callers : pc[c] \in Critical => active
    /\ \A c \in Callers : pc[c] = "send" => ~done /\ ~launch /\ stage # "store"
    /\ launch => ~done /\ stage # "store"
    /\ stage = "store" => ~done
    /\ ~done => \/ launch
                \/ stage = "store"
                \/ \E c \in Callers : pc[c] = "send"
    /\ unserved # {} => ~done
    /\ stage = "exited" => ~active /\ done

\* The stage implements the promise of WorkCoalescing: done is the negation
\* of "a request is pending", through all the steps in between.
Abstract == INSTANCE WorkCoalescing WITH
    pending <- ~done,
    phase <- IF stage \in {"work", "failed", "finish"} THEN "running"
             ELSE IF stage = "exited" THEN "ended" ELSE "resting",
    open <- active

Implements == Abstract!Spec
-----------------------------------------------------------------------------
(* Liveness *)

\* If the services recover every accepted request gets a run, also when the
\* stage is stopped meanwhile.
RequestServed ==
    ServicesRecover => \A c \in Callers : c \in unserved ~> c \notin unserved

\* The stage rests with nothing queued.
Quiet == stage = "receive" /\ ~launch

\* Unless work is queued again without end, a blocked caller of a stage that
\* stays open goes on.
BlockedReturns ==
    []<>Quiet => \A c \in Callers : pc[c] = "wait" ~> (pc[c] = "idle" \/ ~active)

\* Once ForceStop has cancelled the context Run returns, whether or not the
\* services its work depends on ever answer again. Setup is the exception: a
\* stage that is still waiting for its rooms is stopped only if it gets them.
ForcedStopEnds == cancelled /\ stage # "setup" ~> stage = "exited"

\* If the services recover the steps of Run make the abstract stage's progress.
ImplementsProgress == ServicesRecover => Abstract!Progress
============================================================================
