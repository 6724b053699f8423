------------------------ MODULE PipelineStageProofs ------------------------
(***************************************************************************)
(* Proofs about PipelineStage for any set of callers: the inductive        *)
(* invariant Inv, the safety properties that follow from it, and that      *)
(* every step of the stage is a step of WorkCoalescing or leaves its state *)
(* alone.                                                                  *)
(***************************************************************************)
EXTENDS PipelineStage, TLAPS

\* The steps of Run as Inv sees them: none touches a caller or activeMutex.
LEMMA RunKeepsInv == Inv /\ Run => Inv'
<1> SUFFICES ASSUME Inv, Run PROVE Inv'
  OBVIOUS
<1> USE DEF Inv, TypeOK, callerVars, StageStep
<1>1. CASE Setup
  BY <1>1 DEF Setup
<1>2. CASE Receive
  BY <1>2 DEF Receive
<1>3. CASE StoreDone
  BY <1>3 DEF StoreDone
<1>4. CASE WorkSucceeds
  BY <1>4 DEF WorkSucceeds
<1>5. CASE WorkFails
  BY <1>5 DEF WorkFails
<1>6. CASE Retry
  BY <1>6 DEF Retry
<1>7. CASE GiveUp
  BY <1>7 DEF GiveUp
<1>8. CASE Release
  BY <1>8 DEF Release
<1>9. CASE Exit
  BY <1>9 DEF Exit, Critical
<1> QED
  BY <1>1, <1>2, <1>3, <1>4, <1>5, <1>6, <1>7, <1>8, <1>9 DEF Run

\* The steps of a caller; only the holder of activeMutex is between the test
\* of active and the unlock.
LEMMA CallerKeepsInv ==
  ASSUME Inv, NEW c \in Callers, Caller(c)
  PROVE  Inv'
<1> USE NoCallerAssumption DEF Inv, TypeOK, CallerStep, Critical, Goto, Return
<1>1. CASE QueueWork(c)
  BY <1>1 DEF QueueWork
<1>2. CASE QueueWorkBlocking(c)
  BY <1>2 DEF QueueWorkBlocking
<1>3. CASE Enter(c)
  BY <1>3 DEF Enter
<1>4. CASE CompareAndSwap(c)
  BY <1>4 DEF CompareAndSwap
<1>5. CASE Send(c)
  BY <1>5 DEF Send
<1>6. CASE Stamp(c)
  BY <1>6 DEF Stamp
<1>7. CASE Wake(c)
  BY <1>7 DEF Wake
<1> QED
  BY <1>1, <1>2, <1>3, <1>4, <1>5, <1>6, <1>7 DEF Caller

\* Inv holds in every reachable state of the stage: it is the state of the
\* channel, of done and of active around every step of QueueWork, Run and
\* close, for any number of callers.
THEOREM StageInvariant == Spec => []Inv
<1>1. Init => Inv
  BY NoCallerAssumption
  DEF Init, Inv, TypeOK, CallerStep, StageStep, Critical
<1>2. Inv /\ [Next]_vars => Inv'
  <2> SUFFICES ASSUME Inv, [Next]_vars PROVE Inv'
    OBVIOUS
  <2>1. ASSUME NEW c \in Callers, Caller(c) PROVE Inv'
    BY <2>1, CallerKeepsInv
  <2>2. CASE Run
    BY <2>2, RunKeepsInv
  <2>3. CASE Close
    BY <2>3, NoCallerAssumption DEF Close, Inv, TypeOK, callerVars, Critical
  <2>4. CASE Cancel
    BY <2>4 DEF Cancel, Inv, TypeOK, callerVars, Critical
  <2>5. CASE UNCHANGED vars
    BY <2>5 DEF vars, Inv, TypeOK, Critical
  <2> QED
    BY <2>1, <2>2, <2>3, <2>4, <2>5 DEF Next
<1> QED
  BY <1>1, <1>2, PTL DEF Spec

\* The send under activeMutex never finds the channel full or closed.
THEOREM SendIsSafe == Spec => []SendNeverBlocks
<1>1. Inv => SendNeverBlocks
  BY DEF Inv, SendNeverBlocks, Critical
<1> QED
  BY <1>1, StageInvariant, PTL

\* An accepted request is always on its way to a run.
THEOREM RequestsAreKept == Spec => []NoLostRequest
<1>1. Inv => NoLostRequest
  BY DEF Inv, NoLostRequest
<1> QED
  BY <1>1, StageInvariant, PTL

\* When Run has returned nothing accepted is left over.
THEOREM ExitIsDrained == Spec => []DrainedOnExit
<1>1. Inv => DrainedOnExit
  BY DEF Inv, DrainedOnExit
<1> QED
  BY <1>1, StageInvariant, PTL
-----------------------------------------------------------------------------
(* A blocked caller is in at most one of blockings and released, and in     *)
(* one of them only between its call and its return.                        *)
BlockedInv == Inv /\ ChannelsClosedOnce /\ \A c \in released : pc[c] # "idle"

\* Every step keeps a blocked caller's channel in one place.
LEMMA StepKeepsBlocked == BlockedInv /\ [Next]_vars /\ Inv' => BlockedInv'
<1> SUFFICES ASSUME BlockedInv, [Next]_vars, Inv' PROVE BlockedInv'
  OBVIOUS
<1> USE DEF BlockedInv, ChannelsClosedOnce
<1>1. ASSUME NEW c \in Callers, Caller(c) PROVE BlockedInv'
  <2> USE <1>1 DEF Inv, TypeOK, Goto, Return
  <2>1. CASE QueueWork(c)
    BY <2>1 DEF QueueWork
  <2>2. CASE QueueWorkBlocking(c)
    BY <2>2 DEF QueueWorkBlocking
  <2>3. CASE Enter(c)
    BY <2>3 DEF Enter
  <2>4. CASE CompareAndSwap(c)
    BY <2>4 DEF CompareAndSwap
  <2>5. CASE Send(c)
    BY <2>5 DEF Send
  <2>6. CASE Stamp(c)
    BY <2>6 DEF Stamp
  <2>7. CASE Wake(c)
    BY <2>7 DEF Wake
  <2> QED
    BY <2>1, <2>2, <2>3, <2>4, <2>5, <2>6, <2>7 DEF Caller
<1>2. CASE Run /\ ~Release
  BY <1>2 DEF Run, Setup, Receive, StoreDone, WorkSucceeds, WorkFails, Retry,
              GiveUp, Exit, callerVars
<1>3. CASE Release
  BY <1>3 DEF Release, callerVars
<1>4. CASE Close \/ Cancel
  BY <1>4 DEF Close, Cancel, callerVars
<1>5. CASE UNCHANGED vars
  BY <1>5 DEF vars
<1> QED
  BY <1>1, <1>2, <1>3, <1>4, <1>5 DEF Next

\* Run closes the channel of a blocked caller once, and never one of a caller
\* that has gone on: close() on a closed channel would panic.
THEOREM ChannelsAreClosedOnce == Spec => []ChannelsClosedOnce
<1>1. Init => BlockedInv
  BY NoCallerAssumption
  DEF Init, BlockedInv, ChannelsClosedOnce, Inv, TypeOK, CallerStep,
      StageStep, Critical
<1>2. BlockedInv /\ [Next]_vars /\ Inv' => BlockedInv'
  BY StepKeepsBlocked
<1>3. BlockedInv => ChannelsClosedOnce
  BY DEF BlockedInv
<1> QED
  BY <1>1, <1>2, <1>3, StageInvariant, PTL DEF Spec
-----------------------------------------------------------------------------
\* The mapped state of WorkCoalescing, one fact per step of Run and close: a
\* token in the channel, in Run's hand or about to be sent is one pending
\* request, and Run ends only when none is left.
LEMMA StepRefines == Inv /\ [Next]_vars => [Abstract!Next]_(Abstract!vars)
<1> SUFFICES ASSUME Inv, [Next]_vars
             PROVE  [Abstract!Next]_(Abstract!vars)
  OBVIOUS
<1> USE DEF Abstract!vars
<1>1. ASSUME NEW c \in Callers, Caller(c)
      PROVE  [Abstract!Next]_(Abstract!vars)
  <2> USE <1>1
  <2>1. CASE CompareAndSwap(c) /\ done
    <3>1. Abstract!Request
      BY <2>1 DEF CompareAndSwap, Abstract!Request, Inv, Critical
    <3> QED
      BY <3>1 DEF Abstract!Next
  <2>2. CASE CompareAndSwap(c) /\ ~done
    BY <2>2 DEF CompareAndSwap
  <2>3. CASE ~CompareAndSwap(c)
    BY <2>3 DEF Caller, QueueWork, QueueWorkBlocking, Enter, Send, Stamp, Wake
  <2> QED
    BY <2>1, <2>2, <2>3
<1>2. CASE StoreDone
  <2>1. Abstract!Begin
    BY <1>2 DEF StoreDone, Abstract!Begin, Inv
  <2> QED
    BY <2>1 DEF Abstract!Next
<1>3. CASE Release
  <2>1. Abstract!End
    BY <1>3 DEF Release, Abstract!End
  <2> QED
    BY <2>1 DEF Abstract!Next
<1>4. CASE Exit
  <2>1. done
    BY <1>4 DEF Exit, Inv, Critical, TypeOK
  <2>2. Abstract!Finish
    BY <1>4, <2>1 DEF Exit, Abstract!Finish
  <2> QED
    BY <2>2 DEF Abstract!Next
<1>5. CASE Close
  <2>1. Abstract!Close
    BY <1>5 DEF Close, Abstract!Close
  <2> QED
    BY <2>1 DEF Abstract!Next
<1>6. CASE Setup \/ Receive \/ WorkSucceeds \/ WorkFails \/ Retry \/ GiveUp
  BY <1>6 DEF Setup, Receive, WorkSucceeds, WorkFails, Retry, GiveUp
<1>7. CASE Cancel \/ UNCHANGED vars
  BY <1>7 DEF Cancel, vars
<1> QED
  BY <1>1, <1>2, <1>3, <1>4, <1>5, <1>6, <1>7 DEF Next, Run

\* The stage implements the safety part of WorkCoalescing: requests merge, a
\* pending one is served by a run that begins after it, and a stopped stage
\* accepts nothing and ends with nothing pending.
THEOREM StageImplementsCoalescing == Spec => Implements
<1>1. Init => Abstract!Init
  BY DEF Init, Abstract!Init
<1>2. Inv /\ [Next]_vars => [Abstract!Next]_(Abstract!vars)
  BY StepRefines
<1> QED
  BY <1>1, <1>2, StageInvariant, PTL DEF Spec, Implements, Abstract!Spec
============================================================================
