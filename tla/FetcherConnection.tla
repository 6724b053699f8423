-------------------------- MODULE FetcherConnection --------------------------
(***************************************************************************)
(* How a mail fetcher keeps its connection (internal/mail/fetcher.go): the *)
(* fetch loop, which idles between two fetches; the passive watcher, which *)
(* looks at the connection every minute, and the active one, which tries   *)
(* it every 20 minutes; the goroutines that log in on behalf of reconnect, *)
(* which is given up after 30 seconds; the handler that the client library *)
(* calls when the mailbox changes; and main, which shuts down.             *)
(*                                                                         *)
(* A step is what a goroutine does up to the next point at which it waits  *)
(* for another one or for the server, or at which a test it has made may   *)
(* become stale. Left out: what is fetched (MailFetcher), --list-mailboxes,*)
(* and connections that neither work nor fail.                             *)
(***************************************************************************)
EXTENDS Integers, FiniteSets

CONSTANTS
    Logins,     \* goroutines that log in; bound: no more of those that were
                \* given up and wait for idleMutex are kept
    None,
    MaxDrops,   \* bound: lost connections in a behaviour
    MaxUpdates  \* bound: mailbox updates

Workers == {"loop", "passive", "active", "handler", "main"}

ASSUME ConnectionAssumption ==
    /\ IsFiniteSet(Logins)
    /\ Logins \cap Workers = {} /\ None \notin Logins \cup Workers
    /\ MaxDrops \in Nat /\ MaxUpdates \in Nat

Goroutines == Workers \cup Logins

VARIABLES
    up,             \* the connection of client works
    isIdle,
    idleCommand,    \* "live", or "dead": closed, or its connection is lost
    idleMutex,      \* the goroutine that holds it, or None
    isReconnecting,
    attempt,        \* the login that reconnect waits for, or None
    token,          \* fetchingRequired, a channel of capacity 1, is full
    stopping,       \* the context is cancelled
    pc,             \* where every goroutine is
    back,           \* where it goes on when reconnect returns
    budget          \* what is left of the bounds

vars == <<up, isIdle, idleCommand, idleMutex, isReconnecting, attempt, token,
          stopping, pc, back, budget>>

\* Setup has logged in and StartFetching has queued the initial fetch.
Init ==
    /\ up = TRUE
    /\ isIdle = TRUE
    /\ idleCommand = "live"
    /\ idleMutex = None
    /\ isReconnecting = FALSE
    /\ attempt = None
    /\ token = TRUE
    /\ stopping = FALSE
    /\ pc = [g \in Goroutines |-> IF g \in Logins THEN "ended" ELSE "rest"]
    /\ back = [g \in Goroutines |-> "rest"]
    /\ budget = [drops |-> MaxDrops, updates |-> MaxUpdates]

idleVars == <<isIdle, idleCommand, idleMutex>>
reconnectVars == <<isReconnecting, attempt>>

GoTo(g, step) == pc' = [pc EXCEPT ![g] = step]

\* Where g goes on after revokeIdle, whether or not that has succeeded: only
\* the active watcher looks at the result.
Revoked(g) == [loop |-> "fetch", active |-> "noop", main |-> "logout"][g]
RevokeFailed(g) == IF g = "active" THEN "rest" ELSE Revoked(g)

\* revokeIdle and idle test isIdle first, without the mutex. A login that has
\* called idle has succeeded.
RevokeIdle(g) == IF isIdle THEN "unset" ELSE Revoked(g)
Idled(g) == IF g \in Logins THEN "ok" ELSE "rest"
Idle(g) == IF isIdle THEN Idled(g) ELSE "lock"

\* reconnect(): one goroutine does it at a time, for any other it returns at
\* once. g goes on at step.
Reconnect(g, step) ==
    /\ isReconnecting' = TRUE
    /\ IF isReconnecting
       THEN GoTo(g, step) /\ UNCHANGED back
       ELSE GoTo(g, "try") /\ back' = [back EXCEPT ![g] = step]

\* FAULT: isReconnecting is not reset.
ReturnReconnecting(g) ==
    /\ GoTo(g, back[g])
    /\ back' = [back EXCEPT ![g] = "rest"]
    /\ UNCHANGED isReconnecting

\* The end of reconnect
Return(g) ==
    /\ isReconnecting' = FALSE
    /\ GoTo(g, back[g])
    /\ back' = [back EXCEPT ![g] = "rest"]
-----------------------------------------------------------------------------
(* The connection *)

\* A lost connection ends its IDLE command.
Drop ==
    /\ budget.drops > 0
    /\ up
    /\ up' = FALSE
    /\ idleCommand' = "dead"
    /\ budget' = [budget EXCEPT !.drops = @ - 1]
    /\ UNCHANGED <<isIdle, idleMutex, reconnectVars, token, stopping, pc, back>>

\* A new mail: the handler calls queueFetch, which looks whether the channel
\* is empty and then sends.
Update ==
    /\ budget.updates > 0
    /\ pc["handler"] = "rest"
    /\ up /\ ~stopping
    /\ budget' = [budget EXCEPT !.updates = @ - 1]
    /\ GoTo("handler", IF token THEN "rest" ELSE "send")
    /\ UNCHANGED <<up, idleVars, reconnectVars, token, stopping, back>>

\* The send; reconnect returns after it.
SendRequired(g) ==
    /\ pc[g] = "send"
    /\ ~token
    /\ token' = TRUE
    /\ IF g = "handler"
       THEN GoTo(g, "rest") /\ UNCHANGED <<isReconnecting, back>>
       ELSE Return(g)
    /\ UNCHANGED <<up, idleVars, attempt, stopping, budget>>
-----------------------------------------------------------------------------
(* The rest of revokeIdle() and idle() *)

UnsetIdle(g) ==
    /\ pc[g] = "unset"
    /\ isIdle' = FALSE
    /\ GoTo(g, "close")
    /\ UNCHANGED <<up, idleCommand, idleMutex, reconnectVars, token, stopping,
                   back, budget>>

\* A command that cannot be closed cannot be closed 3 seconds later either.
CloseIdle(g) ==
    /\ pc[g] = "close"
    /\ idleCommand' = "dead"
    /\ IF idleCommand = "live"
       THEN GoTo(g, Revoked(g)) /\ UNCHANGED <<isReconnecting, back>>
       ELSE Reconnect(g, RevokeFailed(g))
    /\ UNCHANGED <<up, isIdle, idleMutex, attempt, token, stopping, budget>>

\* isIdle is not tested again under the mutex.
LockIdle(g) ==
    /\ pc[g] = "lock"
    /\ idleMutex = None
    /\ idleMutex' = g
    /\ GoTo(g, "start")
    /\ UNCHANGED <<up, isIdle, idleCommand, reconnectVars, token, stopping,
                   back, budget>>

\* After an error idle reconnects, under the mutex.
StartIdle(g) ==
    /\ pc[g] = "start"
    /\ isIdle' = up
    /\ IF up
       THEN /\ idleCommand' = "live"
            /\ idleMutex' = None
            /\ GoTo(g, Idled(g))
            /\ UNCHANGED <<isReconnecting, back>>
       ELSE /\ Reconnect(g, "unlock")
            /\ UNCHANGED <<idleCommand, idleMutex>>
    /\ UNCHANGED <<up, attempt, token, stopping, budget>>

\* FAULT: idle() returns with the mutex.
ReturnLocked(g) ==
    /\ pc[g] = "unlock"
    /\ GoTo(g, Idled(g))
    /\ UNCHANGED <<up, idleVars, reconnectVars, token, stopping, back, budget>>

UnlockIdle(g) ==
    /\ pc[g] = "unlock"
    /\ idleMutex' = None
    /\ GoTo(g, Idled(g))
    /\ UNCHANGED <<up, isIdle, idleCommand, reconnectVars, token, stopping,
                   back, budget>>
-----------------------------------------------------------------------------
(* The loop of reconnect() *)

\* FAULT: a stopped fetcher may try again.
TryAgainCancelled(g, l) ==
    /\ pc[g] = "try"
    /\ \/ pc[l] = "ended"
       \/ (\A k \in Logins : pc[k] # "ended") /\ pc[l] = "lock"
    /\ up' = FALSE
    /\ isIdle' = FALSE
    /\ idleCommand' = "dead"
    /\ attempt' = l
    /\ pc' = [pc EXCEPT ![g] = "await", ![l] = "login"]
    /\ UNCHANGED <<idleMutex, isReconnecting, token, stopping, back, budget>>

\* Unless the fetcher is stopped: logout, with an idling revoked whatever
\* comes of it, or Close if that fails. Then login runs in a goroutine.
TryAgain(g, l) ==
    /\ pc[g] = "try"
    /\ ~stopping
    /\ \/ pc[l] = "ended"
       \/ (\A k \in Logins : pc[k] # "ended") /\ pc[l] = "lock"
    /\ up' = FALSE
    /\ isIdle' = FALSE
    /\ idleCommand' = "dead"
    /\ attempt' = l
    /\ pc' = [pc EXCEPT ![g] = "await", ![l] = "login"]
    /\ UNCHANGED <<idleMutex, isReconnecting, token, stopping, back, budget>>

StopTrying(g) ==
    /\ pc[g] = "try"
    /\ stopping
    /\ Return(g)
    /\ UNCHANGED <<up, idleVars, attempt, token, stopping, budget>>

\* runWithHardTimeout returns the outcome of login ...
LoginSucceeds(g) ==
    /\ pc[g] = "await"
    /\ pc[attempt] = "ok"
    /\ attempt' = None
    /\ IF token
       THEN /\ pc' = [pc EXCEPT ![g] = back[g], ![attempt] = "ended"]
            /\ isReconnecting' = FALSE
            /\ back' = [back EXCEPT ![g] = "rest"]
       ELSE /\ pc' = [pc EXCEPT ![g] = "send", ![attempt] = "ended"]
            /\ UNCHANGED <<isReconnecting, back>>
    /\ UNCHANGED <<up, idleVars, token, stopping, budget>>

LoginFails(g) ==
    /\ pc[g] = "await"
    /\ pc[attempt] = "login"
    /\ attempt' = None
    /\ pc' = [pc EXCEPT ![g] = "try", ![attempt] = "ended"]
    /\ UNCHANGED <<up, idleVars, isReconnecting, token, stopping, back, budget>>

\* ... or an error after 30 seconds, which leaves the goroutine running. Only
\* the goroutine that waits here holds the mutex for so long.
LoginTimesOut(g) ==
    /\ pc[g] = "await"
    /\ pc[attempt] = "lock" /\ idleMutex = g
    /\ GoTo(g, "try")
    /\ attempt' = None
    /\ UNCHANGED <<up, idleVars, isReconnecting, token, stopping, back, budget>>
-----------------------------------------------------------------------------
(* login(), in its goroutine *)

\* dial, select the mailbox, idle
Login(l) ==
    /\ pc[l] = "login"
    /\ up' = TRUE
    /\ idleCommand' = "dead"
    /\ GoTo(l, Idle(l))
    /\ UNCHANGED <<isIdle, idleMutex, reconnectVars, token, stopping, back, budget>>

\* A login that was given up ends when it is done.
EndLogin(l) ==
    /\ pc[l] = "ok"
    /\ attempt # l
    /\ GoTo(l, "ended")
    /\ UNCHANGED <<up, idleVars, reconnectVars, token, stopping, back, budget>>
-----------------------------------------------------------------------------
(* StartFetching() *)

TakeRequired ==
    /\ pc["loop"] = "rest"
    /\ token
    /\ token' = FALSE
    /\ GoTo("loop", RevokeIdle("loop"))
    /\ UNCHANGED <<up, idleVars, reconnectVars, stopping, back, budget>>

\* fetchMessages, whatever comes of it
FetchMessages ==
    /\ pc["loop"] = "fetch"
    /\ GoTo("loop", IF stopping THEN "rest" ELSE Idle("loop"))
    /\ UNCHANGED <<up, idleVars, reconnectVars, token, stopping, back, budget>>
-----------------------------------------------------------------------------
(* ensureConnected() of the two watchers *)

WatchPassively ==
    /\ pc["passive"] = "rest"
    /\ ~up /\ ~stopping
    /\ Reconnect("passive", "rest")
    /\ UNCHANGED <<up, idleVars, attempt, token, stopping, budget>>

\* The state of the connection is looked at first.
WatchActively ==
    /\ pc["active"] = "rest"
    /\ ~stopping
    /\ IF up THEN GoTo("active", "revoke") /\ UNCHANGED <<isReconnecting, back>>
             ELSE Reconnect("active", "revoke")
    /\ UNCHANGED <<up, idleVars, attempt, token, stopping, budget>>

WatcherRevokes ==
    /\ pc["active"] = "revoke"
    /\ GoTo("active", RevokeIdle("active"))
    /\ UNCHANGED <<up, idleVars, reconnectVars, token, stopping, back, budget>>

\* The validation, which also fails when another goroutine has resumed the
\* idling; idle() is deferred.
Noop ==
    /\ pc["active"] = "noop"
    /\ IF up /\ idleCommand = "dead"
       THEN GoTo("active", Idle("active")) /\ UNCHANGED <<isReconnecting, back>>
       ELSE Reconnect("active", "idle")
    /\ UNCHANGED <<up, idleVars, attempt, token, stopping, budget>>

WatcherIdles ==
    /\ pc["active"] = "idle"
    /\ GoTo("active", Idle("active"))
    /\ UNCHANGED <<up, idleVars, reconnectVars, token, stopping, back, budget>>
-----------------------------------------------------------------------------
(* Shutdown(): cancel, logout, wait for the fetch loop *)

Shutdown ==
    /\ ~stopping
    /\ stopping' = TRUE
    /\ GoTo("main", RevokeIdle("main"))
    /\ UNCHANGED <<up, idleVars, reconnectVars, token, back, budget>>

\* It waits 5 seconds at most.
Logout ==
    /\ pc["main"] = "logout"
    /\ up' = (up /\ idleCommand = "live")
    /\ GoTo("main", "closed")
    /\ UNCHANGED <<idleVars, reconnectVars, token, stopping, back, budget>>

\* The fetch loop and the watchers see that the context is cancelled.
Done(g) ==
    /\ pc[g] = "rest"
    /\ stopping
    /\ GoTo(g, "ended")
    /\ UNCHANGED <<up, idleVars, reconnectVars, token, stopping, back, budget>>

LoopClosed ==
    /\ pc["main"] = "closed"
    /\ pc["loop"] = "ended"
    /\ GoTo("main", "ended")
    /\ UNCHANGED <<up, idleVars, reconnectVars, token, stopping, back, budget>>
-----------------------------------------------------------------------------
\* What goroutine g does next, the taking of the mutex aside
Run(g) ==
    \/ SendRequired(g) \/ UnsetIdle(g) \/ CloseIdle(g)
    \/ StartIdle(g) \/ UnlockIdle(g)
    \/ (\E l \in Logins : TryAgain(g, l)) \/ StopTrying(g)
    \/ LoginSucceeds(g) \/ LoginFails(g) \/ LoginTimesOut(g)
    \/ g \in Logins /\ (Login(g) \/ EndLogin(g))
    \/ g = "loop" /\ (TakeRequired \/ FetchMessages)
    \/ g = "active" /\ (WatchActively \/ WatcherRevokes \/ Noop \/ WatcherIdles)
    \/ g = "passive" /\ WatchPassively
    \/ g \in {"loop", "active", "passive"} /\ Done(g)
    \/ g = "main" /\ (Logout \/ LoopClosed)

Next ==
    \/ \E g \in Goroutines : Run(g) \/ LockIdle(g)
    \/ Drop \/ Update \/ Shutdown

Spec == Init /\ [][Next]_vars

(***************************************************************************)
(* Every goroutine that can go on does, the timers of both watchers fire   *)
(* again and again, and a mutex that is released is handed to whoever      *)
(* waits. The mail server answers in the end: it is not dialed in vain for *)
(* ever. When a channel has a token and the context is cancelled, select   *)
(* picks at random, so that the loop sees the second in the end. Updates,  *)
(* lost connections and the shutdown are not forced.                       *)
(***************************************************************************)
Fairness ==
    /\ \A g \in Goroutines : WF_vars(Run(g))
    /\ \A g \in Logins \cup {"loop", "active"} : SF_vars(LockIdle(g))
    /\ \A l \in Logins : SF_vars(Login(l))
    /\ SF_vars(Done("loop"))

FairSpec == Spec /\ Fairness
-----------------------------------------------------------------------------
(* Safety *)

Steps == {"rest", "send", "revoke", "unset", "close", "idle", "lock", "start",
          "unlock", "try", "await", "login", "ok", "fetch", "noop",
          "logout", "closed", "ended"}

\* The variables have their types.
TypeOK ==
    /\ up \in BOOLEAN /\ isIdle \in BOOLEAN /\ isReconnecting \in BOOLEAN
    /\ token \in BOOLEAN /\ stopping \in BOOLEAN
    /\ idleCommand \in {"live", "dead"}
    /\ idleMutex \in Goroutines \cup {None}
    /\ attempt \in Logins \cup {None}
    /\ pc \in [Goroutines -> Steps] /\ back \in [Goroutines -> Steps]

\* idleMutex, isReconnecting and the login that is waited for belong to one
\* goroutine each, which releases them on every way out of idle() and of
\* reconnect(), errors and the end of the context included: nobody holds the
\* mutex who is not in idle(), and isReconnecting is set while one goroutine
\* is in reconnect() and at no other time.
Reconnecting(g) ==
    pc[g] \in {"try", "await"} \/ (pc[g] = "send" /\ g # "handler")

Ownership ==
    /\ TypeOK
    /\ \A g \in Goroutines :
        idleMutex = g <=> pc[g] \in {"start", "unlock"} \/ back[g] = "unlock"
    /\ isReconnecting <=> \E g \in Goroutines : Reconnecting(g)
    /\ \A g, h \in Goroutines : Reconnecting(g) /\ Reconnecting(h) => g = h
    /\ attempt # None <=> \E g \in Goroutines : pc[g] = "await"
-----------------------------------------------------------------------------
(* Liveness *)

\* idle() reconnects under idleMutex while its login waits for that mutex ...
IdleWaitsForItself == \E g \in Goroutines :
    idleMutex = g /\ pc[g] \in {"try", "await"}

\* ... and the fetch loop, when it reconnects, sends to its own full channel.
LoopWaitsForItself == pc["loop"] = "send" /\ token

\* Mails from the configured servers are collected (README.md): when a fetch
\* is required the loop comes around to it.
MailsAreCollected == token ~> ~token \/ stopping

\* Apart from the two ways in which a goroutine waits for itself, the fetcher
\* ends up connected and idling again after every disconnection, fetch and
\* validation, although isIdle is tested and reset outside of idleMutex and
\* three goroutines may find the connection lost at once.
Listening == up /\ isIdle /\ idleCommand = "live"

ListensAgain ==
    ~Listening ~> \/ Listening \/ stopping
                  \/ IdleWaitsForItself \/ LoopWaitsForItself

\* Under the same condition a required fetch is made.
FetchServed ==
    token ~> ~token \/ stopping \/ IdleWaitsForItself \/ LoopWaitsForItself

\* Shutdown returns: cancelling the context frees also the goroutine that
\* waits for itself in idle().
ShutdownEnds == stopping ~> pc["main"] = "ended" \/ LoopWaitsForItself
=============================================================================
