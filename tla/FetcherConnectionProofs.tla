----------------------- MODULE FetcherConnectionProofs -----------------------
(***************************************************************************)
(* Proofs about FetcherConnection, for any set of logins and any number of *)
(* lost connections and mailbox updates: idleMutex, isReconnecting and the *)
(* login that is waited for have one owner each.                           *)
(***************************************************************************)
EXTENDS FetcherConnection, TLAPS

\* Where a goroutine may go on when reconnect returns.
Returns == {"rest", "unlock", "fetch", "logout", "revoke", "idle"}

\* What Ownership needs to be kept: back is used in reconnect only and never
\* leads into another one, only three goroutines revoke an idling, and the
\* handler and main are not in the middle of something when they are called.
Placed ==
    /\ \A g \in Goroutines :
        /\ back[g] \in Returns
        /\ Reconnecting(g) \/ back[g] = "rest"
        /\ pc[g] \in {"unset", "close"} => g \in {"loop", "active", "main"}
    /\ pc["handler"] \in {"rest", "send"}
    /\ stopping \/ pc["main"] = "rest"

OwnInv == Ownership /\ Placed

\* The goroutines other than logins are five different ones, and None is none.
LEMMA Distinct ==
  /\ Workers \subseteq Goroutines /\ Logins \subseteq Goroutines
  /\ \A l \in Logins : l \notin Workers
  /\ None \notin Goroutines
BY ConnectionAssumption DEF Goroutines, Workers

LEMMA InitOwn == Init => OwnInv
BY Distinct
DEF Init, OwnInv, Ownership, Placed, TypeOK, Reconnecting, Returns, Steps,
    Goroutines, Workers

\* Where a login owns nothing.
Apart == {"login", "lock", "ok", "ended"}

\* A step that moves g, and logins that own nothing, keeps OwnInv if the mutex,
\* isReconnecting and the login that is waited for follow where g is.
LEMMA OneMoves ==
  ASSUME OwnInv, TypeOK', NEW g \in Goroutines,
         \A h \in Goroutines \ {g} :
            /\ back'[h] = back[h]
            /\ \/ pc'[h] = pc[h]
               \/ h \in Logins /\ {pc[h], pc'[h]} \subseteq Apart,
         stopping' = stopping,
         back'[g] \in Returns,
         Reconnecting(g)' \/ back'[g] = "rest",
         pc'[g] \in {"unset", "close"} => g \in {"loop", "active", "main"},
         g = "handler" => pc'[g] \in {"rest", "send"},
         g = "main" => stopping \/ pc'[g] = "rest",
         idleMutex' = g <=> pc'[g] \in {"start", "unlock"} \/ back'[g] = "unlock",
         idleMutex' = idleMutex \/ {idleMutex, idleMutex'} \subseteq {g, None},
         isReconnecting' <=> \/ Reconnecting(g)'
                             \/ isReconnecting /\ ~Reconnecting(g),
         Reconnecting(g)' => Reconnecting(g) \/ ~isReconnecting,
         attempt' # None <=> \/ pc'[g] = "await"
                             \/ attempt # None /\ pc[g] # "await"
  PROVE  OwnInv'
<1> USE Distinct DEF OwnInv, Ownership
<1>1. \A h \in Goroutines \ {g} : Reconnecting(h)' <=> Reconnecting(h)
  BY DEF Reconnecting, Apart
<1>2. Placed'
  BY <1>1 DEF Placed, Workers, Reconnecting, Apart
<1>3. \A h \in Goroutines :
        idleMutex' = h <=> pc'[h] \in {"start", "unlock"} \/ back'[h] = "unlock"
  BY DEF Apart
<1>4. isReconnecting' <=> \E h \in Goroutines : Reconnecting(h)'
  <2>1. CASE Reconnecting(g)'
    BY <2>1
  <2>2. CASE ~Reconnecting(g)' /\ Reconnecting(g)
    BY <2>2, <1>1
  <2>3. CASE ~Reconnecting(g)' /\ ~Reconnecting(g)
    BY <2>3, <1>1
  <2> QED
    BY <2>1, <2>2, <2>3
<1>5. \A h, k \in Goroutines : Reconnecting(h)' /\ Reconnecting(k)' => h = k
  BY <1>1
<1>6. attempt' # None <=> \E h \in Goroutines : pc'[h] = "await"
  <2>1. \A h \in Goroutines \ {g} : pc'[h] = "await" <=> pc[h] = "await"
    BY DEF Apart
  <2>2. \A h \in Goroutines : pc[h] = "await" => Reconnecting(h)
    BY DEF Reconnecting
  <2>3. CASE pc'[g] = "await"
    BY <2>3
  <2>4. CASE pc'[g] # "await" /\ pc[g] = "await"
    BY <2>1, <2>2, <2>4
  <2>5. CASE pc'[g] # "await" /\ pc[g] # "await"
    BY <2>1, <2>5
  <2> QED
    BY <2>3, <2>4, <2>5
<1> QED
  BY <1>2, <1>3, <1>4, <1>5, <1>6

LEMMA RunKeepsOwn ==
  ASSUME OwnInv, NEW g \in Goroutines, Run(g) \/ LockIdle(g)
  PROVE  OwnInv'
<1>0. /\ TypeOK
      /\ back[g] \in Returns
      /\ Reconnecting(g) \/ back[g] = "rest"
      /\ Reconnecting(g) => isReconnecting
      /\ pc[g] = "await" => attempt # None
      /\ pc[g] \in {"unset", "close"} => g \in {"loop", "active", "main"}
      /\ g = "handler" => pc[g] \in {"rest", "send"}
      /\ g = "main" => stopping \/ pc[g] = "rest"
      /\ idleMutex = g <=> pc[g] \in {"start", "unlock"} \/ back[g] = "unlock"
  BY DEF OwnInv, Ownership, Placed
<1> USE <1>0, Distinct
    DEF TypeOK, Reconnecting, Returns, Steps, GoTo, idleVars, reconnectVars,
        Workers
<1>1. CASE LockIdle(g)
  <2>1. TypeOK'
    BY <1>1 DEF LockIdle
  <2> QED
    BY <1>1, <2>1, OneMoves DEF LockIdle
<1>2. CASE SendRequired(g)
  <2>1. TypeOK'
    BY <1>2 DEF SendRequired, Return
  <2> QED
    BY <1>2, <2>1, OneMoves DEF SendRequired, Return
<1>3. CASE UnsetIdle(g)
  <2>1. TypeOK'
    BY <1>3 DEF UnsetIdle
  <2> QED
    BY <1>3, <2>1, OneMoves DEF UnsetIdle
<1>4. CASE CloseIdle(g)
  <2>1. TypeOK'
    <3>1. g \in {"loop", "active", "main"}
      BY <1>4 DEF CloseIdle
    <3>2. Revoked(g) \in Steps /\ RevokeFailed(g) \in Steps
      BY <3>1 DEF Revoked, RevokeFailed
    <3>3. CASE idleCommand = "live"
      BY <1>4, <3>2, <3>3 DEF CloseIdle
    <3>4. CASE idleCommand # "live"
      BY <1>4, <3>2, <3>4 DEF CloseIdle, Reconnect
    <3> QED
      BY <3>3, <3>4
  <2> QED
    BY <1>4, <2>1, OneMoves DEF CloseIdle, Reconnect, Revoked, RevokeFailed
<1>5. CASE StartIdle(g)
  <2>1. TypeOK'
    <3>1. CASE up
      BY <1>5, <3>1 DEF StartIdle, Idled
    <3>2. CASE ~up
      BY <1>5, <3>2 DEF StartIdle, Reconnect
    <3> QED
      BY <3>1, <3>2
  <2> QED
    BY <1>5, <2>1, OneMoves DEF StartIdle, Reconnect, Idled
<1>6. CASE UnlockIdle(g)
  <2>1. TypeOK'
    BY <1>6 DEF UnlockIdle, Idled
  <2> QED
    BY <1>6, <2>1, OneMoves DEF UnlockIdle, Idled
<1>7. ASSUME NEW l \in Logins, TryAgain(g, l) PROVE OwnInv'
  <2>1. TypeOK' /\ g # l
    BY <1>7 DEF TryAgain
  <2> QED
    BY <1>7, <2>1, OneMoves DEF TryAgain, Apart
<1>8. CASE StopTrying(g)
  <2>1. TypeOK'
    BY <1>8 DEF StopTrying, Return
  <2> QED
    BY <1>8, <2>1, OneMoves DEF StopTrying, Return
<1>9. CASE LoginSucceeds(g)
  <2>1. TypeOK' /\ attempt \in Logins /\ g # attempt
    BY <1>9 DEF LoginSucceeds
  <2>2. CASE token
    BY <1>9, <2>1, <2>2, OneMoves DEF LoginSucceeds, Apart
  <2>3. CASE ~token
    BY <1>9, <2>1, <2>3, OneMoves DEF LoginSucceeds, Apart
  <2> QED
    BY <2>2, <2>3
<1>10. CASE LoginFails(g)
  <2>1. TypeOK'
    BY <1>10 DEF LoginFails
  <2> QED
    BY <1>10, <2>1, OneMoves DEF LoginFails, Apart
<1>11. CASE LoginTimesOut(g)
  <2>1. TypeOK'
    BY <1>11 DEF LoginTimesOut
  <2> QED
    BY <1>11, <2>1, OneMoves DEF LoginTimesOut
<1>12. CASE g \in Logins /\ Login(g)
  <2>1. TypeOK'
    BY <1>12 DEF Login, Idle, Idled
  <2> QED
    BY <1>12, <2>1, OneMoves DEF Login, Idle, Idled
<1>13. CASE g \in Logins /\ EndLogin(g)
  <2>1. TypeOK'
    BY <1>13 DEF EndLogin
  <2> QED
    BY <1>13, <2>1, OneMoves DEF EndLogin
<1>14. CASE g = "loop" /\ TakeRequired
  <2>1. TypeOK'
    BY <1>14 DEF TakeRequired, RevokeIdle, Revoked
  <2> QED
    BY <1>14, <2>1, OneMoves DEF TakeRequired, RevokeIdle, Revoked
<1>15. CASE g = "loop" /\ FetchMessages
  <2>1. TypeOK'
    BY <1>15 DEF FetchMessages, Idle, Idled
  <2> QED
    BY <1>15, <2>1, OneMoves DEF FetchMessages, Idle, Idled
<1>16. CASE g = "active" /\ WatchActively
  <2>1. TypeOK'
    BY <1>16 DEF WatchActively, Reconnect
  <2> QED
    BY <1>16, <2>1, OneMoves DEF WatchActively, Reconnect
<1>17. CASE g = "active" /\ WatcherRevokes
  <2>1. TypeOK'
    BY <1>17 DEF WatcherRevokes, RevokeIdle, Revoked
  <2> QED
    BY <1>17, <2>1, OneMoves DEF WatcherRevokes, RevokeIdle, Revoked
<1>18. CASE g = "active" /\ Noop
  <2>1. TypeOK'
    BY <1>18 DEF Noop, Reconnect, Idle, Idled
  <2> QED
    BY <1>18, <2>1, OneMoves DEF Noop, Reconnect, Idle, Idled
<1>19. CASE g = "active" /\ WatcherIdles
  <2>1. TypeOK'
    BY <1>19 DEF WatcherIdles, Idle, Idled
  <2> QED
    BY <1>19, <2>1, OneMoves DEF WatcherIdles, Idle, Idled
<1>20. CASE g = "passive" /\ WatchPassively
  <2>1. TypeOK'
    BY <1>20 DEF WatchPassively, Reconnect
  <2> QED
    BY <1>20, <2>1, OneMoves DEF WatchPassively, Reconnect
<1>21. CASE g \in {"loop", "active", "passive"} /\ Done(g)
  <2>1. TypeOK'
    BY <1>21 DEF Done
  <2> QED
    BY <1>21, <2>1, OneMoves DEF Done
<1>22. CASE g = "main" /\ Logout
  <2>1. TypeOK'
    BY <1>22 DEF Logout
  <2> QED
    BY <1>22, <2>1, OneMoves DEF Logout
<1>23. CASE g = "main" /\ LoopClosed
  <2>1. TypeOK'
    BY <1>23 DEF LoopClosed
  <2> QED
    BY <1>23, <2>1, OneMoves DEF LoopClosed
<1> QED
  BY <1>1, <1>2, <1>3, <1>4, <1>5, <1>6, <1>7, <1>8, <1>9, <1>10, <1>11, <1>12, <1>13, <1>14, <1>15, <1>16, <1>17, <1>18, <1>19, <1>20, <1>21, <1>22, <1>23 DEF Run

\* Every resource of the connection has one owner, who gives it up on every way
\* out of idle() and reconnect(), however many logins have been given up.
THEOREM ConnectionIsOwned == Spec => []Ownership
<1>1. Init => OwnInv
  BY InitOwn
<1>2. OwnInv /\ [Next]_vars => OwnInv'
  <2> SUFFICES ASSUME OwnInv, [Next]_vars PROVE OwnInv'
    OBVIOUS
  <2> USE Distinct
      DEF OwnInv, Ownership, Placed, TypeOK, Reconnecting, Returns, Steps, GoTo,
          idleVars, reconnectVars, Workers
  <2>1. ASSUME NEW g \in Goroutines, Run(g) \/ LockIdle(g) PROVE OwnInv'
    BY <2>1, RunKeepsOwn
  <2>2. CASE Drop
    <3>1. TypeOK'
      BY <2>2 DEF Drop
    <3>2. Ownership'
      BY <2>2 DEF Drop
    <3> QED
      BY <2>2, <3>1, <3>2 DEF Drop
  <2>3. CASE Update
    BY <2>3 DEF Update
  <2>4. CASE Shutdown
    BY <2>4 DEF Shutdown, RevokeIdle, Revoked
  <2>5. CASE UNCHANGED vars
    BY <2>5 DEF vars
  <2> QED
    BY <2>1, <2>2, <2>3, <2>4, <2>5 DEF Next
<1>3. OwnInv => Ownership
  BY DEF OwnInv
<1> QED
  BY <1>1, <1>2, <1>3, PTL DEF Spec
============================================================================
