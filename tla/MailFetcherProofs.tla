-------------------------- MODULE MailFetcherProofs --------------------------
(***************************************************************************)
(* Proofs about MailFetcher, for any set of mails, first uid, capacity of  *)
(* the channel and number of crashes, shutdowns, lost connections and      *)
(* renumberings: no mail is passed over.                                   *)
(***************************************************************************)
EXTENDS MailFetcher, FiniteSetTheorems, SequenceTheorems, TLAPS

\* The mails that are safe, or were on their way in a crash.
Kept == stored \cup InFlight \cup dropped

\* What holds while the mailbox keeps its numbering: uids grow, uidLast is not
\* ahead of them, and a search in progress still has every mail that it would
\* otherwise jump over when it takes one with a higher uid.
Numbered ==
    /\ \A m \in InBox : box.uid[m] < box.next
    /\ \A m, n \in InBox : box.uid[m] = box.uid[n] => m = n
    /\ seen.last <= DefaultRow.last \/ seen.last < box.next
    /\ loop.found \subseteq InBox
    /\ \A m \in loop.found, n \in InBox \ Malformed :
        seen.last < box.uid[n] /\ box.uid[n] <= box.uid[m] => n \in loop.found

\* What uidLast has passed in memory, where it is ahead of the row, is kept.
Covered ==
    \A m \in InBox \ Malformed :
        DefaultRow.last < box.uid[m] /\ box.uid[m] <= seen.last => m \in Kept

FetcherInv ==
    /\ TypeOK
    /\ IsFiniteSet(InBox)
    /\ box.validity >= FirstValidity
    /\ row.last <= seen.last
    /\ row.validity <= seen.validity /\ seen.validity <= box.validity
    /\ loop.batch # {} => loop.pc \in {"fetch", "send"}
    /\ box.validity = FirstValidity => Numbered /\ Covered
-----------------------------------------------------------------------------
LEMMA MaxOfTwo ==
  ASSUME NEW a \in Nat, NEW b \in Nat
  PROVE  Max({a, b}) = IF a >= b THEN a ELSE b
BY DEF Max

\* A mail on its way is in the batch, in the chunk or in a place of the channel.
LEMMA OnItsWay ==
  ASSUME TypeOK
  PROVE  \A m : m \in Kept <=>
            \/ m \in stored \/ m \in dropped
            \/ m \in loop.batch \/ m \in chunk
            \/ \E i \in 1..Len(channel) : m \in channel[i]
BY DEF TypeOK, Kept, InFlight

LEMMA InitFetcher == Init => FetcherInv
<1> SUFFICES ASSUME Init PROVE FetcherInv
  OBVIOUS
<1>1. InBox = {}
  BY DEF Init, InBox
<1>2. TypeOK
  <2> USE FetcherAssumption DEF Init, FirstValidity, DefaultRow, Fresh
  <2>1. box.uid \in [Mails -> Nat] /\ box.next \in Nat /\ box.validity \in Nat
    OBVIOUS
  <2>2. channel \in Seq(SUBSET Mails) /\ Len(channel) <= ChannelSize
    OBVIOUS
  <2> QED
    BY <2>1, <2>2 DEF TypeOK
<1> QED
  BY <1>1, <1>2, FS_EmptySet
  DEF Init, FetcherInv, Numbered, Covered, FirstValidity, DefaultRow, Fresh

\* The steps that leave the mailbox alone and see no more of it.
SeesNoMore ==
    /\ box' = box /\ row'.last <= seen'.last /\ seen'.last <= seen.last
    /\ row'.validity <= seen'.validity /\ seen'.validity <= box.validity
    /\ \/ loop'.found = {}
       \/ loop'.found = loop.found /\ seen'.last = seen.last
    /\ loop'.batch # {} => loop'.pc \in {"fetch", "send"}

\* What is on its way must stay so or be kept.
LEMMA Aside ==
  ASSUME FetcherInv, TypeOK', SeesNoMore, Kept \subseteq Kept'
  PROVE  FetcherInv'
<1> USE DEF SeesNoMore
<1>1. InBox' = InBox
  BY DEF InBox
<1>2. /\ box.uid \in [Mails -> Nat] /\ box.next \in Nat
      /\ seen.last \in Nat /\ seen'.last \in Nat
      /\ InBox \subseteq Mails
  BY DEF FetcherInv, TypeOK, InBox
<1>3. Numbered => Numbered'
  BY <1>1, <1>2 DEF Numbered, DefaultRow
<1>4. Covered => Covered'
  BY <1>1, <1>2 DEF Covered
<1> QED
  BY <1>1, <1>3, <1>4 DEF FetcherInv

LEMMA ArriveKeeps ==
  ASSUME FetcherInv, NEW m \in Mails, Arrive(m)
  PROVE  FetcherInv'
<1> USE DEF Arrive, pumpVars
<1>1. TypeOK' /\ box.uid \in [Mails -> Nat] /\ box.next \in Nat
              /\ seen.last \in Nat
  BY DEF FetcherInv, TypeOK
<1>2. /\ InBox' \subseteq InBox \cup {m} /\ m \notin InBox
      /\ InBox \subseteq InBox' /\ InBox \subseteq Mails
      /\ \A n \in InBox : box'.uid[n] = box.uid[n]
      /\ box'.uid[m] = box.next /\ box'.next = box.next + 1
  BY <1>1 DEF InBox
<1>3. IsFiniteSet(InBox')
  BY <1>2, FS_AddElement, FS_Subset DEF FetcherInv
<1>4. loop' = loop /\ seen' = seen /\ row' = row /\ Kept' = Kept
      /\ box'.validity = box.validity
  BY DEF Kept, InFlight
<1>5. Numbered => Numbered'
  BY <1>1, <1>2, <1>4 DEF Numbered, DefaultRow
<1>6. Numbered /\ Covered => Covered'
  BY <1>1, <1>2, <1>4 DEF Numbered, Covered, DefaultRow
<1> QED
  BY <1>1, <1>3, <1>4, <1>5, <1>6 DEF FetcherInv

LEMMA RenumberKeeps ==
  ASSUME FetcherInv, Renumber
  PROVE  FetcherInv'
<1> DEFINE Below(m) == {n \in InBox : box.uid[n] <= box.uid[m]}
<1>1. TypeOK /\ IsFiniteSet(InBox) /\ InBox \subseteq Mails
  BY DEF FetcherInv, InBox
<1>2. \A m \in Mails : Cardinality(Below(m)) \in Nat
  <2> TAKE m \in Mails
  <2>1. Below(m) \in SUBSET InBox
    OBVIOUS
  <2> QED
    BY <1>1, <2>1, FS_Subset, FS_CardinalityType
<1>3. Cardinality(InBox) \in Nat
  BY <1>1, FS_CardinalityType
<1>4. /\ box'.uid = [m \in Mails |-> Cardinality(Below(m))]
      /\ box'.next = Cardinality(InBox) + 1
      /\ box'.validity = box.validity + 1
  BY DEF Renumber
<1>5. TypeOK'
  <2> HIDE DEF Below
  <2>1. box'.uid \in [Mails -> Nat] /\ box'.next \in Nat /\ box'.validity \in Nat
    BY <1>1, <1>2, <1>3, <1>4 DEF TypeOK
  <2> QED
    BY <1>1, <2>1 DEF Renumber, TypeOK, pumpVars
<1>6. InBox' \subseteq InBox
  <2> SUFFICES ASSUME NEW m \in Mails, box.uid[m] = 0 PROVE box'.uid[m] = 0
    BY DEF InBox
  <2>1. Below(m) = {}
    BY <1>1 DEF InBox, TypeOK
  <2> QED
    BY <1>4, <2>1, FS_EmptySet
<1>7. IsFiniteSet(InBox')
  BY <1>1, <1>6, FS_Subset
<1> QED
  BY <1>1, <1>4, <1>5, <1>7 DEF FetcherInv, Renumber, TypeOK, FirstValidity

LEMMA SearchKeeps ==
  ASSUME FetcherInv, Search
  PROVE  FetcherInv'
<1> USE DEF Search, pumpVars
<1>1. /\ box.uid \in [Mails -> Nat] /\ seen.last \in Nat
      /\ InBox \subseteq Mails
  BY DEF FetcherInv, TypeOK, InBox
<1>2. Matching \subseteq InBox /\ InBox' = InBox
  BY DEF Matching, Highest, InBox
<1>3. \A n \in InBox : \A m \in Matching :
        seen.last < box.uid[n] /\ box.uid[n] <= box.uid[m] => n \in Matching
  BY <1>1 DEF Matching
<1>4. TypeOK'
  BY <1>1, <1>2 DEF FetcherInv, TypeOK
<1>5. loop.batch = {}
  BY DEF FetcherInv
<1>6. Kept' = Kept
  BY <1>5 DEF Kept, InFlight, FetcherInv, TypeOK
<1>7. CASE up /\ Matching # {}
  <2>1. loop'.found = Matching /\ loop'.batch = {}
    BY <1>7 DEF FetcherInv, TypeOK
  <2>2. Numbered => Numbered'
    BY <1>1, <1>2, <1>3, <2>1 DEF Numbered
  <2>3. Covered => Covered'
    BY <1>2, <1>6 DEF Covered
  <2> QED
    BY <1>2, <1>4, <2>1, <2>2, <2>3 DEF FetcherInv
<1>8. CASE ~(up /\ Matching # {})
  <2>1. SeesNoMore
    BY <1>8 DEF SeesNoMore, FetcherInv, TypeOK
  <2> QED
    BY <1>4, <1>6, <2>1, Aside
<1> QED
  BY <1>7, <1>8

\* The mail with the lowest uid of those that were found is taken: uidLast
\* jumps over nothing but mails that cannot be parsed.
LEMMA FetchKeeps ==
  ASSUME FetcherInv, NEW m \in Mails, Fetch(m)
  PROVE  FetcherInv'
<1> USE DEF Fetch, pumpVars
<1> DEFINE Loops == [pc : {"setup", "wait", "select", "search", "fetch", "send", "closed"},
                     valid : BOOLEAN, found : SUBSET Mails, batch : SUBSET Mails]
<1>0. loop \in Loops /\ loop' \in Loops /\ loop.batch \subseteq loop'.batch
  <2>1. loop \in Loops
    BY DEF FetcherInv, TypeOK
  <2>2. CASE m \in Malformed
    BY <2>1, <2>2
  <2>3. CASE m \notin Malformed
    <3>1. loop' = [loop EXCEPT !.found = @ \ {m}, !.batch = @ \cup {m}]
      BY <2>3
    <3>2. /\ loop'.pc = loop.pc /\ loop'.valid = loop.valid
          /\ loop'.found = loop.found \ {m} /\ loop'.batch = loop.batch \cup {m}
      BY <2>1, <3>1
    <3> QED
      BY <2>1, <3>1, <3>2
  <2> QED
    BY <2>1, <2>2, <2>3
<1>1. /\ box.uid \in [Mails -> Nat] /\ box.next \in Nat
      /\ seen.last \in Nat /\ row.last \in Nat
      /\ InBox \subseteq Mails /\ InBox' = InBox
      /\ loop'.found = loop.found \ {m}
  BY DEF FetcherInv, TypeOK, InBox
<1>2. Kept \subseteq Kept'
  BY <1>0 DEF Kept, InFlight
<1>3. CASE m \in Malformed
  <2>1. TypeOK'
    BY <1>3 DEF FetcherInv, TypeOK
  <2>2. Numbered => Numbered'
    BY <1>1, <1>3 DEF Numbered
  <2>3. Covered => Covered'
    BY <1>1, <1>2, <1>3 DEF Covered
  <2> QED
    BY <1>1, <1>3, <2>1, <2>2, <2>3 DEF FetcherInv, TypeOK
<1>4. CASE m \notin Malformed
  <2>1. /\ loop'.batch = loop.batch \cup {m} /\ loop'.pc = "fetch"
        /\ seen'.last = Max({seen.last, box.uid[m]})
        /\ seen'.validity = seen.validity
    BY <1>4 DEF FetcherInv, TypeOK
  <2>2. /\ seen'.last \in Nat /\ seen.last <= seen'.last
        /\ seen'.last \in {seen.last, box.uid[m]} /\ box.uid[m] <= seen'.last
    <3>1. PICK u \in Nat : u = box.uid[m]
      BY <1>1
    <3>2. seen'.last = IF seen.last >= u THEN seen.last ELSE u
      BY <1>1, <2>1, <3>1, MaxOfTwo
    <3> QED
      BY <1>1, <3>1, <3>2
  <2>3. TypeOK'
    <3>1. seen' \in [last : Nat, validity : Nat]
      BY <1>4, <2>2 DEF FetcherInv, TypeOK
    <3> QED
      BY <1>0, <1>4, <3>1 DEF FetcherInv, TypeOK
  <2>4. m \in Kept'
    BY <2>1 DEF Kept, InFlight
  <2>5. Numbered => Numbered'
    BY <1>1, <2>2 DEF Numbered, DefaultRow
  <2>6. Numbered /\ Covered => Covered'
    BY <1>1, <1>2, <2>2, <2>4 DEF Numbered, Covered, DefaultRow
  <2> QED
    BY <1>1, <2>1, <2>2, <2>3, <2>5, <2>6 DEF FetcherInv
<1> QED
  BY <1>3, <1>4

\* What the channel hands on stays on its way.
LEMMA SendKeeps ==
  ASSUME FetcherInv, Send
  PROVE  FetcherInv'
<1> USE DEF Send
<1>1. TypeOK
  BY DEF FetcherInv
<1>2. /\ channel \in Seq(SUBSET Mails) /\ loop.batch \in SUBSET Mails
      /\ ChannelSize \in Nat /\ Len(channel) < ChannelSize
  BY <1>1, FetcherAssumption DEF TypeOK
<1>3. /\ channel' \in Seq(SUBSET Mails) /\ Len(channel') = Len(channel) + 1
      /\ \A i \in 1..Len(channel) : channel'[i] = channel[i]
      /\ channel'[Len(channel) + 1] = loop.batch
  BY <1>2
<1>4. TypeOK'
  <2>1. /\ channel' \in Seq(SUBSET Mails) /\ Len(channel') <= ChannelSize
    BY <1>2, <1>3, LenProperties
  <2>2. loop' \in [pc : {"wait"}, valid : BOOLEAN, found : SUBSET Mails,
                   batch : SUBSET Mails]
    BY DEF Fresh
  <2> QED
    BY <1>1, <2>1, <2>2 DEF TypeOK
<1>5. Kept \subseteq Kept'
  <2> SUFFICES ASSUME NEW m \in Kept PROVE m \in Kept'
    OBVIOUS
  <2>1. \/ m \in stored \/ m \in dropped
        \/ m \in loop.batch \/ m \in chunk
        \/ \E i \in 1..Len(channel) : m \in channel[i]
    BY <1>1, OnItsWay
  <2>2. Len(channel) \in Nat /\ DOMAIN channel' = 1..Len(channel')
    BY <1>2, <1>3, LenProperties
  <2>3. CASE m \in stored \cup dropped \cup chunk
    BY <2>3 DEF Kept, InFlight
  <2>4. CASE m \in loop.batch
    BY <1>3, <2>2, <2>4 DEF Kept, InFlight
  <2>5. CASE \E i \in 1..Len(channel) : m \in channel[i]
    BY <1>3, <2>2, <2>5 DEF Kept, InFlight
  <2> QED
    BY <2>1, <2>3, <2>4, <2>5
<1>6. SeesNoMore
  BY <1>1 DEF SeesNoMore, FetcherInv, TypeOK, Fresh
<1> QED
  BY <1>4, <1>5, <1>6, Aside

LEMMA ReceiveKeeps ==
  ASSUME FetcherInv, Receive
  PROVE  FetcherInv'
<1> USE DEF Receive
<1>1. TypeOK
  BY DEF FetcherInv
<1>2. channel \in Seq(SUBSET Mails) /\ channel # <<>>
  BY <1>1 DEF TypeOK
<1>3. /\ chunk' = channel[1] /\ chunk' \in SUBSET Mails
      /\ channel' \in Seq(SUBSET Mails) /\ Len(channel') = Len(channel) - 1
      /\ \A i \in 1..Len(channel') : channel'[i] = channel[i + 1]
      /\ Len(channel) \in Nat \ {0}
  BY <1>2, HeadTailProperties, EmptySeq
<1>4. TypeOK'
  BY <1>1, <1>3, FetcherAssumption DEF TypeOK
<1>5. Kept \subseteq Kept'
  <2> SUFFICES ASSUME NEW m \in Kept PROVE m \in Kept'
    OBVIOUS
  <2>1. \/ m \in stored \/ m \in dropped
        \/ m \in loop.batch \/ m \in chunk
        \/ \E i \in 1..Len(channel) : m \in channel[i]
    BY <1>1, OnItsWay
  <2>2. DOMAIN channel' = 1..Len(channel')
    BY <1>3, LenProperties
  <2>3. CASE m \in stored \cup dropped \cup loop.batch
    BY <2>3 DEF Kept, InFlight
  <2>4. ASSUME NEW i \in 1..Len(channel), m \in channel[i] PROVE m \in Kept'
    <3>1. CASE i = 1
      BY <1>3, <2>4, <3>1 DEF Kept, InFlight
    <3>2. CASE i # 1
      <4>1. i - 1 \in 1..Len(channel') /\ channel'[i - 1] = channel[i]
        BY <1>3, <3>2
      <4>2. i - 1 \in DOMAIN channel' /\ m \in channel'[i - 1]
        BY <2>2, <2>4, <4>1
      <4>3. m \in UNION {channel'[k] : k \in DOMAIN channel'}
        BY <4>2
      <4> QED
        BY <4>3 DEF Kept, InFlight
    <3> QED
      BY <3>1, <3>2
  <2> QED
    BY <2>1, <2>3, <2>4
<1>6. SeesNoMore
  BY <1>1 DEF SeesNoMore, FetcherInv, TypeOK
<1> QED
  BY <1>4, <1>5, <1>6, Aside

LEMMA CrashKeeps ==
  ASSUME FetcherInv, Crash
  PROVE  FetcherInv'
<1> USE DEF Crash
<1>1. InFlight \subseteq Mails /\ TypeOK
  BY DEF InFlight, FetcherInv, TypeOK
<1>2. TypeOK'
  <2>1. channel' \in Seq(SUBSET Mails) /\ Len(channel') <= ChannelSize
    BY EmptySeq, FetcherAssumption
  <2>2. loop' \in [pc : {"setup"}, valid : BOOLEAN, found : SUBSET Mails,
                   batch : SUBSET Mails]
    BY DEF Fresh
  <2>3. dropped' \subseteq Mails
    BY <1>1 DEF TypeOK
  <2> QED
    BY <1>1, <2>1, <2>2, <2>3 DEF TypeOK
<1>3. Kept \subseteq Kept'
  BY DEF Kept
<1>6. SeesNoMore
  BY <1>1 DEF SeesNoMore, FetcherInv, TypeOK, Fresh
<1> QED
  BY <1>2, <1>3, <1>6, Aside

LEMMA FetcherStep == FetcherInv /\ [Next]_vars => FetcherInv'
<1> SUFFICES ASSUME FetcherInv, [Next]_vars PROVE FetcherInv'
  OBVIOUS
<1> USE DEF pumpVars
<1>0. TypeOK
  BY DEF FetcherInv
<1>1. CASE UNCHANGED vars
  <2>1. TypeOK' /\ Kept' = Kept
    BY <1>0, <1>1 DEF vars, TypeOK, Kept, InFlight
  <2>2. SeesNoMore
    BY <1>0, <1>1 DEF SeesNoMore, vars, FetcherInv, TypeOK
  <2> QED
    BY <2>1, <2>2, Aside
<1>2. CASE Drop
  <2>1. TypeOK'
    BY <1>0, <1>2 DEF Drop, TypeOK
  <2>2. Kept \subseteq Kept'
    BY <1>0, <1>2 DEF Drop, FetcherInv, Kept, InFlight, TypeOK
  <2>3. SeesNoMore
    BY <1>0, <1>2 DEF SeesNoMore, Drop, FetcherInv, TypeOK
  <2> QED
    BY <2>1, <2>2, <2>3, Aside
<1>3. CASE Stop
  <2>1. TypeOK'
    BY <1>0, <1>3 DEF Stop, TypeOK
  <2>2. Kept \subseteq Kept'
    BY <1>0, <1>3 DEF Stop, FetcherInv, Kept, InFlight, TypeOK
  <2>3. SeesNoMore
    BY <1>0, <1>3 DEF SeesNoMore, Stop, FetcherInv, TypeOK
  <2> QED
    BY <2>1, <2>2, <2>3, Aside
<1>4. CASE Setup
  <2>1. TypeOK'
    BY <1>0, <1>4 DEF Setup, TypeOK, Fresh
  <2>2. Kept \subseteq Kept'
    BY <1>0, <1>4 DEF Setup, FetcherInv, Kept, InFlight, TypeOK, Fresh
  <2>3. SeesNoMore
    BY <1>0, <1>4 DEF SeesNoMore, Setup, FetcherInv, TypeOK, Fresh
  <2> QED
    BY <2>1, <2>2, <2>3, Aside
<1>5. CASE TakeRequired
  <2>1. TypeOK'
    BY <1>0, <1>5 DEF TakeRequired, TypeOK
  <2>2. Kept \subseteq Kept'
    BY <1>0, <1>5 DEF TakeRequired, FetcherInv, Kept, InFlight, TypeOK
  <2>3. SeesNoMore
    BY <1>0, <1>5 DEF SeesNoMore, TakeRequired, FetcherInv, TypeOK
  <2> QED
    BY <2>1, <2>2, <2>3, Aside
<1>6. CASE Select
  <2>1. TypeOK'
    BY <1>0, <1>6 DEF Select, TypeOK
  <2>2. Kept \subseteq Kept'
    BY <1>0, <1>6 DEF Select, FetcherInv, Kept, InFlight, TypeOK
  <2>3. SeesNoMore
    BY <1>0, <1>6 DEF SeesNoMore, Select, FetcherInv, TypeOK
  <2> QED
    BY <2>1, <2>2, <2>3, Aside
<1>7. CASE SaveFetched
  <2>1. TypeOK'
    BY <1>0, <1>7 DEF SaveFetched, TypeOK
  <2>2. Kept \subseteq Kept'
    BY <1>0, <1>7 DEF SaveFetched, FetcherInv, Kept, InFlight, TypeOK
  <2>3. SeesNoMore
    BY <1>0, <1>7 DEF SeesNoMore, SaveFetched, FetcherInv, TypeOK
  <2> QED
    BY <2>1, <2>2, <2>3, Aside
<1>8. CASE LoopEnds
  <2>1. TypeOK'
    BY <1>0, <1>8 DEF LoopEnds, TypeOK
  <2>2. Kept \subseteq Kept'
    BY <1>0, <1>8 DEF LoopEnds, FetcherInv, Kept, InFlight, TypeOK
  <2>3. SeesNoMore
    BY <1>0, <1>8 DEF SeesNoMore, LoopEnds, FetcherInv, TypeOK
  <2> QED
    BY <2>1, <2>2, <2>3, Aside
<1>9. CASE Reconnect
  <2>1. TypeOK'
    BY <1>0, <1>9 DEF Reconnect, TypeOK
  <2>2. Kept \subseteq Kept'
    BY <1>0, <1>9 DEF Reconnect, FetcherInv, Kept, InFlight, TypeOK
  <2>3. SeesNoMore
    BY <1>0, <1>9 DEF SeesNoMore, Reconnect, FetcherInv, TypeOK
  <2> QED
    BY <2>1, <2>2, <2>3, Aside
<1>10. CASE SaveReconnected
  <2>1. TypeOK'
    BY <1>0, <1>10 DEF SaveReconnected, TypeOK
  <2>2. Kept \subseteq Kept'
    BY <1>0, <1>10 DEF SaveReconnected, FetcherInv, Kept, InFlight, TypeOK
  <2>3. SeesNoMore
    BY <1>0, <1>10 DEF SeesNoMore, SaveReconnected, FetcherInv, TypeOK
  <2> QED
    BY <2>1, <2>2, <2>3, Aside
<1>11. CASE QueueReconnected
  <2>1. TypeOK'
    BY <1>0, <1>11 DEF QueueReconnected, TypeOK
  <2>2. Kept \subseteq Kept'
    BY <1>0, <1>11 DEF QueueReconnected, FetcherInv, Kept, InFlight, TypeOK
  <2>3. SeesNoMore
    BY <1>0, <1>11 DEF SeesNoMore, QueueReconnected, FetcherInv, TypeOK
  <2> QED
    BY <2>1, <2>2, <2>3, Aside
<1>12. CASE Restart
  <2>1. TypeOK'
    BY <1>0, <1>12 DEF Restart, TypeOK, Fresh
  <2>2. Kept \subseteq Kept'
    BY <1>0, <1>12 DEF Restart, FetcherInv, Kept, InFlight, TypeOK, Fresh
  <2>3. SeesNoMore
    BY <1>0, <1>12 DEF SeesNoMore, Restart, FetcherInv, TypeOK, Fresh
  <2> QED
    BY <2>1, <2>2, <2>3, Aside
<1>13. ASSUME NEW m \in Mails, Store(m) PROVE FetcherInv'
  <2>1. TypeOK'
    BY <1>0, <1>13 DEF Store, TypeOK
  <2>2. Kept \subseteq Kept'
    BY <1>13 DEF Store, Kept, InFlight
  <2>3. SeesNoMore
    BY <1>0, <1>13 DEF SeesNoMore, Store, FetcherInv, TypeOK
  <2> QED
    BY <2>1, <2>2, <2>3, Aside
<1> QED
  BY <1>1, <1>2, <1>3, <1>4, <1>5, <1>6, <1>7, <1>8, <1>9, <1>10, <1>11, <1>12, <1>13,
     ArriveKeeps, RenumberKeeps, SearchKeeps, FetchKeeps, SendKeeps,
     ReceiveKeeps, CrashKeeps
  DEF Next, LoopStep, WatcherStep, PumpStep

LEMMA FetcherInvariant == Spec => []FetcherInv
<1>1. FetcherInv /\ [Next]_vars => FetcherInv'
  BY FetcherStep
<1> QED
  BY InitFetcher, <1>1, PTL DEF Spec

\* The row is never ahead of what its process has seen, nor the fetcher of the
\* mailbox, whoever writes uidLast and uidValidity, and every variable has its
\* type.
THEOREM FetcherStateInOrder == Spec => []StateInOrder
<1>1. FetcherInv => StateInOrder
  BY DEF FetcherInv, StateInOrder, Numbered
<1> QED
  BY FetcherInvariant, <1>1, PTL

\* The saved uidLast passes over no mail that is not stored, on its way or lost
\* on its way in a crash: through any lost connection, failed fetch, shutdown
\* and restart, as long as the mailbox keeps its numbering.
THEOREM FetcherSkipsNothing == Spec => []NothingSkipped
<1>1. FetcherInv => NothingSkipped
  <2> SUFFICES ASSUME FetcherInv, box.validity = FirstValidity,
                      NEW m \in Mails \ Malformed,
                      Passed(m), box.uid[m] > DefaultRow.last
               PROVE  m \in Kept
    BY DEF NothingSkipped, Kept
  <2>1. /\ m \in InBox /\ box.uid[m] <= row.last /\ row.last <= seen.last
        /\ box.uid[m] \in Nat /\ row.last \in Nat /\ seen.last \in Nat
    BY DEF Passed, FetcherInv, TypeOK
  <2> QED
    BY <2>1 DEF FetcherInv, Covered, DefaultRow
<1> QED
  BY FetcherInvariant, <1>1, PTL
=============================================================================
