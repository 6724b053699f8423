-------------------------- MODULE MailPostingProofs --------------------------
(***************************************************************************)
(* Proofs about MailPosting, for any set of configurations, mails, answers *)
(* of the service, threads and limits of the server: the maps between      *)
(* rooms agree in whatever order they were filled and new threads get a    *)
(* room in them; no message of an answer is lost, the new one comes first, *)
(* and a reply is cut little.                                              *)
(***************************************************************************)
EXTENDS MailPosting, SequenceTheorems, FiniteSetTheorems, TLAPS

\* A file names rooms only, and two entries of overview are two rooms.
WellFormed(file) ==
    /\ file.default \in RoomNames
    /\ \A kind \in RuleKinds : \A rule \in file.rules[kind] : rule.room \in RoomNames
    /\ DOMAIN file.overview \subseteq RoomNames
    /\ \A n, m \in DOMAIN file.overview :
        ResolveRoomValue(n) = ResolveRoomValue(m) => n = m

\* The rooms that the loader knows of: those of the rules, the default room and
\* those that the overviews list.
TargetsKnown ==
    /\ RuleRooms \subseteq rooms.target \cap rooms.all
    /\ DefaultRoomId \in rooms.all
    /\ \A o \in DOMAIN rooms.overview : rooms.overview[o] \subseteq rooms.target

\* What holds while the overview entries are read: none is read twice, and full
\* has those of the others that list nothing.
Reading ==
    /\ loader.todo \subseteq DOMAIN settings.overview \cup {""}
    /\ \A n \in loader.todo : ResolveRoomValue(n) \notin DOMAIN rooms.overview
    /\ \/ "" \in loader.todo
       \/ "" \in DOMAIN rooms.overview /\ rooms.overview[""] = {DefaultRoomId}
    /\ \A o \in DOMAIN rooms.overview : o \in rooms.full <=> rooms.overview[o] = {}
    /\ rooms.full \subseteq DOMAIN rooms.overview
    /\ TargetsKnown

RoomInv ==
    /\ WellFormed(settings)
    /\ rooms = [target |-> rooms.target, all |-> rooms.all,
                overview |-> rooms.overview, full |-> rooms.full,
                inverse |-> rooms.inverse]
    /\ loader = [pc |-> loader.pc, todo |-> loader.todo]
    /\ loader.pc \in {"rules", "overviews", "loaded"}
    /\ loader.pc = "rules" => rooms = NoRooms
    /\ loader.pc = "overviews" => Reading
    /\ loader.pc = "loaded" =>
        RoomsAgree /\ TargetsKnown /\ DefaultRoomId \in rooms.target
-----------------------------------------------------------------------------
\* Only aliases are resolved to something else, and nothing to "".
LEMMA Resolved ==
  /\ ResolveRoomValue("") = ""
  /\ \A n \in RoomNames : ResolveRoomValue(n) # ""
BY RoomAssumption DEF ResolveRoomValue, Range

LEMMA LoadRulesKeeps ==
  ASSUME RoomInv, LoadRules
  PROVE  RoomInv'
<1>1. /\ settings' = settings /\ loader.pc = "rules" /\ rooms = NoRooms
      /\ RuleRooms' = RuleRooms /\ DefaultRoomId' = DefaultRoomId
  BY DEF RoomInv, LoadRules, RuleRooms, DefaultRoomId
<1>2. /\ loader' = [pc |-> "overviews", todo |-> DOMAIN settings.overview \cup {""}]
      /\ rooms' = [target |-> RuleRooms, all |-> RuleRooms \cup {DefaultRoomId},
                   overview |-> <<>>, full |-> {}, inverse |-> <<>>]
  BY <1>1 DEF LoadRules, NoRooms
<1>3. DOMAIN rooms'.overview = {}
  <2>1. <<>> \in Seq({}) /\ Len(<<>>) = 0
    BY EmptySeq
  <2>2. DOMAIN <<>> = {}
    BY <2>1, LenProperties
  <2> QED
    BY <1>2, <2>2
<1>4. Reading'
  BY <1>1, <1>2, <1>3 DEF Reading, TargetsKnown
<1> QED
  BY <1>1, <1>2, <1>4 DEF RoomInv

LEMMA LoadOverviewKeeps ==
  ASSUME RoomInv, NEW name \in RoomNames \cup {""}, LoadOverview(name)
  PROVE  RoomInv'
<1> DEFINE o == ResolveRoomValue(name)
           targets == Listed(name)
<1>1. /\ settings' = settings /\ loader.pc = "overviews" /\ name \in loader.todo
      /\ RuleRooms' = RuleRooms /\ DefaultRoomId' = DefaultRoomId
      /\ WellFormed(settings) /\ Reading
  BY DEF RoomInv, LoadOverview, RuleRooms, DefaultRoomId
<1>2. loader' = [pc |-> "overviews", todo |-> loader.todo \ {name}]
  BY <1>1 DEF RoomInv, LoadOverview
<1>3. /\ rooms' = [target |-> rooms.target \cup targets,
                   all |-> rooms.all \cup targets \cup ({o} \ {""}),
                   overview |-> [p \in DOMAIN rooms.overview \cup {o} |->
                                   IF p = o THEN targets ELSE rooms.overview[p]],
                   full |-> IF targets = {} THEN rooms.full \cup {o} ELSE rooms.full,
                   inverse |-> rooms.inverse]
  BY DEF RoomInv, LoadOverview
<1>4. o \notin DOMAIN rooms.overview
  BY <1>1 DEF Reading
<1>5. \A n \in loader.todo \ {name} : ResolveRoomValue(n) # o
  BY <1>1, Resolved DEF Reading, WellFormed
<1>6. name = "" => o = "" /\ targets = {DefaultRoomId}
  BY Resolved DEF Listed
<1>7. name # "" => o # ""
  BY Resolved
<1> HIDE DEF o, targets
<1>8. Reading'
  <2>1. TargetsKnown'
    BY <1>1, <1>3 DEF Reading, TargetsKnown
  <2>2. \A n \in loader'.todo : ResolveRoomValue(n) \notin DOMAIN rooms'.overview
    BY <1>1, <1>2, <1>3, <1>5 DEF Reading
  <2>3. \/ "" \in loader'.todo
        \/ "" \in DOMAIN rooms'.overview /\ rooms'.overview[""] = {DefaultRoomId}
    BY <1>1, <1>2, <1>3, <1>4, <1>6, <1>7 DEF Reading
  <2>4. /\ \A p \in DOMAIN rooms'.overview :
            p \in rooms'.full <=> rooms'.overview[p] = {}
        /\ rooms'.full \subseteq DOMAIN rooms'.overview
    BY <1>1, <1>3, <1>4 DEF Reading
  <2> QED
    BY <1>1, <1>2, <2>1, <2>2, <2>3, <2>4 DEF Reading
<1> QED
  BY <1>1, <1>2, <1>3, <1>8 DEF RoomInv

\* Where the maps are inverted they agree: the targets of an overview of all
\* rooms are the rooms that are known, every listed room among them.
LEMMA InvertKeeps ==
  ASSUME RoomInv, Invert
  PROVE  RoomInv'
<1> DEFINE entries == DOMAIN rooms.overview \ {""}
           listed == UNION Range(rooms.overview)
<1>1. /\ settings' = settings /\ loader.pc = "overviews" /\ loader.todo = {}
      /\ RuleRooms' = RuleRooms /\ DefaultRoomId' = DefaultRoomId
      /\ WellFormed(settings) /\ Reading
  BY DEF RoomInv, Invert, RuleRooms, DefaultRoomId
<1>2. loader' = [pc |-> "loaded", todo |-> {}]
  BY <1>1 DEF RoomInv, Invert
<1>3. rooms' = [target |-> rooms.target, all |-> rooms.all,
                overview |-> [o \in entries |-> rooms.overview[o]],
                full |-> rooms.full,
                inverse |-> [t \in listed |-> Showing(t) \cup rooms.full]]
  BY DEF RoomInv, Invert, Restrict
<1>4. /\ "" \in DOMAIN rooms.overview /\ rooms.overview[""] = {DefaultRoomId}
      /\ rooms.full \subseteq entries
      /\ \A o \in entries : o \in rooms.full <=> rooms.overview[o] = {}
  BY <1>1 DEF Reading
<1>5. /\ DefaultRoomId \in listed
      /\ \A o \in DOMAIN rooms.overview : rooms.overview[o] \subseteq listed
      /\ listed \subseteq rooms.target
  <2>1. \A o \in DOMAIN rooms.overview : rooms.overview[o] \subseteq listed
    BY DEF Range
  <2>2. DefaultRoomId \in listed
    BY <1>4, <2>1
  <2>3. listed \subseteq rooms.target
    <3>1. \A o \in DOMAIN rooms.overview : rooms.overview[o] \subseteq rooms.target
      BY <1>1 DEF Reading, TargetsKnown
    <3> QED
      BY <3>1 DEF Range
  <2> QED
    BY <2>1, <2>2, <2>3
<1>6. TargetsKnown' /\ DefaultRoomId' \in rooms'.target
  BY <1>1, <1>3, <1>5 DEF Reading, TargetsKnown
<1>7. ASSUME NEW t \in {DefaultRoomId'} \cup UNION Range(rooms'.overview)
      PROVE  GetOverviewRooms(t)' =
                {o \in DOMAIN rooms'.overview : t \in GetOverviewRoomTargets(o)'}
  <2>1. t \in listed /\ t \in rooms.target
    BY <1>1, <1>3, <1>5 DEF Range
  <2> HIDE DEF listed
  <2>2. GetOverviewRooms(t)' = Showing(t) \cup rooms.full
    BY <1>3, <2>1 DEF GetOverviewRooms
  <2>3. Showing(t) = {o \in entries : t \in rooms.overview[o]}
    BY DEF Showing
  <2>4. \A o \in entries : GetOverviewRoomTargets(o)' =
            IF rooms.overview[o] = {} THEN rooms.target ELSE rooms.overview[o]
    BY <1>3 DEF GetOverviewRoomTargets
  <2>5. DOMAIN rooms'.overview = entries
    BY <1>3
  <2> HIDE DEF entries
  <2> QED
    BY <1>4, <2>1, <2>2, <2>3, <2>4, <2>5
<1>8. RoomsAgree'
  BY <1>7 DEF RoomsAgree
<1> QED
  BY <1>1, <1>2, <1>3, <1>6, <1>8 DEF RoomInv

\* What the rest of the program does leaves the rooms as they are.
LEMMA RoomStep == RoomInv /\ [Next]_vars => RoomInv'
<1> SUFFICES ASSUME RoomInv, [Next]_vars PROVE RoomInv'
  OBVIOUS
<1>1. CASE UNCHANGED roomVars
  <2>1. rooms' = rooms /\ settings' = settings /\ loader' = loader
    BY <1>1 DEF roomVars
  <2>2. RuleRooms' = RuleRooms /\ DefaultRoomId' = DefaultRoomId
    BY <2>1 DEF RuleRooms, DefaultRoomId
  <2>3. TargetsKnown' = TargetsKnown /\ (Reading => Reading')
    BY <2>1, <2>2 DEF TargetsKnown, Reading
  <2>4. RoomsAgree => RoomsAgree'
    BY <2>1, <2>2
    DEF RoomsAgree, RoomsLoaded, GetOverviewRooms, GetOverviewRoomTargets
  <2> QED
    BY <2>1, <2>2, <2>3, <2>4 DEF RoomInv
<1>2. CASE LoadRooms
  BY <1>2, LoadRulesKeeps, LoadOverviewKeeps, InvertKeeps DEF LoadRooms
<1>3. Posting => UNCHANGED roomVars
  BY DEF Posting, PostingStep, CreateThread, AddReply, AddReplyPanics,
         SendThreadMessage, TruncateLarge, CreateThreadPanics, HeadRedacted,
         SendFails, roomVars
<1> QED
  BY <1>1, <1>2, <1>3 DEF Next, vars

\* For every configuration the overviews that a change of a thread updates are
\* those that show it, in whatever order the maps of the file were walked.
THEOREM RoomMapsAgree ==
  ASSUME NEW CONSTANT mails, NEW CONSTANT files, NEW CONSTANT letters,
         NEW CONSTANT rooms0, NEW CONSTANT limits,
         \A file \in files : WellFormed(file)
  PROVE  ExtractorInit(mails) /\ RoomInit(files) /\ PostingInit(letters, rooms0, limits)
         /\ [][Next]_vars => []RoomsAgree
<1>1. RoomInit(files) => RoomInv
  BY DEF RoomInit, RoomInv, NoRooms
<1>2. RoomInv => RoomsAgree
  BY DEF RoomInv, RoomsAgree, RoomsLoaded
<1> QED
  BY <1>1, RoomStep, <1>2, PTL
-----------------------------------------------------------------------------
ThreadInv ==
    /\ RoomInv
    /\ thread = [room |-> thread.room, head |-> thread.head, new |-> thread.new,
                 redacted |-> thread.redacted, first |-> thread.first]
    /\ RoomIsConfigured

\* Whichever rule decides, its room was collected when the file was loaded.
LEMMA RoomOfARule ==
  ASSUME NEW mailbox, NEW addrFrom, NEW addrTo,
         NEW room \in DetermineMatrixRoom(mailbox, addrFrom, addrTo)
  PROVE  room \in RuleRooms \cup {DefaultRoomId}
<1>1. \A kind \in RuleKinds : \A s :
        MatchRoomsRegexps(kind, s) \subseteq RuleRooms
  BY DEF MatchRoomsRegexps, RuleRooms
<1> QED
  BY <1>1 DEF DetermineMatrixRoom, RuleKinds

LEMMA ThreadStep == ThreadInv /\ [Next]_vars => ThreadInv'
<1> SUFFICES ASSUME ThreadInv, [Next]_vars PROVE ThreadInv'
  OBVIOUS
<1>1. RoomInv'
  BY RoomStep DEF ThreadInv
<1>2. CASE CreateThread
  <2>1. PICK room \in IF thread.room # "" THEN {thread.room}
                      ELSE DetermineMatrixRoom(letter.mailbox, letter.from, letter.to) :
            thread' = [thread EXCEPT !.room = room, !.head = TRUE,
                                     !.new = @ \/ thread.room = "",
                                     !.first = IF @ = "" THEN room ELSE @]
    BY <1>2 DEF CreateThread, PostHead
  <2>2. /\ rooms' = rooms
        /\ RuleRooms \cup {DefaultRoomId} \subseteq rooms.all \cap rooms.target
    BY <1>2
    DEF CreateThread, Ready, RoomsLoaded, ThreadInv, RoomInv, TargetsKnown,
        roomVars
  <2>3. /\ thread' = [room |-> room, head |-> TRUE,
                      new |-> thread.new \/ thread.room = "",
                      redacted |-> thread.redacted,
                      first |-> IF thread.room = "" THEN room ELSE thread.room]
    BY <2>1 DEF ThreadInv, RoomIsConfigured
  <2>4. CASE thread.room # ""
    BY <1>1, <2>1, <2>2, <2>3, <2>4 DEF ThreadInv, RoomIsConfigured
  <2>5. CASE thread.room = ""
    <3>1. room \in RuleRooms \cup {DefaultRoomId}
      BY <2>1, <2>5, RoomOfARule
    <3> QED
      BY <1>1, <2>2, <2>3, <3>1 DEF ThreadInv, RoomIsConfigured
  <2> QED
    BY <2>4, <2>5
<1>3. CASE HeadRedacted
  BY <1>1, <1>3 DEF HeadRedacted, ThreadInv, RoomIsConfigured, roomVars
<1>4. CASE LoadRooms /\ UNCHANGED thread
  <2>1. CASE LoadRules
    <3>1. rooms = NoRooms
      BY <2>1 DEF LoadRules, ThreadInv, RoomInv
    <3>2. ~thread.new
      BY <3>1 DEF ThreadInv, RoomIsConfigured, NoRooms
    <3> QED
      BY <1>1, <1>4, <3>2 DEF ThreadInv, RoomIsConfigured
  <2>2. ASSUME NEW name \in RoomNames \cup {""}, LoadOverview(name)
        PROVE  ThreadInv'
    <3>1. rooms.all \subseteq rooms'.all /\ rooms.target \subseteq rooms'.target
      BY <2>2 DEF LoadOverview, ThreadInv, RoomInv
    <3> QED
      BY <1>1, <1>4, <3>1 DEF ThreadInv, RoomIsConfigured
  <2>3. CASE Invert
    <3>1. rooms.all = rooms'.all /\ rooms.target = rooms'.target
      BY <2>3 DEF Invert, ThreadInv, RoomInv
    <3> QED
      BY <1>1, <1>4, <3>1 DEF ThreadInv, RoomIsConfigured
  <2> QED
    BY <1>4, <2>1, <2>2, <2>3 DEF LoadRooms
<1>5. CASE UNCHANGED <<rooms, thread>>
  BY <1>1, <1>5 DEF ThreadInv, RoomIsConfigured
<1>6. \/ AddReply \/ AddReplyPanics \/ SendThreadMessage \/ TruncateLarge
      \/ CreateThreadPanics \/ SendFails
      => UNCHANGED <<rooms, thread>>
  BY DEF AddReply, AddReplyPanics, SendThreadMessage, TruncateLarge,
         CreateThreadPanics, SendFails, roomVars
<1> QED
  BY <1>2, <1>3, <1>4, <1>5, <1>6
  DEF Next, Posting, PostingStep, vars, roomVars

\* A thread stays in its first room, however often its head has to be posted
\* again, and a new one is in a room that was loaded from the configuration and
\* that an overview of all rooms shows, for every configuration and every mail.
THEOREM NewThreadsAreShown ==
  ASSUME NEW CONSTANT mails, NEW CONSTANT files, NEW CONSTANT letters,
         NEW CONSTANT rooms0, NEW CONSTANT limits,
         \A file \in files : WellFormed(file)
  PROVE  ExtractorInit(mails) /\ RoomInit(files) /\ PostingInit(letters, rooms0, limits)
         /\ [][Next]_vars => []RoomIsConfigured
<1>1. RoomInit(files) /\ PostingInit(letters, rooms0, limits) => ThreadInv
  <2> SUFFICES ASSUME RoomInit(files), PostingInit(letters, rooms0, limits)
               PROVE  ThreadInv
    OBVIOUS
  <2>1. RoomInv
    BY DEF RoomInit, RoomInv, NoRooms
  <2>2. PICK r \in rooms0 :
            thread = [room |-> r, head |-> r # "", new |-> FALSE, redacted |-> 0,
                      first |-> r]
    BY DEF PostingInit
  <2> QED
    BY <2>1, <2>2 DEF ThreadInv, RoomIsConfigured
<1>2. ThreadInv => RoomIsConfigured
  BY DEF ThreadInv
<1> QED
  BY <1>1, ThreadStep, <1>2, PTL
-----------------------------------------------------------------------------
\* The reply while it is being sent: what is left of it are its first lines, and
\* if it was cut, it was cut last at a size that was too large.
CutSoFar ==
    /\ Len(posting.lines) \in 0 .. Len(posting.whole)
    /\ posting.lines = SubSeq(posting.whole, 1, Len(posting.lines))
    /\ ~posting.warned => posting.lines = posting.whole
    /\ posting.warned =>
        /\ Len(posting.whole) > posting.limit
        /\ \E n \in Len(posting.lines) + 1 .. Len(posting.whole) :
            /\ n - Len(posting.lines) <= Max({1, n \div 10})
            /\ n + (IF n = Len(posting.whole) THEN 0 ELSE 2) > posting.limit

CutInv(chunks) ==
    /\ posting = [pc |-> posting.pc, whole |-> posting.whole,
                  lines |-> posting.lines, warned |-> posting.warned,
                  limit |-> posting.limit]
    /\ posting.limit \in Nat /\ posting.warned \in BOOLEAN
    /\ posting.pc \in {"send", "posted"} /\ posting.whole \in Seq(chunks) => CutSoFar
    /\ posting.pc = "posted" => Size <= posting.limit

LEMMA MaxOfTwo ==
  ASSUME NEW a \in Nat, NEW b \in Nat
  PROVE  Max({a, b}) = IF a >= b THEN a ELSE b
BY DEF Max

\* The first lines of the first lines are first lines.
LEMMA PrefixOfPrefix ==
  ASSUME NEW S, NEW s \in Seq(S), NEW n \in 0 .. Len(s), NEW k \in 0 .. n
  PROVE  /\ SubSeq(s, 1, n) \in Seq(S) /\ Len(SubSeq(s, 1, n)) = n
         /\ SubSeq(SubSeq(s, 1, n), 1, k) = SubSeq(s, 1, k)
<1>1. SubSeq(s, 1, n) \in Seq(S) /\ Len(SubSeq(s, 1, n)) = n
  BY LenProperties, SubSeqProperties
<1>2. SubSeq(s, 1, k) \in Seq(S) /\ Len(SubSeq(s, 1, k)) = k
  BY LenProperties, SubSeqProperties
<1>3. /\ SubSeq(SubSeq(s, 1, n), 1, k) \in Seq(S)
      /\ Len(SubSeq(SubSeq(s, 1, n), 1, k)) = k
  BY <1>1, LenProperties, SubSeqProperties
<1>4. \A i \in 1 .. k : SubSeq(SubSeq(s, 1, n), 1, k)[i] = SubSeq(s, 1, k)[i]
  BY <1>1, <1>2, <1>3, LenProperties
<1> QED
  BY <1>1, <1>2, <1>3, <1>4, SeqEqual

\* What one cut leaves of n lines
LEMMA LessLines ==
  ASSUME NEW n \in Nat, n > 0
  PROVE  /\ Max({1, n \div 10}) \in 1 .. n
         /\ n - Max({1, n \div 10}) \in 0 .. n - 1
<1>1. n \div 10 \in Nat /\ n \div 10 <= n
  OBVIOUS
<1> QED
  BY <1>1, MaxOfTwo

LEMMA TruncateKeeps ==
  ASSUME NEW chunks, CutInv(chunks), TruncateLarge
  PROVE  CutInv(chunks)'
<1> DEFINE n == Len(posting.lines)
           k == n - Max({1, n \div 10})
<1>1. posting' = [pc |-> "send", whole |-> posting.whole,
                  lines |-> SubSeq(posting.lines, 1, k), warned |-> TRUE,
                  limit |-> posting.limit]
  BY DEF CutInv, TruncateLarge, TruncateLines
<1>2. /\ posting.limit \in Nat /\ posting.warned \in BOOLEAN
      /\ n + (IF posting.warned THEN 2 ELSE 0) > posting.limit
  BY DEF CutInv, TruncateLarge, Size
<1>3. ASSUME posting.whole \in Seq(chunks) PROVE CutSoFar'
  <2>1. /\ CutSoFar /\ Len(posting.whole) \in Nat /\ n \in 0 .. Len(posting.whole)
        /\ posting.lines = SubSeq(posting.whole, 1, n)
    BY <1>3, LenProperties DEF CutInv, TruncateLarge, CutSoFar
  <2>2. CASE n = 0
    <3>1. posting.warned
      BY <1>2, <2>1, <2>2 DEF CutSoFar
    <3>2. Max({1, n \div 10}) = 1
      BY <2>2, MaxOfTwo
    <3>3. SubSeq(posting.lines, 1, k) = <<>> /\ posting.lines = <<>>
      BY <2>1, <2>2, <3>2, SubSeqEmpty
    <3> QED
      BY <1>1, <2>1, <2>2, <3>1, <3>3 DEF CutSoFar
  <2>3. CASE n # 0
    <3>1. k = n - Max({1, n \div 10})
      OBVIOUS
    <3>2. IF posting.warned THEN n < Len(posting.whole) ELSE n = Len(posting.whole)
      <4>1. CASE posting.warned
        <5> HIDE DEF n, k
        <5>1. \E j \in n + 1 .. Len(posting.whole) : TRUE
          BY <2>1, <4>1 DEF CutSoFar, n
        <5> QED
          BY <2>1, <4>1, <5>1
      <4>2. CASE ~posting.warned
        BY <2>1, <4>2 DEF CutSoFar
      <4> QED
        BY <4>1, <4>2
    <3>3. Len(posting.whole) > posting.limit
      <4>1. CASE posting.warned
        BY <2>1, <4>1 DEF CutSoFar
      <4>2. CASE ~posting.warned
        BY <1>2, <3>2, <4>2
      <4> QED
        BY <4>1, <4>2
    <3> HIDE DEF n, k
    <3>4. n \in Nat /\ n > 0
      BY <2>1, <2>3
    <3>5. Max({1, n \div 10}) \in 1 .. n /\ k \in 0 .. n - 1
      BY <3>1, <3>4, LessLines
    <3>6. /\ SubSeq(posting.lines, 1, k) = SubSeq(posting.whole, 1, k)
          /\ Len(SubSeq(posting.whole, 1, k)) = k
      <4>1. k \in 0 .. n /\ k \in 0 .. Len(posting.whole)
        BY <2>1, <3>4, <3>5
      <4> QED
        BY <1>3, <2>1, <4>1, PrefixOfPrefix
    <3>7. n + (IF n = Len(posting.whole) THEN 0 ELSE 2) > posting.limit
      BY <1>2, <2>1, <3>2, <3>4
    <3>8. /\ n \in k + 1 .. Len(posting.whole) /\ n - k <= Max({1, n \div 10})
          /\ k \in 0 .. Len(posting.whole)
      BY <2>1, <3>1, <3>4, <3>5
    <3>9. /\ posting'.whole = posting.whole /\ posting'.limit = posting.limit
          /\ posting'.lines = SubSeq(posting.whole, 1, k) /\ Len(posting'.lines) = k
          /\ posting'.warned = TRUE
      BY <1>1, <3>6
    <3> QED
      BY <3>3, <3>7, <3>8, <3>9 DEF CutSoFar
  <2> QED
    BY <2>2, <2>3
<1> QED
  BY <1>1, <1>2, <1>3 DEF CutInv

LEMMA CutStep ==
  ASSUME NEW chunks, CutInv(chunks), [Next]_vars
  PROVE  CutInv(chunks)'
<1>1. CASE TruncateLarge
  BY <1>1, TruncateKeeps
<1>2. CASE AddReply
  <2> DEFINE lines == HeaderLines \o ContentLines
  <2>1. posting' = [pc |-> "send", whole |-> lines, lines |-> lines,
                    warned |-> FALSE, limit |-> posting.limit]
    BY <1>2 DEF AddReply, CutInv
  <2> HIDE DEF lines
  <2>2. ASSUME lines \in Seq(chunks) PROVE CutSoFar'
    BY <2>1, <2>2, LenProperties, SubSeqFull DEF CutSoFar
  <2> QED
    BY <2>1, <2>2 DEF CutInv
<1>3. CASE SendThreadMessage
  BY <1>3 DEF SendThreadMessage, CutInv, CutSoFar, Size
<1>4. CASE HeadRedacted \/ SendFails \/ AddReplyPanics \/ CreateThreadPanics
  BY <1>4 DEF HeadRedacted, SendFails, AddReplyPanics, CreateThreadPanics, CutInv
<1>5. CASE UNCHANGED posting
  BY <1>5 DEF CutInv, CutSoFar, Size
<1> QED
  BY <1>1, <1>2, <1>3, <1>4, <1>5
  DEF Next, Posting, PostingStep, CreateThread, vars

LEMMA CutInit ==
  ASSUME NEW chunks, NEW letters, NEW rooms0, NEW limits, limits \subseteq Nat,
         PostingInit(letters, rooms0, limits)
  PROVE  CutInv(chunks)
<1>1. PICK limit \in limits :
        posting = [pc |-> "wait", whole |-> <<>>, lines |-> <<>>,
                   warned |-> FALSE, limit |-> limit]
  BY DEF PostingInit
<1> QED
  BY <1>1 DEF CutInv

LEMMA PostedIsCut ==
  ASSUME NEW chunks, CutInv(chunks), posting.whole \in Seq(chunks)
  PROVE  CutLittle
<1> SUFFICES ASSUME posting.pc = "posted"
             PROVE  CutLittle
  BY DEF CutLittle
<1>1. CutSoFar /\ Len(posting.whole) \in Nat /\ posting.limit \in Nat
  BY LenProperties DEF CutInv
<1>2. Len(posting.lines) + (IF posting.warned THEN 2 ELSE 0) <= posting.limit
  BY DEF CutInv, Size
<1>3. posting.warned <=> Len(posting.whole) > posting.limit
  BY <1>1, <1>2 DEF CutSoFar, CutInv
<1>4. IsPrefix(posting.lines, posting.whole)
  <2>1. SubSeq(posting.lines, 1, Len(posting.lines)) = posting.lines
    BY <1>1, PrefixOfPrefix DEF CutSoFar
  <2> QED
    BY <1>1, <2>1 DEF CutSoFar, IsPrefix
<1> QED
  BY <1>1, <1>3, <1>4 DEF CutSoFar, CutLittle

\* A reply that is a sequence of chunks, whatever these are, is posted whole if
\* it fits; otherwise it loses lines at its end only, a tenth of them at a time,
\* and no more than the limit of the server requires.
THEOREM RepliesAreCutLittle ==
  ASSUME NEW CONSTANT mails, NEW CONSTANT files, NEW CONSTANT letters,
         NEW CONSTANT rooms0, NEW CONSTANT limits, NEW CONSTANT chunks,
         limits \subseteq Nat
  PROVE  ExtractorInit(mails) /\ RoomInit(files) /\ PostingInit(letters, rooms0, limits)
         /\ [][Next]_vars => [](posting.whole \in Seq(chunks) => CutLittle)
<1>1. PostingInit(letters, rooms0, limits) => CutInv(chunks)
  BY CutInit
<1>2. CutInv(chunks) /\ [Next]_vars => CutInv(chunks)'
  BY CutStep
<1>3. CutInv(chunks) => (posting.whole \in Seq(chunks) => CutLittle)
  BY PostedIsCut
<1> QED
  BY <1>1, <1>2, <1>3, PTL
-----------------------------------------------------------------------------
\* Induction over the numbers: a set that has 0 and every successor has them all.
LEMMA SetInduction ==
  ASSUME NEW S, 0 \in S, \A n \in Nat : n \in S => n + 1 \in S
  PROVE  Nat \subseteq S
<1> DEFINE R == OpToRel(<, Nat)
<1>1. IsWellFoundedOn(R, Nat)
  BY NatLessThanWellFounded
<1>2. SUFFICES ASSUME Nat \ S # {} PROVE FALSE
  OBVIOUS
<1> HIDE DEF R
<1>3. PICK x \in Nat \ S : \A y \in Nat \ S : ~(<<y, x>> \in R)
  BY <1>1, <1>2, WFMin
<1>4. \A y \in Nat : y < x => <<y, x>> \in R
  BY <1>3 DEF OpToRel, R
<1>5. x # 0 /\ x - 1 \in Nat /\ x - 1 < x
  BY <1>3
<1>6. x - 1 \in S
  BY <1>3, <1>4, <1>5
<1>7. x - 1 + 1 \in S
  BY <1>5, <1>6
<1>8. x - 1 + 1 = x
  BY <1>3
<1> QED
  BY <1>3, <1>7, <1>8

LEMMA LeastNumber ==
  ASSUME NEW S \in SUBSET Nat, S # {}
  PROVE  Min(S) \in S /\ \A i \in S : Min(S) <= i
<1> DEFINE R == OpToRel(<, Nat)
<1>1. IsWellFoundedOn(R, Nat)
  BY NatLessThanWellFounded
<1> HIDE DEF R
<1>2. PICK x \in S : \A y \in S : ~(<<y, x>> \in R)
  BY <1>1, WFMin
<1>3. \A y \in Nat : y < x => <<y, x>> \in R
  BY <1>2 DEF OpToRel, R
<1>4. \A y \in S : x <= y
  <2>1. \A y \in S : y \in Nat /\ x \in Nat
    BY <1>2
  <2>2. \A y \in S : ~(y < x)
    BY <1>2, <1>3, <2>1
  <2> QED
    BY <2>1, <2>2
<1> QED
  BY <1>2, <1>4 DEF Min

UpTo(S, i) == {j \in S : j <= i}

\* Every place up to the number of elements has its element.
LEMMA Counted ==
  \A n \in Nat : \A S \in SUBSET (1 .. n) :
    /\ IsFiniteSet(S) /\ Cardinality(S) \in Nat
    /\ \A k \in 1 .. Cardinality(S) : \E i \in S : Cardinality(UpTo(S, i)) = k
<1> DEFINE Places(S) ==
             \A k \in 1 .. Cardinality(S) : \E i \in S : Cardinality(UpTo(S, i)) = k
           Good == {n \in Nat : \A S \in SUBSET (1 .. n) : Places(S)}
<1>1. \A n \in Nat : \A S \in SUBSET (1 .. n) : IsFiniteSet(S) /\ Cardinality(S) \in Nat
  <2> SUFFICES ASSUME NEW n \in Nat, NEW S \in SUBSET (1 .. n)
               PROVE  IsFiniteSet(S) /\ Cardinality(S) \in Nat
    OBVIOUS
  <2>1. IsFiniteSet(1 .. n)
    BY FS_Interval
  <2>2. IsFiniteSet(S)
    BY <2>1, FS_Subset
  <2> QED
    BY <2>2, FS_CardinalityType
<1>2. 0 \in Good
  <2>1. \A S \in SUBSET (1 .. 0) : S = {}
    OBVIOUS
  <2>2. Cardinality({}) = 0
    BY FS_EmptySet
  <2>3. Places({})
    BY <2>2
  <2> QED
    BY <2>1, <2>3
<1>3. ASSUME NEW n \in Nat, n \in Good PROVE n + 1 \in Good
  <2>1. ASSUME NEW S \in SUBSET (1 .. n + 1) PROVE Places(S)
    <3>1. CASE n + 1 \notin S
      <4>1. S \in SUBSET (1 .. n)
        BY <3>1
      <4> QED
        BY <1>3, <4>1
    <3>2. CASE n + 1 \in S
      <4> DEFINE T == S \ {n + 1}
      <4>1. T \in SUBSET (1 .. n) /\ T = S \ {n + 1}
        OBVIOUS
      <4> HIDE DEF T
      <4>2. Places(T)
        BY <1>3, <4>1
      <4>3. /\ Cardinality(S) \in Nat /\ Cardinality(T) \in Nat
            /\ Cardinality(T) = Cardinality(S) - 1
        <5>1. IsFiniteSet(S) /\ Cardinality(S) \in Nat
          BY <1>1, n + 1 \in Nat
        <5>2. Cardinality(T) \in Nat
          BY <1>1, <4>1
        <5>3. Cardinality(T) = Cardinality(S) - 1
          BY <3>2, <4>1, <5>1, FS_RemoveElement
        <5> QED
          BY <5>1, <5>2, <5>3
      <4>4. \A i \in T : UpTo(S, i) = UpTo(T, i)
        BY <4>1 DEF UpTo
      <4>5. UpTo(S, n + 1) = S
        <5>1. \A j \in S : j <= n + 1
          OBVIOUS
        <5> QED
          BY <5>1 DEF UpTo
      <4>6. ASSUME NEW k \in 1 .. Cardinality(S)
            PROVE  \E i \in S : Cardinality(UpTo(S, i)) = k
        <5>1. CASE k = Cardinality(S)
          BY <3>2, <4>5, <5>1
        <5>2. CASE k # Cardinality(S)
          <6>1. k \in 1 .. Cardinality(T)
            BY <4>3, <5>2
          <6>2. PICK i \in T : Cardinality(UpTo(T, i)) = k
            BY <4>2, <6>1
          <6>3. i \in S
            BY <4>1, <6>2
          <6> QED
            BY <4>4, <6>2, <6>3
        <5> QED
          BY <5>1, <5>2
      <4> QED
        BY <4>6
    <3> QED
      BY <3>1, <3>2
  <2> QED
    BY <2>1
<1>4. Nat \subseteq Good
  <2> HIDE DEF Good
  <2> QED
    BY <1>2, <1>3, SetInduction
<1> QED
  BY <1>1, <1>4

\* Ordered enumerates a set of numbers in ascending order.
LEMMA OrderedEnumerates ==
  ASSUME NEW n \in Nat, NEW S \in SUBSET (1 .. n)
  PROVE  /\ Cardinality(S) \in Nat /\ DOMAIN Ordered(S) = 1 .. Cardinality(S)
         /\ \A k \in 1 .. Cardinality(S) : Ordered(S)[k] \in S
         /\ \A k, l \in 1 .. Cardinality(S) : k < l => Ordered(S)[k] < Ordered(S)[l]
         /\ \A i \in S : \E k \in 1 .. Cardinality(S) : Ordered(S)[k] = i
<1> DEFINE N == Cardinality(S)
<1>1. /\ IsFiniteSet(S) /\ N \in Nat
      /\ \A k \in 1 .. N : \E i \in S : Cardinality(UpTo(S, i)) = k
  BY Counted
<1>2. /\ DOMAIN Ordered(S) = 1 .. N
      /\ \A k \in 1 .. N : Ordered(S)[k] = CHOOSE i \in S : Cardinality(UpTo(S, i)) = k
  BY DEF Ordered, UpTo
<1>3. \A k \in 1 .. N : /\ Ordered(S)[k] \in S
                        /\ Cardinality(UpTo(S, Ordered(S)[k])) = k
  <2> SUFFICES ASSUME NEW k \in 1 .. N
               PROVE  /\ Ordered(S)[k] \in S
                      /\ Cardinality(UpTo(S, Ordered(S)[k])) = k
    OBVIOUS
  <2> HIDE DEF N
  <2>1. \E i \in S : Cardinality(UpTo(S, i)) = k
    BY <1>1
  <2>2. Ordered(S)[k] = CHOOSE i \in S : Cardinality(UpTo(S, i)) = k
    BY <1>2
  <2> QED
    BY <2>1, <2>2
<1>4. ASSUME NEW i \in S, NEW j \in S, i <= j
      PROVE  /\ Cardinality(UpTo(S, i)) \in 1 .. N
             /\ Cardinality(UpTo(S, i)) <= Cardinality(UpTo(S, j))
             /\ Cardinality(UpTo(S, i)) = Cardinality(UpTo(S, j)) => i = j
  <2>1. UpTo(S, i) \subseteq UpTo(S, j) /\ UpTo(S, j) \subseteq S
    <3>1. \A k \in S : k \in Nat
      OBVIOUS
    <3>2. \A k \in S : k <= i => k <= j
      BY <1>4, <3>1
    <3> QED
      BY <3>2 DEF UpTo
  <2>2. IsFiniteSet(UpTo(S, i)) /\ IsFiniteSet(UpTo(S, j))
    BY <1>1, <2>1, FS_Subset
  <2>3. /\ Cardinality(UpTo(S, i)) <= Cardinality(UpTo(S, j))
        /\ Cardinality(UpTo(S, j)) <= N
        /\ Cardinality(UpTo(S, i)) = Cardinality(UpTo(S, j)) => UpTo(S, i) = UpTo(S, j)
    BY <1>1, <2>1, <2>2, FS_Subset
  <2>4. /\ Cardinality(UpTo(S, i)) \in Nat /\ Cardinality(UpTo(S, j)) \in Nat
        /\ Cardinality(UpTo(S, i)) # 0
    <3>1. i \in UpTo(S, i)
      BY DEF UpTo
    <3> QED
      BY <2>2, <3>1, FS_CardinalityType, FS_EmptySet
  <2>5. UpTo(S, i) = UpTo(S, j) => i = j
    BY <1>4 DEF UpTo
  <2> QED
    BY <1>1, <2>3, <2>4, <2>5
<1>5. ASSUME NEW k \in 1 .. N, NEW l \in 1 .. N, k < l
      PROVE  Ordered(S)[k] < Ordered(S)[l]
  <2> DEFINE i == Ordered(S)[k]
             j == Ordered(S)[l]
  <2>1. /\ i \in S /\ j \in S
        /\ Cardinality(UpTo(S, i)) = k /\ Cardinality(UpTo(S, j)) = l
    BY <1>3
  <2> HIDE DEF i, j
  <2>2. ~(j <= i)
    BY <1>1, <1>4, <1>5, <2>1
  <2>3. i < j
    BY <2>1, <2>2
  <2> QED
    BY <2>3 DEF i, j
<1>6. ASSUME NEW i \in S PROVE \E k \in 1 .. N : Ordered(S)[k] = i
  <2> DEFINE k == Cardinality(UpTo(S, i))
             j == Ordered(S)[k]
  <2>1. k \in 1 .. N
    BY <1>4
  <2>2. j \in S /\ Cardinality(UpTo(S, j)) = k
    BY <1>3, <2>1
  <2> HIDE DEF j
  <2>3. i \in Nat /\ j \in Nat
    BY <2>2
  <2>4. i <= j \/ j <= i
    BY <2>3
  <2>5. j = i
    BY <1>4, <2>2, <2>4
  <2> QED
    BY <2>1, <2>5 DEF j
<1> QED
  BY <1>1, <1>2, <1>3, <1>5, <1>6
-----------------------------------------------------------------------------
\* A message of the answer is as it was answered, and no placeholder; in the
\* place of one there may be the text of a mail that was replaced.
FromAnswer(message) ==
    /\ message.place \in DOMAIN answer.messages
    /\ ~IsPlaceholder(message.content)
    /\ IF IsPlaceholder(answer.messages[message.place])
       THEN /\ answer.forwarded
            /\ \E o \in extractor.removed : message.content = FirstText(o)
       ELSE message.content = answer.messages[message.place]

\* These are the messages of the answer, each once, in its order from the one at
\* `first`, and none but placeholders is missing.
Kept(messages, first) ==
    /\ DOMAIN answer.messages \subseteq Nat
    /\ messages \in Seq(Range(messages))
    /\ \A i \in 1 .. Len(messages) : FromAnswer(messages[i])
    /\ \A i, j \in 1 .. Len(messages) : messages[i].place = messages[j].place => i = j
    /\ \A i, j \in first .. Len(messages) :
        i < j => messages[i].place < messages[j].place
    /\ \A k \in DOMAIN answer.messages :
        ~IsPlaceholder(answer.messages[k]) =>
            \E i \in 1 .. Len(messages) : messages[i].place = k

\* Of the messages that have been compared, one that is known is like an older
\* mail; an older mail like one that is not known has been found in another.
Compared ==
    /\ extractor.next \in 1 .. Len(result) + 1
    /\ extractor.known \subseteq 1 .. extractor.next - 1
    /\ \A i \in 1 .. extractor.next - 1 :
        IF i \in extractor.known
        THEN \E o \in Recognizable : SameText(result[i].content, o)
        ELSE \A o \in Recognizable :
                SameText(result[i].content, o) => o \in extractor.oldKnown
    /\ \A o \in extractor.oldKnown :
        \E i \in extractor.known : SameText(result[i].content, o)

NewText(k) ==
    /\ ~IsPlaceholder(answer.messages[k])
    /\ \A o \in Recognizable : ~SameText(answer.messages[k], o)

Doubled(k) ==
    \A o \in Recognizable :
        SameText(answer.messages[k], o) =>
            \E l \in DOMAIN answer.messages \ {k} : SameText(answer.messages[l], o)

\* What NewTextPosted says of a message is true of the first one.
FirstIsNew ==
    (\E k \in DOMAIN answer.messages : NewText(k)) =>
        \E k \in DOMAIN answer.messages :
            /\ result # <<>> /\ result[1].content = answer.messages[k]
            /\ Doubled(k)

AsAnswered ==
    \E n \in Nat :
        /\ DOMAIN answer.messages = 1 .. n
        /\ result = [i \in 1 .. n |-> Message(i, answer.messages[i])]

ExtractionInv ==
    /\ extractor = [pc |-> extractor.pc, body |-> extractor.body,
                    left |-> extractor.left, removed |-> extractor.removed,
                    similar |-> extractor.similar, next |-> extractor.next,
                    known |-> extractor.known, oldKnown |-> extractor.oldKnown]
    /\ EAt("begin") => answer = NoAnswer
    /\ extractor.pc \in {"begin", "replace", "restore"} =>
        extractor.next = 1 /\ extractor.known = {} /\ extractor.oldKnown = {}
    /\ EAt("restore") => AsAnswered
    /\ EAt("detect") => Kept(result, 1) /\ Compared
    /\ EAt("done") /\ answer # NoAnswer =>
        Kept(result, 2) /\ (~answer.forwarded => FirstIsNew)
-----------------------------------------------------------------------------
\* What the answer and the older mails say does not depend on what is compared.
LEMMA SameAnswer ==
  ASSUME mail' = mail, answer' = answer,
         extractor'.removed = extractor.removed,
         extractor'.similar = extractor.similar
  PROVE  /\ \A text : IsPlaceholder(text)' <=> IsPlaceholder(text)
         /\ \A text, o : SameText(text, o)' <=> SameText(text, o)
         /\ Recognizable' = Recognizable
         /\ \A message : FromAnswer(message)' <=> FromAnswer(message)
<1>1. /\ \A text : IsPlaceholder(text)' <=> IsPlaceholder(text)
      /\ \A text, o : SameText(text, o)' <=> SameText(text, o)
      /\ Recognizable' = Recognizable
  BY DEF IsPlaceholder, Placeholder, SameText, FirstText, Recognizable, Extracted
<1>2. ASSUME NEW message PROVE FromAnswer(message)' <=> FromAnswer(message)
  BY <1>1 DEF FromAnswer, FirstText
<1> QED
  BY <1>1, <1>2

\* The texts that stand for the answer, once the placeholders are deleted
LEMMA WithoutPlaceholdersKeeps ==
  ASSUME NEW n \in Nat, DOMAIN answer.messages = 1 .. n,
         NEW s, DOMAIN s = 1 .. n,
         \A i \in 1 .. n :
            /\ s[i].place = i
            /\ \/ IsPlaceholder(answer.messages[i]) /\ IsPlaceholder(s[i].content)
               \/ FromAnswer(s[i])
  PROVE  Kept(WithoutPlaceholders(s), 1)
<1> DEFINE kept == {i \in DOMAIN s : ~IsPlaceholder(s[i].content)}
           order == Ordered(kept)
           N == Cardinality(kept)
           t == WithoutPlaceholders(s)
<1>1. kept \in SUBSET (1 .. n) /\ \A i \in kept : FromAnswer(s[i]) /\ s[i].place = i
  OBVIOUS
<1>2. \A i \in 1 .. n : FromAnswer(s[i]) => i \in kept
  BY DEF FromAnswer
<1>3. t = [k \in DOMAIN order |-> s[order[k]]]
  BY DEF WithoutPlaceholders
<1> HIDE DEF kept, t
<1>4. /\ N \in Nat /\ DOMAIN order = 1 .. N
      /\ \A k \in 1 .. N : order[k] \in kept
      /\ \A k, l \in 1 .. N : k < l => order[k] < order[l]
      /\ \A i \in kept : \E k \in 1 .. N : order[k] = i
  BY <1>1, OrderedEnumerates
<1> HIDE DEF order, N
<1>5. /\ t \in [1 .. N -> Range(t)]
      /\ \A k \in 1 .. N : t[k] = s[order[k]]
  BY <1>3, <1>4 DEF Range
<1>6. t \in Seq(Range(t)) /\ Len(t) = N
  <2>1. t \in Seq(Range(t))
    BY <1>4, <1>5, SeqDef
  <2> QED
    BY <1>4, <1>5, <2>1, LenProperties
<1>7. \A k \in 1 .. N : /\ FromAnswer(t[k]) /\ t[k].place = order[k]
                        /\ order[k] \in 1 .. n
  BY <1>1, <1>4, <1>5
<1>8. ASSUME NEW k \in 1 .. N, NEW l \in 1 .. N, t[k].place = t[l].place
      PROVE  k = l
  <2>1. order[k] = order[l] /\ order[k] \in Nat
    BY <1>7, <1>8
  <2>2. ~(k < l) /\ ~(l < k)
    BY <1>4, <2>1
  <2> QED
    BY <1>4, <2>2
<1>9. ASSUME NEW k \in DOMAIN answer.messages, ~IsPlaceholder(answer.messages[k])
      PROVE  \E i \in 1 .. N : t[i].place = k
  <2>1. k \in kept
    BY <1>2, <1>9
  <2> QED
    BY <1>4, <1>7, <2>1
<1>10. \A k, l \in 1 .. N : k < l => t[k].place < t[l].place
  BY <1>4, <1>7
<1>11. Kept(t, 1)
  BY <1>6, <1>7, <1>8, <1>9, <1>10 DEF Kept
<1> QED
  BY <1>11 DEF t

LEMMA RestoreKeeps ==
  ASSUME ExtractionInv, RestoreMessage
  PROVE  Kept(result, 1)'
<1> DEFINE gaps == {i \in DOMAIN result : IsPlaceholder(result[i].content)}
<1>1. PICK n \in Nat :
        /\ DOMAIN answer.messages = 1 .. n
        /\ result = [i \in 1 .. n |-> Message(i, answer.messages[i])]
  BY DEF ExtractionInv, RestoreMessage, AsAnswered
<1>2. /\ DOMAIN result = 1 .. n
      /\ \A i \in 1 .. n : result[i] = [place |-> i, content |-> answer.messages[i]]
  BY <1>1 DEF Message
<1>3. \A i \in 1 .. n : ~IsPlaceholder(result[i].content) => FromAnswer(result[i])
  <2> SUFFICES ASSUME NEW i \in 1 .. n, ~IsPlaceholder(result[i].content)
               PROVE  FromAnswer(result[i])
    OBVIOUS
  <2>1. result[i].place = i /\ result[i].content = answer.messages[i]
    BY <1>2
  <2>2. ~IsPlaceholder(answer.messages[i])
    BY <2>1
  <2> QED
    BY <1>1, <2>1, <2>2 DEF FromAnswer
<1>4. Kept(result', 1)
  <2>1. CASE answer.forwarded /\ gaps # {} /\ extractor.removed # {}
    <3> DEFINE g == Min(gaps)
    <3>1. PICK o \in extractor.removed :
            result' = WithoutPlaceholders([result EXCEPT ![g].content = FirstText(o)])
      BY <2>1 DEF RestoreMessage
    <3>2. g \in 1 .. n /\ IsPlaceholder(answer.messages[g])
      <4>1. gaps \in SUBSET Nat
        BY <1>2
      <4>2. g \in gaps
        BY <2>1, <4>1, LeastNumber
      <4> QED
        BY <1>2, <4>2
    <3> HIDE DEF gaps, g
    <3> DEFINE s == [result EXCEPT ![g].content = FirstText(o)]
    <3>3. /\ DOMAIN s = 1 .. n
          /\ s[g] = [place |-> g, content |-> FirstText(o)]
          /\ \A i \in 1 .. n : i # g => s[i] = result[i]
      BY <1>2, <3>2
    <3>4. result' = WithoutPlaceholders(s)
      BY <3>1
    <3> HIDE DEF s
    <3>5. s[g].place = g /\ (IsPlaceholder(s[g].content) \/ FromAnswer(s[g]))
      BY <1>1, <2>1, <3>2, <3>3 DEF FromAnswer
    <3>6. \A i \in 1 .. n :
            /\ s[i].place = i
            /\ \/ IsPlaceholder(answer.messages[i]) /\ IsPlaceholder(s[i].content)
               \/ FromAnswer(s[i])
      BY <1>2, <1>3, <3>2, <3>3, <3>5
    <3> QED
      BY <1>1, <3>3, <3>4, <3>6, WithoutPlaceholdersKeeps
  <2>2. CASE ~(answer.forwarded /\ gaps # {} /\ extractor.removed # {})
    <3>1. result' = WithoutPlaceholders(result)
      BY <2>2 DEF RestoreMessage
    <3>2. \A i \in 1 .. n :
            /\ result[i].place = i
            /\ \/ IsPlaceholder(answer.messages[i]) /\ IsPlaceholder(result[i].content)
               \/ FromAnswer(result[i])
      BY <1>2, <1>3
    <3> QED
      BY <1>1, <1>2, <3>1, <3>2, WithoutPlaceholdersKeeps
  <2> QED
    BY <2>1, <2>2
<1>5. /\ answer' = answer /\ mail' = mail
      /\ extractor'.removed = extractor.removed
      /\ extractor'.similar = extractor.similar
  BY DEF RestoreMessage, ExtractionInv
<1> QED
  BY <1>4, <1>5, SameAnswer DEF Kept

ToFront(s, m) == <<s[m]>> \o RemoveAt(s, m)

\* The elements before the one that goes to the front move back by one place.
LEMMA ToFrontMoves ==
  ASSUME NEW S, NEW s \in Seq(S), NEW m \in 1 .. Len(s)
  PROVE  LET t == ToFront(s, m)
         IN
         /\ t \in Seq(S) /\ Len(t) = Len(s)
         /\ t[1] = s[m]
         /\ \A i \in 2 .. Len(s) : t[i] = IF i <= m THEN s[i - 1] ELSE s[i]
<1> DEFINE t == ToFront(s, m)
           a == SubSeq(s, 1, m - 1)
           b == SubSeq(s, m + 1, Len(s))
           c == <<s[m]>>
           d == a \o b
<1>1. Len(s) \in Nat /\ \A i \in 1 .. Len(s) : s[i] \in S
  BY LenProperties
<1>2. /\ a \in Seq(S) /\ Len(a) = m - 1
      /\ \A i \in 1 .. m - 1 : a[i] = s[i]
  BY <1>1, SubSeqProperties
<1>3. /\ b \in Seq(S) /\ Len(b) = Len(s) - m
      /\ \A i \in 1 .. Len(s) - m : b[i] = s[m + i]
  BY <1>1, SubSeqProperties
<1>4. c \in Seq(S) /\ Len(c) = 1 /\ c[1] = s[m]
  BY <1>1
<1>5. t = c \o d
  BY DEF RemoveAt, ToFront
<1> HIDE DEF t, a, b, c
<1>6. /\ d \in Seq(S) /\ Len(d) = Len(s) - 1
      /\ \A i \in 1 .. Len(s) - 1 :
            d[i] = IF i <= m - 1 THEN a[i] ELSE b[i - (m - 1)]
  <2>1. /\ d \in Seq(S) /\ Len(d) = Len(a) + Len(b)
        /\ \A i \in 1 .. Len(a) + Len(b) :
            d[i] = IF i <= Len(a) THEN a[i] ELSE b[i - Len(a)]
    BY <1>2, <1>3, ConcatProperties
  <2>2. Len(a) = m - 1 /\ Len(a) + Len(b) = Len(s) - 1
    BY <1>1, <1>2, <1>3
  <2> QED
    BY <2>1, <2>2
<1> HIDE DEF d
<1>7. /\ t \in Seq(S) /\ Len(t) = Len(s)
      /\ \A i \in 1 .. Len(s) : t[i] = IF i <= 1 THEN c[i] ELSE d[i - 1]
  <2>1. /\ t \in Seq(S) /\ Len(t) = Len(c) + Len(d)
        /\ \A i \in 1 .. Len(c) + Len(d) :
            t[i] = IF i <= Len(c) THEN c[i] ELSE d[i - Len(c)]
    <3>1. c \in Seq(S) /\ d \in Seq(S)
      BY <1>4, <1>6
    <3> QED
      BY <1>5, <3>1, ConcatProperties
  <2>2. Len(c) = 1 /\ Len(c) + Len(d) = Len(s)
    BY <1>1, <1>4, <1>6
  <2> QED
    BY <2>1, <2>2
<1>8. t[1] = s[m]
  BY <1>1, <1>4, <1>7
<1>9. ASSUME NEW i \in 2 .. Len(s)
      PROVE  t[i] = IF i <= m THEN s[i - 1] ELSE s[i]
  <2>1. t[i] = d[i - 1] /\ i - 1 \in 1 .. Len(s) - 1
    BY <1>1, <1>7, <1>9
  <2>2. CASE i <= m
    <3>1. d[i - 1] = a[i - 1] /\ i - 1 \in 1 .. m - 1
      BY <1>6, <2>1, <2>2
    <3> QED
      BY <1>2, <2>1, <2>2, <3>1
  <2>3. CASE ~(i <= m)
    <3>1. /\ i - m \in 1 .. Len(s) - m /\ m + (i - m) = i
          /\ ~(i - 1 <= m - 1) /\ i - 1 - (m - 1) = i - m
      BY <1>1, <2>3
    <3>2. d[i - 1] = b[i - m]
      BY <1>6, <2>1, <3>1
    <3> QED
      BY <1>3, <2>1, <2>3, <3>1, <3>2
  <2> QED
    BY <2>2, <2>3
<1> QED
  BY <1>7, <1>8, <1>9 DEF t

LEMMA CompareKeeps ==
  ASSUME ExtractionInv, DetectKnown
  PROVE  Kept(result, 1)' /\ Compared'
<1> DEFINE n == extractor.next
           found == {o \in Recognizable \ extractor.oldKnown :
                        SameText(result[n].content, o)}
<1>1. /\ Kept(result, 1) /\ Compared
      /\ Len(result) \in Nat /\ n \in 1 .. Len(result)
      /\ mail' = mail /\ answer' = answer /\ result' = result
  <2>1. /\ Kept(result, 1) /\ Compared /\ n <= Len(result)
        /\ mail' = mail /\ answer' = answer /\ result' = result
    BY DEF ExtractionInv, DetectKnown, EAt
  <2>2. Len(result) \in Nat
    BY <2>1, LenProperties DEF Kept
  <2> QED
    BY <2>1, <2>2 DEF Compared
<1>2. /\ extractor'.removed = extractor.removed
      /\ extractor'.similar = extractor.similar
      /\ extractor'.next = n + 1
      /\ \/ /\ found = {}
            /\ extractor'.known = extractor.known
            /\ extractor'.oldKnown = extractor.oldKnown
         \/ \E o \in found :
            /\ extractor'.known = extractor.known \cup {n}
            /\ extractor'.oldKnown = extractor.oldKnown \cup {o}
  BY DEF ExtractionInv, DetectKnown
<1>3. /\ \A text : IsPlaceholder(text)' <=> IsPlaceholder(text)
      /\ \A text, o : SameText(text, o)' <=> SameText(text, o)
      /\ Recognizable' = Recognizable
      /\ \A message : FromAnswer(message)' <=> FromAnswer(message)
  BY <1>1, <1>2, SameAnswer
<1>5. Kept(result, 1)'
  BY <1>1, <1>3 DEF Kept
<1> HIDE DEF n
<1>6. /\ n + 1 \in 1 .. Len(result) + 1
      /\ \A i \in 1 .. n : i = n \/ i \in 1 .. n - 1
      /\ n \notin extractor.known
      /\ extractor.known \subseteq 1 .. n - 1
  BY <1>1 DEF Compared, n
<1>7. ASSUME found = {} PROVE Compared'
  <2>1. extractor'.known = extractor.known /\ extractor'.oldKnown = extractor.oldKnown
    BY <1>2, <1>7
  <2>2. \A o \in Recognizable :
            SameText(result[n].content, o) => o \in extractor.oldKnown
    BY <1>7
  <2>3. \A i \in 1 .. n :
            IF i \in extractor.known
            THEN \E o \in Recognizable : SameText(result[i].content, o)
            ELSE \A o \in Recognizable :
                    SameText(result[i].content, o) => o \in extractor.oldKnown
    BY <1>1, <1>6, <2>2 DEF Compared, n
  <2>4. n + 1 - 1 = n /\ extractor.known \subseteq 1 .. n
    BY <1>1, <1>6 DEF n
  <2>5. \A o \in extractor.oldKnown :
            \E i \in extractor.known : SameText(result[i].content, o)
    BY <1>1 DEF Compared
  <2>6. extractor'.next - 1 = n
    BY <1>1, <1>2 DEF n
  <2> QED
    BY <1>1, <1>2, <1>3, <1>6, <2>1, <2>3, <2>4, <2>5, <2>6 DEF Compared
<1>8. ASSUME NEW o \in found,
             extractor'.known = extractor.known \cup {n},
             extractor'.oldKnown = extractor.oldKnown \cup {o}
      PROVE  Compared'
  <2>1. o \in Recognizable /\ SameText(result[n].content, o)
    OBVIOUS
  <2> QED
    BY <1>1, <1>2, <1>3, <1>6, <1>8, <2>1 DEF Compared, n
<1>9. Compared'
  BY <1>2, <1>7, <1>8
<1> QED
  BY <1>5, <1>9

\* The first message that is not known is new or one of two that are alike.
LEMMA UnknownIsNew ==
  ASSUME Kept(result, 1), Compared, extractor.next > Len(result),
         ~answer.forwarded
  PROVE  /\ \A i \in 1 .. Len(result) \ extractor.known :
            /\ result[i].place \in DOMAIN answer.messages
            /\ result[i].content = answer.messages[result[i].place]
            /\ Doubled(result[i].place)
         /\ \A k \in DOMAIN answer.messages :
            NewText(k) => (1 .. Len(result)) \ extractor.known # {}
<1>1. /\ Len(result) \in Nat /\ extractor.next = Len(result) + 1
      /\ extractor.next - 1 = Len(result)
      /\ extractor.known \subseteq 1 .. Len(result)
  <2>1. Len(result) \in Nat
    BY LenProperties DEF Kept
  <2>2. extractor.next = Len(result) + 1 /\ extractor.next - 1 = Len(result)
    BY <2>1 DEF Compared
  <2> QED
    BY <2>1, <2>2 DEF Compared
<1>2. \A i \in 1 .. Len(result) :
        /\ result[i].place \in DOMAIN answer.messages
        /\ result[i].content = answer.messages[result[i].place]
  BY DEF Kept, FromAnswer
<1>3. ASSUME NEW i \in 1 .. Len(result) \ extractor.known
      PROVE  Doubled(result[i].place)
  <2> SUFFICES ASSUME NEW o \in Recognizable,
                      SameText(answer.messages[result[i].place], o)
               PROVE  \E l \in DOMAIN answer.messages \ {result[i].place} :
                        SameText(answer.messages[l], o)
    BY DEF Doubled
  <2>1. i \in 1 .. Len(result) /\ i \notin extractor.known
    OBVIOUS
  <2>2. SameText(result[i].content, o)
    BY <1>2, <2>1
  <2>3. o \in extractor.oldKnown
    BY <1>1, <2>1, <2>2 DEF Compared
  <2>4. PICK j \in extractor.known : SameText(result[j].content, o)
    BY <2>3 DEF Compared
  <2>5. j \in 1 .. Len(result) /\ j # i
    BY <1>1, <2>1
  <2>6. result[j].place # result[i].place
    BY <2>1, <2>5 DEF Kept
  <2> QED
    BY <1>2, <2>4, <2>5, <2>6
<1>4. ASSUME NEW k \in DOMAIN answer.messages, NewText(k)
      PROVE  (1 .. Len(result)) \ extractor.known # {}
  <2>1. PICK i \in 1 .. Len(result) : result[i].place = k
    BY <1>4 DEF NewText, Kept
  <2>2. \A o \in Recognizable : ~SameText(result[i].content, o)
    BY <1>2, <1>4, <2>1 DEF NewText
  <2>3. i \notin extractor.known
    BY <1>1, <2>1, <2>2 DEF Compared
  <2> QED
    BY <2>1, <2>3
<1> QED
  BY <1>2, <1>3, <1>4

LEMMA MoveKeeps ==
  ASSUME ExtractionInv, MoveNewToFront
  PROVE  Kept(result, 2)' /\ (~answer.forwarded => FirstIsNew)'
<1> DEFINE new == DOMAIN result \ extractor.known
           m == Min(new)
           S == Range(result)
<1>1. /\ Kept(result, 1) /\ Compared /\ extractor.next > Len(result)
      /\ mail' = mail /\ answer' = answer
      /\ extractor'.removed = extractor.removed
      /\ extractor'.similar = extractor.similar
  BY DEF ExtractionInv, MoveNewToFront, EAt
<1>2. /\ result \in Seq(S) /\ Len(result) \in Nat
      /\ DOMAIN result = 1 .. Len(result)
  BY <1>1, LenProperties DEF Kept
<1>3. /\ \A text : IsPlaceholder(text)' <=> IsPlaceholder(text)
      /\ \A text, o : SameText(text, o)' <=> SameText(text, o)
      /\ Recognizable' = Recognizable
      /\ \A message : FromAnswer(message)' <=> FromAnswer(message)
  BY <1>1, SameAnswer
<1>5. CASE 1 \in new \/ new = {}
  <2>1. result' = result
    BY <1>5 DEF MoveNewToFront
  <2>2. Kept(result, 2)'
    <3>1. Kept(result, 2)
      BY <1>1, <1>2 DEF Kept
    <3> QED
      BY <1>1, <1>3, <2>1, <3>1 DEF Kept
  <2>3. ASSUME ~answer.forwarded, NEW k \in DOMAIN answer.messages, NewText(k)
        PROVE  /\ result # <<>> /\ result[1].place \in DOMAIN answer.messages
               /\ result[1].content = answer.messages[result[1].place]
               /\ Doubled(result[1].place)
    <3>1. 1 \in new
      BY <1>1, <1>2, <1>5, <2>3, UnknownIsNew
    <3>2. 1 \in 1 .. Len(result) \ extractor.known
      BY <1>2, <3>1
    <3>3. result # <<>>
      BY <1>2, <3>2, EmptySeq
    <3> QED
      BY <1>1, <2>3, <3>2, <3>3, UnknownIsNew
  <2>4. (~answer.forwarded => FirstIsNew)'
    BY <1>1, <1>3, <2>1, <2>3 DEF FirstIsNew, NewText, Doubled
  <2> QED
    BY <2>2, <2>4
<1>6. CASE ~(1 \in new \/ new = {})
  <2>1. m \in 1 .. Len(result) /\ m \notin extractor.known
    <3>1. new \in SUBSET Nat
      BY <1>2
    <3>2. m \in new
      BY <1>6, <3>1, LeastNumber
    <3> QED
      BY <1>2, <3>2
  <2>2. result # <<>>
    BY <1>2, <2>1, EmptySeq
  <2>3. result' = ToFront(result, m)
    BY <1>6, <2>2 DEF MoveNewToFront, ToFront
  <2> HIDE DEF new, m, S
  <2>4. /\ result' \in Seq(S) /\ Len(result') = Len(result)
        /\ result'[1] = result[m]
        /\ \A i \in 2 .. Len(result) :
                result'[i] = IF i <= m THEN result[i - 1] ELSE result[i]
    <3>1. result \in Seq(S) /\ m \in 1 .. Len(result)
      BY <1>2, <2>1
    <3> QED
      BY <2>3, <3>1, ToFrontMoves
  <2> DEFINE from == [i \in 1 .. Len(result) |->
                        IF i = 1 THEN m ELSE IF i <= m THEN i - 1 ELSE i]
  <2>5. \A i \in 1 .. Len(result) : /\ from[i] \in 1 .. Len(result)
                                   /\ result'[i] = result[from[i]]
    BY <1>2, <2>1, <2>4
  <2>6. /\ \A i, j \in 1 .. Len(result) : from[i] = from[j] => i = j
        /\ \A i, j \in 2 .. Len(result) : i < j => from[i] < from[j]
        /\ \A j \in 1 .. Len(result) : \E i \in 1 .. Len(result) : from[i] = j
    <3>1. \A i, j \in 1 .. Len(result) : from[i] = from[j] => i = j
      BY <1>2, <2>1
    <3>2. \A i, j \in 2 .. Len(result) : i < j => from[i] < from[j]
      BY <1>2, <2>1
    <3>3. ASSUME NEW j \in 1 .. Len(result)
          PROVE  \E i \in 1 .. Len(result) : from[i] = j
      <4> DEFINE i == IF j = m THEN 1 ELSE IF j < m THEN j + 1 ELSE j
      <4>1. i \in 1 .. Len(result) /\ from[i] = j
        BY <1>2, <2>1
      <4> QED
        BY <4>1
    <3> QED
      BY <3>1, <3>2, <3>3
  <2> HIDE DEF from
  <2>7. Kept(result', 2)
    <3>1. result' \in Seq(Range(result'))
      BY <2>4, SeqOfRange
    <3>2. \A i \in 1 .. Len(result) : FromAnswer(result'[i])
      BY <1>1, <2>5 DEF Kept
    <3>3. \A i, j \in 1 .. Len(result) :
            result'[i].place = result'[j].place => i = j
      <4> SUFFICES ASSUME NEW i \in 1 .. Len(result), NEW j \in 1 .. Len(result),
                          result'[i].place = result'[j].place
                   PROVE  i = j
        OBVIOUS
      <4>1. result[from[i]].place = result[from[j]].place
        BY <2>5
      <4>2. from[i] = from[j]
        BY <1>1, <2>5, <4>1 DEF Kept
      <4> QED
        BY <2>6, <4>2
    <3>4. \A i, j \in 2 .. Len(result) :
            i < j => result'[i].place < result'[j].place
      <4> SUFFICES ASSUME NEW i \in 2 .. Len(result), NEW j \in 2 .. Len(result),
                          i < j
                   PROVE  result'[i].place < result'[j].place
        OBVIOUS
      <4>1. i \in 1 .. Len(result) /\ j \in 1 .. Len(result)
        BY <1>2
      <4>2. from[i] < from[j]
        BY <2>6
      <4>3. result[from[i]].place < result[from[j]].place
        BY <1>1, <2>5, <4>1, <4>2 DEF Kept
      <4> QED
        BY <2>5, <4>1, <4>3
    <3>5. ASSUME NEW k \in DOMAIN answer.messages, ~IsPlaceholder(answer.messages[k])
          PROVE  \E i \in 1 .. Len(result) : result'[i].place = k
      <4>1. PICK j \in 1 .. Len(result) : result[j].place = k
        BY <1>1, <3>5 DEF Kept
      <4>2. PICK i \in 1 .. Len(result) : from[i] = j
        BY <2>6
      <4> QED
        BY <2>5, <4>1, <4>2
    <3> QED
      BY <1>1, <2>4, <3>1, <3>2, <3>3, <3>4, <3>5 DEF Kept
  <2>8. Kept(result, 2)'
    BY <1>1, <1>3, <2>7 DEF Kept
  <2>9. ASSUME ~answer.forwarded
        PROVE  /\ result' # <<>> /\ result'[1].place \in DOMAIN answer.messages
               /\ result'[1].content = answer.messages[result'[1].place]
               /\ Doubled(result'[1].place)
    <3>1. m \in 1 .. Len(result) \ extractor.known
      BY <2>1
    <3>2. result' # <<>>
      BY <1>2, <2>1, <2>4, EmptySeq
    <3> QED
      BY <1>1, <2>4, <2>9, <3>1, <3>2, UnknownIsNew
  <2>10. (~answer.forwarded => FirstIsNew)'
    BY <1>1, <1>3, <2>9 DEF FirstIsNew, NewText, Doubled
  <2> QED
    BY <2>8, <2>10
<1> QED
  BY <1>5, <1>6

\* The answer as it comes: its messages are numbered from one.
LEMMA AnswerIsAsAnswered ==
  ASSUME ExtractorAssumption, ExtractLLM
  PROVE  AsAnswered'
<1>1. PICK n \in Nat : DOMAIN answer'.messages = 1 .. n
  <2>1. CASE answer' = Answer(FALSE, TRUE, <<extractor.body>>, {})
    <3>1. DOMAIN answer'.messages = 1 .. 1
      BY <2>1 DEF Answer
    <3> QED
      BY <3>1
  <2>2. ASSUME NEW texts \in SeqOf(ServiceTexts, MaxMessages),
               answer'.messages = texts
        PROVE  \E n \in Nat : DOMAIN answer'.messages = 1 .. n
    <3>1. PICK n \in 0 .. MaxMessages : texts \in [1 .. n -> ServiceTexts]
      BY DEF SeqOf
    <3> QED
      BY <2>2, <3>1
  <2> DEFINE unmodified == Answer(FALSE, TRUE, <<extractor.body>>, {})
             split == {t \in SeqOf(ServiceTexts, MaxMessages) :
                        t # <<>> /\ ~IsPlaceholder(Head(t))}
             Of(texts) == {Answer(forwarded, FALSE, texts, undated) :
                                forwarded \in BOOLEAN,
                                undated \in {{}, 2 .. Len(texts)}}
             all == {Of(texts) : texts \in split}
  <2>3. answer' = unmodified \/ answer' \in UNION all
    <3>1. Answers = IF mail.service = "passthrough" THEN {unmodified}
                    ELSE {unmodified} \cup UNION all
      BY DEF Answers
    <3> HIDE DEF all, unmodified
    <3> QED
      BY <3>1 DEF ExtractLLM
  <2>4. \A texts : \A a \in Of(texts) : a.messages = texts
    BY DEF Answer
  <2> HIDE DEF Of
  <2>5. answer' \in UNION all => \E texts \in split : answer' \in Of(texts)
    <3> HIDE DEF split
    <3> QED
      OBVIOUS
  <2> QED
    BY <2>1, <2>2, <2>3, <2>4, <2>5
<1> QED
  BY <1>1 DEF ExtractLLM, AsAnswered

LEMMA ExtractionKeeps ==
  ASSUME ExtractionInv, [Next]_vars
  PROVE  ExtractionInv'
<1>1. CASE UNCHANGED extractorVars
  <2>1. /\ mail' = mail /\ extractor' = extractor /\ answer' = answer
        /\ result' = result
    BY <1>1 DEF extractorVars
  <2>2. /\ \A text : IsPlaceholder(text)' <=> IsPlaceholder(text)
        /\ \A text, o : SameText(text, o)' <=> SameText(text, o)
        /\ Recognizable' = Recognizable
        /\ \A message : FromAnswer(message)' <=> FromAnswer(message)
    BY <2>1, SameAnswer
  <2>3. AsAnswered' <=> AsAnswered
    BY <2>1 DEF AsAnswered, Message
  <2>4. Kept(result, 1)' <=> Kept(result, 1)
    BY <2>1, <2>2 DEF Kept
  <2>5. Kept(result, 2)' <=> Kept(result, 2)
    BY <2>1, <2>2 DEF Kept
  <2>6. Compared' <=> Compared
    BY <2>1, <2>2 DEF Compared
  <2>7. FirstIsNew' <=> FirstIsNew
    BY <2>1, <2>2 DEF FirstIsNew, NewText, Doubled
  <2> QED
    BY <2>1, <2>3, <2>4, <2>5, <2>6, <2>7 DEF ExtractionInv, EAt
<1>2. CASE ExtractMessages
  BY <1>2 DEF ExtractMessages, ExtractionInv, EAt
<1>3. CASE ReplaceOldMessage
  <2>1. /\ extractor' = [pc |-> "replace", body |-> extractor'.body,
                        left |-> extractor'.left, removed |-> extractor'.removed,
                        similar |-> extractor'.similar, next |-> extractor.next,
                        known |-> extractor.known, oldKnown |-> extractor.oldKnown]
    BY <1>3 DEF ReplaceOldMessage, ReplaceBestBlockMatch, ExtractionInv, EAt
  <2>2. EAt("replace")
    BY <1>3 DEF ReplaceOldMessage
  <2> QED
    BY <2>1, <2>2 DEF ExtractionInv, EAt
<1>4. CASE ReplaceOldMessagePanics
  BY <1>4 DEF ReplaceOldMessagePanics, ExtractionInv, EAt
<1>5. CASE ExtractLLM
  <2>1. AsAnswered'
    BY <1>5, ExtractorAssumption, AnswerIsAsAnswered
  <2> QED
    BY <1>5, <2>1 DEF ExtractLLM, ExtractionInv, EAt
<1>6. CASE ExtractLLMFails
  BY <1>6 DEF ExtractLLMFails, ExtractionInv, EAt
<1>7. CASE RestoreMessage
  <2>1. Kept(result, 1)'
    BY <1>7, RestoreKeeps
  <2>2. /\ extractor' = [extractor EXCEPT !.pc = "detect"] /\ EAt("restore")
    BY <1>7 DEF RestoreMessage
  <2>3. Compared'
    <3>1. /\ extractor'.next = 1 /\ extractor'.known = {}
          /\ extractor'.oldKnown = {}
      BY <2>2 DEF ExtractionInv, EAt
    <3>2. Len(result') \in Nat
      BY <2>1, LenProperties DEF Kept
    <3> QED
      BY <3>1, <3>2 DEF Compared
  <2> QED
    BY <2>1, <2>2, <2>3 DEF ExtractionInv, EAt
<1>8. CASE DetectKnown
  <2>1. Kept(result, 1)' /\ Compared'
    BY <1>8, CompareKeeps
  <2>2. /\ EAt("detect")
        /\ extractor' = [pc |-> "detect", body |-> extractor'.body,
                        left |-> extractor'.left, removed |-> extractor'.removed,
                        similar |-> extractor'.similar, next |-> extractor'.next,
                        known |-> extractor'.known, oldKnown |-> extractor'.oldKnown]
    BY <1>8 DEF DetectKnown, ExtractionInv, EAt
  <2> QED
    BY <2>1, <2>2 DEF ExtractionInv, EAt
<1>9. CASE MoveNewToFront
  <2>1. Kept(result, 2)' /\ (~answer.forwarded => FirstIsNew)'
    BY <1>9, MoveKeeps
  <2>2. extractor' = [extractor EXCEPT !.pc = "done"]
    BY <1>9 DEF MoveNewToFront
  <2> QED
    BY <2>1, <2>2 DEF ExtractionInv, EAt
<1> QED
  BY <1>1, <1>2, <1>3, <1>4, <1>5, <1>6, <1>7, <1>8, <1>9
  DEF Next, Extraction, Posting, PostingStep, CreateThread, AddReply,
      AddReplyPanics, SendThreadMessage, TruncateLarge, CreateThreadPanics,
      HeadRedacted, SendFails, vars

LEMMA KeptIsNothingLost == ExtractionInv => NothingLost
<1> SUFFICES ASSUME Kept(result, 2) PROVE NothingLost
  BY DEF ExtractionInv, NothingLost
<1>1. /\ Len(result) \in Nat /\ DOMAIN result = 1 .. Len(result)
  BY LenProperties DEF Kept
<1>2. \A i \in DOMAIN result : ~IsPlaceholder(result[i].content)
  BY <1>1 DEF Kept, FromAnswer
<1>3. \A i, j \in 2 .. Len(result) : i < j => result[i].place < result[j].place
  BY DEF Kept
<1>4. ASSUME NEW k \in DOMAIN answer.messages
      PROVE  LET text == answer.messages[k]
                 now == {i \in DOMAIN result : result[i].place = k}
             IN  IF IsPlaceholder(text)
                 THEN \A i \in now : /\ answer.forwarded
                                     /\ \E o \in extractor.removed :
                                         result[i].content = FirstText(o)
                 ELSE /\ Cardinality(now) = 1
                      /\ \A i \in now : result[i].content = text
  <2> DEFINE now == {i \in DOMAIN result : result[i].place = k}
  <2>1. \A i \in now : i \in 1 .. Len(result) /\ result[i].place = k
    BY <1>1
  <2>2. CASE IsPlaceholder(answer.messages[k])
    BY <2>1, <2>2 DEF Kept, FromAnswer
  <2>3. CASE ~IsPlaceholder(answer.messages[k])
    <3>1. PICK i \in 1 .. Len(result) : result[i].place = k
      BY <2>3 DEF Kept
    <3>2. now = {i}
      BY <1>1, <3>1 DEF Kept
    <3>3. Cardinality(now) = 1
      BY <3>2, FS_Singleton
    <3>4. \A j \in now : result[j].content = answer.messages[k]
      BY <2>1, <2>3 DEF Kept, FromAnswer
    <3> QED
      BY <2>3, <3>3, <3>4
  <2> QED
    BY <2>2, <2>3
<1> QED
  BY <1>2, <1>3, <1>4 DEF NothingLost

\* Whatever the order of the maps, no message of the answer is lost, doubled or
\* out of its order but for the first one.
THEOREM MessagesAreKept ==
  ASSUME NEW CONSTANT mails, NEW CONSTANT files, NEW CONSTANT letters,
         NEW CONSTANT rooms0, NEW CONSTANT limits
  PROVE  ExtractorInit(mails) /\ RoomInit(files) /\ PostingInit(letters, rooms0, limits)
         /\ [][Next]_vars => []NothingLost
<1>1. ExtractorInit(mails) => ExtractionInv
  BY DEF ExtractorInit, ExtractionInv, EAt
<1>2. ExtractionInv /\ [Next]_vars => ExtractionInv'
  BY ExtractionKeeps
<1>3. ExtractionInv => NothingLost
  BY KeptIsNothingLost
<1> QED
  BY <1>1, <1>2, <1>3, PTL
-----------------------------------------------------------------------------
\* What is being sent was written after the messages were put in order, and a
\* mail that was not forwarded with the first of them.
PostedInv ==
    /\ ExtractionInv
    /\ posting.pc \in {"send", "posted"} =>
        /\ EAt("done")
        /\ ~answer.forwarded =>
            posting.whole = HeaderLines \o Written(result[1].content)

LEMMA PostingKeeps ==
  ASSUME NEW chunks, CutInv(chunks), PostedInv, [Next]_vars
  PROVE  PostedInv'
<1>1. ExtractionInv'
  BY ExtractionKeeps DEF PostedInv
<1>2. ASSUME UNCHANGED <<extractorVars, letter>>,
             posting'.pc \in {"send", "posted"} =>
                /\ posting.pc \in {"send", "posted"}
                /\ thread' = thread /\ posting'.whole = posting.whole
      PROVE  PostedInv'
  <2> SUFFICES ASSUME posting'.pc \in {"send", "posted"}
               PROVE  /\ EAt("done")'
                      /\ ~answer'.forwarded =>
                            posting'.whole = (HeaderLines \o Written(result[1].content))'
    BY <1>1 DEF PostedInv
  <2>1. /\ extractor' = extractor /\ answer' = answer /\ result' = result
        /\ letter' = letter /\ thread' = thread /\ posting'.whole = posting.whole
    BY <1>2 DEF extractorVars
  <2>2. /\ HeaderLines' = HeaderLines
        /\ Written(result[1].content)' = Written(result[1].content)
    BY <2>1 DEF HeaderLines, Written, Line
  <2> QED
    BY <1>2, <2>1, <2>2 DEF PostedInv, EAt
<1>3. CASE AddReply
  <2>1. /\ extractor' = extractor /\ answer' = answer /\ result' = result
        /\ letter' = letter /\ thread' = thread /\ EAt("done")
        /\ posting' = [posting EXCEPT !.pc = "send",
                                     !.whole = HeaderLines \o ContentLines,
                                     !.lines = HeaderLines \o ContentLines,
                                     !.warned = FALSE]
    BY <1>3 DEF AddReply, Ready, extractorVars
  <2>2. posting'.whole = HeaderLines \o ContentLines
    BY <2>1 DEF CutInv
  <2>3. ~answer.forwarded => ContentLines = Written(result[1].content)
    BY DEF ContentLines
  <2>4. /\ HeaderLines' = HeaderLines
        /\ Written(result[1].content)' = Written(result[1].content)
    BY <2>1 DEF HeaderLines, Written, Line
  <2> QED
    BY <1>1, <2>1, <2>2, <2>3, <2>4 DEF PostedInv, EAt
<1>4. CASE SendThreadMessage \/ TruncateLarge
  BY <1>2, <1>4 DEF SendThreadMessage, TruncateLarge, CutInv
<1>5. CASE AddReplyPanics \/ CreateThreadPanics \/ HeadRedacted \/ SendFails
  BY <1>2, <1>5
  DEF AddReplyPanics, CreateThreadPanics, HeadRedacted, SendFails, CutInv
<1>6. CASE CreateThread
  BY <1>2, <1>6 DEF CreateThread, Ready
<1>7. CASE UNCHANGED <<extractorVars, letter, thread, posting>>
  BY <1>2, <1>7
<1>8. CASE Extraction /\ UNCHANGED posting
  <2>1. ~EAt("done")
    BY <1>8
    DEF Extraction, ExtractMessages, ReplaceOldMessage, ReplaceOldMessagePanics,
        ExtractLLM, ExtractLLMFails, RestoreMessage, DetectKnown, MoveNewToFront,
        EAt
  <2> QED
    BY <1>1, <1>8, <2>1 DEF PostedInv
<1> QED
  BY <1>3, <1>4, <1>5, <1>6, <1>7, <1>8 DEF Next, Posting, PostingStep, vars

LEMMA PostedIsNew ==
  ASSUME NEW chunks, CutInv(chunks), PostedInv, posting.whole \in Seq(chunks)
  PROVE  NewTextPosted
<1> DEFINE Shows(k) == LET lines == HeaderLines \o Written(answer.messages[k])
                       IN  IF Len(lines) <= posting.limit
                           THEN posting.lines = lines
                           ELSE IsPrefix(posting.lines, lines)
<1> SUFFICES ASSUME posting.pc = "posted", ~answer.forwarded, answer # NoAnswer,
                    \E k \in DOMAIN answer.messages : NewText(k)
             PROVE  \E k \in DOMAIN answer.messages :
                        Shows(k) /\ (NewText(k) \/ Doubled(k))
  BY DEF NewTextPosted, NewText, Doubled
<1>1. FirstIsNew /\ posting.whole = HeaderLines \o Written(result[1].content)
  BY DEF PostedInv, ExtractionInv
<1>2. PICK k \in DOMAIN answer.messages :
        result[1].content = answer.messages[k] /\ Doubled(k)
  BY <1>1 DEF FirstIsNew
<1>3. posting.whole = HeaderLines \o Written(answer.messages[k])
  BY <1>1, <1>2
<1>4. IsPrefix(posting.lines, posting.whole)
      /\ (posting.warned <=> Len(posting.whole) > posting.limit)
  BY PostedIsCut DEF CutLittle
<1>5. ~posting.warned => posting.lines = posting.whole
  BY DEF CutInv, CutSoFar
<1>6. Len(posting.whole) \in Nat /\ posting.limit \in Nat
  BY LenProperties DEF CutInv
<1>7. Shows(k)
  BY <1>3, <1>4, <1>5, <1>6
<1> QED
  BY <1>2, <1>7

\* If the service found a new text, one that is in no older mail it might be
\* mistaken for, the message of a mail that is not forwarded is such a text or
\* the second of two that are alike: it is the first message that is not known.
THEOREM TheNewTextIsPosted ==
  ASSUME NEW CONSTANT mails, NEW CONSTANT files, NEW CONSTANT letters,
         NEW CONSTANT rooms0, NEW CONSTANT limits, NEW CONSTANT chunks,
         limits \subseteq Nat
  PROVE  ExtractorInit(mails) /\ RoomInit(files) /\ PostingInit(letters, rooms0, limits)
         /\ [][Next]_vars => [](posting.whole \in Seq(chunks) => NewTextPosted)
<1>1. ExtractorInit(mails) /\ PostingInit(letters, rooms0, limits)
        => CutInv(chunks) /\ PostedInv
  <2> SUFFICES ASSUME ExtractorInit(mails), PostingInit(letters, rooms0, limits)
               PROVE  CutInv(chunks) /\ PostedInv
    OBVIOUS
  <2>1. posting.pc = "wait"
    <3>1. PICK limit \in limits :
            posting = [pc |-> "wait", whole |-> <<>>, lines |-> <<>>,
                       warned |-> FALSE, limit |-> limit]
      BY DEF PostingInit
    <3> QED
      BY <3>1
  <2>2. ExtractionInv
    BY DEF ExtractorInit, ExtractionInv, EAt
  <2>3. CutInv(chunks)
    BY CutInit
  <2> QED
    BY <2>1, <2>2, <2>3 DEF PostedInv
<1>2. CutInv(chunks) /\ PostedInv /\ [Next]_vars => (CutInv(chunks) /\ PostedInv)'
  BY CutStep, PostingKeeps
<1>3. CutInv(chunks) /\ PostedInv => (posting.whole \in Seq(chunks) => NewTextPosted)
  BY PostedIsNew
<1> QED
  BY <1>1, <1>2, <1>3, PTL
=============================================================================
