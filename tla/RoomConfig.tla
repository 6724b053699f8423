------------------------------ MODULE RoomConfig ------------------------------
(***************************************************************************)
(* How the rooms of the [matrix] table of config.toml are loaded           *)
(* (internal/config/config.go) and how the room of a new thread is found   *)
(* (internal/matrix/matrix.go). The file names rooms by their ids or by    *)
(* aliases. Go's maps are walked in any order.                             *)
(*                                                                         *)
(* A regular expression is known by the addresses and mailboxes it         *)
(* matches. Left out: senders, credentials, and the errors that end the    *)
(* process, a file without the table [matrix.overview] among them.         *)
(***************************************************************************)
EXTENDS FiniteSets, Sequences, Functions

CONSTANTS
    Aliases,    \* [aliases -> ids of rooms]
    RoomNames   \* what the file may name: ids of rooms and aliases

ASSUME RoomAssumption ==
    /\ DOMAIN Aliases \subseteq RoomNames
    /\ Range(Aliases) \cap DOMAIN Aliases = {}
    /\ "" \notin RoomNames \cup Range(Aliases)

VARIABLES
    settings,  \* the file: default_room, the rules of rooms_addr_to,
               \* rooms_mailbox and rooms_addr_from, and the table overview
    loader,    \* Load: its next step and the overview entries it has to read
    rooms      \* what it has filled: lists of rooms and maps between them

roomVars == <<settings, loader, rooms>>

RuleKinds == {"to", "mailbox", "from"}

NoRooms == [target |-> {}, all |-> {}, overview |-> <<>>, full |-> {},
            inverse |-> <<>>]

\* Two entries of the table overview are two rooms.
RoomInit(files) ==
    /\ settings \in files
    /\ loader = [pc |-> "rules", todo |-> {}]
    /\ rooms = NoRooms

ResolveRoomValue(name) == IF name \in DOMAIN Aliases THEN Aliases[name] ELSE name

DefaultRoomId == ResolveRoomValue(settings.default)

RuleRooms == {ResolveRoomValue(rule.room) :
                 rule \in UNION {settings.rules[kind] : kind \in RuleKinds}}

\* The rules are compiled and their rooms collected; the default room becomes
\* the only target of an overview without a room, the entry "".
LoadRules ==
    /\ loader.pc = "rules"
    /\ rooms' = [rooms EXCEPT !.target = RuleRooms,
                              !.all = RuleRooms \cup {DefaultRoomId}]
    /\ loader' = [pc |-> "overviews", todo |-> DOMAIN settings.overview \cup {""}]
    /\ UNCHANGED settings

Listed(name) == IF name = "" THEN {DefaultRoomId}
                ELSE {ResolveRoomValue(n) : n \in settings.overview[name]}

LoadOverview(name) ==
    /\ loader.pc = "overviews"
    /\ name \in loader.todo
    /\ LET o == ResolveRoomValue(name)
           targets == Listed(name)
       IN  rooms' = [rooms EXCEPT
                !.target = @ \cup targets,
                !.all = @ \cup targets \cup ({o} \ {""}),
                !.overview = [p \in DOMAIN @ \cup {o} |->
                                IF p = o THEN targets ELSE @[p]],
                !.full = IF targets = {} THEN @ \cup {o} ELSE @]
    /\ loader' = [loader EXCEPT !.todo = @ \ {name}]
    /\ UNCHANGED settings

Showing(t) == {o \in DOMAIN rooms.overview \ {""} : t \in rooms.overview[o]}

\* FAULT: the overviews of all rooms are added to the rooms that another
\* overview lists, not to the default room.
InvertListed ==
    /\ loader.pc = "overviews"
    /\ loader.todo = {}
    /\ LET listed == UNION {rooms.overview[o] : o \in DOMAIN rooms.overview \ {""}}
       IN  rooms' = [rooms EXCEPT
                !.inverse = [t \in listed |-> Showing(t) \cup rooms.full],
                !.overview = Restrict(@, DOMAIN @ \ {""})]
    /\ loader' = [loader EXCEPT !.pc = "loaded"]
    /\ UNCHANGED settings

\* The inverse map gets the targets of all entries, and then every entry of it
\* the overviews of all rooms.
Invert ==
    /\ loader.pc = "overviews"
    /\ loader.todo = {}
    /\ LET listed == UNION Range(rooms.overview)
       IN  rooms' = [rooms EXCEPT
                !.inverse = [t \in listed |-> Showing(t) \cup rooms.full],
                !.overview = Restrict(@, DOMAIN @ \ {""})]
    /\ loader' = [loader EXCEPT !.pc = "loaded"]
    /\ UNCHANGED settings

LoadRooms ==
    LoadRules \/ (\E name \in RoomNames \cup {""} : LoadOverview(name)) \/ Invert

RoomsLoaded == loader.pc = "loaded"
-----------------------------------------------------------------------------
GetOverviewRoomTargets(o) ==
    CASE o \notin DOMAIN rooms.overview -> {}
      [] o \in DOMAIN rooms.overview /\ rooms.overview[o] = {} -> rooms.target
      [] OTHER -> rooms.overview[o]

GetOverviewRooms(t) == IF t \in DOMAIN rooms.inverse THEN rooms.inverse[t] ELSE {}

\* The rooms of the rules that match; one that the map gives first is taken.
MatchRoomsRegexps(kind, s) ==
    {ResolveRoomValue(rule.room) : rule \in {r \in settings.rules[kind] : s \in r.matches}}

\* To before the mailbox before From; the first address in To that has a rule.
DetermineMatrixRoom(mailbox, addrFrom, addrTo) ==
    LET matched == {k \in DOMAIN addrTo : MatchRoomsRegexps("to", addrTo[k]) # {}}
        first == {k \in matched : \A l \in matched : k <= l}
        byMailbox == MatchRoomsRegexps("mailbox", mailbox)
        byFrom == MatchRoomsRegexps("from", addrFrom)
    IN  IF first # {} THEN UNION {MatchRoomsRegexps("to", addrTo[k]) : k \in first}
        ELSE IF byMailbox # {} THEN byMailbox
        ELSE IF byFrom # {} THEN byFrom
        ELSE {DefaultRoomId}
-----------------------------------------------------------------------------
\* For the default room and every room that an overview lists, the overviews
\* that a change of a thread in the room updates are those that show it, in
\* whatever order the maps were walked and whether aliases or ids are used.
RoomsAgree ==
    RoomsLoaded =>
        \A t \in {DefaultRoomId} \cup UNION Range(rooms.overview) :
            GetOverviewRooms(t) =
                {o \in DOMAIN rooms.overview : t \in GetOverviewRoomTargets(o)}

\* config.example.toml: "an empty array results in an overview of open threads
\* from all channels": it is updated when a thread changes in any of them.
EmptyListIsAllRooms ==
    RoomsLoaded =>
        \A o \in DOMAIN rooms.overview, t \in rooms.target :
            rooms.overview[o] = {} => o \in GetOverviewRooms(t)
=============================================================================
