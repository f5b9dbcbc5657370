----------------------------- MODULE Matchmaking -----------------------------
(***************************************************************************)
(* The matchmaking backend (java-backend): SearchService and              *)
(* GameServerService over the tables matchmaking_search, matchmaking_match *)
(* and game_server.                                                        *)
(*                                                                         *)
(* Every handler runs under the monitor of SearchService, so one handler   *)
(* runs at a time; every SQL statement commits on its own, so the process  *)
(* can die between any two of them.  `todo' is what the running handler    *)
(* still has to do: a handler starts when it is empty, a step executes its *)
(* head (one statement) and may put new tasks in front, and a crash drops  *)
(* it.  Clocks are abstracted: a timeout that may have passed is a choice. *)
(* A loop over a query result holds the rows left in `pend'; their order   *)
(* (started_at, created_at, last_assigned_at) is a choice too.             *)
(***************************************************************************)
EXTENDS Naturals, Sequences, FiniteSets

CONSTANTS
  None,         \* SQL NULL
  Accounts, SearchIds, MatchIds, Servers, ProfileIds,
  Requests,     \* request ids a client sends (None: it sends none)
  Maps, NoMap,  \* the maps; the map of a server that reported none
  Modes, AcceptModes, Required,
  Sources,      \* who sends a search: "gc", "admin"
  Choices,      \* what a search may ask for: [mode, maps, variants]
  Parties,      \* the party_account_ids each account may name (None: absent)
  Fleet,        \* the registered servers at start: [Servers -> [mode, map]]
  Calls,        \* which calls of the administrator and of game servers happen
  Setups,       \* [mode, map] an administrator may give a server
  Profiles,     \* Fake Players profiles an administrator may write
  MaxCrashes,   \* bound: restarts of the process
  Outage        \* a restart may come later than the reservation TTL

ASSUME ModesAssumption ==
  /\ AcceptModes \subseteq Modes
  /\ Required \in [Modes -> Nat \ {0}]
  /\ \A k \in Modes \ AcceptModes : Required[k] = 1

ASSUME FleetAssumption ==
  /\ Fleet \in [Servers -> [mode : Modes, map : Maps \cup {NoMap}]]
  /\ Setups \subseteq [mode : Modes, map : Maps \cup {NoMap}]

ASSUME ChoicesAssumption ==
  /\ Choices \subseteq [mode : Modes, maps : SUBSET Maps,
                        variants : SUBSET [mode : Modes \ AcceptModes, maps : SUBSET Maps]]
  /\ \A c \in Choices : c.mode \in AcceptModes => c.variants = {}
  /\ Choices # {} /\ NoMap \notin Maps

\* normalizeFake: at least one real player is needed to start the match
ASSUME ProfilesAssumption ==
  /\ Profiles \subseteq [mode : AcceptModes, players : Nat, maps : SUBSET Maps,
                         server : Servers \cup {None}, prio : Nat, on : BOOLEAN]
  /\ \A p \in Profiles : p.players < Required[p.mode]

ASSUME NoneAssumption ==
  /\ None \notin SearchIds /\ None \notin MatchIds /\ None \notin Servers
  /\ None \notin Accounts /\ None \notin ProfileIds
  /\ Parties \in [Accounts -> SUBSET ((SUBSET Accounts) \cup {None})]

ASSUME FiniteAssumption == IsFiniteSet(SearchIds)

VARIABLES
  search,   \* matchmaking_search by id
  match,    \* matchmaking_match by id
  server,   \* game_server by id
  fakes,    \* fake_search by id, None when there is no such row
  fakeOn,   \* the Fake Players master switch
  acks,     \* rosterAcks: matches whose server armed the roster (in memory)
  reads,    \* rosterPolls: servers seen within rosterPollWindow (in memory)
  todo,     \* the rest of the running handler
  crashes

vars == <<search, match, server, fakes, fakeOn, acks, reads, todo, crashes>>

Live       == {"SEARCHING", "MATCHED", "WAITING_ACCEPT", "READY_TO_CONNECT"}
Finished   == {"CANCELLED", "EXPIRED", "REMOVED", "COMPLETED"}
Gathering  == {"FORMING", "FULL"}
Holding    == {"READY", "ACCEPTING", "ACCEPTED"}
Over       == {"ENDED", "CANCELLED"}
MapOrNone  == Maps \cup {NoMap}

\* there is no such row (ask: any value, nothing reads it)
NoSearch == [st |-> "NONE", acct |-> None, req |-> None, src |-> None,
             ask |-> CHOOSE c \in Choices : TRUE, match |-> None, acc |-> FALSE, leader |-> None]
NoMatch  == [st |-> "NONE", mode |-> None, sv |-> None, map |-> NoMap, fake |-> 0, prof |-> None]

-----------------------------------------------------------------------------
(* Queries. *)

LiveRows(m) == {s \in SearchIds : search[s].st \in Live /\ search[s].match = m}
RowOf(a)    == {s \in SearchIds : search[s].st \in Live /\ search[s].acct = a}
Members(l)  == {s \in SearchIds : search[s].st \in Live /\ search[s].leader = l}
\* Mutant: party members are placed on their own.
UnplacedMembers == {s \in SearchIds : search[s].st = "SEARCHING" /\ search[s].match = None}
Unplaced    == {s \in SearchIds : /\ search[s].st = "SEARCHING"
                                  /\ search[s].match = None /\ search[s].leader = None}

MustAccept(s)     == search[s].src = "gc"
AcceptRequired(m) == match[m].mode \in AcceptModes
Players(m)        == Cardinality(LiveRows(m)) + match[m].fake

Allowed(maps) == IF maps = {} THEN MapOrNone ELSE maps

\* the maps every member of the match, and its profile, can still be played on
Pool(m) ==
  {k \in MapOrNone :
     /\ \A s \in LiveRows(m) : k \in Allowed(search[s].ask.maps)
     /\ \A p \in ProfileIds : match[m].prof = p /\ fakes[p] # None => k \in Allowed(fakes[p].maps)}

CanServe(mode, pool, only) ==
  \E v \in Servers : /\ server[v].st # "ABSENT" /\ server[v].on
                     /\ server[v].mode = mode /\ server[v].map \in pool
                     /\ only \in {None, v}

\* Mutant: a server that is reserved already.
FreeOrReserved(v) == server[v].on /\ server[v].st \in {"AVAILABLE", "RESERVED"} /\ ~server[v].cool
Free(v) == server[v].on /\ server[v].st = "AVAILABLE" /\ ~server[v].cool

\* ids are never used again: a fresh one is an id that nothing speaks of any more
FreshSearches == {s \in SearchIds : /\ search[s].st = "NONE"
                                    /\ \A o \in SearchIds : search[o].leader # s}
FreshMatches  == {m \in MatchIds : /\ match[m].st = "NONE"
                                   /\ \A s \in SearchIds : search[s].match # m}

-----------------------------------------------------------------------------
(* Statements on one row. *)

\* Mutant: match_id is not cleared.
UnplaceKeepsMatch(s) == search' = [search EXCEPT ![s] =
  IF @.st \in Live THEN [@ EXCEPT !.st = "SEARCHING", !.acc = FALSE] ELSE @]
Unplace(s) == search' = [search EXCEPT ![s] =
  IF @.st \in Live THEN [@ EXCEPT !.st = "SEARCHING", !.match = None, !.acc = FALSE] ELSE @]
Place(s, m, st) == search' = [search EXCEPT ![s] =
  IF @.st \in Live THEN [@ EXCEPT !.st = st, !.match = m, !.acc = FALSE] ELSE @]
Finish(s, st) == search' = [search EXCEPT ![s].st = IF @ \in Live THEN st ELSE @]

Begin(tasks) == todo = <<>> /\ todo' = tasks /\ UNCHANGED crashes
Do(tasks)    == todo' = tasks \o Tail(todo) /\ UNCHANGED <<fakes, fakeOn, reads, crashes>>
Now(op)      == todo # <<>> /\ Head(todo).op = op

(* Task sequences. *)

Loop(op, rows) == IF rows = {} THEN <<>> ELSE <<[op |-> op, pend |-> rows]>>
Rest(t, x)     == IF t.pend = {x} THEN <<>> ELSE <<[t EXCEPT !.pend = @ \ {x}]>>

Leave(rows, st, party) ==
  IF rows = {} THEN <<>> ELSE <<[op |-> "leave", pend |-> rows, st |-> st, party |-> party]>>
\* Mutant: a search without a match leaves one.
LeftUnchecked(m, acc) == <<[op |-> "left", m |-> m, acc |-> acc]>>
Left(m, acc) == IF m = None THEN <<>> ELSE <<[op |-> "left", m |-> m, acc |-> acc]>>

\* Mutants: no cooldown before the Accept clock runs; the server is not released.
DissolveCoolsAcceptingOnly(m) ==
  <<[op |-> "end", m |-> m, st |-> "CANCELLED", pend |-> LiveRows(m),
     free |-> IF match[m].st = "ACCEPTING" THEN "cool" ELSE "now"]>>
DissolveKeepsServer(m) ==
  <<[op |-> "end", m |-> m, st |-> "CANCELLED", pend |-> LiveRows(m), free |-> "keep"]>>
\* free: what happens to its server ("cool": AVAILABLE with a cooldown, "now": AVAILABLE)
Dissolve(m) ==
  <<[op |-> "end", m |-> m, st |-> "CANCELLED", pend |-> LiveRows(m),
     free |-> IF match[m].st \in {"READY", "ACCEPTING"} THEN "cool" ELSE "now"]>>
EndMatch(m, free) == <<[op |-> "end", m |-> m, st |-> "ENDED", pend |-> {}, free |-> free]>>

AssignedStatus(m) == IF AcceptRequired(m) THEN "WAITING_ACCEPT" ELSE "READY_TO_CONNECT"
Assign(m) ==
  <<[op |-> "assign", m |-> m, pend |-> {s \in LiveRows(m) : search[s].st # AssignedStatus(m)}]>>

\* the phases of a tick, then those of runMatcher
FirstPhase == 1
PlacePhase == 9
LastPhase  == 12
Tick    == <<[op |-> "scan", at |-> FirstPhase]>>
Matcher == <<[op |-> "scan", at |-> PlacePhase]>>

-----------------------------------------------------------------------------
(* Timers and runMatcher.  Works(q) is what phase q may find to do: a timer *)
(* may find any of the rows it could be over for, a query finds them all.   *)

Held(v) == \E m \in MatchIds : /\ server[v].by = m /\ match[m].sv = v
                               /\ match[m].st \in Holding

Stale == {s \in SearchIds : search[s].st \in {"SEARCHING", "MATCHED"}}
AcceptDue == {m \in MatchIds : match[m].st = "ACCEPTING"}
Legacy == {m \in MatchIds : match[m].st = "FORMING" /\ match[m].sv # None}
Deserted == {m \in MatchIds : match[m].st \in Gathering /\ LiveRows(m) = {}}
\* Mutant: only players who were told to connect.
AssignedConnectingOnly == {s \in SearchIds : search[s].st = "READY_TO_CONNECT"}
\* assignedSearchTimeout > acceptTimeout, and AcceptDue is handled first
Assigned == {s \in SearchIds :
               \/ search[s].st = "READY_TO_CONNECT"
               \/ /\ search[s].st = "WAITING_ACCEPT"
                  /\ \A m \in MatchIds : search[s].match = m => match[m].st # "ACCEPTING"}
\* serverReservationTtl > rosterAckTimeout + acceptTimeout: only after an outage is a match
\* still waiting for its server or its players when the TTL is over
Lapsed == {m \in MatchIds :
             /\ match[m].st \in Holding
             /\ \/ Outage \/ ~AcceptRequired(m) \/ match[m].st = "ACCEPTED"
                \/ match[m].st = "READY" /\ \A s \in LiveRows(m) : search[s].st # "MATCHED"}
\* Mutant: a reservation is trusted as long as its match has not been deleted.
OrphansOfNoMatch == {v \in Servers : /\ server[v].st = "RESERVED"
                                     /\ \A m \in MatchIds : server[v].by = m => match[m].st = "NONE"}
Orphans == {v \in Servers : server[v].st = "RESERVED" /\ ~Held(v)}
\* finishedSearchRetention > serverReservationTtl: rows of a match that holds its server stay
OldRows == {s \in SearchIds :
              /\ search[s].st \in Finished
              /\ \A m \in MatchIds : search[s].match = m => match[m].st \notin Holding}
OldMatches == {m \in MatchIds : /\ match[m].st \in Over /\ LiveRows(m) = {}
                                /\ \A v \in Servers : server[v].by # m}
Purge == IF OldRows \cup OldMatches = {} THEN <<>>
         ELSE <<[op |-> "purge"]>>

Fillable == {m \in MatchIds : fakeOn /\ match[m].st = "FORMING" /\ AcceptRequired(m)}
Full     == {m \in MatchIds : match[m].st = "FULL"}
Promotable == {m \in MatchIds : /\ match[m].st = "READY" /\ AcceptRequired(m)
                                /\ \E s \in LiveRows(m) : search[s].st = "MATCHED"}

Works(q) ==
  CASE q = 1  -> {Leave(S, "EXPIRED", TRUE) : S \in SUBSET Stale}
    [] q = 2  -> {Loop("breakup", M) : M \in SUBSET AcceptDue}
    [] q = 3  -> {Loop("breakup", Legacy)}
    [] q = 4  -> {Loop("breakup", Deserted)}
    [] q = 5  -> {Loop("retire", S) : S \in SUBSET Assigned}
    [] q = 6  -> {Loop("lapse", M) : M \in SUBSET Lapsed}
    [] q = 7  -> {Loop("orphan", V) : V \in SUBSET Orphans}
    [] q = 8  -> {<<>>, Purge}
    [] q = 9  -> {Loop("place", Unplaced)}
    [] q = 10 -> {Loop("fill", M) : M \in SUBSET Fillable}
    [] q = 11 -> {Loop("reserve", Full)}
    [] q = 12 -> {Loop("promote", Promotable)}

\* goes to the next phase that finds work; the phases before it found none
Scan ==
  LET at == Head(todo).at
      Idle(q) == \A r \in at..LastPhase : r < q => <<>> \in Works(r)
  IN /\ Now("scan")
     /\ \/ \E q \in at..LastPhase : \E work \in Works(q) \ {<<>>} :
             Idle(q) /\ Do(work \o <<[op |-> "scan", at |-> q + 1]>>)
        \/ Idle(LastPhase + 1) /\ Do(<<>>)
     /\ UNCHANGED <<search, match, server, acks>>

Breakup ==
  LET t == Head(todo) IN
  /\ Now("breakup")
  /\ \E m \in t.pend : Do(Dissolve(m) \o Rest(t, m))
  /\ UNCHANGED <<search, match, server, acks>>

Retire ==
  LET t == Head(todo) IN
  /\ Now("retire")
  /\ \E s \in t.pend : Finish(s, "COMPLETED") /\ Do(Rest(t, s))
  /\ UNCHANGED <<match, server, acks>>

Lapse ==
  LET t == Head(todo) IN
  /\ Now("lapse")
  /\ \E m \in t.pend : Do(EndMatch(m, "now") \o Rest(t, m))
  /\ UNCHANGED <<search, match, server, acks>>

ReleaseOrphan ==
  LET t == Head(todo) IN
  /\ Now("orphan")
  /\ \E v \in t.pend :
       /\ server' = [server EXCEPT ![v].st = "AVAILABLE", ![v].by = None, ![v].cool = FALSE]
       /\ Do(Rest(t, v))
  /\ UNCHANGED <<search, match, acks>>

DeleteOld ==
  /\ Now("purge")
  /\ search' = [s \in SearchIds |-> IF s \in OldRows THEN NoSearch ELSE search[s]]
  /\ match' = [m \in MatchIds |-> IF m \in OldMatches THEN NoMatch ELSE match[m]]
  /\ Do(<<>>)
  /\ UNCHANGED <<server, acks>>

-----------------------------------------------------------------------------
(* A player leaves; a match falls apart. *)

\* finish, finishPartyMembers (unless the leader accepted: its stop is the connect), memberLeft
LeaveRow ==
  LET t == Head(todo) IN
  /\ Now("leave")
  /\ \E s \in t.pend :
       /\ Finish(s, t.st)
       /\ Do(Leave(IF t.party /\ ~search[s].acc THEN Members(s) ELSE {}, t.st, FALSE)
             \o Left(search[s].match, search[s].acc) \o Rest(t, s))
  /\ UNCHANGED <<match, server, acks>>

\* Mutant: a full match that loses a player stays full.
MemberLeftStaysFull ==
  LET m == Head(todo).m
      empty == match[m].st \in Gathering /\ LiveRows(m) = {}
      broken == match[m].st \in {"READY", "ACCEPTING"} /\ AcceptRequired(m) /\ ~Head(todo).acc
  IN /\ Now("left")
     /\ Do(IF empty \/ broken THEN Dissolve(m) ELSE <<>>)
     /\ UNCHANGED <<search, match, server, acks>>

MemberLeft ==
  LET m == Head(todo).m
      empty == match[m].st \in Gathering /\ LiveRows(m) = {}
      broken == /\ match[m].st \in {"READY", "ACCEPTING"}
                /\ AcceptRequired(m) /\ ~Head(todo).acc
  IN /\ Now("left")
     /\ Do(IF empty \/ broken THEN Dissolve(m) ELSE <<>>)
     /\ match' = IF match[m].st = "FULL" /\ ~empty   \* revertIfUnderfilled
                 THEN [match EXCEPT ![m].st = "FORMING", ![m].fake = 0, ![m].prof = None]
                 ELSE match
     /\ UNCHANGED <<search, server, acks>>

DissolveRow ==
  LET t == Head(todo) IN
  /\ Now("end")
  /\ \E s \in t.pend : Unplace(s) /\ Do(<<[t EXCEPT !.pend = @ \ {s}]>>)
  /\ UNCHANGED <<match, server, acks>>

End ==
  LET t == Head(todo)
      m == t.m
  IN /\ Now("end") /\ t.pend = {}
     /\ match' = [match EXCEPT ![m].st = IF @ \in Gathering \cup Holding THEN t.st ELSE @]
     /\ acks' = acks \ {m}
     /\ Do(IF match[m].sv = None \/ t.free = "keep" THEN <<>>
           ELSE <<[op |-> "release", m |-> m, free |-> t.free]>>)
     /\ UNCHANGED <<search, server>>

\* the server of an ended match, if it is still reserved for it
Release ==
  LET t == Head(todo)
      v == match[t.m].sv
  IN /\ Now("release")
     /\ server' = IF server[v].by = t.m
                  THEN [server EXCEPT ![v].st = "AVAILABLE", ![v].by = None, ![v].cool = (t.free = "cool")]
                  ELSE server
     /\ Do(<<>>)
     /\ UNCHANGED <<search, match, acks>>

\* GameServerRepository.setState, or delete (ABSENT)
SetServer ==
  LET t == Head(todo) IN
  /\ Now("set")
  /\ server' = [server EXCEPT ![t.v].st = t.st, ![t.v].by = None, ![t.v].cool = FALSE]
  /\ Do(<<>>)
  /\ UNCHANGED <<search, match, acks>>

\* releaseAbandonedMatches: the matches only this account was ever in
ReleaseAbandoned ==
  LET t == Head(todo) IN
  /\ Now("abandon")
  /\ \E m \in t.pend :
       Do((IF AcceptRequired(m) /\ match[m].st # "ACCEPTED"
           THEN Dissolve(m) ELSE EndMatch(m, "now")) \o Rest(t, m))
  /\ UNCHANGED <<search, match, server, acks>>

Abandoned(a) ==
  {m \in MatchIds :
     LET rows == {s \in SearchIds : search[s].match = m} IN
     match[m].st \in Holding /\ rows # {} /\ \A s \in rows : search[s].acct = a}

-----------------------------------------------------------------------------
(* A search starts. *)

NewSearch(a, r, src, ask, leader) ==
  [NoSearch EXCEPT !.st = "SEARCHING", !.acct = a, !.req = r, !.src = src, !.ask = ask, !.leader = leader]

\* insert, or replaceLive (party_leader_id stays); own, m, acc: the row as it was read at first
Enter ==
  LET t == Head(todo)
      Sync(l) == <<[op |-> "sync", l |-> l, src |-> t.src, ask |-> t.ask, pend |-> t.pend]>>
  IN /\ Now("enter")
     /\ \/ /\ t.own = None
           /\ \E s \in FreshSearches :
                /\ search' = [search EXCEPT ![s] = NewSearch(t.a, t.r, t.src, t.ask, None)]
                /\ Do(Sync(s))
        \/ /\ t.own # None
           /\ search' = [search EXCEPT ![t.own] = NewSearch(t.a, t.r, t.src, t.ask, @.leader)]
           /\ Do(Leave(IF t.acc THEN {} ELSE Members(t.own), "CANCELLED", FALSE)
                 \o Left(t.m, t.acc) \o Sync(t.own))
     /\ UNCHANGED <<match, server, acks>>

\* syncParty: members that are no longer in the party leave, the others get a search
SyncParty ==
  LET t == Head(todo)
      stay == {s \in Members(t.l) : search[s].acct \in t.pend}
      absent == t.pend \ {search[s].acct : s \in stay}
  IN /\ Now("sync")
     /\ Do(Leave(Members(t.l) \ stay, "CANCELLED", FALSE)
           \o IF absent = {} THEN <<>> ELSE <<[t EXCEPT !.op = "add", !.pend = absent]>>)
     /\ UNCHANGED <<search, match, server, acks>>

\* Mutant: a member's own search stays.
AddMemberTwice ==
  LET t == Head(todo) IN
  /\ Now("add")
  /\ \E a \in t.pend, s \in FreshSearches :
       /\ search' = [search EXCEPT ![s] = NewSearch(a, None, t.src, t.ask, t.l)]
       /\ Do(<<[op |-> "tag", s |-> s]>> \o Rest(t, a))
  /\ UNCHANGED <<match, server, acks>>

AddMember ==
  LET t == Head(todo) IN
  /\ Now("add")
  /\ \E a \in t.pend :
       \/ /\ RowOf(a) # {}
          /\ Do(Leave(RowOf(a), "CANCELLED", TRUE) \o <<t>>)
          /\ UNCHANGED search
       \/ /\ RowOf(a) = {}
          /\ \E s \in FreshSearches :
               /\ search' = [search EXCEPT ![s] = NewSearch(a, None, t.src, t.ask, t.l)]
               /\ Do(<<[op |-> "tag", s |-> s]>> \o Rest(t, a))
  /\ UNCHANGED <<match, server, acks>>

\* setRequestId: "pt" and the row's own id
TagMember ==
  LET s == Head(todo).s IN
  /\ Now("tag")
  /\ search' = [search EXCEPT ![s].req = s]
  /\ Do(<<>>)
  /\ UNCHANGED <<match, server, acks>>

-----------------------------------------------------------------------------
(* runMatcher: placing, filling up, reserving, handing over. *)

PartySize(s) == 1 + Cardinality(Members(s))

\* Mutant: a party counts as one player.
JoinableAlone(s) ==
  {m \in MatchIds :
     /\ match[m].st = "FORMING" /\ match[m].mode = search[s].ask.mode
     /\ Players(m) < Required[match[m].mode]
     /\ CanServe(match[m].mode, Pool(m) \cap Allowed(search[s].ask.maps), None)}
Joinable(s) ==
  {m \in MatchIds :
     /\ match[m].st = "FORMING" /\ match[m].mode = search[s].ask.mode
     /\ Players(m) + PartySize(s) <= Required[match[m].mode]
     /\ CanServe(match[m].mode, Pool(m) \cap Allowed(search[s].ask.maps), None)}

\* a classic search takes the server of any of its variants
Wants(s) == IF search[s].ask.variants = {}
            THEN {[mode |-> search[s].ask.mode, maps |-> search[s].ask.maps]}
            ELSE search[s].ask.variants
\* Mutant: the map of one variant goes with the mode of another.
PickableMixed(s) ==
  {v \in Servers : /\ Free(v) /\ \E w \in Wants(s) : server[v].mode = w.mode
                   /\ \E w \in Wants(s) : server[v].map \in Allowed(w.maps)}
Pickable(s) ==
  {v \in Servers : Free(v) /\ \E w \in Wants(s) : server[v].mode = w.mode /\ server[v].map \in Allowed(w.maps)}

NewMatch(mode, v, map) == [NoMatch EXCEPT !.st = "FORMING", !.mode = mode, !.sv = v, !.map = map]
Join(m, s) == <<[op |-> "join", m |-> m, s |-> s]>>

PlaceAccept(s, rest) ==
  \/ /\ \E m \in Joinable(s) : Do(Join(m, s) \o rest)
     /\ UNCHANGED match
  \/ /\ Joinable(s) = {}
     /\ CanServe(search[s].ask.mode, Allowed(search[s].ask.maps), None)
     /\ \E m \in FreshMatches :
          /\ match' = [match EXCEPT ![m] = NewMatch(search[s].ask.mode, None, NoMap)]
          /\ Do(Join(m, s) \o rest)
  \/ /\ Joinable(s) = {}
     /\ \/ ~CanServe(search[s].ask.mode, Allowed(search[s].ask.maps), None)
        \/ FreshMatches = {}   \* bound: MatchIds
     /\ Do(rest) /\ UNCHANGED match

PlaceClassic(s, rest) ==
  \/ \E v \in Pickable(s), m \in FreshMatches :
       /\ match' = [match EXCEPT ![m] = NewMatch(server[v].mode, v, server[v].map)]
       /\ Do(Join(m, s) \o rest)
  \/ /\ Pickable(s) = {} \/ FreshMatches = {}   \* bound: MatchIds
     /\ Do(rest) /\ UNCHANGED match

PlaceSearch ==
  LET t == Head(todo) IN
  /\ Now("place")
  /\ \E s \in t.pend : IF search[s].ask.mode \in AcceptModes
                       THEN PlaceAccept(s, Rest(t, s)) ELSE PlaceClassic(s, Rest(t, s))
  /\ UNCHANGED <<search, server, acks>>

\* the leader first, then the members it has now
JoinMatch ==
  LET t == Head(todo) IN
  /\ Now("join")
  /\ Place(t.s, t.m, "MATCHED")
  /\ Do(<<[op |-> "gather", m |-> t.m, pend |-> Members(t.s)]>>)
  /\ UNCHANGED <<match, server, acks>>

GatherParty ==
  LET t == Head(todo) IN
  /\ Now("gather")
  /\ \/ /\ \E s \in t.pend : /\ Place(s, t.m, "MATCHED")
                             /\ Do(<<[t EXCEPT !.pend = @ \ {s}]>>)
     \/ /\ t.pend = {}
        /\ Do(IF Players(t.m) < Required[match[t.m].mode] THEN <<>> ELSE <<[op |-> "full", m |-> t.m]>>)
        /\ UNCHANGED search
  /\ UNCHANGED <<match, server, acks>>

\* completeMatch: markReady of a classic match, markFull of an Accept match
CompleteMatch ==
  LET m == Head(todo).m IN
  /\ Now("full")
  /\ match' = [match EXCEPT ![m].st = CASE @ = "FORMING" /\ AcceptRequired(m) -> "FULL"
                                        [] @ \in Gathering /\ ~AcceptRequired(m) -> "READY"
                                        [] OTHER -> @]
  /\ Do(IF AcceptRequired(m) THEN Loop("reserve", {m}) ELSE Assign(m))
  /\ UNCHANGED <<search, server, acks>>

\* the enabled profiles of the mode the match could be played with, highest priority first
Fitting(m) ==
  {p \in ProfileIds :
     /\ fakes[p] # None /\ fakes[p].on /\ fakes[p].mode = match[m].mode
     /\ CanServe(match[m].mode, Pool(m) \cap Allowed(fakes[p].maps), fakes[p].server)}
Best(ps) == {p \in ps : \A q \in ps : fakes[p].prio >= fakes[q].prio}
\* Mutant: the players of the profile are not limited to the free places.
LeastUncapped(a, b) == a
Least(a, b) == IF a < b THEN a ELSE b

FillMatch ==
  LET t == Head(todo) IN
  /\ Now("fill")
  /\ \E m \in t.pend :
       LET real == Cardinality(LiveRows(m))
           skip == real = 0 \/ real >= Required[match[m].mode] \/ Fitting(m) = {}
       IN \/ skip /\ Do(Rest(t, m)) /\ UNCHANGED match
          \/ /\ ~skip
             /\ \E p \in Best(Fitting(m)) :
                  match' = [match EXCEPT ![m].prof = p,
                              ![m].fake = Least(fakes[p].players, Required[match[m].mode] - real)]
             /\ Do(<<[op |-> "full", m |-> m]>> \o Rest(t, m))
  /\ UNCHANGED <<search, server, acks>>

OnlyServer(m) == IF match[m].prof = None \/ fakes[match[m].prof] = None
                 THEN None ELSE fakes[match[m].prof].server
\* Mutant: a server with the wrong map.
CandidatesAnyMap(m) ==
  {v \in Servers : /\ Free(v) /\ server[v].mode = match[m].mode
                   /\ OnlyServer(m) \in {None, v}}
Candidates(m) ==
  {v \in Servers : /\ Free(v) /\ server[v].mode = match[m].mode
                   /\ server[v].map \in Pool(m) /\ OnlyServer(m) \in {None, v}}

\* Mutant: the match and the server in two statements.
ReserveServerInTwo ==
  LET t == Head(todo) IN
  /\ Now("reserve")
  /\ \E m \in t.pend :
       \/ /\ match[m].st = "FULL"
          /\ \E v \in Candidates(m) :
               match' = [match EXCEPT ![m].st = "READY", ![m].sv = v, ![m].map = server[v].map]
          /\ Do(<<t>>) /\ UNCHANGED server
       \/ /\ match[m].st = "READY"
          /\ server' = [server EXCEPT ![match[m].sv].st = "RESERVED", ![match[m].sv].by = m]
          /\ Do(Assign(m) \o Rest(t, m)) /\ UNCHANGED match
  /\ UNCHANGED <<search, acks>>

\* the one transaction of the code: AVAILABLE -> RESERVED with FULL -> READY
ReserveServer ==
  LET t == Head(todo) IN
  /\ Now("reserve")
  /\ \E m \in t.pend :
       \/ /\ match[m].st # "FULL" \/ Candidates(m) = {}
          /\ Do(Rest(t, m)) /\ UNCHANGED <<match, server>>
       \/ /\ match[m].st = "FULL"
          /\ \E v \in Candidates(m) :
               /\ server' = [server EXCEPT ![v].st = "RESERVED", ![v].by = m, ![v].cool = FALSE]
               /\ match' = [match EXCEPT ![m].st = "READY", ![m].sv = v, ![m].map = server[v].map]
               /\ Do((IF v \in reads THEN <<>> ELSE Assign(m)) \o Rest(t, m))
  /\ UNCHANGED <<search, acks>>

\* promoteMatchesWaitingForTheirServer; rosterAckTimeout may have passed
PromoteMatch ==
  LET t == Head(todo) IN
  /\ Now("promote")
  /\ \E m \in t.pend :
       \/ Do(Assign(m) \o Rest(t, m))
       \/ m \notin acks /\ match[m].sv \in reads /\ Do(Rest(t, m))
  /\ UNCHANGED <<search, match, server, acks>>

\* assignMembers, then startAccepting
AssignRow ==
  LET t == Head(todo) IN
  /\ Now("assign")
  /\ \E s \in t.pend : /\ Place(s, t.m, AssignedStatus(t.m))
                       /\ Do(<<[t EXCEPT !.pend = @ \ {s}]>>)
  /\ UNCHANGED <<match, server, acks>>

StartAccepting ==
  LET t == Head(todo)
      begins == AcceptRequired(t.m) /\ match[t.m].st = "READY"
  IN /\ Now("assign") /\ t.pend = {}
     /\ match' = IF begins THEN [match EXCEPT ![t.m].st = "ACCEPTING"] ELSE match
     /\ Do(IF begins /\ \A s \in LiveRows(t.m) : ~MustAccept(s)
           THEN <<[op |-> "accepted", m |-> t.m]>> ELSE <<>>)
     /\ UNCHANGED <<search, server, acks>>

MarkAccepted ==
  LET m == Head(todo).m IN
  /\ Now("accepted")
  /\ match' = [match EXCEPT ![m].st = IF @ \in {"READY", "ACCEPTING"} THEN "ACCEPTED" ELSE @]
  /\ Do(<<[op |-> "connect", m |-> m]>>)
  /\ UNCHANGED <<search, server, acks>>

PromoteAccepted ==
  LET m == Head(todo).m IN
  /\ Now("connect")
  /\ search' = [s \in SearchIds |->
       IF search[s].match = m /\ search[s].st = "WAITING_ACCEPT"
       THEN [search[s] EXCEPT !.st = "READY_TO_CONNECT"] ELSE search[s]]
  /\ Do(<<>>)
  /\ UNCHANGED <<match, server, acks>>

-----------------------------------------------------------------------------
(* The handlers.  A request turned away (another request_id, no live        *)
(* search, a match that is not accepting) changes nothing and is no step.   *)

Fits(s, r) == None \in {r, search[s].req} \/ r = search[s].req
Asked(s)   == Requests \cup {None, search[s].req}

Start(a, r, src, ask, party) ==
  LET own    == RowOf(a)
      wanted == IF party = None THEN {} ELSE party \ {a}
      repeat == \E s \in own : IF r # None THEN search[s].req = r
                               ELSE search[s].req = None /\ search[s].ask = ask
      enter(s) == [op |-> "enter", a |-> a, r |-> r, src |-> src, ask |-> ask, pend |-> wanted, own |-> s,
                   m |-> IF s = None THEN None ELSE search[s].match,
                   acc |-> IF s = None THEN FALSE ELSE search[s].acc]
      inserts == Cardinality(wanted) + IF own = {} THEN 1 ELSE 0
  IN /\ Cardinality(FreshSearches) >= inserts   \* bound: SearchIds
     /\ \/ /\ repeat
           /\ \E s \in own :
                Begin((IF party = None THEN <<>>
                       ELSE <<[op |-> "sync", l |-> s, src |-> src, ask |-> ask, pend |-> wanted]>>)
                      \o Matcher)
        \/ /\ ~repeat
           /\ \E s \in IF own = {} THEN {None} ELSE own :
                Begin(Loop("abandon", Abandoned(a)) \o <<enter(s)>> \o Matcher)
     /\ UNCHANGED <<search, match, server, fakes, fakeOn, acks, reads>>

\* poll and pollAccount: a search that still waits is touched and the matcher runs
Poll(s) ==
  /\ search[s].st \in {"SEARCHING", "MATCHED"}
  /\ Begin(Matcher)
  /\ UNCHANGED <<search, match, server, fakes, fakeOn, acks, reads>>

Cancel(s, r) ==
  /\ search[s].st \in Live /\ Fits(s, r)
  /\ Begin(Leave({s}, "CANCELLED", TRUE) \o Matcher)
  /\ UNCHANGED <<search, match, server, fakes, fakeOn, acks, reads>>

Remove(s) ==
  /\ search[s].st \in Live
  /\ Begin(Leave({s}, "REMOVED", TRUE) \o Matcher)
  /\ UNCHANGED <<search, match, server, fakes, fakeOn, acks, reads>>

\* Mutant: the first player to accept accepts for all.
AcceptForAll(s, r) ==
  LET m == search[s].match IN
  /\ search[s].st = "WAITING_ACCEPT" /\ Fits(s, r)
  /\ m # None /\ match[m].st = "ACCEPTING"
  /\ search' = [search EXCEPT ![s].acc = TRUE]
  /\ Begin(<<[op |-> "accepted", m |-> m]>> \o Matcher)
  /\ UNCHANGED <<match, server, fakes, fakeOn, acks, reads>>

Accept(s, r) ==
  LET m == search[s].match IN
  /\ search[s].st = "WAITING_ACCEPT" /\ Fits(s, r)
  /\ m # None /\ match[m].st = "ACCEPTING"
  /\ search' = [search EXCEPT ![s].acc = TRUE]
  /\ LET everybody == \A o \in LiveRows(m) : ~MustAccept(o) \/ o = s \/ search[o].acc
     IN Begin((IF everybody THEN <<[op |-> "accepted", m |-> m]>> ELSE <<>>) \o Matcher)
  /\ UNCHANGED <<match, server, fakes, fakeOn, acks, reads>>

RunTick ==
  /\ Begin(Tick)
  /\ UNCHANGED <<search, match, server, fakes, fakeOn, acks, reads>>

\* GET /servers/roster, and POST /servers/roster/ready for a match of that server
RosterForServer(v) ==
  /\ "roster" \in Calls /\ server[v].st # "ABSENT" /\ v \notin reads
  /\ reads' = reads \cup {v}
  /\ Begin(<<>>)
  /\ UNCHANGED <<search, match, server, fakes, fakeOn, acks>>

ConfirmRoster(v, m) ==
  /\ "roster" \in Calls /\ server[v].st # "ABSENT"
  /\ match[m].sv = v /\ match[m].st \in Holding
  /\ reads' = reads \cup {v}
  /\ acks' = acks \cup {m}
  /\ Begin(IF match[m].st = "READY" THEN Assign(m) ELSE <<>>)
  /\ UNCHANGED <<search, match, server, fakes, fakeOn>>

\* Mutants of SetFreed: the state of a server is set over the head of its match; a match that is still to be
\* accepted just ends.
SetNotFreed(v, st) == <<[op |-> "set", v |-> v, st |-> st]>>
SetFreedEnds(v, st) ==
  LET m == server[v].by IN
  (IF m # None THEN EndMatch(m, "keep") ELSE <<>>) \o SetNotFreed(v, st)
\* freeServer, then setState or delete
SetFreed(v, st) ==
  LET m == server[v].by
      unfinished == \/ match[m].st \in Gathering
                    \/ AcceptRequired(m) /\ match[m].st \in {"READY", "ACCEPTING"}
  IN (CASE m # None /\ unfinished -> Dissolve(m)
        [] m # None /\ ~unfinished /\ match[m].st \in Holding -> EndMatch(m, "keep")
        [] OTHER -> <<>>) \o <<[op |-> "set", v |-> v, st |-> st]>>

SetServerState(v, st) ==
  /\ "state" \in Calls /\ server[v].st # "ABSENT"
  /\ Begin(SetFreed(v, st) \o Matcher)
  /\ UNCHANGED <<search, match, server, fakes, fakeOn, acks, reads>>

DeleteServer(v) ==
  /\ "delete" \in Calls /\ server[v].st # "ABSENT"
  /\ Begin(SetFreed(v, "ABSENT"))
  /\ UNCHANGED <<search, match, server, fakes, fakeOn, acks, reads>>

CreateServer(v, setup, st, on) ==
  /\ "create" \in Calls /\ server[v].st = "ABSENT"
  /\ server' = [server EXCEPT ![v] = [st |-> st, by |-> None, cool |-> FALSE, on |-> on,
                                      mode |-> setup.mode, map |-> setup.map]]
  /\ Begin(Matcher)
  /\ UNCHANGED <<search, match, fakes, fakeOn, acks, reads>>

\* update and setEnabled: never touch the state or the reservation
EditServer(v, setup, on) ==
  /\ "edit" \in Calls /\ server[v].st # "ABSENT"
  /\ server' = [server EXCEPT ![v].mode = setup.mode, ![v].map = setup.map, ![v].on = on]
  /\ Begin(Matcher)
  /\ UNCHANGED <<search, match, fakes, fakeOn, acks, reads>>

EnableServer(v, on) ==
  /\ "enable" \in Calls /\ server[v].st # "ABSENT" /\ server[v].on # on
  /\ server' = [server EXCEPT ![v].on = on]
  /\ Begin(Matcher)
  /\ UNCHANGED <<search, match, fakes, fakeOn, acks, reads>>

\* what a game server says of itself: its map, and BUSY, AVAILABLE or nothing (None)
Report(v, map, st) ==
  /\ "report" \in Calls /\ server[v].st # "ABSENT"
  /\ server' = [server EXCEPT ![v].map = map]
  /\ Begin((CASE st = "BUSY" -> SetFreed(v, "BUSY")
              [] st = "AVAILABLE" /\ server[v].st = "BUSY" -> <<[op |-> "set", v |-> v, st |-> st]>>
              [] OTHER -> <<>>) \o Matcher)
  /\ UNCHANGED <<search, match, fakes, fakeOn, acks, reads>>

\* the Fake Players settings of the panel
SetFakeMaster(on) ==
  /\ "master" \in Calls /\ fakeOn # on /\ fakeOn' = on
  /\ Begin(Matcher)
  /\ UNCHANGED <<search, match, server, fakes, acks, reads>>

WriteProfile(p, profile) ==
  /\ fakes[p] # profile /\ fakes' = [fakes EXCEPT ![p] = profile]
  /\ Begin(Matcher)
  /\ UNCHANGED <<search, match, server, fakeOn, acks, reads>>

-----------------------------------------------------------------------------
(* Time and failure. *)

\* serverReleaseCooldown is over
CooldownOver(v) ==
  /\ server[v].cool /\ server' = [server EXCEPT ![v].cool = FALSE]
  /\ Begin(<<>>)
  /\ UNCHANGED <<search, match, fakes, fakeOn, acks, reads>>

\* the server has not asked for its roster for rosterPollWindow
PollWindowOver(v) ==
  /\ v \in reads /\ reads' = reads \ {v}
  /\ Begin(<<>>)
  /\ UNCHANGED <<search, match, server, fakes, fakeOn, acks>>

\* the process dies and starts again: the database stays, the memory is gone
Crash ==
  /\ crashes < MaxCrashes   \* bound
  /\ crashes' = crashes + 1
  /\ todo' = <<>> /\ acks' = {} /\ reads' = {}
  /\ UNCHANGED <<search, match, server, fakes, fakeOn>>

-----------------------------------------------------------------------------
Init ==
  /\ search = [s \in SearchIds |-> NoSearch]
  /\ match = [m \in MatchIds |-> NoMatch]
  /\ server = [v \in Servers |-> [st |-> "AVAILABLE", by |-> None, cool |-> FALSE, on |-> TRUE,
                                  mode |-> Fleet[v].mode, map |-> Fleet[v].map]]
  /\ fakes = [p \in ProfileIds |-> None]
  /\ fakeOn = TRUE
  /\ acks = {} /\ reads = {} /\ todo = <<>> /\ crashes = 0

Step ==
  \/ Scan \/ Breakup \/ Retire \/ Lapse \/ ReleaseOrphan \/ DeleteOld
  \/ LeaveRow \/ MemberLeft \/ DissolveRow \/ End \/ Release \/ SetServer
  \/ ReleaseAbandoned \/ Enter \/ SyncParty \/ AddMember \/ TagMember
  \/ PlaceSearch \/ JoinMatch \/ GatherParty \/ CompleteMatch \/ FillMatch
  \/ ReserveServer \/ PromoteMatch \/ AssignRow \/ StartAccepting
  \/ MarkAccepted \/ PromoteAccepted

Player ==
  \/ \E a \in Accounts, r \in Requests, src \in Sources, ask \in Choices :
       \E party \in Parties[a] : Start(a, r, src, ask, party)
  \/ \E s \in SearchIds : \/ Poll(s) \/ Remove(s)
                          \/ \E r \in Asked(s) : Cancel(s, r) \/ Accept(s, r)

Operator ==
  \E v \in Servers :
    \/ \E st \in {"AVAILABLE", "BUSY"} : SetServerState(v, st)
    \/ DeleteServer(v)
    \/ \E setup \in Setups, on \in BOOLEAN :
         \/ EditServer(v, setup, on)
         \/ \E st \in {"AVAILABLE", "BUSY"} : CreateServer(v, setup, st, on)
    \/ \E on \in BOOLEAN : EnableServer(v, on)

GameServer ==
  \E v \in Servers :
    \/ RosterForServer(v)
    \/ \E m \in MatchIds : ConfirmRoster(v, m)
    \/ \E st \in {None, "AVAILABLE", "BUSY"}, map \in {server[v].map} \cup {k.map : k \in Setups} :
         Report(v, map, st)

FakePlayers ==
  \/ \E on \in BOOLEAN : SetFakeMaster(on)
  \/ \E p \in ProfileIds, profile \in Profiles \cup {None} : WriteProfile(p, profile)

Time == RunTick \/ \E v \in Servers : CooldownOver(v) \/ PollWindowOver(v)

Next == Step \/ Player \/ Operator \/ GameServer \/ FakePlayers \/ Time \/ Crash

Spec == Init /\ [][Next]_vars

\* the handler that runs goes on, the scheduler ticks again and again, and a timer that can be
\* over is over some day: fairness of the clock, none of any client, server or administrator
Due(op, x) == Scan /\ todo' # <<>> /\ Head(todo').op = op /\ x \in Head(todo').pend
Fairness ==
  /\ WF_vars(Step) /\ SF_vars(RunTick)
  /\ \A m \in MatchIds : /\ SF_vars(Due("breakup", m)) /\ SF_vars(Due("lapse", m))
                          /\ SF_vars(PromoteMatch /\ todo' # <<>> /\ Head(todo').op = "assign" /\ Head(todo').m = m)
  /\ \A v \in Servers : SF_vars(Due("orphan", v))
  /\ \A s \in SearchIds : SF_vars(Due("retire", s))

FairSpec == Spec /\ Fairness

-----------------------------------------------------------------------------
(* Types. *)

SearchType == [st : Live \cup Finished \cup {"NONE"}, acct : Accounts \cup {None},
               req : Requests \cup SearchIds \cup {None}, src : Sources \cup {None},
               ask : Choices, match : MatchIds \cup {None},
               acc : BOOLEAN, leader : SearchIds \cup {None}]
MatchType == [st : Gathering \cup Holding \cup Over \cup {"NONE"}, mode : Modes \cup {None},
              sv : Servers \cup {None}, map : MapOrNone, fake : Nat, prof : ProfileIds \cup {None}]
ServerType == [st : {"AVAILABLE", "RESERVED", "BUSY", "ABSENT"}, by : MatchIds \cup {None},
               cool : BOOLEAN, on : BOOLEAN, mode : Modes, map : MapOrNone]

Wish == {"AVAILABLE", "BUSY", "ABSENT"}
Task ==
  [op : {"scan"}, at : 1..LastPhase + 1]
  \cup [op : {"leave"}, pend : SUBSET SearchIds, st : Finished, party : BOOLEAN]
  \cup [op : {"left"}, m : MatchIds, acc : BOOLEAN]
  \cup [op : {"end"}, m : MatchIds, st : Over, pend : SUBSET SearchIds,
        free : {"cool", "now", "keep"}]
  \cup [op : {"release"}, m : MatchIds, free : {"cool", "now"}]
  \cup [op : {"set"}, v : Servers, st : Wish]
  \cup [op : {"breakup", "lapse", "abandon", "fill", "reserve", "promote"}, pend : SUBSET MatchIds]
  \cup [op : {"retire", "place"}, pend : SUBSET SearchIds]
  \cup [op : {"orphan"}, pend : SUBSET Servers]
  \cup [op : {"purge"}]
  \cup [op : {"enter"}, a : Accounts, r : Requests, src : Sources, ask : Choices,
        pend : SUBSET Accounts, own : SearchIds \cup {None}, m : MatchIds \cup {None}, acc : BOOLEAN]
  \cup [op : {"sync", "add"}, l : SearchIds, src : Sources, ask : Choices, pend : SUBSET Accounts]
  \cup [op : {"tag"}, s : SearchIds]
  \cup [op : {"join"}, m : MatchIds, s : SearchIds]
  \cup [op : {"gather", "assign"}, m : MatchIds, pend : SUBSET SearchIds]
  \cup [op : {"full", "accepted", "connect"}, m : MatchIds]

\* TypeOK: the rows keep their columns' types and the running handler its tasks' shapes.
TypeOK ==
  /\ search \in [SearchIds -> SearchType]
  /\ match \in [MatchIds -> MatchType]
  /\ server \in [Servers -> ServerType]
  /\ fakes \in [ProfileIds -> Profiles \cup {None}]
  /\ fakeOn \in BOOLEAN
  /\ acks \subseteq MatchIds /\ reads \subseteq Servers
  /\ todo \in Seq(Task)
  /\ crashes \in Nat

-----------------------------------------------------------------------------
(* Safety. *)

\* HeldServerIsReserved: from the hand-over of a server to an Accept match until that match is
\* over, between any two statements of any handler and across a crash, the server is RESERVED
\* for this very match (the transaction of reserveServer, dissolve and freeServer).
HeldServerIsReserved ==
  \A m \in MatchIds :
    match[m].st \in Holding /\ AcceptRequired(m)
      => /\ match[m].sv # None
         /\ server[match[m].sv].st = "RESERVED" /\ server[match[m].sv].by = m

\* how far an Accept match is, in the words of ServerPool
PhaseOf(row) ==
  CASE row.mode \notin AcceptModes \/ row.st = "NONE"     -> "none"
    [] row.mode \in AcceptModes /\ row.st \in Gathering -> "waiting"
    [] row.mode \in AcceptModes /\ row.st \in Holding   -> "held"
    [] row.mode \in AcceptModes /\ row.st \in Over      -> "over"
Promise == INSTANCE ServerPool WITH
  Matches <- MatchIds,
  holder <- [v \in Servers |-> server[v].by],
  phase <- [m \in MatchIds |-> PhaseOf(match[m])]

\* PoolSpec: the handlers, cut short by restarts and raced by administrators and game servers,
\* treat the servers as ServerPool says: an Accept match gets one server, which nothing else
\* holds, once; it is given back or taken away only when the match is over, and a match is
\* forgotten only after its server (reserveServer, freeServer, release, sweep and purge).
PoolSpec == Promise!Spec

\* NoOverfill: a gathering match never holds more players, virtual ones included, than its mode
\* takes, whoever joins, leaves and comes back (place, applyFakeProfiles, revertToForming).
NoOverfill ==
  \A m \in MatchIds :
    match[m].st \in Gathering /\ AcceptRequired(m) => Players(m) <= Required[match[m].mode]

\* OneLiveSearch: an account is in one search only, as a player of its own and as a member of
\* somebody else's party (start, syncParty; a second row would break ux_search_live_account).
OneLiveSearch == \A a \in Accounts : Cardinality(RowOf(a)) <= 1

\* SearchFollowsMatch: whenever no handler runs, a player who waits is in a match that still
\* can start, one who is asked to accept is in a match that is accepting, and one who is told
\* to connect to an Accept match is told so by a match all of whose players accepted.
SearchFollowsMatch ==
  todo = <<>> =>
    \A s \in SearchIds :
      LET m == search[s].match IN
      /\ search[s].st = "MATCHED" => m # None /\ match[m].st \in Gathering \cup {"READY"}
      /\ search[s].st = "WAITING_ACCEPT" => m # None /\ match[m].st = "ACCEPTING"
      /\ search[s].st = "READY_TO_CONNECT" =>
           m # None /\ match[m].st \notin Gathering \cup {"ACCEPTING"}

\* ReservedServerIsHeld: no handler that runs to its end leaves a server RESERVED for a match that
\* does not hold it any more: without a crash nothing is left for the orphan timer to clean up.
ReservedServerIsHeld ==
  todo = <<>> => \A v \in Servers : server[v].st = "RESERVED" => Held(v)

\* NobodyLeftOut: when the matcher has run, a search that is in no match is one that no enabled
\* server of its mode could ever serve: neither the matcher nor the end of a match loses anybody.
NobodyLeftOut ==
  [][todo # <<>> /\ Head(todo).op = "scan" /\ todo' = <<>> /\ crashes' = crashes /\ FreshMatches # {}
     => \A s \in SearchIds :
          search[s].st = "SEARCHING" /\ search[s].ask.mode \in AcceptModes
            => ~CanServe(search[s].ask.mode, Allowed(search[s].ask.maps), None)]_vars

\* PartyTogether: whenever no handler runs, a party member that is in a match is in the match of
\* its leader ("the whole party, or nobody"), unless the leader accepted and searches again: then
\* the member has been asked to accept at least, and the leader is in no other match without it.
PartyTogether ==
  todo = <<>> =>
    \A s, l \in SearchIds :
      /\ search[s].st \in Live /\ search[s].match # None
      /\ search[s].leader = l /\ search[l].st \in Live
      => \/ search[s].match = search[l].match
         \/ search[l].match = None /\ search[s].st \in {"WAITING_ACCEPT", "READY_TO_CONNECT"}

\* FullBeforeServer: a server is reserved for a match only when it has all its players, real
\* ones or those of its Fake Players profile.
FullBeforeServer ==
  [][\A m \in MatchIds : match[m].st = "FULL" /\ match'[m].st = "READY"
       => match[m].prof # None \/ Players(m) >= Required[match[m].mode]]_vars

\* ReservedServerFits: the server reserved for a match is enabled, serves the mode of every player
\* placed for itself (a party member plays what its leader does), and runs a map every single
\* member asked for when it last (re)started its search.
ReservedServerFits ==
  [][\A m \in MatchIds : match[m].st = "FULL" /\ match'[m].st = "READY"
       => LET v == match'[m].sv IN
          /\ server[v].on
          /\ \A s \in LiveRows(m) :
               /\ search[s].leader = None => search[s].ask.mode = server[v].mode
               /\ server[v].map \in Allowed(search[s].ask.maps)]_vars

\* ClassicServerFits: a player of a classic mode, placed for itself, is sent to a server that one of
\* the modes it selected serves, on a map it selected for that very mode (resolveVariants, pickServer).
ClassicServerFits ==
  [][\A s \in SearchIds :
       /\ search[s].st = "MATCHED" /\ search'[s].st = "READY_TO_CONNECT"
       /\ search[s].ask.mode \notin AcceptModes /\ search[s].leader = None
       => LET v == match[search[s].match].sv IN
          \E w \in Wants(s) : w.mode = server[v].mode /\ server[v].map \in Allowed(w.maps)]_vars

\* EverybodyAccepted: a match is accepted only once every player of it that has a client has
\* accepted this match since it was asked to: an acceptance never carries over to another match.
EverybodyAccepted ==
  [][\A m \in MatchIds : match[m].st # "ACCEPTED" /\ match'[m].st = "ACCEPTED"
       => \A s \in LiveRows(m) : MustAccept(s) => search[s].acc]_vars

\* ReservationEnds: no server stays reserved for one match for ever, whatever the players and the
\* game server do or fail to do and wherever the process dies: the roster and Accept timeouts,
\* the reservation TTL or the orphan timer gives it back.
ReservationEnds ==
  \A v \in Servers, m \in MatchIds : server[v].by = m ~> server[v].by # m

\* AskedPlayerGoesOn: a player who was asked to accept or told to connect is not kept from
\* searching again by that answer for ever (listAssignedBefore), not even after a crash.
AskedPlayerGoesOn ==
  \A s \in SearchIds :
    search[s].st \in {"WAITING_ACCEPT", "READY_TO_CONNECT"}
      ~> search[s].st \notin {"WAITING_ACCEPT", "READY_TO_CONNECT"}

\* CooldownAfterBrokenAccept: a server whose match broke after the hand-over is given back with a
\* cooldown, for its game server still has to see that the match is gone; while it cools down no
\* match gets it, and only two things end the cooldown: its time, or an order that sets the state of
\* this very server (the administrator, a server that reports BUSY, delete).  Such an order ends it
\* at once, even in the handler that broke the match: setState writes available_after = NULL.
CooldownAfterBrokenAccept ==
  [][\A v \in Servers :
       /\ server[v].by # None /\ server'[v].by = None /\ server'[v].st = "AVAILABLE"
          /\ match[server[v].by].st = "CANCELLED"
          => server'[v].cool
       /\ server[v].cool /\ ~server'[v].cool
          => CooldownOver(v) \/ (todo # <<>> /\ Head(todo).op = "set" /\ Head(todo).v = v)
       /\ server[v].cool => server'[v].by = None]_vars

=============================================================================
