# Formal model of csgo2021_gc

The repository lets a 2021 build of CS:GO find matches without Valve's servers. A library loaded into the game
(`csgo_gc/`) plays the part of the game coordinator (GC) in the client and in the dedicated server (srcds); a Spring Boot
service (`java-backend/`) is the matchmaker both of them ask over HTTP. This directory models the state machines of that
system in TLA+, checks them with TLC on small instances and proves the most important facts about them with TLAPS.

## 1. The system

### Components and their state

| component | source | state | operations |
|---|---|---|---|
| matcher core | `search/SearchService`, `SearchRepository`, `MatchRepository`, `SearchReaper` | tables `matchmaking_search`, `matchmaking_match` | start, poll, cancel, remove, accept, tick (expire, runMatcher) |
| game-server registry | `server/GameServerService`, `GameServerRepository` | table `game_server` | create, update, setEnabled, setState, delete, report |
| Fake Players | `fake/*` | table `fake_search`, the master switch | add, update, enable, delete a profile; applyFakeProfiles |
| roster API | `SearchService.rosterForServer`, `confirmRoster` | `rosterPolls`, `rosterAcks`, in memory only | a game server reads its roster, confirms that it is armed |
| snapshot stores | `skin/*`, `equipment/*` | one snapshot per account and kind, in memory only | submit, read with the roster, purge |
| HTTP, admin panel, security, login throttle | `*Controller`, `config/*`, `web/*` | sessions, a counter per address | parse, authorise, call a service |
| reservation lease | `csgo_gc/reservation_keepalive.h` | one reservation of a srcds, client count | Start, Tick, Stop, ClientJoined, ClientLeft |
| roster feed | `csgo_gc/server_roster.*` | the roster that is armed, the match it is for | OnSnapshot, OnFakesReady, OnLegacyArmed, OnPlayersChanged; a polling thread |
| backend client | `csgo_gc/backend_client.*` | one search session, a watch on the account, a queue of jobs, a worker thread | start, cancel, report accepted, poll, adopt a party leader's search |
| client and server GC | `csgo_gc/gc_client.*`, `gc_server.*` | the pending accept, the party, the reservation | game messages, networking, backend results |
| GC thread and queues | `csgo_gc/gc_shared.*` | two event queues, a stop flag | PostToGC, PostToHost, StopThread |
| accept test roster | `csgo_gc/test_accept.*` | fake participants of a reservation | tick, sniffed reservation checks |
| inventory, items, cases | `inventory.*`, `keyvalue.*`, `item_schema.*`, `case_opening.*` | the items of one player, base weapons that are equipped, the last id; `inventory.txt` | equip, use, open, buy, delete, move, stickers, names, kills, storage units |
| GC networking | `networking_client.*`, `networking_server.*` | the game server a player is on, its ticket | connect, send, clear ticket |

### How they interact

* The client GC's worker calls `start`, then `poll` once a second; a party member's GC calls `pollAccount` and so learns of
  the search its leader started for it. `cancel` is also what the client sends when it connects.
* Everything that changes a search or a match ends in `runMatcher`: place the unplaced, fill with virtual players, reserve
  servers for the full matches, hand over those whose game server is ready. `SearchReaper` runs `tick` (timers, then the
  matcher) every second.
* A srcds started with `-gc_mode` reads the roster of its match and confirms it once armed; the matcher holds the players
  of the match back until then, or until `rosterAckTimeout` passes or the server stops asking.
* The player's game follows one search: its worker registers it, polls it and posts what changes as an event for the GC
  thread, which shows the popup. When the game server says that everybody accepted (a packet 0x25), the GC reports it and waits
  for the word of the backend; with both it connects.
* The game asks its GC about items by the ids of its own copy; the GC changes its items, tells the game and, over the network,
  the game server.
* `GameServerService` calls back into the matcher (`freeServer`, `serversChanged`) when a server is taken away or changes.
* All these handlers run under the monitor of `SearchService`: one at a time. Every SQL statement is its own transaction,
  except the two updates of `reserveServer`, so the process can die between any two of them and comes back with the
  database as it is and its in-memory maps empty.

### What is hard here

Handlers of many statements that can be cut short; rows read before a call that changes them; timers (stale search, roster
acknowledgement, Accept, reservation TTL, orphaned reservation, cooldown) racing each other and late answers; a party that
is several rows in one place; a server that two parties to a match (administrator, game server) may take away at any
phase; virtual players that are a number on a match while real ones come and go. `PROJECT.json` lists the hazards one by
one, each at its line, with the properties that cover it.

### What makes each component correct

* Matcher: a search and its match agree about the phase both are in; a server is handed to one match at a time and comes
  back; only full matches get a server, and only one all players can play on; nobody is asked twice or accepted for;
  parties are placed whole; nobody who can be placed is left out; nobody and no server is stuck for ever.
* Registry: taking a server away ends or breaks up the match that holds it, according to its phase.
* Roster feed: at most one confirmation for a match, only for the roster that is armed, never a change under a player; a player is
  given the skins and base weapons that came with the roster, whichever comes first, he or they.
* Lease: a server with clients on it keeps its reservation; an idle one gives it back.
* Backend client and GCs: an answer is applied to the search it belongs to; the game connects only to a match that it announced, once,
  with every accept; no popup stays up for ever.
* Inventory: an id is given once; one thing in one place; the game and the game server know what the GC knows; a clean exit keeps everything.

## 2. `Matchmaking`: the backend

One module models the matcher core, the registry, Fake Players and the roster API, because every one of their handlers
ends in the same matcher and touches the same three tables.

### State

`search`, `match` and `server` are the tables, by id (a row that does not exist is `NONE` or `ABSENT`). Of a search the
model keeps its status, account, request id, source, what it asks for (mode, maps, variants), match, whether it accepted,
and its party leader; of a match its status, mode, server, map, number of virtual players and profile; of a server its
state, the match it is reserved for, whether it cools down, whether it is enabled, mode and map. `fakes` and `fakeOn` are the Fake
Players settings; `acks` and `reads` the in-memory maps. `todo` is what the handler that runs still has to do.

### Steps

A handler (`Start`, `Cancel`, `Accept`, `SetServerState`, `RunTick`, ...) is enabled when no other runs; it puts its tasks
in `todo`. Each step executes the head of `todo` - one SQL statement, or the decision between two - and may put further
tasks in front of the rest, the way a call does. Examples: `Dissolve` becomes one `DissolveRow` per member, `End`, then
`Release`; `runMatcher` is a `scan` over its phases, each producing the loop over its query (`place`, `fill`, `reserve`,
`promote`). `Crash` empties `todo` and the in-memory maps and keeps the tables. A row read early and used late (the
existing search in `start`, the acceptance of a leaver) is carried in its task, with the value it had.

| code | definitions |
|---|---|
| `start`, `replaceLive`, `syncParty`, `releaseAbandonedMatches` | `Start`, `ReleaseAbandoned`, `Enter`, `SyncParty`, `AddMember`, `TagMember` |
| `cancel`, `remove`, stale searches, `finishPartyMembers`, `memberLeft` | `Cancel`, `Remove`, `LeaveRow`, `MemberLeft` |
| `dissolve`, `endMatch`, `release`, `freeServer` | `Dissolve`, `DissolveRow`, `End`, `Release`, `SetFreed`, `SetServer` |
| `place`, `joinable`, `join`, `completeMatch`, `pickServer` | `PlaceSearch`, `Joinable`, `Pickable`, `JoinMatch`, `GatherParty`, `CompleteMatch` |
| `applyFakeProfiles`, `pickFakeProfile` | `FillMatch`, `Fitting`, `Best` |
| `reserveServer` (one transaction), `serverReserved` | `ReserveServer`, `Candidates` |
| `assignMembers`, `startAccepting`, `accept` | `AssignRow`, `StartAccepting`, `Accept`, `MarkAccepted`, `PromoteAccepted` |
| `expire` | `Scan` (phases 1 to 8), `Breakup`, `Retire`, `Lapse`, `ReleaseOrphan`, `DeleteOld` |
| `rosterForServer`, `confirmRoster`, `promoteMatches...` | `RosterForServer`, `ConfirmRoster`, `PromoteMatch` |

### Abstractions

* No clock. A timeout is the choice that it may be over for any of the rows it could be over for. Four orders that the
  default durations fix are kept: an assigned search outlives the Accept (2 min > 25 s), a reservation outlives both the roster and
  the Accept timeout (10 min > 50 s; `Outage = TRUE` drops this for a process that was away longer), retention outlives the
  reservation (1 h > 10 min), and the Accept deadline is looked at first in `expire`.
* The order of a query (`started_at`, `created_at`, priority ties, `last_assigned_at`) is a choice, so properties hold for every order.
* Left out because no decision reads it: logging, `assignment_seen_at`, times, host and port, the entries of a roster,
  the snapshots. Name resolution of a server is taken to succeed.
* An id is used again only when nothing refers to it any more, which no step can tell from a new id.
* `deleteFinishedBefore` and `deleteEndedBefore` are one step (`DeleteOld`).
* Bounds, all named: the sets `SearchIds`, `MatchIds` (a step that needs a fresh row waits or is skipped), `MaxCrashes`, and what callers may do
  (`Requests`, `Choices`, `Parties`, `Calls`, `Setups`, `Profiles`).

### What it promises: `ServerPool`

`ServerPool` is what an Accept match may expect of the servers, without handlers, statements and restarts: it waits, is granted a
server that nobody holds, keeps that one until it is closed, and only then is the server given back; a match is forgotten after its
server. `PoolSpec` is that specification with `holder` read from `game_server.reserved_match_id` and `phase` from the status of the match
(classic matches reserve nothing and are no part of it). Every other statement of the backend leaves both alone.

## 3. `ReservationLease`: the reservation of a classic dedicated server

The class `Lease` with everybody who calls it. The host thread is `host`: a frame begins with `Lease::Tick` (one of
`TickRearm`, `TickRelease` then `TickStop`, `TickRefresh`, `TickNothing`), then drains the host queue (`HelloEvent` is
`Lease::Start`), then ends. `clients`, `quiet` and `rearm` are the three atomics (`quiet` is the time since
`m_lastActivityMs`); `step` says where the session hook of each client is, which takes one step per atomic it writes.
`cookie` and `age` are the reservation in the engine, an external part modelled from the comment at the head of the file:
it expires after `EngineTimeout`, and an expired one is dropped when nobody is on the server. The engine may refuse any
request.

Time is counted in seconds, and every second has a frame; a call that is under way takes no time. `world` is chosen at
the start from the constant `Worlds` and says what the game does: `anyThread`, the session hooks run beside the host thread
(what `gc_server.h:22` allows), and `phantoms`, a session that never authenticated is ended (what the comment at
`ClientLeft` says the game does). On the host thread a hook begins when the one before has returned. Two writes with no step of another
thread that matters in between are one: the exchange of the re-arm flag and the write of it in `Start`, and the two
reads of the idle check (a value read there stays true until the later read).

## 4. `RosterFeed`: the server arms the roster of its match

Four threads of the library in a srcds started with `-gc_mode`, and what is around them. The poller asks the backend once a
second which match holds this server and puts a change of the answer in the queue of the GC thread. The controller there
arms the roster: it makes a driver, which reserves it in the engine (through the host queue), lets the virtual players
answer, and reports back through the queue when they are ready; then the controller asks the poller to confirm the match, and
the backend lets the players in.

With the roster the backend sends what the players of the match have equipped: their skins and, apart from them, their base
weapons. The poller puts a change of either in a slot and posts an event; one event may stand for both. The GC thread takes
what is in the slots and gives it to the players who are connected and were not given anything yet; one who connects later gets
it then.

| code | definitions |
|---|---|
| `Poller::Run`, `Confirm` | `Poll`, `Deliver`, `Becomes` |
| `Controller::Apply`, `ConfirmIfReady`, `OnFakesReady`, `OnPlayersChanged` | `Apply`, `Arm`, `Release`, `ConfirmIfReady`, `HandleReady`, `HandleLeft` |
| `ServerGC::OnBackendRoster`, `OnTestRealPlayerSeen`, net messages, unsubscribe | `HandleRoster`, `RealPlayerSeen`, `HandleSeen`, `HandleNet`, `HandleLeft` |
| `SharedGC::PostToGC`, `PostToHost`, `WorkerThread` | `Post`, `PostToHost`, `Next1` |
| `FakeRoster`, its thread | `NewDriver`, the `Pass...` actions, `Finds`, `Overdue`, `Turned` |
| `RunCallbacks` hook, session hooks, sniffed 0x21 | `HostThread`, `Enter`, `Leave`, `Sniff` |
| `SkinSnapshotStore`, `EquipmentSnapshotStore`, `SearchService.submit...`, `purge...`, `rosterForServer` | `store`, `Submit`, `Purge`, `Restart`, `Attached` |
| the skins and the equipment in `Poller::Run`, the hand-over in `StartRosterFeed` | `seen`, `News`, `EventsOf`, `handed`, `Poll` |
| `OnBackendSkins`, `OnBackendEquipment`, `TakePendingEquipment`, `OnClientAuthenticated`, `ApplySkins` | `HandleSkins`, `HandleEquipment`, `WithEquipment`, `Taken`, `HandleAuthenticated`, `Worn`, `Forgotten` |
| the backend (a match holds the server) | `NewMatch`, `EndMatch`, half of `Deliver` |
| the engine (external) | `HostThread`, `Answers`, `EngineDrop`, `Lapse` |

`gc` is the state of the GC thread, `driver` that of the driver it holds, with `cmd` the one slot its orders go through.
A driver that is replaced is stopped and joined (its destructor runs on the GC thread), so there is never more than one; what it
has put in the queues stays there.

`world` is chosen at the start: what each match is, and what the environment does. In a `calm` world a new match only comes
to a server at rest; the backend sees to that with the cooldown after a match that was not accepted, but an accepted match
gives its server back at once. The worlds that are not calm differ in that alone.

Abstractions:

* No clock. The delays of seconds (30 s, 90 s, 5 s, 12 s, 21 s) are longer than the threads need to empty their queues (`Prompt`,
  `Settled`); the poll of a second finds the answer before it handled. Whether a timer is over is otherwise a choice. The driver
  renews a reservation every 8 s, which is why `Lapse` needs one that does not.
* A poll or a delivery and its answer are one step; whether either way is lost is a choice.
* Matches come in the order of their ids, each once. Only a match whose roster was armed is taken to be accepted.
* The virtual players have the numbers the source gives them (the same in every roster) and answer together. A real player is
  at stage 1 when the engine says so (`PassPopup`).
* A snapshot is there or not; a newer one of the same search is taken for the same. One of an ended search that is not purged yet goes with
  the player's next match, as in the code: `rosterForServer` does not compare the search.
* A poll and all it hands over are one step. `world.snaps` says whether snapshots are left out (`off`), or a report of them
  finds the one before handled (`timely`: a second has passed), or not always (`rushed`).
* Left out: the items of a snapshot, the payload of the packets, sockets.
* Bounds: `Matches`, `Need`, `Tries` (two instead of eight: a first and a last attempt), `Room` (a full queue delays who puts something in it).

## 5. `PlayerSearch` and `MatchOffer`: the player's game

`PlayerSearch` is the game of one account against the search API of the backend: the GC thread with its events, the worker of
the client with its request under way, the thread of the game that posts what the player does and inspects packets, and the
row of the account in the backend.

| code | definitions |
|---|---|
| `Client::Run`, `ExecuteCancel`, `RunSessionStep`, `RunWatchStep` | `PickJob`, `PickStep`, `PickWatch` (the request is chosen under the lock), `Serve`, `TimeOut` (it is under way without it), `Ignored`, `Lost`, `Rejected`, `Answered`, `Adopt`, `NothingFound` (the answer is applied) |
| `SearchStarted`, `SearchCancelled`, `ReportAccepted`, `StopPolling`, `FinishSession` | `HandleStart`, `HandleStop`, `HandleFull`, `TryConnect`, `Enqueue`, `GiveUp` |
| `OnBackendSearchResult` and what it calls | `HandleDiscovered`, `HandleAssigned`, `HandleSameMatch`, `HandleWithdrawn`, `HandleEnded`, `HandleOther`, `StartServerFlow` |
| the 0x25 watcher of `test_accept.cpp` | `Inspect`, `Notify` |
| `SearchService`, for this account | `start`, `poll`, `pollAccount`, `cancel`, `accept`, `Assign`, `OthersAccept`, `Dissolve`, `Complete`, `Expire`, `Remove`, `LeaderStarts` |

A request gets lost on the way, its answer gets lost, or (not in a `prompt` world) the backend handles it after the worker gave it up
(`ServeLate`). Numbers stand for request ids and matches. `world` fixes how much happens in a behaviour and which kinds of overlap
are left out of it; `MCPlayerSearch` says what each is for.

`MatchOffer` is what the player is promised, without threads, requests and queues: the game follows a search and never returns
to one it left; a match is announced once, and only one made for the search that is followed; it connects to a match with an
Accept only when everybody agreed. `OfferSpec` is that specification under the mapping of `PlayerSearch` (`search` is
`m_activeRequestId`, `found` the popup, `agreed` what the game servers and the backend both have).

Abstractions: no clock (`Misses` stands for the time after which a search is stale); the matcher is the choice of a match for the
account (`Matchmaking` has it whole); JSON, sockets, map and server names are left out. Bounds: `Own`, `Parties`, `Matches`, `Restarts`, `Misses`, `Room`,
two places in the job queue instead of sixteen and two attempts instead of three.

## 6. `Inventory`: the items of one player

`items`, `base` and `last` are `m_items`, `m_defaultEquips` and `m_lastHighItemId`; `disk` is `inventory.txt`; `client` and `server` are the
copies of the game and of the game server. Every request the game may make has an action `Ask...` that puts it in `inbox` (the queue of
the GC) and one that handles it whole, named like its handler. `NameItem` for instance renames first, then looks
for the name tag, and when that is missing returns false: the item has changed and nothing is sent. Whether the game waits for each
answer (`patient`), is on a server (`online`) and how often it ends (`Exit` writes the file, `Die` does not) is fixed by `world`.

An item is its kind, name, one sticker (one place stands for five), position, storage unit, count, kills, sprays and the
places it is equipped in. Of the item schema there is one kind per branch of the code (`Defs`); the odds of a crate are a choice;
of a name only whether it has a quotation mark. A copy changes together with the items, because messages arrive in order; that a game is
late shows in the requests that wait. `base` is a set, the code's vector without its order: of two entries of one base weapon the file keeps any one. The file is
no copy of the items: the key of a place is its class and the parser joins keys of one name (`FileItems`, `FileBases`), so of two slots of one
class one comes back, and a quotation mark makes the whole file unreadable. Only one world shows the second slot of a class. Bounds: `Ids`, `Wear`, `Capacity`, `Kills`, `Room`.

The worlds of the game servers leave storage units out: `CasketItemAdd` clears the equipped state and tells only the game, so there
`ServerInStep` would not hold (section 9).

## 7. Runs

`MCMatchmaking` gives the constants their values. A mode `duel` takes two players (three in `fleet`).

| run | instance | what it shows |
|---|---|---|
| `core` | 2 players, 3 rows, 2 matches, 2 servers, rosters, an administrator who sets servers AVAILABLE or BUSY | search and match agree (`SearchFollowsMatch`), reservations have their match (`ReservedServerIsHeld`), nobody who could be placed is left out of a matcher pass (`NobodyLeftOut`), servers only for full matches (`FullBeforeServer`), accepted by everybody and not by a leftover of an earlier match (`EverybodyAccepted`), a broken Accept gives its server back with a cooldown that only time or an order for this server ends, and no match gets it meanwhile (`CooldownAfterBrokenAccept`) |
| `party` | 3 players, 3 rows, one match, a party of two, a mode for two, requests with and without an id | a member is in its leader's match or was left asked in it (`PartyTogether`), one live search per account (`OneLiveSearch`, what the unique index demands), no match overfilled |
| `fleet` | maps, edited and disabled servers, two Fake Players profiles | no match overfilled, reserved server fits every member; `PoolSpec` with matches that compete for a server |
| `classic` | casual and skirmish searches with variants, a changing fleet | mode and map come from the same variant |
| `recovery` | `FairSpec`, 2 players, one server that may be deleted, a restart anywhere | `HeldServerIsReserved`, `PoolSpec`, `ReservationEnds`, `AskedPlayerGoesOn` |
| `lease` | 2 clients, all four worlds, refusals, `FairSpec` | the reservation is kept (`KeptAlive`), a lease that ran out is taken up again (`ReArmed`), and where the count is exact nobody plays on a server whose lease ran out (`CountedInUseIsLeased`) |
| `feed` | `FairSpec`, 2 matches on one server in five calm worlds without snapshots and two with them | a roster is confirmed only when the engine holds it (`ConfirmedIsHeld`), a match is confirmed in the end (`MatchIsTold`), the GC counts who is there (`InsideCatchesUp`), has what the poller reported (`AsDelivered`) and gave it to everybody connected (`Dressed`) |
| `player` | `FairSpec`, up to 2 own searches and 2 of a party, 2 matches, five worlds: events queued, requests handled late, a party, a restart, a refused search | implements `MatchOffer` (`OfferSpec`); no request hits the search that replaced its own (`WantedGoesOn`); a search the backend lost is there again (`Heals`); no popup for ever (`AcceptEnds`) |
| `inventory` | 5 ids, 4 places in 3 classes, 7 worlds: loadout, end of the game, crates and store, positions, stickers and names (used items destroyed or not), storage units | ids are given once (`NoReuse`), places taken once (`OnePerPlace`), the copies agree (`GameInStep`, `ServerInStep`), storage units count right (`CasketCounts`), what the game shows at a clean exit is what the next process has, in every class (`KeptAtExit`) |
| `stranded`, `late_accept`, `stuck` | expected violations, see section 9 | |

Why small is enough: the hazards concern at most two players competing or cooperating in one match, a second match for what
carries over, and a second server for what is exchanged; a party and an outsider need three. Three search rows give each of
two accounts a finished row next to a live one. Properties that a restart rightly breaks until the timers have run
(`SearchFollowsMatch`, `ReservedServerIsHeld`, `PartyTogether`) are checked without restarts; what must hold through them
(`HeldServerIsReserved`) and what must be repaired after them (`ReservationEnds`, `AskedPlayerGoesOn`) are checked with one, in `recovery`.

The clocks of the lease runs keep the order of the real ones (refresh 8 s, timeout 21 s, idle 30 min become 3, 8 and 9):
two intervals fit into the timeout, three do not, and the idle lease is longer than either; the proofs need only the first.

Fairness (`FairSpec` of `Matchmaking`): the running handler goes on (a thread that holds the monitor is scheduled), the scheduler ticks again
and again, and a deadline that can be over is over at some tick. These are facts about the JVM and the clock. Nothing is assumed of players,
game servers or administrators: they may all fall silent. `FairSpec` of `ReservationLease`: the game calls
`SteamGameServer_RunCallbacks` again and again, however many sessions begin and end, so frames go on (strong fairness of
`NextFrame`: on one thread a hook may be in the way of a frame, never for good), and a hook that began returns.
`FairSpec` of `RosterFeed`: the four threads go on; an engine that knows the virtual players answers those who go on asking
(the driver asks again and again), and drops an expired reservation if the server stays empty. The 30 s timer of the driver may run out in the pass of
20 ms between the last answer and the turn to the next phase (`test_accept.cpp:444` looks at the timer first), but not each time anew: 30 s are 1500
passes, hence the strong fairness of `PassQuiet`. Nothing is assumed of real players, and
`MatchIsTold` asks for a confirmation only if the outages of the backend end and the attempts were not used up.

`FairSpec` of `PlayerSearch`: the worker goes on, the GC thread handles its events and a packet that was noticed is reported
(weak fairness: each is a thread that is scheduled); of requests sent again and again one gets through (strong fairness of `Serve`); and the backend's timers run
(`Dissolve`, `Complete`, `Expire`, what `ReservationEnds` and `AskedPlayerGoesOn` show of it in `recovery`). Nothing is assumed of the player or the other players.

In `inventory` five ids are three to begin with and two to be given; two requests may wait, so one can be about what the other destroys. `GameInStep`
is about a game that waits for each answer, or that asks only for what is safe to ask late; what happens otherwise is in section 9.

The worlds of `feed` ask one question each: outages and other players in the second match; a player who comes and goes,
then the same roster again; a player who comes before there is a roster and whose GC is slow; a legacy roster; a roster without
virtual players. In the two worlds with snapshots these come, go and are lost by a restart of the backend while one player comes
and goes, and while reports overtake the GC thread. Two matches are enough for what one leaves behind for the next.

## 8. Proofs

`MatchmakingProofs` proves for every value of the constants (under the assumptions stated with them in `Matchmaking`, and a finite `SearchIds`):

* `TypeCorrect`: `Spec => []TypeOK`, the types of the rows and the shapes of the tasks;
* `ServerHeld`: `Spec => []HeldServerIsReserved`, through any number of restarts.

`HeldServerIsReserved` alone is not inductive: a step that gives a server back relies on what the running handler did
before it. The inductive invariant `IInv` adds what is known of `todo`:

* `UrgentFirst`: the tasks that give a server back (`set`, `release`, `orphan`) are only ever the head of `todo`, or a
  `set` right behind the task that ends a match; so no other step comes between the decision and the statement;
* `SetIsSafe`, `ReleaseIsSafe`, `SweepIsSafe`: when a task that makes a server AVAILABLE, BUSY or removes it gets to the head of `todo`, the match
  it was reserved for is over already. This is the statement order of `freeServer`, `dissolve` and `expire`: first the match, then the server.

The proof has one lemma per action and, under it, one step per conjunct the action can disturb. The lemmas about sequences
(what a task put in front changes) come first. TLC checks `IInv` on small instances before it is proved.

`PoolProofs` builds on it. Its invariant `PInv` adds to `IInv` that only an Accept match is `FULL`, and what `OneServerEach` says:

* `ImplementsPool`: `Spec => PoolSpec`. The initial state maps to the initial state of `ServerPool`, and every step to one of its
  steps or a stutter: `PlaceSearch` to `Gather`, `ReserveServer` to `Grant`, `End` to `Close`, `Release`, `SetServer` and `ReleaseOrphan` to
  `GiveBack`, `DeleteOld` to `Forget`.
* `OneServerEach`: `Spec => []ReservedBy`, a server is RESERVED exactly while it names a match, and that match names this server back and holds it or
  is over. With it a server that is given back is one whose match is over, and one that is granted was nobody's.

`TaskProofs` proves what holds through any number of restarts and needs to know more of the running handler and of the rows. Its invariant
`TInv` is `PInv` with

* `Tasks`: the tasks of `todo` come in the order in which calls nest (`Ordered`: what may stand in front of what); each is about rows and
  matches in the state it expects (`Sound`: the match of a `join` is forming, that of an `assign` holds its server, the
  rows a `gather` has left are live members); and no loop behind comes to a row or a match
  that the task in front is just working on (`Once`);
* `Rows`: a live row belongs to one account (`OneRow`), and a match plays the mode of everybody who was placed in it for himself (`OwnMode`).

Without `Tasks` a task of an earlier call could be taken to run when its match is long over. From `TInv` follow:

* `AcceptedByAll`: `Spec => EverybodyAccepted`. Every statement that puts a row in a match or takes it out clears its acceptance;
  `MarkAccepted` is queued only by a step that finds everybody's, and stands in front of whatever could change it.
* `OneSearchEach`: `Spec => []OneLiveSearch`. `Enter` and `AddMember` insert only for an account whose row `Start` or `AddMember` has
  just found missing, and between the look and the insertion the handler only ends rows.
* `ServerFits`: `Spec => ReservedServerFits`. The server, its mode and its map are read in the statement that reserves it.

`HandlerProofs` is about what a handler leaves behind that runs to its end. A restart may cut it short, so these invariants say `crashes = 0 => ...`,
and what the timers repair after a restart stays with `recovery`.

* `ServersHandedBack`: `Spec => [](crashes = 0 => ReservedServerIsHeld)` and `BrokenAcceptCools`: `Spec /\ [](crashes = 0) => CooldownAfterBrokenAccept`. The
  invariant `Handed`: a server is reserved for a match that is over only while the very task that frees it is at the head
  (`GivenBack`); a match that is ended without its server has the `set` right behind it (`SetNext`); and what breaks
  an Accept releases with the cooldown (`Cools`), which is what `Dissolve` decides from the status it finds. From then on `CoolsFree`: a server
  that cools down is AVAILABLE and nobody's, so only its time and a `set` of this server end the cooldown. That a `set` may end it in the very handler
  that broke the match is what the code does (section 9).
* `PlayersFollow`: `Spec => [](crashes = 0 => SearchFollowsMatch)`, for `~Outage`. `Followed`: every row is in the state its match is in, or the task that
  brings it there is at the head (`Placed`), and a match is only ever ended without being dissolved when all its players were told to connect (`Told`).
* `PartiesTogether`: `Spec => [](crashes = 0 => PartyTogether)` and `AllBeforeServer`: `Spec /\ [](crashes = 0) => FullBeforeServer`, for `~Outage`. `Gathered`:
  a member in a match is in its leader's, or the handler is about to bring it there, end it or dissolve the match (`Companions`); the members
  still to be gathered have a leader (`Led`); a FULL match is complete, or the handler is about to count it again (`FilledUp`).

* `ClassicFits`: `Spec /\ [](crashes = 0) => ClassicServerFits`, for `~Outage`. A classic match asks nobody, so its server is never checked again
  after the reservation. The invariant `Chosen`: whoever is in a classic match for himself, or is about to be placed, gathered or assigned there, wants
  a mode and a map its server has.
* `NeverOverfilled`: `Spec => []NoOverfill`, through any restarts, for `SmallParties`: no account names a party larger than a match of any
  mode that asks its players. Two invariants. `Roomy`: a match has room for those in it and those on their way (`join`, `gather`), so each insertion
  fits. `Partied`: the rows under a leader, the members a running call is about to bring (`enter`, `sync`, `add`) and those who stay are together part of
  one party the account named; who left the party is told to go before others are added. The matcher compares a party with the room of an
  existing match only, never with the size of a match it opens for the party, so without `SmallParties` the theorem is false (section 9).
* `LeadersServed` and `SinglesServed`, through any restarts. When the matcher has run, no search without a leader waits that an enabled
  server could serve; with `Solo` (nobody names a party) nobody has a leader, which is `Spec => NobodyLeftOut`. Of a finished pass only its last step
  is seen, so the invariant `Looked` follows it: once the `scan` that waits is past the placing, nothing that could free a player runs before
  it (`Forward`), and every search that could be served is still to be looked at by a `place` or a `join` that waits (`Awaits`), unless the model has
  run out of match ids. It needs `Known`: the match a live row names has not been purged, and who searches names none. With parties
  `NobodyLeftOut` is false (section 9, `stranded`), which is why `LeadersServed` says no more than it does.

`crashes = 0` and `~Outage` are not for convenience. After a restart in the middle of `dissolve`, of `assignMembers` or between `finish` and
`memberLeft` the tables are torn as the code leaves them (section 9), and with `Outage` the lease of a match
that still asks its players can be over. `PartyTogether` is the weaker for a leader that accepted: its stop leaves the members alone (`SearchService.cancel`), so they may
stay in a match it has left.

`ReservationLeaseProofs` proves, for any set of clients and any settings with `2 * Refresh < EngineTimeout`:

* `CountInRange`: `Spec => []TypeOK`; the count is between zero and the number of clients. It needs `CountBound`: the count
  is at most the number of open sessions, which each hook keeps, phantom or not.
* `ReservationKept`: `Spec => []KeptAlive`. The invariant `Fresh` bounds the age of the reservation by the time since the last
  refresh plus one interval per refusal, and `InTime` says that past `Tick` the next refresh is not due; so at one refusal
  the age stays below two intervals.
* `LeasedInUse`: `Spec => []CountedInUseIsLeased`: hooks on the host thread and no phantoms. Then the count is exact, so a `Tick` that
  releases has nobody on the server, and nobody arrives before `TickStop`.

`InventoryProofs` proves, for any items, places, capacities and requests, and any number of ends of the process:

* `IdsAreNotReused`: `Spec => []NoReuse`. The invariant adds `Upwards`: no id that is or was in use is above `last`. `NextId` is the only
  source of ids, and `Start` sets `last` from what the file holds after everything `gone` was forgotten with the old process.
* `OneThingPerPlace`: `Spec => []OnePerPlace`. The invariant `Apart` says the same of the file, which `Start` reads back, and is kept because `Equip`
  clears the place first (`Cleared`, `ClearBase`). It rests on `StockIsInOrder`: the items a first start finds share no place.
* `TypesHold`: `Spec => []TypeOK`, from the invariant `TInv`. A request that waits names things that exist (`Requests`), and the kills stay below the
  bound because the game server counts one at a time and from a copy that is never behind the GC (`KillIsCounted`).
* `GameInStepHolds`: `Spec => []GameInStep`, and `ServerInStepHolds`: `Spec => []ServerInStep`. Both come from one fact about every handler
  (`Work`, proved for each as `...Works`): the objects, the destroyed ids and the base weapons it sends are exactly what it changed. So a
  copy that was right stays right (`ToldSame`), and the invariants `GameKnows` and `ServerKnows` hold with requests waiting too. A handler that
  sends nothing after a change is the exception (`Sent`); for a game that waits for its answers `Prompt` excludes it: the one request that waits
  finds its items as the game saw them (`Meant`), because `GameKnows` held when it was asked. A copy of the server is vouched for only when the
  snapshot it asked for has come.
* `UnitsHoldWhatTheyCount`: `Spec => []CasketCounts`, from `Units`: an item in a unit names a storage unit that is there, a unit without a name is
  empty, and every other has its count, here and in the file. Storing and taking change both sides by one (`StoreCounts`, `TakeCounts`), every other handler neither (`WorkCounts`).
* `NothingLostAtExit`: `Spec => KeptAtExit`. What the game shows is what the GC has (`GameKnows`, so for `Settled` worlds); of an item's places the file
  keeps one per class (`FileIs`, `FileKeeps`), of a base weapon's one, and reading adds nothing (`ReadBack`, `BasesAreKept`). A second slot of one class,
  a killed game and a game that asks what may be half done are outside it.

The copies, and with them the exit, need `Settled` (the game waits for each answer, or makes no request that a handler may half do), the server's also `Ashore` (nobody on a
server uses storage units), the counts `Stored` (who stores waits for each answer, and the first file counts right). `MCInventory` has TLC check that the worlds of the run
are such; section 9 tells what the code does otherwise. `StockIsTyped` is what a file the program wrote looks like.

`RosterFeedProofs` proves, for any number of matches and players, any length of the queues and any worlds:

* `TypeCorrect`: `Spec => []TypeOK`.
* `CountedRight`: `Spec => []InsideCatchesUp`. Events about a player wait while he comes and goes, so the invariant `Counted` speaks of the
  queue: the last word said of a player is true (`LastWord`), and where nothing is said the GC thread knows (`Silent`); and whoever says that
  he is there finds a driver when he is handled (`Driven`), for a driver is only ever replaced.
* `HandedOver`: `Spec => []AsDelivered`. The poller hands over in slots and posts one event for both kinds. The invariant `Arrives`: base
  weapons in the slot are the ones reported last and an event of either kind waits for them; skins have an event of their own, and in time only one.
* `EverybodyDressed`: `Spec => []Dressed`. `Counted`, said of the sessions, gives who is authenticated, `Arrives` what there is of him. `Serves`
  adds that whoever is authenticated was given something or an event of equipment waits (`Served`). A skins event that finds its slot
  empty gives nothing to anybody, and takes the base weapons with it; it does no harm only because of `Warned`: these then have an
  event of their own behind it, or are nobody's.
* `ToldIsHeld`: `Spec => ConfirmedIsHeld`. The controller never looks at the engine: it trusts the last report of the driver, and the driver trusts
  the payloads it gave to the host thread. The invariant `Sound` follows that chain for worlds that are calm and greet at once:
    * `Latest`: answers of the backend come one by one, and the controller has the last one or its event waits; so an answer is never of an earlier match;
    * `Bound`, `Own`: an armed controller has the driver of its roster, and the engine holds, and is given, nothing but that roster or none;
    * `Working`: a driver at work has its reservation or the payload for it is the last that waits (`Reserved`); one in cooldown has said that nobody
      is ready, behind whatever else it said (`Cold`, `Revoked`); one that is paused has somebody connected (`Resting`); so a report that the players
      are ready is borne out by the engine as long as the controller may act on it (`Borne`). The one step that empties
      the engine under an armed controller, `EngineDrop`, finds nobody connected, which `Counted` turns into nobody counted;
    * `Rested`: while the last match is on the server and not armed yet, nothing is left of the one before. This is where the calm is needed;
    * `Tellings`, `Untold`: a match of this server is not told of before it has a driver, so the legacy roster cannot be armed in its place.

`PlayerSearchProofs` proves, for any number of searches, party leaders' searches, matches, restarts and waiting events:

* `TypesHold`: `Spec => []TypeOK`, in any world. It needs `Names`: a row, a request and an event that name a search name one that exists,
  and a match is named exactly in the states that have one.
* `WantedHolds`: `Spec => WantedGoesOn`, and `OffersMatches`: `Spec => OfferSpec`, both for `OrderlyWorlds` and from one invariant (`InvHolds`).

Three threads each hold a copy of what the backend said: the row, the answer of a request (`w`), the session of the worker, the events
in `inbox`, the popup. That the game never goes back is no property of one of them; `Inv` says how the copies are related:

* `Owned`, `Seen`: matches are numbered as they are made, and whatever copy names a match names it with the search it was made for, and
  READY_TO_CONNECT only when the backend had every accept;
* `Ours`, `Fresh`, `Gone`: what is asked and heard is of searches the game followed; a Play that waits is newer than all of them; a cancel, queued,
  sent or given up, is of a search the game has left. `WantedGoesOn` follows from the last;
* `Rising`, `Above`: along the way of a search's matches - the events that wait, then the answer, then the row - the numbers never
  fall, and rise strictly after a withdrawal (`Rise`); what was shown before is below all that is still to come, so a match is announced once;
* `Game`, `Armed`: the popup is of a match shown for the search that is followed, and the watcher's packet, noticed or on its way, is of it;
* `Unled`, `InTurn`, `Newer`, `Up`: without party leaders nothing is discovered; with them, a leader's search is later than those followed before, and
  while a popup is up the session is tracked, so that none is followed.

`OrderlyWorlds` is what the run checks too (`PlayerWorlds` satisfies it): nothing comes between a packet and its event (`exact`), and where leaders
start searches, events do not pile up, no Accept outlasts its session and no request is handled after it was given up. Section 9
tells what the code does otherwise.

Only model-checked is liveness (fairness is out of the prover's reach): `ReservationEnds` and `AskedPlayerGoesOn` of `Matchmaking`, `MatchIsTold` of
`RosterFeed`, `ReArmed` of `ReservationLease`, `Heals` and `AcceptEnds` of `PlayerSearch`.

## 9. Findings

* `stranded`: `replaceLive` keeps `party_leader_id`. A member that accepted and then searches on its own is still a party
  member to `listUnplaced`, so the matcher never places it while its row lives.
* `late_accept`: an accept report names the search and not the match. One that waits in the client while its match runs out
  of time is taken as the accept of the next match of that search.
* `stuck`: the game is started again while it searches; the new process has no search of its own, so its watch polls the one the former
  process left behind, which refreshes it: it keeps its place in the queue and gets matches as long as the game runs.

Met on the way, without a run of their own.

Backend and game server:

* `cancel` commits the end of a search before `memberLeft` re-opens its FULL match. After a restart in between the
  match stays FULL with a player missing, and the next matcher pass reserves a server for it.
* The cooldown is not kept against an order. `java-backend/README.md:119` says of a match that breaks before everybody accepted that its
  server is AVAILABLE again but is not handed out for `server-release-cooldown`, because the game server still has to drop the old reservation. When an
  administrator sets such a server AVAILABLE, `freeServer` dissolves the match with the cooldown, the next statement, `GameServerRepository.setState`
  (`:109`), clears `available_after`, and the matcher, run in the same handler, may give the server to the next match at once. Its comment ("and any cooldown")
  says this is meant; the README does not. `CooldownAfterBrokenAccept` allows exactly this.
* `SearchService.place` opens a match for a leader without comparing his party with the players the match asks for (the comment at `:613` is
  about existing matches), and a request may name up to 15 other members (`SearchRequest.java:34`). That a party fits is up to the lobby of the
  client; `NeverOverfilled` says so in its hypothesis.
* `ClientLeft` subtracts every session that ends, also those `ClientJoined` never counted. One such session hides a
  player, and after the idle time the lease runs out under him (so `CountedInUseIsLeased` asks for an exact count).
* The ready report of the driver has no sender. One of a driver that is being replaced, queued behind the new roster, confirms
  the new match before anything is reserved for it. And a release clears `m_armed` although the engine holds the roster for seconds more, so
  a match that comes then is armed without unreserving and the virtual players of the old roster report ready (`ConfirmedIsHeld` asks for a calm world).
* In `FakeRoster` a timer that is over takes the place of the order taken in the same pass, so a
  release may be lost; and a virtual player that gave up and answers late leaves the 30 s timer running.
* The comment at `RefreshSeconds` says that one refresh every 8 s "survives two lost
  refreshes"; after two the third comes at 24 s, past the 21 s of the engine. `KeptAlive` therefore promises one.
* `m_pendingSkins` has no flag that says whether it is filled (`m_pendingEquipmentSet` is there for the base weapons). When two reports of
  skins come before the GC thread takes the first (its first application parses `items_game.txt` on that thread), the second event finds
  the slot empty and takes that for the end of the match: the skins of a live match are dropped. So `AsDelivered` and `Dressed` promise skins only
  in timely worlds.
* A player is given items once per connection. What arrives after that, skins after base weapons or a newer snapshot, waits for his next one.
* `SkinSnapshotStore.java:16` says that after a backend restart "the GC sends them again when it registers its search again". The search is kept
  in the database, so the GC does not register it again, and the snapshots are gone until the next search.
* A snapshot of an ended search that is not purged yet is attached to the player's next match: `rosterForServer` compares accounts only.

The player's game:

* The watcher compares a packet with the armed address before it takes the one-shot, and the event does not name the match. If the GC
  arms for the next match in between, the report of the old one counts for it (worlds that are `exact` leave this out; `test_accept.cpp:732` and `gc_client.cpp:984` say it cannot be).
* `OnPartySearchDiscovered` clears `m_pendingAccept` without telling the game, so the popup of the search before stays. A session that
  is given up after 15 minutes during an Accept is not reported either (`brief` leaves this out).
* An adopted search that the backend does not know any more is registered again with an empty body, is refused, and ends in silence.
* `StopPolling` is undone by a poll under way.
* `stuck` does not need a restart: when the player stops and the cancel is lost, the search stays live and the watch of the same
  process refreshes it.

Inventory:

* A base weapon equipped for both teams is two entries of one key in `inventory.txt`; the parser joins them, and one choice is lost at a
  clean exit. Likewise an item in two slots of one class: `equipped_state` is written with the class as the key (`inventory.cpp:347`), the parser joins equal keys
  (`keyvalue.cpp:226`, `:263`), and one slot is left (`KeptAtExit` promises one of them). A name with a quotation mark makes the file unreadable: the next start has no items and its exit writes that.
* The file is written by the destructor only: a game that is killed loses all since it started.
* `UseItem` sets the number of sprays after the update was written; the game learns it at its next start.
* `NameItem`, `NameBaseItem`, `ApplySticker` and `SetItemPositions` change items before they find that something is missing, and then send nothing.
* `CasketItemAdd` takes an item off its places and tells the game only; neither call checks whether the item is in a unit, `EquipItem` neither. A game that
  asks twice before it is answered has one item counted twice, into a unit or out of it.
* `m_transactionItemIds` is never cleared: the answer to a second purchase lists the items of the first.
* `UseItem`, `UnlockCrate` and `ApplySticker` use an iterator after an insertion that may rehash the table; the C++ standard does not allow it (the model
  takes what the libraries do: the node is still there).

## 10. Not modelled, and the plan

* HTTP parsing and building, the admin panel and its HTML, security, configuration and schema upgrade: I/O and framework code without a state machine of
  its own. They are, with the vendored SDK, the protocol definitions and the hooks, most of the repository's lines.
* The login throttle: a map with an expiry behind one monitor.
* The item schema and the odds of a crate: a table read from a file of the game, and a random choice over it.
* Sessions of the GC networking; profile, rank and party-invitation messages of the client GC.
* The shutdown of the two event queues (`StopThread`).

Next, in this order: a composition of `RosterFeed` with the matcher's timers; the accept of several games against one `Matchmaking`; the shutdown of
the event queues.
