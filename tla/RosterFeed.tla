---------------------------- MODULE RosterFeed ----------------------------
(***************************************************************************)
(* A dedicated server that arms the roster of its match: the poller and    *)
(* the controller of csgo_gc/server_roster.cpp, the fake driver of         *)
(* test_accept.cpp, and ServerGC between them.                             *)
(*                                                                         *)
(* Four threads.  The poller asks the backend for the match on this server *)
(* and delivers confirmations.  The GC thread handles its events in order. *)
(* The driver reserves the roster, lets the virtual players answer and     *)
(* reports when they are ready; it takes orders from one slot.  The host   *)
(* thread hands the driver's payloads to the engine.                       *)
(*                                                                         *)
(* With the roster come the snapshots of what its players have equipped:   *)
(* their skins and their base weapons.  The poller hands each over in a    *)
(* slot; the GC thread gives them to the players who are connected.        *)
(*                                                                         *)
(* The virtual players of a roster are numbered, the same numbers in every *)
(* roster, and answer together.                                            *)
(***************************************************************************)
EXTENDS Integers, Sequences, Functions

CONSTANTS
  Matches,  \* how many matches this server gets
  Players,  \* real accounts
  NoPlayer,
  Need,     \* m_requiredPlayers of the mode
  Tries,    \* MaxConfirmAttempts
  Room,     \* BOUND on the length of either queue
  Worlds    \* what the environment may do, see world

Ids == 1..Matches
\* Answers of the backend without a match: none, no answer yet, no answer.
None == 0
Unknown == -1
Down == -2
Rosters == [real : SUBSET Players, fakes : 0..Need]
NoRoster == [real |-> {}, fakes |-> 0]
\* The roster of CreateTestRoster: one real player, filled up.
Legacy(p) == [real |-> {p}, fakes |-> Need - 1]

ASSUME BoundsAreNatural ==
  Matches \in Nat \ {0} /\ Need \in Nat \ {0} /\ Tries \in Nat \ {0} /\ Room \in Nat \ {0}
ASSUME NamesDiffer == NoPlayer \notin Players
ASSUME WorldsAreRecords ==
  Worlds \subseteq [plan : [Ids -> [roster : Rosters \ {NoRoster}, fits : BOOLEAN]], calm : BOOLEAN,
                    greets : {"atOnce", "later", "never"}, outages : BOOLEAN, callers : SUBSET Players, guests : SUBSET Players,
             snaps : {"off", "timely", "rushed"}]

\* What a player has equipped: a snapshot of each kind, there or not.
Kinds == {"skins", "equipment"}

VARIABLES
  match,     \* the backend: the match that holds this server, or None
  last,      \* ... the last match there was
  cooling,   \* ... the server cools down after a match that was not accepted
  told,      \* ... the matches whose roster it was told is armed
  store,     \* ... SkinSnapshotStore and EquipmentSnapshotStore
  key,       \* the poller: the answer it reported last
  seen,      \* ... the snapshots it reported last: lastSkinKey, lastEquipmentKey
  confirms,  \* ... m_confirms: which attempt each match is at, 0 if not in the list
  inbox,     \* the events of the GC thread
  gc,        \* Controller and ServerGC
  handed,    \* the slots m_pendingSkins and m_pendingEquipment, and m_pendingEquipmentSet
  dress,     \* ServerGC: m_matchSkins, m_matchEquipment, m_authenticated, and what each
             \* player was given in this connection ({}: not in m_skinsApplied)
  driver,    \* FakeRoster, or NoDriver
  hostq,     \* payloads for the host thread: a roster to reserve, or NoRoster to unreserve
  engine,    \* the engine's reservation: its roster and whether it expired
  on,        \* players with an authenticated session
  sniffed,   \* s_sniffLastAccount
  world      \* fixed: the plan says what each match is (fits: an Accept match of
             \* this server's mode with a real player); calm, a new match only
             \* comes to a server at rest, and players after they were given the server;
             \* greets, a player's GC answers at once; outages, the backend may be
             \* down; callers send a 0x21, guests connect;
             \* snaps, snapshots are left out, are reported one at a time, or a
             \* second change may be reported before the GC thread took the first

vars == <<match, last, cooling, told, store, key, seen, confirms, inbox, gc, handed, dress, driver, hostq,
          engine, on, sniffed, world>>
backend == <<match, last, cooling, told, store>>
poller == <<key, seen, confirms>>
sync == <<handed, dress>>
outside == <<engine, on, sniffed, world>>

RosterOf(m) == world.plan[m].roster
Fits(m) == world.plan[m].fits

\* A new driver finds its first order in the slot.
NewDriver(roster, order) ==
  [roster |-> roster, cmd |-> order, released |-> FALSE, phase |-> "paused",
   level |-> 0, popup |-> FALSE, gaveUp |-> FALSE]
NoDriver == [NewDriver(NoRoster, "none") EXCEPT !.phase = "none"]

\* The snapshots of no match.
Gone == [match |-> None, of |-> {}]

Init ==
  /\ match = None /\ last = 0 /\ cooling = FALSE /\ told = {}
  /\ store = [p \in Players |-> {}]
  /\ seen = [kind \in Kinds |-> Gone]
  /\ handed = [skins |-> Gone, equipment |-> Gone, set |-> FALSE]
  /\ dress = [skins |-> Gone, equipment |-> Gone, authenticated |-> {}, worn |-> [p \in Players |-> {}]]
  /\ key = Unknown /\ confirms = [m \in Ids |-> 0]
  /\ inbox = <<>> /\ hostq = <<>>
  /\ gc = [snap |-> Unknown, usable |-> FALSE, armed |-> FALSE, roster |-> NoRoster, own |-> FALSE,
           ready |-> FALSE, confirmed |-> None, inside |-> {}, pending |-> NoPlayer]
  /\ driver = NoDriver
  /\ engine = [held |-> NoRoster, expired |-> FALSE]
  /\ on = {} /\ sniffed = NoPlayer
  /\ world \in Worlds

PostAll(events) == Len(inbox) + Len(events) <= Room /\ inbox' = inbox \o events
Post(event) == PostAll(<<event>>)
PostToHost(roster) == Len(hostq) < Room /\ hostq' = Append(hostq, roster)

\* The delays of seconds are longer than what the threads need to empty their queues.
Prompt == inbox = <<>> /\ hostq = <<>>
Settled == Prompt /\ driver.cmd = "none"

---------------------------------------------------------------------------
(* The backend.                                                            *)

\* Nothing of an earlier match is under way on the server.
AtRest ==
  /\ Settled /\ match = None /\ key \notin Ids
  /\ ~gc.armed /\ driver.phase \in {"none", "paused"} /\ engine.held = NoRoster

\* A match gets this server.  A cooldown leaves the server the time to come to rest.
NewMatch(m) ==
  /\ m = last + 1 /\ match = None /\ (world.calm \/ cooling => AtRest)
  /\ match' = m /\ last' = m /\ cooling' = FALSE
  /\ UNCHANGED <<told, store, poller, inbox, gc, driver, hostq, outside, sync>>

\* The match ends.  One that was accepted spares its server the cooldown (in a
\* calm world it makes no difference).  Only a match whose roster is armed is
\* taken to be accepted, not one that waited out the acknowledgement timeout.
EndMatch ==
  /\ match # None
  /\ match' = None
  /\ cooling' \in {TRUE} \cup (IF match \in told /\ ~world.calm THEN {FALSE} ELSE {})
  /\ UNCHANGED <<last, told, store, poller, inbox, gc, driver, hostq, outside, sync>>

Stores(snapshots) ==
  /\ store' = snapshots
  /\ UNCHANGED <<match, last, cooling, told, poller, inbox, gc, driver, hostq, outside, sync>>

\* submitSkinSnapshot, submitEquipmentSnapshot.  A newer one of the same search is
\* taken for the same.
Submit(p, kind) ==
  /\ world.snaps # "off" /\ kind \notin store[p] /\ \E m \in Ids : p \in RosterOf(m).real
  /\ Stores([store EXCEPT ![p] = @ \cup {kind}])

\* purgeSkinSnapshots, purgeEquipmentSnapshots: with the search and its match over,
\* now or later; until then what is left goes with the player's next match.
Purge(p) ==
  /\ store[p] # {}
  /\ match # None => p \notin RosterOf(match).real
  /\ Stores([store EXCEPT ![p] = {}])

\* The backend starts again: the stores are not kept, the match is.
Restart == world.snaps = "timely" /\ Stores([p \in Players |-> {}])

---------------------------------------------------------------------------
(* The poller.                                                             *)

\* What rosterForServer attaches to the roster of a match: the snapshots its real
\* players have, whatever search they are of.
Attached(kind, answer) ==
  IF answer \in Ids
    THEN [match |-> answer, of |-> {p \in RosterOf(answer).real : kind \in store[p]}]
    ELSE Gone

\* The snapshots of an answer that are news; no answer is none.
News(answer) ==
  IF world.snaps = "off" \/ answer = Down THEN {}
  ELSE {kind \in Kinds : Attached(kind, answer) # seen[kind]}

\* One event for both: the equipment is handed over without one if the skins follow.
EventsOf(news) ==
  CASE "skins" \in news -> <<[kind |-> "skins"]>>
    [] news = {"equipment"} -> <<[kind |-> "equipment"]>>
    [] OTHER -> <<>>

\* One poll; only a change is reported.  The answer before was reported a second
\* ago: it is handled, and what it ordered is under way.
Poll(answer) ==
  LET news == News(answer)
      fresh == [kind \in Kinds |-> IF kind \in news THEN Attached(kind, answer) ELSE seen[kind]]
  IN
  /\ driver.cmd \notin {"arm", "release"}
  /\ \A event \in Range(inbox) :
       event.kind # "roster" /\ (event.kind \in Kinds => world.snaps = "rushed")
  /\ PostAll(EventsOf(news) \o (IF answer = key THEN <<>> ELSE <<[kind |-> "roster", snap |-> answer]>>))
  /\ key' = answer /\ seen' = fresh
  /\ handed' = [skins |-> IF "skins" \in news THEN fresh.skins ELSE handed.skins,
                 equipment |-> IF "equipment" \in news THEN fresh.equipment ELSE handed.equipment,
                 set |-> handed.set \/ "equipment" \in news]
  /\ UNCHANGED <<backend, confirms, gc, dress, driver, hostq, outside>>

\* Mutant: a confirmation is retried for ever.
DeliverForEver(m) ==
  /\ confirms[m] > 0
  /\ \E heard, answered \in BOOLEAN :
       LET ok == heard /\ answered /\ match = m IN
       /\ told' = IF heard /\ match = m THEN told \cup {m} ELSE told
       /\ confirms' = [confirms EXCEPT ![m] = IF ok THEN 0 ELSE @ + 1]
  /\ UNCHANGED <<match, last, cooling, store, key, seen, inbox, gc, driver, hostq, outside, sync>>

\* One attempt to deliver a confirmation: the backend hears it or not, and its
\* answer arrives or not; it refuses a match that is not on this server.
Deliver(m) ==
  /\ confirms[m] > 0
  /\ \E heard, answered \in BOOLEAN :
       LET ok == heard /\ answered /\ match = m IN
       /\ told' = IF heard /\ match = m THEN told \cup {m} ELSE told
       /\ confirms' = [confirms EXCEPT ![m] = IF ok \/ @ = Tries THEN 0 ELSE @ + 1]
  /\ UNCHANGED <<match, last, cooling, store, key, seen, inbox, gc, driver, hostq, outside, sync>>

---------------------------------------------------------------------------
(* The controller.  An operation yields the new state of the GC thread,    *)
(* the driver it leaves and the matches it confirms.                       *)

Out(g, d, tell) == [gc |-> g, driver |-> d, tell |-> tell]

Unready(g) == [g EXCEPT !.ready = FALSE]

\* ConfirmIfReady
ConfirmIfReady(g, d) ==
  IF g.armed /\ g.ready /\ g.usable /\ g.snap \in Ids /\ g.roster = RosterOf(g.snap) /\ g.confirmed # g.snap
    THEN Out([g EXCEPT !.confirmed = g.snap], d, {g.snap})
    ELSE Out(g, d, {})

\* host.release and FakeRoster::Release
Release(g, d) ==
  Out(Unready([g EXCEPT !.armed = FALSE, !.roster = NoRoster, !.own = FALSE]),
      IF d = NoDriver THEN d ELSE [d EXCEPT !.released = TRUE, !.cmd = "release"], {})

\* host.arm: the new driver replaces the old one, and unreserves first what is armed.
Arm(g) ==
  Out(Unready([g EXCEPT !.armed = TRUE, !.roster = RosterOf(g.snap), !.own = TRUE]),
      NewDriver(RosterOf(g.snap), IF g.armed THEN "rearm" ELSE "arm"), {})

\* Apply
Apply(g0, d) ==
  LET g == [g0 EXCEPT !.usable = FALSE]
      use == [g0 EXCEPT !.usable = TRUE]
      complete == g.snap \in Ids
  IN
  CASE g.snap = None /\ g.armed /\ g.own /\ g.inside = {} -> Release(g, d)
    [] complete /\ ~Fits(g.snap) /\ g.confirmed # g.snap -> Out([g EXCEPT !.confirmed = g.snap], d, {g.snap})
    [] complete /\ Fits(g.snap) /\ g.armed /\ g.roster = RosterOf(g.snap) ->
         ConfirmIfReady([use EXCEPT !.own = TRUE], d)
    [] complete /\ Fits(g.snap) /\ ~(g.armed /\ g.roster = RosterOf(g.snap)) ->
         IF g.inside = {} THEN Arm(use) ELSE Out(use, d, {})
    [] OTHER -> Out(g, d, {})

\* OnTestRealPlayerSeen: without a driver, and unless the backend's roster is
\* in charge or its first answer is still awaited, the legacy roster is armed.
RealPlayerSeen(g, d, p) ==
  CASE d # NoDriver \/ g.usable -> Out(g, d, {})
    [] d = NoDriver /\ ~g.usable /\ g.snap = Unknown -> Out([g EXCEPT !.pending = p], d, {})
    [] OTHER -> Out(Unready([g EXCEPT !.armed = TRUE, !.roster = Legacy(p), !.own = FALSE]),
                    NewDriver(Legacy(p), "arm"), {})

---------------------------------------------------------------------------
(* What the players of this server have equipped.                          *)

\* TakePendingEquipment, its slot and what the GC has then.
Taken == [handed EXCEPT !.equipment = Gone, !.set = FALSE]
WithEquipment == [dress EXCEPT !.equipment = IF handed.set THEN handed.equipment ELSE @]

\* m_skinsApplied
Applied(d) == {p \in Players : d.worn[p] # {}}

\* ApplySkins: all there is of a player goes out as one message, if there is something.
Plan(d, p) == {kind \in Kinds : p \in d[kind].of}
Worn(d, players) ==
  [d EXCEPT !.worn = [p \in Players |-> IF p \in players /\ Plan(d, p) # {} THEN Plan(d, p) ELSE @[p]]]

\* A player who left is given everything again when he comes back.
Forgotten(p) == [dress EXCEPT !.authenticated = @ \ {p}, !.worn[p] = {}]

---------------------------------------------------------------------------
(* The events of the GC thread.                                            *)

Next1(kind) == inbox # <<>> /\ Head(inbox).kind = kind /\ inbox' = Tail(inbox)

Becomes(out) ==
  /\ gc' = out.gc /\ driver' = out.driver
  /\ confirms' = [m \in Ids |-> IF m \in out.tell /\ confirms[m] = 0 THEN 1 ELSE confirms[m]]
  /\ UNCHANGED <<backend, key, seen, hostq, outside, handed>>

\* OnBackendRoster, with the player whose check came before the first answer.
HandleRoster ==
  /\ Next1("roster")
  /\ LET out == Apply([gc EXCEPT !.snap = Head(inbox).snap], driver) IN
     Becomes(IF out.gc.pending = NoPlayer \/ out.driver # NoDriver THEN out
             ELSE [RealPlayerSeen([out.gc EXCEPT !.pending = NoPlayer], NoDriver, out.gc.pending)
                     EXCEPT !.tell = out.tell])
  /\ UNCHANGED dress

\* Mutant: the report is forgotten where no roster of the backend is in charge.
HandleReadyInCharge ==
  /\ Next1("ready")
  /\ Becomes(ConfirmIfReady([gc EXCEPT !.ready = Head(inbox).ready /\ gc.usable], driver))
  /\ UNCHANGED dress

\* OnFakesReady
HandleReady ==
  /\ Next1("ready")
  /\ Becomes(ConfirmIfReady([gc EXCEPT !.ready = Head(inbox).ready], driver))
  /\ UNCHANGED dress

HandleSeen ==
  /\ Next1("seen")
  /\ Becomes(RealPlayerSeen(gc, driver, Head(inbox).player))
  /\ UNCHANGED dress

\* HandleNetMessage: a player counts from his first message on, if there is a driver.
HandleNet ==
  /\ Next1("net")
  /\ LET first == driver # NoDriver /\ gc.inside = {} IN
     Becomes(Out(IF driver = NoDriver THEN gc ELSE [gc EXCEPT !.inside = @ \cup {Head(inbox).player}],
                 IF first THEN [driver EXCEPT !.cmd = "pause"] ELSE driver, {}))
  /\ UNCHANGED dress

\* Mutant: nobody is counted out where no roster of the backend is in charge.
HandleLeftInCharge ==
  /\ Next1("left")
  /\ LET g == [gc EXCEPT !.inside = IF gc.usable THEN @ \ {Head(inbox).player} ELSE @] IN
     Becomes(IF g.inside = {} THEN Apply(g, driver) ELSE Out(g, driver, {}))
  /\ dress' = Forgotten(Head(inbox).player)

\* HandleClientSOCacheUnsubscribe
HandleLeft ==
  /\ Next1("left")
  /\ LET g == [gc EXCEPT !.inside = @ \ {Head(inbox).player}]
         over == gc.inside # {} /\ g.inside = {}
         d == IF over /\ driver # NoDriver /\ ~driver.released THEN [driver EXCEPT !.cmd = "rearm"] ELSE driver
     IN Becomes(IF g.inside = {} THEN Apply(g, d) ELSE Out(g, d, {}))
  /\ dress' = Forgotten(Head(inbox).player)

Dresses(d, slots) ==
  /\ dress' = d /\ handed' = slots
  /\ UNCHANGED <<backend, poller, gc, driver, hostq, outside>>

\* Mutant: the equipment handed over with the skins waits for an event of its own.
HandleSkinsAlone ==
  /\ Next1("skins")
  /\ LET d == [dress EXCEPT !.skins = handed.skins] IN
     Dresses(IF handed.skins = Gone THEN d ELSE Worn(d, d.authenticated \ Applied(d)),
             [handed EXCEPT !.skins = Gone])

\* OnBackendSkins.  The slot of the skins does not say whether it was filled: it
\* is read as the skins of no match when an event before took it.
HandleSkins ==
  /\ Next1("skins")
  /\ LET d == [WithEquipment EXCEPT !.skins = handed.skins] IN
     Dresses(IF handed.skins = Gone THEN d ELSE Worn(d, d.authenticated \ Applied(d)),
             [Taken EXCEPT !.skins = Gone])

\* Mutant: what comes after a player waits for his next connection.
HandleEquipmentLater ==
  /\ Next1("equipment")
  /\ Dresses(WithEquipment, Taken)

\* OnBackendEquipment
HandleEquipment ==
  /\ Next1("equipment")
  /\ LET d == WithEquipment IN Dresses(Worn(d, d.authenticated \ Applied(d)), Taken)

\* OnClientAuthenticated
HandleAuthenticated ==
  /\ Next1("auth")
  /\ LET p == Head(inbox).player IN
     Dresses(Worn([dress EXCEPT !.authenticated = @ \cup {p}], {p}), handed)

GCThread ==
  \/ HandleRoster \/ HandleReady \/ HandleSeen \/ HandleNet \/ HandleLeft
  \/ HandleSkins \/ HandleEquipment \/ HandleAuthenticated

---------------------------------------------------------------------------
(* The driver.  A pass of its loop that finds an order, or a timer that is *)
(* over, has nothing else to do; any other pass looks at the answers of    *)
(* the virtual players.                                                    *)

\* Every virtual player has reached the stage.
Reached(d, stage) == d.roster.fakes = 0 \/ d.level >= stage

\* The timers of 90 s and 30 s: nobody connected, or a virtual player gave up,
\* though it may have been answered since.
Overdue ==
  /\ Prompt
  /\ driver.phase = "done" \/ (driver.gaveUp /\ driver.phase \in {"probe", "accept"})

\* The order of this pass; a timer that is over takes its place.
Finds(order) ==
  /\ driver # NoDriver
  /\ order = driver.cmd \/ (order = "rearm" /\ Overdue)

\* The engine has dropped the reservation by then, unless somebody is connected.
CooldownOver == Prompt /\ (engine.held = NoRoster \/ on # {})

Passes(d) == driver' = [d EXCEPT !.cmd = "none"] /\ UNCHANGED <<backend, poller, gc, outside, sync>>

PassPause ==
  /\ Finds("pause")
  /\ Passes([driver EXCEPT !.phase = "paused"])
  /\ UNCHANGED <<inbox, hostq>>

\* armReservation
PassArm ==
  /\ Finds("arm") \/ (Finds("none") /\ driver.phase = "cooldown" /\ CooldownOver)
  /\ Passes([driver EXCEPT !.phase = "probe", !.level = 0, !.popup = FALSE])
  /\ Post([kind |-> "ready", ready |-> FALSE])
  /\ PostToHost(driver.roster)

PassUnreserve(order, phase) ==
  /\ Finds(order)
  /\ Passes([driver EXCEPT !.phase = phase, !.gaveUp = FALSE])
  /\ Post([kind |-> "ready", ready |-> FALSE])
  /\ PostToHost(NoRoster)

PassRearm == PassUnreserve("rearm", "cooldown")
PassRelease == PassUnreserve("release", "paused")

\* Mutant: the host thread is not given its time before probing.
TurnedAtOnce(d) ==
  CASE d.popup /\ d.phase \in {"probe", "waitPopup"} ->
         [d EXCEPT !.phase = "accept", !.level = IF @ < 1 THEN 1 ELSE @]
    [] ~d.popup /\ d.phase = "probe" /\ Reached(d, 1) -> [d EXCEPT !.phase = "waitPopup"]
    [] d.phase = "accept" /\ Reached(d, 2) -> [d EXCEPT !.phase = "done"]
    [] OTHER -> d

\* The phase transitions; probing begins when the host thread had its time.
Turned(d) ==
  CASE d.popup /\ d.phase \in {"probe", "waitPopup"} ->
         [d EXCEPT !.phase = "accept", !.level = IF @ < 1 THEN 1 ELSE @]
    [] ~d.popup /\ d.phase = "probe" /\ Reached(d, 1) /\ hostq = <<>> -> [d EXCEPT !.phase = "waitPopup"]
    [] d.phase = "accept" /\ Reached(d, 2) -> [d EXCEPT !.phase = "done"]
    [] OTHER -> d

\* The stage the virtual players ask for.
Desired(d) == IF d.phase = "probe" THEN 1 ELSE IF d.phase = "accept" THEN 2 ELSE 0

\* The engine knows the virtual players of the driver.
Answers(d) ==
  /\ hostq = <<>> /\ engine.held # NoRoster
  /\ d.roster.fakes > 0 /\ d.roster.fakes <= engine.held.fakes

\* A pass without an order, and what the packets of the engine left in the driver.
Pass(d) ==
  /\ Finds("none") /\ driver.phase \notin {"paused", "cooldown"}
  /\ IF d.phase # driver.phase /\ d.phase \in {"waitPopup", "accept"}
       THEN Post([kind |-> "ready", ready |-> TRUE]) ELSE UNCHANGED inbox
  /\ driver' = d
  /\ UNCHANGED <<backend, poller, gc, hostq, outside, sync>>

PassQuiet == Pass(Turned(driver))

PassAnswered ==
  LET d == Turned(driver) IN
  Answers(d) /\ d.level < Desired(d) /\ Pass([d EXCEPT !.level = Desired(d)])

PassGaveUp ==
  LET d == Turned(driver) IN
  Prompt /\ ~Reached(d, Desired(d)) /\ Pass([d EXCEPT !.gaveUp = TRUE])

\* Every participant of the engine's roster is at stage 1, the real players too.
PassPopup ==
  LET d == Turned(driver) IN
  Answers(d) /\ d.phase \in {"probe", "waitPopup"} /\ Pass([d EXCEPT !.popup = TRUE])

DriverThread ==
  \/ PassPause \/ PassArm \/ PassRearm \/ PassRelease
  \/ PassQuiet \/ PassAnswered \/ PassGaveUp

---------------------------------------------------------------------------
(* The host thread, the engine and the players.                            *)

\* ReserveServerForQueuedGame: the engine keeps the roster it has for the same cookie.
HostThread ==
  /\ hostq # <<>> /\ hostq' = Tail(hostq)
  /\ LET r == Head(hostq) IN
     engine' = CASE r = NoRoster -> [engine EXCEPT !.expired = engine.held # NoRoster]
                 [] r # NoRoster /\ engine.held = NoRoster -> [held |-> r, expired |-> FALSE]
                 [] OTHER -> [engine EXCEPT !.expired = FALSE]
  /\ UNCHANGED <<backend, poller, inbox, gc, driver, on, sniffed, world, sync>>

\* The engine drops an expired reservation of an empty server, after 5 s.
EngineDrop ==
  /\ Settled /\ engine.expired /\ on = {}
  /\ engine' = [held |-> NoRoster, expired |-> FALSE]
  /\ UNCHANGED <<backend, poller, inbox, gc, driver, hostq, on, sniffed, world, sync>>

\* Nobody refreshed the reservation for 21 s: in its other phases the driver
\* reserves the same roster again every 8 s.
Lapse ==
  /\ Settled /\ driver.phase \in {"none", "paused", "cooldown"}
  /\ engine.held # NoRoster /\ ~engine.expired
  /\ engine' = [engine EXCEPT !.expired = TRUE]
  /\ UNCHANGED <<backend, poller, inbox, gc, driver, hostq, on, sniffed, world, sync>>

\* BeginAuthSession of a player, and the first message of his GC, now or later.
Enter(p) ==
  /\ p \in world.guests \ on /\ (world.calm => match \in told)
  /\ world.greets = "atOnce" => driver # NoDriver
  /\ PostAll((IF world.snaps = "off" THEN <<>> ELSE <<[kind |-> "auth", player |-> p]>>)
             \o (IF world.greets = "atOnce" THEN <<[kind |-> "net", player |-> p]>> ELSE <<>>))
  /\ on' = on \cup {p}
  /\ UNCHANGED <<backend, poller, gc, driver, hostq, engine, sniffed, world, sync>>

Greet(p) ==
  /\ world.greets = "later" /\ p \in on \ gc.inside /\ [kind |-> "net", player |-> p] \notin Range(inbox)
  /\ Post([kind |-> "net", player |-> p])
  /\ UNCHANGED <<backend, poller, gc, driver, hostq, outside, sync>>

\* EndAuthSession
Leave(p) ==
  /\ p \in on
  /\ on' = on \ {p}
  /\ Post([kind |-> "left", player |-> p])
  /\ UNCHANGED <<backend, poller, gc, driver, hostq, engine, sniffed, world, sync>>

\* The 0x21 of a real player, reported when it is not the one seen last.
Sniff(p) ==
  /\ p \in world.callers \ {sniffed} /\ (world.calm => match \in told)
  /\ sniffed' = p
  /\ Post([kind |-> "seen", player |-> p])
  /\ UNCHANGED <<backend, poller, gc, driver, hostq, engine, on, world, sync>>

Next ==
  \/ \E m \in Ids : NewMatch(m) \/ Deliver(m)
  \/ EndMatch
  \/ Poll(match) \/ (world.outages /\ Poll(Down))
  \/ GCThread
  \/ DriverThread \/ PassPopup
  \/ HostThread
  \/ EngineDrop \/ Lapse
  \/ Restart
  \/ \E p \in Players : Purge(p) \/ \E kind \in Kinds : Submit(p, kind)
  \/ \E p \in Players : Enter(p) \/ Greet(p) \/ Leave(p) \/ Sniff(p)

Spec == Init /\ [][Next]_vars

\* Every thread goes on.  An engine that knows the virtual players answers
\* them if they go on asking, and drops what expired if the server stays empty.
\* The 30 s of an earlier silence do not run out each time anew in the one pass,
\* of 20 ms, between an answer and the turn it makes.
FairSpec ==
  /\ Spec
  /\ WF_vars(GCThread) /\ WF_vars(HostThread) /\ SF_vars(DriverThread)
  /\ WF_vars(Poll(match)) /\ \A m \in Ids : WF_vars(Deliver(m))
  /\ SF_vars(PassAnswered) /\ SF_vars(PassQuiet) /\ SF_vars(EngineDrop)

---------------------------------------------------------------------------
(* Properties.                                                             *)

Events ==
       [kind : {"roster"}, snap : Ids \cup {None, Down}]
  \cup [kind : {"ready"}, ready : BOOLEAN]
  \cup [kind : {"seen", "net", "left", "auth"}, player : Players]
  \cup [kind : Kinds]
Reports == [match : Ids \cup {None}, of : SUBSET Players]

\* Types of the threads' state and of what is in the queues.
TypeOK ==
  /\ match \in Ids \cup {None} /\ last \in 0..Matches /\ cooling \in BOOLEAN /\ told \subseteq 1..last
  /\ store \in [Players -> SUBSET Kinds] /\ seen \in [Kinds -> Reports]
  /\ handed \in [skins : Reports, equipment : Reports, set : BOOLEAN]
  /\ dress \in [skins : Reports, equipment : Reports, authenticated : SUBSET Players, worn : [Players -> SUBSET Kinds]]
  /\ key \in Ids \cup {None, Unknown, Down} /\ confirms \in [Ids -> 0..Tries]
  /\ inbox \in Seq(Events) /\ Len(inbox) <= Room
  /\ gc \in [snap : Ids \cup {None, Unknown, Down}, usable : BOOLEAN, armed : BOOLEAN, roster : Rosters,
             own : BOOLEAN, ready : BOOLEAN, confirmed : Ids \cup {None}, inside : SUBSET Players,
             pending : Players \cup {NoPlayer}]
  /\ driver \in [roster : Rosters, cmd : {"none", "arm", "rearm", "pause", "release"}, released : BOOLEAN,
                 phase : {"none", "paused", "cooldown", "probe", "waitPopup", "accept", "done"},
                 level : 0..2, popup : BOOLEAN, gaveUp : BOOLEAN]
  /\ hostq \in Seq(Rosters) /\ Len(hostq) <= Room
  /\ engine \in [held : Rosters, expired : BOOLEAN]
  /\ on \subseteq Players /\ sniffed \in Players \cup {NoPlayer} /\ world \in Worlds

\* When the backend is told that the roster of a match is armed, the engine
\* holds that roster ("the reservation is ready for the real player (this
\* roster armed, every fake at stage 1)"), where a new match leaves the server
\* the time to drop the last one and players say that they are there.
ConfirmedIsHeld ==
  [][\A m \in Ids : world.calm /\ world.greets = "atOnce" /\ confirms[m] = 0 /\ confirms'[m] = 1 /\ Fits(m) =>
       engine.held = RosterOf(m)]_vars

\* Once the events about a player are handled, the GC counts exactly the
\* players who are there, so a roster is never changed under one (the guard
\* playerOnServer of Apply).
InsideCatchesUp ==
  world.greets = "atOnce" =>
    \A p \in Players :
      (\A event \in Range(inbox) : event.kind \in {"net", "left"} => event.player # p) =>
        (p \in gc.inside <=> p \in on)

\* Once its events are handled the GC thread has the base weapons the poller
\* reported last, in whatever order they come with the skins ("the receiver then
\* waits for it and applies both together"), and the skins, unless a second report
\* of skins came before it took the first.
AsDelivered ==
  /\ (\A event \in Range(inbox) : event.kind \notin Kinds) => dress.equipment = seen["equipment"]
  /\ (world.snaps = "timely" /\ [kind |-> "skins"] \notin Range(inbox)) => dress.skins = seen["skins"]

\* Once its events are handled every player who is on the server was given what
\* was reported of him, whichever came first, he, his skins or his base weapons.
Dressed ==
  \A p \in on :
    /\ \A event \in Range(inbox) : event.kind \notin Kinds /\ (event.kind \in {"auth", "left"} => event.player # p)
    /\ p \in seen["equipment"].of \/ (world.snaps = "timely" /\ p \in seen["skins"].of)
    => dress.worn[p] # {}

\* The confirmation of this match did not get through in Tries attempts.
GaveUpTelling(m) == gc.confirmed = m /\ confirms[m] = 0

\* A match that keeps an empty server is confirmed in the end, once the outages
\* of the backend are over, so its players are not left to the acknowledgement
\* timeout.
MatchIsTold ==
  <>[](key # Down) =>
    \A m \in Ids : (match = m) ~> (m \in told \/ match # m \/ on # {} \/ GaveUpTelling(m))
===========================================================================
