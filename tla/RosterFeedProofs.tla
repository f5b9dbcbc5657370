------------------------- MODULE RosterFeedProofs -------------------------
(* Theorems about the roster feed, for any number of matches and players,  *)
(* any length of the queues and any of the worlds.                         *)
EXTENDS RosterFeed, TLAPS

---------------------------------------------------------------------------
(* Types.                                                                  *)

GCs ==
  [snap : Ids \cup {None, Unknown, Down}, usable : BOOLEAN, armed : BOOLEAN, roster : Rosters,
   own : BOOLEAN, ready : BOOLEAN, confirmed : Ids \cup {None}, inside : SUBSET Players,
   pending : Players \cup {NoPlayer}]
Drivers ==
  [roster : Rosters, cmd : {"none", "arm", "rearm", "pause", "release"}, released : BOOLEAN,
   phase : {"none", "paused", "cooldown", "probe", "waitPopup", "accept", "done"},
   level : 0..2, popup : BOOLEAN, gaveUp : BOOLEAN]
Slots == [skins : Reports, equipment : Reports, set : BOOLEAN]
Wardrobes == [skins : Reports, equipment : Reports, authenticated : SUBSET Players, worn : [Players -> SUBSET Kinds]]

\* A driver has a phase; there is none before the first.
DriverOK(d) == d \in Drivers /\ (d.phase = "none" => d = NoDriver)

\* TypeOK, in parts.
BackendOK ==
  /\ match \in Ids \cup {None} /\ last \in 0..Matches /\ match <= last
  /\ cooling \in BOOLEAN /\ told \subseteq 1..last /\ store \in [Players -> SUBSET Kinds]
PollerOK ==
  /\ key \in Ids \cup {None, Unknown, Down} /\ confirms \in [Ids -> 0..Tries]
  /\ seen \in [Kinds -> Reports] /\ handed \in Slots
QueueOK == inbox \in Seq(Events) /\ Len(inbox) <= Room
HostOK ==
  /\ hostq \in Seq(Rosters) /\ Len(hostq) <= Room /\ engine \in [held : Rosters, expired : BOOLEAN]
OutsideOK == on \subseteq Players /\ sniffed \in Players \cup {NoPlayer} /\ world \in Worlds
TInv ==
  BackendOK /\ PollerOK /\ QueueOK /\ HostOK /\ OutsideOK
  /\ gc \in GCs /\ dress \in Wardrobes /\ DriverOK(driver)

LEMMA TInvIsTypeOK == TInv => TypeOK
BY DEF TInv, TypeOK, BackendOK, PollerOK, QueueOK, HostOK, OutsideOK, GCs, Wardrobes, DriverOK, Drivers, Slots

LEMMA NoRosterIsRoster == NoRoster \in Rosters
BY BoundsAreNatural DEF NoRoster, Rosters

LEMMA PlanIsOfRosters ==
  ASSUME world \in Worlds, NEW m \in Ids
  PROVE  RosterOf(m) \in Rosters
BY WorldsAreRecords DEF RosterOf

LEMMA NewDriverOK ==
  ASSUME NEW r \in Rosters, NEW c \in {"arm", "rearm", "none"}
  PROVE  NewDriver(r, c) \in Drivers /\ NewDriver(r, c).phase = "paused" /\ NewDriver(r, c) # NoDriver
BY DEF NewDriver, Drivers, NoDriver

LEMMA NoDriverOK == DriverOK(NoDriver)
<1>1. NewDriver(NoRoster, "none") \in Drivers
  BY NewDriverOK, NoRosterIsRoster
<1> QED BY <1>1 DEF DriverOK, NoDriver, Drivers

LEMMA GoneIsReport == Gone \in Reports
BY DEF Gone, Reports, None

LEMMA InitOK == Init => TInv
<1> SUFFICES ASSUME Init PROVE TInv
  OBVIOUS
<1>1. BackendOK
  <2>1. match = 0 /\ last = 0 /\ told = {}
    BY DEF Init, None
  <2>2. store \in [Players -> SUBSET Kinds] /\ cooling \in BOOLEAN
    BY DEF Init
  <2> QED BY <2>1, <2>2, BoundsAreNatural DEF BackendOK, None
<1>2. PollerOK
  BY BoundsAreNatural, GoneIsReport DEF Init, PollerOK, Slots, None, Unknown
<1>3. QueueOK /\ HostOK /\ OutsideOK
  BY BoundsAreNatural, NoRosterIsRoster, WorldsAreRecords DEF Init, QueueOK, HostOK, OutsideOK
<1>4. gc \in GCs
  BY NoRosterIsRoster DEF Init, GCs, None, Unknown
<1>5. dress \in Wardrobes
  BY GoneIsReport DEF Init, Wardrobes
<1>6. DriverOK(driver)
  BY NoDriverOK DEF Init
<1> QED BY <1>1, <1>2, <1>3, <1>4, <1>5, <1>6 DEF TInv

---------------------------------------------------------------------------
(* What the controller makes of the state of the GC thread.                *)

\* The outcome of an operation: well typed, counts the same players, and keeps
\* a driver where there was one.
Follows(out, g, d) ==
  /\ out.gc \in GCs /\ DriverOK(out.driver) /\ out.tell \subseteq Ids
  /\ out.gc.inside = g.inside
  /\ d # NoDriver => out.driver # NoDriver

LEMMA OutFollows ==
  ASSUME NEW g \in GCs, NEW h \in GCs, NEW d, NEW e, DriverOK(e), h.inside = g.inside,
         NEW tell \in SUBSET Ids, d # NoDriver => e # NoDriver
  PROVE  Follows(Out(h, e, tell), g, d)
BY DEF Follows, Out

LEMMA ConfirmFollows ==
  ASSUME NEW g \in GCs, NEW d, DriverOK(d)
  PROVE  Follows(ConfirmIfReady(g, d), g, d)
<1>1. CASE g.armed /\ g.ready /\ g.usable /\ g.snap \in Ids /\ g.roster = RosterOf(g.snap) /\ g.confirmed # g.snap
  <2> DEFINE h == [g EXCEPT !.confirmed = g.snap]
  <2>1. h \in GCs /\ h.inside = g.inside /\ {g.snap} \in SUBSET Ids
    BY <1>1 DEF GCs
  <2>2. ConfirmIfReady(g, d) = Out(h, d, {g.snap})
    BY <1>1 DEF ConfirmIfReady
  <2> QED BY <2>1, <2>2, OutFollows
<1>2. CASE ~(g.armed /\ g.ready /\ g.usable /\ g.snap \in Ids /\ g.roster = RosterOf(g.snap) /\ g.confirmed # g.snap)
  <2>1. ConfirmIfReady(g, d) = Out(g, d, {})
    BY <1>2 DEF ConfirmIfReady
  <2> QED BY <2>1, OutFollows
<1> QED BY <1>1, <1>2

LEMMA OrderedOK ==
  ASSUME NEW d, DriverOK(d), d # NoDriver, NEW e \in Drivers, e.phase # "none" \/ e.phase = d.phase
  PROVE  DriverOK(e) /\ e # NoDriver
BY DEF DriverOK, NoDriver, NewDriver

LEMMA ReleaseFollows ==
  ASSUME NEW g \in GCs, NEW d, DriverOK(d)
  PROVE  Follows(Release(g, d), g, d)
<1> DEFINE h == Unready([g EXCEPT !.armed = FALSE, !.roster = NoRoster, !.own = FALSE])
<1>1. h \in GCs /\ h.inside = g.inside
  BY NoRosterIsRoster DEF GCs, Unready
<1>2. CASE d = NoDriver
  <2>1. Release(g, d) = Out(h, d, {})
    BY <1>2 DEF Release
  <2> QED BY <1>1, <2>1, OutFollows
<1>3. CASE d # NoDriver
  <2> DEFINE e == [d EXCEPT !.released = TRUE, !.cmd = "release"]
  <2>1. e \in Drivers /\ e.phase = d.phase
    BY DEF DriverOK, Drivers
  <2>2. DriverOK(e) /\ e # NoDriver
    BY <1>3, <2>1, OrderedOK
  <2>3. Release(g, d) = Out(h, e, {})
    BY <1>3 DEF Release
  <2> QED BY <1>1, <2>2, <2>3, OutFollows
<1> QED BY <1>2, <1>3

\* A new driver for a roster, armed for the backend or not.
LEMMA ArmsFollows ==
  ASSUME NEW g \in GCs, NEW d, DriverOK(d), NEW r \in Rosters, NEW own \in BOOLEAN, NEW order \in {"arm", "rearm"}
  PROVE  Follows(Out(Unready([g EXCEPT !.armed = TRUE, !.roster = r, !.own = own]), NewDriver(r, order), {}), g, d)
<1> DEFINE h == Unready([g EXCEPT !.armed = TRUE, !.roster = r, !.own = own])
<1>1. h \in GCs /\ h.inside = g.inside
  BY DEF GCs, Unready
<1>2. DriverOK(NewDriver(r, order)) /\ NewDriver(r, order) # NoDriver
  BY NewDriverOK DEF DriverOK
<1> QED BY <1>1, <1>2, OutFollows

LEMMA ArmFollows ==
  ASSUME world \in Worlds, NEW g \in GCs, g.snap \in Ids, NEW d, DriverOK(d)
  PROVE  Follows(Arm(g), g, d)
BY ArmsFollows, PlanIsOfRosters DEF Arm

LEMMA ApplyFollows ==
  ASSUME world \in Worlds, NEW g0 \in GCs, NEW d, DriverOK(d)
  PROVE  Follows(Apply(g0, d), g0, d)
<1> DEFINE g == [g0 EXCEPT !.usable = FALSE]
           use == [g0 EXCEPT !.usable = TRUE]
           mine == [use EXCEPT !.own = TRUE]
           noted == [g EXCEPT !.confirmed = g.snap]
           complete == g.snap \in Ids
<1>1. /\ g \in GCs /\ use \in GCs /\ mine \in GCs
      /\ g.snap = g0.snap /\ use.snap = g0.snap
      /\ g.inside = g0.inside /\ use.inside = g0.inside /\ mine.inside = g0.inside
  BY DEF GCs
<1> DEFINE over == g.snap = None /\ g.armed /\ g.own /\ g.inside = {}
           held == g.armed /\ g.roster = RosterOf(g.snap)
<1>2. CASE over
  <2>1. Apply(g0, d) = Release(g, d)
    BY <1>2 DEF Apply, None, Ids
  <2>2. Follows(Release(g, d), g, d)
    BY <1>1, ReleaseFollows
  <2> HIDE DEF g
  <2> QED BY <1>1, <2>1, <2>2 DEF Follows
<1>3. CASE ~over /\ complete /\ ~Fits(g.snap) /\ g.confirmed # g.snap
  <2>1. Apply(g0, d) = Out(noted, d, {g.snap})
    BY <1>3 DEF Apply
  <2>2. noted \in GCs /\ noted.inside = g0.inside /\ {g.snap} \in SUBSET Ids
    BY <1>1, <1>3 DEF GCs
  <2> QED BY <1>1, <2>1, <2>2, OutFollows
<1>4. CASE ~over /\ complete /\ Fits(g.snap) /\ held
  <2>1. Apply(g0, d) = ConfirmIfReady(mine, d)
    BY <1>4 DEF Apply
  <2>2. Follows(ConfirmIfReady(mine, d), mine, d)
    BY <1>1, ConfirmFollows
  <2> HIDE DEF mine
  <2> QED BY <1>1, <2>1, <2>2 DEF Follows
<1>5. CASE ~over /\ complete /\ Fits(g.snap) /\ ~held
  <2>1. Apply(g0, d) = IF g.inside = {} THEN Arm(use) ELSE Out(use, d, {})
    BY <1>5 DEF Apply
  <2>2. Follows(Arm(use), use, d)
    BY <1>1, <1>5, ArmFollows
  <2>3. Follows(Out(use, d, {}), g0, d)
    BY <1>1, OutFollows
  <2> QED BY <1>1, <2>1, <2>2, <2>3 DEF Follows
<1>6. CASE ~over /\ ~(complete /\ ~Fits(g.snap) /\ g.confirmed # g.snap) /\ ~(complete /\ Fits(g.snap))
  <2>1. Apply(g0, d) = Out(g, d, {})
    BY <1>6 DEF Apply
  <2> QED BY <1>1, <2>1, OutFollows
<1> QED BY <1>2, <1>3, <1>4, <1>5, <1>6

LEMMA LegacyIsRoster ==
  ASSUME NEW p \in Players
  PROVE  Legacy(p) \in Rosters
BY BoundsAreNatural DEF Legacy, Rosters

LEMMA SeenFollows ==
  ASSUME NEW g \in GCs, NEW d, DriverOK(d), NEW p \in Players
  PROVE  Follows(RealPlayerSeen(g, d, p), g, d)
<1>1. CASE d # NoDriver \/ g.usable
  <2>1. RealPlayerSeen(g, d, p) = Out(g, d, {})
    BY <1>1 DEF RealPlayerSeen
  <2> QED BY <2>1, OutFollows
<1>2. CASE d = NoDriver /\ ~g.usable /\ g.snap = Unknown
  <2> DEFINE h == [g EXCEPT !.pending = p]
  <2>1. RealPlayerSeen(g, d, p) = Out(h, d, {})
    BY <1>2 DEF RealPlayerSeen
  <2>2. h \in GCs /\ h.inside = g.inside
    BY DEF GCs
  <2> QED BY <2>1, <2>2, OutFollows
<1>3. CASE d = NoDriver /\ ~g.usable /\ g.snap # Unknown
  <2>1. RealPlayerSeen(g, d, p)
          = Out(Unready([g EXCEPT !.armed = TRUE, !.roster = Legacy(p), !.own = FALSE]), NewDriver(Legacy(p), "arm"), {})
    BY <1>3 DEF RealPlayerSeen
  <2> QED BY <2>1, ArmsFollows, LegacyIsRoster
<1> QED BY <1>1, <1>2, <1>3

---------------------------------------------------------------------------
(* What is in the queues.                                                  *)

LEMMA PostedOK ==
  ASSUME QueueOK, NEW events \in Seq(Events), PostAll(events)
  PROVE  QueueOK'
<1>1. inbox \o events \in Seq(Events) /\ Len(inbox \o events) = Len(inbox) + Len(events)
  BY DEF QueueOK
<1> QED BY <1>1 DEF PostAll, QueueOK, Events, Ids, Kinds

LEMMA PostedOneOK ==
  ASSUME QueueOK, NEW event \in Events, Post(event)
  PROVE  QueueOK'
<1>1. <<event>> \in Seq(Events)
  OBVIOUS
<1> QED BY <1>1, PostedOK DEF Post

LEMMA HandledOK ==
  ASSUME QueueOK, NEW kind, Next1(kind)
  PROVE  QueueOK' /\ Head(inbox) \in Events /\ Head(inbox).kind = kind
<1>1. inbox \in Seq(Events) /\ inbox # <<>> /\ Len(inbox) <= Room
  BY DEF QueueOK, Next1
<1>2. Head(inbox) \in Events /\ Tail(inbox) \in Seq(Events) /\ Len(Tail(inbox)) = Len(inbox) - 1
  BY <1>1
<1> QED BY <1>1, <1>2, BoundsAreNatural DEF QueueOK, Next1, Events, Ids, Kinds

LEMMA EventFields ==
  ASSUME NEW event \in Events
  PROVE  /\ event.kind \in {"seen", "net", "left", "auth"} => event.player \in Players
         /\ event.kind = "roster" => event.snap \in Ids \cup {None, Down}
         /\ event.kind = "ready" => event.ready \in BOOLEAN
BY DEF Events, Kinds

LEMMA EventsAre ==
  /\ \A snap \in Ids \cup {None, Down} : [kind |-> "roster", snap |-> snap] \in Events
  /\ \A ready \in BOOLEAN : [kind |-> "ready", ready |-> ready] \in Events
  /\ \A k \in {"seen", "net", "left", "auth"}, p \in Players : [kind |-> k, player |-> p] \in Events
  /\ \A k \in Kinds : [kind |-> k] \in Events
BY DEF Events

LEMMA HostPosted ==
  ASSUME HostOK, NEW r \in Rosters, PostToHost(r), UNCHANGED engine
  PROVE  HostOK'
<1>1. Append(hostq, r) \in Seq(Rosters) /\ Len(Append(hostq, r)) = Len(hostq) + 1
  BY DEF HostOK
<1> QED BY <1>1, BoundsAreNatural DEF HostOK, PostToHost, Rosters

LEMMA BackendAlone == BackendOK /\ UNCHANGED backend => BackendOK'
BY DEF BackendOK, backend, Ids, Kinds
LEMMA PollerAlone == PollerOK /\ UNCHANGED <<poller, handed>> => PollerOK'
BY DEF PollerOK, poller, Ids, Kinds, Slots, Reports
LEMMA QueueAlone == QueueOK /\ UNCHANGED inbox => QueueOK'
BY DEF QueueOK, Events, Ids, Kinds
LEMMA HostAlone == HostOK /\ UNCHANGED <<hostq, engine>> => HostOK'
BY DEF HostOK, Rosters
LEMMA OutsideAlone == OutsideOK /\ UNCHANGED <<on, sniffed, world>> => OutsideOK'
BY DEF OutsideOK

\* The threads' own parts.
OwnOK == gc \in GCs /\ dress \in Wardrobes /\ DriverOK(driver)
LEMMA OwnAlone == OwnOK /\ UNCHANGED <<gc, dress, driver>> => OwnOK'
BY DEF OwnOK, DriverOK

---------------------------------------------------------------------------
(* The backend and the poller keep the types.                              *)

LEMMA BackendSteps ==
  ASSUME TInv, UNCHANGED <<poller, inbox, gc, driver, hostq, outside, sync>>, BackendOK'
  PROVE  TInv'
BY PollerAlone, QueueAlone, HostAlone, OutsideAlone, OwnAlone DEF poller, outside, sync, TInv, OwnOK

LEMMA NewMatchTypes == \A m \in Ids : TInv /\ NewMatch(m) => TInv'
<1> SUFFICES ASSUME NEW m \in Ids, TInv, NewMatch(m) PROVE TInv'
  OBVIOUS
<1>1. BackendOK'
  <2>1. match' = m /\ last' = m /\ cooling' = FALSE /\ m = last + 1 /\ UNCHANGED <<told, store>>
    BY DEF NewMatch
  <2>2. last \in Nat /\ last' \in 0..Matches /\ told \subseteq 1..last /\ m \in Nat
    BY <2>1, BoundsAreNatural DEF TInv, BackendOK, Ids
  <2>3. told \subseteq 1..m
    BY <2>1, <2>2
  <2>4. match' \in Ids /\ match' <= last' /\ told' \subseteq 1..last'
    BY <2>1, <2>2, <2>3
  <2>5. store' \in [Players -> SUBSET Kinds] /\ cooling' \in BOOLEAN
    BY <2>1 DEF TInv, BackendOK
  <2> QED BY <2>2, <2>4, <2>5 DEF BackendOK, Ids, Kinds
<1> QED BY <1>1, BackendSteps DEF NewMatch

LEMMA EndMatchTypes == TInv /\ EndMatch => TInv'
<1> SUFFICES ASSUME TInv, EndMatch PROVE TInv'
  OBVIOUS
<1>1. BackendOK'
  <2>1. match' = 0 /\ cooling' \in BOOLEAN /\ UNCHANGED <<last, told, store>>
    BY DEF EndMatch, None
  <2> QED BY <2>1, BoundsAreNatural DEF TInv, BackendOK, Ids, Kinds, None
<1> QED BY <1>1, BackendSteps DEF EndMatch

LEMMA StoresTypes ==
  ASSUME TInv, NEW snapshots \in [Players -> SUBSET Kinds], Stores(snapshots)
  PROVE  TInv'
<1>1. BackendOK'
  BY DEF TInv, BackendOK, Stores, Ids, Kinds
<1> QED BY <1>1, BackendSteps DEF Stores

LEMMA SnapshotsTypes ==
  ASSUME TInv, Restart \/ \E p \in Players : Purge(p) \/ \E kind \in Kinds : Submit(p, kind)
  PROVE  TInv'
<1>1. store \in [Players -> SUBSET Kinds]
  BY DEF TInv, BackendOK
<1>2. CASE Restart
  BY <1>2, StoresTypes DEF Restart
<1>3. ASSUME NEW p \in Players, Purge(p) PROVE TInv'
  <2>1. [store EXCEPT ![p] = {}] \in [Players -> SUBSET Kinds]
    BY <1>1
  <2> QED BY <1>3, <2>1, StoresTypes DEF Purge
<1>4. ASSUME NEW p \in Players, NEW kind \in Kinds, Submit(p, kind) PROVE TInv'
  <2>1. [store EXCEPT ![p] = @ \cup {kind}] \in [Players -> SUBSET Kinds]
    BY <1>1
  <2> QED BY <1>4, <2>1, StoresTypes DEF Submit
<1> QED BY <1>2, <1>3, <1>4

LEMMA DeliverTypes == \A m \in Ids : TInv /\ Deliver(m) => TInv'
<1> SUFFICES ASSUME NEW m \in Ids, TInv, Deliver(m) PROVE TInv'
  OBVIOUS
<1>1. UNCHANGED <<match, last, cooling, store, key, seen, handed>> /\ confirms[m] > 0
  BY DEF Deliver, sync
<1>2. told' \subseteq 1..last
  <2>1. match = m => m \in 1..last
    BY BoundsAreNatural DEF TInv, BackendOK, Ids
  <2> QED BY <2>1 DEF TInv, BackendOK, Deliver
<1>3. BackendOK'
  BY <1>1, <1>2 DEF TInv, BackendOK, Ids, Kinds
<1>4. confirms' \in [Ids -> 0..Tries]
  <2>1. confirms \in [Ids -> 0..Tries] /\ Tries \in Nat
    BY BoundsAreNatural DEF TInv, PollerOK
  <2>2. PICK ok \in BOOLEAN : confirms' = [confirms EXCEPT ![m] = IF ok \/ @ = Tries THEN 0 ELSE @ + 1]
    BY DEF Deliver
  <2>3. (IF ok \/ confirms[m] = Tries THEN 0 ELSE confirms[m] + 1) \in 0..Tries
    BY <2>1
  <2> QED BY <2>1, <2>2, <2>3
<1>5. PollerOK'
  BY <1>1, <1>4 DEF TInv, PollerOK, Ids, Kinds, Slots, Reports
<1> QED BY <1>3, <1>5, QueueAlone, HostAlone, OutsideAlone, OwnAlone DEF Deliver, outside, sync, TInv, OwnOK

LEMMA AttachedIsReport ==
  ASSUME world \in Worlds, NEW kind, NEW answer
  PROVE  Attached(kind, answer) \in Reports
<1>1. CASE answer \in Ids
  <2>1. RosterOf(answer).real \subseteq Players
    BY <1>1, PlanIsOfRosters DEF Rosters
  <2> QED BY <1>1, <2>1 DEF Attached, Reports
<1>2. CASE answer \notin Ids
  BY <1>2, GoneIsReport DEF Attached
<1> QED BY <1>1, <1>2

LEMMA PollTypes ==
  ASSUME TInv, NEW answer \in Ids \cup {None, Down}, Poll(answer)
  PROVE  TInv'
<1> DEFINE news == News(answer)
           fresh == [kind \in Kinds |-> IF kind \in news THEN Attached(kind, answer) ELSE seen[kind]]
           snaps == EventsOf(news)
           answers == IF answer = key THEN <<>> ELSE <<[kind |-> "roster", snap |-> answer]>>
<1>1. /\ PostAll(snaps \o answers)
      /\ key' = answer /\ seen' = fresh
      /\ handed' = [skins |-> IF "skins" \in news THEN fresh.skins ELSE handed.skins,
                    equipment |-> IF "equipment" \in news THEN fresh.equipment ELSE handed.equipment,
                    set |-> handed.set \/ "equipment" \in news]
      /\ UNCHANGED <<backend, confirms, gc, dress, driver, hostq, outside>>
  BY DEF Poll
<1>2. QueueOK'
  <2>1. snaps \in Seq(Events)
    BY EventsAre DEF EventsOf, Kinds
  <2>2. answers \in Seq(Events)
    BY EventsAre
  <2>3. snaps \o answers \in Seq(Events)
    BY <2>1, <2>2
  <2> QED BY <1>1, <2>3, PostedOK DEF TInv
<1>3. PollerOK'
  <2>1. fresh \in [Kinds -> Reports]
    BY AttachedIsReport DEF TInv, PollerOK, OutsideOK
  <2>2. fresh.skins \in Reports /\ fresh.equipment \in Reports
    BY <2>1 DEF Kinds
  <2>3. handed \in Slots /\ handed.set \in BOOLEAN /\ ("equipment" \in news) \in BOOLEAN
    BY DEF TInv, PollerOK, Slots
  <2>4. handed' \in Slots
    <3>1. (handed.set \/ "equipment" \in news) \in BOOLEAN
      BY <2>3
    <3> HIDE DEF fresh, news
    <3> QED BY <1>1, <2>2, <2>3, <3>1 DEF Slots
  <2> QED BY <1>1, <2>1, <2>4 DEF TInv, PollerOK, Ids, Kinds, Slots, Reports
<1> QED BY <1>1, <1>2, <1>3, BackendAlone, HostAlone, OutsideAlone, OwnAlone DEF outside, TInv, OwnOK

---------------------------------------------------------------------------
(* The GC thread keeps the types.                                          *)

LEMMA BecomesTypes ==
  ASSUME TInv, QueueOK', dress' \in Wardrobes, NEW g, NEW out, Follows(out, g, driver), Becomes(out)
  PROVE  TInv'
<1>1. gc' \in GCs /\ DriverOK(driver)'
  BY DEF Follows, Becomes, DriverOK
<1>2. PollerOK'
  <2>1. confirms' \in [Ids -> 0..Tries]
    BY BoundsAreNatural DEF Becomes, TInv, PollerOK
  <2> QED BY <2>1 DEF TInv, PollerOK, Becomes, Ids, Kinds, Slots, Reports
<1> QED BY <1>1, <1>2, BackendAlone, HostAlone, OutsideAlone DEF TInv, Becomes, outside

\* A handler that leaves the wardrobe alone.
LEMMA HandlerTypes ==
  ASSUME TInv, NEW kind, Next1(kind), UNCHANGED dress, NEW g, NEW out, Follows(out, g, driver), Becomes(out)
  PROVE  TInv'
<1>1. QueueOK' /\ dress' \in Wardrobes
  BY HandledOK DEF TInv
<1> QED BY <1>1, BecomesTypes

\* What OnBackendRoster makes of an answer.
LEMMA RosterHandled ==
  ASSUME TInv, HandleRoster
  PROVE  \E out : Follows(out, gc, driver) /\ Becomes(out)
<1> DEFINE g == [gc EXCEPT !.snap = Head(inbox).snap]
           first == Apply(g, driver)
           h == [first.gc EXCEPT !.pending = NoPlayer]
           second == RealPlayerSeen(h, NoDriver, first.gc.pending)
<1>1. g \in GCs /\ g.inside = gc.inside
  <2>1. Head(inbox).snap \in Ids \cup {None, Down}
    BY HandledOK, EventFields DEF HandleRoster, TInv
  <2> QED BY <2>1 DEF TInv, GCs
<1>2. Follows(first, g, driver)
  BY <1>1, ApplyFollows DEF TInv, OutsideOK
<1>3. CASE first.gc.pending = NoPlayer \/ first.driver # NoDriver
  <2>1. Becomes(first)
    BY <1>3 DEF HandleRoster
  <2>2. Follows(first, gc, driver)
    BY <1>1, <1>2 DEF Follows
  <2> QED BY <2>1, <2>2
<1>4. CASE ~(first.gc.pending = NoPlayer \/ first.driver # NoDriver)
  <2>1. h \in GCs /\ h.inside = gc.inside /\ first.gc.pending \in Players
    <3> HIDE DEF first
    <3> QED BY <1>1, <1>2, <1>4 DEF Follows, GCs
  <2>2. Follows(second, h, NoDriver) /\ driver = NoDriver
    <3> HIDE DEF first, h
    <3> QED BY <1>2, <1>4, <2>1, NoDriverOK, SeenFollows DEF Follows
  <2>3. PICK out : out = [second EXCEPT !.tell = first.tell]
    OBVIOUS
  <2>4. Becomes(out)
    BY <1>4, <2>3 DEF HandleRoster
  <2>5. out.gc = second.gc /\ out.driver = second.driver /\ out.tell = first.tell
    <3>1. second = Out(second.gc, second.driver, second.tell)
      BY DEF RealPlayerSeen, Out
    <3> HIDE DEF second, first
    <3> QED BY <2>3, <3>1 DEF Out
  <2>6. Follows(out, gc, driver)
    <3> HIDE DEF second, first, h
    <3> QED BY <1>2, <2>1, <2>2, <2>5 DEF Follows
  <2> QED BY <2>4, <2>6
<1> QED BY <1>3, <1>4

LEMMA HandleRosterTypes == TInv /\ HandleRoster => TInv'
BY RosterHandled, HandlerTypes DEF HandleRoster

LEMMA ReadyHandled ==
  ASSUME TInv, HandleReady
  PROVE  \E out : Follows(out, gc, driver) /\ Becomes(out)
<1> DEFINE g == [gc EXCEPT !.ready = Head(inbox).ready]
<1>1. g \in GCs /\ g.inside = gc.inside
  <2>1. Head(inbox).ready \in BOOLEAN
    BY HandledOK, EventFields DEF HandleReady, TInv
  <2> QED BY <2>1 DEF TInv, GCs
<1>2. Follows(ConfirmIfReady(g, driver), g, driver)
  BY <1>1, ConfirmFollows DEF TInv
<1>3. Follows(ConfirmIfReady(g, driver), gc, driver)
  <2> HIDE DEF g
  <2> QED BY <1>1, <1>2 DEF Follows
<1> QED BY <1>3 DEF HandleReady

LEMMA HandleReadyTypes == TInv /\ HandleReady => TInv'
BY ReadyHandled, HandlerTypes DEF HandleReady

LEMMA SeenHandled ==
  ASSUME TInv, HandleSeen
  PROVE  \E out : Follows(out, gc, driver) /\ Becomes(out)
<1>1. Head(inbox).player \in Players
  BY HandledOK, EventFields DEF HandleSeen, TInv
<1>2. Follows(RealPlayerSeen(gc, driver, Head(inbox).player), gc, driver)
  BY <1>1, SeenFollows DEF TInv
<1> QED BY <1>2 DEF HandleSeen

LEMMA HandleSeenTypes == TInv /\ HandleSeen => TInv'
BY SeenHandled, HandlerTypes DEF HandleSeen

\* A player is counted, by a server that has a driver.
LEMMA NetHandled ==
  ASSUME TInv, HandleNet
  PROVE  /\ Head(inbox).player \in Players
         /\ \E g, out :
              /\ g.inside = IF driver = NoDriver THEN gc.inside ELSE gc.inside \cup {Head(inbox).player}
              /\ Follows(out, g, driver) /\ Becomes(out)
<1> DEFINE p == Head(inbox).player
           first == driver # NoDriver /\ gc.inside = {}
           g == IF driver = NoDriver THEN gc ELSE [gc EXCEPT !.inside = @ \cup {p}]
           d == IF first THEN [driver EXCEPT !.cmd = "pause"] ELSE driver
<1>1. p \in Players
  BY HandledOK, EventFields DEF HandleNet, TInv
<1>2. g \in GCs /\ g.inside = IF driver = NoDriver THEN gc.inside ELSE gc.inside \cup {p}
  <2> HIDE DEF p
  <2> QED BY <1>1 DEF TInv, GCs
<1>3. DriverOK(d) /\ (driver # NoDriver => d # NoDriver)
  <2>1. CASE first
    <3> DEFINE e == [driver EXCEPT !.cmd = "pause"]
    <3>1. e \in Drivers /\ e.phase = driver.phase
      BY DEF TInv, DriverOK, Drivers
    <3>2. DriverOK(driver) /\ driver # NoDriver
      BY <2>1 DEF TInv
    <3>3. DriverOK(e) /\ e # NoDriver
      <4> HIDE DEF e
      <4> QED BY <3>1, <3>2, OrderedOK
    <3> QED BY <2>1, <3>3
  <2>2. CASE ~first
    BY <2>2 DEF TInv
  <2> QED BY <2>1, <2>2
<1>4. Follows(Out(g, d, {}), g, driver)
  <2> HIDE DEF g, d
  <2> QED BY <1>2, <1>3, OutFollows
<1>5. Becomes(Out(g, d, {}))
  BY DEF HandleNet
<1> QED BY <1>1, <1>2, <1>4, <1>5

LEMMA HandleNetTypes == TInv /\ HandleNet => TInv'
BY NetHandled, HandlerTypes DEF HandleNet

LEMMA ForgottenOK ==
  ASSUME dress \in Wardrobes, NEW p
  PROVE  Forgotten(p) \in Wardrobes
BY DEF Forgotten, Wardrobes

LEMMA LeftHandled ==
  ASSUME TInv, HandleLeft
  PROVE  /\ Head(inbox).player \in Players
         /\ \E g, out :
              g.inside = gc.inside \ {Head(inbox).player} /\ Follows(out, g, driver) /\ Becomes(out)
<1> DEFINE p == Head(inbox).player
           g == [gc EXCEPT !.inside = @ \ {p}]
           over == gc.inside # {} /\ g.inside = {}
           d == IF over /\ driver # NoDriver /\ ~driver.released THEN [driver EXCEPT !.cmd = "rearm"] ELSE driver
           out == IF g.inside = {} THEN Apply(g, d) ELSE Out(g, d, {})
<1>1. p \in Players
  BY HandledOK, EventFields DEF HandleLeft, TInv
<1>2. g \in GCs /\ g.inside = gc.inside \ {p}
  <2> HIDE DEF p
  <2> QED BY <1>1 DEF TInv, GCs
<1>3. DriverOK(d) /\ (driver # NoDriver => d # NoDriver)
  <2>1. CASE over /\ driver # NoDriver /\ ~driver.released
    <3> DEFINE e == [driver EXCEPT !.cmd = "rearm"]
    <3>1. e \in Drivers /\ e.phase = driver.phase
      BY DEF TInv, DriverOK, Drivers
    <3>2. DriverOK(driver) /\ driver # NoDriver
      BY <2>1 DEF TInv
    <3>3. DriverOK(e) /\ e # NoDriver
      <4> HIDE DEF e
      <4> QED BY <3>1, <3>2, OrderedOK
    <3> QED BY <2>1, <3>3
  <2>2. CASE ~(over /\ driver # NoDriver /\ ~driver.released)
    BY <2>2 DEF TInv
  <2> QED BY <2>1, <2>2
<1>4. Follows(out, g, driver)
  <2> HIDE DEF g, d
  <2>1. Follows(Apply(g, d), g, d) /\ Follows(Out(g, d, {}), g, d)
    BY <1>2, <1>3, ApplyFollows, OutFollows DEF TInv, OutsideOK
  <2> QED BY <1>3, <2>1 DEF Follows
<1>5. Becomes(out)
  BY DEF HandleLeft
<1> QED BY <1>1, <1>2, <1>4, <1>5

LEMMA HandleLeftTypes == TInv /\ HandleLeft => TInv'
<1> SUFFICES ASSUME TInv, HandleLeft PROVE TInv'
  OBVIOUS
<1>1. QueueOK' /\ dress' \in Wardrobes
  BY HandledOK, ForgottenOK DEF TInv, HandleLeft
<1> QED BY <1>1, LeftHandled, BecomesTypes

---------------------------------------------------------------------------
(* What is handed over keeps the types.                                    *)

LEMMA TakenOK == TInv => Taken \in Slots /\ WithEquipment \in Wardrobes
<1> SUFFICES ASSUME TInv PROVE Taken \in Slots /\ WithEquipment \in Wardrobes
  OBVIOUS
<1>1. handed \in Slots /\ dress \in Wardrobes
  BY DEF TInv, PollerOK
<1> QED BY <1>1, GoneIsReport DEF Taken, WithEquipment, Slots, Wardrobes

LEMMA WornOK ==
  ASSUME NEW d \in Wardrobes, NEW players
  PROVE  /\ Worn(d, players) \in Wardrobes
         /\ Worn(d, players).skins = d.skins /\ Worn(d, players).equipment = d.equipment
         /\ Worn(d, players).authenticated = d.authenticated
         /\ \A p \in Players :
              Worn(d, players).worn[p] = IF p \in players /\ Plan(d, p) # {} THEN Plan(d, p) ELSE d.worn[p]
<1> DEFINE worn == [p \in Players |-> IF p \in players /\ Plan(d, p) # {} THEN Plan(d, p) ELSE d.worn[p]]
<1>1. worn \in [Players -> SUBSET Kinds]
  BY DEF Plan, Wardrobes
<1>2. Worn(d, players) = [d EXCEPT !.worn = worn]
  BY DEF Worn
<1>3. \A p \in Players : worn[p] = IF p \in players /\ Plan(d, p) # {} THEN Plan(d, p) ELSE d.worn[p]
  OBVIOUS
<1> HIDE DEF worn
<1>4. /\ Worn(d, players) \in Wardrobes /\ Worn(d, players).worn = worn
      /\ Worn(d, players).skins = d.skins /\ Worn(d, players).equipment = d.equipment
      /\ Worn(d, players).authenticated = d.authenticated
  BY <1>1, <1>2 DEF Wardrobes
<1> QED BY <1>3, <1>4

LEMMA DressesTypes ==
  ASSUME TInv, NEW kind, Next1(kind), NEW d \in Wardrobes, NEW slots \in Slots, Dresses(d, slots)
  PROVE  TInv'
<1>1. QueueOK'
  BY HandledOK DEF TInv
<1>2. PollerOK'
  BY DEF TInv, PollerOK, Dresses, poller, Ids, Kinds, Slots, Reports
<1> QED BY <1>1, <1>2, BackendAlone, HostAlone, OutsideAlone DEF TInv, Dresses, outside, DriverOK

LEMMA HandleSkinsTypes == TInv /\ HandleSkins => TInv'
<1> SUFFICES ASSUME TInv, HandleSkins PROVE TInv'
  OBVIOUS
<1> DEFINE d == [WithEquipment EXCEPT !.skins = handed.skins]
           e == IF handed.skins = Gone THEN d ELSE Worn(d, d.authenticated \ Applied(d))
           slots == [Taken EXCEPT !.skins = Gone]
<1>1. d \in Wardrobes
  BY TakenOK DEF TInv, PollerOK, Slots, Wardrobes
<1>2. e \in Wardrobes
  <2> HIDE DEF d
  <2> QED BY <1>1, WornOK
<1>3. slots \in Slots
  BY TakenOK, GoneIsReport DEF Slots
<1>4. Dresses(e, slots) /\ Next1("skins")
  BY DEF HandleSkins
<1> HIDE DEF e, slots
<1> QED BY <1>2, <1>3, <1>4, DressesTypes

LEMMA HandleEquipmentTypes == TInv /\ HandleEquipment => TInv'
<1> SUFFICES ASSUME TInv, HandleEquipment PROVE TInv'
  OBVIOUS
<1> DEFINE d == WithEquipment
<1>1. Worn(d, d.authenticated \ Applied(d)) \in Wardrobes /\ Taken \in Slots
  BY TakenOK, WornOK
<1>2. Dresses(Worn(d, d.authenticated \ Applied(d)), Taken) /\ Next1("equipment")
  BY DEF HandleEquipment
<1> HIDE DEF d
<1> QED BY <1>1, <1>2, DressesTypes

LEMMA HandleAuthenticatedTypes == TInv /\ HandleAuthenticated => TInv'
<1> SUFFICES ASSUME TInv, HandleAuthenticated PROVE TInv'
  OBVIOUS
<1> DEFINE p == Head(inbox).player
           d == [dress EXCEPT !.authenticated = @ \cup {p}]
<1>1. p \in Players
  BY HandledOK, EventFields DEF HandleAuthenticated, TInv
<1>2. d \in Wardrobes
  BY <1>1 DEF TInv, Wardrobes
<1>3. Worn(d, {p}) \in Wardrobes
  <2> HIDE DEF d
  <2> QED BY <1>2, WornOK
<1>4. Dresses(Worn(d, {p}), handed) /\ Next1("auth") /\ handed \in Slots
  BY DEF HandleAuthenticated, TInv, PollerOK
<1> HIDE DEF d, p
<1> QED BY <1>3, <1>4, DressesTypes

LEMMA GCThreadTypes == TInv /\ GCThread => TInv'
BY HandleRosterTypes, HandleReadyTypes, HandleSeenTypes, HandleNetTypes, HandleLeftTypes,
   HandleSkinsTypes, HandleEquipmentTypes, HandleAuthenticatedTypes DEF GCThread

---------------------------------------------------------------------------
(* The driver keeps the types.                                             *)

\* A pass of a driver that is there.
LEMMA PassTypes ==
  ASSUME TInv, driver # NoDriver, NEW d \in Drivers, d.phase # "none", driver' = d,
         UNCHANGED <<backend, poller, gc, outside, sync>>, QueueOK', HostOK'
  PROVE  TInv' /\ driver' # NoDriver
<1>1. d # NoDriver
  BY DEF NoDriver, NewDriver
<1> QED BY <1>1, BackendAlone, PollerAlone, OutsideAlone DEF TInv, DriverOK, outside, sync, poller

LEMMA HasPhase ==
  ASSUME TInv, NEW order, Finds(order)
  PROVE  driver \in Drivers /\ driver # NoDriver /\ driver.phase # "none"
BY DEF TInv, DriverOK, Finds

LEMMA PassesTypes ==
  ASSUME TInv, NEW order, Finds(order), NEW d \in Drivers, d.phase # "none", Passes(d), QueueOK', HostOK'
  PROVE  TInv' /\ driver' # NoDriver
<1> DEFINE e == [d EXCEPT !.cmd = "none"]
<1>1. e \in Drivers /\ e.phase # "none" /\ driver' = e
  BY DEF Drivers, Passes
<1>2. driver # NoDriver /\ UNCHANGED <<backend, poller, gc, outside, sync>>
  BY HasPhase DEF Passes
<1> HIDE DEF e
<1> QED BY <1>1, <1>2, PassTypes

LEMMA ReadyPosted ==
  ASSUME TInv, NEW ready \in BOOLEAN, Post([kind |-> "ready", ready |-> ready])
  PROVE  QueueOK'
BY EventsAre, PostedOneOK DEF TInv

LEMMA PassPauseTypes == TInv /\ PassPause => TInv' /\ driver' # NoDriver
<1> SUFFICES ASSUME TInv, PassPause PROVE TInv' /\ driver' # NoDriver
  OBVIOUS
<1> DEFINE d == [driver EXCEPT !.phase = "paused"]
<1>1. Finds("pause") /\ Passes(d) /\ UNCHANGED <<inbox, hostq>>
  BY DEF PassPause
<1>2. d \in Drivers /\ d.phase # "none"
  BY <1>1, HasPhase DEF Drivers
<1>3. QueueOK' /\ HostOK'
  BY <1>1, QueueAlone, HostAlone DEF TInv, Passes, outside
<1> HIDE DEF d
<1> QED BY <1>1, <1>2, <1>3, PassesTypes

LEMMA PassArmTypes == TInv /\ PassArm => TInv' /\ driver' # NoDriver
<1> SUFFICES ASSUME TInv, PassArm PROVE TInv' /\ driver' # NoDriver
  OBVIOUS
<1> DEFINE d == [driver EXCEPT !.phase = "probe", !.level = 0, !.popup = FALSE]
<1>1. PICK order : Finds(order)
  BY DEF PassArm
<1>2. Passes(d) /\ Post([kind |-> "ready", ready |-> FALSE]) /\ PostToHost(driver.roster)
  BY DEF PassArm
<1>3. d \in Drivers /\ d.phase # "none" /\ driver.roster \in Rosters
  <2>1. driver \in Drivers
    BY <1>1, HasPhase
  <2>2. driver.roster \in Rosters /\ d \in Drivers
    <3>1. 0 \in 0..2 /\ [driver EXCEPT !.phase = "probe"] \in Drivers
      BY <2>1 DEF Drivers
    <3>2. [[driver EXCEPT !.phase = "probe"] EXCEPT !.level = 0, !.popup = FALSE] \in Drivers
      BY <3>1 DEF Drivers
    <3> QED BY <2>1, <3>2 DEF Drivers
  <2>3. d.phase = "probe"
    BY <2>1 DEF Drivers
  <2> QED BY <2>2, <2>3
<1>4. QueueOK' /\ HostOK'
  BY <1>2, <1>3, ReadyPosted, HostPosted DEF TInv, Passes, outside
<1> HIDE DEF d
<1> QED BY <1>1, <1>2, <1>3, <1>4, PassesTypes

LEMMA PassUnreserveTypes ==
  ASSUME TInv, NEW order, NEW phase \in {"paused", "cooldown"}, PassUnreserve(order, phase)
  PROVE  TInv' /\ driver' # NoDriver
<1> DEFINE d == [driver EXCEPT !.phase = phase, !.gaveUp = FALSE]
<1>1. Finds(order) /\ Passes(d) /\ Post([kind |-> "ready", ready |-> FALSE]) /\ PostToHost(NoRoster)
  BY DEF PassUnreserve
<1>2. d \in Drivers /\ d.phase # "none"
  <2>1. driver \in Drivers
    BY <1>1, HasPhase
  <2>2. d \in Drivers /\ d.phase = phase
    BY <2>1 DEF Drivers
  <2> QED BY <2>2
<1>3. QueueOK' /\ HostOK'
  BY <1>1, ReadyPosted, HostPosted, NoRosterIsRoster DEF TInv, Passes, outside
<1> HIDE DEF d
<1> QED BY <1>1, <1>2, <1>3, PassesTypes

LEMMA TurnedOK ==
  ASSUME NEW d \in Drivers, d.phase # "none"
  PROVE  Turned(d) \in Drivers /\ Turned(d).phase # "none"
<1>1. Turned(d) \in {[d EXCEPT !.phase = "accept", !.level = IF @ < 1 THEN 1 ELSE @],
                     [d EXCEPT !.phase = "waitPopup"], [d EXCEPT !.phase = "done"], d}
  BY DEF Turned
<1>2. (IF d.level < 1 THEN 1 ELSE d.level) \in 0..2
  BY DEF Drivers
<1>3. [d EXCEPT !.phase = "accept", !.level = IF @ < 1 THEN 1 ELSE @] \in Drivers
  BY <1>2 DEF Drivers
<1>4. [d EXCEPT !.phase = "waitPopup"] \in Drivers /\ [d EXCEPT !.phase = "done"] \in Drivers
  BY DEF Drivers
<1>5. /\ [d EXCEPT !.phase = "accept", !.level = IF @ < 1 THEN 1 ELSE @].phase = "accept"
      /\ [d EXCEPT !.phase = "waitPopup"].phase = "waitPopup" /\ [d EXCEPT !.phase = "done"].phase = "done"
  BY DEF Drivers
<1> QED BY <1>1, <1>3, <1>4, <1>5

LEMMA PassOnTypes ==
  ASSUME TInv, NEW d \in Drivers, d.phase # "none", Pass(d)
  PROVE  TInv' /\ driver' # NoDriver
<1>1. QueueOK'
  <2>1. Post([kind |-> "ready", ready |-> TRUE]) \/ UNCHANGED inbox
    BY DEF Pass
  <2> QED BY <2>1, ReadyPosted, QueueAlone DEF TInv
<1>2. HostOK'
  BY HostAlone DEF TInv, Pass, outside
<1>3. driver # NoDriver
  BY HasPhase DEF Pass
<1> QED BY <1>1, <1>2, <1>3, PassTypes DEF Pass

LEMMA PassOthersTypes == TInv /\ (PassQuiet \/ PassAnswered \/ PassGaveUp \/ PassPopup) => TInv' /\ driver' # NoDriver
<1> SUFFICES ASSUME TInv, PassQuiet \/ PassAnswered \/ PassGaveUp \/ PassPopup PROVE TInv' /\ driver' # NoDriver
  OBVIOUS
<1> DEFINE d == Turned(driver)
<1>1. Finds("none")
  BY DEF PassQuiet, PassAnswered, PassGaveUp, PassPopup, Pass
<1>2. d \in Drivers /\ d.phase # "none"
  BY <1>1, HasPhase, TurnedOK
<1>3. PICK e : e \in {d, [d EXCEPT !.level = Desired(d)], [d EXCEPT !.gaveUp = TRUE], [d EXCEPT !.popup = TRUE]} /\ Pass(e)
  BY DEF PassQuiet, PassAnswered, PassGaveUp, PassPopup
<1>4. e \in Drivers /\ e.phase # "none"
  <2>1. Desired(d) \in 0..2
    BY DEF Desired
  <2> HIDE DEF d
  <2> QED BY <1>2, <1>3, <2>1 DEF Drivers
<1> QED BY <1>3, <1>4, PassOnTypes

LEMMA DriverTypes == TInv /\ (DriverThread \/ PassPopup) => TInv' /\ driver' # NoDriver
BY PassPauseTypes, PassArmTypes, PassUnreserveTypes, PassOthersTypes DEF DriverThread, PassRearm, PassRelease

---------------------------------------------------------------------------
(* The host thread, the engine and the players keep the types.             *)

LEMMA HostTypes == TInv /\ (HostThread \/ EngineDrop \/ Lapse) => TInv'
<1> SUFFICES ASSUME TInv, HostThread \/ EngineDrop \/ Lapse PROVE TInv'
  OBVIOUS
<1>1. UNCHANGED <<backend, poller, inbox, gc, driver, on, sniffed, world, sync>>
  BY DEF HostThread, EngineDrop, Lapse
<1>2. engine \in [held : Rosters, expired : BOOLEAN] /\ hostq \in Seq(Rosters) /\ Len(hostq) <= Room
  BY DEF TInv, HostOK
<1> DEFINE Engines == [held : Rosters, expired : BOOLEAN]
<1>3. \A b \in BOOLEAN : [engine EXCEPT !.expired = b] \in Engines
  BY <1>2
<1>4. \A r \in Rosters : [held |-> r, expired |-> FALSE] \in Engines
  OBVIOUS
<1>5. (engine.held # NoRoster) \in BOOLEAN
  OBVIOUS
<1>6. CASE HostThread
  <2>1. hostq # <<>> /\ hostq' = Tail(hostq) /\ Head(hostq) \in Rosters
    BY <1>2, <1>6 DEF HostThread
  <2>2. hostq' \in Seq(Rosters) /\ Len(hostq') <= Room
    <3>1. Tail(hostq) \in Seq(Rosters) /\ Len(Tail(hostq)) = Len(hostq) - 1
      BY <1>2, <2>1
    <3> QED BY <1>2, <2>1, <3>1, BoundsAreNatural
  <2>3. engine' \in {[engine EXCEPT !.expired = engine.held # NoRoster],
                     [held |-> Head(hostq), expired |-> FALSE], [engine EXCEPT !.expired = FALSE]}
    BY <1>6 DEF HostThread
  <2>4. engine' \in Engines
    <3> HIDE DEF Engines
    <3> QED BY <1>3, <1>4, <1>5, <2>1, <2>3
  <2>5. HostOK'
    BY <2>2, <2>4 DEF HostOK, Rosters
  <2> QED BY <1>1, <2>5, BackendAlone, PollerAlone, QueueAlone, OutsideAlone DEF TInv, DriverOK, sync
<1>7. CASE EngineDrop \/ Lapse
  <2>1. engine' \in Engines /\ hostq' = hostq
    <3> HIDE DEF Engines
    <3> QED BY <1>7, <1>3, <1>4, NoRosterIsRoster DEF EngineDrop, Lapse
  <2>2. HostOK'
    BY <1>2, <2>1 DEF HostOK, Rosters
  <2> QED BY <1>1, <2>2, BackendAlone, PollerAlone, QueueAlone, OutsideAlone DEF TInv, DriverOK, sync
<1> QED BY <1>6, <1>7

\* A player does something that the GC hears of.
LEMMA PlayerTypes ==
  ASSUME TInv, UNCHANGED <<backend, poller, gc, driver, hostq, engine, world, sync>>, QueueOK',
         on' \subseteq Players, sniffed' \in Players \cup {NoPlayer}
  PROVE  TInv'
<1>1. OutsideOK'
  BY DEF TInv, OutsideOK
<1> QED BY <1>1, BackendAlone, PollerAlone, HostAlone DEF TInv, DriverOK, sync

LEMMA PlayersTypes ==
  ASSUME TInv, NEW p \in Players, Enter(p) \/ Greet(p) \/ Leave(p) \/ Sniff(p)
  PROVE  TInv'
<1>1. on \subseteq Players /\ sniffed \in Players \cup {NoPlayer}
  BY DEF TInv, OutsideOK
<1>2. CASE Enter(p)
  <2> DEFINE greeting == IF world.greets = "atOnce" THEN <<[kind |-> "net", player |-> p]>> ELSE <<>>
             proof == IF world.snaps = "off" THEN <<>> ELSE <<[kind |-> "auth", player |-> p]>>
  <2>1. proof \in Seq(Events) /\ greeting \in Seq(Events)
    BY EventsAre
  <2>2. proof \o greeting \in Seq(Events)
    BY <2>1
  <2>3. PostAll(proof \o greeting)
    BY <1>2 DEF Enter
  <2>4. QueueOK'
    BY <2>2, <2>3, PostedOK DEF TInv
  <2>5. UNCHANGED <<backend, poller, gc, driver, hostq, engine, sniffed, world, sync>> /\ on' = on \cup {p}
    BY <1>2 DEF Enter
  <2> QED BY <1>1, <2>4, <2>5, PlayerTypes
<1>3. CASE Greet(p)
  <2>1. Post([kind |-> "net", player |-> p])
    BY <1>3 DEF Greet
  <2>2. QueueOK'
    BY <2>1, EventsAre, PostedOneOK DEF TInv
  <2>3. UNCHANGED <<backend, poller, gc, driver, hostq, engine, on, sniffed, world, sync>>
    BY <1>3 DEF Greet, outside
  <2> QED BY <1>1, <2>2, <2>3, PlayerTypes
<1>4. CASE Leave(p)
  <2>1. Post([kind |-> "left", player |-> p])
    BY <1>4 DEF Leave
  <2>2. QueueOK'
    BY <2>1, EventsAre, PostedOneOK DEF TInv
  <2>3. UNCHANGED <<backend, poller, gc, driver, hostq, engine, sniffed, world, sync>> /\ on' = on \ {p}
    BY <1>4 DEF Leave
  <2> QED BY <1>1, <2>2, <2>3, PlayerTypes
<1>5. CASE Sniff(p)
  <2>1. Post([kind |-> "seen", player |-> p])
    BY <1>5 DEF Sniff
  <2>2. QueueOK'
    BY <2>1, EventsAre, PostedOneOK DEF TInv
  <2>3. UNCHANGED <<backend, poller, gc, driver, hostq, engine, on, world, sync>> /\ sniffed' = p
    BY <1>5 DEF Sniff
  <2> QED BY <1>1, <2>2, <2>3, PlayerTypes
<1> QED BY <1>2, <1>3, <1>4, <1>5

LEMMA NextTypes == TInv /\ [Next]_vars => TInv'
<1> SUFFICES ASSUME TInv, [Next]_vars PROVE TInv'
  OBVIOUS
<1>1. CASE UNCHANGED vars
  BY <1>1, BackendAlone, PollerAlone, QueueAlone, HostAlone, OutsideAlone
     DEF TInv, DriverOK, vars, backend, poller
<1>2. CASE Poll(match) \/ (world.outages /\ Poll(Down))
  BY <1>2, PollTypes DEF TInv, BackendOK
<1>3. CASE Next /\ ~(Poll(match) \/ (world.outages /\ Poll(Down)))
  BY <1>3, NewMatchTypes, DeliverTypes, EndMatchTypes, GCThreadTypes, DriverTypes, HostTypes, SnapshotsTypes,
     PlayersTypes, Zenon DEF Next
<1> QED BY <1>1, <1>2, <1>3

(* The events, the orders and the reports of the threads, the rosters and  *)
(* the snapshots stay of their kinds: server_roster.cpp, test_accept.cpp.  *)
THEOREM TypeCorrect == Spec => []TypeOK
<1>1. Spec => []TInv
  BY InitOK, NextTypes, PTL DEF Spec
<1> QED BY <1>1, TInvIsTypeOK, PTL

---------------------------------------------------------------------------
(* The GC thread knows who is there: whom it counts, by the first message  *)
(* of a player's own GC ("net"), and who is authenticated ("auth").        *)

Heard(k) == IF k = "net" THEN gc.inside ELSE dress.authenticated

\* Event i of the queue says that player p came or went.
Tells(k, i, p) == inbox[i].kind \in {k, "left"} /\ inbox[i].player = p

\* The last that is said of a player is true; nothing is, and the GC knows.
LastWord(k, p) ==
  \A i \in 1..Len(inbox) :
    Tells(k, i, p) /\ (\A j \in i + 1..Len(inbox) : ~Tells(k, j, p)) => (inbox[i].kind = k <=> p \in on)
Silent(k, p) == (\A i \in 1..Len(inbox) : ~Tells(k, i, p)) => (p \in Heard(k) <=> p \in on)
InStep(k) == \A p \in Players : LastWord(k, p) /\ Silent(k, p)

\* Whoever says that he is there is counted, for there is a driver.
Driven == \A i \in 1..Len(inbox) : inbox[i].kind = "net" => driver # NoDriver

Counted == (world.greets = "atOnce" => Driven /\ InStep("net")) /\ (world.snaps # "off" => InStep("auth"))

\* The driver is never without a successor.
DriverStays == driver # NoDriver => driver' # NoDriver

LEMMA QueueIs ==
  ASSUME QueueOK
  PROVE  /\ Len(inbox) \in Nat
         /\ \A events \in Seq(Events) :
              /\ Len(events) \in Nat /\ Len(inbox \o events) = Len(inbox) + Len(events)
              /\ \A i \in 1..Len(inbox) : (inbox \o events)[i] = inbox[i]
              /\ \A i \in 1..Len(events) : (inbox \o events)[Len(inbox) + i] = events[i]
         /\ inbox # <<>> =>
              /\ Len(inbox) >= 1 /\ Len(Tail(inbox)) = Len(inbox) - 1 /\ Head(inbox) = inbox[1]
              /\ \A i \in 1..Len(inbox) - 1 : Tail(inbox)[i] = inbox[i + 1]
<1>1. inbox \in Seq(Events)
  BY DEF QueueOK
<1>2. \A events \in Seq(Events) :
        /\ Len(events) \in Nat /\ Len(inbox \o events) = Len(inbox) + Len(events)
        /\ \A i \in 1..Len(inbox) : (inbox \o events)[i] = inbox[i]
        /\ \A i \in 1..Len(events) : (inbox \o events)[Len(inbox) + i] = events[i]
  BY <1>1
<1>3. inbox # <<>> =>
        /\ Len(inbox) >= 1 /\ Len(Tail(inbox)) = Len(inbox) - 1 /\ Head(inbox) = inbox[1]
        /\ \A i \in 1..Len(inbox) - 1 : Tail(inbox)[i] = inbox[i + 1]
  BY <1>1
<1> QED BY <1>1, <1>2, <1>3

\* Where the events of a longer queue come from.
LEMMA Appended ==
  ASSUME QueueOK, NEW events \in Seq(Events), inbox' = inbox \o events
  PROVE  /\ Len(inbox) \in Nat /\ Len(events) \in Nat /\ Len(inbox') = Len(inbox) + Len(events)
         /\ \A i \in 1..Len(inbox) : i \in 1..Len(inbox') /\ inbox'[i] = inbox[i]
         /\ \A i \in 1..Len(events) : Len(inbox) + i \in 1..Len(inbox') /\ inbox'[Len(inbox) + i] = events[i]
         /\ \A i \in 1..Len(inbox') : i \notin 1..Len(inbox) =>
              i - Len(inbox) \in 1..Len(events) /\ inbox'[i] = events[i - Len(inbox)]
<1>1. /\ Len(inbox) \in Nat /\ Len(events) \in Nat /\ Len(inbox') = Len(inbox) + Len(events)
      /\ \A i \in 1..Len(inbox) : i \in 1..Len(inbox') /\ inbox'[i] = inbox[i]
      /\ \A i \in 1..Len(events) : Len(inbox) + i \in 1..Len(inbox') /\ inbox'[Len(inbox) + i] = events[i]
  BY QueueIs
<1>2. ASSUME NEW i \in 1..Len(inbox'), i \notin 1..Len(inbox)
      PROVE  i - Len(inbox) \in 1..Len(events) /\ inbox'[i] = events[i - Len(inbox)]
  <2>1. i - Len(inbox) \in 1..Len(events) /\ i = Len(inbox) + (i - Len(inbox))
    BY <1>1, <1>2
  <2> QED BY <1>1, <2>1
<1> QED BY <1>1, <1>2

\* ... and of one whose head is handled.
LEMMA Handled ==
  ASSUME QueueOK, NEW kind, Next1(kind)
  PROVE  /\ Len(inbox) \in Nat /\ Len(inbox) >= 1 /\ Len(inbox') = Len(inbox) - 1
         /\ 1 \in 1..Len(inbox) /\ inbox[1].kind = kind /\ Head(inbox) = inbox[1]
         /\ \A i \in 1..Len(inbox') : i + 1 \in 1..Len(inbox) /\ i + 1 # 1 /\ inbox'[i] = inbox[i + 1]
         /\ \A i \in 1..Len(inbox) : i # 1 => i - 1 \in 1..Len(inbox') /\ inbox'[i - 1] = inbox[i]
<1>1. /\ Len(inbox) \in Nat /\ Len(inbox) >= 1 /\ Len(inbox') = Len(inbox) - 1 /\ inbox[1].kind = kind
      /\ Head(inbox) = inbox[1]
      /\ \A i \in 1..Len(inbox) - 1 : inbox'[i] = inbox[i + 1]
  BY QueueIs DEF Next1
<1>2. \A i \in 1..Len(inbox') : i + 1 \in 1..Len(inbox) /\ i + 1 # 1 /\ inbox'[i] = inbox[i + 1]
  BY <1>1
<1>3. ASSUME NEW i \in 1..Len(inbox), i # 1 PROVE i - 1 \in 1..Len(inbox') /\ inbox'[i - 1] = inbox[i]
  <2>1. i - 1 \in 1..Len(inbox') /\ (i - 1) + 1 = i
    BY <1>1, <1>3
  <2> QED BY <1>2, <2>1
<1> QED BY <1>1, <1>2, <1>3

\* Player q comes or goes, and one of the events that are put in the queue says
\* so; or nobody does, and none says anything.
LEMMA EventsInStep ==
  ASSUME QueueOK, NEW k, InStep(k), Heard(k)' = Heard(k),
         NEW events \in Seq(Events), inbox' = inbox \o events,
         \/ UNCHANGED on /\ \A i \in 1..Len(events) : events[i].kind \notin {k, "left"}
         \/ \E q \in Players, e \in 1..Len(events) :
              /\ events[e].kind \in {k, "left"} /\ events[e].player = q
              /\ events[e].kind = k <=> q \in on'
              /\ \A i \in 1..Len(events) : i # e => events[i].kind \notin {k, "left"}
              /\ \A p \in Players \ {q} : p \in on' <=> p \in on
  PROVE  InStep(k)'
<1>1. PICK n, o : n = Len(inbox') /\ o = Len(inbox)
  OBVIOUS
<1>2. /\ o \in Nat /\ Len(events) \in Nat /\ n = o + Len(events)
      /\ \A i \in 1..o : i \in 1..n /\ inbox'[i] = inbox[i]
      /\ \A i \in 1..Len(events) : o + i \in 1..n /\ inbox'[o + i] = events[i]
      /\ \A i \in 1..n : i \notin 1..o => i - o \in 1..Len(events) /\ inbox'[i] = events[i - o]
  BY <1>1, Appended
<1>3. \A i \in 1..o, p \in Players : Tells(k, i, p)' <=> Tells(k, i, p)
  BY <1>2 DEF Tells
\* Of a player of whom nothing new is said the same is true as before.
<1>4. ASSUME NEW p \in Players, p \in on' <=> p \in on, \A i \in 1..n : i \notin 1..o => ~Tells(k, i, p)'
      PROVE  LastWord(k, p)' /\ Silent(k, p)'
  <2>1. LastWord(k, p)'
    <3> SUFFICES ASSUME NEW i \in 1..n, Tells(k, i, p)', \A j \in i + 1..n : ~Tells(k, j, p)'
                 PROVE  inbox'[i].kind = k <=> p \in on'
      BY <1>1 DEF LastWord
    <3>1. i \in 1..o /\ Tells(k, i, p)
      BY <1>3, <1>4
    <3>2. ASSUME NEW j \in i + 1..o PROVE ~Tells(k, j, p)
      <4>1. j \in 1..o /\ j \in i + 1..n
        BY <1>2, <3>1
      <4> QED BY <1>3, <4>1
    <3> QED BY <1>1, <1>2, <1>4, <3>1, <3>2 DEF LastWord, InStep
  <2>2. Silent(k, p)'
    <3>1. \A i \in 1..o : i \in 1..n /\ (Tells(k, i, p)' <=> Tells(k, i, p))
      BY <1>2, <1>3
    <3> QED BY <1>1, <1>4, <3>1 DEF Silent, InStep
  <2> QED BY <2>1, <2>2
<1>5. CASE UNCHANGED on /\ \A i \in 1..Len(events) : events[i].kind \notin {k, "left"}
  <2>1. \A p \in Players, i \in 1..n : i \notin 1..o => ~Tells(k, i, p)'
    BY <1>2, <1>5 DEF Tells
  <2> QED BY <1>4, <1>5, <2>1 DEF InStep
<1>6. CASE \E q \in Players, e \in 1..Len(events) :
              /\ events[e].kind \in {k, "left"} /\ events[e].player = q
              /\ events[e].kind = k <=> q \in on'
              /\ \A i \in 1..Len(events) : i # e => events[i].kind \notin {k, "left"}
              /\ \A p \in Players \ {q} : p \in on' <=> p \in on
  <2>1. PICK q \in Players, e \in 1..Len(events) :
              /\ events[e].kind \in {k, "left"} /\ events[e].player = q
              /\ events[e].kind = k <=> q \in on'
              /\ \A i \in 1..Len(events) : i # e => events[i].kind \notin {k, "left"}
              /\ \A p \in Players \ {q} : p \in on' <=> p \in on
    BY <1>6
  <2>2. o + e \in 1..n /\ inbox'[o + e] = events[e] /\ o + e \notin 1..o
    <3>1. o + e \notin 1..o
      <4>1. e \in Nat /\ e >= 1
        BY <1>2
      <4>2. o \in Nat
        BY <1>2
      <4> QED BY <4>1, <4>2
    <3> QED BY <1>2, <3>1
  <2>3. \A i \in 1..n : i \notin 1..o /\ i # o + e => inbox'[i].kind \notin {k, "left"}
    <3> SUFFICES ASSUME NEW i \in 1..n, i \notin 1..o, i # o + e PROVE inbox'[i].kind \notin {k, "left"}
      OBVIOUS
    <3>1. i - o \in 1..Len(events) /\ inbox'[i] = events[i - o]
      BY <1>2
    <3>2. i - o # e
      <4>1. i \in Int /\ o \in Int /\ e \in Int /\ i # o + e
        BY <1>2
      <4> QED BY <4>1
    <3> QED BY <2>1, <3>1, <3>2
  <2>4. ASSUME NEW p \in Players, p # q PROVE LastWord(k, p)' /\ Silent(k, p)'
    <3>1. \A i \in 1..n : i \notin 1..o => ~Tells(k, i, p)'
      BY <2>1, <2>2, <2>3, <2>4 DEF Tells
    <3> QED BY <1>4, <2>1, <2>4, <3>1
  <2>5. LastWord(k, q)' /\ Silent(k, q)'
    <3>1. Tells(k, o + e, q)'
      BY <2>1, <2>2 DEF Tells
    <3>2. Silent(k, q)'
      BY <1>1, <2>2, <3>1 DEF Silent
    <3>3. LastWord(k, q)'
      <4> SUFFICES ASSUME NEW i \in 1..n, Tells(k, i, q)', \A j \in i + 1..n : ~Tells(k, j, q)'
                   PROVE  inbox'[i].kind = k <=> q \in on'
        BY <1>1 DEF LastWord
      <4>1. o + e \notin i + 1..n
        BY <3>1
      <4>2. i >= o + e
        BY <1>2, <2>2, <4>1
      <4>3. i \notin 1..o
        BY <1>2, <4>2
      <4>4. i = o + e
        BY <2>3, <4>3 DEF Tells
      <4> QED BY <2>1, <2>2, <4>4
    <3> QED BY <3>2, <3>3
  <2> QED BY <2>4, <2>5 DEF InStep
<1> QED BY <1>5, <1>6

\* An event is handled, and the player it is about is taken in or out.
LEMMA HandledInStep ==
  ASSUME QueueOK, NEW k, InStep(k), NEW kind, Next1(kind), UNCHANGED on,
         \A p \in Players : p \in Heard(k)' <=> IF Tells(k, 1, p) THEN kind = k ELSE p \in Heard(k)
  PROVE  InStep(k)'
<1>1. PICK n, o : n = Len(inbox') /\ o = Len(inbox)
  OBVIOUS
<1>2. /\ o \in Nat /\ o >= 1 /\ n = o - 1 /\ 1 \in 1..o /\ inbox[1].kind = kind
      /\ \A i \in 1..n : i + 1 \in 1..o /\ inbox'[i] = inbox[i + 1]
      /\ \A i \in 1..o : i # 1 => i - 1 \in 1..n
  BY <1>1, Handled
<1>3. \A i \in 1..n, p \in Players : Tells(k, i, p)' <=> Tells(k, i + 1, p)
  BY <1>2 DEF Tells
<1>4. ASSUME NEW p \in Players PROVE LastWord(k, p)'
  <2> SUFFICES ASSUME NEW i \in 1..n, Tells(k, i, p)', \A j \in i + 1..n : ~Tells(k, j, p)'
               PROVE  inbox'[i].kind = k <=> p \in on
    BY <1>1 DEF LastWord
  <2>1. i + 1 \in 1..o /\ Tells(k, i + 1, p) /\ inbox'[i] = inbox[i + 1]
    BY <1>2, <1>3
  <2>2. ASSUME NEW j \in (i + 1) + 1..o PROVE ~Tells(k, j, p)
    <3>1. j - 1 \in 1..n /\ j - 1 \in i + 1..n /\ (j - 1) + 1 = j
      BY <1>2, <2>1
    <3> QED BY <1>3, <3>1
  <2> QED BY <1>1, <2>1, <2>2 DEF LastWord, InStep
<1>5. ASSUME NEW p \in Players PROVE Silent(k, p)'
  <2> SUFFICES ASSUME \A i \in 1..n : ~Tells(k, i, p)' PROVE p \in Heard(k)' <=> p \in on
    BY <1>1 DEF Silent
  <2>1. ASSUME NEW i \in 1..o, i # 1 PROVE ~Tells(k, i, p)
    <3>1. i - 1 \in 1..n /\ (i - 1) + 1 = i
      BY <1>2, <2>1
    <3> QED BY <1>3, <3>1
  <2>2. CASE Tells(k, 1, p)
    <3>1. \A j \in 1 + 1..o : j \in 1..o /\ j # 1
      BY <1>2
    <3>2. kind = k <=> p \in on
      BY <1>1, <1>2, <2>1, <2>2, <3>1 DEF LastWord, InStep
    <3> QED BY <2>2, <3>2
  <2>3. CASE ~Tells(k, 1, p)
    <3>1. \A i \in 1..o : ~Tells(k, i, p)
      BY <2>1, <2>3
    <3> QED BY <1>1, <2>3, <3>1 DEF Silent, InStep
  <2> QED BY <2>2, <2>3
<1> QED BY <1>4, <1>5 DEF InStep

LEMMA OtherHandledInStep ==
  ASSUME QueueOK, NEW k, InStep(k), NEW kind, kind \notin {k, "left"}, Next1(kind),
         Heard(k)' = Heard(k), UNCHANGED on
  PROVE  InStep(k)'
<1>1. \A p \in Players : ~Tells(k, 1, p)
  BY Handled DEF Tells
<1> QED BY <1>1, HandledInStep

LEMMA DrivenOn ==
  ASSUME QueueOK, Driven, DriverStays,
         \/ \E kind : Next1(kind)
         \/ \E events \in Seq(Events) :
              inbox' = inbox \o events /\ (driver = NoDriver => \A i \in 1..Len(events) : events[i].kind # "net")
  PROVE  Driven'
<1>1. ASSUME NEW kind, Next1(kind) PROVE Driven'
  BY <1>1, Handled DEF Driven, DriverStays
<1>2. ASSUME NEW events \in Seq(Events), inbox' = inbox \o events,
             driver = NoDriver => \A i \in 1..Len(events) : events[i].kind # "net"
      PROVE  Driven'
  <2> SUFFICES ASSUME NEW i \in 1..Len(inbox'), inbox'[i].kind = "net", driver = NoDriver PROVE FALSE
    BY DEF Driven, DriverStays
  <2>1. CASE i \in 1..Len(inbox)
    BY <1>2, <2>1, Appended DEF Driven
  <2>2. CASE i \notin 1..Len(inbox)
    BY <1>2, <2>2, Appended
  <2> QED BY <2>1, <2>2
<1> QED BY <1>1, <1>2

LEMMA OneAndTwo ==
  ASSUME NEW S, NEW a \in S, NEW b \in S
  PROVE  /\ <<a>> \in Seq(S) /\ Len(<<a>>) = 1 /\ <<a>>[1] = a /\ <<>> \o <<a>> = <<a>>
         /\ <<a>> \o <<b>> \in Seq(S) /\ Len(<<a>> \o <<b>>) = 2
         /\ (<<a>> \o <<b>>)[1] = a /\ (<<a>> \o <<b>>)[2] = b
OBVIOUS

LEMMA AloneCount == Counted /\ DriverStays /\ UNCHANGED <<inbox, gc, on, world>> /\ Heard("auth")' = Heard("auth") => Counted'
BY DEF Counted, InStep, Driven, DriverStays, LastWord, Silent, Tells, Heard

\* Events that say of nobody that he came or went.
LEMMA OtherEventsCount ==
  ASSUME QueueOK, Counted, DriverStays, NEW events \in Seq(Events), inbox' = inbox \o events,
         \A i \in 1..Len(events) : events[i].kind \notin {"net", "auth", "left"},
         Heard("net")' = Heard("net"), Heard("auth")' = Heard("auth"), UNCHANGED <<on, world>>
  PROVE  Counted'
<1>1. \A k \in {"net", "auth"} : InStep(k) => InStep(k)'
  BY EventsInStep
<1>2. Driven => Driven'
  BY DrivenOn
<1> QED BY <1>1, <1>2 DEF Counted

LEMMA OneEventCount ==
  ASSUME QueueOK, Counted, DriverStays, NEW event \in Events, Post(event), event.kind \notin {"net", "auth", "left"},
         Heard("net")' = Heard("net"), Heard("auth")' = Heard("auth"), UNCHANGED <<on, world>>
  PROVE  Counted'
<1>1. <<event>> \in Seq(Events) /\ Len(<<event>>) = 1 /\ <<event>>[1] = event
  BY OneAndTwo
<1>2. inbox' = inbox \o <<event>>
  BY DEF Post, PostAll
<1>3. \A i \in 1..Len(<<event>>) : <<event>>[i].kind \notin {"net", "auth", "left"}
  BY <1>1
<1> QED BY <1>1, <1>2, <1>3, OtherEventsCount

\* An event that says of nobody that he came or went is handled.
LEMMA OtherHandledCount ==
  ASSUME QueueOK, Counted, DriverStays, NEW kind, kind \notin {"net", "auth", "left"}, Next1(kind),
         Heard("net")' = Heard("net"), Heard("auth")' = Heard("auth"), UNCHANGED <<on, world>>
  PROVE  Counted'
<1>1. \A k \in {"net", "auth"} : InStep(k) => InStep(k)'
  BY OtherHandledInStep
<1>2. Driven => Driven'
  BY DrivenOn
<1> QED BY <1>1, <1>2 DEF Counted

\* What a poll puts in the queue: one event for the snapshots that are news, if
\* any are, and one for an answer that changed.
SnapEvent(news) == IF "skins" \in news THEN "skins" ELSE "equipment"

LEMMA PollEvents ==
  ASSUME TInv, NEW answer \in Ids \cup {None, Down}, Poll(answer)
  PROVE  \E events \in Seq(Events) :
           /\ inbox' = inbox \o events
           /\ \A i \in 1..Len(events) :
                events[i].kind = "roster" \/ (i = 1 /\ News(answer) # {} /\ events[i].kind = SnapEvent(News(answer)))
           /\ News(answer) # {} => Len(events) >= 1 /\ events[1].kind = SnapEvent(News(answer))
<1>1. PICK news, snaps, answers :
        /\ news = News(answer) /\ snaps = EventsOf(news)
        /\ answers = IF answer = key THEN <<>> ELSE <<[kind |-> "roster", snap |-> answer]>>
  OBVIOUS
<1>2. inbox' = inbox \o (snaps \o answers)
  BY <1>1 DEF Poll, PostAll
<1>3. \/ news = {} /\ snaps = <<>>
      \/ news # {} /\ snaps = <<[kind |-> SnapEvent(news)]>> /\ SnapEvent(news) \in Kinds
  BY <1>1 DEF News, EventsOf, Kinds, SnapEvent
<1>4. /\ snaps \in Seq(Events) /\ Len(snaps) \in {0, 1}
      /\ news = {} => Len(snaps) = 0
      /\ news # {} => Len(snaps) = 1 /\ snaps[1].kind = SnapEvent(news)
  <2>1. CASE news = {} /\ snaps = <<>>
    BY <2>1
  <2>2. CASE news # {} /\ snaps = <<[kind |-> SnapEvent(news)]>> /\ SnapEvent(news) \in Kinds
    <3>1. PICK e : e = [kind |-> SnapEvent(news)]
      OBVIOUS
    <3>2. e \in Events /\ e.kind = SnapEvent(news) /\ snaps = <<e>>
      BY <2>2, <3>1, EventsAre
    <3> QED BY <2>2, <3>2, OneAndTwo
  <2> QED BY <1>3, <2>1, <2>2
<1>5. answers \in Seq(Events) /\ Len(answers) \in {0, 1} /\ \A i \in 1..Len(answers) : answers[i].kind = "roster"
  <2>1. PICK e : e = [kind |-> "roster", snap |-> answer]
    OBVIOUS
  <2>2. e \in Events /\ e.kind = "roster"
    BY <2>1, EventsAre
  <2>3. CASE answers = <<>>
    BY <2>3
  <2>4. CASE answers = <<e>>
    BY <2>2, <2>4, OneAndTwo
  <2> QED BY <1>1, <2>1, <2>3, <2>4
<1>6. PICK events : events = snaps \o answers
  OBVIOUS
<1>7. /\ events \in Seq(Events) /\ Len(events) = Len(snaps) + Len(answers)
      /\ \A i \in 1..Len(events) : events[i] = IF i <= Len(snaps) THEN snaps[i] ELSE answers[i - Len(snaps)]
  BY <1>4, <1>5, <1>6
<1>8. ASSUME NEW i \in 1..Len(events)
      PROVE  events[i].kind = "roster" \/ (i = 1 /\ news # {} /\ events[i].kind = SnapEvent(news))
  <2>1. CASE i <= Len(snaps)
    <3>1. i = 1 /\ news # {} /\ events[i] = snaps[1]
      BY <1>4, <1>5, <1>7, <2>1
    <3> QED BY <1>4, <3>1
  <2>2. CASE ~(i <= Len(snaps))
    <3>1. i - Len(snaps) \in 1..Len(answers) /\ events[i] = answers[i - Len(snaps)]
      BY <1>4, <1>5, <1>7, <2>2
    <3> QED BY <1>5, <3>1
  <2> QED BY <2>1, <2>2
<1>9. news # {} => Len(events) >= 1 /\ events[1].kind = SnapEvent(news)
  BY <1>4, <1>5, <1>7
<1> QED BY <1>1, <1>2, <1>6, <1>7, <1>8, <1>9

LEMMA PollCount ==
  ASSUME TInv, Counted, NEW answer \in Ids \cup {None, Down}, Poll(answer)
  PROVE  Counted'
<1>1. PICK events \in Seq(Events) :
        /\ inbox' = inbox \o events
        /\ \A i \in 1..Len(events) :
             events[i].kind = "roster" \/ (i = 1 /\ News(answer) # {} /\ events[i].kind = SnapEvent(News(answer)))
  BY PollEvents
<1>2. \A i \in 1..Len(events) : events[i].kind \notin {"net", "auth", "left"}
  BY <1>1 DEF SnapEvent
<1>3. DriverStays /\ QueueOK /\ UNCHANGED <<gc, dress, on, world>>
  BY DEF Poll, DriverStays, TInv, outside
<1> QED BY <1>1, <1>2, <1>3, OtherEventsCount DEF Heard

\* The controller is told something else.
LEMMA ControllerCount ==
  ASSUME TInv, Counted, HandleRoster \/ HandleReady \/ HandleSeen
  PROVE  Counted'
<1>1. PICK out : Follows(out, gc, driver) /\ Becomes(out)
  BY RosterHandled, ReadyHandled, SeenHandled
<1>2. gc'.inside = gc.inside /\ DriverStays /\ UNCHANGED <<dress, on, world>>
  BY <1>1 DEF Follows, Becomes, DriverStays, outside, HandleRoster, HandleReady, HandleSeen
<1>3. Next1("roster") \/ Next1("ready") \/ Next1("seen")
  BY DEF HandleRoster, HandleReady, HandleSeen
<1> QED BY <1>2, <1>3, OtherHandledCount DEF TInv, Heard

LEMMA HandleNetCount ==
  ASSUME TInv, Counted, HandleNet
  PROVE  Counted'
<1>1. PICK g, out : /\ g.inside = IF driver = NoDriver THEN gc.inside ELSE gc.inside \cup {Head(inbox).player}
                    /\ Follows(out, g, driver) /\ Becomes(out)
  BY NetHandled
<1>2. /\ gc'.inside = IF driver = NoDriver THEN gc.inside ELSE gc.inside \cup {Head(inbox).player}
      /\ DriverStays /\ UNCHANGED <<dress, on, world>>
  BY <1>1 DEF Follows, Becomes, DriverStays, outside, HandleNet
<1>3. Next1("net") /\ Head(inbox) = inbox[1] /\ 1 \in 1..Len(inbox) /\ inbox[1].kind = "net" /\ QueueOK
  BY Handled DEF HandleNet, TInv
<1>4. InStep("auth") => InStep("auth")'
  BY <1>2, <1>3, OtherHandledInStep DEF Heard
<1>5. ASSUME Driven, InStep("net") PROVE Driven' /\ InStep("net")'
  <2>1. driver # NoDriver
    BY <1>3, <1>5 DEF Driven
  <2>2. \A p \in Players : p \in Heard("net")' <=> IF Tells("net", 1, p) THEN "net" = "net" ELSE p \in Heard("net")
    BY <1>2, <1>3, <2>1 DEF Tells, Heard
  <2>3. InStep("net")'
    BY <1>2, <1>3, <1>5, <2>2, HandledInStep
  <2> QED BY <1>2, <1>3, <1>5, <2>3, DrivenOn
<1> QED BY <1>2, <1>4, <1>5 DEF Counted

LEMMA HandleLeftCount ==
  ASSUME TInv, Counted, HandleLeft
  PROVE  Counted'
<1>1. PICK g, out : g.inside = gc.inside \ {Head(inbox).player} /\ Follows(out, g, driver) /\ Becomes(out)
  BY LeftHandled
<1>2. gc'.inside = gc.inside \ {Head(inbox).player} /\ DriverStays /\ UNCHANGED <<on, world>>
  BY <1>1 DEF Follows, Becomes, DriverStays, outside
<1>3. dress'.authenticated = dress.authenticated \ {Head(inbox).player}
  BY DEF HandleLeft, Forgotten, TInv, Wardrobes
<1>4. Next1("left") /\ Head(inbox) = inbox[1] /\ inbox[1].kind = "left" /\ QueueOK
  BY Handled DEF HandleLeft, TInv
<1>5. ASSUME NEW k \in {"net", "auth"}, InStep(k) PROVE InStep(k)'
  <2>1. \A p \in Players : p \in Heard(k)' <=> IF Tells(k, 1, p) THEN "left" = k ELSE p \in Heard(k)
    BY <1>2, <1>3, <1>4 DEF Tells, Heard
  <2> QED BY <1>2, <1>4, <1>5, <2>1, HandledInStep
<1>6. Driven => Driven'
  BY <1>2, <1>4, DrivenOn
<1> QED BY <1>2, <1>5, <1>6 DEF Counted

\* What is given to the players leaves them authenticated.
LEMMA AuthenticatedStay ==
  ASSUME TInv, HandleSkins \/ HandleEquipment
  PROVE  dress'.authenticated = dress.authenticated
<1> DEFINE d == [WithEquipment EXCEPT !.skins = handed.skins]
<1>1. WithEquipment \in Wardrobes /\ WithEquipment.authenticated = dress.authenticated
  BY TakenOK DEF WithEquipment, TInv, Wardrobes
<1>2. d \in Wardrobes /\ d.authenticated = dress.authenticated
  BY <1>1 DEF TInv, PollerOK, Slots, Wardrobes
<1>3. dress' \in {d, Worn(d, d.authenticated \ Applied(d)),
                  Worn(WithEquipment, WithEquipment.authenticated \ Applied(WithEquipment))}
  BY DEF HandleSkins, HandleEquipment, Dresses
<1> HIDE DEF d
<1> QED BY <1>1, <1>2, <1>3, WornOK

LEMMA SnapshotsCount ==
  ASSUME TInv, Counted, HandleSkins \/ HandleEquipment
  PROVE  Counted'
<1>1. UNCHANGED <<gc, driver, on, world>>
  BY DEF HandleSkins, HandleEquipment, Dresses, outside
<1>2. Next1("skins") \/ Next1("equipment")
  BY DEF HandleSkins, HandleEquipment
<1>3. DriverStays /\ Heard("net")' = Heard("net") /\ Heard("auth")' = Heard("auth")
  BY <1>1, AuthenticatedStay DEF DriverStays, Heard
<1> QED BY <1>1, <1>2, <1>3, OtherHandledCount DEF TInv

\* A player is authenticated, and given what there is of him.
LEMMA AuthenticatedIs ==
  ASSUME TInv, HandleAuthenticated
  PROVE  LET p == Head(inbox).player
             d == [dress EXCEPT !.authenticated = @ \cup {p}] IN
         /\ p \in Players /\ d \in Wardrobes /\ d.authenticated = dress.authenticated \cup {p}
         /\ d.skins = dress.skins /\ d.equipment = dress.equipment /\ d.worn = dress.worn
         /\ dress' = Worn(d, {p}) /\ dress'.authenticated = d.authenticated
         /\ dress'.skins = d.skins /\ dress'.equipment = d.equipment
         /\ Next1("auth") /\ UNCHANGED <<backend, poller, gc, driver, hostq, outside, handed>>
<1> DEFINE p == Head(inbox).player
           d == [dress EXCEPT !.authenticated = @ \cup {p}]
<1>1. p \in Players
  BY HandledOK, EventFields DEF HandleAuthenticated, TInv
<1>2. /\ d \in Wardrobes /\ d.authenticated = dress.authenticated \cup {p}
      /\ d.skins = dress.skins /\ d.equipment = dress.equipment /\ d.worn = dress.worn
  BY <1>1 DEF TInv, Wardrobes
<1>3. dress' = Worn(d, {p}) /\ Next1("auth") /\ UNCHANGED <<backend, poller, gc, driver, hostq, outside, handed>>
  BY DEF HandleAuthenticated, Dresses
<1>4. dress'.authenticated = d.authenticated /\ dress'.skins = d.skins /\ dress'.equipment = d.equipment
  <2> HIDE DEF d
  <2> QED BY <1>2, <1>3, WornOK
<1> HIDE DEF d, p
<1> QED BY <1>1, <1>2, <1>3, <1>4 DEF d, p

LEMMA HandleAuthenticatedCount ==
  ASSUME TInv, Counted, HandleAuthenticated
  PROVE  Counted'
<1>1. PICK p : p = Head(inbox).player
  OBVIOUS
<1>2. dress'.authenticated = dress.authenticated \cup {p} /\ Next1("auth") /\ UNCHANGED <<gc, driver, on, world>>
  BY <1>1, AuthenticatedIs DEF outside
<1>3. Head(inbox) = inbox[1] /\ inbox[1].kind = "auth" /\ QueueOK /\ DriverStays
  BY <1>2, Handled DEF TInv, DriverStays
<1>4. \A q \in Players : q \in Heard("auth")' <=> IF Tells("auth", 1, q) THEN "auth" = "auth" ELSE q \in Heard("auth")
  BY <1>1, <1>2, <1>3 DEF Tells, Heard
<1>5. InStep("auth") => InStep("auth")'
  BY <1>2, <1>3, <1>4, HandledInStep
<1>6. InStep("net") => InStep("net")'
  BY <1>2, <1>3, OtherHandledInStep DEF Heard
<1>7. Driven => Driven'
  BY <1>2, <1>3, DrivenOn
<1> QED BY <1>2, <1>5, <1>6, <1>7 DEF Counted

LEMMA GCThreadCount == TInv /\ Counted /\ GCThread => Counted'
BY ControllerCount, HandleNetCount, HandleLeftCount, SnapshotsCount, HandleAuthenticatedCount DEF GCThread

LEMMA DriverCount == TInv /\ Counted /\ (DriverThread \/ PassPopup) => Counted'
<1> SUFFICES ASSUME TInv, Counted, DriverThread \/ PassPopup PROVE Counted'
  OBVIOUS
<1>1. DriverStays /\ QueueOK
  BY DriverTypes DEF DriverStays, TInv
<1>2. UNCHANGED <<gc, dress, on, world>>
  BY DEF DriverThread, PassPopup, PassPause, PassArm, PassRearm, PassRelease, PassUnreserve, Passes,
         PassQuiet, PassAnswered, PassGaveUp, Pass, outside, sync
<1>3. UNCHANGED inbox \/ \E ready \in BOOLEAN : Post([kind |-> "ready", ready |-> ready])
  BY DEF DriverThread, PassPopup, PassPause, PassArm, PassRearm, PassRelease, PassUnreserve,
         PassQuiet, PassAnswered, PassGaveUp, Pass
<1>4. Heard("net")' = Heard("net") /\ Heard("auth")' = Heard("auth")
  BY <1>2 DEF Heard
<1>5. CASE UNCHANGED inbox
  BY <1>1, <1>2, <1>4, <1>5, AloneCount
<1>6. ASSUME NEW ready \in BOOLEAN, Post([kind |-> "ready", ready |-> ready]) PROVE Counted'
  <2>1. [kind |-> "ready", ready |-> ready] \in Events
    BY EventsAre
  <2>2. [kind |-> "ready", ready |-> ready].kind \notin {"net", "auth", "left"}
    OBVIOUS
  <2> HIDE DEF QueueOK, Counted
  <2> QED BY <1>1, <1>2, <1>4, <1>6, <2>1, <2>2, OneEventCount
<1> QED BY <1>3, <1>5, <1>6

LEMMA EnterCount ==
  ASSUME TInv, Counted, NEW p \in Players, Enter(p)
  PROVE  Counted'
<1>1. PICK auth, net, proof, greeting :
        /\ auth = [kind |-> "auth", player |-> p] /\ net = [kind |-> "net", player |-> p]
        /\ proof = IF world.snaps = "off" THEN <<>> ELSE <<auth>>
        /\ greeting = IF world.greets = "atOnce" THEN <<net>> ELSE <<>>
  OBVIOUS
<1>2. PICK events : events = proof \o greeting
  OBVIOUS
<1>3. inbox' = inbox \o events
  BY <1>1, <1>2 DEF Enter, PostAll
<1>4. /\ auth \in Events /\ auth.kind = "auth" /\ auth.player = p
      /\ net \in Events /\ net.kind = "net" /\ net.player = p
  BY <1>1, EventsAre
<1>5. /\ on' = on \cup {p} /\ UNCHANGED <<gc, dress, driver, world>>
      /\ world.greets = "atOnce" => driver # NoDriver
      /\ QueueOK /\ DriverStays /\ \A k : Heard(k)' = Heard(k)
  BY DEF Enter, TInv, DriverStays, Heard, sync
<1>6. \A q \in Players \ {p} : q \in on' <=> q \in on
  BY <1>5
<1>7. /\ events \in Seq(Events)
      /\ world.snaps # "off" => 1 \in 1..Len(events) /\ events[1] = auth
      /\ world.greets = "atOnce" => Len(events) \in 1..Len(events) /\ events[Len(events)] = net
      /\ \A i \in 1..Len(events) : events[i] = net => world.greets = "atOnce"
      /\ world.snaps # "off" => \A i \in 1..Len(events) : i # 1 => events[i] = net
      /\ world.greets = "atOnce" => \A i \in 1..Len(events) : i # Len(events) => events[i] = auth
      /\ \A i \in 1..Len(events) : events[i] \in {auth, net}
  <2>1. CASE world.snaps = "off" /\ world.greets # "atOnce"
    <3>1. proof = <<>> /\ greeting = <<>> /\ <<>> \o <<>> = <<>> /\ <<>> \in Seq(Events) /\ Len(<<>>) = 0
      BY <1>1, <2>1
    <3>2. events = <<>> /\ \A i \in 1..Len(<<>>) : FALSE
      BY <1>2, <3>1
    <3> QED BY <2>1, <3>1, <3>2
  <2>2. CASE world.snaps = "off" /\ world.greets = "atOnce"
    <3>1. events = <<net>>
      BY <1>1, <1>2, <1>4, <2>2, OneAndTwo
    <3>2. events \in Seq(Events) /\ Len(events) = 1 /\ events[1] = net
      BY <1>4, <3>1, OneAndTwo
    <3>3. \A i \in 1..Len(events) : i = 1
      BY <3>2
    <3> QED BY <2>2, <3>2, <3>3
  <2>3. CASE world.snaps # "off" /\ world.greets # "atOnce"
    <3>1. <<auth>> \o <<>> = <<auth>>
      BY <1>4
    <3>2. events = <<auth>>
      BY <1>1, <1>2, <2>3, <3>1
    <3>3. events \in Seq(Events) /\ Len(events) = 1 /\ events[1] = auth /\ auth # net
      BY <1>4, <3>2, OneAndTwo
    <3>4. \A i \in 1..Len(events) : i = 1
      BY <3>3
    <3> QED BY <2>3, <3>3, <3>4
  <2>4. CASE world.snaps # "off" /\ world.greets = "atOnce"
    <3>1. events = <<auth>> \o <<net>>
      BY <1>1, <1>2, <2>4
    <3>2. events \in Seq(Events) /\ Len(events) = 2 /\ events[1] = auth /\ events[2] = net
      BY <1>4, <3>1, OneAndTwo
    <3>3. 1 \in 1..2 /\ 2 \in 1..2 /\ \A i \in 1..Len(events) : i = 1 \/ i = 2
      BY <3>2
    <3> QED BY <2>4, <3>2, <3>3
  <2> QED BY <2>1, <2>2, <2>3, <2>4
<1>8. ASSUME world.snaps # "off", InStep("auth") PROVE InStep("auth")'
  <2>1. \E e \in 1..Len(events) :
          /\ events[e].kind \in {"auth", "left"} /\ events[e].player = p
          /\ events[e].kind = "auth" <=> p \in on'
          /\ \A i \in 1..Len(events) : i # e => events[i].kind \notin {"auth", "left"}
          /\ \A q \in Players \ {p} : q \in on' <=> q \in on
    BY <1>4, <1>5, <1>6, <1>7, <1>8
  <2> QED BY <1>3, <1>5, <1>7, <1>8, <2>1, EventsInStep
<1>9. ASSUME world.greets = "atOnce", Driven, InStep("net") PROVE Driven' /\ InStep("net")'
  <2>1. \E e \in 1..Len(events) :
          /\ events[e].kind \in {"net", "left"} /\ events[e].player = p
          /\ events[e].kind = "net" <=> p \in on'
          /\ \A i \in 1..Len(events) : i # e => events[i].kind \notin {"net", "left"}
          /\ \A q \in Players \ {p} : q \in on' <=> q \in on
    BY <1>4, <1>5, <1>6, <1>7, <1>9
  <2>2. InStep("net")'
    BY <1>3, <1>5, <1>7, <1>9, <2>1, EventsInStep
  <2> QED BY <1>3, <1>5, <1>7, <1>9, <2>2, DrivenOn
<1> QED BY <1>5, <1>8, <1>9 DEF Counted

LEMMA LeaveCount ==
  ASSUME TInv, Counted, NEW p \in Players, Leave(p)
  PROVE  Counted'
<1>1. PICK left, events : left = [kind |-> "left", player |-> p] /\ events = <<left>>
  OBVIOUS
<1>2. inbox' = inbox \o events /\ on' = on \ {p}
  BY <1>1 DEF Leave, Post, PostAll
<1>3. left \in Events /\ left.kind = "left" /\ left.player = p
  BY <1>1, EventsAre
<1>4. events \in Seq(Events) /\ 1 \in 1..Len(events) /\ events[1] = left /\ \A i \in 1..Len(events) : i = 1
  BY <1>1, <1>3, OneAndTwo
<1>5. UNCHANGED <<driver, world>> /\ QueueOK /\ DriverStays /\ \A k : Heard(k)' = Heard(k)
  BY DEF Leave, TInv, DriverStays, Heard, sync
<1>6. ASSUME NEW k \in {"net", "auth"}, InStep(k) PROVE InStep(k)'
  <2>1. /\ events[1].kind \in {k, "left"} /\ events[1].player = p
        /\ events[1].kind = k <=> p \in on'
        /\ \A i \in 1..Len(events) : i # 1 => events[i].kind \notin {k, "left"}
        /\ \A q \in Players \ {p} : q \in on' <=> q \in on
    BY <1>2, <1>3, <1>4
  <2> QED BY <1>2, <1>4, <1>5, <1>6, <2>1, EventsInStep
<1>7. \A i \in 1..Len(events) : events[i].kind # "net"
  BY <1>3, <1>4
<1>8. Driven => Driven'
  BY <1>2, <1>4, <1>5, <1>7, DrivenOn
<1> QED BY <1>5, <1>6, <1>8 DEF Counted

LEMMA GreetCount ==
  ASSUME TInv, Counted, NEW p \in Players, Greet(p)
  PROVE  Counted'
<1>1. world.greets # "atOnce" /\ Post([kind |-> "net", player |-> p]) /\ UNCHANGED <<dress, on, world>> /\ QueueOK
  BY DEF Greet, outside, sync, TInv
<1>2. PICK net : net = [kind |-> "net", player |-> p]
  OBVIOUS
<1>3. net \in Events /\ net.kind = "net"
  BY <1>2, EventsAre
<1>4. <<net>> \in Seq(Events) /\ \A i \in 1..Len(<<net>>) : <<net>>[i].kind \notin {"auth", "left"}
  BY <1>3, OneAndTwo
<1>5. inbox' = inbox \o <<net>>
  BY <1>1, <1>2 DEF Post, PostAll
<1>6. InStep("auth") => InStep("auth")'
  BY <1>1, <1>4, <1>5, EventsInStep DEF Heard
<1> QED BY <1>1, <1>6 DEF Counted

LEMMA PlayersCount ==
  ASSUME TInv, Counted, NEW p \in Players, Enter(p) \/ Greet(p) \/ Leave(p) \/ Sniff(p)
  PROVE  Counted'
<1>1. CASE Sniff(p)
  <2>1. Post([kind |-> "seen", player |-> p]) /\ UNCHANGED <<gc, dress, driver, on, world>>
    BY <1>1 DEF Sniff, sync
  <2>2. [kind |-> "seen", player |-> p] \in Events /\ [kind |-> "seen", player |-> p].kind \notin {"net", "auth", "left"}
    BY EventsAre
  <2>3. QueueOK /\ DriverStays /\ \A k : Heard(k)' = Heard(k)
    BY <2>1 DEF TInv, DriverStays, Heard
  <2> QED BY <2>1, <2>2, <2>3, OneEventCount
<1> QED BY <1>1, EnterCount, LeaveCount, GreetCount

LEMMA QuietCount ==
  ASSUME TInv, Counted,
         \/ \E m \in Ids : NewMatch(m) \/ Deliver(m)
         \/ EndMatch \/ HostThread \/ EngineDrop \/ Lapse \/ Restart
         \/ \E p \in Players : Purge(p) \/ \E kind \in Kinds : Submit(p, kind)
  PROVE  Counted'
<1>1. UNCHANGED <<inbox, gc, dress, driver, on, world>>
  BY DEF NewMatch, Deliver, EndMatch, HostThread, EngineDrop, Lapse, Restart, Purge, Submit, Stores, outside, sync
<1>2. DriverStays /\ Heard("auth")' = Heard("auth")
  BY <1>1 DEF DriverStays, Heard
<1> QED BY <1>1, <1>2, AloneCount

LEMMA NextCount == TInv /\ Counted /\ [Next]_vars => Counted'
<1> SUFFICES ASSUME TInv, Counted, [Next]_vars PROVE Counted'
  OBVIOUS
<1>1. CASE UNCHANGED vars
  BY <1>1, AloneCount DEF vars, DriverStays, Heard
<1>2. CASE Poll(match) \/ (world.outages /\ Poll(Down))
  BY <1>2, PollCount DEF TInv, BackendOK
<1>3. CASE Next /\ ~(Poll(match) \/ (world.outages /\ Poll(Down)))
  BY <1>3, QuietCount, GCThreadCount, DriverCount, PlayersCount, Zenon DEF Next
<1> QED BY <1>1, <1>2, <1>3

LEMMA InitCount == Init => Counted
<1> SUFFICES ASSUME Init PROVE Counted
  OBVIOUS
<1>1. inbox = <<>> /\ Len(inbox) = 0 /\ on = {} /\ gc.inside = {} /\ dress.authenticated = {}
  BY DEF Init
<1> QED BY <1>1 DEF Counted, InStep, Driven, LastWord, Silent, Heard

LEMMA CountIsInside == TInv /\ Counted => InsideCatchesUp
<1> SUFFICES ASSUME TInv, Counted, world.greets = "atOnce", NEW p \in Players,
                    \A event \in Range(inbox) : event.kind \in {"net", "left"} => event.player # p
             PROVE  p \in gc.inside <=> p \in on
  BY DEF InsideCatchesUp
<1>1. \A i \in 1..Len(inbox) : inbox[i] \in Range(inbox)
  BY DEF Range, TInv, QueueOK
<1>2. \A i \in 1..Len(inbox) : ~Tells("net", i, p)
  BY <1>1 DEF Tells
<1> QED BY <1>2 DEF Counted, InStep, Silent, Heard

(* With players whose GC says at once that they are there, the GC of the   *)
(* server counts exactly who is there once it has handled what is said of  *)
(* them: a driver that is replaced, a session that ends before its first   *)
(* message was handled and a player who is back before he was counted out  *)
(* leave nothing behind.                                                   *)
THEOREM CountedRight == Spec => []InsideCatchesUp
<1>1. Spec => [](TInv /\ Counted)
  <2>1. Init => TInv /\ Counted
    BY InitOK, InitCount
  <2>2. (TInv /\ Counted) /\ [Next]_vars => (TInv /\ Counted)'
    BY NextTypes, NextCount
  <2> QED BY <2>1, <2>2, PTL DEF Spec
<1>2. TInv /\ Counted => InsideCatchesUp
  BY CountIsInside
<1> QED BY <1>1, <1>2, PTL

---------------------------------------------------------------------------
(* What the poller handed over arrives.                                    *)

\* There is an event of kind k in the queue.
Waits(k) == \E i \in 1..Len(inbox) : inbox[i].kind = k

\* Base weapons that were handed over and not taken yet are the ones reported
\* last, and an event of either kind will take them.
WeaponsArrive ==
  IF handed.set THEN handed.equipment = seen["equipment"] /\ (Waits("skins") \/ Waits("equipment"))
                ELSE dress.equipment = seen["equipment"]

\* Skins have an event of their own, and in time only one.
SkinsArrive ==
  world.snaps = "timely" =>
    /\ \A i, j \in 1..Len(inbox) : inbox[i].kind = "skins" /\ inbox[j].kind = "skins" => i = j
    /\ IF Waits("skins") THEN handed.skins = seen["skins"] ELSE dress.skins = seen["skins"]

Arrives == WeaponsArrive /\ SkinsArrive

\* Skins and base weapons are where they were.
Kept == UNCHANGED <<seen, handed, world>> /\ dress'.skins = dress.skins /\ dress'.equipment = dress.equipment

LEMMA AloneArrives == Arrives /\ Kept /\ UNCHANGED inbox => Arrives'
BY DEF Arrives, WeaponsArrive, SkinsArrive, Waits, Kept

LEMMA OtherEventsArrive ==
  ASSUME QueueOK, Arrives, Kept, NEW events \in Seq(Events), inbox' = inbox \o events,
         \A i \in 1..Len(events) : events[i].kind \notin Kinds
  PROVE  Arrives'
<1>1. /\ \A i \in 1..Len(inbox) : i \in 1..Len(inbox') /\ inbox'[i] = inbox[i]
      /\ \A i \in 1..Len(inbox') : i \notin 1..Len(inbox) => inbox'[i].kind \notin Kinds
  BY Appended
<1>2. \A k \in Kinds : Waits(k)' <=> Waits(k)
  BY <1>1 DEF Waits
<1>3. \A i \in 1..Len(inbox') : inbox'[i].kind = "skins" => i \in 1..Len(inbox) /\ inbox[i].kind = "skins"
  BY <1>1 DEF Kinds
<1> QED BY <1>2, <1>3 DEF Arrives, WeaponsArrive, SkinsArrive, Kept, Kinds

\* The head of the queue is handled: what waits behind it.
LEMMA BehindHead ==
  ASSUME QueueOK, NEW kind, Next1(kind)
  PROVE  /\ \A k : Waits(k) <=> (k = kind \/ Waits(k)')
         /\ (\A i, j \in 1..Len(inbox) : inbox[i].kind = "skins" /\ inbox[j].kind = "skins" => i = j) =>
              /\ \A i, j \in 1..Len(inbox') : inbox'[i].kind = "skins" /\ inbox'[j].kind = "skins" => i = j
              /\ kind = "skins" => ~Waits("skins")'
<1>1. /\ Len(inbox) \in Nat /\ 1 \in 1..Len(inbox) /\ inbox[1].kind = kind /\ Len(inbox') = Len(inbox) - 1
      /\ \A i \in 1..Len(inbox') : i + 1 \in 1..Len(inbox) /\ i + 1 # 1 /\ inbox'[i] = inbox[i + 1]
      /\ \A i \in 1..Len(inbox) : i # 1 => i - 1 \in 1..Len(inbox') /\ inbox'[i - 1] = inbox[i]
  BY Handled
<1>2. \A k : Waits(k) <=> (k = kind \/ Waits(k)')
  BY <1>1 DEF Waits
<1>3. ASSUME \A i, j \in 1..Len(inbox) : inbox[i].kind = "skins" /\ inbox[j].kind = "skins" => i = j
      PROVE  /\ \A i, j \in 1..Len(inbox') : inbox'[i].kind = "skins" /\ inbox'[j].kind = "skins" => i = j
             /\ kind = "skins" => ~Waits("skins")'
  <2>1. \A i, j \in 1..Len(inbox') : inbox'[i].kind = "skins" /\ inbox'[j].kind = "skins" => i + 1 = j + 1
    BY <1>1, <1>3
  <2>2. \A i, j \in 1..Len(inbox') : i + 1 = j + 1 => i = j
    BY <1>1
  <2>3. kind = "skins" => \A i \in 1..Len(inbox') : inbox'[i].kind # "skins"
    BY <1>1, <1>3
  <2> QED BY <2>1, <2>2, <2>3 DEF Waits
<1> QED BY <1>2, <1>3

LEMMA OtherHandledArrive ==
  ASSUME QueueOK, Arrives, Kept, NEW kind, kind \notin Kinds, Next1(kind)
  PROVE  Arrives'
<1>1. \A k \in Kinds : Waits(k) <=> Waits(k)'
  BY BehindHead
<1> QED BY <1>1, BehindHead DEF Arrives, WeaponsArrive, SkinsArrive, Kept, Kinds

LEMMA HandleEquipmentArrive ==
  ASSUME TInv, Arrives, HandleEquipment
  PROVE  Arrives'
<1>1. Next1("equipment") /\ UNCHANGED <<seen, world>> /\ handed' = Taken
  BY DEF HandleEquipment, Dresses, poller, outside
<1>2. dress'.skins = dress.skins /\ dress'.equipment = IF handed.set THEN handed.equipment ELSE dress.equipment
  <2>1. WithEquipment \in Wardrobes
    BY TakenOK
  <2>2. WithEquipment.skins = dress.skins
        /\ WithEquipment.equipment = IF handed.set THEN handed.equipment ELSE dress.equipment
    BY DEF WithEquipment, TInv, Wardrobes
  <2> QED BY <2>1, <2>2, WornOK DEF HandleEquipment, Dresses
<1>3. handed'.set = FALSE /\ handed'.skins = handed.skins
  BY <1>1 DEF Taken, TInv, PollerOK, Slots
<1>4. WeaponsArrive'
  BY <1>1, <1>2, <1>3 DEF Arrives, WeaponsArrive
<1>5. Waits("skins") <=> Waits("skins")'
  BY <1>1, BehindHead DEF TInv
<1>6. SkinsArrive'
  BY <1>1, <1>2, <1>3, <1>5, BehindHead DEF Arrives, SkinsArrive, TInv
<1> QED BY <1>4, <1>6 DEF Arrives

LEMMA HandleSkinsArrive ==
  ASSUME TInv, Arrives, HandleSkins
  PROVE  Arrives'
<1> DEFINE d == [WithEquipment EXCEPT !.skins = handed.skins]
<1>1. Next1("skins") /\ UNCHANGED <<seen, world>> /\ handed' = [Taken EXCEPT !.skins = Gone]
  BY DEF HandleSkins, Dresses, poller, outside
<1>2. d \in Wardrobes /\ d.skins = handed.skins
      /\ d.equipment = IF handed.set THEN handed.equipment ELSE dress.equipment
  <2>1. handed \in Slots /\ dress \in Wardrobes
    BY DEF TInv, PollerOK
  <2>2. WithEquipment \in Wardrobes
        /\ WithEquipment.equipment = IF handed.set THEN handed.equipment ELSE dress.equipment
    BY <2>1, TakenOK DEF WithEquipment, Wardrobes
  <2> QED BY <2>1, <2>2 DEF Wardrobes, Slots
<1>3. dress'.skins = d.skins /\ dress'.equipment = d.equipment
  <2>1. dress' = IF handed.skins = Gone THEN d ELSE Worn(d, d.authenticated \ Applied(d))
    BY DEF HandleSkins, Dresses
  <2> HIDE DEF d
  <2> QED BY <1>2, <2>1, WornOK
<1>4. handed'.set = FALSE
  <2>1. Taken \in Slots /\ Taken.set = FALSE
    BY TakenOK DEF Taken, TInv, PollerOK, Slots
  <2> QED BY <1>1, <2>1 DEF Slots
<1> HIDE DEF d
<1>5. WeaponsArrive'
  BY <1>1, <1>2, <1>3, <1>4 DEF Arrives, WeaponsArrive
<1>6. SkinsArrive'
  <2> SUFFICES ASSUME world.snaps = "timely"
               PROVE  /\ \A i, j \in 1..Len(inbox') : inbox'[i].kind = "skins" /\ inbox'[j].kind = "skins" => i = j
                      /\ ~Waits("skins")' /\ dress'.skins = seen'["skins"]
    BY <1>1 DEF SkinsArrive
  <2>1. /\ \A i, j \in 1..Len(inbox) : inbox[i].kind = "skins" /\ inbox[j].kind = "skins" => i = j
        /\ Waits("skins")
    BY <1>1, BehindHead DEF Arrives, SkinsArrive, TInv
  <2>2. handed.skins = seen["skins"]
    BY <2>1 DEF Arrives, SkinsArrive
  <2> QED BY <1>1, <1>2, <1>3, <2>1, <2>2, BehindHead DEF TInv
<1> QED BY <1>5, <1>6 DEF Arrives

LEMMA PollArrive ==
  ASSUME TInv, Arrives, NEW answer \in Ids \cup {None, Down}, Poll(answer)
  PROVE  Arrives'
<1> DEFINE news == News(answer)
<1>1. PICK events \in Seq(Events) :
        /\ inbox' = inbox \o events
        /\ \A i \in 1..Len(events) :
             events[i].kind = "roster" \/ (i = 1 /\ news # {} /\ events[i].kind = SnapEvent(news))
        /\ news # {} => Len(events) >= 1 /\ events[1].kind = SnapEvent(news)
  BY PollEvents
<1>2. /\ Len(inbox) \in Nat /\ Len(events) \in Nat /\ Len(inbox') = Len(inbox) + Len(events)
      /\ \A i \in 1..Len(inbox) : inbox'[i] = inbox[i]
      /\ \A i \in 1..Len(events) : inbox'[Len(inbox) + i] = events[i]
  BY <1>1, QueueIs DEF TInv
<1>3. \A i \in 1..Len(inbox) : i \in 1..Len(inbox')
  BY <1>2
<1>4. news # {} => Len(inbox) + 1 \in 1..Len(inbox') /\ inbox'[Len(inbox) + 1].kind = SnapEvent(news)
  BY <1>1, <1>2
<1>5. \A k \in Kinds : Waits(k) => Waits(k)'
  BY <1>2, <1>3 DEF Waits
<1>6. UNCHANGED <<dress, world>>
  BY DEF Poll, outside
<1>7. /\ seen'["equipment"] = handed'.equipment \/ "equipment" \notin news
      /\ seen'["skins"] = handed'.skins \/ "skins" \notin news
      /\ "equipment" \notin news => seen'["equipment"] = seen["equipment"] /\ handed'.equipment = handed.equipment
      /\ "skins" \notin news => seen'["skins"] = seen["skins"]
      /\ handed'.set = (handed.set \/ "equipment" \in news)
  BY DEF Poll, Kinds
<1> HIDE DEF news
<1>8. WeaponsArrive'
  <2>1. CASE "equipment" \in news
    <3>1. Waits("skins")' \/ Waits("equipment")'
      BY <1>4, <2>1 DEF Waits, SnapEvent
    <3> QED BY <1>7, <2>1, <3>1 DEF WeaponsArrive
  <2>2. CASE "equipment" \notin news
    <3>1. handed'.set <=> handed.set
      BY <1>7, <2>2
    <3> QED BY <1>5, <1>6, <1>7, <2>2, <3>1 DEF WeaponsArrive, Arrives, Kinds
  <2> QED BY <2>1, <2>2
<1>9. SkinsArrive'
  <2> SUFFICES ASSUME world.snaps = "timely"
               PROVE  /\ \A i, j \in 1..Len(inbox') : inbox'[i].kind = "skins" /\ inbox'[j].kind = "skins" => i = j
                      /\ IF Waits("skins")' THEN handed'.skins = seen'["skins"] ELSE dress'.skins = seen'["skins"]
    BY <1>6 DEF SkinsArrive
  <2>1. \A i \in 1..Len(inbox) : inbox[i].kind \notin Kinds
    <3>1. \A event \in Range(inbox) : event.kind \in Kinds => world.snaps = "rushed"
      BY DEF Poll
    <3>2. \A i \in 1..Len(inbox) : inbox[i] \in Range(inbox)
      BY DEF Range, TInv, QueueOK
    <3> QED BY <3>1, <3>2
  <2>2. \A i \in 1..Len(inbox') : inbox'[i].kind = "skins" => i = Len(inbox) + 1 /\ "skins" \in news
    <3> SUFFICES ASSUME NEW i \in 1..Len(inbox'), inbox'[i].kind = "skins" PROVE i = Len(inbox) + 1 /\ "skins" \in news
      OBVIOUS
    <3>1. i \notin 1..Len(inbox)
      BY <1>2, <2>1 DEF Kinds
    <3>2. i - Len(inbox) \in 1..Len(events) /\ i = Len(inbox) + (i - Len(inbox))
      BY <1>2, <3>1
    <3>3. events[i - Len(inbox)].kind = "skins"
      BY <1>2, <3>2
    <3>4. i - Len(inbox) = 1 /\ SnapEvent(news) = "skins"
      BY <1>1, <3>2, <3>3
    <3>5. i = Len(inbox) + 1
      BY <1>2, <3>4
    <3> QED BY <3>4, <3>5 DEF SnapEvent
  <2>3. \A i, j \in 1..Len(inbox') : inbox'[i].kind = "skins" /\ inbox'[j].kind = "skins" => i = j
    BY <2>2
  <2>4. CASE "skins" \in news
    <3>1. Waits("skins")'
      BY <1>4, <2>4 DEF Waits, SnapEvent
    <3> QED BY <1>7, <2>3, <2>4, <3>1
  <2>5. CASE "skins" \notin news
    <3>1. ~Waits("skins")' /\ ~Waits("skins")
      BY <2>1, <2>2, <2>5 DEF Waits, Kinds
    <3> QED BY <1>6, <1>7, <2>3, <2>5, <3>1 DEF Arrives, SkinsArrive
  <2> QED BY <2>4, <2>5
<1> QED BY <1>8, <1>9 DEF Arrives

LEMMA GCThreadArrive == TInv /\ Arrives /\ GCThread => Arrives'
<1> SUFFICES ASSUME TInv, Arrives, GCThread PROVE Arrives'
  OBVIOUS
<1>1. CASE HandleRoster \/ HandleReady \/ HandleSeen
  <2>1. PICK out : Becomes(out)
    BY <1>1, RosterHandled, ReadyHandled, SeenHandled
  <2>2. Kept
    BY <1>1, <2>1 DEF HandleRoster, HandleReady, HandleSeen, Becomes, Kept, outside
  <2>3. Next1("roster") \/ Next1("ready") \/ Next1("seen")
    BY <1>1 DEF HandleRoster, HandleReady, HandleSeen
  <2> QED BY <2>2, <2>3, OtherHandledArrive DEF TInv, Kinds
<1>2. CASE HandleNet
  <2>1. Kept /\ Next1("net")
    BY <1>2 DEF HandleNet, Becomes, Kept, outside
  <2> QED BY <2>1, OtherHandledArrive DEF TInv, Kinds
<1>3. CASE HandleLeft
  <2>1. Forgotten(Head(inbox).player).skins = dress.skins /\ Forgotten(Head(inbox).player).equipment = dress.equipment
    BY DEF Forgotten, TInv, Wardrobes
  <2>2. PICK out : Becomes(out)
    BY <1>3, LeftHandled
  <2>3. Kept /\ Next1("left")
    BY <1>3, <2>1, <2>2 DEF HandleLeft, Becomes, Kept, outside
  <2> QED BY <2>3, OtherHandledArrive DEF TInv, Kinds
<1>4. CASE HandleAuthenticated
  <2>1. Kept /\ Next1("auth")
    BY <1>4, AuthenticatedIs DEF Kept, poller, outside
  <2> QED BY <2>1, OtherHandledArrive DEF TInv, Kinds
<1>5. CASE HandleSkins \/ HandleEquipment
  BY <1>5, HandleSkinsArrive, HandleEquipmentArrive
<1> QED BY <1>1, <1>2, <1>3, <1>4, <1>5 DEF GCThread

LEMMA OneEventArrive ==
  ASSUME QueueOK, Arrives, Kept, NEW event \in Events, Post(event), event.kind \notin Kinds
  PROVE  Arrives'
<1>1. <<event>> \in Seq(Events) /\ Len(<<event>>) = 1 /\ <<event>>[1] = event
  BY OneAndTwo
<1>2. inbox' = inbox \o <<event>>
  BY DEF Post, PostAll
<1>3. \A i \in 1..Len(<<event>>) : <<event>>[i].kind \notin Kinds
  BY <1>1
<1> QED BY <1>1, <1>2, <1>3, OtherEventsArrive

LEMMA DriverArrive == TInv /\ Arrives /\ (DriverThread \/ PassPopup) => Arrives'
<1> SUFFICES ASSUME TInv, Arrives, DriverThread \/ PassPopup PROVE Arrives'
  OBVIOUS
<1>1. Kept /\ QueueOK
  BY DEF DriverThread, PassPopup, PassPause, PassArm, PassRearm, PassRelease, PassUnreserve, Passes,
         PassQuiet, PassAnswered, PassGaveUp, Pass, outside, poller, sync, Kept, TInv
<1>2. UNCHANGED inbox \/ \E ready \in BOOLEAN : Post([kind |-> "ready", ready |-> ready])
  BY DEF DriverThread, PassPopup, PassPause, PassArm, PassRearm, PassRelease, PassUnreserve,
         PassQuiet, PassAnswered, PassGaveUp, Pass
<1>3. CASE UNCHANGED inbox
  BY <1>1, <1>3, AloneArrives
<1>4. ASSUME NEW ready \in BOOLEAN, Post([kind |-> "ready", ready |-> ready]) PROVE Arrives'
  <2>1. [kind |-> "ready", ready |-> ready] \in Events /\ [kind |-> "ready", ready |-> ready].kind \notin Kinds
    BY EventsAre DEF Kinds
  <2> QED BY <1>1, <1>4, <2>1, OneEventArrive
<1> QED BY <1>2, <1>3, <1>4

LEMMA PlayersArrive ==
  ASSUME TInv, Arrives, NEW p \in Players, Enter(p) \/ Greet(p) \/ Leave(p) \/ Sniff(p)
  PROVE  Arrives'
<1>1. Kept /\ QueueOK
  BY DEF Enter, Greet, Leave, Sniff, outside, poller, sync, Kept, TInv
<1>2. ASSUME NEW k \in {"net", "left", "seen"}, Post([kind |-> k, player |-> p]) PROVE Arrives'
  <2>1. [kind |-> k, player |-> p] \in Events /\ [kind |-> k, player |-> p].kind \notin Kinds
    BY EventsAre DEF Kinds
  <2> QED BY <1>1, <1>2, <2>1, OneEventArrive
<1>3. CASE Greet(p) \/ Leave(p) \/ Sniff(p)
  BY <1>2, <1>3 DEF Greet, Leave, Sniff
<1>4. CASE Enter(p)
  <2>1. PICK auth, net, proof, greeting :
          /\ auth = [kind |-> "auth", player |-> p] /\ net = [kind |-> "net", player |-> p]
          /\ proof = IF world.snaps = "off" THEN <<>> ELSE <<auth>>
          /\ greeting = IF world.greets = "atOnce" THEN <<net>> ELSE <<>>
    OBVIOUS
  <2>2. inbox' = inbox \o (proof \o greeting)
    BY <1>4, <2>1 DEF Enter, PostAll
  <2>3. auth \in Events /\ net \in Events /\ auth.kind \notin Kinds /\ net.kind \notin Kinds
    BY <2>1, EventsAre DEF Kinds
  <2>4. /\ proof \in Seq(Events) /\ Len(proof) \in Nat /\ \A i \in 1..Len(proof) : proof[i].kind \notin Kinds
        /\ greeting \in Seq(Events) /\ Len(greeting) \in Nat /\ \A i \in 1..Len(greeting) : greeting[i].kind \notin Kinds
    <3>1. <<auth>> \in Seq(Events) /\ Len(<<auth>>) = 1 /\ \A i \in 1..Len(<<auth>>) : <<auth>>[i] = auth
      BY <2>3
    <3>2. <<net>> \in Seq(Events) /\ Len(<<net>>) = 1 /\ \A i \in 1..Len(<<net>>) : <<net>>[i] = net
      BY <2>3
    <3>3. <<>> \in Seq(Events) /\ Len(<<>>) = 0 /\ \A i \in 1..Len(<<>>) : FALSE
      OBVIOUS
    <3> QED BY <2>1, <2>3, <3>1, <3>2, <3>3
  <2>5. /\ proof \o greeting \in Seq(Events) /\ Len(proof \o greeting) = Len(proof) + Len(greeting)
        /\ \A i \in 1..Len(proof \o greeting) :
             (proof \o greeting)[i] = IF i <= Len(proof) THEN proof[i] ELSE greeting[i - Len(proof)]
    BY <2>4
  <2>6. ASSUME NEW i \in 1..Len(proof \o greeting) PROVE (proof \o greeting)[i].kind \notin Kinds
    <3>1. CASE i <= Len(proof)
      BY <2>4, <2>5, <3>1
    <3>2. CASE ~(i <= Len(proof))
      <4>1. i - Len(proof) \in 1..Len(greeting)
        BY <2>4, <2>5, <3>2
      <4> QED BY <2>4, <2>5, <3>2, <4>1
    <3> QED BY <3>1, <3>2
  <2> QED BY <1>1, <2>2, <2>5, <2>6, OtherEventsArrive
<1> QED BY <1>3, <1>4

LEMMA QuietArrive ==
  ASSUME TInv, Arrives,
         \/ \E m \in Ids : NewMatch(m) \/ Deliver(m)
         \/ EndMatch \/ HostThread \/ EngineDrop \/ Lapse \/ Restart
         \/ \E p \in Players : Purge(p) \/ \E kind \in Kinds : Submit(p, kind)
  PROVE  Arrives'
<1>1. UNCHANGED inbox /\ Kept
  BY DEF NewMatch, Deliver, EndMatch, HostThread, EngineDrop, Lapse, Restart, Purge, Submit, Stores,
         outside, poller, sync, Kept
<1> QED BY <1>1, AloneArrives

LEMMA NextArrives == TInv /\ Arrives /\ [Next]_vars => Arrives'
<1> SUFFICES ASSUME TInv, Arrives, [Next]_vars PROVE Arrives'
  OBVIOUS
<1>1. CASE UNCHANGED vars
  BY <1>1, AloneArrives DEF vars, Kept
<1>2. CASE Poll(match) \/ (world.outages /\ Poll(Down))
  BY <1>2, PollArrive DEF TInv, BackendOK
<1>3. CASE Next /\ ~(Poll(match) \/ (world.outages /\ Poll(Down)))
  BY <1>3, QuietArrive, GCThreadArrive, DriverArrive, PlayersArrive, Zenon DEF Next
<1> QED BY <1>1, <1>2, <1>3

LEMMA InitArrives == Init => Arrives
<1> SUFFICES ASSUME Init PROVE Arrives
  OBVIOUS
<1>1. inbox = <<>> /\ Len(inbox) = 0
  BY DEF Init
<1>2. /\ handed.set = FALSE /\ dress.equipment = Gone /\ dress.skins = Gone
      /\ seen["skins"] = Gone /\ seen["equipment"] = Gone
  BY DEF Init, Kinds
<1> QED BY <1>1, <1>2 DEF Arrives, WeaponsArrive, SkinsArrive, Waits

LEMMA ArrivesIsDelivered == TInv /\ Arrives => AsDelivered
<1> SUFFICES ASSUME TInv, Arrives PROVE AsDelivered
  OBVIOUS
<1>1. \A i \in 1..Len(inbox) : inbox[i] \in Range(inbox)
  BY DEF Range, TInv, QueueOK
<1>2. ASSUME \A event \in Range(inbox) : event.kind \notin Kinds PROVE dress.equipment = seen["equipment"]
  <2>1. ~Waits("skins") /\ ~Waits("equipment")
    BY <1>1, <1>2 DEF Waits, Kinds
  <2> QED BY <2>1 DEF Arrives, WeaponsArrive
<1>3. ASSUME world.snaps = "timely", [kind |-> "skins"] \notin Range(inbox) PROVE dress.skins = seen["skins"]
  <2>1. \A i \in 1..Len(inbox) : inbox[i].kind = "skins" => inbox[i] = [kind |-> "skins"]
    <3>1. \A i \in 1..Len(inbox) : inbox[i] \in Events
      BY DEF TInv, QueueOK
    <3> QED BY <3>1 DEF Events, Kinds
  <2>2. ~Waits("skins")
    BY <1>1, <1>3, <2>1 DEF Waits
  <2> QED BY <1>3, <2>2 DEF Arrives, SkinsArrive
<1> QED BY <1>2, <1>3 DEF AsDelivered

(* Once its events are handled the GC thread has what the poller reported  *)
(* last: the base weapons, however reports of both overtake it, for one    *)
(* event takes what is in either slot; the skins, if a second report of    *)
(* skins does not overtake the first, for their slot cannot tell.          *)
THEOREM HandedOver == Spec => []AsDelivered
<1>1. Spec => [](TInv /\ Arrives)
  <2>1. Init => TInv /\ Arrives
    BY InitOK, InitArrives
  <2>2. (TInv /\ Arrives) /\ [Next]_vars => (TInv /\ Arrives)'
    BY NextTypes, NextArrives
  <2> QED BY <2>1, <2>2, PTL DEF Spec
<1>2. TInv /\ Arrives => AsDelivered
  BY ArrivesIsDelivered
<1> QED BY <1>1, <1>2, PTL

---------------------------------------------------------------------------
(* Everybody is given what there is of him.                                *)

\* An event of skins that finds the slot empty gives nothing to anybody; base
\* weapons it may take with it have an event of their own, or are nobody's.
Warned == handed.set /\ handed.skins = Gone => Waits("equipment") \/ handed.equipment.of = {}

\* Whoever is authenticated was given what there is of him, or is about to be.
Served == \A p \in dress.authenticated : Plan(dress, p) # {} => dress.worn[p] # {} \/ Waits("equipment")

\* Snapshots that are left out are not reported.
LeftOut == world.snaps = "off" => \A kind \in Kinds : seen[kind].of = {}

Serves == Warned /\ Served /\ LeftOut

LEMMA AloneServe ==
  ASSUME Serves, UNCHANGED <<seen, handed, dress, world>>, Waits("equipment") => Waits("equipment")'
  PROVE  Serves'
BY DEF Serves, Warned, Served, LeftOut, Plan

\* An event of another kind is handled, or more are posted: what waits goes on waiting.
LEMMA EquipmentWaits ==
  ASSUME QueueOK,
         \/ UNCHANGED inbox
         \/ \E kind : kind # "equipment" /\ Next1(kind)
         \/ \E events \in Seq(Events) : inbox' = inbox \o events
  PROVE  Waits("equipment") => Waits("equipment")'
<1>1. CASE UNCHANGED inbox
  BY <1>1 DEF Waits
<1>2. CASE \E kind : kind # "equipment" /\ Next1(kind)
  BY <1>2, BehindHead
<1>3. ASSUME NEW events \in Seq(Events), inbox' = inbox \o events
      PROVE  Waits("equipment") => Waits("equipment")'
  <2>1. \A i \in 1..Len(inbox) : i \in 1..Len(inbox') /\ inbox'[i] = inbox[i]
    BY <1>3, Appended
  <2> QED BY <2>1 DEF Waits
<1> QED BY <1>1, <1>2, <1>3

LEMMA PollServe ==
  ASSUME TInv, Arrives, Serves, NEW answer \in Ids \cup {None, Down}, Poll(answer)
  PROVE  Serves'
<1> DEFINE news == News(answer)
<1>1. Waits("equipment") => Waits("equipment")'
  BY PollEvents, EquipmentWaits DEF TInv
<1>2. UNCHANGED <<dress, world>>
  BY DEF Poll, outside
<1>3. /\ \A kind \in Kinds : seen'[kind] = IF kind \in news THEN Attached(kind, answer) ELSE seen[kind]
      /\ handed'.skins = IF "skins" \in news THEN Attached("skins", answer) ELSE handed.skins
      /\ handed'.equipment = IF "equipment" \in news THEN Attached("equipment", answer) ELSE handed.equipment
      /\ handed'.set = (handed.set \/ "equipment" \in news)
  BY DEF Poll, Kinds
<1>4. world.snaps = "off" => news = {}
  BY DEF News
<1>5. news # {} => \A kind \in Kinds : kind \notin news => Attached(kind, answer) = seen[kind]
  BY DEF News
<1>6. Attached("skins", answer) = Gone => Attached("equipment", answer) = Gone
  <2>1. answer \in Ids => answer # None
    BY DEF Ids, None
  <2> QED BY <2>1 DEF Attached, Gone
<1>7. "equipment" \in news /\ "skins" \notin news => Waits("equipment")'
  <2> SUFFICES ASSUME "equipment" \in news, "skins" \notin news PROVE Waits("equipment")'
    OBVIOUS
  <2>1. PICK events \in Seq(Events) :
          inbox' = inbox \o events /\ Len(events) >= 1 /\ events[1].kind = SnapEvent(news)
    BY PollEvents
  <2>2. /\ Len(events) \in Nat
        /\ \A i \in 1..Len(events) : Len(inbox) + i \in 1..Len(inbox') /\ inbox'[Len(inbox) + i] = events[i]
    BY <2>1, Appended DEF TInv
  <2>3. 1 \in 1..Len(events) /\ events[1].kind = "equipment"
    BY <2>1, <2>2 DEF SnapEvent
  <2>4. Len(inbox) + 1 \in 1..Len(inbox') /\ inbox'[Len(inbox) + 1].kind = "equipment"
    BY <2>2, <2>3
  <2> QED BY <2>4 DEF Waits
<1>8. news \subseteq Kinds /\ Gone.of = {}
  BY DEF News, Gone
<1> HIDE DEF news
<1>9. Warned'
  <2> SUFFICES ASSUME handed'.set, handed'.skins = Gone PROVE Waits("equipment")' \/ handed'.equipment.of = {}
    BY DEF Warned
  <2>1. CASE "skins" \in news
    <3>1. Attached("equipment", answer) = Gone
      BY <1>3, <1>6, <2>1
    <3>2. CASE "equipment" \in news
      BY <1>3, <1>8, <3>1, <3>2
    <3>3. CASE "equipment" \notin news
      <4>1. seen["equipment"] = Gone
        BY <1>5, <2>1, <3>1, <3>3 DEF Kinds
      <4>2. handed.set /\ handed'.equipment = handed.equipment
        BY <1>3, <3>3
      <4> QED BY <1>8, <4>1, <4>2 DEF Arrives, WeaponsArrive
    <3> QED BY <3>2, <3>3
  <2>2. CASE "skins" \notin news /\ "equipment" \in news
    BY <1>7, <2>2
  <2>3. CASE "skins" \notin news /\ "equipment" \notin news
    BY <1>1, <1>3, <2>3 DEF Serves, Warned
  <2> QED BY <2>1, <2>2, <2>3
<1>10. Served'
  BY <1>1, <1>2 DEF Serves, Served, Plan
<1>11. LeftOut'
  BY <1>2, <1>3, <1>4 DEF Serves, LeftOut
<1> QED BY <1>9, <1>10, <1>11 DEF Serves

\* Everybody who was not given anything is given what there is of him.
LEMMA AllServed ==
  ASSUME NEW d \in Wardrobes, dress' = Worn(d, d.authenticated \ Applied(d)), handed'.set = FALSE,
         UNCHANGED <<seen, world>>, Serves
  PROVE  Serves'
<1>1. ASSUME NEW p \in d.authenticated, Plan(d, p) # {} PROVE dress'.worn[p] # {}
  <2>1. p \in Players
    BY DEF Wardrobes
  <2>2. dress'.worn[p] = IF p \in d.authenticated \ Applied(d) THEN Plan(d, p) ELSE d.worn[p]
    BY <1>1, <2>1, WornOK
  <2> QED BY <1>1, <2>1, <2>2 DEF Applied
<1>2. dress'.authenticated = d.authenticated /\ \A p : Plan(dress, p)' = Plan(d, p)
  <2>1. dress'.skins = d.skins /\ dress'.equipment = d.equipment /\ dress'.authenticated = d.authenticated
    BY WornOK
  <2> QED BY <2>1 DEF Plan, Kinds
<1> QED BY <1>1, <1>2 DEF Serves, Warned, Served, LeftOut

LEMMA HandleEquipmentServe ==
  ASSUME TInv, Serves, HandleEquipment
  PROVE  Serves'
<1>1. WithEquipment \in Wardrobes /\ UNCHANGED <<seen, world>>
      /\ dress' = Worn(WithEquipment, WithEquipment.authenticated \ Applied(WithEquipment))
  BY TakenOK DEF HandleEquipment, Dresses, poller, outside
<1>2. handed'.set = FALSE
  BY DEF HandleEquipment, Dresses, Taken, TInv, PollerOK, Slots
<1> QED BY <1>1, <1>2, AllServed

LEMMA HandleSkinsServe ==
  ASSUME TInv, Serves, HandleSkins
  PROVE  Serves'
<1> DEFINE d == [WithEquipment EXCEPT !.skins = handed.skins]
<1>1. Next1("skins") /\ UNCHANGED <<seen, world>> /\ QueueOK
  BY DEF HandleSkins, Dresses, poller, outside, TInv
<1>2. handed'.set = FALSE
  <2>1. Taken \in Slots /\ Taken.set = FALSE
    BY TakenOK DEF Taken, TInv, PollerOK, Slots
  <2> QED BY <2>1 DEF HandleSkins, Dresses, Slots
<1>3. /\ d \in Wardrobes /\ d.skins = handed.skins /\ d.worn = dress.worn /\ d.authenticated = dress.authenticated
      /\ d.equipment = IF handed.set THEN handed.equipment ELSE dress.equipment
  <2>1. handed \in Slots /\ dress \in Wardrobes
    BY DEF TInv, PollerOK
  <2>2. /\ WithEquipment \in Wardrobes
        /\ WithEquipment.equipment = IF handed.set THEN handed.equipment ELSE dress.equipment
        /\ WithEquipment.worn = dress.worn /\ WithEquipment.authenticated = dress.authenticated
    BY <2>1, TakenOK DEF WithEquipment, Wardrobes
  <2> QED BY <2>1, <2>2 DEF Wardrobes, Slots
<1>4. dress' = IF handed.skins = Gone THEN d ELSE Worn(d, d.authenticated \ Applied(d))
  BY DEF HandleSkins, Dresses
<1>5. Waits("equipment") => Waits("equipment")'
  BY <1>1, EquipmentWaits
<1> HIDE DEF d
<1>6. CASE handed.skins # Gone
  BY <1>1, <1>2, <1>3, <1>4, <1>6, AllServed
<1>7. CASE handed.skins = Gone
  <2> SUFFICES ASSUME NEW p \in dress.authenticated, Plan(d, p) # {}
               PROVE  dress.worn[p] # {} \/ Waits("equipment")'
    BY <1>1, <1>2, <1>3, <1>4, <1>7 DEF Serves, Warned, Served, LeftOut, Plan
  <2>1. p \in d["equipment"].of
    BY <1>3, <1>7 DEF Plan, Kinds, Gone
  <2>2. CASE handed.set
    BY <1>3, <1>5, <1>7, <2>1, <2>2 DEF Serves, Warned
  <2>3. CASE ~handed.set
    <3>1. "equipment" \in Plan(dress, p)
      BY <1>3, <2>1, <2>3 DEF Plan, Kinds
    <3> QED BY <1>5, <3>1 DEF Serves, Served
  <2> QED BY <2>2, <2>3
<1> QED BY <1>6, <1>7

LEMMA HandleAuthenticatedServe ==
  ASSUME TInv, Serves, HandleAuthenticated
  PROVE  Serves'
<1>1. PICK p, d : p = Head(inbox).player /\ d = [dress EXCEPT !.authenticated = @ \cup {p}]
  OBVIOUS
<1>2. /\ p \in Players /\ d \in Wardrobes /\ d.authenticated = dress.authenticated \cup {p}
      /\ d.skins = dress.skins /\ d.equipment = dress.equipment /\ d.worn = dress.worn
      /\ dress' = Worn(d, {p}) /\ dress'.authenticated = d.authenticated
      /\ dress'.skins = d.skins /\ dress'.equipment = d.equipment
      /\ Next1("auth") /\ UNCHANGED <<seen, handed, world>>
  BY <1>1, AuthenticatedIs DEF poller, outside
<1>3. Waits("equipment") => Waits("equipment")'
  BY <1>2, EquipmentWaits DEF TInv
<1>4. \A q : Plan(dress, q)' = Plan(dress, q) /\ Plan(d, q) = Plan(dress, q)
  BY <1>2 DEF Plan, Kinds
<1>5. Served'
  <2> SUFFICES ASSUME NEW q \in dress.authenticated \cup {p}, Plan(dress, q) # {}
               PROVE  dress'.worn[q] # {} \/ Waits("equipment")'
    BY <1>2, <1>4 DEF Served
  <2>1. q \in Players
    BY <1>2 DEF Wardrobes
  <2>2. dress'.worn[q] = IF q = p THEN Plan(dress, q) ELSE dress.worn[q]
    BY <1>2, <1>4, <2>1, WornOK
  <2> QED BY <1>3, <2>2 DEF Serves, Served
<1> QED BY <1>2, <1>3, <1>5 DEF Serves, Warned, LeftOut

LEMMA HandleLeftServe ==
  ASSUME TInv, Serves, HandleLeft
  PROVE  Serves'
<1>1. PICK p : p = Head(inbox).player
  OBVIOUS
<1>2. PICK out : Becomes(out)
  BY LeftHandled
<1>3. dress' = Forgotten(p) /\ Next1("left") /\ UNCHANGED <<seen, handed, world>>
  BY <1>1, <1>2 DEF HandleLeft, Becomes, outside
<1>4. /\ dress'.authenticated = dress.authenticated \ {p}
      /\ dress'.skins = dress.skins /\ dress'.equipment = dress.equipment
      /\ \A q \in Players : q # p => dress'.worn[q] = dress.worn[q]
  BY <1>3 DEF Forgotten, TInv, Wardrobes
<1>5. Waits("equipment") => Waits("equipment")'
  BY <1>3, EquipmentWaits DEF TInv
<1>6. dress.authenticated \subseteq Players /\ \A q : Plan(dress, q)' = Plan(dress, q)
  BY <1>4 DEF TInv, Wardrobes, Plan, Kinds
<1>7. Served'
  BY <1>4, <1>5, <1>6 DEF Serves, Served
<1> QED BY <1>3, <1>5, <1>7 DEF Serves, Warned, LeftOut

\* An event is posted that is not about snapshots, or none.
LEMMA OthersServe ==
  ASSUME QueueOK, Serves, UNCHANGED <<seen, handed, dress, world>>,
         \/ UNCHANGED inbox
         \/ \E kind : kind # "equipment" /\ Next1(kind)
         \/ \E event \in Events : Post(event)
  PROVE  Serves'
<1>1. (\E event \in Events : Post(event)) => \E events \in Seq(Events) : inbox' = inbox \o events
  <2> SUFFICES ASSUME NEW event \in Events, Post(event) PROVE \E events \in Seq(Events) : inbox' = inbox \o events
    OBVIOUS
  <2>1. <<event>> \in Seq(Events) /\ inbox' = inbox \o <<event>>
    BY DEF Post, PostAll
  <2> QED BY <2>1
<1>2. Waits("equipment") => Waits("equipment")'
  BY <1>1, EquipmentWaits
<1> QED BY <1>2, AloneServe

LEMMA GCThreadServe == TInv /\ Serves /\ GCThread => Serves'
<1> SUFFICES ASSUME TInv, Serves, GCThread PROVE Serves'
  OBVIOUS
<1>1. CASE HandleRoster \/ HandleReady \/ HandleSeen
  <2>1. PICK out : Becomes(out)
    BY <1>1, RosterHandled, ReadyHandled, SeenHandled
  <2>2. UNCHANGED <<seen, handed, dress, world>>
    BY <1>1, <2>1 DEF HandleRoster, HandleReady, HandleSeen, Becomes, outside
  <2>3. Next1("roster") \/ Next1("ready") \/ Next1("seen")
    BY <1>1 DEF HandleRoster, HandleReady, HandleSeen
  <2> QED BY <2>2, <2>3, OthersServe DEF TInv
<1>2. CASE HandleNet
  <2>1. UNCHANGED <<seen, handed, dress, world>> /\ Next1("net")
    BY <1>2 DEF HandleNet, Becomes, outside
  <2> QED BY <2>1, OthersServe DEF TInv
<1>3. CASE HandleLeft \/ HandleAuthenticated \/ HandleSkins \/ HandleEquipment
  BY <1>3, HandleLeftServe, HandleAuthenticatedServe, HandleSkinsServe, HandleEquipmentServe
<1> QED BY <1>1, <1>2, <1>3 DEF GCThread

LEMMA DriverServe == TInv /\ Serves /\ (DriverThread \/ PassPopup) => Serves'
<1> SUFFICES ASSUME TInv, Serves, DriverThread \/ PassPopup PROVE Serves'
  OBVIOUS
<1>1. UNCHANGED <<seen, handed, dress, world>> /\ QueueOK
  BY DEF DriverThread, PassPopup, PassPause, PassArm, PassRearm, PassRelease, PassUnreserve, Passes,
         PassQuiet, PassAnswered, PassGaveUp, Pass, outside, poller, sync, TInv
<1>2. UNCHANGED inbox \/ \E ready \in BOOLEAN : Post([kind |-> "ready", ready |-> ready])
  BY DEF DriverThread, PassPopup, PassPause, PassArm, PassRearm, PassRelease, PassUnreserve,
         PassQuiet, PassAnswered, PassGaveUp, Pass
<1>3. \A ready \in BOOLEAN : [kind |-> "ready", ready |-> ready] \in Events
  BY EventsAre
<1>4. UNCHANGED inbox \/ \E event \in Events : Post(event)
  BY <1>2, <1>3
<1> QED BY <1>1, <1>4, OthersServe

LEMMA PlayersServe ==
  ASSUME TInv, Serves, NEW p \in Players, Enter(p) \/ Greet(p) \/ Leave(p) \/ Sniff(p)
  PROVE  Serves'
<1>1. UNCHANGED <<seen, handed, dress, world>> /\ QueueOK
  BY DEF Enter, Greet, Leave, Sniff, outside, poller, sync, TInv
<1>2. \A k \in {"auth", "net", "left", "seen"} : [kind |-> k, player |-> p] \in Events
  BY EventsAre
<1>3. CASE Greet(p) \/ Leave(p) \/ Sniff(p)
  <2>1. \E event \in Events : Post(event)
    BY <1>2, <1>3 DEF Greet, Leave, Sniff
  <2> QED BY <1>1, <2>1, OthersServe
<1>4. CASE Enter(p)
  <2>1. PICK auth, net, proof, greeting :
          /\ auth = [kind |-> "auth", player |-> p] /\ net = [kind |-> "net", player |-> p]
          /\ proof = IF world.snaps = "off" THEN <<>> ELSE <<auth>>
          /\ greeting = IF world.greets = "atOnce" THEN <<net>> ELSE <<>>
    OBVIOUS
  <2>2. inbox' = inbox \o (proof \o greeting)
    BY <1>4, <2>1 DEF Enter, PostAll
  <2>3. proof \in Seq(Events) /\ greeting \in Seq(Events)
    BY <1>2, <2>1
  <2>4. proof \o greeting \in Seq(Events)
    BY <2>3
  <2>5. Waits("equipment") => Waits("equipment")'
    BY <1>1, <2>2, <2>4, EquipmentWaits
  <2> QED BY <1>1, <2>5, AloneServe
<1> QED BY <1>3, <1>4

LEMMA QuietServe ==
  ASSUME TInv, Serves,
         \/ \E m \in Ids : NewMatch(m) \/ Deliver(m)
         \/ EndMatch \/ HostThread \/ EngineDrop \/ Lapse \/ Restart
         \/ \E p \in Players : Purge(p) \/ \E kind \in Kinds : Submit(p, kind)
  PROVE  Serves'
<1>1. UNCHANGED <<inbox, seen, handed, dress, world>>
  BY DEF NewMatch, Deliver, EndMatch, HostThread, EngineDrop, Lapse, Restart, Purge, Submit, Stores,
         outside, poller, sync
<1> QED BY <1>1, OthersServe DEF TInv

LEMMA NextServes == TInv /\ Arrives /\ Serves /\ [Next]_vars => Serves'
<1> SUFFICES ASSUME TInv, Arrives, Serves, [Next]_vars PROVE Serves'
  OBVIOUS
<1>1. CASE UNCHANGED vars
  BY <1>1, AloneServe DEF vars, Waits
<1>2. CASE Poll(match) \/ (world.outages /\ Poll(Down))
  BY <1>2, PollServe DEF TInv, BackendOK
<1>3. CASE Next /\ ~(Poll(match) \/ (world.outages /\ Poll(Down)))
  BY <1>3, QuietServe, GCThreadServe, DriverServe, PlayersServe, Zenon DEF Next
<1> QED BY <1>1, <1>2, <1>3

LEMMA InitServes == Init => Serves
<1> SUFFICES ASSUME Init PROVE Serves
  OBVIOUS
<1>1. handed.set = FALSE /\ dress.authenticated = {} /\ \A kind \in Kinds : seen[kind] = Gone
  BY DEF Init
<1> QED BY <1>1 DEF Serves, Warned, Served, LeftOut, Gone

LEMMA ServesIsDressed == TInv /\ Counted /\ AsDelivered /\ Serves => Dressed
<1> SUFFICES ASSUME TInv, Counted, AsDelivered, Serves, NEW p \in on,
                    \A event \in Range(inbox) :
                      event.kind \notin Kinds /\ (event.kind \in {"auth", "left"} => event.player # p),
                    p \in seen["equipment"].of \/ (world.snaps = "timely" /\ p \in seen["skins"].of)
             PROVE  dress.worn[p] # {}
  BY DEF Dressed
<1>1. \A i \in 1..Len(inbox) : inbox[i] \in Range(inbox)
  BY DEF Range, TInv, QueueOK
<1>2. ~Waits("equipment") /\ \A i \in 1..Len(inbox) : ~Tells("auth", i, p)
  BY <1>1 DEF Waits, Kinds, Tells
<1>3. world.snaps # "off" /\ p \in Players
  BY DEF Serves, LeftOut, Kinds, TInv, OutsideOK
<1>4. p \in dress.authenticated
  BY <1>2, <1>3 DEF Counted, InStep, Silent, Heard
<1>5. p \in dress["equipment"].of \/ p \in dress["skins"].of
  <2>1. dress.equipment = seen["equipment"]
    BY DEF AsDelivered
  <2>2. world.snaps = "timely" => dress.skins = seen["skins"]
    <3>1. [kind |-> "skins"] \notin Range(inbox)
      BY DEF Kinds
    <3> QED BY <3>1 DEF AsDelivered
  <2> QED BY <2>1, <2>2
<1>6. Plan(dress, p) # {}
  BY <1>5 DEF Plan, Kinds
<1> QED BY <1>2, <1>4, <1>6 DEF Serves, Served

(* Whoever comes first, a player, his skins or his base weapons: once the  *)
(* events are handled he has what was reported of him.  OnBackendSkins,    *)
(* OnBackendEquipment and OnClientAuthenticated each give what there is.   *)
THEOREM EverybodyDressed == Spec => []Dressed
<1>1. Spec => [](TInv /\ Counted /\ Arrives /\ Serves)
  <2>1. Init => TInv /\ Counted /\ Arrives /\ Serves
    BY InitOK, InitCount, InitArrives, InitServes
  <2>2. (TInv /\ Counted /\ Arrives /\ Serves) /\ [Next]_vars => (TInv /\ Counted /\ Arrives /\ Serves)'
    BY NextTypes, NextCount, NextArrives, NextServes
  <2> QED BY <2>1, <2>2, PTL DEF Spec
<1>2. TInv /\ Counted /\ Arrives /\ Serves => Dressed
  BY ArrivesIsDelivered, ServesIsDressed
<1> QED BY <1>1, <1>2, PTL

---------------------------------------------------------------------------
(* What the engine holds when the backend is told that a roster is armed.  *)
(* The controller never looks at the engine: it trusts the last report of  *)
(* the driver, and the driver the payloads it gave to the host thread.     *)

Calmly == world.calm /\ world.greets = "atOnce"

\* What is in a queue of events.
In(q, k) == \E i \in 1..Len(q) : q[i].kind = k
\* Nothing but this answer of the backend, once.
OneAnswer(q, a) ==
  \A i \in 1..Len(q) : q[i].kind = "roster" =>
    q[i].snap = a /\ \A j \in 1..Len(q) : q[j].kind = "roster" => j = i
SaysReady(q, i) == q[i].kind = "ready" /\ q[i].ready
SaysNot(q, i) == q[i].kind = "ready" /\ ~q[i].ready
Promises(q) == \E i \in 1..Len(q) : SaysReady(q, i)
\* The last report is that the virtual players are not ready; b is what the
\* controller was told before.
Revoked(q, b) ==
  /\ \A i \in 1..Len(q) : SaysReady(q, i) => \E j \in i + 1..Len(q) : SaysNot(q, j)
  /\ b => \E j \in 1..Len(q) : SaysNot(q, j)

\* The answers of the backend arrive one by one, and none is of an earlier match.
Latest(g, q) ==
  /\ match \in {None, last}
  /\ key \in Ids => key = last
  /\ g.snap \in Ids => g.snap = last
  /\ OneAnswer(q, key) /\ (In(q, "roster") \/ g.snap = key)
  /\ In(q, "roster") /\ match # None => key # None

\* Nobody is told before there was an answer, and no player was seen.
Tellings(g, q) ==
  /\ \A m \in Ids : confirms[m] > 0 => m <= last
  /\ g.pending = NoPlayer
  /\ g.snap = Unknown => told = {} /\ (\A m \in Ids : confirms[m] = 0) /\ ~In(q, "seen")

\* The last match is one of this server.
Asked == last \in Ids /\ Fits(last)
\* It is not told of before there is a driver.
Untold(d, q) == Asked /\ d = NoDriver => last \notin told /\ confirms[last] = 0 /\ ~In(q, "seen")

\* An armed controller has the driver of its roster; any other let it go.
Bound(g, d) ==
  /\ g.armed => d # NoDriver /\ d.roster = g.roster /\ ~d.released /\ d.cmd # "release"
  /\ d # NoDriver /\ ~g.armed => d.released

\* What the engine has, and is given, is the roster of the driver.
Own(d, q) ==
  /\ d = NoDriver => engine.held = NoRoster /\ hostq = <<>> /\ ~In(q, "ready")
  /\ d # NoDriver =>
       /\ d.roster # NoRoster /\ engine.held \in {NoRoster, d.roster}
       /\ \A i \in 1..Len(hostq) : hostq[i] \in {NoRoster, d.roster}

\* A driver at work has reserved its roster, or will have.
Reserved(d) ==
  d.phase \in {"probe", "waitPopup", "accept", "done"} =>
    /\ hostq = <<>> => engine.held # NoRoster /\ ~engine.expired
    /\ hostq # <<>> => hostq[Len(hostq)] # NoRoster
    /\ d.popup => engine.held # NoRoster
Cold(g, d, q) == d.phase = "cooldown" => Revoked(q, g.ready)
\* It only rests while somebody is connected.
Resting(g, d) ==
  /\ d.phase = "paused" /\ g.inside = {} => d.cmd \in {"arm", "rearm"}
  /\ d.cmd = "pause" => g.inside # {}
\* Nothing is reported that the engine does not hold.
Borne(g, q) == g.ready \/ Promises(q) => engine.held # NoRoster
Working(g, d, q) == g.armed => Reserved(d) /\ Cold(g, d, q) /\ Resting(g, d) /\ Borne(g, q)

\* Nothing is left of an earlier match.
Clean(d, q) ==
  /\ engine.held = NoRoster /\ hostq = <<>> /\ ~In(q, "ready")
  /\ d.phase \in {"none", "paused"} /\ d.cmd \in {"none", "pause"}
\* The last match is on the server, or the controller has still to hear that it is not.
Due(g, q) == match = last \/ g.snap = last \/ (In(q, "roster") /\ key = last)
Rested(g, d, q) ==
  Asked /\ Due(g, q) =>
    /\ ~g.armed => Clean(d, q)
    /\ g.armed => g.roster = RosterOf(last) /\ g.snap # None

Sound(g, d, q) ==
  Latest(g, q) /\ Tellings(g, q) /\ Untold(d, q) /\ Bound(g, d) /\ Own(d, q) /\ Working(g, d, q) /\ Rested(g, d, q)

HeldInv == Calmly => Sound(gc, driver, inbox)

\* The outcomes of an operation of the controller: it goes on as it was, and may
\* confirm; it lets the driver go; it has a new driver.
Keeps(out, g, d) ==
  /\ out.driver = d /\ out.gc.armed = g.armed /\ out.gc.roster = g.roster /\ out.gc.ready = g.ready
  /\ out.tell # {} =>
       /\ g.snap \in Ids /\ out.tell = {g.snap}
       /\ Fits(g.snap) => g.armed /\ g.ready /\ g.roster = RosterOf(g.snap)
LetsGo(e, d) ==
  e \in Drivers /\ e.released /\ e.roster = d.roster /\ e.phase = d.phase
Drops(out, g, d) ==
  /\ g.snap = None /\ g.armed /\ out.tell = {}
  /\ ~out.gc.armed /\ ~out.gc.ready
  /\ d # NoDriver => LetsGo(out.driver, d)
IsNew(out, r, order) ==
  /\ out.tell = {} /\ out.gc.armed /\ ~out.gc.ready /\ out.gc.roster = r
  /\ out.driver = NewDriver(r, order)
Renews(out, g) ==
  /\ g.snap \in Ids /\ Fits(g.snap) /\ ~(g.armed /\ g.roster = RosterOf(g.snap))
  /\ IsNew(out, RosterOf(g.snap), IF g.armed THEN "rearm" ELSE "arm")
\* The same players, and the same answer.
Beside(out, g) ==
  out.gc.inside = g.inside /\ out.gc.snap = g.snap /\ out.gc.pending = g.pending
Ends(out, g, d) == Beside(out, g) /\ (Keeps(out, g, d) \/ Drops(out, g, d) \/ Renews(out, g))

LEMMA OutIs ==
  ASSUME NEW g, NEW d, NEW tell
  PROVE  Out(g, d, tell).gc = g /\ Out(g, d, tell).driver = d /\ Out(g, d, tell).tell = tell
BY DEF Out

LEMMA ConfirmEnds ==
  ASSUME NEW g \in GCs, NEW d
  PROVE  Beside(ConfirmIfReady(g, d), g) /\ Keeps(ConfirmIfReady(g, d), g, d)
<1>1. CASE g.armed /\ g.ready /\ g.usable /\ g.snap \in Ids /\ g.roster = RosterOf(g.snap) /\ g.confirmed # g.snap
  <2>1. PICK h : h = [g EXCEPT !.confirmed = g.snap]
    OBVIOUS
  <2>2. /\ h.inside = g.inside /\ h.snap = g.snap /\ h.pending = g.pending /\ h.armed = g.armed
        /\ h.roster = g.roster /\ h.ready = g.ready
    BY <2>1 DEF GCs
  <2>3. PICK out : out = ConfirmIfReady(g, d)
    OBVIOUS
  <2>4. out.gc = h /\ out.driver = d /\ out.tell = {g.snap}
    BY <1>1, <2>1, <2>3, OutIs DEF ConfirmIfReady
  <2>5. Beside(out, g) /\ Keeps(out, g, d)
    BY <1>1, <2>2, <2>4 DEF Beside, Keeps
  <2> QED BY <2>3, <2>5
<1>2. CASE ~(g.armed /\ g.ready /\ g.usable /\ g.snap \in Ids /\ g.roster = RosterOf(g.snap) /\ g.confirmed # g.snap)
  <2>1. ConfirmIfReady(g, d) = Out(g, d, {})
    BY <1>2 DEF ConfirmIfReady
  <2> QED BY <2>1, OutIs DEF Beside, Keeps
<1> QED BY <1>1, <1>2

LEMMA ReleaseEnds ==
  ASSUME NEW g \in GCs, NEW d, DriverOK(d), g.snap = None, g.armed
  PROVE  Beside(Release(g, d), g) /\ Drops(Release(g, d), g, d)
<1>1. PICK h : h = Unready([g EXCEPT !.armed = FALSE, !.roster = NoRoster, !.own = FALSE])
  OBVIOUS
<1>2. /\ h.inside = g.inside /\ h.snap = g.snap /\ h.pending = g.pending /\ ~h.armed /\ ~h.ready
  BY <1>1 DEF GCs, Unready
<1>3. PICK e : e = [d EXCEPT !.released = TRUE, !.cmd = "release"]
  OBVIOUS
<1>4. d # NoDriver => LetsGo(e, d)
  BY <1>3 DEF LetsGo, DriverOK, Drivers
<1>5. PICK out : out = Release(g, d)
  OBVIOUS
<1>6. out.gc = h /\ out.tell = {} /\ (d # NoDriver => out.driver = e)
  BY <1>1, <1>3, <1>5, OutIs DEF Release
<1>7. Beside(out, g) /\ Drops(out, g, d)
  BY <1>2, <1>4, <1>6 DEF Beside, Drops
<1> QED BY <1>5, <1>7

\* A new driver for a roster.
LEMMA NewEnds ==
  ASSUME NEW g \in GCs, NEW r, NEW own, NEW order
  PROVE  LET out == Out(Unready([g EXCEPT !.armed = TRUE, !.roster = r, !.own = own]), NewDriver(r, order), {})
         IN  Beside(out, g) /\ IsNew(out, r, order)
<1>1. PICK h : h = Unready([g EXCEPT !.armed = TRUE, !.roster = r, !.own = own])
  OBVIOUS
<1>2. /\ h.inside = g.inside /\ h.snap = g.snap /\ h.pending = g.pending /\ h.armed /\ ~h.ready /\ h.roster = r
  BY <1>1 DEF GCs, Unready
<1> QED BY <1>1, <1>2, OutIs DEF Beside, IsNew

LEMMA ApplyEnds ==
  ASSUME NEW g0 \in GCs, NEW d, DriverOK(d)
  PROVE  Ends(Apply(g0, d), g0, d)
<1>1. PICK g : g = [g0 EXCEPT !.usable = FALSE]
  OBVIOUS
<1>2. PICK use : use = [g0 EXCEPT !.usable = TRUE]
  OBVIOUS
<1>3. PICK mine : mine = [use EXCEPT !.own = TRUE]
  OBVIOUS
<1>4. PICK noted : noted = [g EXCEPT !.confirmed = g.snap]
  OBVIOUS
<1> DEFINE Like(h) ==
      /\ h.snap = g0.snap /\ h.inside = g0.inside /\ h.pending = g0.pending /\ h.armed = g0.armed
      /\ h.roster = g0.roster /\ h.ready = g0.ready
<1>5. g \in GCs /\ Like(g) /\ use \in GCs /\ Like(use) /\ g.confirmed = g0.confirmed
  BY <1>1, <1>2 DEF GCs
<1>6. mine \in GCs /\ Like(mine) /\ Like(noted)
  BY <1>3, <1>4, <1>5 DEF GCs
<1>7. PICK out : out = Apply(g0, d)
  OBVIOUS
<1> DEFINE over == g.snap = None /\ g.armed /\ g.own /\ g.inside = {}
           held == g.armed /\ g.roster = RosterOf(g.snap)
           complete == g.snap \in Ids
<1>8. CASE over
  <2>1. out = Release(g, d)
    BY <1>1, <1>7, <1>8 DEF Apply, None, Ids
  <2>2. Beside(out, g) /\ Drops(out, g, d)
    BY <1>5, <1>8, <2>1, ReleaseEnds
  <2> QED BY <1>5, <1>7, <2>2 DEF Ends, Beside, Drops
<1>9. CASE ~over /\ complete /\ ~Fits(g.snap) /\ g.confirmed # g.snap
  <2>1. out = Out(noted, d, {g.snap})
    BY <1>1, <1>4, <1>7, <1>9 DEF Apply
  <2>2. Beside(out, g0) /\ Keeps(out, g0, d)
    BY <1>5, <1>6, <1>9, <2>1, OutIs DEF Beside, Keeps
  <2> QED BY <1>7, <2>2 DEF Ends
<1>10. CASE ~over /\ complete /\ Fits(g.snap) /\ held
  <2>1. out = ConfirmIfReady(mine, d)
    BY <1>1, <1>2, <1>3, <1>7, <1>10 DEF Apply
  <2>2. Beside(out, mine) /\ Keeps(out, mine, d)
    BY <1>6, <2>1, ConfirmEnds
  <2> QED BY <1>6, <1>7, <2>2 DEF Ends, Beside, Keeps
<1>11. CASE ~over /\ complete /\ Fits(g.snap) /\ ~held
  <2>1. out = IF g.inside = {} THEN Arm(use) ELSE Out(use, d, {})
    BY <1>1, <1>2, <1>7, <1>11 DEF Apply
  <2>2. CASE g.inside = {}
    <3>1. Beside(out, use) /\ IsNew(out, RosterOf(use.snap), IF use.armed THEN "rearm" ELSE "arm")
      BY <1>5, <2>1, <2>2, NewEnds DEF Arm
    <3>2. Beside(out, g0) /\ Renews(out, g0)
      BY <1>5, <1>11, <3>1 DEF Beside, Renews
    <3> QED BY <1>7, <3>2 DEF Ends
  <2>3. CASE g.inside # {}
    <3>1. Beside(out, g0) /\ Keeps(out, g0, d)
      BY <1>5, <2>1, <2>3, OutIs DEF Beside, Keeps
    <3> QED BY <1>7, <3>1 DEF Ends
  <2> QED BY <2>2, <2>3
<1>12. CASE ~over /\ ~(complete /\ ~Fits(g.snap) /\ g.confirmed # g.snap) /\ ~(complete /\ Fits(g.snap))
  <2>1. out = Out(g, d, {})
    BY <1>1, <1>7, <1>12 DEF Apply
  <2>2. Beside(out, g0) /\ Keeps(out, g0, d)
    BY <1>5, <2>1, OutIs DEF Beside, Keeps
  <2> QED BY <1>7, <2>2 DEF Ends
<1> QED BY <1>8, <1>9, <1>10, <1>11, <1>12

\* The legacy roster: only without a driver.
Fallback(out, d) ==
  d = NoDriver /\ \E p \in Players : IsNew(out, Legacy(p), "arm")

LEMMA SeenEnds ==
  ASSUME NEW g \in GCs, NEW d, NEW p \in Players, g.snap # Unknown
  PROVE  Beside(RealPlayerSeen(g, d, p), g)
         /\ (Keeps(RealPlayerSeen(g, d, p), g, d) \/ Fallback(RealPlayerSeen(g, d, p), d))
<1>1. PICK out : out = RealPlayerSeen(g, d, p)
  OBVIOUS
<1>2. CASE d # NoDriver \/ g.usable
  <2>1. out = Out(g, d, {})
    BY <1>1, <1>2 DEF RealPlayerSeen
  <2>2. Beside(out, g) /\ Keeps(out, g, d)
    BY <2>1, OutIs DEF Beside, Keeps
  <2> QED BY <1>1, <2>2
<1>3. CASE d = NoDriver /\ ~g.usable
  <2>1. out = Out(Unready([g EXCEPT !.armed = TRUE, !.roster = Legacy(p), !.own = FALSE]), NewDriver(Legacy(p), "arm"), {})
    BY <1>1, <1>3 DEF RealPlayerSeen
  <2>2. Beside(out, g) /\ IsNew(out, Legacy(p), "arm")
    BY <2>1, NewEnds
  <2> QED BY <1>1, <1>3, <2>2 DEF Fallback
<1> QED BY <1>2, <1>3

---------------------------------------------------------------------------
(* What becomes of the queue.                                              *)

\* A queue whose events of interest are those of another.
StillRevoked(q, r) == \A b \in BOOLEAN : Revoked(q, b) => Revoked(r, b)
SameAnswer(q, r) == (In(r, "roster") <=> In(q, "roster")) /\ \A a : OneAnswer(q, a) => OneAnswer(r, a)
SameReports(q, r) == (In(r, "ready") <=> In(q, "ready")) /\ (Promises(r) => Promises(q)) /\ StillRevoked(q, r)
SameSeen(q, r) == In(r, "seen") <=> In(q, "seen")

LEMMA Joined ==
  ASSUME NEW q \in Seq(Events), NEW es \in Seq(Events), NEW r, r = q \o es
  PROVE  /\ r \in Seq(Events) /\ Len(q) \in Nat /\ Len(es) \in Nat /\ Len(r) = Len(q) + Len(es)
         /\ \A i \in 1..Len(q) : i \in 1..Len(r) /\ r[i] = q[i]
         /\ \A i \in 1..Len(es) : Len(q) + i \in 1..Len(r) /\ r[Len(q) + i] = es[i]
         /\ \A i \in 1..Len(r) : i \notin 1..Len(q) => i - Len(q) \in 1..Len(es) /\ r[i] = es[i - Len(q)]
<1>1. r \in Seq(Events) /\ Len(q) \in Nat /\ Len(es) \in Nat /\ Len(r) = Len(q) + Len(es)
  OBVIOUS
<1>2. \A i \in 1..Len(r) : r[i] = IF i <= Len(q) THEN q[i] ELSE es[i - Len(q)]
  BY <1>1
<1>3. \A i \in 1..Len(q) : i \in 1..Len(r) /\ r[i] = q[i]
  BY <1>1, <1>2
<1>4. ASSUME NEW i \in 1..Len(es) PROVE Len(q) + i \in 1..Len(r) /\ r[Len(q) + i] = es[i]
  <2>1. Len(q) + i \in 1..Len(r) /\ ~(Len(q) + i <= Len(q)) /\ (Len(q) + i) - Len(q) = i
    BY <1>1
  <2> QED BY <1>2, <2>1
<1>5. ASSUME NEW i \in 1..Len(r), i \notin 1..Len(q)
      PROVE  i - Len(q) \in 1..Len(es) /\ r[i] = es[i - Len(q)]
  <2>1. i - Len(q) \in 1..Len(es) /\ ~(i <= Len(q))
    BY <1>1, <1>5
  <2> QED BY <1>2, <2>1
<1> QED BY <1>1, <1>3, <1>4, <1>5

LEMMA JoinedOne ==
  ASSUME NEW q \in Seq(Events), NEW e \in Events, NEW r, r = q \o <<e>>
  PROVE  /\ r \in Seq(Events) /\ Len(q) \in Nat /\ Len(r) = Len(q) + 1
         /\ Len(r) \in 1..Len(r) /\ r[Len(r)] = e
         /\ \A i \in 1..Len(q) : i \in 1..Len(r) /\ i # Len(r) /\ r[i] = q[i]
         /\ \A i \in 1..Len(r) : i # Len(r) => i \in 1..Len(q) /\ r[i] = q[i]
<1>1. <<e>> \in Seq(Events) /\ Len(<<e>>) = 1 /\ <<e>>[1] = e
  BY OneAndTwo
<1>2. /\ r \in Seq(Events) /\ Len(q) \in Nat /\ Len(r) = Len(q) + 1
      /\ \A i \in 1..Len(q) : i \in 1..Len(r) /\ r[i] = q[i]
      /\ r[Len(q) + 1] = e
  BY <1>1, Joined
<1>3. Len(r) \in 1..Len(r) /\ r[Len(r)] = e /\ \A i \in 1..Len(q) : i # Len(r)
  BY <1>2
<1>4. \A i \in 1..Len(r) : i # Len(r) => i \in 1..Len(q)
  BY <1>2
<1> QED BY <1>2, <1>3, <1>4

LEMMA Beheaded ==
  ASSUME NEW q \in Seq(Events), q # <<>>, NEW r, r = Tail(q)
  PROVE  /\ r \in Seq(Events) /\ Len(q) \in Nat /\ Len(q) >= 1 /\ Len(r) = Len(q) - 1
         /\ 1 \in 1..Len(q) /\ Head(q) = q[1]
         /\ \A i \in 1..Len(r) : i + 1 \in 1..Len(q) /\ i + 1 # 1 /\ r[i] = q[i + 1]
         /\ \A i \in 1..Len(q) : i # 1 => i - 1 \in 1..Len(r) /\ r[i - 1] = q[i]
<1>1. r \in Seq(Events) /\ Len(q) \in Nat /\ Len(q) >= 1 /\ Len(r) = Len(q) - 1 /\ Head(q) = q[1]
  OBVIOUS
<1>2. \A i \in 1..Len(r) : i + 1 \in 1..Len(q) /\ i + 1 # 1 /\ r[i] = q[i + 1]
  BY <1>1
<1>3. ASSUME NEW i \in 1..Len(q), i # 1 PROVE i - 1 \in 1..Len(r) /\ r[i - 1] = q[i]
  <2>1. i - 1 \in 1..Len(r) /\ (i - 1) + 1 = i
    BY <1>1, <1>3
  <2> QED BY <1>2, <2>1
<1> QED BY <1>1, <1>2, <1>3

\* Other events are put in the queue.
LEMMA OthersAdded ==
  ASSUME NEW q \in Seq(Events), NEW es \in Seq(Events), NEW r, r = q \o es
  PROVE  /\ \A k : (\A i \in 1..Len(es) : es[i].kind # k) => (In(r, k) <=> In(q, k))
         /\ (\A i \in 1..Len(es) : es[i].kind # "roster") => SameAnswer(q, r)
         /\ (\A i \in 1..Len(es) : es[i].kind # "ready") => SameReports(q, r)
<1>1. ASSUME NEW k, \A i \in 1..Len(es) : es[i].kind # k PROVE In(r, k) <=> In(q, k)
  <2>1. ASSUME In(q, k) PROVE In(r, k)
    BY <2>1, Joined DEF In
  <2>2. ASSUME In(r, k) PROVE In(q, k)
    <3>1. PICK i \in 1..Len(r) : r[i].kind = k
      BY <2>2 DEF In
    <3>2. i \in 1..Len(q)
      BY <1>1, <3>1, Joined
    <3> QED BY <3>1, <3>2, Joined DEF In
  <2> QED BY <2>1, <2>2
<1>2. ASSUME \A i \in 1..Len(es) : es[i].kind # "roster", NEW a, OneAnswer(q, a) PROVE OneAnswer(r, a)
  <2>1. ASSUME NEW i \in 1..Len(r), r[i].kind = "roster" PROVE i \in 1..Len(q) /\ r[i] = q[i]
    BY <1>2, <2>1, Joined
  <2> HIDE DEF Events
  <2> QED BY <1>2, <2>1 DEF OneAnswer
<1>3. ASSUME \A i \in 1..Len(es) : es[i].kind # "ready" PROVE SameReports(q, r)
  <2>1. ASSUME NEW i \in 1..Len(r), r[i].kind = "ready" PROVE i \in 1..Len(q) /\ r[i] = q[i]
    BY <1>3, <2>1, Joined
  <2>2. Promises(r) => Promises(q)
    BY <2>1 DEF Promises, SaysReady
  <2>3. ASSUME NEW b \in BOOLEAN, Revoked(q, b) PROVE Revoked(r, b)
    <3>1. ASSUME NEW j \in 1..Len(q), SaysNot(q, j) PROVE j \in 1..Len(r) /\ SaysNot(r, j)
      BY <3>1, Joined DEF SaysNot
    <3>2. b => \E j \in 1..Len(r) : SaysNot(r, j)
      BY <2>3, <3>1 DEF Revoked
    <3>3. ASSUME NEW i \in 1..Len(r), SaysReady(r, i) PROVE \E j \in i + 1..Len(r) : SaysNot(r, j)
      <4>1. i \in 1..Len(q) /\ SaysReady(q, i)
        BY <2>1, <3>3 DEF SaysReady
      <4>2. PICK j \in i + 1..Len(q) : SaysNot(q, j)
        BY <2>3, <4>1 DEF Revoked
      <4>3. Len(q) \in Nat /\ Len(r) \in Nat
        BY Joined
      <4>4. j \in 1..Len(q)
        BY <4>1, <4>2, <4>3
      <4>5. j \in i + 1..Len(r)
        BY <3>1, <4>1, <4>2, <4>3, <4>4
      <4> QED BY <3>1, <4>2, <4>4, <4>5
    <3> QED BY <3>2, <3>3 DEF Revoked
  <2> QED BY <1>1, <1>3, <2>2, <2>3 DEF SameReports, StillRevoked
<1> QED BY <1>1, <1>2, <1>3 DEF SameAnswer

\* The driver reports.
LEMMA ReportAdded ==
  ASSUME NEW q \in Seq(Events), NEW e \in Events, e.kind = "ready", NEW r, r = q \o <<e>>
  PROVE  /\ SameAnswer(q, r) /\ SameSeen(q, r)
         /\ Promises(r) => Promises(q) \/ e.ready
         /\ ~e.ready => \A b \in BOOLEAN : Revoked(r, b)
<1>1. /\ <<e>> \in Seq(Events) /\ Len(<<e>>) = 1 /\ <<e>>[1] = e
  BY OneAndTwo
<1>2. \A i \in 1..Len(<<e>>) : <<e>>[i].kind \notin {"roster", "seen"}
  BY <1>1
<1>3. SameAnswer(q, r) /\ SameSeen(q, r)
  BY <1>1, <1>2, OthersAdded DEF SameSeen
<1>4. ASSUME Promises(r), ~e.ready PROVE Promises(q)
  <2>1. PICK i \in 1..Len(r) : SaysReady(r, i)
    BY <1>4 DEF Promises
  <2>2. i # Len(r)
    BY <1>4, <2>1, JoinedOne DEF SaysReady
  <2> QED BY <2>1, <2>2, JoinedOne DEF Promises, SaysReady
<1>5. ASSUME ~e.ready, NEW b \in BOOLEAN PROVE Revoked(r, b)
  <2>1. Len(r) \in Nat /\ Len(r) \in 1..Len(r) /\ SaysNot(r, Len(r))
    BY <1>5, JoinedOne DEF SaysNot
  <2>2. ASSUME NEW i \in 1..Len(r), SaysReady(r, i) PROVE Len(r) \in i + 1..Len(r)
    <3>1. i # Len(r)
      BY <2>1, <2>2 DEF SaysReady, SaysNot
    <3> QED BY <2>1, <3>1
  <2> QED BY <2>1, <2>2 DEF Revoked
<1> QED BY <1>3, <1>4, <1>5

\* The head of the queue is handled.
LEMMA HeadTaken ==
  ASSUME NEW q \in Seq(Events), q # <<>>, NEW r, r = Tail(q)
  PROVE  /\ \A k : In(r, k) => In(q, k)
         /\ \A k : k # Head(q).kind => (In(r, k) <=> In(q, k))
         /\ In(q, Head(q).kind)
         /\ Promises(r) => Promises(q)
         /\ Head(q).kind = "ready" /\ Head(q).ready => Promises(q)
         /\ \A a : OneAnswer(q, a) => OneAnswer(r, a)
         /\ \A a : OneAnswer(q, a) /\ Head(q).kind = "roster" => ~In(r, "roster") /\ Head(q).snap = a
<1>1. ASSUME NEW k, In(r, k) PROVE In(q, k)
  BY <1>1, Beheaded DEF In
<1>2. ASSUME NEW k, k # Head(q).kind, In(q, k) PROVE In(r, k)
  <2>1. PICK i \in 1..Len(q) : q[i].kind = k
    BY <1>2 DEF In
  <2>2. i # 1
    BY <1>2, <2>1, Beheaded
  <2> QED BY <2>1, <2>2, Beheaded DEF In
<1>3. In(q, Head(q).kind)
  BY Beheaded DEF In
<1>4. Promises(r) => Promises(q)
  BY Beheaded DEF Promises, SaysReady
<1>5. Head(q).kind = "ready" /\ Head(q).ready => Promises(q)
  BY Beheaded DEF Promises, SaysReady
<1>6. ASSUME NEW a, OneAnswer(q, a) PROVE OneAnswer(r, a)
  <2> SUFFICES ASSUME NEW i \in 1..Len(r), r[i].kind = "roster"
               PROVE  r[i].snap = a /\ \A j \in 1..Len(r) : r[j].kind = "roster" => j = i
    BY DEF OneAnswer
  <2>1. r[i].snap = a
    BY <1>6, Beheaded DEF OneAnswer
  <2>2. ASSUME NEW j \in 1..Len(r), r[j].kind = "roster" PROVE j = i
    <3>1. i + 1 \in 1..Len(q) /\ j + 1 \in 1..Len(q) /\ r[i] = q[i + 1] /\ r[j] = q[j + 1]
      BY Beheaded
    <3>2. j + 1 = i + 1
      <4>1. q[i + 1].kind = "roster" /\ q[j + 1].kind = "roster"
        BY <2>2, <3>1
      <4> QED BY <1>6, <3>1, <4>1 DEF OneAnswer
    <3> QED BY <3>2
  <2> QED BY <2>1, <2>2
<1>7. ASSUME NEW a, OneAnswer(q, a), Head(q).kind = "roster" PROVE ~In(r, "roster") /\ Head(q).snap = a
  <2>1. 1 \in 1..Len(q) /\ q[1].kind = "roster" /\ q[1] = Head(q)
    BY <1>7, Beheaded
  <2>2. q[1].snap = a /\ \A j \in 1..Len(q) : q[j].kind = "roster" => j = 1
    BY <1>7, <2>1 DEF OneAnswer
  <2>3. ASSUME NEW i \in 1..Len(r), r[i].kind = "roster" PROVE FALSE
    <3>1. i + 1 \in 1..Len(q) /\ i + 1 # 1 /\ q[i + 1].kind = "roster"
      BY <2>3, Beheaded
    <3> QED BY <2>2, <3>1
  <2> QED BY <2>1, <2>2, <2>3 DEF In
<1> QED BY <1>1, <1>2, <1>3, <1>4, <1>5, <1>6, <1>7

\* ... and what it said of the virtual players goes to the controller.
LEMMA ReportTaken ==
  ASSUME NEW q \in Seq(Events), q # <<>>, NEW r, r = Tail(q), NEW b \in BOOLEAN, Revoked(q, b)
  PROVE  /\ Head(q).kind # "ready" => Revoked(r, b)
         /\ Head(q).kind = "ready" => Revoked(r, Head(q).ready)
<1>1. ASSUME NEW i \in 1..Len(r), SaysReady(r, i) PROVE \E j \in i + 1..Len(r) : SaysNot(r, j)
  <2>1. Len(q) \in Nat /\ Len(r) \in Nat /\ i + 1 \in 1..Len(q) /\ SaysReady(q, i + 1)
    BY <1>1, Beheaded DEF SaysReady
  <2>2. PICK j \in (i + 1) + 1..Len(q) : SaysNot(q, j)
    BY <2>1 DEF Revoked
  <2>3. j \in 1..Len(q) /\ j # 1 /\ j - 1 \in i + 1..Len(r)
    BY <2>1, <2>2, Beheaded
  <2>4. r[j - 1] = q[j]
    BY <2>3, Beheaded
  <2>5. SaysNot(r, j - 1)
    BY <2>2, <2>4 DEF SaysNot
  <2> QED BY <2>3, <2>5
<1>2. ASSUME NEW j \in 1..Len(q), SaysNot(q, j), j # 1 PROVE \E i \in 1..Len(r) : SaysNot(r, i)
  <2>1. j - 1 \in 1..Len(r) /\ r[j - 1] = q[j]
    BY <1>2, Beheaded
  <2> QED BY <1>2, <2>1 DEF SaysNot
<1>3. ASSUME Head(q).kind # "ready", b PROVE \E j \in 1..Len(r) : SaysNot(r, j)
  <2>1. PICK j \in 1..Len(q) : SaysNot(q, j)
    BY <1>3 DEF Revoked
  <2>2. j # 1
    BY <1>3, <2>1, Beheaded DEF SaysNot
  <2> QED BY <1>2, <2>1, <2>2
<1>4. ASSUME Head(q).kind = "ready", Head(q).ready PROVE \E j \in 1..Len(r) : SaysNot(r, j)
  <2>1. 1 \in 1..Len(q) /\ SaysReady(q, 1) /\ Len(q) \in Nat
    BY <1>4, Beheaded DEF SaysReady
  <2>2. PICK j \in 1 + 1..Len(q) : SaysNot(q, j)
    BY <2>1 DEF Revoked
  <2>3. j \in 1..Len(q) /\ j # 1
    BY <2>1, <2>2
  <2> QED BY <1>2, <2>2, <2>3
<1> QED BY <1>1, <1>3, <1>4 DEF Revoked

---------------------------------------------------------------------------
(* An operation of the controller.                                         *)

LEMMA NewDriverIs ==
  ASSUME NEW r, NEW order
  PROVE  LET d == NewDriver(r, order) IN
         /\ d.roster = r /\ d.cmd = order /\ ~d.released /\ d.phase = "paused" /\ d # NoDriver
BY DEF NewDriver, NoDriver

LEMMA PlanIsReal ==
  ASSUME world \in Worlds, NEW m \in Ids
  PROVE  RosterOf(m) # NoRoster
BY WorldsAreRecords DEF RosterOf

LEMMA LegacyIsReal == \A p : Legacy(p) # NoRoster
BY DEF Legacy, NoRoster

\* A new driver where nothing is left of an earlier one.
LEMMA NewSound ==
  ASSUME NEW g, NEW d, NEW q, NEW out, NEW r, Sound(g, d, q), Beside(out, g), IsNew(out, r, "arm"), r # NoRoster,
         engine.held = NoRoster, hostq = <<>>, ~In(q, "ready"), Asked /\ Due(g, q) => r = RosterOf(last) /\ g.snap # None
  PROVE  Sound(out.gc, out.driver, q)
<1>1. /\ out.driver.roster = r /\ out.driver.cmd = "arm" /\ ~out.driver.released
      /\ out.driver.phase = "paused" /\ out.driver # NoDriver
  BY NewDriverIs DEF IsNew
<1>2. Latest(out.gc, q)
  BY DEF Sound, Latest, Beside
<1>3. Tellings(out.gc, q)
  BY DEF Sound, Tellings, Beside
<1>4. Untold(out.driver, q)
  BY <1>1 DEF Untold
<1>5. Bound(out.gc, out.driver)
  BY <1>1 DEF Bound, IsNew
<1>6. Own(out.driver, q)
  BY <1>1 DEF Own
<1>7. Working(out.gc, out.driver, q)
  <2>1. ~Promises(q)
    BY DEF Promises, SaysReady, In
  <2> QED BY <1>1, <2>1 DEF Working, Reserved, Cold, Resting, Borne, IsNew
<1>8. Rested(out.gc, out.driver, q)
  BY DEF Rested, Due, Beside, IsNew
<1> QED BY <1>2, <1>3, <1>4, <1>5, <1>6, <1>7, <1>8 DEF Sound

LEMMA KeepsSound ==
  ASSUME NEW g, NEW d, NEW q, NEW out, Sound(g, d, q), Beside(out, g), Keeps(out, g, d)
  PROVE  Sound(out.gc, out.driver, q)
<1>1. Latest(out.gc, q)
  BY DEF Sound, Latest, Beside
<1>2. Tellings(out.gc, q)
  BY DEF Sound, Tellings, Beside
<1>3. Untold(out.driver, q) /\ Own(out.driver, q)
  BY DEF Sound, Keeps
<1>4. Bound(out.gc, out.driver)
  BY DEF Sound, Bound, Keeps
<1>5. Working(out.gc, out.driver, q)
  BY DEF Sound, Working, Reserved, Cold, Resting, Borne, Keeps, Beside
<1>6. Rested(out.gc, out.driver, q)
  BY DEF Sound, Rested, Due, Keeps, Beside
<1> QED BY <1>1, <1>2, <1>3, <1>4, <1>5, <1>6 DEF Sound

LEMMA DropsSound ==
  ASSUME NEW g, NEW d, NEW q, NEW out, Sound(g, d, q), d # NoDriver => d.phase # "none",
         Beside(out, g), Drops(out, g, d)
  PROVE  Sound(out.gc, out.driver, q)
<1>1. d # NoDriver
  BY DEF Sound, Bound, Drops
<1>2. out.driver.released /\ out.driver.roster = d.roster /\ out.driver # NoDriver
  BY <1>1 DEF Drops, LetsGo, NoDriver, NewDriver
<1>3. Latest(out.gc, q)
  BY DEF Sound, Latest, Beside
<1>4. Tellings(out.gc, q)
  BY DEF Sound, Tellings, Beside
<1>5. Untold(out.driver, q)
  BY <1>2 DEF Untold
<1>6. Bound(out.gc, out.driver)
  BY <1>2 DEF Bound, Drops
<1>7. Own(out.driver, q)
  BY <1>1, <1>2 DEF Sound, Own
<1>8. Working(out.gc, out.driver, q)
  BY DEF Working, Drops
<1>9. ~(Asked /\ Due(g, q))
  BY DEF Sound, Rested, Drops
<1>10. Rested(out.gc, out.driver, q)
  BY <1>9 DEF Rested, Due, Beside
<1> QED BY <1>3, <1>4, <1>5, <1>6, <1>7, <1>8, <1>10 DEF Sound

LEMMA EndsSound ==
  ASSUME NEW g, NEW d, NEW q, NEW out, Sound(g, d, q), d # NoDriver => d.phase # "none", world \in Worlds,
         Ends(out, g, d)
  PROVE  Sound(out.gc, out.driver, q)
<1>1. CASE Keeps(out, g, d)
  BY <1>1, KeepsSound DEF Ends
<1>2. CASE Drops(out, g, d)
  BY <1>2, DropsSound DEF Ends
<1>3. CASE Renews(out, g)
  <2>1. g.snap = last /\ last \in Ids /\ last # None /\ Asked /\ Due(g, q)
    BY <1>3 DEF Renews, Sound, Latest, Asked, Due, Ids, None
  <2>2. ~g.armed /\ Clean(d, q)
    BY <1>3, <2>1 DEF Renews, Sound, Rested
  <2>3. IsNew(out, RosterOf(last), "arm") /\ RosterOf(last) # NoRoster
    BY <1>3, <2>1, <2>2, PlanIsReal DEF Renews
  <2> QED BY <2>1, <2>2, <2>3, NewSound DEF Ends, Clean
<1> QED BY <1>1, <1>2, <1>3 DEF Ends

---------------------------------------------------------------------------
(* The GC thread.                                                          *)

\* Whom an operation tells of: the last match, and of one of this server if
\* there is a driver.
TellsWell(out) ==
  \A m \in out.tell : m \in Ids /\ m = last /\ out.gc.snap = last /\ (Fits(last) => out.driver # NoDriver)

LEMMA EndsTell ==
  ASSUME NEW g, NEW d, NEW q, NEW out, Sound(g, d, q), Ends(out, g, d)
  PROVE  TellsWell(out)
<1> SUFFICES ASSUME NEW m \in out.tell PROVE m \in Ids /\ m = last /\ out.gc.snap = last /\ (Fits(last) => out.driver # NoDriver)
  BY DEF TellsWell
<1>1. Keeps(out, g, d)
  BY DEF Ends, Drops, Renews, IsNew
<1>2. m = g.snap /\ m \in Ids /\ out.gc.snap = g.snap /\ g.snap = last
  BY <1>1 DEF Keeps, Ends, Beside, Sound, Latest
<1>3. Fits(last) => out.driver # NoDriver
  BY <1>1, <1>2 DEF Keeps, Sound, Bound
<1> QED BY <1>2, <1>3

LEMMA BecomesSound ==
  ASSUME TInv, NEW out, NEW q, Sound(out.gc, out.driver, q), TellsWell(out), Becomes(out), inbox' = q
  PROVE  Sound(gc, driver, inbox)'
<1>1. /\ gc' = out.gc /\ driver' = out.driver
      /\ match' = match /\ last' = last /\ told' = told /\ key' = key /\ hostq' = hostq /\ engine' = engine
      /\ world' = world
  BY DEF Becomes, backend, outside
<1>2. \A m \in Ids : confirms'[m] = IF m \in out.tell /\ confirms[m] = 0 THEN 1 ELSE confirms[m]
  BY DEF Becomes
<1>3. Latest(gc, inbox)' /\ Bound(gc, driver)' /\ Own(driver, inbox)' /\ Working(gc, driver, inbox)'
  BY <1>1 DEF Sound, Latest, Bound, Own, Working, Reserved, Cold, Resting, Borne
<1>4. Rested(gc, driver, inbox)'
  BY <1>1 DEF Sound, Rested, Clean, Due, Asked, Fits, RosterOf
<1>5. Tellings(gc, inbox)'
  <2>1. ASSUME NEW m \in Ids, confirms'[m] > 0 PROVE m <= last
    <3>1. CASE m \in out.tell
      BY <3>1 DEF TellsWell, TInv, BackendOK, Ids
    <3>2. CASE m \notin out.tell
      BY <1>2, <2>1, <3>2 DEF Sound, Tellings
    <3> QED BY <3>1, <3>2
  <2>2. ASSUME out.gc.snap = Unknown, NEW m \in Ids PROVE confirms'[m] = 0
    <3>1. m \notin out.tell
      BY <2>2 DEF TellsWell, Unknown, Ids
    <3> QED BY <1>2, <2>2, <3>1 DEF Sound, Tellings
  <2> QED BY <1>1, <2>1, <2>2 DEF Sound, Tellings
<1>6. Untold(driver, inbox)'
  <2> SUFFICES ASSUME Asked, out.driver = NoDriver PROVE last \notin told /\ confirms'[last] = 0 /\ ~In(q, "seen")
    BY <1>1 DEF Untold, Asked, Fits
  <2>1. last \notin out.tell
    BY DEF TellsWell, Asked
  <2> QED BY <1>2, <2>1 DEF Sound, Untold, Asked
<1> QED BY <1>3, <1>4, <1>5, <1>6 DEF Sound

\* An event is handled: what the controller is to make something of.
LEMMA TakenSound ==
  ASSUME TInv, Sound(gc, driver, inbox), inbox # <<>>, NEW q, q = Tail(inbox), NEW g, NEW d,
         g.armed = gc.armed, g.roster = gc.roster, g.pending = gc.pending,
         g.snap = IF Head(inbox).kind = "roster" THEN Head(inbox).snap ELSE gc.snap,
         g.ready = IF Head(inbox).kind = "ready" THEN Head(inbox).ready ELSE gc.ready,
         d.roster = driver.roster, d.phase = driver.phase, d.released = driver.released, d.popup = driver.popup,
         d = NoDriver <=> driver = NoDriver,
         gc.armed => d.cmd # "release" /\ Resting(g, d),
         ~gc.armed /\ driver.cmd \in {"none", "pause"} => d.cmd \in {"none", "pause"}
  PROVE  Sound(g, d, q)
<1>1. inbox \in Seq(Events) /\ Head(inbox) \in Events
  BY DEF TInv, QueueOK
<1>2. /\ \A k : In(q, k) => In(inbox, k)
      /\ \A k : k # Head(inbox).kind => (In(q, k) <=> In(inbox, k))
      /\ In(inbox, Head(inbox).kind)
      /\ Promises(q) => Promises(inbox)
      /\ Head(inbox).kind = "ready" /\ Head(inbox).ready => Promises(inbox)
      /\ OneAnswer(inbox, key) => OneAnswer(q, key)
      /\ OneAnswer(inbox, key) /\ Head(inbox).kind = "roster" => ~In(q, "roster") /\ Head(inbox).snap = key
  BY <1>1, HeadTaken
<1>3. Head(inbox).kind = "roster" => Head(inbox).snap # Unknown
  BY <1>1, EventFields DEF Ids, None, Down, Unknown
<1>4. Latest(g, q)
  BY <1>2 DEF Sound, Latest
<1>5. Tellings(g, q)
  BY <1>2, <1>3 DEF Sound, Tellings
<1>6. Untold(d, q)
  BY <1>2 DEF Sound, Untold
<1>7. Bound(g, d)
  BY DEF Sound, Bound
<1>8. Own(d, q)
  BY <1>2 DEF Sound, Own
<1>9. Working(g, d, q)
  <2> SUFFICES ASSUME gc.armed PROVE Reserved(d) /\ Cold(g, d, q) /\ Resting(g, d) /\ Borne(g, q)
    BY DEF Working
  <2>1. Reserved(d)
    BY DEF Sound, Working, Reserved
  <2>2. Cold(g, d, q)
    <3>1. gc.ready \in BOOLEAN
      BY DEF TInv, GCs
    <3> QED BY <1>1, <3>1, ReportTaken DEF Sound, Working, Cold
  <2>3. Borne(g, q)
    BY <1>2 DEF Sound, Working, Borne
  <2> QED BY <2>1, <2>2, <2>3
<1>10. Rested(g, d, q)
  <2> SUFFICES ASSUME Asked, Due(g, q) PROVE (~g.armed => Clean(d, q)) /\ (g.armed => g.roster = RosterOf(last) /\ g.snap # None)
    BY DEF Rested
  <2>1. last # None
    BY DEF Asked, Ids, None
  <2>2. Due(gc, inbox)
    BY <1>2 DEF Due, Sound, Latest
  <2>3. ~g.armed => Clean(d, q)
    BY <1>2, <2>2 DEF Sound, Rested, Clean
  <2>4. g.armed => g.roster = RosterOf(last)
    BY <2>2 DEF Sound, Rested
  <2>5. g.armed => g.snap # None
    <3>1. CASE Head(inbox).kind = "roster"
      BY <1>2, <2>1, <3>1 DEF Due, Sound, Latest
    <3>2. CASE Head(inbox).kind # "roster"
      BY <2>2, <3>2 DEF Sound, Rested
    <3> QED BY <3>1, <3>2
  <2> QED BY <2>3, <2>4, <2>5
<1> QED BY <1>4, <1>5, <1>6, <1>7, <1>8, <1>9, <1>10 DEF Sound

\* What a handler gives the controller: the controller before it, the driver, and
\* what it makes of them.
Turns(g, d, out) ==
  /\ g \in GCs /\ DriverOK(d) /\ Sound(g, d, Tail(inbox))
  /\ Ends(out, g, d) /\ Becomes(out)

LEMMA RosterTurns ==
  ASSUME TInv, Sound(gc, driver, inbox), HandleRoster
  PROVE  \E g, d, out : Turns(g, d, out)
<1>1. PICK g : g = [gc EXCEPT !.snap = Head(inbox).snap]
  OBVIOUS
<1>2. inbox # <<>> /\ Head(inbox).kind = "roster" /\ Head(inbox).snap \in Ids \cup {None, Down}
  BY HandledOK, EventFields DEF HandleRoster, TInv, Next1
<1>3. /\ g \in GCs /\ g.snap = Head(inbox).snap /\ g.armed = gc.armed /\ g.roster = gc.roster
      /\ g.pending = gc.pending /\ g.ready = gc.ready /\ g.inside = gc.inside
  BY <1>1, <1>2 DEF TInv, GCs
<1>4. Sound(g, driver, Tail(inbox))
  <2>1. gc.armed => driver.cmd # "release" /\ Resting(g, driver)
    BY <1>3 DEF Sound, Bound, Working, Resting
  <2> QED BY <1>2, <1>3, <2>1, TakenSound
<1>5. PICK out : out = Apply(g, driver)
  OBVIOUS
<1>6. Ends(out, g, driver)
  BY <1>3, <1>5, ApplyEnds DEF TInv
<1>7. out.gc.pending = NoPlayer
  BY <1>3, <1>6 DEF Ends, Beside, Sound, Tellings
<1>8. Becomes(out)
  BY <1>1, <1>5, <1>7 DEF HandleRoster
<1> QED BY <1>3, <1>4, <1>6, <1>8 DEF Turns, TInv

LEMMA ReadyTurns ==
  ASSUME TInv, Sound(gc, driver, inbox), HandleReady
  PROVE  \E g, d, out : Turns(g, d, out)
<1>1. PICK g : g = [gc EXCEPT !.ready = Head(inbox).ready]
  OBVIOUS
<1>2. inbox # <<>> /\ Head(inbox).kind = "ready" /\ Head(inbox).ready \in BOOLEAN
  BY HandledOK, EventFields DEF HandleReady, TInv, Next1
<1>3. /\ g \in GCs /\ g.snap = gc.snap /\ g.armed = gc.armed /\ g.roster = gc.roster
      /\ g.pending = gc.pending /\ g.ready = Head(inbox).ready /\ g.inside = gc.inside
  BY <1>1, <1>2 DEF TInv, GCs
<1>4. Sound(g, driver, Tail(inbox))
  <2>1. gc.armed => driver.cmd # "release" /\ Resting(g, driver)
    BY <1>3 DEF Sound, Bound, Working, Resting
  <2> QED BY <1>2, <1>3, <2>1, TakenSound
<1>5. PICK out : out = ConfirmIfReady(g, driver)
  OBVIOUS
<1>6. Ends(out, g, driver)
  BY <1>3, <1>5, ConfirmEnds DEF Ends
<1>7. Becomes(out)
  BY <1>1, <1>5 DEF HandleReady
<1> QED BY <1>3, <1>4, <1>6, <1>7 DEF Turns, TInv

LEMMA NetTurns ==
  ASSUME TInv, Sound(gc, driver, inbox), HandleNet
  PROVE  \E g, d, out : Turns(g, d, out)
<1>1. PICK p : p = Head(inbox).player
  OBVIOUS
<1>2. inbox # <<>> /\ Head(inbox).kind = "net" /\ p \in Players
  BY <1>1, HandledOK, EventFields DEF HandleNet, TInv, Next1
<1>3. PICK g : g = IF driver = NoDriver THEN gc ELSE [gc EXCEPT !.inside = @ \cup {p}]
  OBVIOUS
<1>4. PICK d : d = IF driver # NoDriver /\ gc.inside = {} THEN [driver EXCEPT !.cmd = "pause"] ELSE driver
  OBVIOUS
<1>5. /\ g \in GCs /\ g.snap = gc.snap /\ g.armed = gc.armed /\ g.roster = gc.roster
      /\ g.pending = gc.pending /\ g.ready = gc.ready
      /\ driver # NoDriver => g.inside = gc.inside \cup {p}
  BY <1>2, <1>3 DEF TInv, GCs
<1>6. /\ d \in Drivers /\ d.roster = driver.roster /\ d.phase = driver.phase /\ d.released = driver.released
      /\ d.popup = driver.popup
      /\ d.cmd = IF driver # NoDriver /\ gc.inside = {} THEN "pause" ELSE driver.cmd
      /\ driver = NoDriver => d = driver
  BY <1>4 DEF TInv, DriverOK, Drivers
<1>7. (d = NoDriver <=> driver = NoDriver) /\ DriverOK(d)
  <2>1. driver # NoDriver => driver.phase # "none" /\ d.phase # "none"
    BY <1>6 DEF TInv, DriverOK
  <2>2. d.phase # "none" => d # NoDriver
    BY DEF NoDriver, NewDriver
  <2> QED BY <1>6, <2>1, <2>2 DEF DriverOK, TInv
<1>8. Sound(g, d, Tail(inbox))
  <2>1. gc.armed => d.cmd # "release" /\ Resting(g, d)
    <3>1. gc.armed => driver # NoDriver /\ driver.cmd # "release"
      BY DEF Sound, Bound
    <3>2. driver # NoDriver => g.inside # {}
      BY <1>5
    <3> QED BY <1>6, <3>1, <3>2 DEF Resting
  <2> QED BY <1>2, <1>5, <1>6, <1>7, <2>1, TakenSound
<1>9. PICK out : out = Out(g, d, {})
  OBVIOUS
<1>10. Ends(out, g, d)
  BY <1>9, OutIs DEF Ends, Beside, Keeps
<1>11. Becomes(out)
  BY <1>1, <1>3, <1>4, <1>9 DEF HandleNet
<1> QED BY <1>5, <1>7, <1>8, <1>10, <1>11 DEF Turns

LEMMA LeftTurns ==
  ASSUME TInv, Sound(gc, driver, inbox), HandleLeft
  PROVE  \E g, d, out : Turns(g, d, out)
<1>1. PICK p : p = Head(inbox).player
  OBVIOUS
<1>2. inbox # <<>> /\ Head(inbox).kind = "left" /\ p \in Players
  BY <1>1, HandledOK, EventFields DEF HandleLeft, TInv, Next1
<1>3. PICK g : g = [gc EXCEPT !.inside = @ \ {p}]
  OBVIOUS
<1>4. PICK over : over = (gc.inside # {} /\ g.inside = {} /\ driver # NoDriver /\ ~driver.released)
  OBVIOUS
<1>5. PICK d : d = IF over THEN [driver EXCEPT !.cmd = "rearm"] ELSE driver
  OBVIOUS
<1>6. /\ g \in GCs /\ g.snap = gc.snap /\ g.armed = gc.armed /\ g.roster = gc.roster
      /\ g.pending = gc.pending /\ g.ready = gc.ready /\ g.inside = gc.inside \ {p}
  BY <1>2, <1>3 DEF TInv, GCs
<1>7. /\ d \in Drivers /\ d.roster = driver.roster /\ d.phase = driver.phase /\ d.released = driver.released
      /\ d.popup = driver.popup /\ d.cmd = IF over THEN "rearm" ELSE driver.cmd
      /\ driver = NoDriver => d = driver
  BY <1>4, <1>5 DEF TInv, DriverOK, Drivers
<1>8. (d = NoDriver <=> driver = NoDriver) /\ DriverOK(d)
  <2>1. driver # NoDriver => driver.phase # "none" /\ d.phase # "none"
    BY <1>7 DEF TInv, DriverOK
  <2>2. d.phase # "none" => d # NoDriver
    BY DEF NoDriver, NewDriver
  <2> QED BY <1>7, <2>1, <2>2 DEF DriverOK, TInv
<1>9. Sound(g, d, Tail(inbox))
  <2>1. gc.armed => d.cmd # "release" /\ Resting(g, d)
    <3> SUFFICES ASSUME gc.armed PROVE d.cmd # "release" /\ Resting(g, d)
      OBVIOUS
    <3>1. driver # NoDriver /\ driver.cmd # "release" /\ ~driver.released /\ Resting(gc, driver)
      BY DEF Sound, Bound, Working
    <3>2. CASE over
      BY <1>7, <3>2 DEF Resting
    <3>3. CASE ~over /\ gc.inside = {}
      BY <1>6, <1>7, <3>1, <3>3 DEF Resting
    <3>4. CASE ~over /\ g.inside # {}
      BY <1>7, <3>1, <3>4 DEF Resting
    <3> QED BY <1>4, <3>1, <3>2, <3>3, <3>4
  <2>2. ~gc.armed => ~over
    BY <1>4 DEF Sound, Bound
  <2> QED BY <1>2, <1>6, <1>7, <1>8, <2>1, <2>2, TakenSound
<1>10. PICK out : out = IF g.inside = {} THEN Apply(g, d) ELSE Out(g, d, {})
  OBVIOUS
<1>11. Ends(out, g, d)
  <2>1. CASE g.inside = {}
    BY <1>6, <1>8, <1>10, <2>1, ApplyEnds
  <2>2. CASE g.inside # {}
    BY <1>10, <2>2, OutIs DEF Ends, Beside, Keeps
  <2> QED BY <2>1, <2>2
<1>12. Becomes(out)
  <2>1. d = IF (gc.inside # {} /\ g.inside = {}) /\ driver # NoDriver /\ ~driver.released
              THEN [driver EXCEPT !.cmd = "rearm"] ELSE driver
    BY <1>4, <1>5
  <2> QED BY <1>1, <1>3, <1>10, <2>1 DEF HandleLeft
<1> QED BY <1>6, <1>8, <1>9, <1>11, <1>12 DEF Turns

LEMMA TurnsSound ==
  ASSUME TInv, NEW g, NEW d, NEW out, Turns(g, d, out), inbox' = Tail(inbox)
  PROVE  Sound(gc, driver, inbox)'
<1>1. PICK q : q = Tail(inbox)
  OBVIOUS
<1>2. Sound(out.gc, out.driver, q) /\ TellsWell(out)
  BY <1>1, EndsSound, EndsTell DEF Turns, DriverOK, TInv, OutsideOK
<1> QED BY <1>1, <1>2, BecomesSound DEF Turns

LEMMA UncommonHead ==
  ASSUME TInv, Sound(gc, driver, inbox), inbox # <<>>, Head(inbox).kind \notin {"roster", "ready"}
  PROVE  Sound(gc, driver, Tail(inbox))
<1>1. gc.armed => driver.cmd # "release" /\ Resting(gc, driver)
  BY DEF Sound, Bound, Working
<1> QED BY <1>1, TakenSound

\* A player is seen: with a match of this server there is a driver by then.
LEMMA HandleSeenSound ==
  ASSUME TInv, Sound(gc, driver, inbox), HandleSeen
  PROVE  Sound(gc, driver, inbox)'
<1>1. PICK p, q, out : p = Head(inbox).player /\ q = Tail(inbox) /\ out = RealPlayerSeen(gc, driver, p)
  OBVIOUS
<1>2. inbox # <<>> /\ inbox \in Seq(Events) /\ Head(inbox).kind = "seen" /\ p \in Players /\ inbox' = q
  BY <1>1, HandledOK, EventFields DEF HandleSeen, TInv, Next1, QueueOK
<1>3. Sound(gc, driver, q)
  BY <1>1, <1>2, UncommonHead
<1>4. In(inbox, "seen") /\ (In(q, "ready") => In(inbox, "ready"))
  BY <1>1, <1>2, HeadTaken
<1>5. gc.snap # Unknown
  BY <1>4 DEF Sound, Tellings
<1>6. Beside(out, gc) /\ (Keeps(out, gc, driver) \/ Fallback(out, driver))
  BY <1>1, <1>2, <1>5, SeenEnds DEF TInv
<1>7. Becomes(out)
  BY <1>1 DEF HandleSeen
<1>8. CASE Keeps(out, gc, driver)
  <2>1. Ends(out, gc, driver)
    BY <1>6, <1>8 DEF Ends
  <2>2. Turns(gc, driver, out)
    BY <1>1, <1>3, <1>7, <2>1 DEF Turns, TInv
  <2> QED BY <1>1, <1>2, <2>2, TurnsSound
<1>9. CASE Fallback(out, driver)
  <2>1. PICK r : IsNew(out, r, "arm") /\ r # NoRoster
    BY <1>9, LegacyIsReal DEF Fallback
  <2>2. driver = NoDriver /\ engine.held = NoRoster /\ hostq = <<>> /\ ~In(q, "ready") /\ ~Asked
    BY <1>4, <1>9 DEF Fallback, Sound, Own, Untold
  <2>3. Sound(out.gc, out.driver, q)
    BY <1>3, <1>6, <2>1, <2>2, NewSound
  <2>4. TellsWell(out)
    BY <2>1 DEF IsNew, TellsWell
  <2> QED BY <1>2, <1>7, <2>3, <2>4, BecomesSound
<1> QED BY <1>6, <1>8, <1>9

\* What the players have equipped is no business of the driver.
LEMMA DressesSound ==
  ASSUME TInv, Sound(gc, driver, inbox), HandleSkins \/ HandleEquipment \/ HandleAuthenticated
  PROVE  Sound(gc, driver, inbox)'
<1>1. PICK q : q = Tail(inbox)
  OBVIOUS
<1>2. inbox # <<>> /\ Head(inbox).kind \notin {"roster", "ready"} /\ inbox' = q
  BY <1>1 DEF HandleSkins, HandleEquipment, HandleAuthenticated, Next1
<1>3. Sound(gc, driver, q)
  BY <1>1, <1>2, UncommonHead
<1>4. UNCHANGED <<backend, poller, gc, driver, hostq, outside>>
  BY DEF HandleSkins, HandleEquipment, HandleAuthenticated, Dresses
<1>5. UNCHANGED <<match, last, told, key, confirms, gc, driver, hostq, engine, world>>
  BY <1>4 DEF backend, poller, outside
<1> QED BY <1>2, <1>3, <1>5
        DEF Sound, Latest, Tellings, Untold, Bound, Own, Working, Reserved, Cold, Resting, Borne, Rested, Clean,
            Due, Asked, Fits, RosterOf

LEMMA GCThreadSound ==
  ASSUME TInv, Sound(gc, driver, inbox), GCThread
  PROVE  Sound(gc, driver, inbox)'
<1>1. CASE HandleRoster \/ HandleReady \/ HandleNet \/ HandleLeft
  <2>1. inbox' = Tail(inbox)
    BY <1>1 DEF HandleRoster, HandleReady, HandleNet, HandleLeft, Next1
  <2>2. \E g, d, out : Turns(g, d, out)
    BY <1>1, RosterTurns, ReadyTurns, NetTurns, LeftTurns
  <2> QED BY <2>1, <2>2, TurnsSound
<1> QED BY <1>1, HandleSeenSound, DressesSound DEF GCThread

---------------------------------------------------------------------------
(* The others.                                                             *)

\* All but the queue.
Concern == <<match, last, told, key, confirms, gc, driver, hostq, engine, world>>

\* Events that are no business of the driver, or none, are put in the queue.
LEMMA QueueSound ==
  ASSUME TInv, Sound(gc, driver, inbox), UNCHANGED Concern,
         SameAnswer(inbox, inbox'), SameReports(inbox, inbox'), SameSeen(inbox, inbox')
  PROVE  Sound(gc, driver, inbox)'
<1>1. /\ match' = match /\ last' = last /\ told' = told /\ key' = key /\ confirms' = confirms /\ gc' = gc
      /\ driver' = driver /\ hostq' = hostq /\ engine' = engine /\ world' = world
  BY DEF Concern
<1>2. Latest(gc, inbox)'
  BY <1>1 DEF Sound, Latest, SameAnswer
<1>3. Tellings(gc, inbox)'
  BY <1>1 DEF Sound, Tellings, SameSeen
<1>4. Untold(driver, inbox)'
  BY <1>1 DEF Sound, Untold, SameSeen, Asked, Fits
<1>5. Bound(gc, driver)'
  BY <1>1 DEF Sound, Bound
<1>6. Own(driver, inbox)'
  BY <1>1 DEF Sound, Own, SameReports
<1>7. Working(gc, driver, inbox)'
  <2>1. gc.ready \in BOOLEAN
    BY DEF TInv, GCs
  <2>2. Working(gc, driver, inbox)
    BY DEF Sound
  <2> QED BY <1>1, <2>1, <2>2 DEF Working, Reserved, Cold, Resting, Borne, SameReports, StillRevoked
<1>8. Rested(gc, driver, inbox)'
  BY <1>1 DEF Sound, Rested, Clean, Due, Asked, Fits, RosterOf, SameAnswer, SameReports
<1> QED BY <1>2, <1>3, <1>4, <1>5, <1>6, <1>7, <1>8 DEF Sound

LEMMA AloneSound == TInv /\ Sound(gc, driver, inbox) /\ UNCHANGED <<Concern, inbox>> => Sound(gc, driver, inbox)'
<1> SUFFICES ASSUME TInv, Sound(gc, driver, inbox), UNCHANGED <<Concern, inbox>> PROVE Sound(gc, driver, inbox)'
  OBVIOUS
<1>1. SameAnswer(inbox, inbox') /\ SameReports(inbox, inbox') /\ SameSeen(inbox, inbox')
  BY DEF SameAnswer, SameReports, SameSeen, StillRevoked
<1> QED BY <1>1, QueueSound

LEMMA PostedSound ==
  ASSUME TInv, Sound(gc, driver, inbox), UNCHANGED Concern, NEW es \in Seq(Events), PostAll(es),
         \A i \in 1..Len(es) : es[i].kind \notin {"roster", "ready", "seen"}
  PROVE  Sound(gc, driver, inbox)'
<1>1. inbox' = inbox \o es /\ inbox \in Seq(Events)
  BY DEF PostAll, TInv, QueueOK
<1>2. SameAnswer(inbox, inbox') /\ SameReports(inbox, inbox') /\ SameSeen(inbox, inbox')
  BY <1>1, OthersAdded DEF SameSeen
<1> QED BY <1>2, QueueSound

\* A player who comes, goes or says that he is there.
LEMMA GuestsSound ==
  ASSUME TInv, Sound(gc, driver, inbox), NEW p \in Players, Enter(p) \/ Greet(p) \/ Leave(p)
  PROVE  Sound(gc, driver, inbox)'
<1>1. UNCHANGED Concern
  BY DEF Enter, Greet, Leave, Concern, backend, poller, outside
<1>2. PICK a, n, l : a = [kind |-> "auth", player |-> p] /\ n = [kind |-> "net", player |-> p] /\ l = [kind |-> "left", player |-> p]
  OBVIOUS
<1>3. a \in Events /\ n \in Events /\ l \in Events /\ a.kind = "auth" /\ n.kind = "net" /\ l.kind = "left"
  BY <1>2, EventsAre
<1>4. \E es \in Seq(Events) : PostAll(es) /\ \A i \in 1..Len(es) : es[i].kind \notin {"roster", "ready", "seen"}
  <2> DEFINE Fine(es) == es \in Seq(Events) /\ \A i \in 1..Len(es) : es[i].kind \notin {"roster", "ready", "seen"}
  <2>1. Fine(<<a>>) /\ Fine(<<n>>) /\ Fine(<<l>>)
    BY <1>3, OneAndTwo
  <2>2. Fine(<<a>> \o <<n>>)
    BY <1>3, OneAndTwo
  <2>3. Fine(<<>>) /\ <<>> \o <<>> = <<>> /\ <<>> \o <<n>> = <<n>> /\ <<a>> \o <<>> = <<a>>
    <3>1. <<>> \in Seq(Events) /\ Len(<<>>) = 0
      OBVIOUS
    <3>2. <<a>> \o <<>> = <<a>> /\ <<>> \o <<n>> = <<n>>
      BY <1>3
    <3> QED BY <3>1, <3>2
  <2>4. CASE Enter(p)
    <3>1. \E x \in {<<>>, <<a>>}, y \in {<<>>, <<n>>} : PostAll(x \o y)
      BY <1>2, <2>4 DEF Enter
    <3>2. PICK es : PostAll(es) /\ es \in {<<>>, <<a>>, <<n>>, <<a>> \o <<n>>}
      BY <2>3, <3>1
    <3> HIDE DEF Fine
    <3>3. Fine(es)
      BY <2>1, <2>2, <2>3, <3>2
    <3> QED BY <3>2, <3>3 DEF Fine
  <2>5. CASE Greet(p)
    <3>1. PostAll(<<n>>)
      BY <1>2, <2>5 DEF Greet, Post
    <3> QED BY <2>1, <3>1
  <2>6. CASE Leave(p)
    <3>1. PostAll(<<l>>)
      BY <1>2, <2>6 DEF Leave, Post
    <3> QED BY <2>1, <3>1
  <2> QED BY <2>4, <2>5, <2>6
<1> QED BY <1>1, <1>4, PostedSound

\* A player is seen, on a server that was given to him.
LEMMA SniffSound ==
  ASSUME TInv, Calmly, Sound(gc, driver, inbox), NEW p \in Players, Sniff(p)
  PROVE  Sound(gc, driver, inbox)'
<1>1. /\ match' = match /\ last' = last /\ told' = told /\ key' = key /\ confirms' = confirms /\ gc' = gc
      /\ driver' = driver /\ hostq' = hostq /\ engine' = engine /\ world' = world
  BY DEF Sniff, backend, poller
<1>2. match \in told /\ match # None
  BY DEF Calmly, Sniff, TInv, BackendOK, None
<1>3. gc.snap # Unknown /\ ~(Asked /\ driver = NoDriver)
  BY <1>2 DEF Sound, Latest, Tellings, Untold
<1>4. PICK e : e = [kind |-> "seen", player |-> p]
  OBVIOUS
<1>5. e \in Events /\ e.kind = "seen" /\ inbox' = inbox \o <<e>> /\ inbox \in Seq(Events)
  BY <1>4, EventsAre DEF Sniff, Post, PostAll, TInv, QueueOK
<1>6. <<e>> \in Seq(Events) /\ \A i \in 1..Len(<<e>>) : <<e>>[i].kind = "seen"
  BY <1>5, OneAndTwo
<1>7. SameAnswer(inbox, inbox') /\ SameReports(inbox, inbox')
  BY <1>5, <1>6, OthersAdded
<1>8. Latest(gc, inbox)' /\ Bound(gc, driver)' /\ Own(driver, inbox)'
  BY <1>1, <1>7 DEF Sound, Latest, Bound, Own, SameAnswer, SameReports
<1>9. Tellings(gc, inbox)' /\ Untold(driver, inbox)'
  BY <1>1, <1>3 DEF Sound, Tellings, Untold, Asked, Fits
<1>10. Working(gc, driver, inbox)'
  <2>1. gc.ready \in BOOLEAN
    BY DEF TInv, GCs
  <2>2. Working(gc, driver, inbox)
    BY DEF Sound
  <2> QED BY <1>1, <1>7, <2>1, <2>2 DEF Working, Reserved, Cold, Resting, Borne, SameReports, StillRevoked
<1>11. Rested(gc, driver, inbox)'
  BY <1>1, <1>7 DEF Sound, Rested, Clean, Due, Asked, Fits, RosterOf, SameAnswer, SameReports
<1> QED BY <1>8, <1>9, <1>10, <1>11 DEF Sound

\* A match comes to a server at rest.
LEMMA NewMatchSound ==
  ASSUME TInv, Calmly, Sound(gc, driver, inbox), NEW m \in Ids, NewMatch(m)
  PROVE  Sound(gc, driver, inbox)'
<1>1. /\ match' = m /\ last' = m /\ m = last + 1 /\ told' = told /\ key' = key /\ confirms' = confirms /\ gc' = gc
      /\ driver' = driver /\ hostq' = hostq /\ engine' = engine /\ world' = world /\ inbox' = inbox
  BY DEF NewMatch, poller, outside
<1>2. /\ inbox = <<>> /\ hostq = <<>> /\ driver.cmd = "none" /\ key \notin Ids /\ ~gc.armed
      /\ driver.phase \in {"none", "paused"} /\ engine.held = NoRoster
  BY DEF Calmly, NewMatch, AtRest, Settled, Prompt
<1>3. \A k : ~In(inbox, k)
  BY <1>2 DEF In
<1>4. Latest(gc, inbox)'
  BY <1>1, <1>2, <1>3 DEF Sound, Latest
<1>5. \A i \in Ids : confirms[i] > 0 => i # m /\ i <= m
  <2>1. last \in Nat /\ m \in Nat
    BY DEF TInv, BackendOK, Ids
  <2> QED BY <1>1, <2>1 DEF Sound, Tellings, Ids
<1>6. Tellings(gc, inbox)'
  BY <1>1, <1>5 DEF Sound, Tellings
<1>7. Untold(driver, inbox)'
  <2>1. confirms[m] = 0
    BY <1>5 DEF TInv, PollerOK
  <2>2. m \notin told
    BY <1>1 DEF TInv, BackendOK
  <2> QED BY <1>1, <1>3, <2>1, <2>2 DEF Untold
<1>8. Bound(gc, driver)' /\ Own(driver, inbox)' /\ Working(gc, driver, inbox)'
  BY <1>1, <1>2 DEF Sound, Bound, Own, Working
<1>9. Rested(gc, driver, inbox)'
  BY <1>1, <1>2, <1>3 DEF Rested, Clean
<1> QED BY <1>4, <1>6, <1>7, <1>8, <1>9 DEF Sound

LEMMA EndMatchSound ==
  ASSUME TInv, Sound(gc, driver, inbox), EndMatch
  PROVE  Sound(gc, driver, inbox)'
<1>1. /\ match' = None /\ last' = last /\ told' = told /\ key' = key /\ confirms' = confirms /\ gc' = gc
      /\ driver' = driver /\ hostq' = hostq /\ engine' = engine /\ world' = world /\ inbox' = inbox
  BY DEF EndMatch, poller, outside
<1>2. Latest(gc, inbox)' /\ Tellings(gc, inbox)'
  BY <1>1 DEF Sound, Latest, Tellings
<1>3. Untold(driver, inbox)' /\ Bound(gc, driver)' /\ Own(driver, inbox)'
  BY <1>1 DEF Sound, Untold, Bound, Own, Asked, Fits
<1>4. Working(gc, driver, inbox)'
  BY <1>1 DEF Sound, Working, Reserved, Cold, Resting, Borne
<1>5. Rested(gc, driver, inbox)'
  <2>1. Asked => last # None
    BY DEF Asked, Ids, None
  <2> QED BY <1>1, <2>1 DEF Sound, Rested, Clean, Due, Asked, Fits, RosterOf
<1> QED BY <1>2, <1>3, <1>4, <1>5 DEF Sound

LEMMA DeliverSound ==
  ASSUME TInv, Sound(gc, driver, inbox), NEW m \in Ids, Deliver(m)
  PROVE  Sound(gc, driver, inbox)'
<1>1. /\ match' = match /\ last' = last /\ key' = key /\ gc' = gc
      /\ driver' = driver /\ hostq' = hostq /\ engine' = engine /\ world' = world /\ inbox' = inbox
  BY DEF Deliver, outside
<1>2. /\ confirms[m] > 0 /\ told' \subseteq told \cup {m}
      /\ \A i \in Ids : i # m => confirms'[i] = confirms[i]
  BY DEF Deliver, TInv, PollerOK
<1>3. Latest(gc, inbox)' /\ Bound(gc, driver)' /\ Own(driver, inbox)'
  BY <1>1 DEF Sound, Latest, Bound, Own
<1>4. Tellings(gc, inbox)'
  BY <1>1, <1>2 DEF Sound, Tellings
<1>5. Untold(driver, inbox)'
  <2> SUFFICES ASSUME Asked, driver = NoDriver PROVE last \notin told' /\ confirms'[last] = 0 /\ ~In(inbox, "seen")
    BY <1>1 DEF Untold, Asked, Fits
  <2> QED BY <1>2 DEF Sound, Untold, Asked
<1>6. Working(gc, driver, inbox)'
  BY <1>1 DEF Sound, Working, Reserved, Cold, Resting, Borne
<1>7. Rested(gc, driver, inbox)'
  BY <1>1 DEF Sound, Rested, Clean, Due, Asked, Fits, RosterOf
<1> QED BY <1>3, <1>4, <1>5, <1>6, <1>7 DEF Sound

\* What a poll puts in the queue, besides word of the snapshots: the answer, if it
\* is another.
LEMMA PollAnswers ==
  ASSUME TInv, NEW answer \in Ids \cup {None, Down}, Poll(answer)
  PROVE  /\ SameReports(inbox, inbox') /\ SameSeen(inbox, inbox')
         /\ OneAnswer(inbox', answer) /\ (In(inbox', "roster") <=> answer # key) /\ ~In(inbox, "roster")
<1>1. PICK snaps, answers :
        /\ snaps = EventsOf(News(answer))
        /\ answers = IF answer = key THEN <<>> ELSE <<[kind |-> "roster", snap |-> answer]>>
  OBVIOUS
<1>2. inbox \in Seq(Events) /\ inbox' = inbox \o (snaps \o answers)
  BY <1>1 DEF Poll, PostAll, TInv, QueueOK
<1>3. ~In(inbox, "roster")
  <2>1. \A i \in 1..Len(inbox) : inbox[i] \in Range(inbox)
    BY DEF Range, TInv, QueueOK
  <2> QED BY <2>1 DEF In, Poll
<1>4. snaps \in Seq(Events) /\ Len(snaps) \in Nat /\ \A i \in 1..Len(snaps) : snaps[i].kind \in Kinds
  <2>1. PICK s, w : s = [kind |-> "skins"] /\ w = [kind |-> "equipment"]
    OBVIOUS
  <2>2. s \in Events /\ w \in Events /\ s.kind \in Kinds /\ w.kind \in Kinds
    BY <2>1, EventsAre DEF Kinds
  <2>3. snaps \in {<<>>, <<s>>, <<w>>}
    BY <1>1, <2>1 DEF EventsOf
  <2>4. CASE snaps = <<>>
    BY <2>4
  <2>5. CASE snaps = <<s>>
    BY <2>2, <2>5, OneAndTwo
  <2>6. CASE snaps = <<w>>
    BY <2>2, <2>6, OneAndTwo
  <2> QED BY <2>3, <2>4, <2>5, <2>6
<1>5. PICK e : e = [kind |-> "roster", snap |-> answer]
  OBVIOUS
<1>6. e \in Events /\ e.kind = "roster" /\ e.snap = answer
  BY <1>5, EventsAre
<1>7. /\ answers \in Seq(Events) /\ Len(answers) = IF answer = key THEN 0 ELSE 1
      /\ \A i \in 1..Len(answers) : answers[i] = e
  <2>1. CASE answer = key
    BY <1>1, <2>1
  <2>2. CASE answer # key
    BY <1>1, <1>5, <1>6, <2>2, OneAndTwo
  <2> QED BY <2>1, <2>2
<1>8. PICK es : es = snaps \o answers
  OBVIOUS
<1>9. /\ es \in Seq(Events) /\ Len(es) = Len(snaps) + Len(answers) /\ Len(es) \in Nat
      /\ \A i \in 1..Len(snaps) : es[i] = snaps[i]
      /\ \A i \in 1..Len(es) : i \notin 1..Len(snaps) => i - Len(snaps) \in 1..Len(answers) /\ es[i] = answers[i - Len(snaps)]
  BY <1>4, <1>7, <1>8, Joined
<1>10. ASSUME NEW i \in 1..Len(es)
       PROVE  /\ es[i].kind \notin {"ready", "seen"}
              /\ es[i].kind = "roster" => es[i] = e /\ i = Len(es) /\ answer # key
  <2>1. CASE i \in 1..Len(snaps)
    BY <1>4, <1>9, <2>1 DEF Kinds
  <2>2. CASE i \notin 1..Len(snaps)
    <3>1. i - Len(snaps) \in 1..Len(answers) /\ es[i] = e
      BY <1>7, <1>9, <2>2
    <3>2. i = Len(es) /\ answer # key
      BY <1>4, <1>7, <1>9, <3>1
    <3> QED BY <1>6, <3>1, <3>2
  <2> QED BY <2>1, <2>2
<1>11. answer # key => Len(es) \in 1..Len(es) /\ es[Len(es)] = e
  <2> SUFFICES ASSUME answer # key PROVE Len(es) \in 1..Len(es) /\ es[Len(es)] = e
    OBVIOUS
  <2>1. Len(es) = Len(snaps) + 1 /\ Len(es) \in 1..Len(es) /\ Len(es) \notin 1..Len(snaps)
    BY <1>4, <1>7, <1>9
  <2> QED BY <1>7, <1>9, <2>1
<1>12. SameReports(inbox, inbox') /\ SameSeen(inbox, inbox')
  <2>1. inbox \in Seq(Events) /\ es \in Seq(Events) /\ inbox' = inbox \o es
    BY <1>2, <1>8, <1>9
  <2>2. (\A i \in 1..Len(es) : es[i].kind # "ready") /\ (\A i \in 1..Len(es) : es[i].kind # "seen")
    BY <1>10
  <2> QED BY <2>1, <2>2, OthersAdded DEF SameSeen
<1>13. ASSUME NEW i \in 1..Len(inbox'), inbox'[i].kind = "roster"
       PROVE  inbox'[i] = e /\ i = Len(inbox) + Len(es) /\ answer # key
  <2>1. i \notin 1..Len(inbox)
    BY <1>2, <1>3, <1>8, <1>9, <1>13, Joined DEF In
  <2>2. i - Len(inbox) \in 1..Len(es) /\ inbox'[i] = es[i - Len(inbox)] /\ Len(inbox) \in Nat
    BY <1>2, <1>8, <1>9, <2>1, Joined
  <2>3. inbox'[i] = e /\ i - Len(inbox) = Len(es) /\ answer # key
    BY <1>10, <1>13, <2>2
  <2> QED BY <1>9, <2>2, <2>3
<1>14. answer # key => In(inbox', "roster")
  <2> SUFFICES ASSUME answer # key PROVE In(inbox', "roster")
    OBVIOUS
  <2>1. Len(inbox) + Len(es) \in 1..Len(inbox') /\ inbox'[Len(inbox) + Len(es)] = e
    BY <1>2, <1>8, <1>9, <1>11, Joined
  <2> QED BY <1>6, <2>1 DEF In
<1>15. OneAnswer(inbox', answer)
  BY <1>6, <1>13 DEF OneAnswer
<1>16. In(inbox', "roster") => answer # key
  BY <1>13 DEF In
<1> QED BY <1>3, <1>12, <1>14, <1>15, <1>16

LEMMA PollSound ==
  ASSUME TInv, Sound(gc, driver, inbox), NEW answer \in {match, Down}, Poll(answer)
  PROVE  Sound(gc, driver, inbox)'
<1>1. answer \in Ids \cup {None, Down}
  BY DEF TInv, BackendOK
<1>2. /\ SameReports(inbox, inbox') /\ SameSeen(inbox, inbox')
      /\ OneAnswer(inbox', answer) /\ (In(inbox', "roster") <=> answer # key) /\ ~In(inbox, "roster")
  BY <1>1, PollAnswers
<1>3. /\ match' = match /\ last' = last /\ told' = told /\ key' = answer /\ confirms' = confirms /\ gc' = gc
      /\ driver' = driver /\ hostq' = hostq /\ engine' = engine /\ world' = world
  BY DEF Poll, backend, outside
<1>4. Latest(gc, inbox)'
  BY <1>2, <1>3 DEF Sound, Latest, Ids, None, Down
<1>5. Tellings(gc, inbox)' /\ Untold(driver, inbox)'
  BY <1>2, <1>3 DEF Sound, Tellings, Untold, SameSeen, Asked, Fits
<1>6. Bound(gc, driver)' /\ Own(driver, inbox)'
  BY <1>2, <1>3 DEF Sound, Bound, Own, SameReports
<1>7. Working(gc, driver, inbox)'
  <2>1. gc.ready \in BOOLEAN
    BY DEF TInv, GCs
  <2>2. Working(gc, driver, inbox)
    BY DEF Sound
  <2> QED BY <1>2, <1>3, <2>1, <2>2 DEF Working, Reserved, Cold, Resting, Borne, SameReports, StillRevoked
<1>8. Rested(gc, driver, inbox)'
  <2> SUFFICES ASSUME Asked, Due(gc, inbox)'
               PROVE  (~gc.armed => Clean(driver, inbox)') /\ (gc.armed => gc.roster = RosterOf(last) /\ gc.snap # None)
    BY <1>3 DEF Rested, Asked, Fits, RosterOf
  <2>1. Due(gc, inbox)
    BY <1>2, <1>3 DEF Due, Asked, Ids, Down
  <2>2. (~gc.armed => Clean(driver, inbox)) /\ (gc.armed => gc.roster = RosterOf(last) /\ gc.snap # None)
    BY <2>1 DEF Sound, Rested
  <2> QED BY <1>2, <1>3, <2>2 DEF Clean, SameReports
<1> QED BY <1>4, <1>5, <1>6, <1>7, <1>8 DEF Sound

\* A pass of the driver's loop, whatever it does to the two queues.
LEMMA PassSound ==
  ASSUME TInv, Sound(gc, driver, inbox), UNCHANGED <<backend, poller, gc, outside>>,
         driver # NoDriver, driver' # NoDriver, driver'.roster = driver.roster, driver'.released = driver.released,
         driver'.cmd = "none", SameAnswer(inbox, inbox'), SameSeen(inbox, inbox'),
         \A i \in 1..Len(hostq)' : hostq'[i] \in {NoRoster, driver.roster},
         Clean(driver, inbox) => Clean(driver, inbox)',
         gc.armed => (Reserved(driver) /\ Cold(gc, driver, inbox) /\ Resting(gc, driver) /\ Borne(gc, inbox))'
  PROVE  Sound(gc, driver, inbox)'
<1>1. /\ match' = match /\ last' = last /\ told' = told /\ key' = key /\ confirms' = confirms /\ gc' = gc
      /\ engine' = engine /\ world' = world
  BY DEF backend, poller, outside
<1>2. Latest(gc, inbox)' /\ Tellings(gc, inbox)'
  BY <1>1 DEF Sound, Latest, Tellings, SameAnswer, SameSeen
<1>3. Untold(driver, inbox)' /\ Bound(gc, driver)' /\ Own(driver, inbox)'
  BY <1>1 DEF Sound, Untold, Bound, Own
<1>4. Working(gc, driver, inbox)'
  BY <1>1 DEF Working
<1>5. Rested(gc, driver, inbox)'
  BY <1>1 DEF Sound, Rested, Due, Asked, Fits, RosterOf, SameAnswer
<1> QED BY <1>2, <1>3, <1>4, <1>5 DEF Sound

LEMMA PassPauseSound == TInv /\ Sound(gc, driver, inbox) /\ PassPause => Sound(gc, driver, inbox)'
<1> SUFFICES ASSUME TInv, Sound(gc, driver, inbox), PassPause PROVE Sound(gc, driver, inbox)'
  OBVIOUS
<1>1. Finds("pause") /\ driver.cmd = "pause" /\ driver # NoDriver
  BY DEF PassPause, Finds
<1>2. /\ driver' = [[driver EXCEPT !.phase = "paused"] EXCEPT !.cmd = "none"]
      /\ UNCHANGED <<backend, poller, gc, outside, inbox, hostq>>
  BY DEF PassPause, Passes
<1>3. driver' # NoDriver
  BY DriverTypes DEF DriverThread
<1>4. /\ driver'.phase = "paused" /\ driver'.cmd = "none" /\ driver'.roster = driver.roster
      /\ driver'.released = driver.released
  BY <1>2 DEF TInv, DriverOK, Drivers
<1>5. SameAnswer(inbox, inbox') /\ SameSeen(inbox, inbox')
  BY <1>2 DEF SameAnswer, SameSeen
<1>6. \A i \in 1..Len(hostq)' : hostq'[i] \in {NoRoster, driver.roster}
  BY <1>1, <1>2 DEF Sound, Own
<1>7. Clean(driver, inbox) => Clean(driver, inbox)'
  BY <1>2, <1>4 DEF Clean, outside
<1>8. gc.armed => (Reserved(driver) /\ Cold(gc, driver, inbox) /\ Resting(gc, driver) /\ Borne(gc, inbox))'
  <2> SUFFICES ASSUME gc.armed
               PROVE  (Reserved(driver) /\ Cold(gc, driver, inbox) /\ Resting(gc, driver) /\ Borne(gc, inbox))'
    OBVIOUS
  <2>1. Resting(gc, driver) /\ Borne(gc, inbox)
    BY DEF Sound, Working
  <2> QED BY <1>1, <1>2, <1>4, <2>1 DEF Reserved, Cold, Resting, Borne, outside
<1> QED BY <1>1, <1>2, <1>3, <1>4, <1>5, <1>6, <1>7, <1>8, PassSound

\* A pass that says that the virtual players are not ready.
LEMMA NotReadyPosted ==
  ASSUME TInv, Post([kind |-> "ready", ready |-> FALSE])
  PROVE  /\ SameAnswer(inbox, inbox') /\ SameSeen(inbox, inbox') /\ (Promises(inbox') => Promises(inbox))
         /\ \A b \in BOOLEAN : Revoked(inbox', b)
<1>1. PICK e : e = [kind |-> "ready", ready |-> FALSE]
  OBVIOUS
<1>2. e.kind = "ready" /\ ~e.ready /\ e \in Events
  BY <1>1, EventsAre
<1>3. inbox' = inbox \o <<e>> /\ inbox \in Seq(Events)
  BY <1>1 DEF Post, PostAll, TInv, QueueOK
<1> QED BY <1>2, <1>3, ReportAdded

LEMMA PassArmSound == TInv /\ Sound(gc, driver, inbox) /\ PassArm => Sound(gc, driver, inbox)'
<1> SUFFICES ASSUME TInv, Sound(gc, driver, inbox), PassArm PROVE Sound(gc, driver, inbox)'
  OBVIOUS
<1>1. driver # NoDriver /\ (driver.cmd = "arm" \/ driver.phase = "cooldown")
  BY DEF PassArm, Finds
<1>2. /\ driver' = [[driver EXCEPT !.phase = "probe", !.level = 0, !.popup = FALSE] EXCEPT !.cmd = "none"]
      /\ UNCHANGED <<backend, poller, gc, outside>>
  BY DEF PassArm, Passes
<1>3. driver' # NoDriver
  BY DriverTypes DEF DriverThread
<1>4. /\ driver'.phase = "probe" /\ driver'.cmd = "none" /\ driver'.roster = driver.roster
      /\ driver'.released = driver.released /\ ~driver'.popup
  BY <1>2 DEF TInv, DriverOK, Drivers
<1>5. SameAnswer(inbox, inbox') /\ SameSeen(inbox, inbox') /\ (Promises(inbox') => Promises(inbox))
  BY NotReadyPosted DEF PassArm
<1>6. /\ hostq' # <<>> /\ hostq'[Len(hostq')] = driver.roster
      /\ \A i \in 1..Len(hostq)' : hostq'[i] \in {NoRoster, driver.roster}
  <2>1. hostq \in Seq(Rosters) /\ driver.roster \in Rosters /\ hostq' = Append(hostq, driver.roster)
    BY DEF TInv, HostOK, DriverOK, Drivers, PassArm, PostToHost
  <2>2. \A i \in 1..Len(hostq) : hostq[i] \in {NoRoster, driver.roster}
    BY <1>1 DEF Sound, Own
  <2>3. /\ Len(hostq) \in Nat /\ Len(hostq') = Len(hostq) + 1 /\ hostq'[Len(hostq) + 1] = driver.roster
        /\ \A i \in 1..Len(hostq) : hostq'[i] = hostq[i]
    BY <2>1
  <2> QED BY <2>2, <2>3
<1>7. ~Clean(driver, inbox)
  BY <1>1 DEF Clean
<1>8. gc.armed => (Reserved(driver) /\ Cold(gc, driver, inbox) /\ Resting(gc, driver) /\ Borne(gc, inbox))'
  <2> SUFFICES ASSUME gc.armed
               PROVE  (Reserved(driver) /\ Cold(gc, driver, inbox) /\ Resting(gc, driver) /\ Borne(gc, inbox))'
    OBVIOUS
  <2>1. Borne(gc, inbox) /\ driver.roster # NoRoster
    BY <1>1 DEF Sound, Working, Own
  <2> QED BY <1>2, <1>4, <1>5, <1>6, <2>1 DEF Reserved, Cold, Resting, Borne, outside
<1> QED BY <1>1, <1>2, <1>3, <1>4, <1>5, <1>6, <1>7, <1>8, PassSound

LEMMA PassUnreserveSound ==
  ASSUME TInv, Sound(gc, driver, inbox), PassRearm \/ PassRelease
  PROVE  Sound(gc, driver, inbox)'
<1>1. PICK order, phase :
        /\ PassUnreserve(order, phase)
        /\ (order = "rearm" /\ phase = "cooldown") \/ (order = "release" /\ phase = "paused")
  BY DEF PassRearm, PassRelease
<1>2. /\ driver # NoDriver
      /\ driver.cmd \in {"rearm", "release"} \/ driver.phase \in {"probe", "accept", "done"}
      /\ order = "release" => driver.cmd = "release"
  BY <1>1 DEF PassUnreserve, Finds, Overdue
<1>3. /\ driver' = [[driver EXCEPT !.phase = phase, !.gaveUp = FALSE] EXCEPT !.cmd = "none"]
      /\ UNCHANGED <<backend, poller, gc, outside>>
  BY <1>1 DEF PassUnreserve, Passes
<1>4. driver' # NoDriver
  BY DriverTypes DEF DriverThread
<1>5. /\ driver'.phase = phase /\ driver'.cmd = "none" /\ driver'.roster = driver.roster
      /\ driver'.released = driver.released
  BY <1>3 DEF TInv, DriverOK, Drivers
<1>6. /\ SameAnswer(inbox, inbox') /\ SameSeen(inbox, inbox') /\ (Promises(inbox') => Promises(inbox))
      /\ \A b \in BOOLEAN : Revoked(inbox', b)
  BY <1>1, NotReadyPosted DEF PassUnreserve
<1>7. \A i \in 1..Len(hostq)' : hostq'[i] \in {NoRoster, driver.roster}
  <2>1. hostq \in Seq(Rosters) /\ NoRoster \in Rosters /\ hostq' = Append(hostq, NoRoster)
    BY <1>1, NoRosterIsRoster DEF TInv, HostOK, PassUnreserve, PostToHost
  <2>2. \A i \in 1..Len(hostq) : hostq[i] \in {NoRoster, driver.roster}
    BY <1>2 DEF Sound, Own
  <2>3. /\ Len(hostq) \in Nat /\ Len(hostq') = Len(hostq) + 1 /\ hostq'[Len(hostq) + 1] = NoRoster
        /\ \A i \in 1..Len(hostq) : hostq'[i] = hostq[i]
    BY <2>1
  <2> QED BY <2>2, <2>3
<1>8. ~Clean(driver, inbox)
  BY <1>2 DEF Clean
<1>9. gc.armed => (Reserved(driver) /\ Cold(gc, driver, inbox) /\ Resting(gc, driver) /\ Borne(gc, inbox))'
  <2> SUFFICES ASSUME gc.armed
               PROVE  (Reserved(driver) /\ Cold(gc, driver, inbox) /\ Resting(gc, driver) /\ Borne(gc, inbox))'
    OBVIOUS
  <2>1. phase = "cooldown" /\ Borne(gc, inbox)
    BY <1>1, <1>2 DEF Sound, Bound, Working
  <2>2. gc.ready \in BOOLEAN
    BY DEF TInv, GCs
  <2> QED BY <1>3, <1>5, <1>6, <2>1, <2>2 DEF Reserved, Cold, Resting, Borne, outside
<1> QED BY <1>2, <1>3, <1>4, <1>5, <1>6, <1>7, <1>8, <1>9, PassSound

\* What the phase transitions leave: the driver is at work, and goes on to the next
\* phase if the host thread had its time, or the players were asked.
LEMMA TurnedIs ==
  ASSUME NEW d \in Drivers, d.phase \in {"probe", "waitPopup", "accept", "done"}
  PROVE  LET t == Turned(d) IN
         /\ t \in Drivers /\ t.phase \in {"probe", "waitPopup", "accept", "done"}
         /\ t.roster = d.roster /\ t.released = d.released /\ t.cmd = d.cmd /\ t.popup = d.popup
         /\ t.phase # d.phase /\ t.phase \in {"waitPopup", "accept"} => d.popup \/ hostq = <<>>
<1>1. PICK t : t = Turned(d)
  OBVIOUS
<1>2. t \in Drivers
  BY <1>1, TurnedOK
<1>3. CASE d.popup /\ d.phase \in {"probe", "waitPopup"}
  <2>1. t = [d EXCEPT !.phase = "accept", !.level = IF @ < 1 THEN 1 ELSE @]
    BY <1>1, <1>3 DEF Turned
  <2>2. t.phase = "accept" /\ t.roster = d.roster /\ t.released = d.released /\ t.cmd = d.cmd /\ t.popup = d.popup
    BY <2>1 DEF Drivers
  <2> QED BY <1>1, <1>2, <1>3, <2>2
<1>4. CASE ~d.popup /\ d.phase = "probe" /\ Reached(d, 1) /\ hostq = <<>>
  <2>1. t = [d EXCEPT !.phase = "waitPopup"]
    BY <1>1, <1>4 DEF Turned
  <2>2. t.phase = "waitPopup" /\ t.roster = d.roster /\ t.released = d.released /\ t.cmd = d.cmd /\ t.popup = d.popup
    BY <2>1 DEF Drivers
  <2> QED BY <1>1, <1>2, <1>4, <2>2
<1>5. CASE d.phase = "accept" /\ Reached(d, 2)
  <2>1. t = [d EXCEPT !.phase = "done"]
    BY <1>1, <1>5 DEF Turned
  <2>2. t.phase = "done" /\ t.roster = d.roster /\ t.released = d.released /\ t.cmd = d.cmd /\ t.popup = d.popup
    BY <2>1 DEF Drivers
  <2> QED BY <1>1, <1>2, <1>5, <2>2
<1>6. CASE /\ ~(d.popup /\ d.phase \in {"probe", "waitPopup"})
           /\ ~(~d.popup /\ d.phase = "probe" /\ Reached(d, 1) /\ hostq = <<>>)
           /\ ~(d.phase = "accept" /\ Reached(d, 2))
  <2>1. t = d
    BY <1>1, <1>6 DEF Turned
  <2> QED BY <1>1, <1>2, <2>1
<1> QED BY <1>3, <1>4, <1>5, <1>6

LEMMA PassOnSound ==
  ASSUME TInv, Sound(gc, driver, inbox), PassQuiet \/ PassAnswered \/ PassGaveUp \/ PassPopup
  PROVE  Sound(gc, driver, inbox)'
<1>1. PICK t : t = Turned(driver)
  OBVIOUS
<1>2. PICK e :
        /\ Pass(e)
        /\ e \in {t, [t EXCEPT !.level = Desired(t)], [t EXCEPT !.gaveUp = TRUE]}
           \/ (e = [t EXCEPT !.popup = TRUE] /\ engine.held # NoRoster)
  BY <1>1 DEF PassQuiet, PassAnswered, PassGaveUp, PassPopup, Answers
<1>3. /\ driver # NoDriver /\ driver.cmd = "none" /\ driver.phase \in {"probe", "waitPopup", "accept", "done"}
      /\ driver \in Drivers
  <2>1. driver # NoDriver /\ driver.cmd = "none" /\ driver.phase \notin {"paused", "cooldown"}
    BY <1>2 DEF Pass, Finds
  <2> QED BY <2>1 DEF TInv, DriverOK, Drivers
<1>4. /\ t \in Drivers /\ t.phase \in {"probe", "waitPopup", "accept", "done"}
      /\ t.roster = driver.roster /\ t.released = driver.released /\ t.cmd = driver.cmd /\ t.popup = driver.popup
      /\ t.phase # driver.phase /\ t.phase \in {"waitPopup", "accept"} => driver.popup \/ hostq = <<>>
  BY <1>1, <1>3, TurnedIs
<1>5. /\ e.phase = t.phase /\ e.roster = t.roster /\ e.released = t.released /\ e.cmd = t.cmd
      /\ e.popup => t.popup \/ engine.held # NoRoster
  BY <1>2, <1>4 DEF Drivers
<1>6. driver' = e /\ UNCHANGED <<backend, poller, gc, outside, hostq>>
  BY <1>2 DEF Pass
<1>7. driver' # NoDriver
  BY DriverTypes DEF DriverThread
<1>8. /\ SameAnswer(inbox, inbox') /\ SameSeen(inbox, inbox')
      /\ (Promises(inbox') => Promises(inbox) \/ driver.popup \/ hostq = <<>>)
  <2>1. CASE UNCHANGED inbox
    BY <2>1 DEF SameAnswer, SameSeen
  <2>2. CASE Post([kind |-> "ready", ready |-> TRUE]) /\ (driver.popup \/ hostq = <<>>)
    <3>1. PICK r : r = [kind |-> "ready", ready |-> TRUE]
      OBVIOUS
    <3>2. r.kind = "ready" /\ r \in Events
      BY <3>1, EventsAre
    <3>3. inbox' = inbox \o <<r>> /\ inbox \in Seq(Events)
      BY <2>2, <3>1 DEF Post, PostAll, TInv, QueueOK
    <3> QED BY <2>2, <3>2, <3>3, ReportAdded
  <2> QED BY <1>2, <1>4, <1>5, <2>1, <2>2 DEF Pass
<1>9. \A i \in 1..Len(hostq)' : hostq'[i] \in {NoRoster, driver.roster}
  BY <1>3, <1>6 DEF Sound, Own
<1>10. ~Clean(driver, inbox)
  BY <1>3 DEF Clean
<1>11. gc.armed => (Reserved(driver) /\ Cold(gc, driver, inbox) /\ Resting(gc, driver) /\ Borne(gc, inbox))'
  <2> SUFFICES ASSUME gc.armed
               PROVE  (Reserved(driver) /\ Cold(gc, driver, inbox) /\ Resting(gc, driver) /\ Borne(gc, inbox))'
    OBVIOUS
  <2>1. Borne(gc, inbox) /\ Reserved(driver)
    BY DEF Sound, Working
  <2>2. engine' = engine
    BY <1>6 DEF outside
  <2>3. Reserved(driver)'
    BY <1>3, <1>4, <1>5, <1>6, <2>1, <2>2 DEF Reserved
  <2>4. Cold(gc, driver, inbox)' /\ Resting(gc, driver)'
    BY <1>3, <1>4, <1>5, <1>6 DEF Cold, Resting
  <2>5. driver.popup \/ hostq = <<>> => engine.held # NoRoster
    BY <1>3, <2>1 DEF Reserved
  <2>6. Borne(gc, inbox)'
    BY <1>6, <1>8, <2>1, <2>2, <2>5 DEF Borne
  <2> QED BY <2>3, <2>4, <2>6
<1> QED BY <1>3, <1>4, <1>5, <1>6, <1>7, <1>8, <1>9, <1>10, <1>11, PassSound

LEMMA DriverSound == TInv /\ Sound(gc, driver, inbox) /\ (DriverThread \/ PassPopup) => Sound(gc, driver, inbox)'
BY PassPauseSound, PassArmSound, PassUnreserveSound, PassOnSound DEF DriverThread

\* The engine takes a payload, or loses a reservation that nobody refreshed.
LEMMA EngineSound ==
  ASSUME TInv, Sound(gc, driver, inbox),
         UNCHANGED <<backend, poller, inbox, gc, driver, world>>,
         driver = NoDriver => hostq' = <<>> /\ engine'.held = NoRoster,
         driver # NoDriver =>
           /\ engine'.held \in {NoRoster, driver.roster}
           /\ \A i \in 1..Len(hostq)' : hostq'[i] \in {NoRoster, driver.roster},
         Clean(driver, inbox) => Clean(driver, inbox)',
         gc.armed => (Reserved(driver) /\ Borne(gc, inbox))'
  PROVE  Sound(gc, driver, inbox)'
<1>1. /\ match' = match /\ last' = last /\ told' = told /\ key' = key /\ confirms' = confirms /\ gc' = gc
      /\ driver' = driver /\ inbox' = inbox /\ world' = world
  BY DEF backend, poller
<1>2. Latest(gc, inbox)' /\ Tellings(gc, inbox)' /\ Untold(driver, inbox)' /\ Bound(gc, driver)'
  BY <1>1 DEF Sound, Latest, Tellings, Untold, Bound, Asked, Fits
<1>3. Own(driver, inbox)'
  BY <1>1 DEF Sound, Own
<1>4. Working(gc, driver, inbox)'
  BY <1>1 DEF Sound, Working, Cold, Resting
<1>5. Rested(gc, driver, inbox)'
  BY <1>1 DEF Sound, Rested, Due, Asked, Fits, RosterOf
<1> QED BY <1>2, <1>3, <1>4, <1>5 DEF Sound

LEMMA HostThreadSound == TInv /\ Sound(gc, driver, inbox) /\ HostThread => Sound(gc, driver, inbox)'
<1> SUFFICES ASSUME TInv, Sound(gc, driver, inbox), HostThread PROVE Sound(gc, driver, inbox)'
  OBVIOUS
<1>1. PICK r : r = Head(hostq)
  OBVIOUS
<1>2. hostq # <<>> /\ hostq' = Tail(hostq) /\ UNCHANGED <<backend, poller, inbox, gc, driver, world>>
  BY DEF HostThread
<1>3. /\ hostq \in Seq(Rosters) /\ Len(hostq) \in Nat /\ Len(hostq) >= 1 /\ r = hostq[1]
      /\ hostq' \in Seq(Rosters) /\ Len(hostq') = Len(hostq) - 1
      /\ \A i \in 1..Len(hostq') : i + 1 \in 1..Len(hostq) /\ hostq'[i] = hostq[i + 1]
  <2>1. hostq \in Seq(Rosters)
    BY DEF TInv, HostOK
  <2>2. /\ Len(hostq) \in Nat /\ Len(hostq) >= 1 /\ r = hostq[1]
        /\ hostq' \in Seq(Rosters) /\ Len(hostq') = Len(hostq) - 1
    BY <1>1, <1>2, <2>1
  <2>3. \A i \in 1..Len(hostq') : i + 1 \in 1..Len(hostq) /\ hostq'[i] = hostq[i + 1]
    BY <1>2, <2>1, <2>2
  <2> QED BY <2>1, <2>2, <2>3
<1>4. driver # NoDriver
  BY <1>2 DEF Sound, Own
<1>5. /\ engine.held # NoRoster => engine'.held = engine.held
      /\ engine.held = NoRoster => engine'.held = r
      /\ r # NoRoster => ~engine'.expired /\ engine'.held # NoRoster
  <2>1. engine \in [held : Rosters, expired : BOOLEAN]
    BY DEF TInv, HostOK
  <2>2. engine' = CASE r = NoRoster -> [engine EXCEPT !.expired = engine.held # NoRoster]
                    [] r # NoRoster /\ engine.held = NoRoster -> [held |-> r, expired |-> FALSE]
                    [] OTHER -> [engine EXCEPT !.expired = FALSE]
    BY <1>1 DEF HostThread
  <2>3. CASE r = NoRoster
    BY <2>1, <2>2, <2>3
  <2>4. CASE r # NoRoster /\ engine.held = NoRoster
    BY <2>1, <2>2, <2>4
  <2>5. CASE r # NoRoster /\ engine.held # NoRoster
    BY <2>1, <2>2, <2>5
  <2> QED BY <2>3, <2>4, <2>5
<1>6. /\ engine.held \in {NoRoster, driver.roster} /\ r \in {NoRoster, driver.roster}
      /\ \A i \in 1..Len(hostq') : hostq'[i] \in {NoRoster, driver.roster}
  <2>1. engine.held \in {NoRoster, driver.roster} /\ \A i \in 1..Len(hostq) : hostq[i] \in {NoRoster, driver.roster}
    BY <1>4 DEF Sound, Own
  <2>2. 1 \in 1..Len(hostq)
    BY <1>3
  <2> QED BY <1>3, <2>1, <2>2
<1>7. ~Clean(driver, inbox)
  BY <1>2 DEF Clean
<1>8. gc.armed => (Reserved(driver) /\ Borne(gc, inbox))'
  <2> SUFFICES ASSUME gc.armed PROVE (Reserved(driver) /\ Borne(gc, inbox))'
    OBVIOUS
  <2>1. Reserved(driver) /\ Borne(gc, inbox)
    BY DEF Sound, Working
  <2>2. Borne(gc, inbox)'
    BY <1>2, <1>5, <2>1 DEF Borne
  <2>3. Reserved(driver)'
    <3> SUFFICES ASSUME driver.phase \in {"probe", "waitPopup", "accept", "done"}
                 PROVE  /\ hostq' = <<>> => engine'.held # NoRoster /\ ~engine'.expired
                        /\ hostq' # <<>> => hostq'[Len(hostq')] # NoRoster
                        /\ driver.popup => engine'.held # NoRoster
      BY <1>2 DEF Reserved
    <3>1. hostq[Len(hostq)] # NoRoster /\ (driver.popup => engine.held # NoRoster)
      BY <1>2, <2>1 DEF Reserved
    <3>2. CASE hostq' = <<>>
      <4>1. Len(hostq) = 1
        BY <1>3, <3>2
      <4> QED BY <1>3, <1>5, <3>1, <3>2, <4>1
    <3>3. CASE hostq' # <<>>
      <4>1. Len(hostq') \in 1..Len(hostq') /\ Len(hostq') + 1 = Len(hostq)
        BY <1>3, <3>3
      <4> QED BY <1>3, <1>5, <3>1, <3>3, <4>1
    <3> QED BY <3>2, <3>3
  <2> QED BY <2>2, <2>3
<1>9. engine'.held \in {NoRoster, driver.roster}
  BY <1>5, <1>6
<1> QED BY <1>2, <1>4, <1>6, <1>7, <1>8, <1>9, EngineSound

\* The engine drops a reservation: nobody is connected then, and the driver would
\* have said that it is not ready.
LEMMA EngineDropSound ==
  ASSUME TInv, Counted, Calmly, Sound(gc, driver, inbox), EngineDrop
  PROVE  Sound(gc, driver, inbox)'
<1>1. /\ inbox = <<>> /\ hostq = <<>> /\ driver.cmd = "none" /\ engine.expired /\ on = {}
      /\ UNCHANGED <<backend, poller, inbox, gc, driver, hostq, world>>
      /\ engine'.held = NoRoster
  BY DEF EngineDrop, Settled, Prompt
<1>2. gc.inside = {}
  <2>1. \A p \in Players, i \in 1..Len(inbox) : ~Tells("net", i, p)
    BY <1>1
  <2>2. \A p \in Players : p \in gc.inside <=> p \in on
    BY <2>1 DEF Counted, Calmly, InStep, Silent, Heard
  <2> QED BY <1>1, <2>2 DEF TInv, GCs
<1>3. gc.armed => (Reserved(driver) /\ Borne(gc, inbox))'
  <2> SUFFICES ASSUME gc.armed PROVE (Reserved(driver) /\ Borne(gc, inbox))'
    OBVIOUS
  <2>1. Reserved(driver) /\ Cold(gc, driver, inbox) /\ Resting(gc, driver) /\ driver # NoDriver
    BY DEF Sound, Working, Bound
  <2>2. driver.phase = "cooldown"
    <3>1. driver.phase \notin {"probe", "waitPopup", "accept", "done"}
      BY <1>1, <2>1 DEF Reserved
    <3>2. driver.phase # "paused"
      BY <1>1, <1>2, <2>1 DEF Resting
    <3>3. driver.phase # "none"
      BY <2>1 DEF TInv, DriverOK
    <3> QED BY <3>1, <3>2, <3>3 DEF TInv, DriverOK, Drivers
  <2>3. ~gc.ready /\ ~Promises(inbox)
    BY <1>1, <2>1, <2>2 DEF Cold, Revoked, Promises
  <2> QED BY <1>1, <2>2, <2>3 DEF Reserved, Borne
<1>4. Clean(driver, inbox) => Clean(driver, inbox)'
  BY <1>1 DEF Clean
<1>5. /\ driver = NoDriver => hostq' = <<>> /\ engine'.held = NoRoster
      /\ driver # NoDriver =>
           /\ engine'.held \in {NoRoster, driver.roster}
           /\ \A i \in 1..Len(hostq)' : hostq'[i] \in {NoRoster, driver.roster}
  BY <1>1 DEF Sound, Own
<1> QED BY <1>1, <1>3, <1>4, <1>5, EngineSound

LEMMA LapseSound == TInv /\ Sound(gc, driver, inbox) /\ Lapse => Sound(gc, driver, inbox)'
<1> SUFFICES ASSUME TInv, Sound(gc, driver, inbox), Lapse PROVE Sound(gc, driver, inbox)'
  OBVIOUS
<1>1. driver.phase \in {"none", "paused", "cooldown"} /\ UNCHANGED <<backend, poller, inbox, gc, driver, hostq, world>>
  BY DEF Lapse
<1>2. engine'.held = engine.held
  BY DEF Lapse, TInv, HostOK
<1>3. gc.armed => (Reserved(driver) /\ Borne(gc, inbox))'
  BY <1>1, <1>2 DEF Sound, Working, Reserved, Borne
<1>4. Clean(driver, inbox) => Clean(driver, inbox)'
  BY <1>1, <1>2 DEF Clean
<1>5. /\ driver = NoDriver => hostq' = <<>> /\ engine'.held = NoRoster
      /\ driver # NoDriver =>
           /\ engine'.held \in {NoRoster, driver.roster}
           /\ \A i \in 1..Len(hostq)' : hostq'[i] \in {NoRoster, driver.roster}
  BY <1>1, <1>2 DEF Sound, Own
<1> QED BY <1>1, <1>3, <1>4, <1>5, EngineSound

LEMMA StoresSound ==
  ASSUME TInv, Sound(gc, driver, inbox),
         Restart \/ \E p \in Players : Purge(p) \/ \E kind \in Kinds : Submit(p, kind)
  PROVE  Sound(gc, driver, inbox)'
<1>1. UNCHANGED <<Concern, inbox>>
  BY DEF Restart, Purge, Submit, Stores, Concern, poller, outside
<1> QED BY <1>1, AloneSound

LEMMA WorldIsFixed == [Next]_vars => world' = world
BY DEF Next, vars, NewMatch, EndMatch, Deliver, Poll, Restart, Purge, Submit, Stores, GCThread, HandleRoster,
       HandleReady, HandleSeen, HandleNet, HandleLeft, Becomes, HandleSkins, HandleEquipment, HandleAuthenticated,
       Dresses, DriverThread, PassPause, PassArm, PassRearm, PassRelease, PassUnreserve, Passes, PassQuiet,
       PassAnswered, PassGaveUp, PassPopup, Pass, HostThread, EngineDrop, Lapse, Enter, Greet, Leave, Sniff, outside

LEMMA NextSound == TInv /\ Counted /\ HeldInv /\ [Next]_vars => HeldInv'
<1> SUFFICES ASSUME TInv, Counted, HeldInv, [Next]_vars, Calmly' PROVE Sound(gc, driver, inbox)'
  BY DEF HeldInv
<1>1. Calmly /\ Sound(gc, driver, inbox)
  BY WorldIsFixed DEF HeldInv, Calmly
<1>2. CASE UNCHANGED vars
  <2>1. UNCHANGED <<Concern, inbox>>
    BY <1>2 DEF vars, Concern
  <2> QED BY <1>1, <2>1, AloneSound
<1>3. CASE Poll(match) \/ (world.outages /\ Poll(Down))
  BY <1>1, <1>3, PollSound
<1>4. CASE \E m \in Ids : NewMatch(m) \/ Deliver(m)
  BY <1>1, <1>4, NewMatchSound, DeliverSound
<1>5. CASE EndMatch
  BY <1>1, <1>5, EndMatchSound
<1>6. CASE GCThread
  BY <1>1, <1>6, GCThreadSound
<1>7. CASE DriverThread \/ PassPopup
  BY <1>1, <1>7, DriverSound
<1>8. CASE HostThread \/ EngineDrop \/ Lapse
  BY <1>1, <1>8, HostThreadSound, EngineDropSound, LapseSound
<1>9. CASE Restart \/ \E p \in Players : Purge(p) \/ \E kind \in Kinds : Submit(p, kind)
  BY <1>1, <1>9, StoresSound
<1>10. CASE \E p \in Players : Enter(p) \/ Greet(p) \/ Leave(p) \/ Sniff(p)
  BY <1>1, <1>10, GuestsSound, SniffSound
<1> QED BY <1>2, <1>3, <1>4, <1>5, <1>6, <1>7, <1>8, <1>9, <1>10, Zenon DEF Next

LEMMA InitSound == Init => HeldInv
<1> SUFFICES ASSUME Init PROVE Sound(gc, driver, inbox)
  BY DEF HeldInv
<1>1. /\ match = None /\ last = 0 /\ told = {} /\ key = Unknown /\ confirms = [m \in Ids |-> 0] /\ inbox = <<>>
      /\ hostq = <<>> /\ gc.snap = Unknown /\ ~gc.armed /\ gc.pending = NoPlayer
      /\ driver = NoDriver /\ engine.held = NoRoster
  BY DEF Init
<1>2. \A k : ~In(inbox, k)
  BY <1>1 DEF In
<1>3. Latest(gc, inbox)
  BY <1>1, <1>2 DEF Latest, OneAnswer, Ids, None, Unknown
<1>4. Tellings(gc, inbox)
  BY <1>1, <1>2 DEF Tellings
<1>5. ~Asked
  BY <1>1 DEF Asked, Ids
<1>6. Own(driver, inbox) /\ Bound(gc, driver) /\ Working(gc, driver, inbox)
  BY <1>1, <1>2 DEF Own, Bound, Working
<1> QED BY <1>3, <1>4, <1>5, <1>6 DEF Sound, Untold, Rested

\* What is confirmed, and is a match of this server, is what the engine holds.
LEMMA ConfirmsHeld ==
  ASSUME TInv, HeldInv, [Next]_vars, Calmly, NEW m \in Ids, confirms[m] = 0, confirms'[m] = 1, Fits(m)
  PROVE  engine.held = RosterOf(m)
<1>1. Sound(gc, driver, inbox)
  BY DEF HeldInv
<1>2. confirms' # confirms
  OBVIOUS
<1>3. ~\E n \in Ids : Deliver(n)
  BY DEF Deliver, TInv, PollerOK
<1>4. HandleRoster \/ HandleReady \/ HandleSeen \/ HandleNet \/ HandleLeft
  BY <1>2, <1>3
     DEF Next, vars, NewMatch, EndMatch, Poll, Restart, Purge, Submit, Stores, GCThread, HandleSkins, HandleEquipment,
         HandleAuthenticated, Dresses, DriverThread, PassPause, PassArm, PassRearm, PassRelease, PassUnreserve, Passes,
         PassQuiet, PassAnswered, PassGaveUp, PassPopup, Pass, HostThread, EngineDrop, Lapse, Enter, Greet, Leave,
         Sniff, poller
<1>5. \A out : Becomes(out) => m \in out.tell
  BY DEF Becomes
<1>6. ~HandleSeen
  <2> SUFFICES ASSUME HandleSeen PROVE FALSE
    OBVIOUS
  <2>1. PICK out : out = RealPlayerSeen(gc, driver, Head(inbox).player) /\ Becomes(out)
    BY DEF HandleSeen
  <2>2. out.tell = {}
    BY <2>1, OutIs DEF RealPlayerSeen
  <2> QED BY <1>5, <2>1, <2>2
<1>7. PICK g, d, out : Turns(g, d, out)
  BY <1>1, <1>4, <1>6, RosterTurns, ReadyTurns, NetTurns, LeftTurns
<1>8. m \in out.tell /\ Sound(g, d, Tail(inbox)) /\ Keeps(out, g, d)
  BY <1>5, <1>7 DEF Turns, Ends, Drops, Renews, IsNew
<1>9. m = g.snap /\ g.armed /\ g.ready /\ g.roster = RosterOf(m)
  BY <1>8 DEF Keeps
<1>10. d # NoDriver /\ d.roster = g.roster
  BY <1>8, <1>9 DEF Sound, Bound
<1>11. engine.held # NoRoster
  BY <1>8, <1>9 DEF Sound, Working, Borne
<1> QED BY <1>8, <1>9, <1>10, <1>11 DEF Sound, Own

(* In a world where a new match leaves the server the time to come to rest *)
(* and players say at once that they are there, the engine holds the       *)
(* roster of a match whenever the backend is told that it is armed.        *)
THEOREM ToldIsHeld == Spec => ConfirmedIsHeld
<1>1. Spec => [](TInv /\ Counted /\ HeldInv)
  <2>1. Init => TInv /\ Counted /\ HeldInv
    BY InitOK, InitCount, InitSound
  <2>2. (TInv /\ Counted /\ HeldInv) /\ [Next]_vars => (TInv /\ Counted /\ HeldInv)'
    BY NextTypes, NextCount, NextSound
  <2> QED BY <2>1, <2>2, PTL DEF Spec
<1> DEFINE Held == \A m \in Ids : world.calm /\ world.greets = "atOnce" /\ confirms[m] = 0 /\ confirms'[m] = 1 /\ Fits(m) =>
                     engine.held = RosterOf(m)
<1>2. (TInv /\ Counted /\ HeldInv) /\ [Next]_vars => [Held]_vars
  BY ConfirmsHeld DEF Calmly
<1>3. Spec => [][Held]_vars
  BY <1>1, <1>2, PTL DEF Spec
<1> QED BY <1>3 DEF ConfirmedIsHeld
=============================================================================
