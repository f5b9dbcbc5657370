---------------------------- MODULE PlayerSearch ----------------------------
(***************************************************************************)
(* The matchmaking of one player's game: class Client of                   *)
(* csgo_gc/backend_client.cpp, the search and Accept handlers of           *)
(* csgo_gc/gc_client.cpp and the 0x25 watcher of test_accept.cpp, against  *)
(* the search API of the backend (SearchService.java) as one account sees  *)
(* it.                                                                     *)
(*                                                                         *)
(* Three threads.  The GC thread handles its events in order and calls the *)
(* client.  The worker sends one request at a time without the lock and    *)
(* applies the answer under it.  The game's own thread posts the messages  *)
(* of the player and inspects the packets of the game server.  A request   *)
(* can get lost, its answer can get lost, and the backend can handle it    *)
(* after the worker gave it up.                                            *)
(*                                                                         *)
(* Numbers stand for request ids and matches: the searches the player      *)
(* starts, then those its party leaders start for it; 0 is none.  A match  *)
(* also stands for its game server.                                        *)
(***************************************************************************)
EXTENDS Integers, Sequences

CONSTANTS
  Own,          \* how many searches the player starts
  Parties,      \* ... and party leaders start for it
  Matches,      \* how many matches the account gets
  AcceptModes,  \* the searches for a mode with an Accept
  QueueLimit,   \* QueueLimit of the job queue
  Attempts,     \* AcceptedAttempts
  Misses,       \* BOUND: so many requests in a row without an answer take longer
                \* than backend.stale-search-timeout
  Restarts,     \* BOUND: how often the game is restarted
  Room,         \* BOUND on the events that wait for the GC thread
  Worlds        \* values of world

Searches == 1..(Own + Parties)
Ids == 1..Matches

ASSUME BoundsAreNatural ==
  /\ Own \in Nat /\ Parties \in Nat /\ Matches \in Nat
  /\ Misses \in Nat /\ Restarts \in Nat /\ Room \in Nat
ASSUME LimitsArePositive == QueueLimit \in Nat \ {0} /\ Attempts \in Nat \ {0}
ASSUME AcceptModesAreSearches == AcceptModes \subseteq Searches
ASSUME WorldsAreSwitches ==
  Worlds \subseteq [calm : BOOLEAN, exact : BOOLEAN, brief : BOOLEAN, prompt : BOOLEAN,
                    own : 0..Own, refused : SUBSET (1..Own), parties : 0..Parties,
                    restarts : 0..Restarts]

VARIABLES
  row,      \* backend: the live search of the account
  ended,    \* ... request ids of its finished searches
  owner,    \* ... history: the search each match was made for
  ready,    \* ... history: the matches it had every accept of
  late,     \* requests nobody waits for any more
  w,        \* worker: the request it is at
  session,  \* ... m_session
  active,   \* ... m_activeRequestId
  adopted,  \* ... m_watch.lastAdopted
  jobs,     \* ... m_queue
  inbox,    \* GC thread: its events
  gc,       \* ... m_pendingAccept, m_activeSearch, m_followsParty and the popup
  arm,      \* the 0x25 watcher
  full,     \* the game servers: the matches everybody accepted at
  left,     \* history: the searches this game left
  shown,    \* ... the matches it announced
  joined,   \* ... and the matches it connected to
  count,    \* what came so far: starts, party searches, matches, restarts
  queued,   \* the game is in the queue (its own view)
  world     \* fixed: how much happens (own, parties, restarts), the searches the
            \* backend refuses, and what is left out: calm, the GC thread handles
            \* an event before the next one comes, and own searches do not meet
            \* those of a party; exact, nothing comes between a packet of the
            \* game server and the GC thread; brief, no Accept lasts until the
            \* session is MaxSessionMs old; prompt, the backend handles no
            \* request that was given up

backend == <<row, ended, owner, ready>>
worker == <<w, session, active, adopted, jobs>>
game == <<gc, arm, left, shown, joined>>
vars == <<backend, late, worker, inbox, game, full, count, queued, world>>

NoRow == [rid |-> 0, member |-> FALSE, st |-> "none", match |-> 0,
          accepted |-> FALSE, missed |-> 0]
NoSession == [rid |-> 0, phase |-> "Done", st |-> "none", match |-> 0]
NoGc == [pend |-> 0, server |-> FALSE, backend |-> FALSE, popup |-> 0,
         active |-> FALSE, mode |-> "none", follows |-> FALSE]
Idle(stalled) == [kind |-> "none", rid |-> 0, tries |-> 0, code |-> "none", st |-> "none",
                  match |-> 0, member |-> FALSE, stalled |-> stalled]
Disarmed == [on |-> FALSE, for |-> 0, seen |-> 0]

Assigned(st) == st \in {"WAITING_ACCEPT", "READY_TO_CONNECT"}
Mode(r) == IF r \in AcceptModes THEN "accept" ELSE "classic"

Init ==
  /\ row = NoRow /\ ended = {} /\ owner = [m \in Ids |-> 0] /\ ready = {}
  /\ late = {} /\ w = Idle(FALSE) /\ session = NoSession /\ active = 0 /\ adopted = 0
  /\ jobs = <<>> /\ inbox = <<>> /\ gc = NoGc /\ arm = Disarmed
  /\ full = {} /\ left = {} /\ shown = {} /\ joined = {}
  /\ count = [own |-> 0, party |-> 0, match |-> 0, crash |-> 0] /\ queued = FALSE
  /\ world \in Worlds

---------------------------------------------------------------------------
(* The backend.  MATCHED is told apart from SEARCHING only in a log line.  *)

NewRow(r, member) == [NoRow EXCEPT !.rid = r, !.member = member, !.st = "SEARCHING"]
Touched == IF row.st = "SEARCHING" THEN [row EXCEPT !.missed = 0] ELSE row

\* The live search ends.
Finish == row' = NoRow /\ ended' = ended \cup {row.rid}

\* start: a repeated request refreshes the search; another one replaces the live
\* search of the account, which stays a party member's when it was.
start(r) ==
  /\ row' = IF r > Own \/ r \in world.refused THEN row
            ELSE IF row.rid = r THEN Touched ELSE NewRow(r, row.member)
  /\ UNCHANGED <<ended, ready>>

poll(r) == row' = (IF row.rid = r THEN Touched ELSE row) /\ UNCHANGED <<ended, ready>>

pollAccount == row' = Touched /\ UNCHANGED <<ended, ready>>

\* Mutant: a cancel ends whatever search the account has.
cancelAny(r) == IF row.rid # 0 THEN Finish /\ UNCHANGED ready ELSE UNCHANGED <<row, ended, ready>>

\* cancel: a late one of an earlier search does nothing.
cancel(r) == IF row.rid = r THEN Finish /\ UNCHANGED ready ELSE UNCHANGED <<row, ended, ready>>

\* Every real player of the match is reported.
Promoted ==
  /\ row' = [row EXCEPT !.accepted = TRUE, !.st = "READY_TO_CONNECT"]
  /\ ready' = ready \cup {row.match}

\* accept: it is the last report of the match, or others are missing.  The other
\* players are not modelled.
accept(r) ==
  /\ IF row.rid = r /\ row.st = "WAITING_ACCEPT"
       THEN Promoted \/ (row' = [row EXCEPT !.accepted = TRUE] /\ UNCHANGED ready)
       ELSE UNCHANGED <<row, ready>>
  /\ UNCHANGED ended

\* What a request does, and the search its answer shows.
Do(kind, r) ==
  \/ kind = "register" /\ start(r)
  \/ kind = "poll" /\ poll(r)
  \/ kind = "account" /\ pollAccount
  \/ kind = "cancel" /\ cancel(r)
  \/ kind = "accepted" /\ accept(r)
  \/ kind = "snapshot" /\ UNCHANGED <<row, ended, ready>>

Code(kind, r) ==
  IF kind = "register" /\ (r > Own \/ r \in world.refused) THEN "refused"
  ELSE IF kind = "account" THEN IF row'.rid # 0 THEN "ok" ELSE "unknown"
  ELSE IF row'.rid = r \/ r \in ended' THEN "ok" ELSE "unknown"

\* A server is found for the search.
Assign(m) ==
  /\ row.st = "SEARCHING" /\ m = count.match + 1
  /\ row' = [row EXCEPT !.match = m, !.missed = 0,
               !.st = IF row.rid \in AcceptModes THEN "WAITING_ACCEPT" ELSE "READY_TO_CONNECT"]
  /\ owner' = [owner EXCEPT ![m] = row.rid]
  /\ count' = [count EXCEPT !.match = m]
  /\ UNCHANGED <<ended, ready, late, worker, inbox, game, full, queued, world>>

\* The last of the other players of the match is reported.
OthersAccept ==
  /\ row.st = "WAITING_ACCEPT" /\ row.accepted
  /\ Promoted
  /\ UNCHANGED <<ended, owner, late, worker, inbox, game, full, count, queued, world>>

\* The Accept deadline passes, or another player leaves the match.
Dissolve ==
  /\ row.st = "WAITING_ACCEPT"
  /\ row' = NewRow(row.rid, row.member)
  /\ UNCHANGED <<ended, owner, ready, late, worker, inbox, game, full, count, queued, world>>

\* An assigned search is completed some time after.
Complete ==
  /\ Assigned(row.st) /\ Finish
  /\ UNCHANGED <<owner, ready, late, worker, inbox, game, full, count, queued, world>>

\* Nobody refreshed it.
Expire ==
  /\ row.st = "SEARCHING" /\ row.missed = Misses /\ Finish
  /\ UNCHANGED <<owner, ready, late, worker, inbox, game, full, count, queued, world>>

\* The party leader stops, or the search is removed in the panel.
Remove ==
  /\ row.rid # 0 /\ Finish
  /\ UNCHANGED <<owner, ready, late, worker, inbox, game, full, count, queued, world>>

\* Nothing of an own search is under way.
Unoccupied == inbox = <<>> /\ session.phase = "Done" /\ w.kind # "register" /\ late = {}

\* A party leader starts a search; the account leaves the search it was in.
LeaderStarts ==
  /\ count.party < world.parties /\ (world.calm => Unoccupied)
  /\ count' = [count EXCEPT !.party = @ + 1]
  /\ row' = NewRow(Own + count.party + 1, TRUE)
  /\ ended' = IF row.rid = 0 THEN ended ELSE ended \cup {row.rid}
  /\ queued' = TRUE
  /\ UNCHANGED <<owner, ready, late, worker, inbox, game, full, world>>

---------------------------------------------------------------------------
(* The worker: one request at a time.                                      *)

Post(event) ==
  /\ Len(inbox) < (IF world.calm THEN 1 ELSE Room)
  /\ world.exact /\ event.kind # "full" => arm.seen = 0
  /\ inbox' = Append(inbox, event)

\* Mutant: the queue has no limit.
EnqueueMore(kind, r) == jobs' = Append(jobs, [kind |-> kind, rid |-> r])

\* Enqueue: beyond the limit the oldest job is dropped.  The skin snapshot and the
\* equipment snapshot of a search are one job.
Enqueue(kind, r) ==
  jobs' = Append(IF Len(jobs) >= QueueLimit THEN Tail(jobs) ELSE jobs, [kind |-> kind, rid |-> r])

Send(kind, r) == w' = [Idle(FALSE) EXCEPT !.kind = kind, !.rid = r, !.tries = 1]

\* Jobs come before a poll.  One that waited too long is dropped; that takes
\* requests without an answer before it.
PickJob ==
  /\ w.kind = "none" /\ jobs # <<>>
  /\ jobs' = Tail(jobs)
  /\ \/ Send(Head(jobs).kind, Head(jobs).rid)
     \/ w.stalled /\ UNCHANGED w
  /\ UNCHANGED <<backend, late, session, active, adopted, inbox, game, full, count, queued, world>>

\* A step of the session.
PickStep ==
  /\ w.kind = "none" /\ jobs = <<>> /\ session.phase # "Done"
  /\ Send(IF session.phase = "Register" THEN "register" ELSE "poll", session.rid)
  /\ UNCHANGED <<backend, late, session, active, adopted, jobs, inbox, game, full, count, queued, world>>

\* The session got too old.
GiveUp ==
  /\ w.kind = "none" /\ jobs = <<>> /\ session.phase # "Done"
  /\ world.brief => ~Assigned(session.st)
  /\ session' = [session EXCEPT !.phase = "Done"]
  /\ UNCHANGED <<backend, late, w, active, adopted, jobs, inbox, game, full, count, queued, world>>

\* Nothing of its own is tracked.
PickWatch ==
  /\ w.kind = "none" /\ jobs = <<>> /\ session.phase = "Done"
  /\ Send("account", 0)
  /\ UNCHANGED <<backend, late, session, active, adopted, jobs, inbox, game, full, count, queued, world>>

Waiting == w.kind # "none" /\ w.code = "none"

\* The backend handles the request in time.  The answer to a job is only logged.
Serve ==
  /\ Waiting
  /\ Do(w.kind, w.rid)
  /\ w' = IF w.kind \in {"register", "poll", "account"}
            THEN [w EXCEPT !.rid = IF w.kind = "account" THEN row'.rid ELSE @,
                    !.code = Code(w.kind, w.rid), !.member = row'.member,
                    !.st = IF w.kind = "account" \/ row'.rid = w.rid THEN row'.st ELSE "ENDED",
                    !.match = IF w.kind = "account" \/ row'.rid = w.rid THEN row'.match ELSE 0]
            ELSE Idle(FALSE)
  /\ UNCHANGED <<owner, late, session, active, adopted, jobs, inbox, game, full, count, queued, world>>

\* No answer in time: an accept report and a snapshot are sent again.  The
\* backend may still get the request; one that only reads does no harm.
TimeOut ==
  /\ Waiting
  /\ w' = IF w.kind \in {"accepted", "snapshot"} /\ w.tries < Attempts
            THEN [w EXCEPT !.tries = @ + 1] ELSE Idle(TRUE)
  /\ \/ UNCHANGED late
     \/ /\ ~world.prompt /\ late = {} /\ w.kind \in {"register", "accepted", "cancel"}
        /\ late' = {[kind |-> w.kind, rid |-> w.rid]}
  /\ row' = IF row.st = "SEARCHING" /\ row.missed < Misses THEN [row EXCEPT !.missed = @ + 1] ELSE row
  /\ UNCHANGED <<ended, owner, ready, session, active, adopted, jobs, inbox, game, full, count, queued, world>>

ServeLate(req) ==
  /\ req \in late
  /\ late' = late \ {req}
  /\ Do(req.kind, req.rid)
  /\ UNCHANGED <<owner, worker, inbox, game, full, count, queued, world>>

\* The answer comes too late for the session: it was cancelled or replaced.
Stale == session.rid # w.rid

Ignored ==
  /\ \/ w.code # "none" /\ w.kind \in {"register", "poll"} /\ Stale
     \/ w.kind = "register" /\ w.code = "unknown"
  /\ w' = Idle(FALSE)
  /\ UNCHANGED <<backend, late, session, active, adopted, jobs, inbox, game, full, count, queued, world>>

\* Mutant: the worker goes on polling.
LostPolling ==
  /\ w.kind = "poll" /\ w.code = "unknown" /\ ~Stale
  /\ w' = Idle(FALSE)
  /\ UNCHANGED <<backend, late, session, active, adopted, jobs, inbox, game, full, count, queued, world>>

\* The backend lost the search: register it again.
Lost ==
  /\ w.kind = "poll" /\ w.code = "unknown" /\ ~Stale
  /\ session' = [session EXCEPT !.phase = "Register"]
  /\ w' = Idle(FALSE)
  /\ UNCHANGED <<backend, late, active, adopted, jobs, inbox, game, full, count, queued, world>>

Rejected ==
  /\ w.code = "refused" /\ ~Stale
  /\ session' = [session EXCEPT !.phase = "Done"]
  /\ w' = Idle(FALSE)
  /\ UNCHANGED <<backend, late, active, adopted, jobs, inbox, game, full, count, queued, world>>

Result(discovered) ==
  [kind |-> "result", rid |-> w.rid, st |-> w.st, match |-> w.match, discovered |-> discovered]

\* Mutant: every assignment ends the tracking.
OverAssigned == w.st = "ENDED" \/ Assigned(w.st)

\* A classic assignment and the end of the search end the session.
Over == w.st = "ENDED" \/ (Assigned(w.st) /\ w.rid \notin AcceptModes)

\* The state of the search: a change is delivered.
Answered ==
  /\ w.kind \in {"register", "poll"} /\ w.code = "ok" /\ ~Stale
  /\ session' = [session EXCEPT !.phase = IF Over THEN "Done" ELSE "Poll", !.st = w.st, !.match = w.match]
  /\ IF w.st # session.st \/ w.match # session.match \/ Over
       THEN Post(Result(FALSE)) ELSE UNCHANGED inbox
  /\ IF w.kind = "register" THEN Enqueue("snapshot", w.rid) ELSE UNCHANGED jobs
  /\ w' = Idle(FALSE)
  /\ UNCHANGED <<backend, late, active, adopted, game, full, count, queued, world>>

Leave == left' = IF active = 0 THEN left ELSE left \cup {active}

\* The search of a party leader: follow it, once, and never beside one's own.
Adoptable == w.code = "ok" /\ w.member /\ w.rid # adopted /\ session.phase = "Done"

Adopt ==
  /\ w.kind = "account" /\ Adoptable
  /\ adopted' = w.rid /\ active' = w.rid /\ Leave
  /\ session' = [NoSession EXCEPT !.rid = w.rid, !.phase = "Poll"]
  /\ Enqueue("snapshot", w.rid)
  /\ Post(Result(TRUE))
  /\ w' = Idle(FALSE)
  /\ UNCHANGED <<backend, late, gc, arm, shown, joined, full, count, queued, world>>

NothingFound ==
  /\ w.kind = "account" /\ w.code # "none" /\ ~Adoptable
  /\ w' = Idle(FALSE)
  /\ UNCHANGED <<backend, late, session, active, adopted, jobs, inbox, game, full, count, queued, world>>

---------------------------------------------------------------------------
(* The GC thread: one event at a time.                                     *)

Got(kind) ==
  /\ inbox # <<>> /\ Head(inbox).kind = kind /\ (world.exact => arm.seen = 0)
  /\ inbox' = Tail(inbox)

NotAccepting(g) == [g EXCEPT !.pend = 0, !.server = FALSE, !.backend = FALSE]

\* OnMatchmakingStart and SearchStarted.
HandleStart ==
  /\ Got("start")
  /\ LET r == Head(inbox).rid IN
       /\ gc' = [NoGc EXCEPT !.active = TRUE, !.mode = Mode(r)]
       /\ active' = r /\ Leave
       /\ session' = [NoSession EXCEPT !.rid = r, !.phase = "Register"]
  /\ arm' = [arm EXCEPT !.on = FALSE]
  /\ UNCHANGED <<backend, late, w, adopted, jobs, shown, joined, full, count, queued, world>>

\* A party member does not stop the Accept of its leader's search.
Followed == gc.follows /\ gc.pend # 0 /\ ~gc.server

\* OnMatchmakingStop and SearchCancelled.
HandleStop ==
  /\ Got("stop")
  /\ IF Followed THEN UNCHANGED <<gc, arm, active, left, session, jobs>> ELSE
       /\ Leave
       /\ gc' = [NoGc EXCEPT !.follows = gc.follows]
       /\ arm' = [arm EXCEPT !.on = FALSE]
       /\ IF active = 0 THEN UNCHANGED <<active, session, jobs>>
          ELSE active' = 0 /\ session' = NoSession /\ Enqueue("cancel", active)
  /\ UNCHANGED <<backend, late, w, adopted, shown, joined, full, count, queued, world>>

\* TryConnectAfterAccept of an Accept that came to g, and StopPolling.
TryConnect(g) ==
  IF g.server /\ g.backend
    THEN /\ gc' = [NotAccepting(g) EXCEPT !.popup = 0]
         /\ joined' = joined \cup {g.pend}
         /\ session' = [session EXCEPT !.phase = "Done"]
    ELSE gc' = g /\ UNCHANGED <<joined, session>>

\* OnReservationFullyAccepted and ReportAccepted.  Neither the event nor the report
\* says of which match it is.
HandleFull ==
  /\ Got("full")
  /\ IF gc.pend = 0 \/ gc.server THEN UNCHANGED <<gc, joined, session, jobs>> ELSE
       /\ TryConnect([gc EXCEPT !.server = TRUE])
       /\ IF active = 0 THEN UNCHANGED jobs ELSE Enqueue("accepted", active)
  /\ UNCHANGED <<backend, late, w, active, adopted, arm, left, shown, full, count, queued, world>>

GotResult(discovered) == Got("result") /\ Head(inbox).discovered = discovered
GcOnly == UNCHANGED <<backend, late, w, active, adopted, jobs, left, full, count, queued, world>>

\* OnPartySearchDiscovered.
HandleDiscovered ==
  /\ GotResult(TRUE)
  /\ gc' = [NotAccepting(gc) EXCEPT !.active = TRUE, !.mode = Mode(Head(inbox).rid), !.follows = TRUE]
  /\ arm' = [arm EXCEPT !.on = FALSE]
  /\ UNCHANGED <<shown, joined, session>> /\ GcOnly

\* OnBackendSearchResult: is it of the search the client tracks, with an Accept
\* out or without one?
OfAccept == gc.pend # 0 /\ Head(inbox).rid = active

\* Mutant: an older search counts too.
OfAnySearch == gc.pend = 0 /\ gc.active

OfSearch == gc.pend = 0 /\ gc.active /\ Head(inbox).rid = active

\* StartServerFlow.
StartServerFlow(event) ==
  /\ gc' = IF gc.mode = "accept"
             THEN [NotAccepting(gc) EXCEPT !.active = FALSE, !.pend = event.match, !.popup = event.match,
                     !.backend = event.st = "READY_TO_CONNECT"]
             ELSE [NotAccepting(gc) EXCEPT !.active = FALSE, !.popup = 0]
  /\ joined' = IF gc.mode = "accept" THEN joined ELSE joined \cup {event.match}
  /\ shown' = shown \cup {event.match}
  /\ arm' = IF gc.mode = "accept" THEN [arm EXCEPT !.on = TRUE, !.for = event.match]
            ELSE [arm EXCEPT !.on = FALSE]
  /\ UNCHANGED session

HandleAssigned ==
  /\ GotResult(FALSE) /\ Assigned(Head(inbox).st)
  /\ (OfAccept /\ Head(inbox).match # gc.pend) \/ OfSearch
  /\ StartServerFlow(Head(inbox)) /\ GcOnly

HandleSameMatch ==
  /\ GotResult(FALSE) /\ Assigned(Head(inbox).st) /\ OfAccept /\ Head(inbox).match = gc.pend
  /\ IF Head(inbox).st = "READY_TO_CONNECT" THEN TryConnect([gc EXCEPT !.backend = TRUE])
       ELSE UNCHANGED <<gc, joined, session>>
  /\ UNCHANGED <<arm, shown>> /\ GcOnly

\* WithdrawAccept: the popup closes, the search goes on.
HandleWithdrawn ==
  /\ GotResult(FALSE) /\ Head(inbox).st = "SEARCHING" /\ OfAccept
  /\ gc' = [NotAccepting(gc) EXCEPT !.popup = 0, !.active = TRUE]
  /\ arm' = [arm EXCEPT !.on = FALSE]
  /\ UNCHANGED <<shown, joined, session>> /\ GcOnly

\* EndAccept, and the end of a search without an Accept.
HandleEnded ==
  /\ GotResult(FALSE) /\ Head(inbox).st = "ENDED"
  /\ \/ /\ OfAccept
        /\ gc' = [NoGc EXCEPT !.follows = gc.follows]
        /\ arm' = [arm EXCEPT !.on = FALSE]
     \/ /\ OfSearch
        /\ gc' = [gc EXCEPT !.active = FALSE, !.mode = "none"]
        /\ UNCHANGED arm
  /\ UNCHANGED <<shown, joined, session>> /\ GcOnly

\* A result of another search, or one that only the log tells.
HandleOther ==
  /\ GotResult(FALSE)
  /\ ~OfAccept /\ (~OfSearch \/ Head(inbox).st = "SEARCHING")
  /\ UNCHANGED <<game, session>> /\ GcOnly

---------------------------------------------------------------------------
(* The game, the player and the game server.                               *)

\* The player presses Play ...
PressPlay ==
  /\ count.own < world.own /\ arm.seen = 0 /\ (world.calm => ~row.member)
  /\ Post([kind |-> "start", rid |-> count.own + 1])
  /\ count' = [count EXCEPT !.own = @ + 1] /\ queued' = TRUE
  /\ UNCHANGED <<backend, late, worker, game, full, world>>

\* ... or stops, which a client also does when it connects.
PressStop ==
  /\ queued /\ arm.seen = 0
  /\ Post([kind |-> "stop"])
  /\ queued' = FALSE
  /\ UNCHANGED <<backend, late, worker, game, full, count, world>>

\* Everybody accepts at the game server of the match, this player in its popup.
PlayersAccept ==
  /\ gc.popup # 0 /\ gc.popup \notin full
  /\ full' = full \cup {gc.popup}
  /\ UNCHANGED <<backend, late, worker, inbox, game, count, queued, world>>

\* InspectReserveCheckResponse: the packet is from the server the client is
\* armed for ...
Inspect(m) ==
  /\ m \in full /\ arm.on /\ arm.for = m /\ arm.seen = 0
  /\ world.exact => inbox = <<>>
  /\ arm' = [arm EXCEPT !.seen = m]
  /\ UNCHANGED <<backend, late, worker, inbox, gc, left, shown, joined, full, count, queued, world>>

\* ... and the first report of an armed client counts.
Notify ==
  /\ arm.seen # 0
  /\ IF arm.on THEN Post([kind |-> "full"]) ELSE UNCHANGED inbox
  /\ arm' = [arm EXCEPT !.on = FALSE, !.seen = 0]
  /\ UNCHANGED <<backend, late, worker, gc, left, shown, joined, full, count, queued, world>>

\* The game is closed or dies and is started again.
Restart ==
  /\ count.crash < world.restarts
  /\ count' = [count EXCEPT !.crash = @ + 1]
  /\ w' = Idle(FALSE) /\ session' = NoSession /\ active' = 0 /\ adopted' = 0 /\ jobs' = <<>>
  /\ inbox' = <<>> /\ gc' = NoGc /\ arm' = Disarmed /\ left' = {} /\ shown' = {} /\ joined' = {} /\ queued' = FALSE
  /\ late' \in {late} \cup (IF ~world.prompt /\ late = {} /\ Waiting /\ w.kind \in {"register", "accepted", "cancel"}
                              THEN {{[kind |-> w.kind, rid |-> w.rid]}} ELSE {})
  /\ UNCHANGED <<backend, full, world>>

---------------------------------------------------------------------------
Backend ==
  \/ \E m \in Ids : Assign(m)
  \/ OthersAccept \/ Dissolve \/ Complete \/ Expire \/ Remove \/ LeaderStarts
  \/ \E req \in late : ServeLate(req)

Work ==
  \/ PickJob \/ PickStep \/ PickWatch
  \/ Serve \/ TimeOut
  \/ Ignored \/ Lost \/ Rejected \/ Answered \/ Adopt \/ NothingFound

Handle ==
  \/ HandleStart \/ HandleStop \/ HandleFull \/ HandleDiscovered
  \/ HandleAssigned \/ HandleSameMatch \/ HandleWithdrawn \/ HandleEnded \/ HandleOther

Environment ==
  \/ PressPlay \/ PressStop \/ PlayersAccept
  \/ \E m \in Ids : Inspect(m)
  \/ Notify \/ Restart

Next == Backend \/ Work \/ GiveUp \/ Handle \/ Environment

Spec == Init /\ [][Next]_vars

FairSpec ==
  /\ Spec
  /\ WF_vars(Work) /\ SF_vars(Serve) /\ WF_vars(Handle) /\ WF_vars(Notify)
  /\ WF_vars(Dissolve) /\ WF_vars(Complete) /\ WF_vars(Expire)

---------------------------------------------------------------------------
\* Every part of the state has its type and the queue of the worker its limit.
States == {"none", "SEARCHING", "WAITING_ACCEPT", "READY_TO_CONNECT"}
Kinds == {"register", "poll", "account", "cancel", "accepted", "snapshot"}
Events ==
  [kind : {"start"}, rid : Searches] \cup [kind : {"stop", "full"}] \cup
  [kind : {"result"}, rid : Searches, st : States \cup {"ENDED"}, match : Ids \cup {0}, discovered : BOOLEAN]

TypeOK ==
  /\ row \in [rid : Searches \cup {0}, member : BOOLEAN, st : States, match : Ids \cup {0},
              accepted : BOOLEAN, missed : 0..Misses]
  /\ ended \subseteq Searches /\ owner \in [Ids -> Searches \cup {0}] /\ ready \subseteq Ids
  /\ late \subseteq [kind : {"register", "cancel", "accepted"}, rid : Searches]
  /\ w \in [kind : Kinds \cup {"none"}, rid : Searches \cup {0}, tries : 0..Attempts,
            code : {"none", "ok", "unknown", "refused"}, st : States \cup {"ENDED"},
            match : Ids \cup {0}, member : BOOLEAN, stalled : BOOLEAN]
  /\ session \in [rid : Searches \cup {0}, phase : {"Register", "Poll", "Done"},
                  st : States \cup {"ENDED"}, match : Ids \cup {0}]
  /\ active \in Searches \cup {0} /\ adopted \in Searches \cup {0}
  /\ jobs \in Seq([kind : {"cancel", "accepted", "snapshot"}, rid : Searches]) /\ Len(jobs) <= QueueLimit
  /\ inbox \in Seq(Events)
  /\ gc \in [pend : Ids \cup {0}, server : BOOLEAN, backend : BOOLEAN, popup : Ids \cup {0},
             active : BOOLEAN, mode : {"none", "accept", "classic"}, follows : BOOLEAN]
  /\ arm \in [on : BOOLEAN, for : Ids \cup {0}, seen : Ids \cup {0}]
  /\ full \subseteq Ids /\ left \subseteq Searches /\ shown \subseteq Ids /\ joined \subseteq Ids
  /\ count \in [own : 0..Own, party : 0..Parties, match : Ids \cup {0}, crash : 0..Restarts]
  /\ queued \in BOOLEAN /\ world \in Worlds

\* What the player sees is what MatchOffer promises.  The game never returns to a
\* search it left, announces a match once and only one made for the search it
\* follows, and connects to a match with an Accept only when the game server and
\* the backend both had every accept - whatever answers come late, twice or not
\* at all, and whatever is still queued for the search it just left.
Offers == INSTANCE MatchOffer WITH
  None <- 0, search <- active, offered <- owner, agreed <- full \cap ready, found <- gc.popup
OfferSpec == Offers!Spec

\* A request of this game never ends the search the player wants: the cancel of
\* the search before, sent or handled late, does not hit the one that replaced it.
WantedGoesOn ==
  [][Serve \/ (\E req \in late : ServeLate(req)) => active \notin ended' \ ended]_vars

\* A search the backend does not have, although the worker polls it, is there
\* again some time, or the worker learns that it is over, or the player left it.
Heals ==
  \A r \in 1..Own :
    (session.rid = r /\ session.phase = "Poll" /\ row.rid # r) ~>
      (row.rid = r \/ session.rid # r \/ session.phase = "Done")

\* No Match Found popup stays up for ever: the game connects to the match, or the
\* player hears that it is over or leaves.
AcceptEnds == \A m \in Ids : gc.popup = m ~> gc.popup # m

\* SearchService.java:949: "The GC of a player says the game server reported
\* everybody accepted ... The backend does not take it on trust".  A match is
\* ACCEPTED only when everybody accepted at its own game server.
ReadyMeansFull == ready \subseteq full

\* SearchReaper.java:7: "so a player is never stuck in the queue if the GC or the
\* game crashed".  The search of a game that ended does not outlive it: where the game
\* that is started again has followed no search yet, the live one is of the former
\* game, and it ends some time or is followed again.
LeftBehind(r) == count.crash > 0 /\ row.rid = r /\ active = 0 /\ left = {}
NobodyStuck == \A r \in Searches : LeftBehind(r) ~> (row.rid # r \/ active # 0)
=============================================================================
