------------------------- MODULE ReservationLease -------------------------
(***************************************************************************)
(* The reservation lease of a classic dedicated server: class Lease of     *)
(* csgo_gc/reservation_keepalive.h and its callers in steam_hook.cpp and   *)
(* gc_server.cpp.                                                          *)
(*                                                                         *)
(* The host thread runs frames; each begins with Lease::Tick and then      *)
(* drains the host events, one of which is the order to start the lease.   *)
(* The session hooks count the clients on the server.  They share three    *)
(* atomics with the host thread: the count, the time of the last join or   *)
(* leave and the re-arm flag.  The engine keeps the reservation for        *)
(* EngineTimeout seconds and drops it on an empty server.                  *)
(*                                                                         *)
(* Time is counted in seconds.  What passes between two accesses to the    *)
(* atomics by one call takes no time, and a second has at least one frame. *)
(***************************************************************************)
EXTENDS Integers, FiniteSets

CONSTANTS
  Clients,        \* accounts that come and go
  Refresh,        \* Settings::refreshSeconds
  Idle,           \* Settings::idleSeconds, 0 = the lease has no end
  MaxFailures,    \* Settings::maxFailures
  EngineTimeout,  \* sv_mmqueue_reservation_timeout
  Worlds          \* what the game may do, see world

ASSUME ClientsAreFinite == IsFiniteSet(Clients)
ASSUME TimesAreNatural ==
  /\ Refresh \in Nat \ {0} /\ Idle \in Nat
  /\ MaxFailures \in Nat \ {0} /\ EngineTimeout \in Nat
\* The engine outlives two refresh intervals (21 s against 8 s).
ASSUME RefreshInTime == 2 * Refresh < EngineTimeout
ASSUME WorldsAreSwitches == Worlds \subseteq [anyThread : BOOLEAN, phantoms : BOOLEAN]

VARIABLES
  st, why,    \* m_state and m_reason
  fails,      \* m_failures
  since,      \* seconds since m_lastRefresh
  clients,    \* m_clients
  quiet,      \* seconds since m_lastActivityMs
  rearm,      \* m_rearm
  cookie,     \* the engine holds the reservation
  age,        \* ... made or refreshed so many seconds ago
  made,       \* history: the engine took a reservation since the last Start
  host,       \* where the host thread is in its frame
  step,       \* where the session hook of a client is
  world       \* how the game behaves, fixed at the start: do its session hooks
              \* run beside the host thread, and does it end sessions that
              \* never authenticated

lease  == <<st, why, fails, since, made>>
engine == <<cookie, age>>
shared == <<clients, quiet, rearm>>
vars   == <<lease, engine, shared, host, step, world>>

Least(a, b) == IF a < b THEN a ELSE b

\* Clients whose session is authenticated and not yet ended.
Playing == {c \in Clients : step[c] \in {"counted", "stamped", "on"}}

\* No session hook is in the middle of its call.
Settled == \A c \in Clients : step[c] \in {"away", "on"}

Init ==
  /\ st = "Inactive" /\ why = "None" /\ fails = 0 /\ since = 0 /\ made = FALSE
  /\ clients = 0 /\ quiet = Idle /\ rearm = FALSE
  /\ cookie = FALSE /\ age = 0
  /\ host = "idle" /\ step = [c \in Clients |-> "away"]
  /\ world \in Worlds

---------------------------------------------------------------------------
(* Steps of the lease that several operations take.                        *)

\* IVEngineServer::ReserveServerForQueuedGame of the reserving payload; the
\* engine may refuse it for reasons of its own.
Reserve(ok) ==
  IF ok THEN cookie' = TRUE /\ age' = 0 ELSE UNCHANGED engine

\* The explicit release: the reservation has expired, and the engine clears it
\* when it next looks.
Unreserve == age' = EngineTimeout /\ UNCHANGED cookie

\* Lease::Stop.  Only an active lease stops.
StopLease(reason) ==
  IF st = "Active" THEN st' = "Stopped" /\ why' = reason /\ rearm' = FALSE
                   ELSE UNCHANGED <<st, why, rearm>>

\* Lease::Start of a lease that is not active, with the answer of the engine to
\* its first reservation, and Failed when there is only one attempt.
StartLease(ok) ==
  LET given == ~ok /\ 1 >= MaxFailures IN
  /\ st' = IF given THEN "Stopped" ELSE "Active"
  /\ why' = IF given THEN "Refused" ELSE "None"
  /\ fails' = IF ok THEN 0 ELSE 1
  /\ since' = 0
  /\ made' = ok
  /\ rearm' = FALSE /\ quiet' = 0
  /\ Reserve(ok)

\* Mutant: the flag counts only while somebody is on the server.
CanRearmOccupied == st = "Stopped" /\ why = "Idle" /\ rearm /\ clients > 0
\* A client came after the lease ran out.
CanRearm == st = "Stopped" /\ why = "Idle" /\ rearm

\* Mutant: nobody came or left for long, however many are there.
RanOutQuiet == Idle > 0 /\ quiet >= Idle
\* Nobody is counted, and nobody came or left for the whole idle lease.
RanOut == Idle > 0 /\ clients = 0 /\ quiet >= Idle

\* Mutant: a refresh one second late.
RefreshLate == since > Refresh
RefreshDue == since >= Refresh

---------------------------------------------------------------------------
(* The host thread.                                                        *)

HostMay == world.anyThread \/ Settled

NextFrame ==
  /\ host = "idle" /\ HostMay
  /\ host' = "tick"
  /\ UNCHANGED <<lease, engine, shared, step, world>>

\* Tick re-arms a lease that ran out.  The exchange of the flag and the write
\* of it in Start count as one: a flag that an active lease carries is cleared
\* by the Stop that could make it matter.
TickRearm ==
  /\ host = "tick" /\ CanRearm
  /\ \E ok \in BOOLEAN : StartLease(ok)
  /\ host' = "events"
  /\ UNCHANGED <<clients, step, world>>

\* Tick finds nobody and releases the reservation.  The stop is a step of its
\* own: a client can come between.
TickRelease ==
  /\ host = "tick" /\ st = "Active" /\ RanOut
  /\ Unreserve
  /\ host' = "stop"
  /\ UNCHANGED <<lease, shared, step, world>>

TickStop ==
  /\ host = "stop"
  /\ StopLease("Idle")
  /\ host' = "events"
  /\ UNCHANGED <<fails, since, made, engine, clients, quiet, step, world>>

\* Tick refreshes the reservation.  Refused MaxFailures times in a row, the
\* lease gives up.
TickRefresh ==
  /\ host = "tick" /\ st = "Active" /\ ~RanOut /\ RefreshDue
  /\ since' = 0
  /\ \E ok \in BOOLEAN :
       /\ Reserve(ok)
       /\ made' = (made \/ ok)
       /\ fails' = IF ok THEN 0 ELSE fails + 1
       /\ IF ~ok /\ fails + 1 >= MaxFailures
            THEN StopLease("Refused")
            ELSE UNCHANGED <<st, why, rearm>>
  /\ host' = "events"
  /\ UNCHANGED <<clients, quiet, step, world>>

\* Tick has nothing to do in this frame.
TickNothing ==
  /\ host = "tick"
  /\ IF st = "Active" THEN ~RanOut /\ ~RefreshDue ELSE ~CanRearm
  /\ host' = "events"
  /\ UNCHANGED <<lease, engine, shared, step, world>>

\* The game server said hello and its order reached the host queue: Start.  An
\* active lease ignores it, there is one cookie.
HelloEvent ==
  /\ host = "events" /\ st # "Active"
  /\ \E ok \in BOOLEAN : StartLease(ok)
  /\ UNCHANGED <<clients, host, step, world>>

\* The queue is empty, or the server is not logged on.
EndFrame ==
  /\ host = "events"
  /\ host' = "idle"
  /\ UNCHANGED <<lease, engine, shared, step, world>>

\* The destructor of ServerGC; the hooks no longer find it.
Shutdown ==
  /\ host = "idle" /\ Settled
  /\ StopLease("Shutdown")
  /\ host' = "gone"
  /\ UNCHANGED <<fails, since, made, engine, clients, quiet, step, world>>

---------------------------------------------------------------------------
(* The session hooks: BeginAuthSession and EndAuthSession.                 *)

HookMay == host # "gone" /\ (world.anyThread \/ host = "idle")

\* On the host thread a call begins when the one before has returned.
CallMay == HookMay /\ (world.anyThread \/ Settled)

\* Lease::ClientJoined, one step per atomic.
Joined(c) ==
  /\ CallMay /\ step[c] = "away"
  /\ clients' = clients + 1
  /\ step' = [step EXCEPT ![c] = "counted"]
  /\ UNCHANGED <<lease, engine, quiet, rearm, host, world>>

JoinStamped(c) ==
  /\ HookMay /\ step[c] = "counted"
  /\ quiet' = 0
  /\ step' = [step EXCEPT ![c] = "stamped"]
  /\ UNCHANGED <<lease, engine, clients, rearm, host, world>>

JoinFlagged(c) ==
  /\ HookMay /\ step[c] = "stamped"
  /\ rearm' = TRUE
  /\ step' = [step EXCEPT ![c] = "on"]
  /\ UNCHANGED <<lease, engine, clients, quiet, host, world>>

\* Mutant: the count may fall below zero.
OneLessAlways == clients - 1
\* The count of ClientLeft: it never falls below zero.
OneLess == IF clients > 0 THEN clients - 1 ELSE clients

\* Lease::ClientLeft, one step per atomic.
Left(c) ==
  /\ CallMay /\ step[c] = "on"
  /\ clients' = OneLess
  /\ step' = [step EXCEPT ![c] = "leaving"]
  /\ UNCHANGED <<lease, engine, quiet, rearm, host, world>>

\* ... and the same call for a session that BeginAuthSession refused.
PhantomLeft(c) ==
  /\ world.phantoms
  /\ CallMay /\ step[c] = "away"
  /\ clients' = OneLess
  /\ step' = [step EXCEPT ![c] = "leaving"]
  /\ UNCHANGED <<lease, engine, quiet, rearm, host, world>>

LeftStamped(c) ==
  /\ HookMay /\ step[c] = "leaving"
  /\ quiet' = 0
  /\ step' = [step EXCEPT ![c] = "away"]
  /\ UNCHANGED <<lease, engine, clients, rearm, host, world>>

---------------------------------------------------------------------------
(* The engine and the clock.                                               *)

\* The engine drops an expired reservation of an empty server; its own frame
\* runs on the host thread, never inside a call of the lease.
EngineDrop ==
  /\ host # "stop"
  /\ cookie /\ age >= EngineTimeout /\ Playing = {}
  /\ cookie' = FALSE
  /\ UNCHANGED <<lease, age, shared, host, step, world>>

\* A second passes; a frame of the host follows.
Elapse ==
  /\ host \in {"idle", "gone"} /\ Settled
  /\ since' = Least(since + 1, Refresh + 1)
  /\ quiet' = Least(quiet + 1, Idle)
  /\ age' = Least(age + 1, EngineTimeout)
  /\ host' = IF host = "idle" THEN "tick" ELSE host
  /\ UNCHANGED <<st, why, fails, made, cookie, clients, rearm, step, world>>

Frame ==
  \/ NextFrame
  \/ TickRearm
  \/ TickRelease
  \/ TickStop
  \/ TickRefresh
  \/ TickNothing
  \/ EndFrame

Hook(c) ==
  \/ Joined(c) \/ JoinStamped(c) \/ JoinFlagged(c)
  \/ Left(c) \/ PhantomLeft(c) \/ LeftStamped(c)

Next ==
  \/ Frame
  \/ HelloEvent
  \/ Shutdown
  \/ \E c \in Clients : Hook(c)
  \/ EngineDrop
  \/ Elapse

Spec == Init /\ [][Next]_vars

\* The game calls SteamGameServer_RunCallbacks every frame, however many
\* sessions begin and end, and a call that is under way returns.
FairSpec ==
  /\ Spec
  /\ SF_vars(NextFrame) /\ WF_vars(Frame)
  /\ \A c \in Clients : WF_vars(JoinStamped(c) \/ JoinFlagged(c) \/ LeftStamped(c))

---------------------------------------------------------------------------
(* Properties.                                                             *)

\* Types, and the ranges of the clocks.  A lost update of the client count
\* would show as a count outside 0..Cardinality(Clients).
TypeOK ==
  /\ st \in {"Inactive", "Active", "Stopped"}
  /\ why \in {"None", "Idle", "Refused", "Shutdown"}
  /\ fails \in 0..MaxFailures /\ since \in 0..(Refresh + 1) /\ made \in BOOLEAN
  /\ clients \in 0..Cardinality(Clients) /\ quiet \in 0..Idle /\ rearm \in BOOLEAN
  /\ cookie \in BOOLEAN /\ age \in 0..EngineTimeout
  /\ host \in {"idle", "tick", "stop", "events", "gone"}
  /\ step \in [Clients -> {"away", "counted", "stamped", "on", "leaving"}]
  /\ world \in Worlds

\* An active lease whose reservation the engine took once never loses it as
\* long as no two refreshes in a row are refused, whatever clients and other
\* threads do (the purpose of Lease, and the choice of RefreshSeconds).
KeptAlive == st = "Active" /\ made /\ fails <= 1 => cookie

\* A player is never on a server whose lease ran out, unless the next Tick
\* re-arms it ("While a client is on the server the lease does not run out").
InUseIsLeased ==
  st = "Stopped" /\ why = "Idle" /\ {c \in Clients : step[c] = "on"} # {} => rearm

\* The same where the hooks run on the host thread and only sessions that
\* authenticated are ended: ClientJoined and ClientLeft count exactly.
CountedInUseIsLeased == ~world.anyThread /\ ~world.phantoms => InUseIsLeased

\* A lease that ran out and that a client touched afterwards is active again
\* at a later frame, or its reservation is refused, or the server goes away
\* (the first branch of Tick).
ReArmed == CanRearm ~> (st = "Active" \/ why = "Refused" \/ host = "gone")
===========================================================================
