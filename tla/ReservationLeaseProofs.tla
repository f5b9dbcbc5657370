---------------------- MODULE ReservationLeaseProofs ----------------------
(* Theorems about the reservation lease, for any number of clients and any *)
(* settings that leave the engine's timeout longer than two refreshes.     *)
EXTENDS ReservationLease, FiniteSetTheorems, TLAPS

---------------------------------------------------------------------------
(* The inductive invariant.                                                *)

\* The count never exceeds the sessions that are open.
CountBound == clients <= Cardinality(Playing)

\* How old the reservation of an active lease may be: one interval, and one
\* more for each refusal the lease has suffered.
Allowance == since + (IF fails = 0 THEN 0 ELSE Refresh)

\* An active lease refreshed in time; while the thread is past Tick the next
\* refresh is not due.
InTime ==
  /\ host = "stop" => st = "Active"
  /\ host = "gone" => st # "Active"
  /\ st = "Active" => fails < MaxFailures /\ since <= Refresh
  /\ st = "Active" /\ host \in {"events", "idle"} => since < Refresh

Fresh ==
  st = "Active" /\ made /\ fails <= 1 =>
    cookie /\ (host # "stop" => age <= Allowance)

IInv == TypeOK /\ CountBound /\ InTime /\ Fresh

\* Where the session hook of a client can be.
Places == {"away", "counted", "stamped", "on", "leaving"}

---------------------------------------------------------------------------
(* Counting the open sessions.                                             *)

\* There are finitely many open sessions.
LEMMA PlayingFinite ==
  /\ IsFiniteSet(Playing) /\ Cardinality(Playing) \in Nat
  /\ Cardinality(Clients) \in Nat /\ Cardinality(Playing) <= Cardinality(Clients)
  /\ Cardinality(Playing) = 0 <=> Playing = {}
BY ClientsAreFinite, FS_Subset, FS_CardinalityType, FS_EmptySet DEF Playing

\* A session that opens is one more, ...
LEMMA OneOpens ==
  ASSUME NEW c \in Clients, step \in [Clients -> Places], step[c] = "away",
         step' = [step EXCEPT ![c] = "counted"]
  PROVE  Cardinality(Playing') = Cardinality(Playing) + 1
<1>1. Playing' = Playing \cup {c} /\ c \notin Playing
  BY DEF Playing
<1> QED BY <1>1, PlayingFinite, FS_AddElement

\* ... one that closes is one less, ...
LEMMA OneCloses ==
  ASSUME NEW c \in Clients, step \in [Clients -> Places], step[c] = "on",
         step' = [step EXCEPT ![c] = "leaving"]
  PROVE  Cardinality(Playing') = Cardinality(Playing) - 1 /\ Cardinality(Playing) >= 1
<1>1. Playing' = Playing \ {c} /\ c \in Playing
  BY DEF Playing
<1>2. Cardinality(Playing) # 0
  BY <1>1, PlayingFinite
<1> QED BY <1>1, <1>2, PlayingFinite, FS_RemoveElement

\* ... and the other steps of a hook change nothing about that.
LEMMA SameOpen ==
  ASSUME NEW c \in Clients, step \in [Clients -> Places], NEW s,
         \/ step[c] \in {"counted", "stamped"} /\ s \in {"stamped", "on"}
         \/ step[c] \in {"away", "leaving"} /\ s \in {"away", "leaving"},
         step' = [step EXCEPT ![c] = s]
  PROVE  Playing' = Playing
BY DEF Playing, Places

---------------------------------------------------------------------------
(* The steps.                                                              *)

LEMMA InitIInv == Init => IInv
<1> SUFFICES ASSUME Init PROVE IInv
  OBVIOUS
<1>1. Cardinality(Playing) \in Nat /\ Cardinality(Clients) \in Nat
  BY PlayingFinite
<1>2. TypeOK
  <2>1. fails \in 0..MaxFailures /\ since \in 0..(Refresh + 1) /\ clients \in 0..Cardinality(Clients)
        /\ quiet \in 0..Idle /\ age \in 0..EngineTimeout
    BY <1>1, TimesAreNatural DEF Init
  <2> QED BY <2>1 DEF Init, TypeOK
<1>3. CountBound /\ InTime /\ Fresh
  BY <1>1 DEF Init, CountBound, InTime, Fresh
<1> QED BY <1>2, <1>3 DEF IInv

\* What the engine is left with is well typed, whether it takes the order or not.
LEMMA ReserveTypes ==
  ASSUME TypeOK, NEW ok \in BOOLEAN, Reserve(ok)
  PROVE  cookie' \in BOOLEAN /\ age' \in 0..EngineTimeout
<1>1. CASE ok
  BY <1>1, TimesAreNatural DEF Reserve
<1>2. CASE ~ok
  BY <1>2 DEF Reserve, engine, TypeOK
<1> QED BY <1>1, <1>2

\* Start, from Tick or from the host queue, after which no refresh is due.
LEMMA StartIInv ==
  ASSUME IInv, NEW ok \in BOOLEAN, StartLease(ok), UNCHANGED <<clients, step, world>>, host' = "events"
  PROVE  IInv'
<1>1. UNCHANGED Playing
  BY DEF Playing
<1>2. TypeOK'
  <2>1. cookie' \in BOOLEAN /\ age' \in 0..EngineTimeout
    BY ReserveTypes DEF IInv, StartLease
  <2>2. st' \in {"Active", "Stopped"} /\ why' \in {"None", "Refused"} /\ fails' \in 0..MaxFailures
    BY TimesAreNatural DEF StartLease
  <2>3. since' \in 0..(Refresh + 1) /\ quiet' \in 0..Idle
    BY TimesAreNatural DEF StartLease
  <2>4. made' \in BOOLEAN /\ rearm' \in BOOLEAN
    BY Zenon DEF StartLease
  <2> QED BY <2>1, <2>2, <2>3, <2>4 DEF IInv, TypeOK
<1>3. CountBound'
  BY <1>1 DEF IInv, CountBound
<1>4. InTime'
  BY TimesAreNatural DEF IInv, TypeOK, StartLease, InTime
<1>5. Fresh'
  BY TimesAreNatural DEF StartLease, Fresh, Reserve, Allowance
<1> QED BY <1>2, <1>3, <1>4, <1>5 DEF IInv

\* The refresh: a refusal costs one interval, and the second one ends the claim.
LEMMA RefreshIInv == IInv /\ TickRefresh => IInv'
<1> SUFFICES ASSUME IInv, TickRefresh PROVE IInv'
  OBVIOUS
<1>1. PICK ok \in BOOLEAN :
        /\ Reserve(ok)
        /\ made' = (made \/ ok)
        /\ fails' = IF ok THEN 0 ELSE fails + 1
        /\ IF ~ok /\ fails + 1 >= MaxFailures THEN StopLease("Refused") ELSE UNCHANGED <<st, why, rearm>>
  BY DEF TickRefresh
<1>2. st = "Active" /\ host = "tick" /\ host' = "events" /\ since' = 0 /\ UNCHANGED <<clients, quiet, step, world>>
  BY DEF TickRefresh
<1>3. UNCHANGED Playing
  BY <1>2 DEF Playing
<1>4. TypeOK'
  <2>1. cookie' \in BOOLEAN /\ age' \in 0..EngineTimeout
    BY <1>1, ReserveTypes DEF IInv
  <2>2. fails' \in 0..MaxFailures
    BY <1>1, <1>2, TimesAreNatural DEF IInv, TypeOK, InTime
  <2>3. st' \in {"Active", "Stopped"} /\ why' \in {why, "Refused"} /\ rearm' \in BOOLEAN
    BY <1>1, <1>2 DEF IInv, TypeOK, StopLease
  <2>4. made' \in BOOLEAN
    BY <1>1
  <2> QED BY <1>2, <2>1, <2>2, <2>3, <2>4, TimesAreNatural DEF IInv, TypeOK
<1>5. CountBound'
  BY <1>2, <1>3 DEF IInv, CountBound
<1>6. InTime'
  BY <1>1, <1>2, TimesAreNatural DEF IInv, TypeOK, InTime, StopLease
<1>7. Fresh'
  <2>1. CASE ok
    BY <2>1, <1>1, <1>2, TimesAreNatural DEF Fresh, Reserve, Allowance
  <2>2. CASE ~ok
    <3>0. made \in BOOLEAN
      BY DEF IInv, TypeOK
    <3>1. cookie' = cookie /\ age' = age /\ made' = made /\ fails' = fails + 1
      BY <2>2, <3>0, <1>1 DEF Reserve, engine
    <3> SUFFICES ASSUME made', fails' <= 1, st' = "Active" PROVE cookie' /\ age' <= Allowance'
      BY DEF Fresh
    <3>2. fails = 0
      BY <3>1 DEF IInv, TypeOK
    <3>3. cookie /\ age <= since /\ since <= Refresh
      BY <3>1, <3>2, <1>2 DEF IInv, TypeOK, InTime, Fresh, Allowance
    <3> QED BY <3>1, <3>2, <3>3, <1>2, TimesAreNatural DEF Allowance, IInv, TypeOK
  <2> QED BY <2>1, <2>2
<1> QED BY <1>4, <1>5, <1>6, <1>7 DEF IInv

\* The other steps of the host thread.
LEMMA HostIInv == IInv /\ (Frame \/ HelloEvent \/ Shutdown) => IInv'
<1> SUFFICES ASSUME IInv, Frame \/ HelloEvent \/ Shutdown PROVE IInv'
  OBVIOUS
<1> USE DEF IInv
<1>0. UNCHANGED step => UNCHANGED Playing
  BY DEF Playing
<1>1. CASE NextFrame \/ TickNothing \/ EndFrame
  <2>1. UNCHANGED <<lease, engine, shared, step, world>> /\ host \notin {"stop", "gone"} /\ host' \in {"tick", "events", "idle"}
    BY <1>1 DEF NextFrame, TickNothing, EndFrame
  <2>2. TypeOK'
    BY <2>1 DEF TypeOK, lease, engine, shared
  <2>3. CountBound'
    BY <2>1, <1>0 DEF CountBound, shared
  <2>4. InTime'
    <3>1. host = "tick" /\ st = "Active" => since < Refresh
      BY <1>1, TimesAreNatural DEF NextFrame, TickNothing, EndFrame, RefreshDue, TypeOK
    <3>2. st' = st /\ since' = since /\ fails' = fails
      BY <2>1 DEF lease
    <3>3. host \in {"idle", "tick", "events"} /\ (host' = "tick" \/ host \in {"tick", "events"})
      BY <1>1 DEF NextFrame, TickNothing, EndFrame
    <3> QED BY <2>1, <3>1, <3>2, <3>3 DEF InTime
  <2>5. Fresh'
    BY <2>1 DEF Fresh, Allowance, lease, engine
  <2> QED BY <2>2, <2>3, <2>4, <2>5
<1>2. CASE TickRearm \/ HelloEvent
  BY <1>2, StartIInv DEF TickRearm, HelloEvent
<1>3. CASE TickRelease
  <2>1. TypeOK'
    BY <1>3, TimesAreNatural DEF TypeOK, TickRelease, Unreserve, lease, shared
  <2>2. CountBound'
    BY <1>3, <1>0 DEF CountBound, TickRelease, shared
  <2>3. InTime' /\ Fresh'
    BY <1>3 DEF InTime, Fresh, TickRelease, Unreserve, lease
  <2> QED BY <2>1, <2>2, <2>3
<1>4. CASE TickStop \/ Shutdown
  <2>1. UNCHANGED <<fails, since, made, engine, clients, quiet, step, world>> /\ st' # "Active"
        /\ host' \in {"events", "gone"}
    BY <1>4 DEF TickStop, Shutdown, StopLease
  <2>2. TypeOK'
    BY <1>4, <2>1 DEF TypeOK, TickStop, Shutdown, StopLease, engine
  <2>3. CountBound'
    BY <2>1, <1>0 DEF CountBound
  <2>4. InTime' /\ Fresh'
    BY <2>1 DEF InTime, Fresh
  <2> QED BY <2>2, <2>3, <2>4
<1>5. CASE TickRefresh
  BY <1>5, RefreshIInv
<1> QED BY <1>1, <1>2, <1>3, <1>4, <1>5 DEF Frame

\* The session hooks touch neither the lease nor the engine.
LEMMA HookIInv == ASSUME IInv, NEW c \in Clients, Hook(c) PROVE IInv'
<1> USE DEF IInv
<1>0. /\ step \in [Clients -> Places] /\ clients \in Nat
      /\ Cardinality(Playing) \in Nat /\ Cardinality(Clients) \in Nat
      /\ Cardinality(Playing') <= Cardinality(Clients)
  <2>1. Cardinality(Playing) \in Nat /\ Cardinality(Clients) \in Nat
    BY PlayingFinite
  <2>2. Cardinality(Playing') <= Cardinality(Clients)
    BY ClientsAreFinite, FS_Subset DEF Playing
  <2>3. step \in [Clients -> Places]
    BY DEF TypeOK, Places
  <2> QED BY <2>1, <2>2, <2>3 DEF TypeOK
<1>1. UNCHANGED <<lease, engine, host, world>>
  BY DEF Hook, Joined, JoinStamped, JoinFlagged, Left, PhantomLeft, LeftStamped
<1>2. CountBound' /\ clients' \in Nat
  <2>1. CASE Joined(c)
    <3>1. Cardinality(Playing') = Cardinality(Playing) + 1
      BY <1>0, <2>1, OneOpens DEF Joined
    <3> QED BY <1>0, <2>1, <3>1 DEF Joined, CountBound
  <2>2. CASE Left(c)
    <3>1. Cardinality(Playing') = Cardinality(Playing) - 1 /\ Cardinality(Playing) >= 1
      BY <1>0, <2>2, OneCloses DEF Left
    <3> QED BY <1>0, <2>2, <3>1 DEF Left, OneLess, CountBound
  <2>3. CASE JoinStamped(c) \/ JoinFlagged(c) \/ PhantomLeft(c) \/ LeftStamped(c)
    <3>1. Playing' = Playing
      BY <1>0, <2>3, SameOpen DEF JoinStamped, JoinFlagged, PhantomLeft, LeftStamped
    <3> QED BY <1>0, <2>3, <3>1
            DEF JoinStamped, JoinFlagged, PhantomLeft, LeftStamped, OneLess, CountBound, TypeOK
  <2> QED BY <2>1, <2>2, <2>3 DEF Hook
<1>3. clients' \in 0..Cardinality(Clients)
  <2>1. Cardinality(Playing') \in Nat
    BY ClientsAreFinite, FS_Subset, FS_CardinalityType DEF Playing
  <2> QED BY <1>0, <1>2, <2>1 DEF CountBound
<1>4. quiet' \in 0..Idle /\ rearm' \in BOOLEAN
      /\ step' \in [Clients -> Places]
  <2>1. quiet' \in {quiet, 0} /\ rearm' \in {rearm, TRUE}
    BY DEF Hook, Joined, JoinStamped, JoinFlagged, Left, PhantomLeft, LeftStamped, shared
  <2>2. PICK s \in Places : step' = [step EXCEPT ![c] = s]
    BY DEF Hook, Joined, JoinStamped, JoinFlagged, Left, PhantomLeft, LeftStamped, Places
  <2>3. quiet' \in 0..Idle
    BY <2>1, TimesAreNatural DEF TypeOK
  <2>4. rearm' \in BOOLEAN
    BY <2>1 DEF TypeOK
  <2> QED BY <2>2, <2>3, <2>4 DEF TypeOK, Places
<1>5. TypeOK'
  BY <1>1, <1>3, <1>4 DEF TypeOK, lease, engine, Places
<1>6. InTime' /\ Fresh'
  BY <1>1 DEF InTime, Fresh, Allowance, lease, engine
<1> QED BY <1>2, <1>5, <1>6

\* Time and the engine: a reservation within its allowance has not expired.
LEMMA WorldIInv == IInv /\ (EngineDrop \/ Elapse) => IInv'
<1> SUFFICES ASSUME IInv, EngineDrop \/ Elapse PROVE IInv'
  OBVIOUS
<1> USE DEF IInv
<1>0. UNCHANGED Playing
  BY DEF Playing, EngineDrop, Elapse
<1>1. CASE EngineDrop
  <2>1. TypeOK' /\ CountBound' /\ InTime'
    BY <1>0, <1>1 DEF TypeOK, CountBound, InTime, EngineDrop, lease, shared
  <2>2. ~(st = "Active" /\ made /\ fails <= 1)
    BY <1>1, TimesAreNatural, RefreshInTime DEF TypeOK, InTime, Fresh, Allowance, EngineDrop
  <2>3. Fresh'
    BY <1>1, <2>2 DEF Fresh, EngineDrop, lease
  <2> QED BY <2>1, <2>3
<1>2. CASE Elapse
  <2>1. TypeOK'
    BY <1>2, TimesAreNatural DEF TypeOK, Elapse, Least
  <2>2. CountBound'
    BY <1>0, <1>2 DEF CountBound, Elapse
  <2>3. InTime'
    BY <1>2, TimesAreNatural DEF TypeOK, InTime, Elapse, Least
  <2>4. Fresh'
    BY <1>2, TimesAreNatural DEF TypeOK, InTime, Fresh, Allowance, Elapse, Least
  <2> QED BY <2>1, <2>2, <2>3, <2>4
<1> QED BY <1>1, <1>2

LEMMA NextIInv == IInv /\ [Next]_vars => IInv'
<1>1. IInv /\ UNCHANGED vars => IInv'
  BY DEF IInv, TypeOK, CountBound, InTime, Fresh, Allowance, Playing, vars, lease, engine, shared
<1> QED BY <1>1, HostIInv, HookIInv, WorldIInv DEF Next

---------------------------------------------------------------------------
(* The theorems.                                                           *)

\* CountInRange: the types of the state, and the client count stays between
\* zero and the number of clients however their hooks interleave.
THEOREM CountInRange == Spec => []TypeOK
<1>1. IInv => TypeOK
  BY DEF IInv
<1> QED BY <1>1, InitIInv, NextIInv, PTL DEF Spec

\* ReservationKept: the reservation of an active lease that the engine took
\* once is there as long as no two refreshes in a row are refused.
THEOREM ReservationKept == Spec => []KeptAlive
<1>1. IInv => KeptAlive
  BY DEF IInv, Fresh, KeptAlive
<1> QED BY <1>1, InitIInv, NextIInv, PTL DEF Spec

---------------------------------------------------------------------------
(* The lease of a server in use: hooks on the host thread, and every       *)
(* session that ends was counted.                                          *)

\* Hooks on the host thread, no phantoms.
Counted == ~world.anyThread /\ ~world.phantoms

\* The count is exact, so a Tick that releases the reservation sees that
\* nobody is there.
Exact ==
  /\ clients = Cardinality(Playing)
  /\ host = "stop" => Playing = {}
  /\ InUseIsLeased

UseInv == IInv /\ (Counted => Exact)

LEMMA InitUse == Init => UseInv
<1> SUFFICES ASSUME Init PROVE UseInv
  OBVIOUS
<1>1. Playing = {}
  BY DEF Init, Playing
<1>2. clients = Cardinality(Playing)
  BY <1>1, PlayingFinite DEF Init
<1>3. Exact
  BY <1>1, <1>2 DEF Init, Exact, InUseIsLeased
<1> QED BY <1>3, InitIInv DEF UseInv

\* The host thread: only TickStop ends the lease of a running server as idle.
LEMMA HostUse ==
  ASSUME Counted, IInv, Exact, IInv', Frame \/ HelloEvent \/ Shutdown \/ EngineDrop \/ Elapse
  PROVE  Exact'
<1>1. UNCHANGED <<step, clients, Playing>>
  BY DEF Playing, Frame, HelloEvent, Shutdown, EngineDrop, Elapse, NextFrame, TickRearm, TickRelease,
         TickStop, TickRefresh, TickNothing, EndFrame, shared
<1>2. host' = "stop" => Playing' = {}
  <2>1. CASE TickRelease
    BY <1>1, <2>1, PlayingFinite DEF Exact, TickRelease, RanOut
  <2>2. CASE ~TickRelease
    BY <1>1, <2>2 DEF Exact, Frame, HelloEvent, Shutdown, EngineDrop, Elapse, NextFrame, TickRearm, TickStop,
                      TickRefresh, TickNothing, EndFrame
  <2> QED BY <2>1, <2>2
<1>3. InUseIsLeased'
  <2>1. CASE TickStop
    BY <1>1, <2>1 DEF Exact, InUseIsLeased, TickStop, Playing
  <2>2. CASE TickRearm \/ HelloEvent
    BY <2>2 DEF InUseIsLeased, TickRearm, HelloEvent, StartLease
  <2>3. CASE TickRefresh
    BY <2>3 DEF InUseIsLeased, TickRefresh, StopLease
  <2>4. CASE Shutdown
    BY <1>1, <2>4 DEF Exact, InUseIsLeased, Shutdown, StopLease
  <2>5. CASE NextFrame \/ TickRelease \/ TickNothing \/ EndFrame \/ EngineDrop \/ Elapse
    <3>1. UNCHANGED <<st, why, rearm>>
      BY <2>5 DEF NextFrame, TickRelease, TickNothing, EndFrame, EngineDrop, Elapse, lease, shared
    <3> QED BY <1>1, <3>1 DEF Exact, InUseIsLeased
  <2> QED BY <2>1, <2>2, <2>3, <2>4, <2>5 DEF Frame
<1> QED BY <1>1, <1>2, <1>3 DEF Exact

\* The session hooks: a player who arrives raises the flag last.
LEMMA HookUse ==
  ASSUME Counted, IInv, Exact, IInv', NEW c \in Clients, Hook(c)
  PROVE  Exact'
<1>0. step \in [Clients -> Places] /\ Cardinality(Playing) \in Nat
  BY PlayingFinite DEF IInv, TypeOK, Places
<1>1. host' = "idle" /\ UNCHANGED lease
  BY DEF Counted, Hook, CallMay, HookMay, Joined, JoinStamped, JoinFlagged, Left, PhantomLeft, LeftStamped
<1>2. clients' = Cardinality(Playing')
  <2>1. CASE Joined(c)
    BY <1>0, <2>1, OneOpens DEF Joined, Exact
  <2>2. CASE Left(c)
    <3>1. Cardinality(Playing') = Cardinality(Playing) - 1 /\ Cardinality(Playing) >= 1
      BY <1>0, <2>2, OneCloses DEF Left
    <3> QED BY <1>0, <2>2, <3>1 DEF Left, OneLess, Exact
  <2>3. CASE JoinStamped(c) \/ JoinFlagged(c) \/ LeftStamped(c)
    <3>1. Playing' = Playing
      BY <1>0, <2>3, SameOpen DEF JoinStamped, JoinFlagged, LeftStamped
    <3> QED BY <2>3, <3>1 DEF JoinStamped, JoinFlagged, LeftStamped, Exact
  <2> QED BY <2>1, <2>2, <2>3 DEF Counted, Hook, PhantomLeft
<1>3. InUseIsLeased'
  <2>1. CASE JoinFlagged(c)
    BY <2>1 DEF JoinFlagged, InUseIsLeased
  <2>2. CASE ~JoinFlagged(c)
    <3>1. rearm' = rearm /\ st' = st /\ why' = why
      BY <1>1, <2>2 DEF Hook, Joined, JoinStamped, Left, PhantomLeft, LeftStamped, lease, shared
    <3>2. \A d \in Clients : step'[d] = "on" => step[d] = "on"
      BY <1>0, <2>2 DEF Hook, Joined, JoinStamped, Left, PhantomLeft, LeftStamped
    <3> QED BY <3>1, <3>2 DEF Exact, InUseIsLeased
  <2> QED BY <2>1, <2>2
<1> QED BY <1>1, <1>2, <1>3 DEF Exact

\* LeasedInUse: where the hooks run on the host thread and every session that
\* ends was authenticated, nobody is ever on a server whose lease ran out
\* without the re-arm flag being up for the next Tick.
THEOREM LeasedInUse == Spec => []CountedInUseIsLeased
<1>1. UseInv /\ [Next]_vars => UseInv'
  <2> SUFFICES ASSUME UseInv, [Next]_vars PROVE UseInv'
    OBVIOUS
  <2>1. IInv'
    BY NextIInv DEF UseInv
  <2>2. UNCHANGED world
    BY DEF Next, vars, Frame, NextFrame, TickRearm, TickRelease, TickStop, TickRefresh, TickNothing, EndFrame,
           HelloEvent, Shutdown, EngineDrop, Elapse, Hook, Joined, JoinStamped, JoinFlagged, Left, PhantomLeft, LeftStamped
  <2> SUFFICES ASSUME Counted PROVE Exact'
    BY <2>1, <2>2 DEF UseInv, Counted
  <2>3. IInv /\ Exact
    BY DEF UseInv
  <2>4. CASE UNCHANGED vars
    BY <2>3, <2>4 DEF Exact, InUseIsLeased, Playing, vars, lease, shared
  <2> QED BY <2>1, <2>3, <2>4, HostUse, HookUse DEF Next
<1>2. UseInv => CountedInUseIsLeased
  BY DEF UseInv, Exact, Counted, CountedInUseIsLeased
<1> QED BY <1>1, <1>2, InitUse, PTL DEF Spec
===========================================================================
