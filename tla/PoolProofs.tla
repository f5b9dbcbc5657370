------------------------------ MODULE PoolProofs ------------------------------
(***************************************************************************)
(* The backend implements ServerPool: every statement of every handler is  *)
(* a step of it or leaves its state alone.                                 *)
(***************************************************************************)
EXTENDS MatchmakingProofs

-----------------------------------------------------------------------------
(* What the refinement needs beside the invariant of the reservations. *)

\* a server is RESERVED for a match that has this server, and has it still or is over
ReservedBy ==
  \A v \in Servers :
    /\ server[v].st = "RESERVED" <=> server[v].by # None
    /\ server[v].by # None =>
         /\ match[server[v].by].sv = v
         /\ PhaseOf(match[server[v].by]) \in {"held", "over"}

\* only an Accept match is ever FULL
FullIsAccept == \A m \in MatchIds : match[m].st = "FULL" => match[m].mode \in AcceptModes

PSafe == ReservedBy /\ FullIsAccept
PInv  == IInv /\ PSafe

PoolStep == [Promise!Next]_(Promise!vars)

-----------------------------------------------------------------------------
(* Phases. *)

\* how far a match is says in which states it is
LEMMA PhaseIs ==
  ASSUME NEW row \in MatchType
  PROVE  /\ PhaseOf(row) = "none" <=> row.mode \notin AcceptModes \/ row.st = "NONE"
         /\ PhaseOf(row) = "waiting" <=> row.mode \in AcceptModes /\ row.st \in Gathering
         /\ PhaseOf(row) = "held" <=> row.mode \in AcceptModes /\ row.st \in Holding
         /\ PhaseOf(row) = "over" <=> row.mode \in AcceptModes /\ row.st \in Over
BY DEF PhaseOf, MatchType, Gathering, Holding, Over

\* the mapped variables after a step
LEMMA Mapped ==
  ASSUME PInv
  PROVE  /\ match \in [MatchIds -> MatchType] /\ server \in [Servers -> ServerType]
         /\ \A v \in Servers : server[v].by \in MatchIds \cup {None}
BY DEF PInv, IInv, TypeOK, ServerType

-----------------------------------------------------------------------------
(* Steps that leave the abstract state alone. *)

\* no server changes hands and no match changes its phase, or a server it has
LEMMA PoolStutter ==
  ASSUME PInv, IInv',
         \A v \in Servers : /\ server'[v].by = server[v].by
                            /\ server'[v].st = "RESERVED" <=> server[v].st = "RESERVED",
         \A m \in MatchIds :
           /\ PhaseOf(match'[m]) = PhaseOf(match[m])
           /\ PhaseOf(match[m]) \in {"held", "over"} => match'[m].sv = match[m].sv
           /\ match'[m].st = "FULL" => match'[m].mode \in AcceptModes
  PROVE  PSafe' /\ PoolStep
<1>1. \A v \in Servers : server[v].by \in MatchIds \cup {None}
  BY Mapped
<1>2. UNCHANGED Promise!vars
  BY DEF Promise!vars
<1>3. ReservedBy'
  BY <1>1 DEF ReservedBy, PInv, PSafe
<1>4. FullIsAccept'
  BY DEF FullIsAccept
<1> QED BY <1>2, <1>3, <1>4 DEF PSafe, PoolStep

\* statements on searches, reads, and the start of a handler
LEMMA PoolQuiet ==
  ASSUME PInv, IInv', UNCHANGED <<match, server>>
  PROVE  PSafe' /\ PoolStep
BY PoolStutter DEF PInv, PSafe, FullIsAccept

\* one match goes on to another status of the same phase
LEMMA PoolRow ==
  ASSUME PInv, IInv', UNCHANGED server, NEW m \in MatchIds, NEW row \in MatchType,
         match' = [match EXCEPT ![m] = row],
         PhaseOf(row) = PhaseOf(match[m]), row.sv = match[m].sv,
         row.st = "FULL" => row.mode \in AcceptModes
  PROVE  PSafe' /\ PoolStep
<1>1. match'[m] = row /\ \A o \in MatchIds \ {m} : match'[o] = match[o]
  BY Mapped
<1> QED BY <1>1, PoolStutter DEF PInv, PSafe, FullIsAccept

-----------------------------------------------------------------------------
(* Steps of ServerPool. *)

\* a server loses its reservation, for no match that needs it
LEMMA PoolGiveBack ==
  ASSUME PInv, IInv', UNCHANGED match, NEW v \in Servers, NEW row \in ServerType,
         server' = [server EXCEPT ![v] = row], row.by = None, row.st # "RESERVED",
         \A m \in MatchIds : server[v].by = m => ~Needs(m, v)
  PROVE  PSafe' /\ PoolStep
<1>1. server'[v] = row /\ \A w \in Servers \ {v} : server'[w] = server[w]
  BY Mapped
<1>2. ReservedBy' /\ FullIsAccept'
  BY <1>1 DEF PInv, PSafe, ReservedBy, FullIsAccept
<1>3. CASE server[v].by = None
  <2>1. \A w \in Servers : server'[w].by = server[w].by
    BY <1>1, <1>3
  <2> QED BY <1>2, <2>1 DEF PSafe, PoolStep, Promise!vars
<1>4. CASE server[v].by # None
  <2>1. server[v].by \in MatchIds /\ match[server[v].by] \in MatchType
    BY <1>4, Mapped
  <2>2. PhaseOf(match[server[v].by]) = "over"
    BY <1>4, <2>1, PhaseIs DEF PInv, PSafe, ReservedBy, Needs, AcceptRequired
  <2> DEFINE before == [w \in Servers |-> server[w].by]
             after  == [w \in Servers |-> server'[w].by]
  <2>3. after = [before EXCEPT ![v] = None]
    <3>1. after[v] = None /\ \A w \in Servers \ {v} : after[w] = before[w]
      BY <1>1
    <3> QED BY <3>1
  <2>4. Promise!GiveBack(v)
    BY <1>4, <2>1, <2>2, <2>3 DEF Promise!GiveBack
  <2> QED BY <1>2, <2>4 DEF PSafe, PoolStep, Promise!Next
<1> QED BY <1>3, <1>4

\* the argument of the task that runs
LEMMA PoolHead ==
  ASSUME PInv, todo # <<>>
  PROVE  /\ Head(todo) \in Task
         /\ Head(todo).op \in {"left", "end", "release", "full", "assign", "accepted"}
              => Head(todo).m \in MatchIds /\ match[Head(todo).m] \in MatchType
         /\ Head(todo).op \in {"place", "fill", "reserve", "orphan"}
              => \A x \in Head(todo).pend :
                   CASE Head(todo).op = "place" -> x \in SearchIds
                     [] Head(todo).op = "orphan" -> x \in Servers
                     [] OTHER -> x \in MatchIds /\ match[x] \in MatchType
<1> DEFINE t == Head(todo)
<1>1. t \in Task
  BY HeadTailProperties DEF PInv, IInv, TypeOK
<1>2. match \in [MatchIds -> MatchType]
  BY Mapped
<1> HIDE DEF t
<1>3. /\ t.op \in {"left", "end", "release", "full", "assign", "accepted"} => t.m \in MatchIds
      /\ t.op = "place" => t.pend \in SUBSET SearchIds
      /\ t.op = "orphan" => t.pend \in SUBSET Servers
      /\ t.op \in {"fill", "reserve"} => t.pend \in SUBSET MatchIds
  BY <1>1, TaskFields
<1> QED BY <1>1, <1>2, <1>3 DEF t

\* the orphan timer sweeps only what no match needs
LEMMA PoolOrphan == PInv /\ IInv' /\ ReleaseOrphan => PSafe' /\ PoolStep
<1> SUFFICES ASSUME PInv, IInv', ReleaseOrphan PROVE PSafe' /\ PoolStep OBVIOUS
<1> DEFINE t == Head(todo)
<1>1. todo # <<>> /\ t.op = "orphan" /\ UNCHANGED match
  BY DEF ReleaseOrphan, Now
<1>2. PICK v \in t.pend : server' = [server EXCEPT ![v].st = "AVAILABLE", ![v].by = None, ![v].cool = FALSE]
  BY DEF ReleaseOrphan
<1> DEFINE row == [server[v] EXCEPT !.st = "AVAILABLE", !.by = None, !.cool = FALSE]
<1>3. v \in Servers /\ server[v] \in ServerType
  BY <1>1, PoolHead, Mapped
<1>4. row \in ServerType /\ row.by = None /\ row.st # "RESERVED" /\ server' = [server EXCEPT ![v] = row]
  BY <1>2, <1>3 DEF ServerType
<1>5. \A m \in MatchIds : ~Needs(m, v)
  BY <1>1, <1>3 DEF PInv, IInv, SweepIsSafe
<1> HIDE DEF row
<1> QED BY <1>1, <1>3, <1>4, <1>5, PoolGiveBack

\* an ended match gives its own server back
LEMMA PoolRelease == PInv /\ IInv' /\ Release => PSafe' /\ PoolStep
<1> SUFFICES ASSUME PInv, IInv', Release PROVE PSafe' /\ PoolStep OBVIOUS
<1> DEFINE t == Head(todo)
           v == match[t.m].sv
           row == [server[v] EXCEPT !.st = "AVAILABLE", !.by = None, !.cool = (t.free = "cool")]
<1>1. todo # <<>> /\ t.op = "release" /\ UNCHANGED match
  BY DEF Release, Now
<1>2. t.m \in MatchIds /\ v \in Servers \cup {None} /\ match[t.m].st \notin Holding
  BY <1>1, PoolHead DEF PInv, IInv, ReleaseIsSafe, MatchType
<1>3. CASE server' = server
  BY <1>1, <1>3, PoolQuiet
<1>4. CASE v \in Servers /\ server[v].by = t.m /\ server' = [server EXCEPT ![v] = row]
  <2>1. (t.free = "cool") \in BOOLEAN /\ server[v] \in ServerType
    BY <1>4, Mapped
  <2>2. row \in ServerType /\ row.by = None /\ row.st # "RESERVED"
    BY <2>1 DEF ServerType
  <2>3. \A m \in MatchIds : server[v].by = m => ~Needs(m, v)
    BY <1>2, <1>4 DEF Needs
  <2> HIDE DEF row, v
  <2> QED BY <1>1, <1>4, <2>2, <2>3, PoolGiveBack
<1>5. server' = server \/ (server[v].by = t.m /\ server' = [server EXCEPT ![v] = row])
  BY DEF Release
<1>6. v \notin Servers => [server EXCEPT ![v] = row] = server
  <2> HIDE DEF row, v
  <2> QED BY Mapped
<1> HIDE DEF row, v
<1> QED BY <1>2, <1>3, <1>4, <1>5, <1>6

\* an administrator or the game server takes a server away, from no match that needs it
LEMMA PoolSetServer == PInv /\ IInv' /\ SetServer => PSafe' /\ PoolStep
<1> SUFFICES ASSUME PInv, IInv', SetServer PROVE PSafe' /\ PoolStep OBVIOUS
<1> DEFINE t == Head(todo)
           v == t.v
           row == [server[v] EXCEPT !.st = t.st, !.by = None, !.cool = FALSE]
<1>1. /\ todo # <<>> /\ t.op = "set" /\ UNCHANGED match
      /\ server' = [server EXCEPT ![v] = row]
  BY DEF SetServer, Now
<1>2. v \in Servers /\ t.st \in Wish /\ server[v] \in ServerType
  <2>1. t \in Task
    BY <1>1, PoolHead
  <2> QED BY <1>1, <2>1, TaskFields, Mapped
<1>3. row \in ServerType /\ row.by = None /\ row.st # "RESERVED"
  BY <1>2 DEF ServerType, Wish
<1>4. \A m \in MatchIds : ~Needs(m, v)
  BY <1>1, <1>2 DEF PInv, IInv, SetIsSafe
<1> HIDE DEF row
<1> QED BY <1>1, <1>2, <1>3, <1>4, PoolGiveBack

\* a match that gathers is inserted for an id no server is reserved for
LEMMA PoolNew ==
  ASSUME PInv, IInv', UNCHANGED server, NEW m \in FreshMatches, NEW mode \in Modes,
         NEW v \in Servers \cup {None}, NEW map \in MapOrNone,
         match' = [match EXCEPT ![m] = NewMatch(mode, v, map)]
  PROVE  PSafe' /\ PoolStep
<1> DEFINE row == NewMatch(mode, v, map)
<1>1. m \in MatchIds /\ match[m].st = "NONE" /\ match[m] \in MatchType
  BY Mapped DEF FreshMatches
<1>2. row \in MatchType /\ row.st = "FORMING" /\ row.mode = mode
  BY NoRowTypes DEF NewMatch, NoMatch, MatchType, Gathering
<1> HIDE DEF row
<1>3. match'[m] = row /\ \A o \in MatchIds \ {m} : match'[o] = match[o]
  BY <1>1, Mapped DEF row
<1>4. PhaseOf(match[m]) = "none" /\ PhaseOf(row) \in {"none", "waiting"}
  BY <1>1, <1>2, PhaseIs DEF Gathering
<1>5. CASE PhaseOf(row) = "none"
  BY <1>1, <1>2, <1>3, <1>4, <1>5, PoolStutter DEF PInv, PSafe, FullIsAccept
<1>6. CASE PhaseOf(row) = "waiting"
  <2>1. \A w \in Servers : server[w].by # m
    BY <1>1, <1>4, NoneAssumption DEF PInv, PSafe, ReservedBy
  <2>2. ReservedBy'
    BY <1>3, <2>1, Mapped DEF PInv, PSafe, ReservedBy
  <2>3. FullIsAccept'
    BY <1>2, <1>3 DEF PInv, PSafe, FullIsAccept
  <2> DEFINE before == [o \in MatchIds |-> PhaseOf(match[o])]
             after  == [o \in MatchIds |-> PhaseOf(match'[o])]
  <2>4. after = [before EXCEPT ![m] = "waiting"]
    <3>1. after[m] = "waiting" /\ \A o \in MatchIds \ {m} : after[o] = before[o]
      BY <1>1, <1>3, <1>6
    <3> QED BY <1>1, <3>1
  <2>5. Promise!Gather(m)
    BY <1>1, <1>4, <2>4 DEF Promise!Gather, Promise!Turn
  <2> QED BY <1>1, <2>2, <2>3, <2>5 DEF PSafe, PoolStep, Promise!Next
<1> QED BY <1>4, <1>5, <1>6

\* place joins a match that gathers or inserts one
LEMMA PoolPlace == PInv /\ IInv' /\ PlaceSearch => PSafe' /\ PoolStep
<1> SUFFICES ASSUME PInv, IInv', PlaceSearch PROVE PSafe' /\ PoolStep OBVIOUS
<1> DEFINE t == Head(todo)
<1>1. todo # <<>> /\ t.op = "place" /\ UNCHANGED server
  BY DEF PlaceSearch, Now
<1>2. PICK s \in t.pend : IF search[s].ask.mode \in AcceptModes
                         THEN PlaceAccept(s, Rest(t, s)) ELSE PlaceClassic(s, Rest(t, s))
  BY DEF PlaceSearch
<1>3. search[s].ask.mode \in Modes
  <2>1. s \in SearchIds
    BY <1>1, PoolHead
  <2>2. search[s].ask \in Choices
    BY <2>1 DEF PInv, IInv, TypeOK, SearchType
  <2> QED BY <2>2, ChoicesAssumption
<1>4. \/ UNCHANGED match
      \/ \E m \in FreshMatches, mode \in Modes, v \in Servers \cup {None}, map \in MapOrNone :
           match' = [match EXCEPT ![m] = NewMatch(mode, v, map)]
  <2>1. CASE PlaceAccept(s, Rest(t, s))
    <3>1. None \in Servers \cup {None} /\ NoMap \in MapOrNone
      BY DEF MapOrNone
    <3> QED BY <1>3, <2>1, <3>1 DEF PlaceAccept
  <2>2. CASE PlaceClassic(s, Rest(t, s))
    <3>1. \A v \in Servers : server[v].mode \in Modes /\ server[v].map \in MapOrNone
      BY Mapped DEF ServerType
    <3>2. Pickable(s) \in SUBSET Servers
      BY DEF Pickable
    <3> QED BY <2>2, <3>1, <3>2 DEF PlaceClassic
  <2> QED BY <1>2, <2>1, <2>2
<1> QED BY <1>1, <1>4, PoolNew, PoolQuiet

\* a FULL match and an AVAILABLE server are brought together in one transaction
LEMMA PoolReserve == PInv /\ IInv' /\ ReserveServer => PSafe' /\ PoolStep
<1> SUFFICES ASSUME PInv, IInv', ReserveServer PROVE PSafe' /\ PoolStep OBVIOUS
<1> DEFINE t == Head(todo)
<1>1. todo # <<>> /\ t.op = "reserve"
  BY DEF ReserveServer, Now
<1>2. PICK m \in t.pend :
        \/ UNCHANGED <<match, server>>
        \/ /\ match[m].st = "FULL"
           /\ \E v \in Candidates(m) :
                /\ server' = [server EXCEPT ![v].st = "RESERVED", ![v].by = m, ![v].cool = FALSE]
                /\ match' = [match EXCEPT ![m].st = "READY", ![m].sv = v, ![m].map = server[v].map]
  BY DEF ReserveServer
<1>3. m \in MatchIds /\ match[m] \in MatchType
  BY <1>1, PoolHead
<1>4. ASSUME match[m].st = "FULL", NEW v \in Candidates(m),
             server' = [server EXCEPT ![v].st = "RESERVED", ![v].by = m, ![v].cool = FALSE],
             match' = [match EXCEPT ![m].st = "READY", ![m].sv = v, ![m].map = server[v].map]
      PROVE  PSafe' /\ PoolStep
  <2>1. v \in Servers /\ server[v].st = "AVAILABLE" /\ server[v] \in ServerType
    BY Mapped DEF Candidates, Free
  <2> DEFINE row == [match[m] EXCEPT !.st = "READY", !.sv = v, !.map = server[v].map]
             box == [server[v] EXCEPT !.st = "RESERVED", !.by = m, !.cool = FALSE]
  <2>2. row \in MatchType /\ row.st = "READY" /\ row.sv = v /\ row.mode = match[m].mode
    BY <1>3, <2>1 DEF ServerType, MatchType, Holding
  <2>3. box.st = "RESERVED" /\ box.by = m
    BY <2>1 DEF ServerType
  <2>4. match' = [match EXCEPT ![m] = row] /\ server' = [server EXCEPT ![v] = box]
    BY <1>4
  <2> HIDE DEF row, box
  <2>5. /\ match'[m] = row /\ \A o \in MatchIds \ {m} : match'[o] = match[o]
        /\ server'[v] = box /\ \A w \in Servers \ {v} : server'[w] = server[w]
    BY <1>3, <2>1, <2>4, Mapped
  <2>6. PhaseOf(match[m]) = "waiting" /\ PhaseOf(row) = "held"
    <3>1. match[m].mode \in AcceptModes
      BY <1>3, <1>4 DEF PInv, PSafe, FullIsAccept
    <3> QED BY <1>3, <1>4, <2>2, <3>1, PhaseIs DEF Gathering, Holding
  <2>7. server[v].by = None /\ \A w \in Servers : server[w].by # m
    BY <1>3, <2>1, <2>6, NoneAssumption DEF PInv, PSafe, ReservedBy
  <2>8. ReservedBy'
    <3>1. m # None
      BY <1>3, NoneAssumption
    <3> QED BY <1>3, <2>2, <2>3, <2>5, <2>6, <2>7, <3>1, Mapped DEF PInv, PSafe, ReservedBy
  <2>9. FullIsAccept'
    BY <2>2, <2>5 DEF PInv, PSafe, FullIsAccept
  <2> DEFINE before == [o \in MatchIds |-> PhaseOf(match[o])]
             after  == [o \in MatchIds |-> PhaseOf(match'[o])]
             had    == [w \in Servers |-> server[w].by]
             has    == [w \in Servers |-> server'[w].by]
  <2>10. after = [before EXCEPT ![m] = "held"]
    <3>1. after[m] = "held" /\ \A o \in MatchIds \ {m} : after[o] = before[o]
      BY <1>3, <2>5, <2>6
    <3> QED BY <1>3, <3>1
  <2>11. has = [had EXCEPT ![v] = m]
    <3>1. has[v] = m /\ \A w \in Servers \ {v} : has[w] = had[w]
      BY <2>1, <2>3, <2>5
    <3> QED BY <2>1, <3>1
  <2>12. Promise!Grant(m, v)
    BY <1>3, <2>1, <2>6, <2>7, <2>10, <2>11 DEF Promise!Grant, Promise!Turn
  <2> QED BY <1>3, <2>1, <2>8, <2>9, <2>12 DEF PSafe, PoolStep, Promise!Next
<1> QED BY <1>2, <1>4, PoolQuiet

\* endMatch closes a match that gathers or holds a server, and leaves any other alone
LEMMA PoolEnd == PInv /\ IInv' /\ End => PSafe' /\ PoolStep
<1> SUFFICES ASSUME PInv, IInv', End PROVE PSafe' /\ PoolStep OBVIOUS
<1> DEFINE t == Head(todo)
           m == t.m
           row == [match[m] EXCEPT !.st = IF @ \in Gathering \cup Holding THEN t.st ELSE @]
<1>1. /\ todo # <<>> /\ t.op = "end" /\ UNCHANGED server
      /\ match' = [match EXCEPT ![m] = row]
  BY DEF End, Now
<1>2. m \in MatchIds /\ match[m] \in MatchType /\ t.st \in Over
  <2>1. t \in Task
    BY <1>1, PoolHead
  <2> QED BY <1>1, <2>1, PoolHead, TaskFields
<1>3. /\ row \in MatchType /\ row.mode = match[m].mode /\ row.sv = match[m].sv
      /\ row.st = IF match[m].st \in Gathering \cup Holding THEN t.st ELSE match[m].st
  BY <1>2 DEF MatchType
<1> HIDE DEF row
<1>4. row.st = "FULL" => row.mode \in AcceptModes
  BY <1>2, <1>3 DEF PInv, PSafe, FullIsAccept, Over
<1>5. CASE PhaseOf(row) = PhaseOf(match[m])
  BY <1>1, <1>2, <1>3, <1>4, <1>5, PoolRow
<1>6. CASE PhaseOf(row) # PhaseOf(match[m])
  <2>1. PhaseOf(match[m]) \in {"waiting", "held"} /\ PhaseOf(row) = "over"
    BY <1>2, <1>3, <1>6, PhaseIs DEF MatchType
  <2>2. match'[m] = row /\ \A o \in MatchIds \ {m} : match'[o] = match[o]
    BY <1>1, <1>2, Mapped
  <2>3. ReservedBy' /\ FullIsAccept'
    BY <1>1, <1>3, <1>4, <2>1, <2>2, Mapped DEF PInv, PSafe, ReservedBy, FullIsAccept
  <2> DEFINE before == [o \in MatchIds |-> PhaseOf(match[o])]
             after  == [o \in MatchIds |-> PhaseOf(match'[o])]
  <2>4. after = [before EXCEPT ![m] = "over"]
    <3>1. after[m] = "over" /\ \A o \in MatchIds \ {m} : after[o] = before[o]
      BY <1>2, <2>1, <2>2
    <3> QED BY <1>2, <3>1
  <2>5. Promise!Close(m)
    BY <1>1, <1>2, <2>1, <2>4 DEF Promise!Close, Promise!Turn
  <2> QED BY <1>2, <2>3, <2>5 DEF PSafe, PoolStep, Promise!Next
<1> QED BY <1>5, <1>6

\* the retention timer forgets what is over and has no server any more
LEMMA PoolDelete == PInv /\ IInv' /\ DeleteOld => PSafe' /\ PoolStep
<1> SUFFICES ASSUME PInv, IInv', DeleteOld PROVE PSafe' /\ PoolStep OBVIOUS
<1> DEFINE old == {m \in OldMatches : match[m].mode \in AcceptModes}
<1>1. /\ UNCHANGED server
      /\ \A m \in MatchIds : match'[m] = IF m \in OldMatches THEN NoMatch ELSE match[m]
  BY DEF DeleteOld
<1>2. \A m \in OldMatches : /\ m \in MatchIds /\ match[m] \in MatchType /\ match[m].st \in Over
                            /\ \A v \in Servers : server[v].by # m
  BY Mapped DEF OldMatches
<1>3. PhaseOf(NoMatch) = "none" /\ NoMatch.st # "FULL"
  BY NoRowTypes, PhaseIs DEF NoMatch
<1>4. ReservedBy'
  BY <1>1, <1>2, Mapped DEF PInv, PSafe, ReservedBy
<1>5. FullIsAccept'
  BY <1>1, <1>3 DEF PInv, PSafe, FullIsAccept
<1>6. \A m \in MatchIds : PhaseOf(match'[m]) = IF m \in old THEN "none" ELSE PhaseOf(match[m])
  BY <1>1, <1>2, <1>3, PhaseIs
<1>7. \A m \in old : m \in MatchIds /\ PhaseOf(match[m]) = "over" /\ \A v \in Servers : server[v].by # m
  BY <1>2, PhaseIs
<1> HIDE DEF old
<1>8. Promise!Forget(old)
  BY <1>1, <1>6, <1>7 DEF Promise!Forget
<1>9. old \in SUBSET MatchIds
  BY <1>7
<1> QED BY <1>4, <1>5, <1>8, <1>9 DEF PSafe, PoolStep, Promise!Next

-----------------------------------------------------------------------------
(* Steps of a match within its phase. *)

\* a FULL match that loses a player gathers again
LEMMA PoolLeft == PInv /\ IInv' /\ MemberLeft => PSafe' /\ PoolStep
<1> SUFFICES ASSUME PInv, IInv', MemberLeft PROVE PSafe' /\ PoolStep OBVIOUS
<1> DEFINE m == Head(todo).m
           row == [match[m] EXCEPT !.st = "FORMING", !.fake = 0, !.prof = None]
<1>1. /\ todo # <<>> /\ Head(todo).op = "left" /\ UNCHANGED server
      /\ \/ UNCHANGED match
         \/ match[m].st = "FULL" /\ match' = [match EXCEPT ![m] = row]
  BY DEF MemberLeft, Now
<1>2. m \in MatchIds /\ match[m] \in MatchType
  BY <1>1, PoolHead
<1>3. row \in MatchType /\ row.mode = match[m].mode /\ row.sv = match[m].sv /\ row.st = "FORMING"
  BY <1>2 DEF MatchType, Gathering
<1> HIDE DEF row
<1>4. match[m].st = "FULL" => PhaseOf(row) = PhaseOf(match[m])
  BY <1>2, <1>3, PhaseIs DEF Gathering
<1> QED BY <1>1, <1>2, <1>3, <1>4, PoolRow, PoolQuiet

\* a complete Accept match is FULL, a classic one is none of ServerPool's
LEMMA PoolComplete == PInv /\ IInv' /\ CompleteMatch => PSafe' /\ PoolStep
<1> SUFFICES ASSUME PInv, IInv', CompleteMatch PROVE PSafe' /\ PoolStep OBVIOUS
<1> DEFINE m == Head(todo).m
           row == [match[m] EXCEPT !.st = CASE @ = "FORMING" /\ AcceptRequired(m) -> "FULL"
                                            [] @ \in Gathering /\ ~AcceptRequired(m) -> "READY"
                                            [] OTHER -> @]
<1>1. /\ todo # <<>> /\ Head(todo).op = "full" /\ UNCHANGED server
      /\ match' = [match EXCEPT ![m] = row]
  BY DEF CompleteMatch, Now
<1>2. m \in MatchIds /\ match[m] \in MatchType
  BY <1>1, PoolHead
<1>3. row \in MatchType /\ row.mode = match[m].mode /\ row.sv = match[m].sv
  BY <1>2 DEF MatchType, Gathering, Holding
<1>4. \/ row.st = match[m].st
      \/ match[m].st \in Gathering /\ row.st = "FULL" /\ match[m].mode \in AcceptModes
      \/ match[m].st \in Gathering /\ row.st = "READY" /\ match[m].mode \notin AcceptModes
  BY <1>2 DEF MatchType, AcceptRequired, Gathering
<1> HIDE DEF row
<1>5. PhaseOf(row) = PhaseOf(match[m])
  BY <1>2, <1>3, <1>4, PhaseIs DEF MatchType, Gathering
<1>6. row.st = "FULL" => row.mode \in AcceptModes
  BY <1>2, <1>3, <1>4 DEF PInv, PSafe, FullIsAccept
<1> QED BY <1>1, <1>2, <1>3, <1>5, <1>6, PoolRow

\* virtual players and their profile are no part of the phase
LEMMA PoolFill == PInv /\ IInv' /\ FillMatch => PSafe' /\ PoolStep
<1> SUFFICES ASSUME PInv, IInv', FillMatch PROVE PSafe' /\ PoolStep OBVIOUS
<1>1. todo # <<>> /\ Head(todo).op = "fill" /\ UNCHANGED server
  BY DEF FillMatch, Now
<1>2. PICK m \in Head(todo).pend :
        \/ UNCHANGED match
        \/ \E p, n : match' = [match EXCEPT ![m].prof = p, ![m].fake = n]
  BY DEF FillMatch
<1>3. m \in MatchIds /\ match[m] \in MatchType
  BY <1>1, PoolHead
<1>4. ASSUME NEW p, NEW n, match' = [match EXCEPT ![m].prof = p, ![m].fake = n]
      PROVE  PSafe' /\ PoolStep
  <2> DEFINE row == [match[m] EXCEPT !.prof = p, !.fake = n]
  <2>1. match' = [match EXCEPT ![m] = row]
    BY <1>4
  <2>2. row.mode = match[m].mode /\ row.sv = match[m].sv /\ row.st = match[m].st
    BY <1>3 DEF MatchType
  <2> HIDE DEF row
  <2>3. match'[m] = row
    BY <1>3, <2>1, Mapped
  <2>4. row \in MatchType
    BY <1>3, <2>3 DEF IInv, TypeOK
  <2>5. PhaseOf(row) = PhaseOf(match[m])
    BY <2>2 DEF PhaseOf
  <2>6. row.st = "FULL" => row.mode \in AcceptModes
    BY <1>3, <2>2 DEF PInv, PSafe, FullIsAccept
  <2> QED BY <1>1, <1>3, <2>1, <2>2, <2>4, <2>5, <2>6, PoolRow
<1> QED BY <1>1, <1>2, <1>4, PoolQuiet

\* a match that holds its server goes on to another status that does
LEMMA PoolStatus ==
  ASSUME PInv, IInv', UNCHANGED server, NEW m \in MatchIds, NEW st \in Holding, match[m].st \in Holding,
         match' = [match EXCEPT ![m].st = st]
  PROVE  PSafe' /\ PoolStep
<1> DEFINE row == [match[m] EXCEPT !.st = st]
<1>1. match[m] \in MatchType /\ match' = [match EXCEPT ![m] = row]
  BY Mapped
<1>2. row \in MatchType /\ row.mode = match[m].mode /\ row.sv = match[m].sv /\ row.st = st
  BY <1>1 DEF MatchType
<1> HIDE DEF row
<1>3. PhaseOf(row) = PhaseOf(match[m]) /\ row.st # "FULL"
  BY <1>1, <1>2, PhaseIs DEF MatchType, Holding
<1> QED BY <1>1, <1>2, <1>3, PoolRow

\* startAccepting and markAccepted
LEMMA PoolAccept == PInv /\ IInv' /\ (StartAccepting \/ MarkAccepted) => PSafe' /\ PoolStep
<1> SUFFICES ASSUME PInv, IInv', StartAccepting \/ MarkAccepted PROVE PSafe' /\ PoolStep OBVIOUS
<1> DEFINE m == Head(todo).m
<1>1. todo # <<>> /\ Head(todo).op \in {"assign", "accepted"} /\ UNCHANGED server
  BY DEF StartAccepting, MarkAccepted, Now
<1>2. m \in MatchIds /\ match[m] \in MatchType
  BY <1>1, PoolHead
<1>3. \/ match' = match
      \/ match[m].st = "READY" /\ match' = [match EXCEPT ![m].st = "ACCEPTING"]
      \/ match[m].st \in {"READY", "ACCEPTING"} /\ match' = [match EXCEPT ![m].st = "ACCEPTED"]
  <2>1. CASE StartAccepting
    BY <2>1 DEF StartAccepting
  <2>2. CASE MarkAccepted
    <3>1. match' = [match EXCEPT ![m].st = IF @ \in {"READY", "ACCEPTING"} THEN "ACCEPTED" ELSE @]
      BY <2>2 DEF MarkAccepted
    <3>2. match[m].st \notin {"READY", "ACCEPTING"} => match' = match
      BY <1>2, <3>1, Mapped DEF MatchType
    <3> QED BY <3>1, <3>2
  <2> QED BY <2>1, <2>2
<1> QED BY <1>1, <1>2, <1>3, PoolStatus, PoolQuiet DEF Holding

-----------------------------------------------------------------------------
(* Settings of servers. *)

\* create, edit, enable, report and the end of a cooldown leave every reservation as it is
LEMMA PoolSettings ==
  ASSUME PInv, IInv', NEW v \in Servers
  PROVE  /\ \A setup, on : EditServer(v, setup, on) => PSafe' /\ PoolStep
         /\ \A setup, on : \A st \in {"AVAILABLE", "BUSY"} : CreateServer(v, setup, st, on) => PSafe' /\ PoolStep
         /\ \A on : EnableServer(v, on) => PSafe' /\ PoolStep
         /\ \A map, st : Report(v, map, st) => PSafe' /\ PoolStep
         /\ CooldownOver(v) => PSafe' /\ PoolStep
<1>1. server[v] \in ServerType
  BY Mapped
<1>2. ASSUME UNCHANGED match, NEW row, server' = [server EXCEPT ![v] = row],
             row.by = server[v].by, row.st = "RESERVED" <=> server[v].st = "RESERVED"
      PROVE  PSafe' /\ PoolStep
  <2>1. server'[v] = row /\ \A w \in Servers \ {v} : server'[w] = server[w]
    BY <1>2, Mapped
  <2> QED BY <1>2, <2>1, PoolStutter DEF PInv, PSafe, FullIsAccept
<1>3. ASSUME NEW setup, NEW on, EditServer(v, setup, on) PROVE PSafe' /\ PoolStep
  <2> DEFINE row == [server[v] EXCEPT !.mode = setup.mode, !.map = setup.map, !.on = on]
  <2>1. UNCHANGED match /\ server' = [server EXCEPT ![v] = row]
    BY <1>3 DEF EditServer
  <2>2. row.by = server[v].by /\ row.st = server[v].st
    BY <1>1 DEF ServerType
  <2> HIDE DEF row
  <2> QED BY <1>2, <2>1, <2>2
<1>4. ASSUME NEW setup, NEW on, NEW st \in {"AVAILABLE", "BUSY"}, CreateServer(v, setup, st, on)
      PROVE  PSafe' /\ PoolStep
  <2> DEFINE row == [st |-> st, by |-> None, cool |-> FALSE, on |-> on, mode |-> setup.mode, map |-> setup.map]
  <2>1. UNCHANGED match /\ server' = [server EXCEPT ![v] = row] /\ server[v].st = "ABSENT"
    BY <1>4 DEF CreateServer
  <2>2. row.by = None /\ row.st # "RESERVED"
    OBVIOUS
  <2>3. server[v].by = None
    BY <2>1 DEF PInv, PSafe, ReservedBy
  <2> HIDE DEF row
  <2> QED BY <1>2, <2>1, <2>2, <2>3
<1>5. ASSUME NEW on, EnableServer(v, on) PROVE PSafe' /\ PoolStep
  <2> DEFINE row == [server[v] EXCEPT !.on = on]
  <2>1. UNCHANGED match /\ server' = [server EXCEPT ![v] = row]
    BY <1>5 DEF EnableServer
  <2>2. row.by = server[v].by /\ row.st = server[v].st
    BY <1>1 DEF ServerType
  <2> HIDE DEF row
  <2> QED BY <1>2, <2>1, <2>2
<1>6. ASSUME NEW map, NEW st, Report(v, map, st) PROVE PSafe' /\ PoolStep
  <2> DEFINE row == [server[v] EXCEPT !.map = map]
  <2>1. UNCHANGED match /\ server' = [server EXCEPT ![v] = row]
    BY <1>6 DEF Report
  <2>2. row.by = server[v].by /\ row.st = server[v].st
    BY <1>1 DEF ServerType
  <2> HIDE DEF row
  <2> QED BY <1>2, <2>1, <2>2
<1>7. ASSUME CooldownOver(v) PROVE PSafe' /\ PoolStep
  <2> DEFINE row == [server[v] EXCEPT !.cool = FALSE]
  <2>1. UNCHANGED match /\ server' = [server EXCEPT ![v] = row]
    BY <1>7 DEF CooldownOver
  <2>2. row.by = server[v].by /\ row.st = server[v].st
    BY <1>1 DEF ServerType
  <2> HIDE DEF row
  <2> QED BY <1>2, <2>1, <2>2
<1> QED BY <1>3, <1>4, <1>5, <1>6, <1>7

-----------------------------------------------------------------------------
(* The whole next-state relation. *)

\* the invariant holds at first, and the first state is one of ServerPool
LEMMA PoolInit == Init => PInv /\ Promise!Init
<1> SUFFICES ASSUME Init PROVE PInv /\ Promise!Init OBVIOUS
<1>1. PhaseOf(NoMatch) = "none" /\ NoMatch.st # "FULL"
  BY NoRowTypes, PhaseIs DEF NoMatch
<1>2. PSafe
  BY <1>1 DEF Init, PSafe, ReservedBy, FullIsAccept
<1>3. Promise!Init
  BY <1>1 DEF Init, Promise!Init
<1> QED BY <1>2, <1>3, InitIInv DEF PInv

\* every statement of a handler
LEMMA PoolSteps == PInv /\ IInv' /\ Step => PSafe' /\ PoolStep
<1> SUFFICES ASSUME PInv, IInv', Step PROVE PSafe' /\ PoolStep OBVIOUS
<1>1. CASE \/ Scan \/ Breakup \/ Retire \/ Lapse \/ LeaveRow \/ DissolveRow \/ ReleaseAbandoned \/ Enter
           \/ SyncParty \/ AddMember \/ TagMember \/ JoinMatch \/ GatherParty \/ PromoteMatch \/ AssignRow
           \/ PromoteAccepted
  <2>1. UNCHANGED <<match, server>>
    BY <1>1 DEF Scan, Breakup, Retire, Lapse, LeaveRow, DissolveRow, ReleaseAbandoned, Enter, SyncParty, AddMember,
                TagMember, JoinMatch, GatherParty, PromoteMatch, AssignRow, PromoteAccepted
  <2> QED BY <2>1, PoolQuiet
<1>2. CASE \/ ReleaseOrphan \/ DeleteOld \/ MemberLeft \/ End \/ Release \/ SetServer \/ PlaceSearch
           \/ CompleteMatch \/ FillMatch \/ ReserveServer \/ StartAccepting \/ MarkAccepted
  BY <1>2, PoolOrphan, PoolDelete, PoolLeft, PoolEnd, PoolRelease, PoolSetServer, PoolPlace, PoolComplete, PoolFill,
     PoolReserve, PoolAccept
<1> QED BY <1>1, <1>2 DEF Step

\* the start of every handler, with its first statement, and a restart
LEMMA PoolHandlers ==
  PInv /\ IInv' /\ (Player \/ Operator \/ GameServer \/ FakePlayers \/ Time \/ Crash) => PSafe' /\ PoolStep
<1> SUFFICES ASSUME PInv, IInv', Player \/ Operator \/ GameServer \/ FakePlayers \/ Time \/ Crash
             PROVE  PSafe' /\ PoolStep
  OBVIOUS
<1>1. CASE Player
  <2>1. UNCHANGED <<match, server>>
    BY <1>1 DEF Player, Start, Poll, Remove, Cancel, Accept
  <2> QED BY <2>1, PoolQuiet
<1>2. CASE Operator
  <2>1. ASSUME NEW v \in Servers, (\E st \in {"AVAILABLE", "BUSY"} : SetServerState(v, st)) \/ DeleteServer(v)
        PROVE  PSafe' /\ PoolStep
    <3>1. UNCHANGED <<match, server>>
      BY <2>1 DEF SetServerState, DeleteServer
    <3> QED BY <3>1, PoolQuiet
  <2>2. ASSUME NEW v \in Servers, NEW setup \in Setups, NEW on \in BOOLEAN,
               \/ EditServer(v, setup, on)
               \/ \E st \in {"AVAILABLE", "BUSY"} : CreateServer(v, setup, st, on)
        PROVE  PSafe' /\ PoolStep
    <3>1. ASSUME EditServer(v, setup, on) PROVE PSafe' /\ PoolStep
      BY <3>1, PoolSettings, Zenon
    <3>2. ASSUME NEW st \in {"AVAILABLE", "BUSY"}, CreateServer(v, setup, st, on) PROVE PSafe' /\ PoolStep
      BY <3>2, PoolSettings, Zenon
    <3> QED BY <2>2, <3>1, <3>2
  <2>3. ASSUME NEW v \in Servers, NEW on \in BOOLEAN, EnableServer(v, on) PROVE PSafe' /\ PoolStep
    BY <2>3, PoolSettings
  <2> QED BY <1>2, <2>1, <2>2, <2>3, Zenon DEF Operator
<1>3. CASE GameServer
  <2>1. ASSUME NEW v \in Servers, RosterForServer(v) \/ \E m \in MatchIds : ConfirmRoster(v, m)
        PROVE  PSafe' /\ PoolStep
    <3>1. UNCHANGED <<match, server>>
      BY <2>1 DEF RosterForServer, ConfirmRoster
    <3> QED BY <3>1, PoolQuiet
  <2> QED BY <1>3, <2>1, PoolSettings DEF GameServer
<1>4. CASE FakePlayers
  <2>1. UNCHANGED <<match, server>>
    BY <1>4 DEF FakePlayers, SetFakeMaster, WriteProfile
  <2> QED BY <2>1, PoolQuiet
<1>5. CASE Time
  <2>1. ASSUME RunTick \/ \E v \in Servers : PollWindowOver(v) PROVE PSafe' /\ PoolStep
    <3>1. UNCHANGED <<match, server>>
      BY <2>1 DEF RunTick, PollWindowOver
    <3> QED BY <3>1, PoolQuiet
  <2> QED BY <1>5, <2>1, PoolSettings DEF Time
<1>6. CASE Crash
  <2>1. UNCHANGED <<match, server>>
    BY <1>6 DEF Crash
  <2> QED BY <2>1, PoolQuiet
<1> QED BY <1>1, <1>2, <1>3, <1>4, <1>5, <1>6

\* every step keeps the invariant and is a step of ServerPool or leaves its state alone
LEMMA PoolNext == PInv /\ [Next]_vars => PInv' /\ PoolStep
<1> SUFFICES ASSUME PInv, [Next]_vars PROVE PInv' /\ PoolStep OBVIOUS
<1>1. IInv'
  BY NextIInv DEF PInv
<1>2. CASE Next
  BY <1>1, <1>2, PoolSteps, PoolHandlers DEF Next, PInv
<1>3. CASE UNCHANGED vars
  <2>1. UNCHANGED <<match, server>>
    BY <1>3 DEF vars
  <2> QED BY <1>1, <2>1, PoolQuiet DEF PInv
<1> QED BY <1>2, <1>3

\* ImplementsPool: for any fleet, players, parties and calls and any number of restarts, the
\* handlers treat the servers as ServerPool promises (PoolSpec): one match, one server, kept until
\* the match is over (reserveServer, endMatch, freeServer, release, the orphan timer).
THEOREM ImplementsPool == Spec => PoolSpec
<1>1. PInv /\ [Next]_vars => [Promise!Next]_(Promise!vars)
  BY PoolNext DEF PoolStep
<1>2. PInv /\ [Next]_vars => PInv'
  BY PoolNext
<1> QED BY <1>1, <1>2, PoolInit, PTL DEF Spec, PoolSpec, Promise!Spec

\* OneServerEach: no two servers are ever RESERVED for one match, and a server is never
\* RESERVED for a match that never got it (ReservedBy).
THEOREM OneServerEach == Spec => []ReservedBy
<1>1. PInv => ReservedBy
  BY DEF PInv, PSafe
<1>2. PInv /\ [Next]_vars => PInv'
  BY PoolNext
<1> QED BY <1>1, <1>2, PoolInit, PTL DEF Spec

=============================================================================
