----------------------------- MODULE HandlerProofs -----------------------------
(***************************************************************************)
(* What a handler leaves behind that runs to its end: no server reserved   *)
(* for a match that is over, no player in a state its match is not in, no  *)
(* party torn apart, no match without a player when its server comes, and  *)
(* for a classic match a server that suits everybody.  A restart may cut a *)
(* handler short; these invariants are about the time before the first     *)
(* one.  That no match takes more players than it asks for, and that the   *)
(* matcher looks at everybody who waits, hold through any restarts; they   *)
(* come last.                                                              *)
(***************************************************************************)
EXTENDS TaskProofs

-----------------------------------------------------------------------------
(* The tasks a statement leaves. *)

\* the tasks of some kinds
Kind(K) == {t \in Task : t.op \in K}

\* after a step the new tasks come first, then those that stood behind the head
LEMMA NextTasks ==
  ASSUME TInv, todo # <<>>, NEW S, NEW tasks \in Seq(S), Do(tasks)
  PROVE  /\ Range(todo') = Range(tasks) \cup Behind /\ Range(tasks) \subseteq S
         /\ todo' # <<>> => Head(todo') \in S \cup Behind
         /\ tasks # <<>> => todo' # <<>> /\ Head(todo') = Head(tasks)
         /\ tasks = <<>> => todo' = Tail(todo)
<1>1. Tail(todo) \in Seq(Task) /\ Behind = Range(Tail(todo)) /\ todo' = tasks \o Tail(todo)
  BY Running, TailQueue DEF Queue, Behind, Do
<1>2. Range(todo') = Range(tasks) \cup Behind
  <2>1. tasks \in Seq(S \cup Task) /\ Tail(todo) \in Seq(S \cup Task)
    BY <1>1
  <2> QED BY <1>1, <2>1, RangeConcatenation
<1>3. Range(tasks) \subseteq S
  BY RangeOfSeq
<1>4. tasks # <<>> => todo' # <<>> /\ Head(todo') = Head(tasks) /\ Head(tasks) \in S
  BY <1>1
<1>5. tasks = <<>> => todo' = Tail(todo)
  BY <1>1, ConcatEmptySeq
<1>6. Tail(todo) # <<>> => Head(Tail(todo)) \in Behind
  BY Running, TailQueue, HeadKind
<1> QED BY <1>2, <1>3, <1>4, <1>5, <1>6

\* what stands at the head is one of the tasks, and everything else is behind it
LEMMA HeadAndBehind ==
  ASSUME TInv, todo # <<>>
  PROVE  Range(todo) = {Head(todo)} \cup Behind
BY Running, TailQueue

\* the pieces of task lists, by the kinds of their tasks
LEMMA Pieces ==
  ASSUME NEW K
  PROVE  /\ <<>> \in Seq(Kind(K)) /\ \A t \in Kind(K) : <<t>> \in Seq(Kind(K))
         /\ \A p, q \in Seq(Kind(K)) : p \o q \in Seq(Kind(K))
         /\ \A t \in Task : \A x : t.op \in K /\ t.op \in Looping \cup {"orphan"} => Rest(t, x) \in Seq(Kind(K))
         /\ "leave" \in K => \A S \in SUBSET SearchIds, st \in Finished, party \in BOOLEAN :
                               Leave(S, st, party) \in Seq(Kind(K))
         /\ "left" \in K => \A m \in MatchIds \cup {None}, acc \in BOOLEAN : Left(m, acc) \in Seq(Kind(K))
         /\ "assign" \in K => \A m \in MatchIds : Assign(m) \in Seq(Kind(K))
         /\ "end" \in K => \A m \in MatchIds : /\ Dissolve(m) \in Seq(Kind(K))
                                               /\ \A free \in {"now", "keep"} : EndMatch(m, free) \in Seq(Kind(K))
         /\ "reserve" \in K => \A m \in MatchIds : Loop("reserve", {m}) \in Seq(Kind(K))
<1>1. <<>> \in Seq(Kind(K)) /\ \A t \in Kind(K) : <<t>> \in Seq(Kind(K))
  OBVIOUS
<1>2. \A p, q \in Seq(Kind(K)) : p \o q \in Seq(Kind(K))
  OBVIOUS
<1>3. ASSUME NEW q, NEW R, Queue(q, R), \A r \in R : r.op \in K PROVE q \in Seq(Kind(K))
  <2>1. q \in Seq(Task) /\ \A i \in 1..Len(q) : q[i] \in R
    BY <1>3, RangeEquality DEF Queue
  <2>2. \A i \in 1..Len(q) : q[i] \in Kind(K)
    BY <1>3, <2>1 DEF Kind
  <2> QED BY <2>1, <2>2
<1>4. ASSUME NEW t \in Task, NEW x, t.op \in K, t.op \in Looping \cup {"orphan"} PROVE Rest(t, x) \in Seq(Kind(K))
  <2>1. Queue(Rest(t, x), RestSet(t, x)) /\ \A r \in RestSet(t, x) : r.op = t.op
    BY <1>4, RestQueue
  <2> QED BY <1>3, <1>4, <2>1
<1>5. ASSUME "leave" \in K, NEW S \in SUBSET SearchIds, NEW st \in Finished, NEW party \in BOOLEAN
      PROVE  Leave(S, st, party) \in Seq(Kind(K))
  <2>1. Queue(Leave(S, st, party), IF S = {} THEN {} ELSE {[op |-> "leave", pend |-> S, st |-> st, party |-> party]})
    BY LeaveQueue
  <2> QED BY <1>3, <1>5, <2>1
<1>6. ASSUME "left" \in K, NEW m \in MatchIds \cup {None}, NEW acc \in BOOLEAN PROVE Left(m, acc) \in Seq(Kind(K))
  <2>1. Queue(Left(m, acc), IF m = None THEN {} ELSE {[op |-> "left", m |-> m, acc |-> acc]})
    BY LeaveQueue
  <2> QED BY <1>3, <1>6, <2>1
<1>7. ASSUME NEW m \in MatchIds
      PROVE  /\ "assign" \in K => Assign(m) \in Seq(Kind(K))
             /\ "end" \in K => /\ Dissolve(m) \in Seq(Kind(K))
                               /\ \A free \in {"now", "keep"} : EndMatch(m, free) \in Seq(Kind(K))
  <2>1. AssignTask(m).op = "assign" /\ DissolveTask(m).op = "end" /\ \A free : EndTask(m, free).op = "end"
    BY DEF AssignTask, DissolveTask, EndTask
  <2>2. /\ Queue(Assign(m), {AssignTask(m)}) /\ Queue(Dissolve(m), {DissolveTask(m)})
        /\ \A free \in {"now", "keep"} : Queue(EndMatch(m, free), {EndTask(m, free)})
    BY MatchQueue
  <2>3. "assign" \in K => Assign(m) \in Seq(Kind(K))
    BY <1>3, <2>1, <2>2
  <2>4. "end" \in K => Dissolve(m) \in Seq(Kind(K))
    BY <1>3, <2>1, <2>2
  <2>5. ASSUME "end" \in K, NEW free \in {"now", "keep"} PROVE EndMatch(m, free) \in Seq(Kind(K))
    <3>1. \A r \in {EndTask(m, free)} : r.op \in K
      BY <2>1, <2>5
    <3> QED BY <1>3, <2>2, <3>1
  <2> QED BY <2>3, <2>4, <2>5
<1>8. ASSUME "reserve" \in K, NEW m \in MatchIds PROVE Loop("reserve", {m}) \in Seq(Kind(K))
  <2>1. Queue(Loop("reserve", {m}), IF {m} = {} THEN {} ELSE {[op |-> "reserve", pend |-> {m}]})
    BY LoopQueue
  <2> QED BY <1>3, <1>8, <2>1
<1> QED BY <1>1, <1>2, <1>4, <1>5, <1>6, <1>7, <1>8

\* one row less to do
LEMMA Less ==
  ASSUME NEW t \in Task, t.op \in {"gather", "assign", "end"}, NEW s
  PROVE  /\ [t EXCEPT !.pend = @ \ {s}] \in Task
         /\ [t EXCEPT !.pend = @ \ {s}].op = t.op /\ [t EXCEPT !.pend = @ \ {s}].m = t.m
         /\ [t EXCEPT !.pend = @ \ {s}].pend = t.pend \ {s}
         /\ t.op = "end" => [t EXCEPT !.pend = @ \ {s}].st = t.st /\ [t EXCEPT !.pend = @ \ {s}].free = t.free
BY DEF Task

\* which kinds of tasks the statements put in front
LEMMA Puts ==
  ASSUME TInv
  PROVE  /\ Retire        => \E tasks \in Seq(Kind({"retire"})) : Do(tasks)
         /\ LeaveRow      => \E tasks \in Seq(Kind({"leave", "left"})) : Do(tasks)
         /\ Enter         => \E tasks \in Seq(Kind({"leave", "left", "sync"})) : Do(tasks)
         /\ SyncParty     => \E tasks \in Seq(Kind({"leave", "add"})) : Do(tasks)
         /\ AddMember     => \E tasks \in Seq(Kind({"leave", "add", "tag"})) : Do(tasks)
         /\ PlaceSearch   => \E tasks \in Seq(Kind({"join", "place"})) : Do(tasks)
         /\ JoinMatch     => \E tasks \in Seq(Kind({"gather"})) : Do(tasks)
         /\ GatherParty   => \E tasks \in Seq(Kind({"gather", "full"})) : Do(tasks)
         /\ CompleteMatch => \E tasks \in Seq(Kind({"reserve", "assign"})) : Do(tasks)
         /\ FillMatch     => \E tasks \in Seq(Kind({"full", "fill"})) : Do(tasks)
         /\ ReserveServer => \E tasks \in Seq(Kind({"assign", "reserve"})) : Do(tasks)
         /\ PromoteMatch  => \E tasks \in Seq(Kind({"assign", "promote"})) : Do(tasks)
         /\ AssignRow     => \E tasks \in Seq(Kind({"assign"})) : Do(tasks)
         /\ StartAccepting => \E tasks \in Seq(Kind({"accepted"})) : Do(tasks)
         /\ MarkAccepted  => \E tasks \in Seq(Kind({"connect"})) : Do(tasks)
<1>1. PICK t : t = Head(todo)
  OBVIOUS
<1>2. todo # <<>> => t \in Task /\ Sound(t)
  BY <1>1, Running
<1>3. search \in [SearchIds -> SearchType]
  BY DEF TInv, PInv, IInv, TypeOK
<1>4. /\ \A m \in MatchIds, s \in SearchIds : [op |-> "join", m |-> m, s |-> s] \in Task
      /\ \A m \in MatchIds, op \in {"full", "accepted", "connect"} : [op |-> op, m |-> m] \in Task
      /\ \A m \in MatchIds, S \in SUBSET SearchIds : [op |-> "gather", m |-> m, pend |-> S] \in Task
      /\ \A s \in SearchIds : [op |-> "tag", s |-> s] \in Task
  BY DEF Task
<1>5. ASSUME NEW K
      PROVE  /\ "join" \in K => \A m \in MatchIds, s \in SearchIds : Join(m, s) \in Seq(Kind(K))
             /\ \A op \in {"full", "accepted", "connect"} :
                  op \in K => \A m \in MatchIds : <<[op |-> op, m |-> m]>> \in Seq(Kind(K))
             /\ "gather" \in K => \A m \in MatchIds, S \in SUBSET SearchIds :
                                    <<[op |-> "gather", m |-> m, pend |-> S]>> \in Seq(Kind(K))
             /\ "tag" \in K => \A s \in SearchIds : <<[op |-> "tag", s |-> s]>> \in Seq(Kind(K))
  <2>1. ASSUME "join" \in K, NEW m \in MatchIds, NEW s \in SearchIds PROVE Join(m, s) \in Seq(Kind(K))
    <3>1. [op |-> "join", m |-> m, s |-> s] \in Kind(K)
      BY <1>4, <2>1 DEF Kind
    <3> QED BY <3>1, Pieces DEF Join
  <2>2. ASSUME NEW op \in {"full", "accepted", "connect"}, op \in K, NEW m \in MatchIds
        PROVE  <<[op |-> op, m |-> m]>> \in Seq(Kind(K))
    <3>1. [op |-> op, m |-> m] \in Kind(K)
      BY <1>4, <2>2 DEF Kind
    <3> QED BY <3>1, Pieces
  <2>3. ASSUME "gather" \in K, NEW m \in MatchIds, NEW S \in SUBSET SearchIds
        PROVE  <<[op |-> "gather", m |-> m, pend |-> S]>> \in Seq(Kind(K))
    <3>1. [op |-> "gather", m |-> m, pend |-> S] \in Kind(K)
      BY <1>4, <2>3 DEF Kind
    <3> QED BY <3>1, Pieces
  <2>4. ASSUME "tag" \in K, NEW s \in SearchIds PROVE <<[op |-> "tag", s |-> s]>> \in Seq(Kind(K))
    <3>1. [op |-> "tag", s |-> s] \in Kind(K)
      BY <1>4, <2>4 DEF Kind
    <3> QED BY <3>1, Pieces
  <2> QED BY <2>1, <2>2, <2>3, <2>4
<1>6. Retire => \E tasks \in Seq(Kind({"retire"})) : Do(tasks)
  BY <1>1, <1>2, Pieces DEF Retire, Now, Looping
<1>7. LeaveRow => \E tasks \in Seq(Kind({"leave", "left"})) : Do(tasks)
  <2> SUFFICES ASSUME LeaveRow PROVE \E tasks \in Seq(Kind({"leave", "left"})) : Do(tasks) OBVIOUS
  <2>1. t \in Task /\ t.op = "leave" /\ t.pend \in SUBSET SearchIds /\ t.st \in Finished
    BY <1>1, <1>2, TaskFields DEF LeaveRow, Now
  <2>2. PICK s \in t.pend : Do(Leave(IF t.party /\ ~search[s].acc THEN Members(s) ELSE {}, t.st, FALSE)
                               \o Left(search[s].match, search[s].acc) \o Rest(t, s))
    BY <1>1 DEF LeaveRow
  <2>3. Leave(IF t.party /\ ~search[s].acc THEN Members(s) ELSE {}, t.st, FALSE) \in Seq(Kind({"leave", "left"}))
    BY <2>1, Pieces DEF Members
  <2>4. Left(search[s].match, search[s].acc) \in Seq(Kind({"leave", "left"}))
    BY <1>3, <2>1, Pieces DEF SearchType
  <2>5. Rest(t, s) \in Seq(Kind({"leave", "left"}))
    BY <2>1, Pieces DEF Looping
  <2> QED BY <2>2, <2>3, <2>4, <2>5, Pieces
<1>8. Enter => \E tasks \in Seq(Kind({"leave", "left", "sync"})) : Do(tasks)
  <2> SUFFICES ASSUME Enter PROVE \E tasks \in Seq(Kind({"leave", "left", "sync"})) : Do(tasks) OBVIOUS
  <2> DEFINE Sync(l) == <<[op |-> "sync", l |-> l, src |-> t.src, ask |-> t.ask, pend |-> t.pend]>>
  <2>1. t \in Task /\ t.op = "enter"
    BY <1>1, <1>2 DEF Enter, Now
  <2>2. \A l \in SearchIds : Sync(l) \in Seq(Kind({"leave", "left", "sync"}))
    <3>1. \A l \in SearchIds : [op |-> "sync", l |-> l, src |-> t.src, ask |-> t.ask, pend |-> t.pend] \in Task
      BY <2>1, TaskFields DEF Task
    <3> QED BY <3>1 DEF Kind
  <2> HIDE DEF Sync
  <2>3. Leave(IF t.acc THEN {} ELSE Members(t.own), "CANCELLED", FALSE) \in Seq(Kind({"leave", "left", "sync"}))
    BY Pieces DEF Members, Finished
  <2>4. Left(t.m, t.acc) \in Seq(Kind({"leave", "left", "sync"}))
    BY <2>1, TaskFields, Pieces
  <2>5. \/ \E s \in SearchIds : Do(Sync(s))
        \/ /\ t.own \in SearchIds
           /\ Do(Leave(IF t.acc THEN {} ELSE Members(t.own), "CANCELLED", FALSE) \o Left(t.m, t.acc) \o Sync(t.own))
    BY <1>1, <2>1, TaskFields DEF Enter, Sync, FreshSearches
  <2> QED BY <2>2, <2>3, <2>4, <2>5, Pieces
<1>9. SyncParty => \E tasks \in Seq(Kind({"leave", "add"})) : Do(tasks)
  <2> SUFFICES ASSUME SyncParty PROVE \E tasks \in Seq(Kind({"leave", "add"})) : Do(tasks) OBVIOUS
  <2> DEFINE stay == {s \in Members(t.l) : search[s].acct \in t.pend}
             absent == t.pend \ {search[s].acct : s \in stay}
  <2>1. t \in Task /\ t.op = "sync" /\ absent \in SUBSET Accounts
    BY <1>1, <1>2, TaskFields DEF SyncParty, Now
  <2>2. Do(Leave(Members(t.l) \ stay, "CANCELLED", FALSE)
           \o IF absent = {} THEN <<>> ELSE <<[t EXCEPT !.op = "add", !.pend = absent]>>)
    BY <1>1 DEF SyncParty
  <2>3. Leave(Members(t.l) \ stay, "CANCELLED", FALSE) \in Seq(Kind({"leave", "add"}))
    <3>1. Members(t.l) \ stay \in SUBSET SearchIds
      BY DEF Members
    <3> HIDE DEF stay
    <3> QED BY <3>1, Pieces DEF Finished
  <2> HIDE DEF stay, absent
  <2>4. [t EXCEPT !.op = "add", !.pend = absent] \in Kind({"leave", "add"})
    BY <2>1 DEF Task, Kind
  <2> QED BY <2>2, <2>3, <2>4, Pieces
<1>10. AddMember => \E tasks \in Seq(Kind({"leave", "add", "tag"})) : Do(tasks)
  <2> SUFFICES ASSUME AddMember PROVE \E tasks \in Seq(Kind({"leave", "add", "tag"})) : Do(tasks) OBVIOUS
  <2>1. t \in Task /\ t.op = "add" /\ t \in Kind({"leave", "add", "tag"})
    BY <1>1, <1>2 DEF AddMember, Now, Kind
  <2>2. PICK a \in t.pend : \/ Do(Leave(RowOf(a), "CANCELLED", TRUE) \o <<t>>)
                            \/ \E s \in SearchIds : Do(<<[op |-> "tag", s |-> s]>> \o Rest(t, a))
    BY <1>1 DEF AddMember, FreshSearches
  <2>3. Leave(RowOf(a), "CANCELLED", TRUE) \in Seq(Kind({"leave", "add", "tag"}))
    BY Pieces DEF RowOf, Finished
  <2>4. Rest(t, a) \in Seq(Kind({"leave", "add", "tag"}))
    BY <2>1, Pieces DEF Looping
  <2>5. \A s \in SearchIds : <<[op |-> "tag", s |-> s]>> \in Seq(Kind({"leave", "add", "tag"}))
    BY <1>5
  <2> QED BY <2>1, <2>2, <2>3, <2>4, <2>5, Pieces
<1>11. PlaceSearch => \E tasks \in Seq(Kind({"join", "place"})) : Do(tasks)
  <2> SUFFICES ASSUME PlaceSearch PROVE \E tasks \in Seq(Kind({"join", "place"})) : Do(tasks) OBVIOUS
  <2>1. t \in Task /\ t.op = "place" /\ t.pend \in SUBSET SearchIds
    BY <1>1, <1>2, TaskFields DEF PlaceSearch, Now
  <2>2. PICK s \in t.pend : Do(Rest(t, s)) \/ \E m \in MatchIds : Do(Join(m, s) \o Rest(t, s))
    BY <1>1 DEF PlaceSearch, PlaceAccept, PlaceClassic, Joinable, FreshMatches
  <2>3. Rest(t, s) \in Seq(Kind({"join", "place"}))
    BY <2>1, Pieces DEF Looping
  <2>4. \A m \in MatchIds : Join(m, s) \in Seq(Kind({"join", "place"}))
    BY <1>5, <2>1
  <2> QED BY <2>2, <2>3, <2>4, Pieces
<1>12. JoinMatch => \E tasks \in Seq(Kind({"gather"})) : Do(tasks)
  BY <1>1, <1>2, <1>5, TaskFields DEF JoinMatch, Now, Members
<1>13. GatherParty => \E tasks \in Seq(Kind({"gather", "full"})) : Do(tasks)
  <2> SUFFICES ASSUME GatherParty PROVE \E tasks \in Seq(Kind({"gather", "full"})) : Do(tasks) OBVIOUS
  <2>1. t \in Task /\ t.op = "gather" /\ t.m \in MatchIds
    BY <1>1, <1>2, TaskFields DEF GatherParty, Now
  <2>2. ASSUME NEW s PROVE <<[t EXCEPT !.pend = @ \ {s}]>> \in Seq(Kind({"gather", "full"}))
    <3>1. PICK r : r = [t EXCEPT !.pend = @ \ {s}]
      OBVIOUS
    <3>2. r \in Kind({"gather", "full"})
      BY <2>1, <3>1, Less DEF Kind
    <3> QED BY <3>1, <3>2, Pieces
  <2>3. \/ \E s : Do(<<[t EXCEPT !.pend = @ \ {s}]>>)
        \/ Do(<<>>) \/ Do(<<[op |-> "full", m |-> t.m]>>)
    BY <1>1 DEF GatherParty
  <2> QED BY <1>5, <2>1, <2>2, <2>3, Pieces
<1>14. CompleteMatch => \E tasks \in Seq(Kind({"reserve", "assign"})) : Do(tasks)
  <2> SUFFICES ASSUME CompleteMatch PROVE \E tasks \in Seq(Kind({"reserve", "assign"})) : Do(tasks) OBVIOUS
  <2>1. t \in Task /\ t.op = "full" /\ t.m \in MatchIds
    BY <1>1, <1>2, TaskFields DEF CompleteMatch, Now
  <2>2. Do(Loop("reserve", {t.m})) \/ Do(Assign(t.m))
    BY <1>1 DEF CompleteMatch
  <2> QED BY <2>1, <2>2, Pieces
<1>15. FillMatch => \E tasks \in Seq(Kind({"full", "fill"})) : Do(tasks)
  <2> SUFFICES ASSUME FillMatch PROVE \E tasks \in Seq(Kind({"full", "fill"})) : Do(tasks) OBVIOUS
  <2>1. t \in Task /\ t.op = "fill" /\ t.pend \in SUBSET MatchIds
    BY <1>1, <1>2, TaskFields DEF FillMatch, Now
  <2>2. PICK m \in t.pend : Do(Rest(t, m)) \/ Do(<<[op |-> "full", m |-> m]>> \o Rest(t, m))
    BY <1>1 DEF FillMatch
  <2>3. Rest(t, m) \in Seq(Kind({"full", "fill"}))
    BY <2>1, Pieces DEF Looping
  <2>4. <<[op |-> "full", m |-> m]>> \in Seq(Kind({"full", "fill"}))
    BY <1>5, <2>1
  <2> QED BY <2>2, <2>3, <2>4, Pieces
<1>16. ReserveServer => \E tasks \in Seq(Kind({"assign", "reserve"})) : Do(tasks)
  <2> SUFFICES ASSUME ReserveServer PROVE \E tasks \in Seq(Kind({"assign", "reserve"})) : Do(tasks) OBVIOUS
  <2>1. t \in Task /\ t.op = "reserve" /\ t.pend \in SUBSET MatchIds
    BY <1>1, <1>2, TaskFields DEF ReserveServer, Now
  <2>2. PICK m \in t.pend : Do(Rest(t, m)) \/ Do(<<>> \o Rest(t, m)) \/ Do(Assign(m) \o Rest(t, m))
    BY <1>1 DEF ReserveServer
  <2>3. Rest(t, m) \in Seq(Kind({"assign", "reserve"})) /\ Assign(m) \in Seq(Kind({"assign", "reserve"}))
    BY <2>1, Pieces DEF Looping
  <2> QED BY <2>2, <2>3, Pieces
<1>17. PromoteMatch => \E tasks \in Seq(Kind({"assign", "promote"})) : Do(tasks)
  <2> SUFFICES ASSUME PromoteMatch PROVE \E tasks \in Seq(Kind({"assign", "promote"})) : Do(tasks) OBVIOUS
  <2>1. t \in Task /\ t.op = "promote" /\ t.pend \in SUBSET MatchIds
    BY <1>1, <1>2, TaskFields DEF PromoteMatch, Now
  <2>2. PICK m \in t.pend : Do(Rest(t, m)) \/ Do(Assign(m) \o Rest(t, m))
    BY <1>1 DEF PromoteMatch
  <2>3. Rest(t, m) \in Seq(Kind({"assign", "promote"})) /\ Assign(m) \in Seq(Kind({"assign", "promote"}))
    BY <2>1, Pieces DEF Looping
  <2> QED BY <2>2, <2>3, Pieces
<1>18. AssignRow => \E tasks \in Seq(Kind({"assign"})) : Do(tasks)
  <2> SUFFICES ASSUME AssignRow PROVE \E tasks \in Seq(Kind({"assign"})) : Do(tasks) OBVIOUS
  <2>1. t \in Task /\ t.op = "assign"
    BY <1>1, <1>2 DEF AssignRow, Now
  <2>2. ASSUME NEW s PROVE <<[t EXCEPT !.pend = @ \ {s}]>> \in Seq(Kind({"assign"}))
    <3>1. PICK r : r = [t EXCEPT !.pend = @ \ {s}]
      OBVIOUS
    <3>2. r \in Kind({"assign"})
      BY <2>1, <3>1, Less DEF Kind
    <3> QED BY <3>1, <3>2, Pieces
  <2> QED BY <1>1, <2>2 DEF AssignRow
<1>19. StartAccepting => \E tasks \in Seq(Kind({"accepted"})) : Do(tasks)
  <2> SUFFICES ASSUME StartAccepting PROVE \E tasks \in Seq(Kind({"accepted"})) : Do(tasks) OBVIOUS
  <2>1. t \in Task /\ t.op = "assign" /\ t.m \in MatchIds
    BY <1>1, <1>2, TaskFields DEF StartAccepting, Now
  <2>2. Do(<<[op |-> "accepted", m |-> t.m]>>) \/ Do(<<>>)
    BY <1>1 DEF StartAccepting
  <2> QED BY <1>5, <2>1, <2>2, Pieces
<1>20. MarkAccepted => \E tasks \in Seq(Kind({"connect"})) : Do(tasks)
  <2> SUFFICES ASSUME MarkAccepted PROVE \E tasks \in Seq(Kind({"connect"})) : Do(tasks) OBVIOUS
  <2>1. t \in Task /\ t.op = "accepted" /\ t.m \in MatchIds
    BY <1>1, <1>2, TaskFields DEF MarkAccepted, Now
  <2> QED BY <1>1, <1>5, <2>1 DEF MarkAccepted
<1> QED BY <1>6, <1>7, <1>8, <1>9, <1>10, <1>11, <1>12, <1>13, <1>14, <1>15, <1>16, <1>17, <1>18, <1>19, <1>20

\* what the timers found, as they put it
LEMMA WorkTasks ==
  ASSUME TInv, NEW q \in 1..LastPhase, NEW work \in Works(q), NEW r \in Range(work)
  PROVE  /\ r.op \in Timed
         /\ r.op = "orphan" => r.pend \in SUBSET Orphans /\ r.pend # {}
         /\ r.op = "lapse" => r.pend \in SUBSET Lapsed
<1>1. r.op \in Timed
  BY WorksSound
<1>2. ASSUME NEW e, NEW R \in {{}, {e}}, Queue(work, R) PROVE r = e /\ R # {}
  BY <1>2 DEF Queue
<1>3. ASSUME NEW S \in SUBSET Stale, work = Leave(S, "EXPIRED", TRUE) PROVE r.op = "leave"
  <2>1. PICK e : e = [op |-> "leave", pend |-> S, st |-> "EXPIRED", party |-> TRUE]
    OBVIOUS
  <2>2. Queue(work, IF S = {} THEN {} ELSE {e})
    BY <1>3, <2>1, LeaveQueue DEF Stale, Finished
  <2>3. r = e
    BY <1>2, <2>2
  <2> QED BY <2>1, <2>3
<1>4. ASSUME NEW op \in {"breakup", "lapse", "fill", "reserve", "promote"}, NEW M \in SUBSET MatchIds, work = Loop(op, M)
      PROVE  r.op = op /\ r.pend = M
  <2>1. PICK e : e = [op |-> op, pend |-> M]
    OBVIOUS
  <2>2. Queue(work, IF M = {} THEN {} ELSE {e})
    BY <1>4, <2>1, LoopQueue
  <2>3. r = e
    BY <1>2, <2>2
  <2> QED BY <2>1, <2>3
<1>5. ASSUME NEW op \in {"retire", "place"}, NEW S \in SUBSET SearchIds, work = Loop(op, S)
      PROVE  r.op = op
  <2>1. PICK e : e = [op |-> op, pend |-> S]
    OBVIOUS
  <2>2. Queue(work, IF S = {} THEN {} ELSE {e})
    BY <1>5, <2>1, LoopQueue
  <2>3. r = e
    BY <1>2, <2>2
  <2> QED BY <2>1, <2>3
<1>6. ASSUME NEW V \in SUBSET Orphans, work = Loop("orphan", V) PROVE r.op = "orphan" /\ r.pend = V /\ V # {}
  <2>1. PICK e : e = [op |-> "orphan", pend |-> V]
    OBVIOUS
  <2>2. Queue(work, IF V = {} THEN {} ELSE {e})
    BY <1>6, <2>1, LoopQueue DEF Orphans
  <2>3. r = e /\ V # {}
    BY <1>2, <2>2
  <2> QED BY <2>1, <2>3
<1>7. ASSUME work \in {<<>>, Purge} PROVE r.op = "purge"
  <2>1. [op |-> "purge"] \in Task
    BY DEF Task
  <2>2. Queue(work, {}) \/ Queue(work, {[op |-> "purge"]})
    BY <1>7, <2>1, ShortQueue DEF Purge
  <2> QED BY <2>2 DEF Queue
<1>8. /\ SUBSET AcceptDue \subseteq SUBSET MatchIds /\ Legacy \in SUBSET MatchIds /\ Deserted \in SUBSET MatchIds
      /\ SUBSET Assigned \subseteq SUBSET SearchIds /\ SUBSET Lapsed \subseteq SUBSET MatchIds
      /\ Unplaced \in SUBSET SearchIds /\ SUBSET Fillable \subseteq SUBSET MatchIds
      /\ Full \in SUBSET MatchIds /\ Promotable \in SUBSET MatchIds
  BY DEF AcceptDue, Legacy, Deserted, Assigned, Lapsed, Unplaced, Fillable, Full, Promotable
<1>9. \/ \E S \in SUBSET Stale : work = Leave(S, "EXPIRED", TRUE)
      \/ \E op \in {"breakup", "fill", "reserve", "promote"}, M \in SUBSET MatchIds : work = Loop(op, M)
      \/ \E op \in {"retire", "place"}, S \in SUBSET SearchIds : work = Loop(op, S)
      \/ \E M \in SUBSET Lapsed : work = Loop("lapse", M)
      \/ \E V \in SUBSET Orphans : work = Loop("orphan", V)
      \/ work \in {<<>>, Purge}
  <2>1. (\E M \in SUBSET AcceptDue : work = Loop("breakup", M)) \/ work = Loop("breakup", Legacy)
        \/ work = Loop("breakup", Deserted) \/ (\E M \in SUBSET Fillable : work = Loop("fill", M))
        \/ work = Loop("reserve", Full) \/ work = Loop("promote", Promotable)
        => \E op \in {"breakup", "fill", "reserve", "promote"}, M \in SUBSET MatchIds : work = Loop(op, M)
    BY <1>8
  <2>2. (\E S \in SUBSET Assigned : work = Loop("retire", S)) \/ work = Loop("place", Unplaced)
        => \E op \in {"retire", "place"}, S \in SUBSET SearchIds : work = Loop(op, S)
    BY <1>8
  <2> QED BY <2>1, <2>2, WorksAre
<1>10. CASE \E S \in SUBSET Stale : work = Leave(S, "EXPIRED", TRUE)
  BY <1>1, <1>3, <1>10
<1>11. CASE \E op \in {"breakup", "fill", "reserve", "promote"}, M \in SUBSET MatchIds : work = Loop(op, M)
  BY <1>1, <1>4, <1>11
<1>12. CASE \E op \in {"retire", "place"}, S \in SUBSET SearchIds : work = Loop(op, S)
  BY <1>1, <1>5, <1>12
<1>13. CASE \E M \in SUBSET Lapsed : work = Loop("lapse", M)
  BY <1>1, <1>4, <1>8, <1>13
<1>14. CASE \E V \in SUBSET Orphans : work = Loop("orphan", V)
  BY <1>1, <1>6, <1>14
<1>15. CASE work \in {<<>>, Purge}
  BY <1>1, <1>7, <1>15
<1> QED BY <1>9, <1>10, <1>11, <1>12, <1>13, <1>14, <1>15

\* one step of runMatcher or of the tick: what a phase found and the next phase, or the end
LEMMA ScanPuts ==
  ASSUME TInv, Scan
  PROVE  /\ todo # <<>> /\ Head(todo).op = "scan" /\ Behind = {} /\ UNCHANGED <<search, match, server, acks>>
         /\ \A r \in Range(todo') : \/ r.op = "scan"
                                    \/ \E q \in 1..LastPhase : \E work \in Works(q) : r \in Range(work)
         /\ todo' # <<>> => Head(todo') \in Range(todo')
<1> DEFINE at == Head(todo).at
<1>1. todo # <<>> /\ Head(todo).op = "scan" /\ UNCHANGED <<search, match, server, acks>>
  BY DEF Scan, Now
<1>2. at \in 1..LastPhase + 1 /\ Behind = {}
  BY <1>1, Running, BehindKinds DEF Task
<1>3. ASSUME NEW q \in at..LastPhase, NEW work \in Works(q), Do(work \o <<[op |-> "scan", at |-> q + 1]>>)
      PROVE  /\ \A r \in Range(todo') : r.op = "scan" \/ r \in Range(work)
             /\ todo' # <<>> => Head(todo') \in Range(todo')
  <2>1. work \in Seq(Task)
    BY <1>2, WorksSound DEF LastPhase, Queue
  <2>2. PICK go : go = [op |-> "scan", at |-> q + 1]
    OBVIOUS
  <2>3. go.op = "scan" /\ work \in Seq(Task \cup {go}) /\ <<go>> \in Seq(Task \cup {go})
    BY <2>1, <2>2
  <2>4. work \o <<go>> \in Seq(Task \cup {go}) /\ Range(work \o <<go>>) = Range(work) \cup Range(<<go>>)
    BY <2>3, RangeConcatenation, ConcatProperties
  <2>5. Range(<<go>>) = {go}
    <3>1. Len(<<go>>) = 1 /\ <<go>>[1] = go
      OBVIOUS
    <3>2. Range(<<go>>) = {<<go>>[i] : i \in 1..1}
      BY <2>3, <3>1, RangeEquality
    <3> QED BY <3>1, <3>2
  <2>6. Do(work \o <<go>>)
    BY <1>3, <2>2
  <2>7. Range(todo') = Range(work) \cup {go}
    BY <1>1, <1>2, <2>4, <2>5, <2>6, NextTasks
  <2>8. go \in Task
    <3>1. q + 1 \in 1..LastPhase + 1
      BY <1>2 DEF LastPhase
    <3> QED BY <2>2, <3>1 DEF Task
  <2>9. Queue(<<go>>, {go}) /\ Queue(work, Range(work)) /\ \A t \in Range(work) : t.op \in Timed
    BY <1>2, <2>8, ShortQueue, WorksSound DEF LastPhase
  <2>10. Queue(work \o <<go>>, Range(work) \cup {go})
    BY <2>3, <2>9, JoinQueues DEF Precedes, Timed
  <2>11. todo' # <<>> => Head(todo') \in Range(work) \cup {go}
    BY <1>1, <1>2, <2>6, <2>10, HeadAfter
  <2> QED BY <2>3, <2>7, <2>11
<1>4. ASSUME Do(<<>>) PROVE todo' = <<>> /\ Range(todo') = {}
  <2>1. todo' = <<>>
    BY <1>1, <1>2, <1>4, ShortQueue, HeadAfter
  <2> QED BY <2>1, ShortQueue DEF Queue
<1>5. \/ \E q \in at..LastPhase : \E work \in Works(q) : Do(work \o <<[op |-> "scan", at |-> q + 1]>>)
      \/ Do(<<>>)
  BY DEF Scan
<1>6. at..LastPhase \subseteq 1..LastPhase
  BY <1>2 DEF LastPhase
<1>7. CASE Do(<<>>)
  BY <1>1, <1>2, <1>4, <1>7
<1>8. CASE \E q \in at..LastPhase : \E work \in Works(q) : Do(work \o <<[op |-> "scan", at |-> q + 1]>>)
  <2>1. PICK q \in at..LastPhase : \E work \in Works(q) : Do(work \o <<[op |-> "scan", at |-> q + 1]>>)
    BY <1>8
  <2>2. PICK work \in Works(q) : Do(work \o <<[op |-> "scan", at |-> q + 1]>>)
    BY <2>1
  <2>3. /\ \A r \in Range(todo') : r.op = "scan" \/ r \in Range(work)
        /\ todo' # <<>> => Head(todo') \in Range(todo')
    BY <1>3, <2>2
  <2>4. q \in 1..LastPhase
    BY <1>6
  <2> QED BY <1>1, <1>2, <2>3, <2>4
<1> QED BY <1>5, <1>7, <1>8

-----------------------------------------------------------------------------
(* The servers of the matches that are over. *)

AtHead(op, m) == todo # <<>> /\ Head(todo).op = op /\ Head(todo).m = m

\* a server is still reserved for a match that is over only while the handler is giving it back
GivenBack ==
  \A v \in Servers, m \in MatchIds :
    server[v].by = m /\ match[m].st \in Over =>
      \/ AtHead("release", m)
      \/ todo # <<>> /\ Head(todo).op = "set" /\ Head(todo).v = v /\ match[m].st = "ENDED"
\* a match that keeps its server ends because this server is about to be set
SetNext ==
  todo # <<>> /\ Head(todo).op = "end" /\ Head(todo).free = "keep" =>
    /\ Tail(todo) # <<>> /\ Head(Tail(todo)).op = "set"
    /\ \A v \in Servers : server[v].by = Head(todo).m => v = Head(Tail(todo)).v
\* a match that breaks with its server gives it back with a cooldown, and there are no orphans
Cools ==
  todo # <<>> =>
    LET t == Head(todo) IN
    /\ t.op = "end" /\ t.st = "CANCELLED" /\ (\E v \in Servers : server[v].by = t.m) => t.free = "cool"
    /\ t.op = "release" /\ match[t.m].st = "CANCELLED" /\ (\E v \in Servers : server[v].by = t.m) => t.free = "cool"
    /\ t.op # "orphan"
Handed == GivenBack /\ SetNext /\ Cools

\* no server is reserved for a match that is over
NoneOver == \A v \in Servers, m \in MatchIds : ~(server[v].by = m /\ match[m].st \in Over)

\* most tasks neither end a match nor give a server back
LEMMA HandedOn ==
  ASSUME NoneOver', todo' # <<>> => Head(todo').op \notin {"end", "release", "orphan"}
  PROVE  Handed'
BY DEF NoneOver, Handed, GivenBack, SetNext, Cools

\* which is the rule whenever no server is being released or set
LEMMA NoneIsOver ==
  ASSUME Handed, todo = <<>> \/ Head(todo).op \notin {"release", "set"}
  PROVE  NoneOver
BY DEF NoneOver, Handed, GivenBack, AtHead

\* only the statement that ends a match makes it over
LEMMA OnlyEnds ==
  ASSUME TInv, [Next]_vars, NEW m \in MatchIds, match[m].st \notin Over, match'[m].st \in Over
  PROVE  End /\ Head(todo).m = m
<1>1. match \in [MatchIds -> MatchType] /\ match'[m] # match[m]
  BY DEF TInv, PInv, IInv, TypeOK
<1>2. \/ DeleteOld \/ MemberLeft \/ End \/ PlaceSearch \/ CompleteMatch \/ FillMatch \/ ReserveServer
      \/ StartAccepting \/ MarkAccepted
  BY <1>1, MatchWriters
<1>3. ~DeleteOld
  BY <1>1 DEF DeleteOld, NoMatch, Over
<1>4. ~MemberLeft
  BY <1>1 DEF MemberLeft, MatchType, Over
<1>5. ~PlaceSearch
  BY <1>1 DEF PlaceSearch, PlaceAccept, PlaceClassic, NewMatch, NoMatch, Over
<1>6. ~CompleteMatch
  BY <1>1 DEF CompleteMatch, MatchType, Over
<1>7. ~FillMatch
  <2> SUFFICES ASSUME FillMatch PROVE FALSE OBVIOUS
  <2>1. PICK k \in Head(todo).pend : \E p \in Best(Fitting(k)) : \E n :
               match' = [match EXCEPT ![k].prof = p, ![k].fake = n]
    BY <1>1 DEF FillMatch
  <2> QED BY <1>1, <2>1 DEF MatchType
<1>8. ~ReserveServer
  <2> SUFFICES ASSUME ReserveServer PROVE FALSE OBVIOUS
  <2>1. PICK k \in Head(todo).pend : \E v \in Candidates(k) :
               match' = [match EXCEPT ![k].st = "READY", ![k].sv = v, ![k].map = server[v].map]
    BY <1>1 DEF ReserveServer
  <2> QED BY <1>1, <2>1 DEF MatchType, Over
<1>9. ~StartAccepting /\ ~MarkAccepted
  BY <1>1 DEF StartAccepting, MarkAccepted, MatchType, Over
<1>10. End
  BY <1>2, <1>3, <1>4, <1>5, <1>6, <1>7, <1>8, <1>9
<1>11. Head(todo).m = m
  BY <1>1, <1>10 DEF End
<1> QED BY <1>10, <1>11

\* only a reservation makes a server that of a match
LEMMA OnlyReserves ==
  ASSUME TInv, [Next]_vars, NEW v \in Servers, NEW m \in MatchIds, server[v].by # m, server'[v].by = m
  PROVE  ReserveServer /\ match'[m].st = "READY"
<1>1. server \in [Servers -> ServerType] /\ match \in [MatchIds -> MatchType] /\ server' # server /\ m # None
  BY NoneAssumption DEF TInv, PInv, IInv, TypeOK
<1>2. ~Player
  <2>1. ASSUME NEW a \in Accounts, NEW r \in Requests, NEW src \in Sources, NEW ask \in Choices,
               NEW party \in Parties[a], Start(a, r, src, ask, party)
        PROVE  FALSE
    BY <1>1, <2>1 DEF Start
  <2>2. ASSUME NEW s \in SearchIds, Poll(s) \/ Remove(s) PROVE FALSE
    BY <1>1, <2>2 DEF Poll, Remove
  <2>3. ASSUME NEW s \in SearchIds, NEW r \in Asked(s), Cancel(s, r) \/ Accept(s, r) PROVE FALSE
    BY <1>1, <2>3 DEF Cancel, Accept
  <2> QED BY <2>1, <2>2, <2>3 DEF Player
<1>3. ~Operator
  <2>1. ASSUME NEW w \in Servers, NEW st, SetServerState(w, st) \/ DeleteServer(w) PROVE FALSE
    BY <1>1, <2>1 DEF SetServerState, DeleteServer
  <2>2. ASSUME NEW w \in Servers, NEW setup, NEW on, EditServer(w, setup, on) \/ EnableServer(w, on) PROVE FALSE
    BY <1>1, <2>2 DEF EditServer, EnableServer, ServerType
  <2>3. ASSUME NEW w \in Servers, NEW setup, NEW on, NEW st, CreateServer(w, setup, st, on) PROVE FALSE
    BY <1>1, <2>3 DEF CreateServer, ServerType
  <2> QED BY <2>1, <2>2, <2>3 DEF Operator
<1>4. ~GameServer
  <2>1. ASSUME NEW w \in Servers, NEW k, RosterForServer(w) \/ ConfirmRoster(w, k) PROVE FALSE
    BY <1>1, <2>1 DEF RosterForServer, ConfirmRoster
  <2>2. ASSUME NEW w \in Servers, NEW map, NEW st, Report(w, map, st) PROVE FALSE
    BY <1>1, <2>2 DEF Report, ServerType
  <2> QED BY <2>1, <2>2 DEF GameServer
<1>5. ~FakePlayers
  BY <1>1 DEF FakePlayers, SetFakeMaster, WriteProfile
<1>6. ~Time
  BY <1>1 DEF Time, RunTick, CooldownOver, PollWindowOver, ServerType
<1>7. ~Crash
  BY <1>1 DEF Crash
<1>8. Step
  BY <1>1, <1>2, <1>3, <1>4, <1>5, <1>6, <1>7 DEF Next, vars
<1>9. ReleaseOrphan \/ Release \/ SetServer \/ ReserveServer
  BY <1>1, <1>8 DEF Step, Scan, Breakup, Retire, Lapse, DeleteOld, LeaveRow, MemberLeft, DissolveRow, End,
                    ReleaseAbandoned, Enter, SyncParty, AddMember, TagMember, PlaceSearch, JoinMatch, GatherParty,
                    CompleteMatch, FillMatch, PromoteMatch, AssignRow, StartAccepting, MarkAccepted, PromoteAccepted
<1>10. ~ReleaseOrphan /\ ~Release /\ ~SetServer
  <2>1. ~ReleaseOrphan
    <3> SUFFICES ASSUME ReleaseOrphan PROVE FALSE OBVIOUS
    <3>1. PICK w \in Head(todo).pend : server' = [server EXCEPT ![w].st = "AVAILABLE", ![w].by = None, ![w].cool = FALSE]
      BY DEF ReleaseOrphan
    <3> QED BY <1>1, <3>1 DEF ServerType
  <2>2. ~Release
    <3> SUFFICES ASSUME Release PROVE FALSE OBVIOUS
    <3>1. PICK w, c : server' = [server EXCEPT ![w].st = "AVAILABLE", ![w].by = None, ![w].cool = c]
      BY <1>1 DEF Release
    <3> QED BY <1>1, <3>1 DEF ServerType
  <2>3. ~SetServer
    BY <1>1 DEF SetServer, ServerType
  <2> QED BY <2>1, <2>2, <2>3
<1>11. PICK k \in Head(todo).pend : \E w \in Candidates(k) :
          /\ server' = [server EXCEPT ![w].st = "RESERVED", ![w].by = k, ![w].cool = FALSE]
          /\ match' = [match EXCEPT ![k].st = "READY", ![k].sv = w, ![k].map = server[w].map]
  BY <1>1, <1>9, <1>10 DEF ReserveServer
<1>12. k = m
  BY <1>1, <1>11 DEF ServerType
<1> QED BY <1>1, <1>9, <1>10, <1>11, <1>12 DEF MatchType

\* so it stays the rule until a match ends
LEMMA StillNoneOver ==
  ASSUME TInv, [Next]_vars, NoneOver, ~End
  PROVE  NoneOver'
<1> SUFFICES ASSUME NEW v \in Servers, NEW m \in MatchIds, server'[v].by = m, match'[m].st \in Over PROVE FALSE
  BY DEF NoneOver
<1>1. match[m].st \in Over
  BY OnlyEnds
<1>2. server[v].by # m
  BY <1>1 DEF NoneOver
<1>3. match'[m].st = "READY"
  BY <1>2, OnlyReserves
<1> QED BY <1>3 DEF Over

\* the statements that queue no end of a match, no release and no sweep
LEMMA LightHead ==
  ASSUME TInv,
         \/ Retire \/ DeleteOld \/ LeaveRow \/ Release \/ SetServer \/ Enter \/ SyncParty \/ AddMember \/ TagMember
         \/ PlaceSearch \/ JoinMatch \/ GatherParty \/ CompleteMatch \/ FillMatch \/ ReserveServer \/ PromoteMatch
         \/ AssignRow \/ StartAccepting \/ MarkAccepted \/ PromoteAccepted,
         todo' # <<>>
  PROVE  Head(todo').op \notin {"end", "release", "orphan"}
<1> DEFINE K == {"retire", "leave", "left", "sync", "add", "tag", "join", "place", "gather", "full", "reserve", "assign",
                 "fill", "promote", "accepted", "connect"}
<1>1. todo # <<>>
  BY DEF Retire, DeleteOld, LeaveRow, Release, SetServer, Enter, SyncParty, AddMember, TagMember, PlaceSearch, JoinMatch,
         GatherParty, CompleteMatch, FillMatch, ReserveServer, PromoteMatch, AssignRow, StartAccepting, MarkAccepted,
         PromoteAccepted, Now
<1>2. ASSUME NEW L \in SUBSET K, NEW tasks \in Seq(Kind(L)), Do(tasks) PROVE Head(todo').op \notin {"end", "release", "orphan"}
  <2>1. Head(todo') \in Kind(L) \cup Behind
    BY <1>1, <1>2, NextTasks
  <2>2. \A t \in Kind(L) : t.op \in K
    BY <1>2 DEF Kind
  <2> QED BY <1>1, <2>1, <2>2, BehindKinds
<1>3. DeleteOld \/ Release \/ SetServer \/ TagMember \/ PromoteAccepted => Do(<<>>)
  BY DEF DeleteOld, Release, SetServer, TagMember, PromoteAccepted
<1>4. <<>> \in Seq(Kind({})) /\ {} \in SUBSET K
  BY Pieces
<1>5. {{"retire"}, {"leave", "left"}, {"leave", "left", "sync"}, {"leave", "add"}, {"leave", "add", "tag"}, {"join", "place"},
       {"gather"}, {"gather", "full"}, {"reserve", "assign"}, {"full", "fill"}, {"assign", "reserve"},
       {"assign", "promote"}, {"assign"}, {"accepted"}, {"connect"}} \subseteq SUBSET K
  OBVIOUS
<1> HIDE DEF K
<1>6. \E L \in SUBSET K : \E tasks \in Seq(Kind(L)) : Do(tasks)
  <2>1. Retire \/ LeaveRow \/ Enter \/ SyncParty \/ AddMember => \E L \in SUBSET K : \E tasks \in Seq(Kind(L)) : Do(tasks)
    BY <1>5, Puts
  <2>2. PlaceSearch \/ JoinMatch \/ GatherParty \/ CompleteMatch => \E L \in SUBSET K : \E tasks \in Seq(Kind(L)) : Do(tasks)
    BY <1>5, Puts
  <2>3. FillMatch \/ ReserveServer \/ PromoteMatch \/ AssignRow => \E L \in SUBSET K : \E tasks \in Seq(Kind(L)) : Do(tasks)
    BY <1>5, Puts
  <2>4. StartAccepting \/ MarkAccepted => \E L \in SUBSET K : \E tasks \in Seq(Kind(L)) : Do(tasks)
    BY <1>5, Puts
  <2> QED BY <1>3, <1>4, <2>1, <2>2, <2>3, <2>4
<1> QED BY <1>2, <1>6

\* who the match of a reserved server is, as long as it is not over
LEMMA HeldBy ==
  ASSUME TInv, NoneOver, NEW v \in Servers, NEW m \in MatchIds, server[v].by = m
  PROVE  match[m].sv = v /\ match[m].st \in Holding /\ AcceptRequired(m)
<1>1. match[m].sv = v /\ PhaseOf(match[m]) \in {"held", "over"} /\ match[m] \in MatchType
  BY NoneAssumption DEF TInv, PInv, PSafe, ReservedBy, IInv, TypeOK
<1>2. match[m].st \notin Over
  BY DEF NoneOver
<1> QED BY <1>1, <1>2, PhaseIs DEF AcceptRequired

\* a match that has its server and is not accepted breaks with a cooldown
LEMMA DissolveCools ==
  ASSUME TInv, NoneOver, NEW m \in MatchIds, match[m].st # "ACCEPTED", NEW v \in Servers, server[v].by = m
  PROVE  DissolveTask(m).free = "cool"
BY HeldBy DEF DissolveTask, Holding

\* the statement that queues the end of a match
LEMMA EndQueued ==
  ASSUME TInv, Handed, [Next]_vars, todo # <<>>, Head(todo).op \in {"breakup", "lapse", "abandon", "left"},
         NEW m \in MatchIds, NEW rest \in Seq(Task), UNCHANGED server,
         \/ Do(Dissolve(m) \o rest) /\ match[m].st # "ACCEPTED"
         \/ Do(EndMatch(m, "now") \o rest)
  PROVE  Handed'
<1>1. NoneOver /\ NoneOver'
  BY NoneIsOver, StillNoneOver DEF End, Now
<1>2. /\ DissolveTask(m) \in Task /\ Dissolve(m) = <<DissolveTask(m)>>
      /\ EndMatch(m, "now") = <<EndTask(m, "now")>> /\ Queue(EndMatch(m, "now"), {EndTask(m, "now")})
  BY MatchQueue
<1>3. PICK e : \/ e = DissolveTask(m) /\ Do(<<e>> \o rest) /\ match[m].st # "ACCEPTED"
               \/ e = EndTask(m, "now") /\ Do(<<e>> \o rest)
  BY <1>2
<1>4. /\ e.op = "end" /\ e.free # "keep" /\ e.m = m
      /\ e.st = "CANCELLED" /\ (\E v \in Servers : server[v].by = m) => e.free = "cool"
  <2>1. CASE e = EndTask(m, "now")
    BY <2>1 DEF EndTask
  <2>2. CASE e = DissolveTask(m) /\ match[m].st # "ACCEPTED"
    BY <1>1, <2>2, DissolveCools DEF DissolveTask
  <2> QED BY <1>3, <2>1, <2>2
<1>5. <<e>> \o rest \in Seq(Task \cup {e}) /\ <<e>> \o rest # <<>> /\ Head(<<e>> \o rest) = e
  OBVIOUS
<1>6. todo' # <<>> /\ Head(todo') = e
  BY <1>3, <1>5, NextTasks
<1>7. GivenBack'
  BY <1>1 DEF NoneOver, GivenBack
<1>8. SetNext' /\ Cools'
  BY <1>4, <1>6 DEF SetNext, Cools
<1> QED BY <1>7, <1>8 DEF Handed

\* the timers, a player who leaves and an account that starts another search
LEMMA EndersHanded ==
  ASSUME TInv, Handed, [Next]_vars, Breakup \/ Lapse \/ ReleaseAbandoned \/ MemberLeft
  PROVE  Handed'
<1>1. PICK t : t = Head(todo)
  OBVIOUS
<1>2. /\ todo # <<>> /\ t.op \in {"breakup", "lapse", "abandon", "left"} /\ UNCHANGED server
      /\ t \in Task /\ Sound(t)
  BY <1>1, Running DEF Breakup, Lapse, ReleaseAbandoned, MemberLeft, Now
<1>3. \A m : t.op \in {"breakup", "lapse", "abandon"} => Rest(t, m) \in Seq(Task)
  BY <1>2, RestQueue DEF Looping, Queue
<1>4. CASE Breakup
  <2>1. t.op = "breakup" /\ t.pend \in SUBSET MatchIds /\ CanBreak(t)
    BY <1>1, <1>2, <1>4, TaskFields DEF Breakup, Now, Sound
  <2>2. PICK m \in t.pend : Do(Dissolve(m) \o Rest(t, m))
    BY <1>1, <1>4 DEF Breakup
  <2> QED BY <1>1, <1>2, <1>3, <2>1, <2>2, EndQueued DEF CanBreak
<1>5. CASE Lapse
  <2>1. t.op = "lapse" /\ t.pend \in SUBSET MatchIds
    BY <1>1, <1>2, <1>5, TaskFields DEF Lapse, Now
  <2>2. PICK m \in t.pend : Do(EndMatch(m, "now") \o Rest(t, m))
    BY <1>1, <1>5 DEF Lapse
  <2> QED BY <1>1, <1>2, <1>3, <2>1, <2>2, EndQueued
<1>6. CASE ReleaseAbandoned
  <2>1. t.op = "abandon" /\ t.pend \in SUBSET MatchIds
    BY <1>1, <1>2, <1>6, TaskFields DEF ReleaseAbandoned, Now
  <2>2. PICK m \in t.pend : \/ Do(Dissolve(m) \o Rest(t, m)) /\ match[m].st # "ACCEPTED"
                            \/ Do(EndMatch(m, "now") \o Rest(t, m))
    BY <1>1, <1>6 DEF ReleaseAbandoned
  <2> QED BY <1>1, <1>2, <1>3, <2>1, <2>2, EndQueued
<1>7. CASE MemberLeft
  <2>1. t.op = "left" /\ t.m \in MatchIds
    BY <1>1, <1>2, <1>7, TaskFields DEF MemberLeft, Now
  <2>2. \/ Do(Dissolve(t.m)) /\ match[t.m].st # "ACCEPTED"
        \/ Do(<<>>)
    BY <1>1, <1>7 DEF MemberLeft, Gathering
  <2>3. CASE Do(Dissolve(t.m)) /\ match[t.m].st # "ACCEPTED"
    <3>1. Dissolve(t.m) = Dissolve(t.m) \o <<>> /\ <<>> \in Seq(Task)
      BY <2>1, MatchQueue, ConcatEmptySeq DEF Queue
    <3> QED BY <1>1, <1>2, <2>1, <2>3, <3>1, EndQueued
  <2>4. CASE Do(<<>>)
    <3>1. todo' # <<>> => Head(todo').op \notin {"end", "release", "orphan"}
      BY <1>1, <1>2, <2>4, ShortQueue, HeadAfter, BehindKinds
    <3>2. NoneOver'
      BY <1>1, <1>2, <2>1, NoneIsOver, StillNoneOver DEF End, Now
    <3> QED BY <3>1, <3>2, HandedOn
  <2> QED BY <2>2, <2>3, <2>4
<1> QED BY <1>4, <1>5, <1>6, <1>7

\* a match that loses its players row by row keeps what becomes of its server
LEMMA RowHanded == ASSUME TInv, Handed, [Next]_vars, DissolveRow PROVE Handed'
<1>1. PICK t : t = Head(todo)
  OBVIOUS
<1>2. todo # <<>> /\ t.op = "end" /\ t \in Task /\ CanEnd(t) /\ t.st \in Over /\ UNCHANGED <<match, server>>
  BY <1>1, Running, TaskFields DEF DissolveRow, Now, Sound
<1>3. PICK s \in t.pend : Do(<<[t EXCEPT !.pend = @ \ {s}]>>)
  BY <1>1 DEF DissolveRow
<1>4. PICK r : r = [t EXCEPT !.pend = @ \ {s}]
  OBVIOUS
<1>5. r.op = "end" /\ r.m = t.m /\ r.st = t.st /\ r.free = t.free
  BY <1>2, <1>4, Less
<1>6. todo' # <<>> /\ Head(todo') = r
  <2>1. <<r>> \in Seq({r}) /\ <<r>> # <<>> /\ Head(<<r>>) = r
    OBVIOUS
  <2> QED BY <1>2, <1>3, <1>4, <2>1, NextTasks
<1>7. t.free # "keep"
  BY <1>2, <1>3 DEF CanEnd, Over
<1>8. NoneOver /\ NoneOver'
  BY <1>1, <1>2, NoneIsOver DEF NoneOver
<1>9. GivenBack'
  BY <1>8 DEF NoneOver, GivenBack
<1>10. SetNext'
  BY <1>5, <1>6, <1>7 DEF SetNext
<1>11. Cools'
  BY <1>1, <1>2, <1>5, <1>6 DEF Handed, Cools
<1> QED BY <1>9, <1>10, <1>11 DEF Handed

\* a match ends: its server is released next, or set next
LEMMA EndHanded == ASSUME TInv, Handed, [Next]_vars, End PROVE Handed'
<1>1. PICK t : t = Head(todo)
  OBVIOUS
<1>2. /\ todo # <<>> /\ t.op = "end" /\ t \in Task /\ CanEnd(t) /\ t.st \in Over /\ t.m \in MatchIds
      /\ t.free \in {"cool", "now", "keep"} /\ UNCHANGED server
  BY <1>1, Running, TaskFields DEF End, Now, Sound
<1>3. NoneOver /\ match \in [MatchIds -> MatchType]
  BY <1>1, <1>2, NoneIsOver DEF TInv, PInv, IInv, TypeOK
<1>4. /\ match' = [match EXCEPT ![t.m].st = IF @ \in Gathering \cup Holding THEN t.st ELSE @]
      /\ Do(IF match[t.m].sv = None \/ t.free = "keep" THEN <<>>
            ELSE <<[op |-> "release", m |-> t.m, free |-> t.free]>>)
  BY <1>1 DEF End
<1>5. \A v \in Servers, m \in MatchIds : server'[v].by = m /\ match'[m].st \in Over => m = t.m /\ match[t.m].sv = v
  BY <1>2, <1>3, <1>4, HeldBy DEF NoneOver
<1>6. \A v \in Servers : server[v].by = t.m => match'[t.m].st = t.st
  BY <1>2, <1>3, <1>4, HeldBy DEF MatchType
<1>7. CASE match[t.m].sv = None
  <2>1. Do(<<>>) /\ NoneOver'
    BY <1>4, <1>5, <1>7, NoneAssumption DEF NoneOver
  <2>2. todo' # <<>> => Head(todo').op \notin {"end", "release", "orphan"}
    BY <1>2, <2>1, ShortQueue, HeadAfter, BehindKinds
  <2> QED BY <2>1, <2>2, HandedOn
<1>8. CASE match[t.m].sv # None /\ t.free = "keep"
  <2>1. Do(<<>>) /\ t.st = "ENDED"
    BY <1>2, <1>4, <1>8 DEF CanEnd, Over
  <2>2. todo' = Tail(todo)
    <3>1. <<>> \in Seq({})
      OBVIOUS
    <3> QED BY <1>2, <2>1, <3>1, NextTasks
  <2>3. todo' # <<>> /\ Head(todo').op = "set" /\ \A v \in Servers : server[v].by = t.m => v = Head(todo').v
    BY <1>1, <1>2, <1>8, <2>2 DEF Handed, SetNext
  <2>4. GivenBack'
    BY <1>2, <1>5, <1>6, <2>1, <2>3 DEF GivenBack
  <2> QED BY <2>3, <2>4 DEF Handed, SetNext, Cools
<1>9. CASE match[t.m].sv # None /\ t.free # "keep"
  <2>1. PICK r : r = [op |-> "release", m |-> t.m, free |-> t.free]
    OBVIOUS
  <2>2. Do(<<r>>) /\ r.op = "release" /\ r.m = t.m /\ r.free = t.free
    BY <1>4, <1>9, <2>1
  <2>3. todo' # <<>> /\ Head(todo') = r
    <3>1. <<r>> \in Seq({r}) /\ <<r>> # <<>> /\ Head(<<r>>) = r
      OBVIOUS
    <3> QED BY <1>2, <2>2, <3>1, NextTasks
  <2>4. GivenBack' /\ SetNext'
    BY <1>5, <2>2, <2>3 DEF GivenBack, SetNext, AtHead
  <2>5. ASSUME NEW v \in Servers, server[v].by = t.m, match'[t.m].st = "CANCELLED" PROVE t.free = "cool"
    BY <1>1, <1>2, <1>6, <2>5 DEF Handed, Cools
  <2>6. Cools'
    BY <1>2, <2>2, <2>3, <2>5 DEF Cools
  <2> QED BY <2>4, <2>6 DEF Handed
<1> QED BY <1>7, <1>8, <1>9

\* and then it is no longer reserved for this match
LEMMA ServerHanded == ASSUME TInv, Handed, [Next]_vars, Release \/ SetServer PROVE Handed'
<1>1. PICK t : t = Head(todo)
  OBVIOUS
<1>2. todo # <<>> /\ t.op \in {"release", "set"} /\ t \in Task /\ UNCHANGED match
  BY <1>1, Running DEF Release, SetServer, Now
<1>3. server \in [Servers -> ServerType] /\ \A m \in MatchIds : m # None
  BY NoneAssumption DEF TInv, PInv, IInv, TypeOK
<1>4. NoneOver'
  <2> SUFFICES ASSUME NEW v \in Servers, NEW m \in MatchIds, server'[v].by = m, match'[m].st \in Over PROVE FALSE
    BY DEF NoneOver
  <2>1. match[m].st \in Over
    BY <1>2
  <2>2. server[v].by = m
    <3>1. ~ReserveServer
      BY <1>1, <1>2 DEF ReserveServer, Now
    <3> QED BY <3>1, OnlyReserves
  <2>3. CASE Release
    <3>1. t.op = "release" /\ t.m = m /\ match[m].sv = v
      <4>1. t.op = "release"
        BY <1>1, <2>3 DEF Release, Now
      <4>2. t.m = m
        BY <1>1, <2>1, <2>2, <4>1 DEF Handed, GivenBack, AtHead
      <4>3. match[m].sv = v
        BY <1>3, <2>2 DEF TInv, PInv, PSafe, ReservedBy
      <4> QED BY <4>1, <4>2, <4>3
    <3>2. server' = [server EXCEPT ![v].st = "AVAILABLE", ![v].by = None, ![v].cool = (t.free = "cool")]
      BY <1>1, <2>2, <2>3, <3>1 DEF Release
    <3> QED BY <1>3, <3>2 DEF ServerType
  <2>4. CASE SetServer
    <3>1. t.op = "set" /\ t.v = v
      BY <1>1, <2>1, <2>2, <2>4 DEF Handed, GivenBack, AtHead, SetServer, Now
    <3>2. server' = [server EXCEPT ![v].st = t.st, ![v].by = None, ![v].cool = FALSE]
      BY <1>1, <2>4, <3>1 DEF SetServer
    <3> QED BY <1>3, <3>2 DEF ServerType
  <2> QED BY <2>3, <2>4
<1> QED BY <1>4, LightHead, HandedOn

\* the timers find no orphan
LEMMA ScanHanded == ASSUME TInv, Handed, [Next]_vars, Scan PROVE Handed'
<1>1. todo # <<>> /\ Head(todo).op = "scan"
  BY ScanPuts
<1>2. NoneOver /\ NoneOver'
  BY <1>1, NoneIsOver, StillNoneOver DEF End, Now
<1>3. Orphans = {}
  <2> SUFFICES ASSUME NEW v \in Orphans PROVE FALSE OBVIOUS
  <2>1. v \in Servers /\ server[v].st = "RESERVED" /\ ~Held(v)
    BY DEF Orphans
  <2>2. server[v].by \in MatchIds
    BY <2>1 DEF TInv, PInv, PSafe, ReservedBy, IInv, TypeOK, ServerType
  <2> QED BY <1>2, <2>1, <2>2, HeldBy DEF Held
<1>4. todo' # <<>> => Head(todo').op \notin {"end", "release", "orphan"}
  BY <1>3, ScanPuts, WorkTasks DEF Timed
<1> QED BY <1>2, <1>4, HandedOn

\* the first task of most handlers neither ends a match nor gives a server back
LEMMA BeginHanded ==
  ASSUME TInv, Handed, [Next]_vars, NEW K, K \cap {"end", "release", "orphan"} = {},
         NEW tasks \in Seq(Kind(K)), Begin(tasks)
  PROVE  Handed'
<1>1. todo = <<>> /\ todo' = tasks
  BY DEF Begin
<1>2. NoneOver'
  BY <1>1, NoneIsOver, StillNoneOver DEF End, Now
<1>3. todo' # <<>> => Head(todo') \in Kind(K)
  BY <1>1
<1> QED BY <1>2, <1>3, HandedOn DEF Kind

\* runMatcher and the tick begin with a scan
LEMMA ScanFirst == \A K : "scan" \in K => Matcher \in Seq(Kind(K)) /\ Tick \in Seq(Kind(K))
<1>1. [op |-> "scan", at |-> FirstPhase] \in Task /\ [op |-> "scan", at |-> PlacePhase] \in Task
  <2>1. FirstPhase \in 1..LastPhase + 1 /\ PlacePhase \in 1..LastPhase + 1
    BY DEF FirstPhase, PlacePhase, LastPhase
  <2> QED BY <2>1 DEF Task
<1> QED BY <1>1 DEF Kind, Matcher, Tick

\* the calls of the players begin with tasks of their own and end with the matcher
LEMMA PlayerCalls ==
  ASSUME TInv, Player
  PROVE  \E tasks \in Seq(Kind({"leave", "sync", "abandon", "enter", "accepted"})) : Begin(tasks \o Matcher)
<1> DEFINE K == {"leave", "sync", "abandon", "enter", "accepted"}
<1>1. /\ <<>> \in Seq(Kind(K)) /\ \A p, q \in Seq(Kind(K)) : p \o q \in Seq(Kind(K))
      /\ Matcher = <<>> \o Matcher
  <2>1. Matcher \in Seq(Kind({"scan"}))
    BY ScanFirst
  <2> QED BY <2>1, Pieces
<1>2. \A S \in SUBSET SearchIds, st \in Finished : Leave(S, st, TRUE) \in Seq(Kind(K))
  BY Pieces
<1>3. ASSUME NEW a \in Accounts, NEW r \in Requests, NEW src \in Sources, NEW ask \in Choices,
             NEW party \in Parties[a], Start(a, r, src, ask, party)
      PROVE  \E tasks \in Seq(Kind(K)) : Begin(tasks \o Matcher)
  <2> DEFINE wanted == IF party = None THEN {} ELSE party \ {a}
             sync(s) == [op |-> "sync", l |-> s, src |-> src, ask |-> ask, pend |-> wanted]
             enter(s) == [op |-> "enter", a |-> a, r |-> r, src |-> src, ask |-> ask, pend |-> wanted, own |-> s,
                          m |-> IF s = None THEN None ELSE search[s].match,
                          acc |-> IF s = None THEN FALSE ELSE search[s].acc]
  <2>1. wanted \in SUBSET Accounts
    BY NoneAssumption
  <2>2. \A s \in RowOf(a) : <<sync(s)>> \in Seq(Kind(K))
    <3>1. \A s \in RowOf(a) : s \in SearchIds
      BY DEF RowOf
    <3> HIDE DEF wanted
    <3>2. \A s \in RowOf(a) : sync(s) \in Task /\ sync(s).op = "sync"
      BY <2>1, <3>1 DEF Task
    <3> HIDE DEF sync
    <3> QED BY <3>2, Pieces DEF Kind
  <2>3. \A s \in IF RowOf(a) = {} THEN {None} ELSE RowOf(a) : <<enter(s)>> \in Seq(Kind(K))
    <3> SUFFICES ASSUME NEW s \in IF RowOf(a) = {} THEN {None} ELSE RowOf(a) PROVE <<enter(s)>> \in Seq(Kind(K))
      OBVIOUS
    <3> DEFINE m == IF s = None THEN None ELSE search[s].match
               acc == IF s = None THEN FALSE ELSE search[s].acc
    <3>1. s \in SearchIds \cup {None} /\ m \in MatchIds \cup {None} /\ acc \in BOOLEAN
      BY DEF TInv, PInv, IInv, TypeOK, SearchType, RowOf
    <3>2. enter(s) = [op |-> "enter", a |-> a, r |-> r, src |-> src, ask |-> ask, pend |-> wanted, own |-> s, m |-> m,
                      acc |-> acc]
      OBVIOUS
    <3> HIDE DEF m, acc, wanted, enter
    <3>3. enter(s) \in Task /\ enter(s).op = "enter"
      BY <2>1, <3>1, <3>2 DEF Task
    <3> QED BY <3>3, Pieces DEF Kind
  <2>4. Loop("abandon", Abandoned(a)) \in Seq(Kind(K))
    <3>1. PICK e : e = [op |-> "abandon", pend |-> Abandoned(a)]
      OBVIOUS
    <3>2. e \in Task /\ e.op = "abandon"
      BY <3>1 DEF Task, Abandoned
    <3> QED BY <3>1, <3>2, Pieces DEF Kind, Loop
  <2>5. \/ \E s \in RowOf(a) : Begin((IF party = None THEN <<>> ELSE <<sync(s)>>) \o Matcher)
        \/ \E s \in IF RowOf(a) = {} THEN {None} ELSE RowOf(a) :
             Begin(Loop("abandon", Abandoned(a)) \o <<enter(s)>> \o Matcher)
    BY <1>3 DEF Start
  <2> HIDE DEF wanted, sync, enter
  <2> QED BY <1>1, <2>2, <2>3, <2>4, <2>5
<1>4. ASSUME NEW s \in SearchIds, Poll(s) \/ Remove(s) PROVE \E tasks \in Seq(Kind(K)) : Begin(tasks \o Matcher)
  <2>1. Begin(Matcher) \/ Begin(Leave({s}, "REMOVED", TRUE) \o Matcher)
    BY <1>4 DEF Poll, Remove
  <2>2. {s} \in SUBSET SearchIds /\ "REMOVED" \in Finished
    BY DEF Finished
  <2> QED BY <1>1, <1>2, <2>1, <2>2
<1>5. ASSUME NEW s \in SearchIds, NEW r, Cancel(s, r) PROVE \E tasks \in Seq(Kind(K)) : Begin(tasks \o Matcher)
  <2>1. {s} \in SUBSET SearchIds /\ "CANCELLED" \in Finished /\ Begin(Leave({s}, "CANCELLED", TRUE) \o Matcher)
    BY <1>5 DEF Finished, Cancel
  <2> QED BY <1>1, <1>2, <2>1
<1>6. ASSUME NEW s \in SearchIds, NEW r, Accept(s, r) PROVE \E tasks \in Seq(Kind(K)) : Begin(tasks \o Matcher)
  <2>1. search[s].match \in MatchIds
    BY <1>6 DEF Accept, TInv, PInv, IInv, TypeOK, SearchType
  <2>2. <<[op |-> "accepted", m |-> search[s].match]>> \in Seq(Kind(K))
    <3>1. PICK e : e = [op |-> "accepted", m |-> search[s].match]
      OBVIOUS
    <3>2. e \in Task /\ e.op = "accepted"
      BY <2>1, <3>1 DEF Task
    <3> QED BY <3>1, <3>2, Pieces DEF Kind
  <2>3. Begin(<<[op |-> "accepted", m |-> search[s].match]>> \o Matcher) \/ Begin(<<>> \o Matcher)
    BY <1>6 DEF Accept
  <2> QED BY <1>1, <2>2, <2>3
<1> HIDE DEF K
<1>7. \E tasks \in Seq(Kind(K)) : Begin(tasks \o Matcher)
  BY <1>3, <1>4, <1>5, <1>6 DEF Player
<1> QED BY <1>7 DEF K

\* so they begin with no other kinds of tasks
LEMMA PlayerPuts ==
  ASSUME TInv, Player
  PROVE  \E tasks \in Seq(Kind({"scan", "leave", "sync", "abandon", "enter", "accepted"})) : Begin(tasks)
<1>1. PICK K : K = {"scan", "leave", "sync", "abandon", "enter", "accepted"}
  OBVIOUS
<1>2. PICK p \in Seq(Kind({"leave", "sync", "abandon", "enter", "accepted"})) : Begin(p \o Matcher)
  BY PlayerCalls
<1>3. Kind({"leave", "sync", "abandon", "enter", "accepted"}) \subseteq Kind(K)
  BY <1>1 DEF Kind
<1>4. p \o Matcher \in Seq(Kind(K))
  BY <1>1, <1>3, ScanFirst, Pieces
<1> QED BY <1>1, <1>2, <1>4

\* the administrator or a game server frees a server: its match ends first
LEMMA FreedHanded ==
  ASSUME TInv, Handed, [Next]_vars, NEW v \in Servers, NEW st \in Wish, NEW rest \in Seq(Task),
         \A w \in Servers : server'[w].by = server[w].by, Begin(SetFreed(v, st) \o rest)
  PROVE  Handed'
<1> DEFINE m == server[v].by
<1>1. PICK t : t = [op |-> "set", v |-> v, st |-> st]
  OBVIOUS
<1>2. t \in Task /\ t.op = "set" /\ t.v = v
  BY <1>1 DEF Task
<1>3. NoneOver /\ NoneOver' /\ m \in MatchIds \cup {None} /\ todo' = SetFreed(v, st) \o rest
  <2>1. todo = <<>> /\ todo' = SetFreed(v, st) \o rest
    BY DEF Begin
  <2>2. NoneOver /\ NoneOver'
    BY <2>1, NoneIsOver, StillNoneOver DEF End, Now
  <2> QED BY <2>1, <2>2 DEF TInv, PInv, IInv, TypeOK, ServerType
<1>4. PICK q : /\ SetFreed(v, st) = q \o <<t>>
               /\ \/ q = <<>>
                  \/ m # None /\ q = Dissolve(m) /\ match[m].st # "ACCEPTED"
                  \/ m # None /\ q = EndMatch(m, "keep")
  BY <1>1 DEF SetFreed, Gathering
<1>5. CASE q = <<>>
  <2>1. SetFreed(v, st) = <<t>> /\ todo' = <<t>> \o rest
    BY <1>3, <1>4, <1>5
  <2>2. todo' # <<>> /\ Head(todo') = t
    BY <2>1
  <2> QED BY <1>2, <1>3, <2>2, HandedOn
<1>6. CASE m # None /\ q = Dissolve(m) /\ match[m].st # "ACCEPTED"
  <2>1. PICK e : e = DissolveTask(m)
    OBVIOUS
  <2>2. q = <<e>>
    BY <1>3, <1>6, <2>1, MatchQueue
  <2>3. todo' # <<>> /\ Head(todo') = e
    BY <1>3, <1>4, <2>2
  <2>4. e.op = "end" /\ e.st = "CANCELLED" /\ e.m = m
    BY <2>1 DEF DissolveTask
  <2>5. e.free = "cool"
    BY <1>3, <1>6, <2>1, DissolveCools
  <2>6. GivenBack'
    BY <1>3 DEF NoneOver, GivenBack
  <2> QED BY <2>3, <2>4, <2>5, <2>6 DEF Handed, SetNext, Cools
<1>7. CASE m # None /\ q = EndMatch(m, "keep")
  <2>1. PICK e : e = EndTask(m, "keep")
    OBVIOUS
  <2>2. q = <<e>>
    BY <1>3, <1>7, <2>1, MatchQueue
  <2>3. todo' # <<>> /\ Head(todo') = e /\ Tail(todo') # <<>> /\ Head(Tail(todo')) = t
    <3> DEFINE S == Task \cup {e, t}
    <3>1. <<e>> \in Seq(S) /\ <<t>> \in Seq(S) /\ rest \in Seq(S)
      OBVIOUS
    <3> HIDE DEF S
    <3>2. todo' = (<<e>> \o <<t>>) \o rest
      BY <1>3, <1>4, <2>2
    <3>3. (<<e>> \o <<t>>) \o rest = <<e>> \o (<<t>> \o rest)
      BY <3>1, ConcatAssociative
    <3>4. PICK u : u = <<t>> \o rest
      OBVIOUS
    <3>5. u \in Seq(S) /\ u # <<>> /\ Head(u) = t
      BY <3>1, <3>4
    <3>6. todo' = <<e>> \o u
      BY <3>2, <3>3, <3>4
    <3>7. Tail(todo') = u /\ Head(todo') = e /\ todo' # <<>>
      BY <3>1, <3>5, <3>6
    <3> QED BY <3>5, <3>7
  <2>4. e.op = "end" /\ e.st = "ENDED" /\ e.m = m
    BY <2>1 DEF EndTask
  <2>5. \A w \in Servers : server[w].by = m => w = v
    BY <1>3, <1>7 DEF TInv, PInv, PSafe, ReservedBy
  <2>6. GivenBack'
    BY <1>3 DEF NoneOver, GivenBack
  <2>7. SetNext'
    BY <1>2, <2>3, <2>4, <2>5 DEF SetNext
  <2>8. Cools'
    BY <2>3, <2>4 DEF Cools
  <2> QED BY <2>6, <2>7, <2>8 DEF Handed
<1> QED BY <1>4, <1>5, <1>6, <1>7

\* the calls of the administrator and of the game servers
LEMMA ServerCallHanded ==
  ASSUME TInv, Handed, [Next]_vars, Operator \/ GameServer
  PROVE  Handed'
<1>1. server \in [Servers -> ServerType] /\ {"AVAILABLE", "BUSY", "ABSENT"} \subseteq Wish
  BY DEF TInv, PInv, IInv, TypeOK, Wish
<1>2. Matcher \in Seq(Task) /\ <<>> \in Seq(Task)
  BY MatcherQueue DEF Queue
<1>3. Begin(Matcher) => Handed'
  BY ScanFirst, BeginHanded
<1>4. ASSUME NEW v \in Servers, NEW st \in {"AVAILABLE", "BUSY"}, SetServerState(v, st) PROVE Handed'
  BY <1>1, <1>2, <1>4, FreedHanded DEF SetServerState
<1>5. ASSUME NEW v \in Servers, DeleteServer(v) PROVE Handed'
  <2>1. Begin(SetFreed(v, "ABSENT")) /\ UNCHANGED server
    BY <1>5 DEF DeleteServer
  <2>2. SetFreed(v, "ABSENT") = SetFreed(v, "ABSENT") \o <<>>
    BY <1>1, SetFreedQueue, ConcatEmptySeq DEF Queue
  <2>3. Begin(SetFreed(v, "ABSENT") \o <<>>)
    BY <2>1, <2>2
  <2> QED BY <1>1, <1>2, <2>1, <2>3, FreedHanded
<1>6. ASSUME NEW v \in Servers, NEW setup, NEW on, EditServer(v, setup, on) \/ EnableServer(v, on) PROVE Handed'
  BY <1>3, <1>6 DEF EditServer, EnableServer
<1>7. ASSUME NEW v \in Servers, NEW setup, NEW on, NEW st, CreateServer(v, setup, st, on) PROVE Handed'
  BY <1>3, <1>7 DEF CreateServer
<1>8. ASSUME NEW v \in Servers, RosterForServer(v) PROVE Handed'
  <2>1. Begin(<<>>) /\ <<>> \in Seq(Kind({"assign"}))
    BY <1>8 DEF RosterForServer
  <2> QED BY <2>1, BeginHanded
<1>9. ASSUME NEW v \in Servers, NEW m \in MatchIds, ConfirmRoster(v, m) PROVE Handed'
  <2>1. PICK K : K = {"assign"}
    OBVIOUS
  <2>2. <<>> \in Seq(Kind(K)) /\ Assign(m) \in Seq(Kind(K)) /\ K \cap {"end", "release", "orphan"} = {}
    BY <2>1, Pieces
  <2>3. Begin(Assign(m)) \/ Begin(<<>>)
    BY <1>9 DEF ConfirmRoster
  <2>4. Begin(Assign(m)) => Handed'
    BY <2>2, BeginHanded
  <2>5. Begin(<<>>) => Handed'
    BY <2>2, BeginHanded
  <2> QED BY <2>3, <2>4, <2>5
<1>10. ASSUME NEW v \in Servers, NEW map, NEW st, Report(v, map, st) PROVE Handed'
  <2>1. \A w \in Servers : server'[w].by = server[w].by
    BY <1>1, <1>10 DEF Report, ServerType
  <2>2. \/ Begin(SetFreed(v, "BUSY") \o Matcher)
        \/ Begin(<<[op |-> "set", v |-> v, st |-> "AVAILABLE"]>> \o Matcher)
        \/ Begin(<<>> \o Matcher)
    BY <1>10 DEF Report
  <2>3. CASE Begin(SetFreed(v, "BUSY") \o Matcher)
    BY <1>1, <1>2, <2>1, <2>3, FreedHanded
  <2>4. Begin(<<[op |-> "set", v |-> v, st |-> "AVAILABLE"]>> \o Matcher) \/ Begin(<<>> \o Matcher) => Handed'
    <3>1. PICK e : e = [op |-> "set", v |-> v, st |-> "AVAILABLE"]
      OBVIOUS
    <3>2. e \in Kind({"set", "scan"})
      BY <1>1, <3>1 DEF Kind, Task
    <3>3. <<e>> \o Matcher \in Seq(Kind({"set", "scan"})) /\ <<>> \o Matcher \in Seq(Kind({"set", "scan"}))
      BY <3>2, ScanFirst, Pieces
    <3> QED BY <3>1, <3>3, BeginHanded
  <2> QED BY <2>2, <2>3, <2>4
<1>11. CASE Operator
  BY <1>4, <1>5, <1>6, <1>7, <1>11 DEF Operator
<1>12. CASE GameServer
  BY <1>8, <1>9, <1>10, <1>12 DEF GameServer
<1> QED BY <1>11, <1>12

\* the rest of the handlers, but for a restart
LEMMA NextHanded == TInv /\ Handed /\ [Next]_vars /\ crashes' = 0 => Handed'
<1> SUFFICES ASSUME TInv, Handed, [Next]_vars, crashes' = 0 PROVE Handed' OBVIOUS
<1>1. ~Crash
  BY DEF Crash, TInv, PInv, IInv, TypeOK
<1>2. ASSUME Breakup \/ Lapse \/ ReleaseAbandoned \/ MemberLeft \/ DissolveRow \/ End \/ Release \/ SetServer \/ Scan
      PROVE  Handed'
  BY <1>2, EndersHanded, RowHanded, EndHanded, ServerHanded, ScanHanded
<1>3. ~ReleaseOrphan
  BY DEF ReleaseOrphan, Now, Handed, Cools
<1>4. ASSUME \/ Retire \/ DeleteOld \/ LeaveRow \/ Enter \/ SyncParty \/ AddMember \/ TagMember
             \/ PlaceSearch \/ JoinMatch \/ GatherParty \/ CompleteMatch \/ FillMatch \/ ReserveServer \/ PromoteMatch
             \/ AssignRow \/ StartAccepting \/ MarkAccepted \/ PromoteAccepted
      PROVE  Handed'
  <2>1. /\ todo # <<>>
        /\ Head(todo).op \in {"retire", "purge", "leave", "enter", "sync", "add", "tag", "place", "join", "gather", "full",
                              "fill", "reserve", "promote", "assign", "accepted", "connect"}
    BY <1>4 DEF Retire, DeleteOld, LeaveRow, Enter, SyncParty, AddMember, TagMember, PlaceSearch, JoinMatch,
                GatherParty, CompleteMatch, FillMatch, ReserveServer, PromoteMatch, AssignRow, StartAccepting,
                MarkAccepted, PromoteAccepted, Now
  <2>2. NoneOver /\ ~End
    BY <2>1, NoneIsOver DEF End, Now
  <2> QED BY <1>4, <2>2, StillNoneOver, LightHead, HandedOn
<1>5. CASE Step
  BY <1>2, <1>3, <1>4, <1>5 DEF Step
<1>6. CASE Player
  BY <1>6, PlayerPuts, BeginHanded
<1>7. CASE Operator \/ GameServer
  BY <1>7, ServerCallHanded
<1>8. CASE FakePlayers \/ Time
  <2>1. Begin(Matcher) \/ Begin(Tick) \/ Begin(<<>>)
    BY <1>8 DEF FakePlayers, SetFakeMaster, WriteProfile, Time, RunTick, CooldownOver, PollWindowOver
  <2>2. PICK K : K = {"scan"}
    OBVIOUS
  <2>3. Matcher \in Seq(Kind(K)) /\ Tick \in Seq(Kind(K)) /\ <<>> \in Seq(Kind(K)) /\ K \cap {"end", "release", "orphan"} = {}
    BY <2>2, ScanFirst
  <2> QED BY <2>1, <2>3, BeginHanded
<1>9. CASE UNCHANGED vars
  BY <1>9 DEF vars, Handed, GivenBack, SetNext, Cools, AtHead
<1> QED BY <1>1, <1>5, <1>6, <1>7, <1>8, <1>9 DEF Next

\* only a restart counts as one
LEMMA CrashesCount == TInv /\ [Next]_vars /\ crashes' = 0 => crashes = 0
<1> SUFFICES ASSUME TInv, [Next]_vars, crashes' = 0 PROVE crashes = 0 OBVIOUS
<1>1. crashes \in Nat
  BY DEF TInv, PInv, IInv, TypeOK
<1>2. ~Crash
  BY <1>1 DEF Crash
<1>3. Player => crashes' = crashes
  BY PlayerPuts DEF Begin
<1>4. Operator => crashes' = crashes
  BY DEF Operator, SetServerState, DeleteServer, EditServer, EnableServer, CreateServer, Begin
<1>5. GameServer => crashes' = crashes
  BY DEF GameServer, RosterForServer, ConfirmRoster, Report, Begin
<1>6. FakePlayers \/ Time => crashes' = crashes
  BY DEF FakePlayers, SetFakeMaster, WriteProfile, Time, RunTick, CooldownOver, PollWindowOver, Begin
<1>7. ASSUME \/ Breakup \/ Lapse \/ ReleaseAbandoned \/ MemberLeft \/ DissolveRow \/ End \/ Release \/ SetServer
             \/ Scan \/ ReleaseOrphan
      PROVE  crashes' = crashes
  BY <1>7 DEF Breakup, Lapse, ReleaseAbandoned, MemberLeft, DissolveRow, End, Release, SetServer, Scan, ReleaseOrphan, Do
<1>8. ASSUME Retire \/ DeleteOld \/ LeaveRow \/ Enter \/ SyncParty \/ AddMember \/ TagMember
      PROVE  crashes' = crashes
  BY <1>8 DEF Retire, DeleteOld, LeaveRow, Enter, SyncParty, AddMember, TagMember, Do
<1>9. ASSUME \/ PlaceSearch \/ JoinMatch \/ GatherParty \/ CompleteMatch \/ FillMatch \/ ReserveServer \/ PromoteMatch
             \/ AssignRow \/ StartAccepting \/ MarkAccepted \/ PromoteAccepted
      PROVE  crashes' = crashes
  <2>1. PlaceSearch => crashes' = crashes
    BY WorkTasks DEF PlaceSearch, PlaceAccept, PlaceClassic, Do
  <2>2. CASE \/ JoinMatch \/ GatherParty \/ CompleteMatch \/ FillMatch \/ ReserveServer \/ PromoteMatch
             \/ AssignRow \/ StartAccepting \/ MarkAccepted \/ PromoteAccepted
    BY <2>2 DEF JoinMatch, GatherParty, CompleteMatch, FillMatch, ReserveServer, PromoteMatch, AssignRow,
                StartAccepting, MarkAccepted, PromoteAccepted, Do
  <2> QED BY <1>9, <2>1, <2>2
<1>10. Step => crashes' = crashes
  BY <1>7, <1>8, <1>9 DEF Step
<1> QED BY <1>2, <1>3, <1>4, <1>5, <1>6, <1>10 DEF Next, vars

\* before the first restart the servers of the matches that are over are given back
Tidy == TInv /\ (crashes = 0 => Handed)

LEMMA TidyAlways == Spec => []Tidy
<1>1. Init => Tidy
  <2> SUFFICES ASSUME Init PROVE Handed
    BY InitTInv DEF Tidy
  <2>1. todo = <<>> /\ \A v \in Servers : server[v].by = None
    BY DEF Init
  <2>2. NoneOver
    BY <2>1, NoneAssumption DEF NoneOver
  <2> QED BY <2>1, <2>2 DEF NoneOver, Handed, GivenBack, SetNext, Cools
<1>2. Tidy /\ [Next]_vars => Tidy'
  BY CrashesCount, NextTInv, NextHanded DEF Tidy
<1> QED BY <1>1, <1>2, PTL DEF Spec
\* ServersHandedBack: for any fleet, players and matches, until a restart cuts a handler short, a
\* server is RESERVED between two handlers only for a match that holds it: no call of a player, an
\* administrator or a game server and no timer forgets to give one back (ReservedServerIsHeld:
\* cancelMatch, releaseServerForMatch, freeServer).
THEOREM ServersHandedBack == Spec => [](crashes = 0 => ReservedServerIsHeld)
<1>1. Tidy => (crashes = 0 => ReservedServerIsHeld)
  <2> SUFFICES ASSUME Tidy, crashes = 0, todo = <<>>, NEW v \in Servers, server[v].st = "RESERVED" PROVE Held(v)
    BY DEF ReservedServerIsHeld
  <2>1. NoneOver /\ TInv
    BY NoneIsOver DEF Tidy
  <2>2. PICK m : m = server[v].by
    OBVIOUS
  <2>3. m \in MatchIds
    BY <2>1, <2>2 DEF TInv, PInv, PSafe, ReservedBy, IInv, TypeOK, ServerType
  <2>4. match[m].sv = v /\ match[m].st \in Holding
    BY <2>1, <2>2, <2>3, HeldBy
  <2> QED BY <2>2, <2>3, <2>4 DEF Held
<1> QED BY <1>1, TidyAlways, PTL

\* only a release, a state that is set and the orphan timer free a server
LEMMA OnlyFrees ==
  ASSUME TInv, [Next]_vars, NEW v \in Servers, server[v].by # None, server'[v].by = None
  PROVE  ReleaseOrphan \/ Release \/ SetServer
<1>1. server \in [Servers -> ServerType] /\ server' # server
  BY DEF TInv, PInv, IInv, TypeOK
<1>2. ~Player
  <2>1. ASSUME NEW a \in Accounts, NEW r \in Requests, NEW src \in Sources, NEW ask \in Choices,
               NEW party \in Parties[a], Start(a, r, src, ask, party)
        PROVE  FALSE
    BY <1>1, <2>1 DEF Start
  <2>2. ASSUME NEW s \in SearchIds, Poll(s) \/ Remove(s) PROVE FALSE
    BY <1>1, <2>2 DEF Poll, Remove
  <2>3. ASSUME NEW s \in SearchIds, NEW r \in Asked(s), Cancel(s, r) \/ Accept(s, r) PROVE FALSE
    BY <1>1, <2>3 DEF Cancel, Accept
  <2> QED BY <2>1, <2>2, <2>3 DEF Player
<1>3. ~Operator
  <2>1. ASSUME NEW w \in Servers, NEW st, SetServerState(w, st) \/ DeleteServer(w) PROVE FALSE
    BY <1>1, <2>1 DEF SetServerState, DeleteServer
  <2>2. ASSUME NEW w \in Servers, NEW setup, NEW on, EditServer(w, setup, on) \/ EnableServer(w, on) PROVE FALSE
    BY <1>1, <2>2 DEF EditServer, EnableServer, ServerType
  <2>3. ASSUME NEW w \in Servers, NEW setup, NEW on, NEW st, CreateServer(w, setup, st, on) PROVE FALSE
    BY <1>1, <2>3 DEF CreateServer, ServerType, TInv, PInv, PSafe, ReservedBy
  <2> QED BY <2>1, <2>2, <2>3 DEF Operator
<1>4. ~GameServer
  <2>1. ASSUME NEW w \in Servers, NEW k, RosterForServer(w) \/ ConfirmRoster(w, k) PROVE FALSE
    BY <1>1, <2>1 DEF RosterForServer, ConfirmRoster
  <2>2. ASSUME NEW w \in Servers, NEW map, NEW st, Report(w, map, st) PROVE FALSE
    BY <1>1, <2>2 DEF Report, ServerType
  <2> QED BY <2>1, <2>2 DEF GameServer
<1>5. ~FakePlayers /\ ~Crash
  BY <1>1 DEF FakePlayers, SetFakeMaster, WriteProfile, Crash
<1>6. ~Time
  BY <1>1 DEF Time, RunTick, CooldownOver, PollWindowOver, ServerType
<1>7. Step
  BY <1>1, <1>2, <1>3, <1>4, <1>5, <1>6 DEF Next, vars
<1>8. ReleaseOrphan \/ Release \/ SetServer \/ ReserveServer
  BY <1>1, <1>7 DEF Step, Scan, Breakup, Retire, Lapse, DeleteOld, LeaveRow, MemberLeft, DissolveRow, End,
                    ReleaseAbandoned, Enter, SyncParty, AddMember, TagMember, PlaceSearch, JoinMatch, GatherParty,
                    CompleteMatch, FillMatch, PromoteMatch, AssignRow, StartAccepting, MarkAccepted, PromoteAccepted
<1>9. ~ReserveServer
  <2> SUFFICES ASSUME ReserveServer PROVE FALSE OBVIOUS
  <2>1. Head(todo).pend \subseteq MatchIds /\ None \notin MatchIds
    BY Running, NoneAssumption DEF ReserveServer, Now, Task
  <2>2. PICK k \in Head(todo).pend : \E w \in Candidates(k) :
          server' = [server EXCEPT ![w].st = "RESERVED", ![w].by = k, ![w].cool = FALSE]
    BY <1>1 DEF ReserveServer
  <2> QED BY <1>1, <2>1, <2>2 DEF ServerType
<1> QED BY <1>8, <1>9

\* a server that cools down is AVAILABLE and nobody's
CoolsFree == \A v \in Servers : server[v].cool => server[v].st = "AVAILABLE" /\ server[v].by = None
Cooling == Tidy /\ (crashes = 0 => CoolsFree)

\* before the first restart there are no orphans to give back
LEMMA NoOrphan == ASSUME Handed PROVE ~ReleaseOrphan
BY DEF ReleaseOrphan, Now, Handed, Cools

\* what a step may do to a server, and to its cooldown above all
ServerStep(v) ==
  \/ server'[v] = server[v]
  \/ CooldownOver(v) /\ ~server'[v].cool
  \/ ~server[v].cool /\ ~server'[v].cool
  \/ server'[v].cool = server[v].cool /\ server'[v].st = server[v].st /\ server'[v].by = server[v].by
  \/ Release /\ server'[v].st = "AVAILABLE" /\ server'[v].by = None /\ server[v].by # None
  \/ SetServer /\ Head(todo).v = v /\ ~server'[v].cool /\ server'[v].by = None

LEMMA ServerSteps ==
  ASSUME TInv, Handed, CoolsFree, [Next]_vars, NEW v \in Servers
  PROVE  ServerStep(v)
<1>1. server \in [Servers -> ServerType]
  BY DEF TInv, PInv, IInv, TypeOK
<1>2. ASSUME server' = server PROVE ServerStep(v)
  BY <1>2 DEF ServerStep
<1>3. ASSUME Player PROVE server' = server
  <2>1. ASSUME NEW a \in Accounts, NEW r \in Requests, NEW src \in Sources, NEW ask \in Choices,
               NEW party \in Parties[a], Start(a, r, src, ask, party)
        PROVE  server' = server
    BY <2>1 DEF Start
  <2>2. ASSUME NEW s \in SearchIds, Poll(s) \/ Remove(s) PROVE server' = server
    BY <2>2 DEF Poll, Remove
  <2>3. ASSUME NEW s \in SearchIds, NEW r \in Asked(s), Cancel(s, r) \/ Accept(s, r) PROVE server' = server
    BY <2>3 DEF Cancel, Accept
  <2> QED BY <1>3, <2>1, <2>2, <2>3 DEF Player
<1>4. ASSUME Operator PROVE ServerStep(v)
  <2>1. ASSUME NEW w \in Servers, NEW st, SetServerState(w, st) \/ DeleteServer(w) PROVE server' = server
    BY <2>1 DEF SetServerState, DeleteServer
  <2>2. ASSUME NEW w \in Servers, NEW setup, NEW on, EditServer(w, setup, on) \/ EnableServer(w, on) PROVE ServerStep(v)
    BY <1>1, <2>2 DEF EditServer, EnableServer, ServerType, ServerStep
  <2>3. ASSUME NEW w \in Servers, NEW setup, NEW on, NEW st, CreateServer(w, setup, st, on) PROVE ServerStep(v)
    BY <1>1, <2>3 DEF CreateServer, ServerType, CoolsFree, ServerStep
  <2> QED BY <1>2, <1>4, <2>1, <2>2, <2>3 DEF Operator
<1>5. ASSUME GameServer PROVE ServerStep(v)
  <2>1. ASSUME NEW w \in Servers, NEW k, RosterForServer(w) \/ ConfirmRoster(w, k) PROVE server' = server
    BY <2>1 DEF RosterForServer, ConfirmRoster
  <2>2. ASSUME NEW w \in Servers, NEW map, NEW st, Report(w, map, st) PROVE ServerStep(v)
    BY <1>1, <2>2 DEF Report, ServerType, ServerStep
  <2> QED BY <1>2, <1>5, <2>1, <2>2 DEF GameServer
<1>6. ASSUME FakePlayers \/ Crash PROVE server' = server
  BY <1>6 DEF FakePlayers, SetFakeMaster, WriteProfile, Crash
<1>7. ASSUME Time PROVE ServerStep(v)
  BY <1>1, <1>7 DEF Time, RunTick, CooldownOver, PollWindowOver, ServerType, ServerStep
<1>8. ASSUME Release PROVE ServerStep(v)
  <2>1. PICK w : w = match[Head(todo).m].sv
    OBVIOUS
  <2>2. PICK c : c = (Head(todo).free = "cool")
    OBVIOUS
  <2>3. \/ server' = server
        \/ server[w].by = Head(todo).m /\ server' = [server EXCEPT ![w].st = "AVAILABLE", ![w].by = None, ![w].cool = c]
    BY <1>8, <2>1, <2>2 DEF Release
  <2>4. Head(todo).m # None
    <3>1. Head(todo) \in Task /\ Head(todo).op = "release"
      BY <1>8, Running DEF Release, Now
    <3> QED BY <3>1, TaskFields, NoneAssumption
  <2>5. CASE server' = server \/ v # w
    <3>1. server'[v] = server[v]
      BY <1>1, <2>3, <2>5
    <3> QED BY <3>1 DEF ServerStep
  <2>6. CASE server' # server /\ v = w
    <3>1. server[v] \in ServerType /\ server'[v] = [server[v] EXCEPT !.st = "AVAILABLE", !.by = None, !.cool = c]
      BY <1>1, <2>3, <2>6
    <3>2. server'[v].st = "AVAILABLE" /\ server'[v].by = None /\ server[v].by # None
      BY <2>3, <2>4, <2>6, <3>1 DEF ServerType
    <3> QED BY <1>8, <3>2 DEF ServerStep
  <2> QED BY <2>5, <2>6
<1>9. ASSUME SetServer PROVE ServerStep(v)
  BY <1>1, <1>9 DEF SetServer, ServerType, ServerStep
<1>10. ASSUME ReserveServer PROVE ServerStep(v)
  <2>1. server' = server \/ \E k \in Head(todo).pend : \E w \in Candidates(k) :
          server' = [server EXCEPT ![w].st = "RESERVED", ![w].by = k, ![w].cool = FALSE]
    BY <1>10 DEF ReserveServer
  <2>2. \A k : \A w \in Candidates(k) : ~server[w].cool
    BY DEF Candidates, Free, FreeOrReserved
  <2> QED BY <1>1, <1>2, <2>1, <2>2 DEF ServerType, ServerStep
<1>11. ASSUME Step, ~Release, ~SetServer, ~ReserveServer PROVE server' = server
  BY <1>11, NoOrphan
     DEF Step, Scan, Breakup, Retire, Lapse, DeleteOld, LeaveRow, MemberLeft, DissolveRow, End,
         ReleaseAbandoned, Enter, SyncParty, AddMember, TagMember, PlaceSearch, JoinMatch, GatherParty,
         CompleteMatch, FillMatch, PromoteMatch, AssignRow, StartAccepting, MarkAccepted, PromoteAccepted
<1> QED BY <1>2, <1>3, <1>4, <1>5, <1>6, <1>7, <1>8, <1>9, <1>10, <1>11 DEF Next, vars

LEMMA CoolingAlways == Spec => []Cooling
<1>1. Init => CoolsFree
  BY DEF Init, CoolsFree
<1>2. TInv /\ Handed /\ CoolsFree /\ [Next]_vars => CoolsFree'
  BY ServerSteps DEF CoolsFree, ServerStep, CooldownOver
<1>3. Cooling /\ [Next]_vars /\ Tidy' => Cooling'
  BY <1>2, CrashesCount DEF Cooling, Tidy
<1> QED BY <1>1, <1>3, TidyAlways, PTL DEF Spec, Cooling

\* BrokenAcceptCools: until a restart, whatever breaks a match that was handed over (a player who
\* leaves, the accept time, the administrator), its server is released with a cooldown; no match gets
\* it meanwhile, and only time or an order for the state of this server ends the cooldown
\* (CooldownAfterBrokenAccept: cancelMatch, releaseServerForMatch, setState).
THEOREM BrokenAcceptCools == Spec /\ [](crashes = 0) => CooldownAfterBrokenAccept
<1>1. ASSUME Cooling, crashes = 0, [Next]_vars, NEW v \in Servers
      PROVE  /\ server[v].cool /\ ~server'[v].cool
                => CooldownOver(v) \/ (todo # <<>> /\ Head(todo).op = "set" /\ Head(todo).v = v)
             /\ server[v].cool => server'[v].by = None
  <2>1. TInv /\ Handed /\ CoolsFree
    BY <1>1 DEF Cooling, Tidy
  <2>2. ServerStep(v) /\ (server[v].cool => server[v].by = None)
    BY <1>1, <2>1, ServerSteps DEF CoolsFree
  <2>3. SetServer => todo # <<>> /\ Head(todo).op = "set"
    BY DEF SetServer, Now
  <2>4. CooldownOver(v) => server'[v].by = server[v].by
    BY <2>1 DEF CooldownOver, TInv, PInv, IInv, TypeOK, ServerType
  <2> QED BY <2>2, <2>3, <2>4 DEF ServerStep
<1>2. Tidy /\ crashes = 0 /\ [Next]_vars =>
        [\A v \in Servers :
           server[v].by # None /\ server'[v].by = None /\ server'[v].st = "AVAILABLE"
           /\ match[server[v].by].st = "CANCELLED"
           => server'[v].cool]_vars
  <2> SUFFICES ASSUME TInv, Handed, [Next]_vars, NEW v \in Servers,
                      server[v].by # None, server'[v].by = None, server'[v].st = "AVAILABLE",
                      match[server[v].by].st = "CANCELLED"
               PROVE  server'[v].cool
    BY DEF Tidy
  <2>1. PICK m : m = server[v].by
    OBVIOUS
  <2>2. PICK t : t = Head(todo)
    OBVIOUS
  <2>3. server \in [Servers -> ServerType] /\ m \in MatchIds /\ match[m].sv = v
    BY <2>1 DEF TInv, PInv, PSafe, ReservedBy, IInv, TypeOK, ServerType
  <2>4. AtHead("release", m)
    BY <2>1, <2>3 DEF Handed, GivenBack, Over
  <2>5. todo # <<>> /\ t.op = "release" /\ t.m = m /\ t.free = "cool"
    BY <2>1, <2>2, <2>4 DEF AtHead, Handed, Cools
  <2>6. Release
    BY <2>2, <2>5, OnlyFrees DEF ReleaseOrphan, SetServer, Now
  <2>7. server' = [server EXCEPT ![v].st = "AVAILABLE", ![v].by = None, ![v].cool = TRUE]
    BY <2>1, <2>2, <2>3, <2>5, <2>6 DEF Release
  <2> QED BY <2>3, <2>7 DEF ServerType
<1>3. Cooling /\ crashes = 0 /\ [Next]_vars =>
        [\A v \in Servers :
           /\ server[v].by # None /\ server'[v].by = None /\ server'[v].st = "AVAILABLE"
              /\ match[server[v].by].st = "CANCELLED"
              => server'[v].cool
           /\ server[v].cool /\ ~server'[v].cool
              => CooldownOver(v) \/ (todo # <<>> /\ Head(todo).op = "set" /\ Head(todo).v = v)
           /\ server[v].cool => server'[v].by = None]_vars
  BY <1>1, <1>2 DEF Cooling
<1> QED BY <1>3, CoolingAlways, PTL DEF Spec, CooldownAfterBrokenAccept


-----------------------------------------------------------------------------
(* The players and their match. *)

\* a live row and its match, between two handlers
Settled(s) ==
  LET m == search[s].match IN
  /\ search[s].st = "SEARCHING" => m = None
  /\ search[s].st = "MATCHED" => m # None /\ (match[m].st \in Gathering \/ (match[m].st = "READY" /\ AcceptRequired(m)))
  /\ search[s].st = "WAITING_ACCEPT" => m # None /\ match[m].st = "ACCEPTING" /\ AcceptRequired(m)
  /\ search[s].st = "READY_TO_CONNECT" =>
       m # None /\ (match[m].st \in {"ACCEPTED"} \cup Over \/ (match[m].st = "READY" /\ ~AcceptRequired(m)))
\* the players of a match are being told, one by one, that it has a server or that all have accepted
Underway(s) ==
  LET m == search[s].match IN
  \/ AtHead("assign", m) /\ match[m].st = "READY" /\ search[s].st \in {"MATCHED", AssignedStatus(m)}
  \/ AtHead("connect", m) /\ match[m].st = "ACCEPTED" /\ search[s].st = "WAITING_ACCEPT"
\* who accepted was asked, and is not asked again
Answered(s) ==
  search[s].st \in Live /\ search[s].acc =>
    /\ search[s].st \in {"WAITING_ACCEPT", "READY_TO_CONNECT"}
    /\ match[search[s].match].st \in {"ACCEPTING", "ACCEPTED"} \cup Over
Placed == \A s \in SearchIds : (Settled(s) \/ Underway(s)) /\ Answered(s)
\* a match that ends without being dissolved has sent all its players to their server
Tells(t) ==
  /\ t.op = "end" /\ t.st = "ENDED" => \A s \in LiveRows(t.m) : search[s].st = "READY_TO_CONNECT"
  /\ t.op = "lapse" => \A m \in t.pend : \A s \in LiveRows(m) : search[s].st = "READY_TO_CONNECT"
Told == \A t \in Range(todo) : Tells(t)
Followed == Told /\ Placed

\* unless a match is just being told, all rows are settled
LEMMA AllSettled ==
  ASSUME Placed, todo = <<>> \/ Head(todo).op \notin {"assign", "connect"}
  PROVE  \A s \in SearchIds : Settled(s) /\ Answered(s)
BY DEF Placed, Underway, AtHead

\* a row whose match stays as it was stays settled
LEMMA RowStays ==
  ASSUME NEW s \in SearchIds, Settled(s), Answered(s),
         search'[s].st \in Live =>
           /\ search'[s].st = search[s].st /\ search'[s].match = search[s].match /\ search'[s].acc = search[s].acc
           /\ search[s].match # None => /\ match'[search[s].match].st = match[search[s].match].st
                                        /\ match'[search[s].match].mode = match[search[s].match].mode
  PROVE  Settled(s)' /\ Answered(s)'
<1>1. CASE search'[s].st \notin Live
  BY <1>1 DEF Settled, Answered, Live
<1>2. CASE search'[s].st \in Live
  <2>1. PICK m : m = search[s].match
    OBVIOUS
  <2>2. /\ search'[s].st = search[s].st /\ search'[s].match = m /\ search'[s].acc = search[s].acc
        /\ m # None => match'[m].st = match[m].st /\ match'[m].mode = match[m].mode
    BY <1>2, <2>1
  <2>3. Settled(s)'
    BY <2>1, <2>2 DEF Settled, AcceptRequired
  <2>4. Answered(s)'
    BY <2>1, <2>2 DEF Settled, Answered
  <2> QED BY <2>3, <2>4
<1> QED BY <1>1, <1>2

\* the players of a match that does not wait for them have been told to connect
LEMMA Connected ==
  ASSUME \A s \in SearchIds : Settled(s), NEW m \in MatchIds,
         \/ match[m].st \in {"ACCEPTED"} \cup Over
         \/ match[m].st \in Holding /\ ~AcceptRequired(m)
  PROVE  \A s \in LiveRows(m) : search[s].st = "READY_TO_CONNECT"
<1> SUFFICES ASSUME NEW s \in LiveRows(m) PROVE search[s].st = "READY_TO_CONNECT" OBVIOUS
<1>1. search[s].match = m /\ m # None /\ search[s].st \in Live /\ Settled(s)
  BY NoneAssumption DEF LiveRows
<1>2. search[s].st # "SEARCHING"
  BY <1>1 DEF Settled
<1>3. search[s].st # "MATCHED"
  BY <1>1 DEF Settled, Gathering, Holding, Over
<1>4. search[s].st # "WAITING_ACCEPT"
  BY <1>1 DEF Settled, Over
<1> QED BY <1>1, <1>2, <1>3, <1>4 DEF Live

\* what the tasks of a step rely on
LEMMA ToldStep ==
  ASSUME TInv, todo # <<>>, NEW S, NEW tasks \in Seq(S), Do(tasks), \A t \in S : Tells(t)',
         \A t \in Behind : t.op = "lapse" => Tells(t)'
  PROVE  Told'
<1>1. Range(todo') \subseteq S \cup Behind
  BY NextTasks
<1>2. \A t \in Behind : t.op # "end"
  BY Running DEF Precedes
<1>3. \A t \in Behind : Tells(t)'
  BY <1>2 DEF Tells
<1> QED BY <1>1, <1>3 DEF Told

\* most tasks rely on nothing of the kind
LEMMA ToldKinds ==
  ASSUME TInv, todo # <<>>, NEW K, NEW tasks \in Seq(Kind(K)), Do(tasks), K \cap {"end", "lapse"} = {},
         Head(todo).op \notin {"end", "release"}
  PROVE  Told'
<1>1. \A t \in Kind(K) : Tells(t)'
  BY DEF Kind, Tells
<1>2. \A t \in Behind : t.op # "lapse"
  BY Running DEF Precedes
<1> QED BY <1>1, <1>2, ToldStep

\* nor do those that the handlers of the players begin with
LEMMA ToldBegin ==
  ASSUME NEW K, NEW tasks \in Seq(Kind(K)), Begin(tasks), K \cap {"end", "lapse"} = {}
  PROVE  Told'
<1>1. Range(todo') \subseteq Kind(K)
  BY RangeOfSeq DEF Begin
<1> QED BY <1>1 DEF Kind, Tells, Told

\* the statements that write no row and no match: the timers
LEMMA ScanFollows == ASSUME TInv, Followed, ~Outage, Scan PROVE Followed'
<1>1. todo # <<>> /\ Head(todo).op = "scan" /\ UNCHANGED <<search, match>>
  BY ScanPuts
<1>2. \A s \in SearchIds : Settled(s) /\ Answered(s)
  BY <1>1, AllSettled DEF Followed
<1>3. Placed'
  BY <1>1, <1>2, RowStays DEF Placed
<1>4. ASSUME NEW r \in Range(todo') PROVE Tells(r)'
  <2>1. CASE r.op = "scan"
    BY <2>1 DEF Tells
  <2>2. CASE r.op # "scan"
    <3>1. PICK q \in 1..LastPhase : \E work \in Works(q) : r \in Range(work)
      BY <1>4, <2>2, ScanPuts
    <3>2. r.op \in Timed /\ (r.op = "lapse" => r.pend \in SUBSET Lapsed)
      BY <3>1, WorkTasks
    <3>3. ASSUME NEW m \in Lapsed, NEW s \in LiveRows(m) PROVE search[s].st = "READY_TO_CONNECT"
      <4>1. m \in MatchIds /\ s \in SearchIds /\ search[s].match = m /\ m # None /\ search[s].st \in Live
        BY NoneAssumption DEF Lapsed, LiveRows
      <4>2. CASE match[m].st = "ACCEPTED" \/ ~AcceptRequired(m)
        BY <1>2, <4>1, <4>2, Connected DEF Lapsed
      <4>3. CASE match[m].st = "READY" /\ AcceptRequired(m) /\ search[s].st # "MATCHED"
        BY <1>2, <4>1, <4>3 DEF Settled, Live, Over
      <4> QED BY <4>2, <4>3 DEF Lapsed
    <3>4. \A m : LiveRows(m)' = LiveRows(m)
      BY <1>1 DEF LiveRows
    <3> QED BY <1>1, <3>2, <3>3, <3>4 DEF Tells, Timed
  <2> QED BY <2>1, <2>2
<1> QED BY <1>3, <1>4 DEF Followed, Told

\* a match is ended or dissolved
LEMMA BreakupFollows == ASSUME TInv, Followed, Breakup \/ Lapse \/ ReleaseAbandoned PROVE Followed'
<1>1. PICK t : t = Head(todo)
  OBVIOUS
<1>2. /\ todo # <<>> /\ t.op \in {"breakup", "lapse", "abandon"} /\ UNCHANGED <<search, match>> /\ t \in Task
      /\ t.pend \in SUBSET MatchIds /\ Sound(t) /\ t \in Range(todo)
  <2>1. todo # <<>> /\ t.op \in {"breakup", "lapse", "abandon"} /\ UNCHANGED <<search, match>>
    BY <1>1 DEF Breakup, Lapse, ReleaseAbandoned, Now
  <2> QED BY <1>1, <2>1, Running, TaskFields, TailQueue
<1>3. \A s \in SearchIds : Settled(s) /\ Answered(s)
  BY <1>1, <1>2, AllSettled DEF Followed
<1>4. Placed'
  BY <1>2, <1>3, RowStays DEF Placed
<1>5. \A m : LiveRows(m)' = LiveRows(m)
  BY <1>2 DEF LiveRows
<1>6. PICK m \in t.pend : \/ Do(Dissolve(m) \o Rest(t, m))
                          \/ Do(EndMatch(m, "now") \o Rest(t, m)) /\ (t.op = "lapse" \/
                               (t.op = "abandon" /\ (match[m].st = "ACCEPTED" \/ ~AcceptRequired(m))))
  BY <1>1, <1>2 DEF Breakup, Lapse, ReleaseAbandoned, Now
<1>7. \A b \in Behind : b.op # "lapse"
  BY <1>1, <1>2, Running DEF Precedes
<1>8. Queue(Rest(t, m), RestSet(t, m)) /\ \A r \in RestSet(t, m) : Tells(r)'
  <2>1. Queue(Rest(t, m), RestSet(t, m)) /\ \A r \in RestSet(t, m) : r.op = t.op /\ r.pend = t.pend \ {m}
    BY <1>2, RestQueue DEF Looping
  <2>2. t.op = "lapse" => \A k \in t.pend : \A s \in LiveRows(k) : search[s].st = "READY_TO_CONNECT"
    BY <1>2 DEF Followed, Told, Tells
  <2> QED BY <1>2, <1>5, <2>1, <2>2 DEF Tells
<1>9. ASSUME NEW e \in Task, NEW first, first = <<e>>, Tells(e)', Do(first \o Rest(t, m)) PROVE Told'
  <2> DEFINE S == {e} \cup RestSet(t, m)
  <2>1. Rest(t, m) \in Seq(S) /\ first \in Seq(S)
    <3>1. \A i \in 1..Len(Rest(t, m)) : Rest(t, m)[i] \in RestSet(t, m)
      BY <1>8, RangeEquality DEF Queue
    <3> QED BY <1>8, <1>9, <3>1 DEF Queue
  <2>2. \A r \in S : Tells(r)'
    BY <1>8, <1>9
  <2> HIDE DEF S
  <2>3. first \o Rest(t, m) \in Seq(S)
    BY <2>1
  <2> QED BY <1>2, <1>7, <1>9, <2>2, <2>3, ToldStep
<1>10. m \in MatchIds
  BY <1>2
<1>11. CASE Do(Dissolve(m) \o Rest(t, m))
  <2>1. PICK e : e = DissolveTask(m)
    OBVIOUS
  <2>2. e \in Task /\ Dissolve(m) = <<e>> /\ e.op = "end" /\ e.st = "CANCELLED"
    BY <1>10, <2>1, MatchQueue DEF DissolveTask
  <2>3. Tells(e)'
    BY <2>2 DEF Tells
  <2> QED BY <1>4, <1>9, <1>11, <2>2, <2>3 DEF Followed
<1>12. CASE /\ Do(EndMatch(m, "now") \o Rest(t, m))
            /\ t.op = "lapse" \/ (t.op = "abandon" /\ (match[m].st = "ACCEPTED" \/ ~AcceptRequired(m)))
  <2>1. PICK e : e = EndTask(m, "now")
    OBVIOUS
  <2>2. e \in Task /\ EndMatch(m, "now") = <<e>> /\ e.op = "end" /\ e.m = m
    <3>1. EndMatch(m, "now") = <<e>> /\ Queue(EndMatch(m, "now"), {e})
      BY <1>10, <2>1, MatchQueue
    <3>2. e.op = "end" /\ e.m = m
      BY <2>1 DEF EndTask
    <3>3. <<e>> \in Seq(Task) /\ e = <<e>>[1]
      BY <3>1 DEF Queue
    <3> QED BY <3>1, <3>2, <3>3
  <2>3. \A s \in LiveRows(m) : search[s].st = "READY_TO_CONNECT"
    <3>1. CASE t.op = "lapse"
      BY <1>2, <3>1 DEF Followed, Told, Tells
    <3>2. CASE t.op = "abandon"
      <4>1. match[m].st \in Holding \cup Over
        BY <1>2, <3>2 DEF Sound, CanAbandon
      <4> QED BY <1>3, <1>10, <1>12, <3>2, <4>1, Connected
    <3> QED BY <1>12, <3>1, <3>2
  <2>4. Tells(e)'
    BY <1>2, <1>5, <2>2, <2>3 DEF Tells
  <2> QED BY <1>4, <1>9, <1>12, <2>2, <2>4 DEF Followed
<1> QED BY <1>6, <1>11, <1>12

\* a statement that writes no row and no match, or one that only settled rows are in
LEMMA QuietFollows ==
  ASSUME TInv, Followed, todo # <<>>, Head(todo).op \notin {"assign", "connect"}, Told',
         UNCHANGED search,
         \A m \in MatchIds : match'[m].st = match[m].st /\ match'[m].mode = match[m].mode
  PROVE  Followed'
<1>1. \A s \in SearchIds : Settled(s) /\ Answered(s)
  BY AllSettled DEF Followed
<1>2. \A s \in SearchIds : search[s].match \in MatchIds \cup {None}
  BY DEF TInv, PInv, IInv, TypeOK, SearchType
<1>3. ASSUME NEW s \in SearchIds PROVE Settled(s)' /\ Answered(s)'
  BY <1>1, <1>2, RowStays
<1> QED BY <1>3 DEF Followed, Placed

\* a statement that settles some rows and leaves the others, their matches and all answers
LEMMA RowsFollow ==
  ASSUME Followed, Told', UNCHANGED match,
         \A s \in SearchIds : \/ search'[s].st \notin Live
                              \/ search'[s].st = "SEARCHING" /\ search'[s].match = None /\ ~search'[s].acc
                              \/ /\ search'[s].st = search[s].st /\ search'[s].match = search[s].match
                                 /\ search'[s].acc = search[s].acc,
         todo # <<>>, Head(todo).op \notin {"assign", "connect"}
  PROVE  Followed'
<1>1. \A s \in SearchIds : Settled(s) /\ Answered(s)
  BY AllSettled DEF Followed
<1>2. ASSUME NEW s \in SearchIds PROVE Settled(s)' /\ Answered(s)'
  <2>1. CASE search'[s].st = "SEARCHING" /\ search'[s].match = None /\ ~search'[s].acc
    BY <2>1 DEF Settled, Answered
  <2>2. CASE search'[s].st \in Live => /\ search'[s].st = search[s].st /\ search'[s].match = search[s].match
                                       /\ search'[s].acc = search[s].acc
    BY <1>1, <2>2, RowStays
  <2> QED BY <2>1, <2>2
<1> QED BY <1>2 DEF Followed, Placed

\* the statements that finish rows or start them anew
LEMMA RowFollows ==
  ASSUME TInv, Followed, Retire \/ LeaveRow \/ Enter \/ SyncParty \/ AddMember \/ TagMember
  PROVE  Followed'
<1>1. /\ todo # <<>> /\ Head(todo).op \in {"retire", "leave", "enter", "sync", "add", "tag"} /\ UNCHANGED match
      /\ search \in [SearchIds -> SearchType]
  BY DEF Retire, LeaveRow, Enter, SyncParty, AddMember, TagMember, Now, TInv, PInv, IInv, TypeOK
<1>2. Told'
  <2>1. TagMember => Do(<<>>) /\ <<>> \in Seq(Kind({}))
    BY DEF TagMember
  <2>2. \E K \in {{}, {"retire"}, {"leave", "left"}, {"leave", "left", "sync"}, {"leave", "add"}, {"leave", "add", "tag"}} :
          \E tasks \in Seq(Kind(K)) : Do(tasks)
    BY <2>1, Puts
  <2>3. PICK K : K \cap {"end", "lapse"} = {} /\ \E tasks \in Seq(Kind(K)) : Do(tasks)
    BY <2>2
  <2> QED BY <1>1, <2>3, ToldKinds
<1>3. ASSUME NEW s \in SearchIds
      PROVE  \/ search'[s].st \notin Live
             \/ search'[s].st = "SEARCHING" /\ search'[s].match = None /\ ~search'[s].acc
             \/ search'[s].st = search[s].st /\ search'[s].match = search[s].match /\ search'[s].acc = search[s].acc
  <2>1. CASE Retire
    BY <1>1, <2>1 DEF Retire, Finish, SearchType, Live
  <2>2. CASE LeaveRow
    <3>1. Head(todo).st \in Finished
      BY <1>1, <2>2, Running, TaskFields DEF LeaveRow, Now
    <3> QED BY <1>1, <2>2, <3>1 DEF LeaveRow, Finish, SearchType, Live, Finished
  <2>3. CASE Enter
    BY <1>1, <2>3 DEF Enter, NewSearch, NoSearch
  <2>4. CASE SyncParty
    BY <2>4 DEF SyncParty
  <2>5. CASE AddMember
    BY <1>1, <2>5 DEF AddMember, NewSearch, NoSearch
  <2>6. CASE TagMember
    BY <1>1, <2>6 DEF TagMember, SearchType
  <2> QED BY <2>1, <2>2, <2>3, <2>4, <2>5, <2>6
<1> QED BY <1>1, <1>2, <1>3, RowsFollow

\* the statements that write no row and at most a profile, a server or a match nobody is in
LEMMA CalmFollows ==
  ASSUME TInv, Followed, PlaceSearch \/ FillMatch \/ PromoteMatch
  PROVE  Followed'
<1>1. todo # <<>> /\ Head(todo).op \in {"place", "fill", "promote"} /\ UNCHANGED search
  BY DEF PlaceSearch, FillMatch, PromoteMatch, Now
<1>2. match \in [MatchIds -> MatchType] /\ \A s \in SearchIds : search[s].match \in MatchIds \cup {None}
  BY DEF TInv, PInv, IInv, TypeOK, SearchType
<1>3. Told'
  <2>1. \E K \in {{"join", "place"}, {"full", "fill"}, {"assign", "promote"}} : \E tasks \in Seq(Kind(K)) : Do(tasks)
    BY Puts
  <2>2. PICK K : K \cap {"end", "lapse"} = {} /\ \E tasks \in Seq(Kind(K)) : Do(tasks)
    BY <2>1
  <2> QED BY <1>1, <2>2, ToldKinds
<1>4. \A s \in SearchIds : Settled(s) /\ Answered(s)
  BY <1>1, AllSettled DEF Followed
<1>5. ASSUME NEW s \in SearchIds, search[s].match # None
      PROVE  match'[search[s].match].st = match[search[s].match].st /\ match'[search[s].match].mode = match[search[s].match].mode
  <2>1. search[s].match \in MatchIds
    BY <1>2, <1>5
  <2>2. CASE PlaceSearch
    <3>1. UNCHANGED match \/ \E m \in FreshMatches : \E row : match' = [match EXCEPT ![m] = row]
      BY <2>2 DEF PlaceSearch, PlaceAccept, PlaceClassic
    <3>2. search[s].match \notin FreshMatches
      BY DEF FreshMatches
    <3> QED BY <1>2, <2>1, <3>1, <3>2
  <2>3. CASE FillMatch
    <3>1. UNCHANGED match \/ \E m, p, n : match' = [match EXCEPT ![m].prof = p, ![m].fake = n]
      BY <2>3 DEF FillMatch
    <3>2. ASSUME NEW m, NEW p, NEW n, match' = [match EXCEPT ![m].prof = p, ![m].fake = n]
          PROVE  match'[search[s].match].st = match[search[s].match].st /\ match'[search[s].match].mode = match[search[s].match].mode
      BY <1>2, <2>1, <3>2 DEF MatchType
    <3> QED BY <3>1, <3>2
  <2>4. CASE PromoteMatch
    BY <2>4 DEF PromoteMatch
  <2> QED BY <2>2, <2>3, <2>4
<1>6. ASSUME NEW s \in SearchIds PROVE Settled(s)' /\ Answered(s)'
  BY <1>1, <1>4, <1>5, RowStays
<1> QED BY <1>3, <1>6 DEF Followed, Placed

\* old rows and matches are deleted
LEMMA PurgeFollows == ASSUME TInv, Followed, DeleteOld PROVE Followed'
<1>1. todo # <<>> /\ Head(todo).op = "purge" /\ Do(<<>>) /\ <<>> \in Seq(Kind({}))
  BY DEF DeleteOld, Now
<1>2. \A s \in SearchIds : search[s].match \in MatchIds \cup {None}
  BY DEF TInv, PInv, IInv, TypeOK, SearchType
<1>3. Told'
  BY <1>1, ToldKinds
<1>4. \A s \in SearchIds : Settled(s) /\ Answered(s)
  BY <1>1, AllSettled DEF Followed
<1>5. ASSUME NEW s \in SearchIds, search'[s].st \in Live
      PROVE  /\ search'[s] = search[s]
             /\ search[s].match # None => match'[search[s].match] = match[search[s].match]
  <2>1. search'[s] = search[s]
    BY <1>5 DEF DeleteOld, NoSearch, Live
  <2>2. search[s].match # None => search[s].match \in MatchIds \ OldMatches
    BY <1>2, <1>5, <2>1 DEF OldMatches, LiveRows
  <2> QED BY <2>1, <2>2 DEF DeleteOld
<1>6. ASSUME NEW s \in SearchIds PROVE Settled(s)' /\ Answered(s)'
  BY <1>4, <1>5, RowStays
<1> QED BY <1>3, <1>6 DEF Followed, Placed

\* a full match that loses a player forms again
LEMMA LeftFollows == ASSUME TInv, Followed, MemberLeft PROVE Followed'
<1>1. PICK m : m = Head(todo).m
  OBVIOUS
<1>2. todo # <<>> /\ Head(todo).op = "left" /\ UNCHANGED search /\ m \in MatchIds /\ match \in [MatchIds -> MatchType]
  <2>1. todo # <<>> /\ Head(todo).op = "left" /\ UNCHANGED search
    BY DEF MemberLeft, Now
  <2> QED BY <1>1, <2>1, Running, TaskFields DEF TInv, PInv, IInv, TypeOK
<1>3. \A s \in SearchIds : Settled(s) /\ Answered(s) /\ search[s].match \in MatchIds \cup {None}
  BY <1>2, AllSettled DEF Followed, TInv, PInv, IInv, TypeOK, SearchType
<1>4. Told'
  <2>1. PICK e : e = DissolveTask(m)
    OBVIOUS
  <2>2. e \in Task /\ Dissolve(m) = <<e>> /\ e.op = "end" /\ e.st = "CANCELLED"
    BY <1>2, <2>1, MatchQueue DEF DissolveTask
  <2>3. PICK S : <<>> \in Seq(S) /\ Dissolve(m) \in Seq(S) /\ \A t \in S : Tells(t)'
    <3>1. <<>> \in Seq({e}) /\ Dissolve(m) \in Seq({e})
      BY <2>2
    <3>2. Tells(e)'
      BY <2>2 DEF Tells
    <3> QED BY <3>1, <3>2
  <2>4. \A b \in Behind : b.op # "lapse"
    BY <1>2, Running DEF Precedes
  <2>5. Do(Dissolve(m)) \/ Do(<<>>)
    BY <1>1 DEF MemberLeft
  <2> QED BY <1>2, <2>3, <2>4, <2>5, ToldStep
<1>5. CASE match' = match
  BY <1>2, <1>4, <1>5, QuietFollows
<1>6. CASE match[m].st = "FULL" /\ match' = [match EXCEPT ![m].st = "FORMING", ![m].fake = 0, ![m].prof = None]
  <2>1. /\ match'[m].st = "FORMING" /\ match'[m].mode = match[m].mode
        /\ \A k \in MatchIds : k # m => match'[k] = match[k]
    BY <1>2, <1>6 DEF MatchType
  <2>2. ASSUME NEW s \in SearchIds PROVE Settled(s)' /\ Answered(s)'
    <3>1. CASE search[s].match # m
      BY <1>2, <1>3, <2>1, <3>1, RowStays
    <3>2. CASE search[s].match = m
      <4>1. m # None /\ search'[s] = search[s]
        BY <1>2, NoneAssumption
      <4>2. search[s].st \in Live => search[s].st = "MATCHED" /\ ~search[s].acc
        BY <1>3, <1>6, <3>2, <4>1 DEF Settled, Answered, Live, Over
      <4> QED BY <2>1, <3>2, <4>1, <4>2 DEF Settled, Answered, Gathering, Live
    <3> QED BY <3>1, <3>2
  <2> QED BY <1>4, <2>2 DEF Followed, Placed
<1> QED BY <1>1, <1>5, <1>6 DEF MemberLeft

\* servers are given back or set
LEMMA GiveFollows == ASSUME TInv, Followed, Release \/ SetServer \/ ReleaseOrphan PROVE Followed'
<1>1. todo # <<>> /\ Head(todo).op \in {"release", "set", "orphan"} /\ UNCHANGED <<search, match>>
  BY DEF Release, SetServer, ReleaseOrphan, Now
<1>2. \A t \in Range(todo) : t.op = "lapse" => Tells(t)'
  <2>1. \A m : LiveRows(m)' = LiveRows(m)
    BY <1>1 DEF LiveRows
  <2> QED BY <1>1, <2>1 DEF Followed, Told, Tells
<1>3. \A t \in Behind : t.op = "lapse" => Tells(t)'
  BY <1>1, <1>2, Running, TailQueue
<1>4. Told'
  <2>1. CASE Release \/ SetServer
    <3>1. PICK S : S = {}
      OBVIOUS
    <3>2. Do(<<>>)
      BY <2>1 DEF Release, SetServer
    <3>3. <<>> \in Seq(S)
      OBVIOUS
    <3>4. \A t \in S : Tells(t)'
      BY <3>1
    <3> QED BY <1>1, <1>3, <3>2, <3>3, <3>4, ToldStep
  <2>2. CASE ReleaseOrphan
    <3>1. PICK t : t = Head(todo)
      OBVIOUS
    <3>2. t.op = "orphan" /\ t \in Task
      BY <1>1, <2>2, <3>1, Running DEF ReleaseOrphan, Now
    <3>3. PICK K : K = {"orphan"}
      OBVIOUS
    <3>4. PICK v \in t.pend : Do(Rest(t, v))
      BY <2>2, <3>1 DEF ReleaseOrphan
    <3>5. Rest(t, v) \in Seq(Kind(K))
      BY <3>2, <3>3, Pieces
    <3>6. K \cap {"end", "lapse"} = {} /\ Head(todo).op \notin {"end", "release"}
      BY <3>1, <3>2, <3>3
    <3> QED BY <1>1, <3>4, <3>5, <3>6, ToldKinds
  <2> QED BY <1>1, <2>1, <2>2
<1> QED BY <1>1, <1>4, QuietFollows

\* a row of a match that is dissolved searches again
LEMMA DissolveFollows == ASSUME TInv, Followed, DissolveRow PROVE Followed'
<1>1. PICK t : t = Head(todo)
  OBVIOUS
<1>2. todo # <<>> /\ t.op = "end" /\ t \in Task /\ Sound(t) /\ UNCHANGED match /\ search \in [SearchIds -> SearchType]
  BY <1>1, Running DEF DissolveRow, Now, TInv, PInv, IInv, TypeOK
<1>3. PICK s \in t.pend : Unplace(s) /\ Do(<<[t EXCEPT !.pend = @ \ {s}]>>)
  BY <1>1 DEF DissolveRow
<1>4. s \in SearchIds
  BY <1>2, TaskFields
<1>5. /\ search[s].st \in Live => search'[s].st = "SEARCHING" /\ search'[s].match = None /\ ~search'[s].acc
      /\ search[s].st \notin Live => search'[s] = search[s]
      /\ \A o \in SearchIds : o # s => search'[o] = search[o]
  BY <1>2, <1>3, <1>4 DEF Unplace, SearchType
<1>6. PICK e : e = [t EXCEPT !.pend = @ \ {s}]
  OBVIOUS
<1>7. e \in Task /\ e.op = "end" /\ e.st = "CANCELLED"
  <2>1. t.st = "CANCELLED"
    BY <1>2, <1>3, TaskFields DEF Sound, CanEnd, Over
  <2> QED BY <1>2, <1>6, <2>1, Less
<1>8. \A m \in MatchIds : LiveRows(m)' \subseteq LiveRows(m) /\ \A o \in LiveRows(m)' : search'[o].st = search[o].st
  BY <1>4, <1>5, NoneAssumption DEF LiveRows
<1>9. ASSUME NEW b \in Behind, b.op = "lapse" PROVE Tells(b)'
  <2>1. b \in Task /\ b \in Range(todo)
    BY <1>2, <1>9, Running, TailQueue
  <2>2. b.pend \subseteq MatchIds
    BY <1>9, <2>1, TaskFields
  <2> QED BY <1>8, <1>9, <2>1, <2>2 DEF Followed, Told, Tells
<1>10. Told'
  <2>1. <<e>> \in Seq({e}) /\ Do(<<e>>)
    BY <1>3, <1>6
  <2>2. Tells(e)'
    BY <1>7 DEF Tells
  <2>3. PICK S : S = {e}
    OBVIOUS
  <2>4. <<e>> \in Seq(S) /\ \A r \in S : Tells(r)'
    BY <2>1, <2>2, <2>3
  <2> QED BY <1>2, <1>9, <2>1, <2>4, ToldStep
<1> QED BY <1>1, <1>2, <1>4, <1>5, <1>10, RowsFollow DEF Live

\* nobody is in a match that is dissolved, and everybody in one that ends has been told
LEMMA EndFollows == ASSUME TInv, Followed, End PROVE Followed'
<1>1. PICK t : t = Head(todo)
  OBVIOUS
<1>2. PICK m : m = t.m
  OBVIOUS
<1>3. /\ todo # <<>> /\ t.op = "end" /\ t.pend = {} /\ t \in Task /\ Sound(t) /\ t \in Range(todo) /\ UNCHANGED search
      /\ match \in [MatchIds -> MatchType]
  BY <1>1, Running, TailQueue DEF End, Now, TInv, PInv, IInv, TypeOK
<1>4. m \in MatchIds /\ t.st \in Over /\ m # None
  BY <1>2, <1>3, TaskFields, NoneAssumption
<1>5. /\ match'[m].st = match[m].st \/ match'[m].st = t.st
      /\ match'[m].mode = match[m].mode
      /\ \A k \in MatchIds : k # m => match'[k] = match[k]
  <2>1. match' = [match EXCEPT ![m].st = IF @ \in Gathering \cup Holding THEN t.st ELSE @]
    BY <1>1, <1>2 DEF End
  <2> QED BY <1>3, <1>4, <2>1 DEF MatchType
<1>6. \A s \in SearchIds : Settled(s) /\ Answered(s) /\ search[s].match \in MatchIds \cup {None}
  BY <1>1, <1>3, AllSettled DEF Followed, TInv, PInv, IInv, TypeOK, SearchType
<1>7. \A s \in LiveRows(m) : search[s].st = "READY_TO_CONNECT"
  <2>1. CASE t.st = "ENDED"
    BY <1>2, <1>3, <2>1 DEF Followed, Told, Tells
  <2>2. CASE t.st = "CANCELLED"
    BY <1>2, <1>3, <2>2 DEF Sound, CanEnd
  <2> QED BY <1>4, <2>1, <2>2 DEF Over
<1>8. ASSUME NEW s \in SearchIds PROVE Settled(s)' /\ Answered(s)'
  <2>1. CASE search[s].match # m \/ search[s].st \notin Live \/ match'[m].st = match[m].st
    BY <1>3, <1>4, <1>5, <1>6, <2>1, RowStays
  <2>2. CASE search[s].match = m /\ search[s].st \in Live /\ match'[m].st = t.st
    <3>1. search[s].st = "READY_TO_CONNECT" /\ search'[s] = search[s]
      BY <1>3, <1>7, <2>2 DEF LiveRows
    <3> QED BY <1>4, <2>2, <3>1 DEF Settled, Answered
  <2> QED BY <1>5, <2>1, <2>2
<1>9. \A b \in Behind : b.op = "lapse" => Tells(b)'
  <2>1. \A b \in Behind : b \in Range(todo)
    BY <1>3, TailQueue, Running
  <2>2. \A k : LiveRows(k)' = LiveRows(k)
    BY <1>3 DEF LiveRows
  <2> QED BY <1>3, <2>1, <2>2 DEF Followed, Told, Tells
<1>10. Told'
  <2>1. PICK e : e = [op |-> "release", m |-> m, free |-> t.free]
    OBVIOUS
  <2>2. Do(<<>>) \/ Do(<<e>>)
    BY <1>1, <1>2, <2>1 DEF End
  <2>3. PICK S : S = {e}
    OBVIOUS
  <2>4. <<e>> \in Seq(S) /\ <<>> \in Seq(S) /\ \A r \in S : Tells(r)'
    <3>1. Tells(e)'
      BY <2>1 DEF Tells
    <3> QED BY <2>3, <3>1
  <2> QED BY <1>3, <1>9, <2>2, <2>4, ToldStep
<1> QED BY <1>8, <1>10 DEF Followed, Placed

\* a party enters a match that is forming
LEMMA EnterFollows == ASSUME TInv, Followed, JoinMatch \/ GatherParty PROVE Followed'
<1>1. PICK t : t = Head(todo)
  OBVIOUS
<1>2. PICK m : m = t.m
  OBVIOUS
<1>3. /\ todo # <<>> /\ t.op \in {"join", "gather"} /\ t \in Task /\ Sound(t) /\ UNCHANGED match
      /\ search \in [SearchIds -> SearchType]
  BY <1>1, Running DEF JoinMatch, GatherParty, Now, TInv, PInv, IInv, TypeOK
<1>4. m \in MatchIds /\ m # None /\ match[m].st = "FORMING"
  BY <1>2, <1>3, TaskFields, NoneAssumption DEF Sound, CanJoin, CanGather
<1>5. UNCHANGED search \/ \E s \in SearchIds : Place(s, m, "MATCHED")
  BY <1>1, <1>2, <1>3, TaskFields DEF JoinMatch, GatherParty, Now
<1>6. Told'
  <2>1. \E K \in {{"gather"}, {"gather", "full"}} : \E tasks \in Seq(Kind(K)) : Do(tasks)
    BY Puts
  <2>2. PICK K : K \cap {"end", "lapse"} = {} /\ \E tasks \in Seq(Kind(K)) : Do(tasks)
    BY <2>1
  <2> QED BY <1>1, <1>3, <2>2, ToldKinds
<1>7. \A s \in SearchIds : Settled(s) /\ Answered(s)
  BY <1>1, <1>3, AllSettled DEF Followed
<1>8. ASSUME NEW s \in SearchIds PROVE Settled(s)' /\ Answered(s)'
  <2>1. search'[s] = search[s] \/ (search'[s].st = "MATCHED" /\ search'[s].match = m /\ ~search'[s].acc)
    BY <1>3, <1>5 DEF Place, SearchType
  <2>2. CASE search'[s] = search[s]
    BY <1>3, <1>7, <2>2, RowStays
  <2>3. CASE search'[s].st = "MATCHED" /\ search'[s].match = m /\ ~search'[s].acc
    BY <1>3, <1>4, <2>3 DEF Settled, Answered, Gathering
  <2> QED BY <2>1, <2>2, <2>3
<1> QED BY <1>6, <1>8 DEF Followed, Placed

\* a match is complete: its players are told at once, or it asks for a server
LEMMA CompleteFollows == ASSUME TInv, Followed, CompleteMatch PROVE Followed'
<1>1. PICK t : t = Head(todo)
  OBVIOUS
<1>2. PICK m : m = t.m
  OBVIOUS
<1>3. /\ todo # <<>> /\ t.op = "full" /\ t \in Task /\ Sound(t) /\ UNCHANGED search /\ match \in [MatchIds -> MatchType]
  BY <1>1, Running DEF CompleteMatch, Now, TInv, PInv, IInv, TypeOK
<1>4. m \in MatchIds /\ m # None
  BY <1>2, <1>3, TaskFields, NoneAssumption
<1>5. /\ match'[m].mode = match[m].mode
      /\ \A k \in MatchIds : k # m => match'[k] = match[k]
      /\ match'[m].st = CASE match[m].st = "FORMING" /\ AcceptRequired(m) -> "FULL"
                          [] match[m].st \in Gathering /\ ~AcceptRequired(m) -> "READY"
                          [] OTHER -> match[m].st
  BY <1>1, <1>2, <1>3, <1>4 DEF CompleteMatch, MatchType
<1>6. \A s \in SearchIds : Settled(s) /\ Answered(s) /\ search[s].match \in MatchIds \cup {None}
  BY <1>1, <1>3, AllSettled DEF Followed, TInv, PInv, IInv, TypeOK, SearchType
<1>7. Told'
  <2>1. PICK K : K = {"reserve", "assign"}
    OBVIOUS
  <2>2. \E tasks \in Seq(Kind(K)) : Do(tasks)
    BY <2>1, Puts
  <2> QED BY <1>1, <1>3, <2>1, <2>2, ToldKinds
<1>8. CASE AcceptRequired(m)
  <2>1. match'[m].st = match[m].st \/ (match[m].st = "FORMING" /\ match'[m].st = "FULL")
    BY <1>5, <1>8
  <2>2. ASSUME NEW s \in SearchIds PROVE Settled(s)' /\ Answered(s)'
    <3>1. CASE search[s].match # m \/ match'[m].st = match[m].st
      BY <1>3, <1>5, <1>6, <3>1, RowStays
    <3>2. CASE search[s].match = m /\ match[m].st = "FORMING" /\ match'[m].st = "FULL"
      <4>1. search[s].st \in Live => search[s].st = "MATCHED" /\ ~search[s].acc
        BY <1>4, <1>6, <3>2 DEF Settled, Answered, Live, Over
      <4> QED BY <1>3, <1>4, <3>2, <4>1 DEF Settled, Answered, Gathering, Live
    <3> QED BY <2>1, <3>1, <3>2
  <2> QED BY <1>7, <2>2 DEF Followed, Placed
<1>9. CASE ~AcceptRequired(m)
  <2>1. match[m].st = "FORMING"
    BY <1>2, <1>3, <1>9 DEF Sound, CanComplete
  <2>2. match'[m].st = "READY"
    BY <1>5, <1>9, <2>1 DEF Gathering
  <2>3. AtHead("assign", m)'
    <3>1. PICK e : e = AssignTask(m)
      OBVIOUS
    <3>2. e \in Task /\ Assign(m) = <<e>> /\ e.op = "assign" /\ e.m = m
      BY <1>4, <3>1, MatchQueue DEF AssignTask
    <3>3. Do(<<e>>)
      BY <1>1, <1>2, <1>9, <3>2 DEF CompleteMatch
    <3> QED BY <1>3, <3>2, <3>3, OneAfter DEF AtHead
  <2>4. ASSUME NEW s \in SearchIds PROVE (Settled(s)' \/ Underway(s)') /\ Answered(s)'
    <3>1. CASE search[s].match # m
      BY <1>3, <1>5, <1>6, <3>1, RowStays
    <3>2. CASE search[s].match = m
      <4>1. search[s].st \in Live => search[s].st = "MATCHED" /\ ~search[s].acc
        BY <1>4, <1>6, <2>1, <3>2 DEF Settled, Answered, Live, Over
      <4>2. search'[s] = search[s]
        BY <1>3
      <4>3. CASE search[s].st \in Live
        BY <2>2, <2>3, <3>2, <4>1, <4>2, <4>3 DEF Underway, Answered
      <4>4. CASE search[s].st \notin Live
        BY <4>2, <4>4 DEF Settled, Answered, Live
      <4> QED BY <4>3, <4>4
    <3> QED BY <3>1, <3>2
  <2> QED BY <1>7, <2>4 DEF Followed, Placed
<1> QED BY <1>8, <1>9

\* a match is given its server: its players are told next, or later by the server's roster
LEMMA ReserveFollows == ASSUME TInv, Followed, ReserveServer PROVE Followed'
<1>1. PICK t : t = Head(todo)
  OBVIOUS
<1>2. /\ todo # <<>> /\ t.op = "reserve" /\ t \in Task /\ UNCHANGED search /\ match \in [MatchIds -> MatchType]
      /\ t.pend \subseteq MatchIds
  BY <1>1, Running, TaskFields DEF ReserveServer, Now, TInv, PInv, IInv, TypeOK
<1>3. \A s \in SearchIds : Settled(s) /\ Answered(s) /\ search[s].match \in MatchIds \cup {None}
  BY <1>1, <1>2, AllSettled DEF Followed, TInv, PInv, IInv, TypeOK, SearchType
<1>4. Told'
  <2>1. PICK K : K = {"assign", "reserve"}
    OBVIOUS
  <2>2. \E tasks \in Seq(Kind(K)) : Do(tasks)
    BY <2>1, Puts
  <2> QED BY <1>1, <1>2, <2>1, <2>2, ToldKinds
<1>5. CASE UNCHANGED match
  BY <1>1, <1>2, <1>4, <1>5, QuietFollows
<1>6. ASSUME NEW m \in MatchIds, match[m].st = "FULL",
             \E v : match' = [match EXCEPT ![m].st = "READY", ![m].sv = v, ![m].map = server[v].map]
      PROVE  Followed'
  <2>1. /\ match'[m].st = "READY" /\ match'[m].mode = match[m].mode
        /\ \A k \in MatchIds : k # m => match'[k] = match[k]
    BY <1>2, <1>6 DEF MatchType
  <2>2. AcceptRequired(m)' /\ m # None
    BY <1>6, <2>1, NoneAssumption DEF AcceptRequired, TInv, PInv, PSafe, FullIsAccept
  <2>3. ASSUME NEW s \in SearchIds PROVE Settled(s)' /\ Answered(s)'
    <3>1. CASE search[s].match # m
      BY <1>2, <1>3, <2>1, <3>1, RowStays
    <3>2. CASE search[s].match = m
      <4>1. search[s].st \in Live => search[s].st = "MATCHED" /\ ~search[s].acc
        BY <1>3, <1>6, <2>2, <3>2 DEF Settled, Answered, Live, Over
      <4> QED BY <1>2, <2>1, <2>2, <3>2, <4>1 DEF Settled, Answered, Live
    <3> QED BY <3>1, <3>2
  <2> QED BY <1>4, <2>3 DEF Followed, Placed
<1>7. \/ UNCHANGED match
      \/ \E m \in t.pend : match[m].st = "FULL"
           /\ \E v : match' = [match EXCEPT ![m].st = "READY", ![m].sv = v, ![m].map = server[v].map]
  BY <1>1 DEF ReserveServer
<1> QED BY <1>2, <1>5, <1>6, <1>7

\* the players of a match are told, one by one, that it has a server
LEMMA AssignFollows == ASSUME TInv, Followed, AssignRow PROVE Followed'
<1>1. PICK t : t = Head(todo)
  OBVIOUS
<1>2. PICK m : m = t.m
  OBVIOUS
<1>3. /\ todo # <<>> /\ t.op = "assign" /\ t \in Task /\ Sound(t) /\ UNCHANGED match /\ search \in [SearchIds -> SearchType]
  BY <1>1, Running DEF AssignRow, Now, TInv, PInv, IInv, TypeOK
<1>4. m \in MatchIds /\ m # None /\ match[m].st = "READY"
  BY <1>2, <1>3, TaskFields, NoneAssumption DEF Sound, CanAssign
<1>5. PICK s \in t.pend : Place(s, m, AssignedStatus(m)) /\ Do(<<[t EXCEPT !.pend = @ \ {s}]>>)
  BY <1>1, <1>2 DEF AssignRow
<1>6. s \in SearchIds
  BY <1>3, TaskFields
<1>7. Told'
  <2>1. PICK K : K = {"assign"}
    OBVIOUS
  <2>2. \E tasks \in Seq(Kind(K)) : Do(tasks)
    BY <2>1, Puts
  <2> QED BY <1>1, <1>3, <2>1, <2>2, ToldKinds
<1>8. AtHead("assign", m) /\ AtHead("assign", m)'
  <2>1. PICK e : e = [t EXCEPT !.pend = @ \ {s}]
    OBVIOUS
  <2>2. e \in Task /\ e.op = "assign" /\ e.m = m /\ Do(<<e>>)
    BY <1>2, <1>3, <1>5, <2>1, Less
  <2> QED BY <1>1, <1>2, <1>3, <2>2, OneAfter DEF AtHead
<1>9. \A k, op : AtHead(op, k) => op = "assign" /\ k = m
  BY <1>1, <1>2, <1>3 DEF AtHead
<1>10. ASSUME NEW o \in SearchIds PROVE (Settled(o)' \/ Underway(o)') /\ Answered(o)'
  <2>1. (Settled(o) \/ Underway(o)) /\ Answered(o)
    BY DEF Followed, Placed
  <2>2. CASE search'[o] = search[o]
    <3>1. CASE Settled(o)
      BY <1>3, <2>1, <2>2, <3>1, RowStays
    <3>2. CASE Underway(o)
      <4>1. search[o].match = m /\ match[m].st = "READY" /\ search[o].st \in {"MATCHED", AssignedStatus(m)}
        BY <1>9, <3>2 DEF Underway
      <4>2. Underway(o)'
        BY <1>3, <1>8, <2>2, <4>1 DEF Underway, AssignedStatus, AcceptRequired
      <4>3. Answered(o)'
        BY <1>3, <2>1, <2>2 DEF Answered
      <4> QED BY <4>2, <4>3
    <3> QED BY <2>1, <3>1, <3>2
  <2>3. CASE search'[o].st = AssignedStatus(m) /\ search'[o].match = m /\ ~search'[o].acc
    <3>1. Answered(o)'
      BY <2>3 DEF Answered
    <3>2. Underway(o)'
      BY <1>3, <1>4, <1>8, <2>3 DEF Underway, AssignedStatus, AcceptRequired
    <3> QED BY <3>1, <3>2
  <2>4. search'[o] = search[o] \/ (search'[o].st = AssignedStatus(m) /\ search'[o].match = m /\ ~search'[o].acc)
    BY <1>3, <1>5, <1>6 DEF Place, SearchType
  <2> QED BY <2>2, <2>3, <2>4
<1> QED BY <1>7, <1>10 DEF Followed, Placed

\* everybody is told: the players may accept
LEMMA StartFollows == ASSUME TInv, Followed, StartAccepting PROVE Followed'
<1>1. PICK t : t = Head(todo)
  OBVIOUS
<1>2. PICK m : m = t.m
  OBVIOUS
<1>3. /\ todo # <<>> /\ t.op = "assign" /\ t.pend = {} /\ t \in Task /\ Sound(t) /\ UNCHANGED search
      /\ match \in [MatchIds -> MatchType]
  BY <1>1, Running DEF StartAccepting, Now, TInv, PInv, IInv, TypeOK
<1>4. m \in MatchIds /\ m # None /\ match[m].st = "READY"
  BY <1>2, <1>3, TaskFields, NoneAssumption DEF Sound, CanAssign
<1>5. \A s \in LiveRows(m) : search[s].st = AssignedStatus(m)
  BY <1>2, <1>3 DEF Sound, CanAssign
<1>6. Told'
  <2>1. PICK K : K = {"accepted"}
    OBVIOUS
  <2>2. \E tasks \in Seq(Kind(K)) : Do(tasks)
    BY <2>1, Puts
  <2> QED BY <1>1, <1>3, <2>1, <2>2, ToldKinds
<1>7. /\ match'[m].mode = match[m].mode
      /\ \A k \in MatchIds : k # m => match'[k] = match[k]
      /\ match'[m].st = IF AcceptRequired(m) THEN "ACCEPTING" ELSE "READY"
  BY <1>1, <1>2, <1>3, <1>4 DEF StartAccepting, MatchType
<1>8. ASSUME NEW s \in SearchIds PROVE Settled(s)' /\ Answered(s)'
  <2>1. (Settled(s) \/ Underway(s)) /\ Answered(s) /\ search[s].match \in MatchIds \cup {None} /\ search'[s] = search[s]
    BY <1>3 DEF Followed, Placed, TInv, PInv, IInv, TypeOK, SearchType
  <2>2. CASE search[s].match # m
    <3>1. Settled(s)
      BY <1>1, <1>2, <1>3, <2>1, <2>2 DEF Underway, AtHead
    <3> QED BY <1>3, <1>7, <2>1, <2>2, <3>1, RowStays
  <2>3. CASE search[s].match = m /\ search[s].st \notin Live
    BY <2>1, <2>3 DEF Settled, Answered, Live
  <2>4. CASE search[s].match = m /\ search[s].st \in Live
    <3>1. search[s].st = AssignedStatus(m)
      BY <1>5, <2>4 DEF LiveRows
    <3>2. ~search[s].acc
      BY <1>4, <2>1, <2>4 DEF Answered, Over
    <3>3. Answered(s)'
      BY <2>1, <3>2 DEF Answered
    <3>4. Settled(s)'
      BY <1>4, <1>7, <2>1, <2>4, <3>1 DEF Settled, AssignedStatus, AcceptRequired
    <3> QED BY <3>3, <3>4
  <2> QED BY <2>2, <2>3, <2>4
<1> QED BY <1>6, <1>8 DEF Followed, Placed

\* everybody has accepted
LEMMA MarkFollows == ASSUME TInv, Followed, MarkAccepted PROVE Followed'
<1>1. PICK m : m = Head(todo).m
  OBVIOUS
<1>2. /\ todo # <<>> /\ Head(todo).op = "accepted" /\ UNCHANGED search /\ match \in [MatchIds -> MatchType]
      /\ m \in MatchIds /\ m # None /\ match[m].st = "ACCEPTING"
  <2>1. todo # <<>> /\ Head(todo).op = "accepted" /\ UNCHANGED search
    BY DEF MarkAccepted, Now
  <2> QED BY <1>1, <2>1, Running, TaskFields, NoneAssumption DEF Sound, CanAccept, TInv, PInv, IInv, TypeOK
<1>3. \A s \in SearchIds : Settled(s) /\ Answered(s) /\ search[s].match \in MatchIds \cup {None}
  BY <1>2, AllSettled DEF Followed, TInv, PInv, IInv, TypeOK, SearchType
<1>4. Told'
  <2>1. PICK K : K = {"connect"}
    OBVIOUS
  <2>2. \E tasks \in Seq(Kind(K)) : Do(tasks)
    BY <2>1, Puts
  <2> QED BY <1>2, <2>1, <2>2, ToldKinds
<1>5. /\ match'[m].st = "ACCEPTED" /\ match'[m].mode = match[m].mode
      /\ \A k \in MatchIds : k # m => match'[k] = match[k]
  BY <1>1, <1>2 DEF MarkAccepted, MatchType
<1>6. AtHead("connect", m)'
  <2>1. PICK e : e = [op |-> "connect", m |-> m]
    OBVIOUS
  <2>2. e \in Task /\ e.op = "connect" /\ e.m = m
    BY <1>2, <2>1 DEF Task
  <2>3. Do(<<e>>)
    BY <1>1, <2>1 DEF MarkAccepted
  <2> QED BY <1>2, <2>2, <2>3, OneAfter DEF AtHead
<1>7. ASSUME NEW s \in SearchIds PROVE (Settled(s)' \/ Underway(s)') /\ Answered(s)'
  <2>1. CASE search[s].match # m
    BY <1>2, <1>3, <1>5, <2>1, RowStays
  <2>2. CASE search[s].match = m
    <3>1. search[s].st \in Live => search[s].st = "WAITING_ACCEPT"
      BY <1>2, <1>3, <2>2 DEF Settled, Live, Over, Gathering
    <3>2. search'[s] = search[s]
      BY <1>2
    <3>3. Answered(s)'
      BY <1>5, <2>2, <3>1, <3>2 DEF Answered
    <3>4. search[s].st \in Live => Underway(s)'
      BY <1>5, <1>6, <2>2, <3>1, <3>2 DEF Underway
    <3>5. search[s].st \notin Live => Settled(s)'
      BY <3>2 DEF Settled, Live
    <3> QED BY <3>3, <3>4, <3>5
  <2> QED BY <2>1, <2>2
<1> QED BY <1>4, <1>7 DEF Followed, Placed

\* and is told so
LEMMA ConnectFollows == ASSUME TInv, Followed, PromoteAccepted PROVE Followed'
<1>1. PICK m : m = Head(todo).m
  OBVIOUS
<1>2. /\ todo # <<>> /\ Head(todo).op = "connect" /\ UNCHANGED match /\ search \in [SearchIds -> SearchType]
      /\ m \in MatchIds /\ m # None /\ match[m].st = "ACCEPTED"
  <2>1. todo # <<>> /\ Head(todo).op = "connect" /\ UNCHANGED match
    BY DEF PromoteAccepted, Now
  <2> QED BY <1>1, <2>1, Running, TaskFields, NoneAssumption DEF Sound, CanConnect, TInv, PInv, IInv, TypeOK
<1>3. Told'
  <2>1. Do(<<>>)
    BY DEF PromoteAccepted
  <2>2. PICK K : K = {"connect"}
    OBVIOUS
  <2>3. <<>> \in Seq(Kind(K)) /\ K \cap {"end", "lapse"} = {}
    BY <2>2
  <2> QED BY <1>2, <2>1, <2>3, ToldKinds
<1>4. ASSUME NEW s \in SearchIds PROVE Settled(s)' /\ Answered(s)'
  <2>1. (Settled(s) \/ Underway(s)) /\ Answered(s)
    BY DEF Followed, Placed
  <2>2. CASE search[s].match = m /\ search[s].st = "WAITING_ACCEPT"
    <3>1. search'[s] = [search[s] EXCEPT !.st = "READY_TO_CONNECT"] /\ search[s] \in SearchType
      BY <1>1, <1>2, <2>2 DEF PromoteAccepted
    <3>2. search'[s].st = "READY_TO_CONNECT" /\ search'[s].match = m
      BY <2>2, <3>1 DEF SearchType
    <3> QED BY <1>2, <3>2 DEF Settled, Answered
  <2>3. CASE ~(search[s].match = m /\ search[s].st = "WAITING_ACCEPT")
    <3>1. search'[s] = search[s]
      BY <1>1, <2>3 DEF PromoteAccepted
    <3>2. ~Underway(s)
      BY <1>1, <1>2, <2>3 DEF Underway, AtHead
    <3> QED BY <1>2, <2>1, <3>1, <3>2, RowStays
  <2> QED BY <2>2, <2>3
<1> QED BY <1>3, <1>4 DEF Followed, Placed

\* a handler that begins writes no row and no match, but for the one that accepts
LEMMA BeginFollows ==
  ASSUME TInv, Followed, UNCHANGED <<search, match>>, NEW K, NEW tasks \in Seq(Kind(K)), Begin(tasks),
         K \cap {"end", "lapse"} = {}
  PROVE  Followed'
<1>1. todo = <<>>
  BY DEF Begin
<1>2. \A s \in SearchIds : Settled(s) /\ Answered(s)
  BY <1>1, AllSettled DEF Followed
<1>3. \A s \in SearchIds : Settled(s)' /\ Answered(s)'
  BY <1>2, RowStays
<1> QED BY <1>3, ToldBegin DEF Followed, Placed

\* a player accepts
LEMMA AcceptFollows == ASSUME TInv, Followed, NEW s \in SearchIds, NEW r, Accept(s, r) PROVE Followed'
<1>1. PICK m : m = search[s].match
  OBVIOUS
<1>2. /\ search[s].st = "WAITING_ACCEPT" /\ match[m].st = "ACCEPTING" /\ UNCHANGED match
      /\ search' = [search EXCEPT ![s].acc = TRUE] /\ m \in MatchIds /\ todo = <<>>
      /\ search \in [SearchIds -> SearchType]
  BY <1>1 DEF Accept, Begin, TInv, PInv, IInv, TypeOK, SearchType
<1>3. Told'
  <2>1. PICK K : K = {"accepted", "scan"}
    OBVIOUS
  <2>2. Matcher \in Seq(Kind(K)) /\ <<>> \in Seq(Kind(K)) /\ <<[op |-> "accepted", m |-> m]>> \in Seq(Kind(K))
    <3>1. [op |-> "accepted", m |-> m] \in Kind(K)
      BY <1>2, <2>1 DEF Kind, Task
    <3> QED BY <2>1, <3>1, ScanFirst, Pieces
  <2>3. PICK first \in {<<>>, <<[op |-> "accepted", m |-> m]>>} : Begin(first \o Matcher)
    BY <1>1 DEF Accept
  <2>4. first \o Matcher \in Seq(Kind(K))
    BY <2>2, <2>3, Pieces
  <2> QED BY <2>1, <2>3, <2>4, ToldBegin
<1>4. \A o \in SearchIds : Settled(o) /\ Answered(o)
  BY <1>2, AllSettled DEF Followed
<1>5. ASSUME NEW o \in SearchIds PROVE Settled(o)' /\ Answered(o)'
  <2>1. CASE o # s
    BY <1>2, <1>4, <2>1, RowStays
  <2>2. CASE o = s
    <3>1. search'[s].st = search[s].st /\ search'[s].match = m
      BY <1>1, <1>2 DEF SearchType
    <3> QED BY <1>1, <1>2, <1>4, <2>2, <3>1 DEF Settled, Answered, AcceptRequired
  <2> QED BY <2>1, <2>2
<1> QED BY <1>3, <1>5 DEF Followed, Placed

\* the calls of the players
LEMMA PlayerFollows == ASSUME TInv, Followed, Player PROVE Followed'
<1>1. PICK K : K = {"scan", "leave", "sync", "abandon", "enter", "accepted"}
  OBVIOUS
<1>2. PICK tasks \in Seq(Kind(K)) : Begin(tasks)
  BY <1>1, PlayerPuts
<1>3. CASE UNCHANGED <<search, match>>
  BY <1>1, <1>2, <1>3, BeginFollows
<1>4. ASSUME NEW a \in Accounts, NEW r \in Requests, NEW src \in Sources, NEW ask \in Choices,
             NEW party \in Parties[a], Start(a, r, src, ask, party)
      PROVE  Followed'
  BY <1>3, <1>4 DEF Start
<1>5. ASSUME NEW s \in SearchIds, Poll(s) \/ Remove(s) PROVE Followed'
  BY <1>3, <1>5 DEF Poll, Remove
<1>6. ASSUME NEW s \in SearchIds, NEW r \in Asked(s), Cancel(s, r) PROVE Followed'
  BY <1>3, <1>6 DEF Cancel
<1>7. ASSUME NEW s \in SearchIds, NEW r \in Asked(s), Accept(s, r) PROVE Followed'
  BY <1>7, AcceptFollows
<1> QED BY <1>4, <1>5, <1>6, <1>7 DEF Player

\* the match of a server that is set: its players are told nothing, or have been told to connect
LEMMA FreedFollows ==
  ASSUME TInv, Followed, UNCHANGED <<search, match>>, NEW v \in Servers, NEW st, NEW rest \in Seq(Kind({"scan"})),
         Begin(SetFreed(v, st) \o rest)
  PROVE  Followed'
<1>1. PICK m : m = server[v].by
  OBVIOUS
<1>2. PICK t : t = [op |-> "set", v |-> v, st |-> st]
  OBVIOUS
<1>3. todo = <<>> /\ todo' = SetFreed(v, st) \o rest /\ m \in MatchIds \cup {None}
  BY <1>1 DEF Begin, TInv, PInv, IInv, TypeOK, ServerType
<1>4. \A s \in SearchIds : Settled(s) /\ Answered(s)
  BY <1>3, AllSettled DEF Followed
<1>5. \A s \in SearchIds : Settled(s)' /\ Answered(s)'
  BY <1>4, RowStays
<1>6. PICK q : /\ SetFreed(v, st) = q \o <<t>>
               /\ \/ q = <<>>
                  \/ m # None /\ q = Dissolve(m)
                  \/ /\ m # None /\ q = EndMatch(m, "keep")
                     /\ match[m].st = "ACCEPTED" \/ (match[m].st \in Holding /\ ~AcceptRequired(m))
  BY <1>1, <1>2 DEF SetFreed, Holding
<1>7. Tells(t)' /\ \A r \in Kind({"scan"}) : Tells(r)'
  BY <1>2 DEF Kind, Tells
<1>8. ASSUME NEW e, q \in {<<>>, <<e>>}, Tells(e)' PROVE Told'
  <2>1. PICK S : S = Kind({"scan"}) \cup {e, t}
    OBVIOUS
  <2>2. q \in Seq(S) /\ <<t>> \in Seq(S) /\ rest \in Seq(S)
    <3>1. Kind({"scan"}) \subseteq S /\ e \in S /\ t \in S
      BY <2>1
    <3>2. rest \in Seq(S)
      BY <3>1
    <3>3. <<e>> \in Seq(S) /\ <<t>> \in Seq(S) /\ <<>> \in Seq(S)
      BY <3>1
    <3> QED BY <1>8, <3>2, <3>3
  <2>3. todo' \in Seq(S)
    BY <1>3, <1>6, <2>2
  <2>4. \A r \in S : Tells(r)'
    BY <1>7, <1>8, <2>1
  <2> QED BY <2>3, <2>4, RangeOfSeq DEF Told
<1>9. Told'
  <2>1. CASE q = <<>>
    BY <1>7, <1>8, <2>1
  <2>2. CASE m # None /\ q = Dissolve(m)
    <3>1. PICK e : e = DissolveTask(m)
      OBVIOUS
    <3>2. q = <<e>>
      BY <1>3, <2>2, <3>1, MatchQueue
    <3>3. Tells(e)'
      BY <3>1 DEF Tells, DissolveTask
    <3> QED BY <1>8, <3>2, <3>3
  <2>3. CASE /\ m # None /\ q = EndMatch(m, "keep")
             /\ match[m].st = "ACCEPTED" \/ (match[m].st \in Holding /\ ~AcceptRequired(m))
    <3>1. PICK e : e = EndTask(m, "keep")
      OBVIOUS
    <3>2. q = <<e>> /\ m \in MatchIds
      BY <1>3, <2>3, <3>1, MatchQueue
    <3>3. \A s \in LiveRows(m) : search[s].st = "READY_TO_CONNECT"
      BY <1>4, <2>3, <3>2, Connected
    <3>4. LiveRows(m)' = LiveRows(m)
      BY DEF LiveRows
    <3>5. e.op = "end" /\ e.m = m
      BY <3>1 DEF EndTask
    <3>6. Tells(e)'
      BY <3>3, <3>4, <3>5 DEF Tells
    <3> QED BY <1>8, <3>2, <3>6
  <2> QED BY <1>6, <2>1, <2>2, <2>3
<1> QED BY <1>5, <1>9 DEF Followed, Placed

\* the calls of the administrator and of the game servers
LEMMA ServerCallFollows == ASSUME TInv, Followed, Operator \/ GameServer PROVE Followed'
<1>1. PICK K : K = {"scan", "set", "assign"}
  OBVIOUS
<1>2. K \cap {"end", "lapse"} = {} /\ Matcher \in Seq(Kind(K)) /\ <<>> \in Seq(Kind(K)) /\ Matcher \in Seq(Kind({"scan"}))
  BY <1>1, ScanFirst
<1>3. <<>> \in Seq(Kind({"scan"}))
  OBVIOUS
<1>4. ASSUME NEW v \in Servers, NEW st \in {"AVAILABLE", "BUSY"}, SetServerState(v, st) PROVE Followed'
  BY <1>2, <1>4, FreedFollows DEF SetServerState
<1>5. ASSUME NEW v \in Servers, DeleteServer(v) PROVE Followed'
  <2>1. SetFreed(v, "ABSENT") = SetFreed(v, "ABSENT") \o <<>>
    BY SetFreedQueue, ConcatEmptySeq DEF Queue, Wish
  <2>2. Begin(SetFreed(v, "ABSENT") \o <<>>) /\ UNCHANGED <<search, match>>
    BY <1>5, <2>1 DEF DeleteServer
  <2> QED BY <1>3, <2>2, FreedFollows
<1>6. ASSUME NEW v \in Servers, NEW setup, NEW on, EditServer(v, setup, on) \/ EnableServer(v, on) PROVE Followed'
  BY <1>2, <1>6, BeginFollows DEF EditServer, EnableServer
<1>7. ASSUME NEW v \in Servers, NEW setup, NEW on, NEW st, CreateServer(v, setup, st, on) PROVE Followed'
  BY <1>2, <1>7, BeginFollows DEF CreateServer
<1>8. ASSUME NEW v \in Servers, RosterForServer(v) PROVE Followed'
  BY <1>2, <1>8, BeginFollows DEF RosterForServer
<1>9. ASSUME NEW v \in Servers, NEW m \in MatchIds, ConfirmRoster(v, m) PROVE Followed'
  <2>1. Assign(m) \in Seq(Kind(K))
    BY <1>1, Pieces
  <2>2. UNCHANGED <<search, match>> /\ (Begin(Assign(m)) \/ Begin(<<>>))
    BY <1>9 DEF ConfirmRoster
  <2> QED BY <1>2, <2>1, <2>2, BeginFollows
<1>10. ASSUME NEW v \in Servers, NEW map, NEW st, Report(v, map, st) PROVE Followed'
  <2>1. PICK e : e = [op |-> "set", v |-> v, st |-> "AVAILABLE"]
    OBVIOUS
  <2>2. e \in Kind(K)
    BY <1>1, <2>1 DEF Kind, Task, Wish
  <2>3. <<e>> \o Matcher \in Seq(Kind(K)) /\ <<>> \o Matcher \in Seq(Kind(K))
    BY <1>2, <2>2, Pieces
  <2>4. UNCHANGED <<search, match>>
    BY <1>10 DEF Report
  <2>5. Begin(SetFreed(v, "BUSY") \o Matcher) \/ Begin(<<e>> \o Matcher) \/ Begin(<<>> \o Matcher)
    BY <1>10, <2>1 DEF Report
  <2>6. CASE Begin(SetFreed(v, "BUSY") \o Matcher)
    BY <1>2, <2>4, <2>6, FreedFollows
  <2>7. CASE Begin(<<e>> \o Matcher) \/ Begin(<<>> \o Matcher)
    BY <1>2, <2>3, <2>4, <2>7, BeginFollows
  <2> QED BY <2>5, <2>6, <2>7
<1>11. CASE Operator
  BY <1>4, <1>5, <1>6, <1>7, <1>11 DEF Operator
<1>12. CASE GameServer
  BY <1>8, <1>9, <1>10, <1>12 DEF GameServer
<1> QED BY <1>11, <1>12

\* all handlers but a restart, as long as the reservations are not outlived
LEMMA NextFollows == TInv /\ Followed /\ [Next]_vars /\ crashes' = 0 /\ ~Outage => Followed'
<1> SUFFICES ASSUME TInv, Followed, [Next]_vars, crashes' = 0, ~Outage PROVE Followed' OBVIOUS
<1>1. ~Crash
  BY DEF Crash, TInv, PInv, IInv, TypeOK
<1>2. CASE Step
  <2>1. \/ Scan \/ Breakup \/ Lapse \/ ReleaseAbandoned \/ Retire \/ LeaveRow \/ Enter \/ SyncParty \/ AddMember \/ TagMember
        \/ PlaceSearch \/ FillMatch \/ PromoteMatch \/ DeleteOld \/ MemberLeft \/ Release \/ SetServer \/ ReleaseOrphan
        \/ DissolveRow \/ End \/ JoinMatch \/ GatherParty \/ CompleteMatch \/ ReserveServer \/ AssignRow
        \/ StartAccepting \/ MarkAccepted \/ PromoteAccepted
    BY <1>2 DEF Step
  <2> QED BY <2>1, ScanFollows, BreakupFollows, RowFollows, CalmFollows, PurgeFollows, LeftFollows, GiveFollows,
             DissolveFollows, EndFollows, EnterFollows, CompleteFollows, ReserveFollows, AssignFollows, StartFollows,
             MarkFollows, ConnectFollows
<1>3. CASE Player
  BY <1>3, PlayerFollows
<1>4. CASE Operator \/ GameServer
  BY <1>4, ServerCallFollows
<1>5. CASE FakePlayers \/ Time
  <2>1. UNCHANGED <<search, match>> /\ (Begin(Matcher) \/ Begin(Tick) \/ Begin(<<>>))
    BY <1>5 DEF FakePlayers, SetFakeMaster, WriteProfile, Time, RunTick, CooldownOver, PollWindowOver
  <2>2. PICK K : K = {"scan"}
    OBVIOUS
  <2>3. Matcher \in Seq(Kind(K)) /\ Tick \in Seq(Kind(K)) /\ <<>> \in Seq(Kind(K)) /\ K \cap {"end", "lapse"} = {}
    BY <2>2, ScanFirst
  <2> QED BY <2>1, <2>3, BeginFollows
<1>6. CASE UNCHANGED vars
  BY <1>6 DEF vars, Followed, Told, Tells, Placed, Settled, Underway, Answered, AtHead, LiveRows, AcceptRequired, AssignedStatus
<1> QED BY <1>1, <1>2, <1>3, <1>4, <1>5, <1>6 DEF Next

Faithful == TInv /\ (crashes = 0 => Followed)

LEMMA FaithfulAlways == ASSUME ~Outage PROVE Spec => []Faithful
<1>1. Init => Faithful
  <2> SUFFICES ASSUME Init PROVE Followed
    BY InitTInv DEF Faithful
  <2>1. todo = <<>> /\ \A s \in SearchIds : search[s].st = "NONE"
    BY DEF Init, NoSearch
  <2>2. Told
    <3>1. Range(todo) = {}
      BY <2>1, ShortQueue DEF Queue
    <3> QED BY <3>1 DEF Told
  <2> QED BY <2>1, <2>2 DEF Followed, Placed, Settled, Answered, Live
<1>2. Faithful /\ [Next]_vars => Faithful'
  BY CrashesCount, NextTInv, NextFollows DEF Faithful
<1> QED BY <1>1, <1>2, PTL DEF Spec

\* PlayersFollow: for any number of players, matches and servers, as long as no restart cuts a handler
\* short and no outage outlasts a reservation, between two handlers a player who waits is in a match
\* that still gathers or waits for its server, one who is asked is in a match that is being accepted,
\* and one who was told to connect is in one that was handed over (SearchFollowsMatch: memberLeft,
\* cancelMatch, assignMembers, promoteToReady).
THEOREM PlayersFollow == ASSUME ~Outage PROVE Spec => [](crashes = 0 => SearchFollowsMatch)
<1>1. Faithful => (crashes = 0 => SearchFollowsMatch)
  <2> SUFFICES ASSUME Followed, todo = <<>>, NEW s \in SearchIds
               PROVE  LET m == search[s].match IN
                      /\ search[s].st = "MATCHED" => m # None /\ match[m].st \in Gathering \cup {"READY"}
                      /\ search[s].st = "WAITING_ACCEPT" => m # None /\ match[m].st = "ACCEPTING"
                      /\ search[s].st = "READY_TO_CONNECT" =>
                           m # None /\ match[m].st \notin Gathering \cup {"ACCEPTING"}
    BY DEF Faithful, SearchFollowsMatch
  <2>1. Settled(s)
    BY AllSettled DEF Followed
  <2> QED BY <2>1 DEF Settled, Gathering, Over
<1> QED BY <1>1, FaithfulAlways, PTL

-----------------------------------------------------------------------------
(* The parties, and the matches that wait for a server. *)

\* who has been asked to accept or to connect
Summoned == {"WAITING_ACCEPT", "READY_TO_CONNECT"}

\* the handler is about to end this search, or to look at the match it left
Leaving(s) == \E t \in Range(todo) : t.op = "leave" /\ s \in t.pend
Losing(m)  == \E t \in Range(todo) : t.op = "left" /\ t.m = m

\* a member that is in a match is in that of its leader, or its leader accepted and searches again;
\* otherwise the handler is about to bring it there, or out of its match
Together(s, l) ==
  search[s].st \in Live /\ search[l].st \in Live /\ search[s].match # None =>
    /\ search[l].leader = None
    /\ \/ search[s].match = search[l].match
       \/ search[l].match = None /\ search[s].st \in Summoned
       \/ AtHead("gather", search[l].match) /\ s \in Head(todo).pend /\ search[s].st \in Summoned
       \/ AtHead("end", search[s].match) /\ Head(todo).st = "CANCELLED" /\ search[l].match = None
       \/ Leaving(s)
Companions == \A s, l \in SearchIds : search[s].leader = l => Together(s, l)

\* the members who are gathered still have a leader to follow
Led == todo # <<>> /\ Head(todo).op = "gather" =>
         \A s \in Head(todo).pend : search[search[s].leader].st \in Live

\* a full match has all its players, or the handler is about to find out that it has not
FilledUp == \A m \in MatchIds : match[m].st = "FULL" => Enough(m) \/ Losing(m) \/ AtHead("end", m)

Gathered == Companions /\ Led /\ FilledUp

\* a row that goes on as it was, in its match and its party
GoesOn(s) ==
  /\ search[s].st \in Live /\ search'[s].match = search[s].match /\ search'[s].leader = search[s].leader
  /\ search[s].st \in Summoned => search'[s].st \in Summoned

\* parties stay together while rows go on, end, or begin anew
LEMMA CompanionsKept ==
  ASSUME Companions, todo # <<>> => Head(todo).op \notin {"gather", "end"},
         \A s \in SearchIds : search'[s].st \in Live =>
           \/ GoesOn(s)
           \/ search'[s].match = None /\ \A o \in SearchIds \ {s} : search'[o].leader # s,
         \A s \in SearchIds : Leaving(s) /\ search'[s].st \in Live => Leaving(s)'
  PROVE  Companions'
<1> SUFFICES ASSUME NEW s \in SearchIds, NEW l \in SearchIds, search'[s].leader = l,
                    search'[s].st \in Live, search'[l].st \in Live, search'[s].match # None
             PROVE  /\ search'[l].leader = None
                    /\ \/ search'[s].match = search'[l].match
                       \/ search'[l].match = None /\ search'[s].st \in Summoned
                       \/ Leaving(s)'
  BY DEF Companions, Together
<1>1. GoesOn(s)
  OBVIOUS
<1>2. GoesOn(l)
  <2>1. CASE l = s
    BY <1>1, <2>1
  <2>2. CASE l # s
    BY <2>2
  <2> QED BY <2>1, <2>2
<1>3. /\ search[l].leader = None
      /\ \/ search[s].match = search[l].match
         \/ search[l].match = None /\ search[s].st \in Summoned
         \/ Leaving(s)
  <2>1. Together(s, l)
    BY <1>1 DEF Companions, GoesOn
  <2> QED BY <1>1, <1>2, <2>1 DEF Together, GoesOn, AtHead
<1> QED BY <1>1, <1>2, <1>3 DEF GoesOn

\* a match that is full stays complete while its players stay
LEMMA FilledKept ==
  ASSUME FilledUp, todo # <<>> => Head(todo).op # "end",
         \A m \in MatchIds : match'[m].st = "FULL" =>
           \/ Enough(m)' \/ Losing(m)'
           \/ /\ match[m].st = "FULL" /\ match'[m].mode = match[m].mode /\ match'[m].fake = match[m].fake
              /\ match'[m].prof = match[m].prof /\ LiveRows(m)' = LiveRows(m),
         \A m \in MatchIds : Losing(m) /\ match'[m].st = "FULL" => Losing(m)' \/ AtHead("end", m)'
  PROVE  FilledUp'
<1> SUFFICES ASSUME NEW m \in MatchIds, match'[m].st = "FULL", ~Losing(m)', ~AtHead("end", m)'
             PROVE  Enough(m)'
  BY DEF FilledUp
<1>1. CASE /\ match[m].st = "FULL" /\ match'[m].mode = match[m].mode /\ match'[m].fake = match[m].fake
           /\ match'[m].prof = match[m].prof /\ LiveRows(m)' = LiveRows(m)
  <2>1. Enough(m)
    BY <1>1 DEF FilledUp, AtHead
  <2> QED BY <1>1, <2>1 DEF Enough, AcceptRequired, Players
<1> QED BY <1>1

\* tasks stay until they run
LEMMA TasksStay ==
  ASSUME TInv, todo # <<>>, NEW S, NEW tasks \in Seq(S), Do(tasks)
  PROVE  /\ Head(todo).op # "leave" => \A s : Leaving(s) => Leaving(s)'
         /\ Head(todo).op # "left" => \A m : Losing(m) => Losing(m)'
         /\ \A t \in Range(tasks) : t \in Range(todo')
<1>1. Range(todo') = Range(tasks) \cup Behind
  BY NextTasks
<1>2. Range(todo) = {Head(todo)} \cup Behind
  BY HeadAndBehind
<1> QED BY <1>1, <1>2 DEF Leaving, Losing

\* a step that writes no row and fills no match
LEMMA Undisturbed ==
  ASSUME Gathered, todo # <<>> => Head(todo).op \notin {"gather", "end"}, UNCHANGED search,
         todo' # <<>> => Head(todo').op # "gather",
         \A s : Leaving(s) => Leaving(s)', \A m : Losing(m) => Losing(m)',
         \A m \in MatchIds : match'[m].st = "FULL" =>
           \/ Enough(m)'
           \/ /\ match[m].st = "FULL" /\ match'[m].mode = match[m].mode /\ match'[m].fake = match[m].fake
              /\ match'[m].prof = match[m].prof
  PROVE  Gathered'
<1>1. Companions'
  BY CompanionsKept DEF Gathered, GoesOn
<1>2. \A m : LiveRows(m)' = LiveRows(m)
  BY DEF LiveRows
<1>3. FilledUp'
  BY <1>2, FilledKept DEF Gathered
<1> QED BY <1>1, <1>3 DEF Gathered, Led

\* what the next task is not
LEMMA NoGather ==
  ASSUME TInv, todo # <<>>, NEW K, NEW tasks \in Seq(Kind(K)), Do(tasks), "gather" \notin K, todo' # <<>>
  PROVE  Head(todo').op # "gather"
<1>1. Head(todo') \in Kind(K) \cup Behind
  BY NextTasks
<1>2. \A t \in Behind : t.op # "gather"
  BY BehindKinds
<1> QED BY <1>1, <1>2 DEF Kind

\* so with most statements
LEMMA CalmGathered ==
  ASSUME TInv, Gathered, todo # <<>>, Head(todo).op \notin {"gather", "end", "leave", "left"}, UNCHANGED search,
         NEW K, NEW tasks \in Seq(Kind(K)), Do(tasks), "gather" \notin K,
         \A m \in MatchIds : match'[m].st = "FULL" =>
           \/ Enough(m)'
           \/ /\ match[m].st = "FULL" /\ match'[m].mode = match[m].mode /\ match'[m].fake = match[m].fake
              /\ match'[m].prof = match[m].prof
  PROVE  Gathered'
<1>1. (\A s : Leaving(s) => Leaving(s)') /\ (\A m : Losing(m) => Losing(m)')
  BY TasksStay
<1>2. todo' # <<>> => Head(todo').op # "gather"
  BY NoGather
<1> QED BY <1>1, <1>2, Undisturbed

\* the timers read only, and nothing is queued before them
LEMMA ScanGathered == ASSUME TInv, Gathered, Scan PROVE Gathered'
<1>1. /\ todo # <<>> /\ Head(todo).op = "scan" /\ Behind = {} /\ UNCHANGED <<search, match>>
      /\ \A r \in Range(todo') : r.op = "scan" \/ \E q \in 1..LastPhase : \E work \in Works(q) : r \in Range(work)
      /\ todo' # <<>> => Head(todo') \in Range(todo')
  BY ScanPuts
<1>2. \A r \in Range(todo') : r.op # "gather"
  BY <1>1, WorkTasks DEF Timed
<1>3. \A s, m : ~Leaving(s) /\ ~Losing(m)
  <2>1. Range(todo) = {Head(todo)}
    BY <1>1, HeadAndBehind
  <2> QED BY <1>1, <2>1 DEF Leaving, Losing
<1> QED BY <1>1, <1>2, <1>3, Undisturbed

\* what the statements queue that end matches, give servers back or look at a party
Quiet == {"end", "leave", "add", "breakup", "lapse", "abandon", "orphan", "release", "set", "sync"}
LEMMA QuietPuts ==
  ASSUME TInv, Breakup \/ Lapse \/ ReleaseAbandoned \/ ReleaseOrphan \/ Release \/ SetServer \/ SyncParty
  PROVE  /\ todo # <<>> /\ Head(todo).op \in Quiet /\ UNCHANGED <<search, match>>
         /\ Head(todo).op \notin {"end", "leave", "left", "gather"}
         /\ \E tasks \in Seq(Kind(Quiet)) : Do(tasks)
<1>1. PICK t : t = Head(todo)
  OBVIOUS
<1>2. /\ todo # <<>> /\ t.op \in {"breakup", "lapse", "abandon", "orphan", "release", "set", "sync"} /\ t \in Task
      /\ UNCHANGED <<search, match>>
  <2>1. todo # <<>> /\ t.op \in {"breakup", "lapse", "abandon", "orphan", "release", "set", "sync"} /\ UNCHANGED <<search, match>>
    BY <1>1 DEF Breakup, Lapse, ReleaseAbandoned, ReleaseOrphan, Release, SetServer, SyncParty, Now
  <2> QED BY <1>1, <2>1, Running
<1>3. PICK K : K = Quiet
  OBVIOUS
<1>4. \E tasks \in Seq(Kind(K)) : Do(tasks)
  <2>1. CASE Breakup \/ Lapse \/ ReleaseAbandoned
    <3>1. t.op \in {"breakup", "lapse", "abandon"}
      BY <1>1, <2>1 DEF Breakup, Lapse, ReleaseAbandoned, Now
    <3>2. PICK m \in t.pend : Do(Dissolve(m) \o Rest(t, m)) \/ Do(EndMatch(m, "now") \o Rest(t, m))
      BY <1>1, <2>1 DEF Breakup, Lapse, ReleaseAbandoned
    <3>3. m \in MatchIds
      BY <1>2, <3>1, TaskFields
    <3>4. Rest(t, m) \in Seq(Kind(K))
      BY <1>2, <1>3, <3>1, Pieces DEF Looping, Quiet
    <3>5. Dissolve(m) \in Seq(Kind(K)) /\ EndMatch(m, "now") \in Seq(Kind(K))
      BY <1>3, <3>3, Pieces DEF Quiet
    <3>6. Dissolve(m) \o Rest(t, m) \in Seq(Kind(K)) /\ EndMatch(m, "now") \o Rest(t, m) \in Seq(Kind(K))
      BY <3>4, <3>5, Pieces
    <3> QED BY <3>2, <3>6
  <2>2. CASE ReleaseOrphan
    <3>1. t.op = "orphan"
      BY <1>1, <2>2 DEF ReleaseOrphan, Now
    <3>2. PICK v \in t.pend : Do(Rest(t, v))
      BY <1>1, <2>2 DEF ReleaseOrphan
    <3>3. Rest(t, v) \in Seq(Kind(K))
      BY <1>2, <1>3, <3>1, Pieces DEF Quiet
    <3> QED BY <3>2, <3>3
  <2>3. CASE Release \/ SetServer
    <3>1. Do(<<>>)
      BY <2>3 DEF Release, SetServer
    <3>2. <<>> \in Seq(Kind(K))
      OBVIOUS
    <3> QED BY <3>1, <3>2
  <2>4. CASE SyncParty
    <3>1. PICK tasks \in Seq(Kind({"leave", "add"})) : Do(tasks)
      BY <2>4, Puts
    <3>2. Kind({"leave", "add"}) \subseteq Kind(K)
      BY <1>3 DEF Kind, Quiet
    <3>3. tasks \in Seq(Kind(K))
      BY <3>2
    <3> QED BY <3>1, <3>3
  <2> QED BY <2>1, <2>2, <2>3, <2>4
<1> QED BY <1>1, <1>2, <1>3, <1>4 DEF Quiet

\* what the statements queue that follow when somebody leaves or a match ends
LEMMA EndPuts ==
  ASSUME TInv, MemberLeft \/ DissolveRow \/ End
  PROVE  /\ todo # <<>> /\ Head(todo).op \in {"left", "end"}
         /\ \E tasks \in Seq(Kind({"end", "release"})) : Do(tasks)
<1>1. PICK K : K = {"end", "release"}
  OBVIOUS
<1>2. todo # <<>> /\ Head(todo).op \in {"left", "end"} /\ Head(todo) \in Task
  <2>1. todo # <<>> /\ Head(todo).op \in {"left", "end"}
    BY DEF MemberLeft, DissolveRow, End, Now
  <2> QED BY <2>1, Running
<1>3. CASE MemberLeft
  <2>1. Head(todo).m \in MatchIds
    BY <1>2, <1>3, TaskFields DEF MemberLeft, Now
  <2>2. Dissolve(Head(todo).m) \in Seq(Kind(K)) /\ <<>> \in Seq(Kind(K))
    BY <1>1, <2>1, Pieces
  <2>3. Do(Dissolve(Head(todo).m)) \/ Do(<<>>)
    BY <1>3 DEF MemberLeft
  <2> QED BY <1>1, <1>2, <2>2, <2>3
<1>4. CASE DissolveRow
  <2>1. PICK t : t = Head(todo) /\ t \in Task /\ t.op = "end"
    BY <1>2, <1>4 DEF DissolveRow, Now
  <2>2. PICK s \in t.pend : Do(<<[t EXCEPT !.pend = @ \ {s}]>>)
    BY <1>4, <2>1 DEF DissolveRow
  <2>3. PICK e : e = [t EXCEPT !.pend = @ \ {s}]
    OBVIOUS
  <2>4. e \in Task /\ e.op = "end"
    BY <2>1, <2>3, Less
  <2>5. e \in Kind(K)
    BY <1>1, <2>4 DEF Kind
  <2>6. <<e>> \in Seq(Kind(K)) /\ Do(<<e>>)
    BY <2>2, <2>3, <2>5
  <2> QED BY <1>1, <1>2, <2>6
<1>5. CASE End
  <2>1. PICK e : e = [op |-> "release", m |-> Head(todo).m, free |-> Head(todo).free]
    OBVIOUS
  <2>2. Do(<<>>) \/ (Head(todo).free # "keep" /\ Do(<<e>>))
    BY <1>5, <2>1 DEF End
  <2>3. Head(todo).free # "keep" => e \in Kind(K)
    BY <1>1, <1>2, <1>5, <2>1, TaskFields DEF End, Now, Kind, Task
  <2>4. <<>> \in Seq(Kind(K)) /\ (Head(todo).free # "keep" => <<e>> \in Seq(Kind(K)))
    BY <2>3, Pieces
  <2> QED BY <1>1, <1>2, <2>2, <2>4
<1> QED BY <1>3, <1>4, <1>5

\* the statements that end matches, give servers back or look at a party
LEMMA QuietGathered ==
  ASSUME TInv, Gathered, Breakup \/ Lapse \/ ReleaseAbandoned \/ ReleaseOrphan \/ Release \/ SetServer \/ SyncParty
  PROVE  Gathered'
<1>1. "gather" \notin Quiet
  BY DEF Quiet
<1>2. Head(todo).op \notin {"gather", "end", "leave", "left"} /\ todo # <<>> /\ UNCHANGED <<search, match>>
  BY QuietPuts
<1>3. PICK K : K = Quiet
  OBVIOUS
<1>4. PICK tasks \in Seq(Kind(K)) : Do(tasks)
  BY <1>3, QuietPuts
<1> QED BY <1>1, <1>2, <1>3, <1>4, CalmGathered

\* runMatcher places, completes, fills and serves matches
LEMMA MatchGathered ==
  ASSUME TInv, Gathered, PlaceSearch \/ CompleteMatch \/ FillMatch \/ ReserveServer \/ PromoteMatch \/ StartAccepting \/ MarkAccepted
  PROVE  Gathered'
<1>1. PICK t : t = Head(todo)
  OBVIOUS
<1>2. /\ todo # <<>> /\ t.op \in {"place", "full", "fill", "reserve", "promote", "assign", "accepted"} /\ t \in Task /\ Sound(t)
      /\ UNCHANGED search /\ match \in [MatchIds -> MatchType]
  <2>1. todo # <<>> /\ t.op \in {"place", "full", "fill", "reserve", "promote", "assign", "accepted"} /\ UNCHANGED search
    BY <1>1 DEF PlaceSearch, CompleteMatch, FillMatch, ReserveServer, PromoteMatch, StartAccepting, MarkAccepted, Now
  <2> QED BY <1>1, <2>1, Running DEF TInv, PInv, IInv, TypeOK
<1>3. \E K \in {{"join", "place"}, {"reserve", "assign"}, {"full", "fill"}, {"assign", "reserve"}, {"assign", "promote"},
                {"accepted"}, {"connect"}} :
        \E tasks \in Seq(Kind(K)) : Do(tasks)
  BY Puts
<1>4. PICK K : "gather" \notin K /\ \E tasks \in Seq(Kind(K)) : Do(tasks)
  BY <1>3
<1>5. PICK tasks \in Seq(Kind(K)) : Do(tasks)
  BY <1>4
<1>6. ASSUME NEW m \in MatchIds, match'[m].st = "FULL"
      PROVE  \/ Enough(m)'
             \/ /\ match[m].st = "FULL" /\ match'[m].mode = match[m].mode /\ match'[m].fake = match[m].fake
                /\ match'[m].prof = match[m].prof
  <2>1. CASE PlaceSearch
    <3>1. UNCHANGED match \/ \E k \in MatchIds : \E mode, v, map : match' = [match EXCEPT ![k] = NewMatch(mode, v, map)]
      BY <2>1 DEF PlaceSearch, PlaceAccept, PlaceClassic, FreshMatches
    <3>2. ASSUME NEW k \in MatchIds, NEW mode, NEW v, NEW map, match' = [match EXCEPT ![k] = NewMatch(mode, v, map)]
          PROVE  m # k /\ match'[m] = match[m]
      BY <1>2, <1>6, <3>2 DEF NewMatch, NoMatch
    <3> QED BY <1>6, <3>1, <3>2
  <2>2. CASE CompleteMatch
    <3>1. PICK k : k = t.m
      OBVIOUS
    <3>2. /\ t.op = "full" /\ k \in MatchIds
          /\ match' = [match EXCEPT ![k].st = CASE @ = "FORMING" /\ AcceptRequired(k) -> "FULL"
                                               [] @ \in Gathering /\ ~AcceptRequired(k) -> "READY"
                                               [] OTHER -> @]
      <4>1. t.op = "full"
        BY <1>1, <2>2 DEF CompleteMatch, Now
      <4> QED BY <1>1, <1>2, <2>2, <3>1, <4>1, TaskFields DEF CompleteMatch
    <3>3. /\ \A o \in MatchIds : match'[o].mode = match[o].mode /\ match'[o].fake = match[o].fake /\ match'[o].prof = match[o].prof
          /\ \A o \in MatchIds : o # k => match'[o] = match[o]
      BY <1>2, <3>2 DEF MatchType
    <3>4. LiveRows(k)' = LiveRows(k)
      BY <1>2 DEF LiveRows
    <3>5. Enough(k)'
      BY <1>2, <3>1, <3>2, <3>3, <3>4 DEF Sound, CanComplete, Enough, AcceptRequired, Players
    <3> QED BY <1>6, <3>3, <3>5
  <2>3. CASE FillMatch
    <3>1. UNCHANGED match \/ \E k \in MatchIds, p \in ProfileIds : \E n : match' = [match EXCEPT ![k].prof = p, ![k].fake = n]
      <4>1. t.op = "fill" /\ t.pend \subseteq MatchIds
        <5>1. t.op = "fill"
          BY <1>1, <2>3 DEF FillMatch, Now
        <5> QED BY <1>2, <5>1, TaskFields
      <4>2. PICK k \in t.pend :
              \/ UNCHANGED match
              \/ \E p \in Best(Fitting(k)) : \E n : match' = [match EXCEPT ![k].prof = p, ![k].fake = n]
        BY <1>1, <2>3 DEF FillMatch
      <4>3. k \in MatchIds /\ Best(Fitting(k)) \subseteq ProfileIds
        BY <4>1 DEF Best, Fitting
      <4>4. CASE UNCHANGED match
        BY <4>4
      <4>5. CASE \E p \in Best(Fitting(k)) : \E n : match' = [match EXCEPT ![k].prof = p, ![k].fake = n]
        BY <4>3, <4>5
      <4> QED BY <4>2, <4>4, <4>5
    <3>2. ASSUME NEW k \in MatchIds, NEW p \in ProfileIds, NEW n, match' = [match EXCEPT ![k].prof = p, ![k].fake = n]
          PROVE  \/ Enough(m)'
                 \/ /\ match[m].st = "FULL" /\ match'[m].mode = match[m].mode /\ match'[m].fake = match[m].fake
                    /\ match'[m].prof = match[m].prof
      <4>1. CASE m # k
        BY <1>2, <1>6, <3>2, <4>1
      <4>2. CASE m = k
        <5>1. match'[m].prof = p
          BY <1>2, <3>2, <4>2 DEF MatchType
        <5> QED BY <5>1, NoneAssumption DEF Enough
      <4> QED BY <4>1, <4>2
    <3> QED BY <1>6, <3>1, <3>2
  <2>4. CASE ReserveServer
    <3>1. UNCHANGED match \/ \E k \in MatchIds : \E v, map : match' = [match EXCEPT ![k].st = "READY", ![k].sv = v, ![k].map = map]
      <4>1. t.op = "reserve" /\ t.pend \subseteq MatchIds
        <5>1. t.op = "reserve"
          BY <1>1, <2>4 DEF ReserveServer, Now
        <5> QED BY <1>2, <5>1, TaskFields
      <4>2. PICK k \in t.pend :
              \/ UNCHANGED match
              \/ \E v \in Candidates(k) : match' = [match EXCEPT ![k].st = "READY", ![k].sv = v, ![k].map = server[v].map]
        BY <1>1, <2>4 DEF ReserveServer
      <4>3. CASE UNCHANGED match
        BY <4>3
      <4>4. CASE \E v \in Candidates(k) : match' = [match EXCEPT ![k].st = "READY", ![k].sv = v, ![k].map = server[v].map]
        BY <4>1, <4>4
      <4> QED BY <4>2, <4>3, <4>4
    <3>2. ASSUME NEW k \in MatchIds, NEW v, NEW map, match' = [match EXCEPT ![k].st = "READY", ![k].sv = v, ![k].map = map]
          PROVE  match'[m] = match[m]
      <4>1. match'[k].st = "READY"
        BY <1>2, <3>2 DEF MatchType
      <4> QED BY <1>2, <1>6, <3>2, <4>1
    <3> QED BY <1>6, <3>1, <3>2
  <2>5. CASE PromoteMatch
    BY <1>6, <2>5 DEF PromoteMatch
  <2>6. CASE StartAccepting \/ MarkAccepted
    <3>1. UNCHANGED match \/ \E k \in MatchIds : \E st \in Holding : match' = [match EXCEPT ![k].st = st]
      <4>1. t.m \in MatchIds
        BY <1>1, <1>2, <2>6, TaskFields DEF StartAccepting, MarkAccepted, Now
      <4>2. CASE StartAccepting
        BY <1>1, <4>1, <4>2 DEF StartAccepting, Holding
      <4>3. CASE MarkAccepted
        <5>1. match' = [match EXCEPT ![t.m].st = IF @ \in {"READY", "ACCEPTING"} THEN "ACCEPTED" ELSE @]
          BY <1>1, <4>3 DEF MarkAccepted
        <5>2. CASE match[t.m].st \in {"READY", "ACCEPTING"}
          BY <4>1, <5>1, <5>2 DEF Holding
        <5>3. CASE match[t.m].st \notin {"READY", "ACCEPTING"}
          BY <1>2, <4>1, <5>1, <5>3 DEF MatchType
        <5> QED BY <5>2, <5>3
      <4> QED BY <2>6, <4>2, <4>3
    <3>2. ASSUME NEW k \in MatchIds, NEW st \in Holding, match' = [match EXCEPT ![k].st = st]
          PROVE  match'[m] = match[m]
      <4>1. match'[k].st = st
        BY <1>2, <3>2 DEF MatchType
      <4> QED BY <1>2, <1>6, <3>2, <4>1 DEF Holding
    <3> QED BY <1>6, <3>1, <3>2
  <2> QED BY <2>1, <2>2, <2>3, <2>4, <2>5, <2>6
<1> QED BY <1>1, <1>2, <1>4, <1>5, <1>6, CalmGathered

\* a statement that lets rows end or begin anew, or asks those in a match
LEMMA RowsGathered ==
  ASSUME TInv, Gathered, todo # <<>>, Head(todo).op \notin {"gather", "end", "leave", "left"},
         NEW K, NEW tasks \in Seq(Kind(K)), Do(tasks), "gather" \notin K,
         \A s \in SearchIds : search'[s].st \in Live =>
           \/ GoesOn(s)
           \/ search'[s].match = None /\ \A o \in SearchIds \ {s} : search'[o].leader # s,
         \A m \in MatchIds : match'[m].st = "FULL" => match'[m] = match[m] /\ LiveRows(m)' = LiveRows(m)
  PROVE  Gathered'
<1>1. (\A s : Leaving(s) => Leaving(s)') /\ (\A m : Losing(m) => Losing(m)')
  BY TasksStay
<1>2. todo' # <<>> => Head(todo').op # "gather"
  BY NoGather
<1>3. Companions'
  BY <1>1, CompanionsKept DEF Gathered
<1>4. FilledUp'
  BY <1>1, FilledKept DEF Gathered
<1> QED BY <1>2, <1>3, <1>4 DEF Gathered, Led

\* old answers are completed: none of them is to a match that waits for a server
LEMMA RetireGathered == ASSUME TInv, Followed, Gathered, Retire PROVE Gathered'
<1>1. PICK t : t = Head(todo)
  OBVIOUS
<1>2. /\ todo # <<>> /\ t.op = "retire" /\ t \in Task /\ Sound(t) /\ UNCHANGED match /\ search \in [SearchIds -> SearchType]
  BY <1>1, Running DEF Retire, Now, TInv, PInv, IInv, TypeOK
<1>3. PICK K : K = {"retire"}
  OBVIOUS
<1>4. PICK tasks \in Seq(Kind(K)) : Do(tasks)
  BY <1>3, Puts
<1>5. PICK s \in t.pend : Finish(s, "COMPLETED")
  BY <1>1 DEF Retire
<1>6. s \in SearchIds /\ search[s].st \in Summoned
  BY <1>2, TaskFields DEF Sound, CanRetire, Summoned
<1>7. search'[s].st \notin Live /\ \A o \in SearchIds : o # s => search'[o] = search[o]
  BY <1>2, <1>5, <1>6 DEF Finish, SearchType, Live, Summoned
<1>8. Settled(s)
  BY <1>1, <1>2, <1>6, AllSettled DEF Followed
<1>9. ASSUME NEW m \in MatchIds, match[m].st = "FULL" PROVE LiveRows(m)' = LiveRows(m)
  <2>1. search[s].match # m
    BY <1>6, <1>8, <1>9 DEF Settled, Summoned, Over
  <2> QED BY <1>7, <2>1 DEF LiveRows
<1>10. \A o \in SearchIds : search'[o].st \in Live => GoesOn(o)
  BY <1>7 DEF GoesOn
<1> QED BY <1>1, <1>2, <1>3, <1>4, <1>9, <1>10, RowsGathered

\* old rows are deleted, a member gets a row or its request id, and players are told
LEMMA AskGathered ==
  ASSUME TInv, Gathered, DeleteOld \/ AddMember \/ TagMember \/ AssignRow \/ PromoteAccepted
  PROVE  Gathered'
<1>1. PICK t : t = Head(todo)
  OBVIOUS
<1>2. /\ todo # <<>> /\ t.op \in {"purge", "add", "tag", "assign", "connect"} /\ t \in Task /\ Sound(t)
      /\ search \in [SearchIds -> SearchType]
  <2>1. todo # <<>> /\ t.op \in {"purge", "add", "tag", "assign", "connect"}
    BY <1>1 DEF DeleteOld, AddMember, TagMember, AssignRow, PromoteAccepted, Now
  <2> QED BY <1>1, <2>1, Running DEF TInv, PInv, IInv, TypeOK
<1>3. \E K \in {{}, {"leave", "add", "tag"}, {"assign"}} : \E tasks \in Seq(Kind(K)) : Do(tasks)
  <2>1. DeleteOld \/ TagMember \/ PromoteAccepted => Do(<<>>)
    BY DEF DeleteOld, TagMember, PromoteAccepted
  <2>2. <<>> \in Seq(Kind({}))
    OBVIOUS
  <2> QED BY <2>1, <2>2, Puts
<1>4. PICK K : "gather" \notin K /\ \E tasks \in Seq(Kind(K)) : Do(tasks)
  BY <1>3
<1>5. PICK tasks \in Seq(Kind(K)) : Do(tasks)
  BY <1>4
<1>6. ASSUME \A s \in SearchIds : \/ search'[s].st \notin Live /\ search[s].st \notin Live
                                  \/ search'[s].st \in Live /\ GoesOn(s)
                                  \/ /\ search'[s].match = None /\ search[s].st \notin Live
                                     /\ \A o \in SearchIds \ {s} : search'[o].leader # s,
             \A m \in MatchIds : match'[m].st = "FULL" => match'[m] = match[m]
      PROVE  Gathered'
  <2>1. \A m \in MatchIds : LiveRows(m)' = LiveRows(m)
    BY <1>6, NoneAssumption DEF LiveRows, GoesOn
  <2>2. \A s \in SearchIds : search'[s].st \in Live =>
          GoesOn(s) \/ (search'[s].match = None /\ \A o \in SearchIds \ {s} : search'[o].leader # s)
    BY <1>6
  <2> QED BY <1>1, <1>2, <1>4, <1>5, <1>6, <2>1, <2>2, RowsGathered
<1>7. CASE DeleteOld
  <2>1. ASSUME NEW s \in SearchIds PROVE (search'[s].st \notin Live /\ search[s].st \notin Live) \/ search'[s] = search[s]
    BY <1>7 DEF DeleteOld, OldRows, NoSearch, Live, Finished
  <2>2. \A m \in MatchIds : match'[m].st = "FULL" => match'[m] = match[m]
    BY <1>7 DEF DeleteOld, NoMatch
  <2> QED BY <1>6, <2>1, <2>2 DEF GoesOn
<1>8. CASE AddMember
  <2>1. UNCHANGED match
    BY <1>8 DEF AddMember
  <2>2. PICK a \in t.pend :
          UNCHANGED search \/ \E s \in FreshSearches : search' = [search EXCEPT ![s] = NewSearch(a, None, t.src, t.ask, t.l)]
    BY <1>1, <1>8 DEF AddMember
  <2>3. ASSUME NEW s \in FreshSearches, search' = [search EXCEPT ![s] = NewSearch(a, None, t.src, t.ask, t.l)]
        PROVE  Gathered'
    <3>1. s \in SearchIds /\ search[s].st \notin Live /\ \A o \in SearchIds : search[o].leader # s
      BY DEF FreshSearches, Live
    <3>2. search'[s].match = None /\ \A o \in SearchIds : o # s => search'[o] = search[o]
      BY <1>2, <2>3, <3>1 DEF NewSearch, NoSearch
    <3>3. ASSUME NEW o \in SearchIds
          PROVE  \/ search'[o].st \notin Live /\ search[o].st \notin Live
                 \/ search'[o].st \in Live /\ GoesOn(o)
                 \/ /\ search'[o].match = None /\ search[o].st \notin Live
                    /\ \A i \in SearchIds \ {o} : search'[i].leader # o
      <4>1. CASE o = s
        BY <3>1, <3>2, <4>1
      <4>2. CASE o # s
        BY <3>2, <4>2 DEF GoesOn
      <4> QED BY <4>1, <4>2
    <3> QED BY <1>6, <2>1, <3>3
  <2>4. CASE UNCHANGED search
    BY <1>6, <2>1, <2>4 DEF GoesOn
  <2> QED BY <2>2, <2>3, <2>4
<1>9. CASE TagMember
  <2>1. \A s \in SearchIds : /\ search'[s].st = search[s].st /\ search'[s].match = search[s].match
                             /\ search'[s].leader = search[s].leader
    BY <1>2, <1>9 DEF TagMember, SearchType
  <2> QED BY <1>6, <1>9, <2>1 DEF GoesOn, TagMember
<1>10. CASE AssignRow
  <2>1. t.op = "assign" /\ UNCHANGED match
    BY <1>1, <1>10 DEF AssignRow, Now
  <2>2. PICK s \in t.pend : Place(s, t.m, AssignedStatus(t.m))
    BY <1>1, <1>10 DEF AssignRow
  <2>3. s \in SearchIds /\ search[s].st \in Live /\ search[s].match = t.m
    BY <1>2, <2>1 DEF Sound, CanAssign, LiveRows
  <2>4. /\ search'[s].st \in Summoned /\ search'[s].match = t.m /\ search'[s].leader = search[s].leader
        /\ \A o \in SearchIds : o # s => search'[o] = search[o]
    BY <1>2, <2>2, <2>3 DEF Place, AssignedStatus, Summoned, SearchType
  <2>5. Summoned \subseteq Live
    BY DEF Summoned, Live
  <2> QED BY <1>6, <2>1, <2>3, <2>4, <2>5 DEF GoesOn
<1>11. CASE PromoteAccepted
  <2>1. UNCHANGED match
    BY <1>11 DEF PromoteAccepted
  <2>2. ASSUME NEW s \in SearchIds
        PROVE  \/ search'[s] = search[s]
               \/ /\ search[s].st = "WAITING_ACCEPT" /\ search'[s].st = "READY_TO_CONNECT"
                  /\ search'[s].match = search[s].match /\ search'[s].leader = search[s].leader
    BY <1>2, <1>11 DEF PromoteAccepted, SearchType
  <2> QED BY <1>6, <2>1, <2>2 DEF GoesOn, Live, Summoned
<1> QED BY <1>7, <1>8, <1>9, <1>10, <1>11

\* a player leaves: the match it left is looked at next
LEMMA LeaveGathered == ASSUME TInv, Gathered, LeaveRow PROVE Gathered'
<1>1. PICK t : t = Head(todo)
  OBVIOUS
<1>2. /\ todo # <<>> /\ t.op = "leave" /\ t \in Task /\ UNCHANGED match /\ search \in [SearchIds -> SearchType]
  BY <1>1, Running DEF LeaveRow, Now, TInv, PInv, IInv, TypeOK
<1>3. t.st \in Finished /\ t.party \in BOOLEAN /\ t.pend \subseteq SearchIds
  BY <1>2, TaskFields
<1>4. PICK s \in t.pend :
        /\ Finish(s, t.st)
        /\ Do(Leave(IF t.party /\ ~search[s].acc THEN Members(s) ELSE {}, t.st, FALSE)
              \o Left(search[s].match, search[s].acc) \o Rest(t, s))
  BY <1>1 DEF LeaveRow
<1>5. s \in SearchIds /\ search[s].match \in MatchIds \cup {None} /\ search[s].acc \in BOOLEAN
  BY <1>2, <1>3 DEF SearchType
<1>6. search'[s].st \notin Live /\ \A o \in SearchIds : o # s => search'[o] = search[o]
  BY <1>2, <1>3, <1>4, <1>5 DEF Finish, SearchType, Live, Finished
<1>7. PICK p : p = Leave(IF t.party /\ ~search[s].acc THEN Members(s) ELSE {}, t.st, FALSE)
  OBVIOUS
<1>8. PICK q : q = Left(search[s].match, search[s].acc)
  OBVIOUS
<1>9. PICK K : K = {"leave", "left"}
  OBVIOUS
<1>10. p \in Seq(Kind(K)) /\ q \in Seq(Kind(K)) /\ Rest(t, s) \in Seq(Kind(K))
  <2>1. (IF t.party /\ ~search[s].acc THEN Members(s) ELSE {}) \in SUBSET SearchIds
    BY DEF Members
  <2>2. p \in Seq(Kind(K))
    BY <1>3, <1>7, <1>9, <2>1, Pieces
  <2>3. q \in Seq(Kind(K))
    BY <1>5, <1>8, <1>9, Pieces
  <2>4. Rest(t, s) \in Seq(Kind(K))
    BY <1>2, <1>9, Pieces DEF Looping
  <2> QED BY <2>2, <2>3, <2>4
<1>11. Do(p \o q \o Rest(t, s))
  BY <1>4, <1>7, <1>8
<1>12. p \o q \o Rest(t, s) \in Seq(Kind(K))
  BY <1>10, Pieces
<1>13. Range(p \o q \o Rest(t, s)) = Range(p) \cup Range(q) \cup Range(Rest(t, s))
  <2>1. PICK r : r = Rest(t, s)
    OBVIOUS
  <2>2. p \o q \in Seq(Kind(K)) /\ r \in Seq(Kind(K))
    BY <1>10, <2>1
  <2>3. Range(p \o q) = Range(p) \cup Range(q)
    BY <1>10, RangeConcatenation
  <2>4. Range((p \o q) \o r) = Range(p \o q) \cup Range(r)
    BY <2>2, RangeConcatenation
  <2> QED BY <2>1, <2>3, <2>4
<1>14. Range(todo') = Range(p) \cup Range(q) \cup Range(Rest(t, s)) \cup Behind /\ Range(todo) = {t} \cup Behind
  <2>1. PICK tasks : tasks = p \o q \o Rest(t, s)
    OBVIOUS
  <2>2. tasks \in Seq(Kind(K)) /\ Do(tasks)
    BY <1>11, <1>12, <2>1
  <2>3. Range(todo') = Range(tasks) \cup Behind
    BY <1>2, <2>2, NextTasks
  <2> QED BY <1>1, <1>2, <1>13, <2>1, <2>3, HeadAndBehind
<1>15. \A m : Losing(m) => Losing(m)'
  BY <1>2, <1>14 DEF Losing
<1>16. ASSUME NEW o, Leaving(o), o # s PROVE Leaving(o)'
  <2>1. CASE o \in t.pend
    <3>1. Range(Rest(t, s)) = RestSet(t, s) /\ \A r \in RestSet(t, s) : r.op = t.op /\ r.pend = t.pend \ {s}
      BY <1>2, RestQueue DEF Looping, Queue
    <3>2. RestSet(t, s) # {}
      BY <1>16, <2>1 DEF RestSet
    <3> QED BY <1>2, <1>14, <1>16, <2>1, <3>1, <3>2 DEF Leaving
  <2>2. CASE o \notin t.pend
    BY <1>14, <1>16, <2>2 DEF Leaving
  <2> QED BY <2>1, <2>2
<1>17. Companions'
  <2>1. \A o \in SearchIds : search'[o].st \in Live => GoesOn(o)
    BY <1>6 DEF GoesOn
  <2>2. \A o \in SearchIds : Leaving(o) /\ search'[o].st \in Live => Leaving(o)'
    BY <1>6, <1>16
  <2> QED BY <1>1, <1>2, <2>1, <2>2, CompanionsKept DEF Gathered
<1>18. FilledUp'
  <2>1. ASSUME NEW m \in MatchIds, search[s].match # m PROVE LiveRows(m)' = LiveRows(m)
    BY <1>6, <2>1 DEF LiveRows
  <2>2. ASSUME NEW m \in MatchIds, search[s].match = m PROVE Losing(m)'
    <3>1. PICK e : e = [op |-> "left", m |-> m, acc |-> search[s].acc]
      OBVIOUS
    <3>2. m # None /\ Queue(q, IF m = None THEN {} ELSE {e})
      BY <1>5, <1>8, <2>2, <3>1, LeaveQueue, NoneAssumption
    <3>3. e \in Range(q)
      BY <3>2 DEF Queue
    <3>4. e.op = "left" /\ e.m = m
      BY <3>1
    <3> QED BY <1>14, <3>3, <3>4 DEF Losing
  <2>3. \A m \in MatchIds : match'[m] = match[m] /\ (LiveRows(m)' = LiveRows(m) \/ Losing(m)')
    BY <1>2, <2>1, <2>2
  <2> QED BY <1>1, <1>2, <1>15, <2>3, FilledKept DEF Gathered
<1>19. todo' # <<>> => Head(todo').op # "gather"
  BY <1>2, <1>9, <1>11, <1>12, NoGather
<1> QED BY <1>17, <1>18, <1>19 DEF Gathered, Led

\* a match that lost a player forms again, or is dissolved
LEMMA LeftGathered == ASSUME TInv, Gathered, MemberLeft PROVE Gathered'
<1>1. PICK m : m = Head(todo).m
  OBVIOUS
<1>2. todo # <<>> /\ Head(todo).op = "left" /\ UNCHANGED search /\ m \in MatchIds /\ match \in [MatchIds -> MatchType]
  <2>1. todo # <<>> /\ Head(todo).op = "left" /\ UNCHANGED search
    BY DEF MemberLeft, Now
  <2> QED BY <1>1, <2>1, Running, TaskFields DEF TInv, PInv, IInv, TypeOK
<1>3. PICK K : K = {"end"}
  OBVIOUS
<1>4. PICK tasks \in {<<>>, Dissolve(m)} : Do(tasks)
  BY <1>1 DEF MemberLeft
<1>5. tasks \in Seq(Kind(K))
  BY <1>2, <1>3, <1>4, Pieces
<1>6. /\ \A s : Leaving(s) => Leaving(s)' 
      /\ \A k : Losing(k) /\ k # m => Losing(k)'
  <2>1. Range(todo) = {Head(todo)} \cup Behind /\ Range(todo') = Range(tasks) \cup Behind
    BY <1>2, <1>4, <1>5, NextTasks, HeadAndBehind
  <2> QED BY <1>1, <1>2, <2>1 DEF Leaving, Losing
<1>7. Companions'
  BY <1>2, <1>6, CompanionsKept DEF Gathered, GoesOn
<1>8. \A k : LiveRows(k)' = LiveRows(k)
  BY <1>2 DEF LiveRows
<1>9. ASSUME NEW k \in MatchIds, match'[k].st = "FULL" PROVE match'[k] = match[k]
  <2>1. UNCHANGED match \/ match' = [match EXCEPT ![m].st = "FORMING", ![m].fake = 0, ![m].prof = None]
    BY <1>1 DEF MemberLeft
  <2>2. CASE match' = [match EXCEPT ![m].st = "FORMING", ![m].fake = 0, ![m].prof = None]
    <3>1. match'[m].st = "FORMING"
      BY <1>2, <2>2 DEF MatchType
    <3> QED BY <1>2, <1>9, <2>2, <3>1
  <2> QED BY <1>9, <2>1, <2>2
<1>10. ASSUME match'[m].st = "FULL" PROVE AtHead("end", m)'
  <2>1. match[m].st = "FULL"
    BY <1>2, <1>9, <1>10
  <2>2. LiveRows(m) = {}
    <3>1. CASE LiveRows(m) # {}
      <4>1. match' = [match EXCEPT ![m].st = "FORMING", ![m].fake = 0, ![m].prof = None]
        BY <1>1, <2>1, <3>1 DEF MemberLeft
      <4>2. match'[m].st = "FORMING"
        BY <1>2, <4>1 DEF MatchType
      <4> QED BY <1>10, <4>2
    <3> QED BY <3>1
  <2>3. Do(Dissolve(m))
    BY <1>1, <2>1, <2>2 DEF MemberLeft, Gathering
  <2>4. Dissolve(m) = <<DissolveTask(m)>> /\ DissolveTask(m) \in Task
    BY <1>2, MatchQueue
  <2>5. todo' # <<>> /\ Head(todo') = DissolveTask(m)
    BY <1>2, <2>3, <2>4, OneAfter
  <2> QED BY <2>5 DEF AtHead, DissolveTask
<1>11. FilledUp'
  BY <1>2, <1>6, <1>8, <1>9, <1>10, FilledKept DEF Gathered
<1>12. todo' # <<>> => Head(todo').op # "gather"
  BY <1>2, <1>3, <1>4, <1>5, NoGather
<1> QED BY <1>7, <1>11, <1>12 DEF Gathered, Led

\* an account that searches again leaves its match, and its members with it unless it accepted
LEMMA EnterGathered == ASSUME TInv, Followed, Gathered, Enter PROVE Gathered'
<1>1. PICK t : t = Head(todo)
  OBVIOUS
<1>2. /\ todo # <<>> /\ t.op = "enter" /\ t \in Task /\ Sound(t) /\ UNCHANGED match /\ search \in [SearchIds -> SearchType]
  BY <1>1, Running DEF Enter, Now, TInv, PInv, IInv, TypeOK
<1>3. PICK K : K = {"leave", "left", "sync"}
  OBVIOUS
<1>4. PICK tasks \in Seq(Kind(K)) : Do(tasks)
  BY <1>3, Puts
<1>5. /\ t.own \in SearchIds \cup {None} /\ t.m \in MatchIds \cup {None} /\ t.acc \in BOOLEAN
      /\ t.a \in Accounts /\ t.r \in Requests /\ t.src \in Sources /\ t.ask \in Choices /\ t.pend \in SUBSET Accounts
  BY <1>2, TaskFields
<1>6. ASSUME NEW s \in FreshSearches, search' = [search EXCEPT ![s] = NewSearch(t.a, t.r, t.src, t.ask, None)]
      PROVE  Gathered'
  <2>1. s \in SearchIds /\ search[s].st \notin Live /\ \A o \in SearchIds : search[o].leader # s
    BY DEF FreshSearches, Live
  <2>2. search'[s].match = None /\ \A o \in SearchIds : o # s => search'[o] = search[o]
    BY <1>2, <1>6, <2>1 DEF NewSearch, NoSearch
  <2>3. \A m \in MatchIds : LiveRows(m)' = LiveRows(m)
    BY <2>1, <2>2, NoneAssumption DEF LiveRows
  <2>4. ASSUME NEW o \in SearchIds, search'[o].st \in Live
        PROVE  GoesOn(o) \/ (search'[o].match = None /\ \A i \in SearchIds \ {o} : search'[i].leader # o)
    <3>1. CASE o = s
      BY <2>1, <2>2, <3>1
    <3>2. CASE o # s
      BY <2>2, <2>4, <3>2 DEF GoesOn
    <3> QED BY <3>1, <3>2
  <2> QED BY <1>1, <1>2, <1>3, <1>4, <2>3, <2>4, RowsGathered
<1>7. ASSUME t.own # None, search' = [search EXCEPT ![t.own] = NewSearch(t.a, t.r, t.src, t.ask, @.leader)],
             Do(Leave(IF t.acc THEN {} ELSE Members(t.own), "CANCELLED", FALSE)
                \o Left(t.m, t.acc) \o <<[op |-> "sync", l |-> t.own, src |-> t.src, ask |-> t.ask, pend |-> t.pend]>>)
      PROVE  Gathered'
  <2>1. PICK own \in SearchIds : own = t.own
    BY <1>5, <1>7
  <2>2. /\ search'[own].match = None /\ search'[own].leader = search[own].leader
        /\ \A o \in SearchIds : o # own => search'[o] = search[o]
    BY <1>2, <1>7, <2>1 DEF NewSearch, NoSearch
  <2>3. search[own].st \in Live /\ (search[own].match # None => search[own].match = t.m /\ search[own].acc = t.acc)
    BY <1>2, <1>7, <2>1 DEF Sound, CanEnter, RowOf
  <2>4. PICK p : p = Leave(IF t.acc THEN {} ELSE Members(own), "CANCELLED", FALSE)
    OBVIOUS
  <2>5. PICK q : q = Left(t.m, t.acc)
    OBVIOUS
  <2>6. PICK e : e = [op |-> "sync", l |-> own, src |-> t.src, ask |-> t.ask, pend |-> t.pend]
    OBVIOUS
  <2>7. p \in Seq(Kind(K)) /\ q \in Seq(Kind(K)) /\ <<e>> \in Seq(Kind(K))
    <3>1. (IF t.acc THEN {} ELSE Members(own)) \in SUBSET SearchIds /\ "CANCELLED" \in Finished
      BY DEF Members, Finished
    <3>2. p \in Seq(Kind(K))
      BY <1>3, <2>4, <3>1, Pieces
    <3>3. q \in Seq(Kind(K))
      BY <1>3, <1>5, <2>5, Pieces
    <3>4. e \in Kind(K)
      BY <1>3, <1>5, <2>6 DEF Kind, Task
    <3> QED BY <3>2, <3>3, <3>4
  <2>8. PICK all : all = p \o q \o <<e>>
    OBVIOUS
  <2>9. all \in Seq(Kind(K)) /\ Do(all) /\ Range(p) \subseteq Range(all) /\ Range(q) \subseteq Range(all)
    <3>1. Do(all)
      BY <1>7, <2>1, <2>4, <2>5, <2>6, <2>8
    <3>2. p \o q \in Seq(Kind(K)) /\ Range(p \o q) = Range(p) \cup Range(q)
      BY <2>7, RangeConcatenation, Pieces
    <3>3. all \in Seq(Kind(K)) /\ Range(all) = Range(p \o q) \cup Range(<<e>>)
      <4>1. PICK r : r = <<e>>
        OBVIOUS
      <4>2. PICK pq : pq = p \o q
        OBVIOUS
      <4>3. r \in Seq(Kind(K)) /\ pq \in Seq(Kind(K)) /\ all = pq \o r
        BY <2>7, <2>8, <3>2, <4>1, <4>2
      <4>4. Range(pq \o r) = Range(pq) \cup Range(r) /\ pq \o r \in Seq(Kind(K))
        BY <4>3, RangeConcatenation, Pieces
      <4> QED BY <4>1, <4>2, <4>3, <4>4
    <3> QED BY <3>1, <3>2, <3>3
  <2>10. \A r \in Range(p) \cup Range(q) : r \in Range(todo')
    BY <1>2, <2>9, TasksStay
  <2>11. \A s, m : ~Leaving(s) /\ ~Losing(m) /\ ~AtHead("end", m) /\ ~AtHead("gather", m)
    <3>1. Range(todo) = {t} \cup Behind /\ \A b \in Behind : b.op = "scan"
      BY <1>1, <1>2, HeadAndBehind, BehindKinds
    <3> QED BY <1>1, <1>2, <3>1 DEF Leaving, Losing, AtHead
  <2>12. \A o \in SearchIds : Settled(o) /\ Answered(o)
    BY <1>1, <1>2, AllSettled DEF Followed
  <2>13. ASSUME NEW s \in SearchIds, search[s].leader = own, search[s].st \in Live, search[s].match # None, s # own
         PROVE  search[own].leader = None /\ (search[s].st \in Summoned \/ Leaving(s)')
    <3>1. search[own].leader = None /\ (search[s].match = search[own].match \/ search[s].st \in Summoned)
      BY <2>3, <2>11, <2>13 DEF Gathered, Companions, Together
    <3>2. CASE search[s].match = search[own].match /\ t.acc
      <4>1. search[own].acc /\ match[search[own].match].st \in {"ACCEPTING", "ACCEPTED"} \cup Over
        BY <2>3, <2>12, <2>13, <3>2 DEF Answered
      <4>2. Settled(s)
        BY <2>12
      <4> QED BY <2>13, <3>1, <3>2, <4>1, <4>2 DEF Settled, Live, Summoned, Gathering, Over
    <3>3. CASE ~t.acc
      <4>1. PICK S : S = Members(own)
        OBVIOUS
      <4>2. s \in S /\ S \subseteq SearchIds
        BY <2>13, <4>1 DEF Members
      <4>3. PICK f : f = [op |-> "leave", pend |-> S, st |-> "CANCELLED", party |-> FALSE]
        OBVIOUS
      <4>4. p = <<f>>
        BY <2>4, <3>3, <4>1, <4>2, <4>3 DEF Leave
      <4>5. f \in Range(p)
        <5>1. 1 \in 1..Len(p) /\ p[1] = f
          BY <4>4
        <5>2. Range(p) = {p[i] : i \in 1..Len(p)}
          BY <2>7, RangeEquality
        <5> QED BY <5>1, <5>2
      <4>6. f.op = "leave" /\ f.pend = S
        BY <4>3
      <4>7. Leaving(s)'
        BY <2>10, <4>2, <4>5, <4>6 DEF Leaving
      <4> QED BY <3>1, <4>7
    <3> QED BY <3>1, <3>2, <3>3
  <2>14. Companions'
    <3> SUFFICES ASSUME NEW s \in SearchIds, NEW l \in SearchIds, search'[s].leader = l,
                        search'[s].st \in Live, search'[l].st \in Live, search'[s].match # None
                 PROVE  /\ search'[l].leader = None
                        /\ \/ search'[s].match = search'[l].match
                           \/ search'[l].match = None /\ search'[s].st \in Summoned
                           \/ Leaving(s)'
      BY DEF Companions, Together
    <3>1. s # own /\ search'[s] = search[s]
      BY <2>2
    <3>2. CASE l = own
      BY <2>2, <2>13, <3>1, <3>2
    <3>3. CASE l # own
      <4>1. search'[l] = search[l] /\ Together(s, l)
        BY <2>2, <3>1, <3>3 DEF Gathered, Companions
      <4> QED BY <2>11, <3>1, <4>1 DEF Together
    <3> QED BY <3>2, <3>3
  <2>15. FilledUp'
    <3>1. ASSUME NEW m \in MatchIds, search[own].match # m PROVE LiveRows(m)' = LiveRows(m)
      BY <2>2, <3>1, NoneAssumption DEF LiveRows
    <3>2. ASSUME NEW m \in MatchIds, search[own].match = m PROVE Losing(m)'
      <4>1. PICK f : f = [op |-> "left", m |-> m, acc |-> t.acc]
        OBVIOUS
      <4>2. m # None /\ t.m = m /\ Queue(q, IF m = None THEN {} ELSE {f})
        BY <1>5, <2>3, <2>5, <3>2, <4>1, LeaveQueue, NoneAssumption
      <4>3. f \in Range(q) /\ f.op = "left" /\ f.m = m
        BY <4>1, <4>2 DEF Queue
      <4> QED BY <2>10, <4>3 DEF Losing
    <3>3. \A m \in MatchIds : match'[m] = match[m] /\ (LiveRows(m)' = LiveRows(m) \/ Losing(m)')
      BY <1>2, <3>1, <3>2
    <3> QED BY <1>1, <1>2, <2>11, <3>3, FilledKept DEF Gathered
  <2>16. todo' # <<>> => Head(todo').op # "gather"
    BY <1>2, <1>3, <2>9, NoGather
  <2> QED BY <2>14, <2>15, <2>16 DEF Gathered, Led
<1>8. \/ \E s \in FreshSearches : search' = [search EXCEPT ![s] = NewSearch(t.a, t.r, t.src, t.ask, None)]
      \/ /\ t.own # None /\ search' = [search EXCEPT ![t.own] = NewSearch(t.a, t.r, t.src, t.ask, @.leader)]
         /\ Do(Leave(IF t.acc THEN {} ELSE Members(t.own), "CANCELLED", FALSE)
               \o Left(t.m, t.acc) \o <<[op |-> "sync", l |-> t.own, src |-> t.src, ask |-> t.ask, pend |-> t.pend]>>)
  BY <1>1 DEF Enter
<1> QED BY <1>6, <1>7, <1>8

\* a match loses its players one by one: a leader first leaves its members for a moment
LEMMA DissolveGathered == ASSUME TInv, Gathered, DissolveRow PROVE Gathered'
<1>1. PICK t : t = Head(todo)
  OBVIOUS
<1>2. todo # <<>> /\ t.op = "end" /\ t \in Task /\ Sound(t) /\ UNCHANGED match /\ search \in [SearchIds -> SearchType]
  BY <1>1, Running DEF DissolveRow, Now, TInv, PInv, IInv, TypeOK
<1>3. PICK s0 \in t.pend : Unplace(s0) /\ Do(<<[t EXCEPT !.pend = @ \ {s0}]>>)
  BY <1>1 DEF DissolveRow
<1>4. s0 \in SearchIds /\ t.st = "CANCELLED" /\ s0 \in LiveRows(t.m) /\ t.m \in MatchIds
  BY <1>2, TaskFields DEF Sound, CanEnd, Over
<1>5. /\ search'[s0].match = None /\ search'[s0].leader = search[s0].leader
      /\ search[s0].st \in Live /\ search[s0].match = t.m
      /\ \A o \in SearchIds : o # s0 => search'[o] = search[o]
  BY <1>2, <1>3, <1>4 DEF Unplace, SearchType, LiveRows
<1>6. PICK e : e = [t EXCEPT !.pend = @ \ {s0}]
  OBVIOUS
<1>7. e \in Task /\ e.op = "end" /\ e.st = "CANCELLED" /\ e.m = t.m /\ Do(<<e>>)
  BY <1>2, <1>3, <1>4, <1>6, Less
<1>8. todo' # <<>> /\ Head(todo') = e
  BY <1>2, <1>7, OneAfter
<1>9. (\A s : Leaving(s) => Leaving(s)') /\ (\A m : Losing(m) => Losing(m)')
  <2>1. PICK S : S = {e}
    OBVIOUS
  <2>2. <<e>> \in Seq(S)
    BY <2>1
  <2> QED BY <1>1, <1>2, <1>7, <2>2, TasksStay
<1>10. Companions'
  <2> SUFFICES ASSUME NEW s \in SearchIds, NEW l \in SearchIds, search'[s].leader = l,
                      search'[s].st \in Live, search'[l].st \in Live, search'[s].match # None
               PROVE  /\ search'[l].leader = None
                      /\ \/ search'[s].match = search'[l].match
                         \/ search'[l].match = None /\ search'[s].st \in Summoned
                         \/ search'[s].match = t.m /\ search'[l].match = None
                         \/ Leaving(s)'
    BY <1>7, <1>8 DEF Companions, Together, AtHead
  <2>1. s # s0 /\ search'[s] = search[s]
    BY <1>5
  <2>2. CASE l # s0
    <3>1. search'[l] = search[l] /\ Together(s, l)
      BY <1>5, <2>1, <2>2 DEF Gathered, Companions
    <3> QED BY <1>1, <1>2, <1>9, <2>1, <3>1 DEF Together, AtHead
  <2>3. CASE l = s0
    <3>1. Together(s, s0)
      BY <2>1, <2>3 DEF Gathered, Companions
    <3>2. /\ search[s0].leader = None
          /\ \/ search[s].match = t.m
             \/ Leaving(s)
      BY <1>1, <1>2, <1>4, <1>5, <2>1, <3>1, NoneAssumption DEF Together, AtHead
    <3> QED BY <1>5, <1>9, <2>1, <2>3, <3>2
  <2> QED BY <2>2, <2>3
<1>11. FilledUp'
  <2> SUFFICES ASSUME NEW m \in MatchIds, match'[m].st = "FULL", m # t.m PROVE Enough(m)' \/ Losing(m)'
    BY <1>7, <1>8 DEF FilledUp, AtHead
  <2>1. LiveRows(m)' = LiveRows(m)
    BY <1>5, NoneAssumption DEF LiveRows
  <2>2. Enough(m) \/ Losing(m)
    BY <1>1, <1>2 DEF Gathered, FilledUp, AtHead
  <2>3. Enough(m) => Enough(m)'
    BY <1>2, <2>1 DEF Enough, AcceptRequired, Players
  <2> QED BY <1>9, <2>2, <2>3
<1>12. Led'
  BY <1>7, <1>8 DEF Led
<1> QED BY <1>10, <1>11, <1>12 DEF Gathered

\* when the match ends nobody is in it any more
LEMMA EndGathered == ASSUME TInv, Gathered, End PROVE Gathered'
<1>1. PICK t : t = Head(todo)
  OBVIOUS
<1>2. PICK m : m = t.m
  OBVIOUS
<1>3. /\ todo # <<>> /\ t.op = "end" /\ t.pend = {} /\ t \in Task /\ Sound(t) /\ UNCHANGED search
      /\ match \in [MatchIds -> MatchType]
  BY <1>1, Running DEF End, Now, TInv, PInv, IInv, TypeOK
<1>4. m \in MatchIds /\ t.st \in Over /\ t.free \in {"cool", "now", "keep"}
  BY <1>2, <1>3, TaskFields
<1>5. match'[m].st # "FULL" /\ \A k \in MatchIds : k # m => match'[k] = match[k]
  <2>1. match' = [match EXCEPT ![m].st = IF @ \in Gathering \cup Holding THEN t.st ELSE @]
    BY <1>1, <1>2 DEF End
  <2> QED BY <1>3, <1>4, <2>1 DEF MatchType, Over, Gathering
<1>6. PICK K : K = {"release"}
  OBVIOUS
<1>7. PICK tasks \in Seq(Kind(K)) : Do(tasks)
  <2>1. PICK e : e = [op |-> "release", m |-> m, free |-> t.free]
    OBVIOUS
  <2>2. Do(<<>>) \/ (t.free # "keep" /\ Do(<<e>>))
    BY <1>1, <1>2, <2>1 DEF End
  <2>3. t.free # "keep" => e \in Kind(K)
    BY <1>4, <1>6, <2>1 DEF Kind, Task
  <2>4. <<>> \in Seq(Kind(K))
    OBVIOUS
  <2>5. t.free # "keep" => <<e>> \in Seq(Kind(K))
    BY <2>3
  <2> QED BY <2>2, <2>4, <2>5
<1>8. (\A s : Leaving(s) => Leaving(s)') /\ (\A k : Losing(k) => Losing(k)')
  BY <1>1, <1>3, <1>7, TasksStay
<1>9. todo' # <<>> => Head(todo').op # "gather"
  BY <1>3, <1>6, <1>7, NoGather
<1>10. Companions'
  <2> SUFFICES ASSUME NEW s \in SearchIds, NEW l \in SearchIds, search[s].leader = l,
                      search[s].st \in Live, search[l].st \in Live, search[s].match # None
               PROVE  /\ search[l].leader = None
                      /\ \/ search[s].match = search[l].match
                         \/ search[l].match = None /\ search[s].st \in Summoned
                         \/ Leaving(s)'
    BY <1>3 DEF Companions, Together
  <2>1. Together(s, l)
    BY DEF Gathered, Companions
  <2>2. t.st = "CANCELLED" => search[s].match # t.m
    BY <1>3 DEF Sound, CanEnd, LiveRows
  <2> QED BY <1>1, <1>3, <1>8, <2>1, <2>2 DEF Together, AtHead
<1>11. FilledUp'
  <2> SUFFICES ASSUME NEW k \in MatchIds, match'[k].st = "FULL" PROVE Enough(k)' \/ Losing(k)'
    BY DEF FilledUp
  <2>1. k # m /\ match'[k] = match[k] /\ LiveRows(k)' = LiveRows(k)
    BY <1>3, <1>5 DEF LiveRows
  <2>2. Enough(k) \/ Losing(k)
    BY <1>1, <1>2, <1>3, <2>1 DEF Gathered, FilledUp, AtHead
  <2>3. Enough(k) => Enough(k)'
    BY <2>1 DEF Enough, AcceptRequired, Players
  <2> QED BY <1>8, <2>2, <2>3
<1> QED BY <1>9, <1>10, <1>11 DEF Gathered, Led

\* a leader enters a match, and its members are gathered next
LEMMA JoinGathered == ASSUME TInv, Gathered, JoinMatch PROVE Gathered'
<1>1. PICK t : t = Head(todo)
  OBVIOUS
<1>2. /\ todo # <<>> /\ t.op = "join" /\ t \in Task /\ Sound(t) /\ UNCHANGED match /\ search \in [SearchIds -> SearchType]
  BY <1>1, Running DEF JoinMatch, Now, TInv, PInv, IInv, TypeOK
<1>3. PICK l0 \in SearchIds : l0 = t.s
  BY <1>2, TaskFields
<1>4. PICK m \in MatchIds : m = t.m
  BY <1>2, TaskFields
<1>5. match[m].st = "FORMING" /\ search[l0].st = "SEARCHING" /\ search[l0].match = None /\ search[l0].leader = None
  BY <1>2, <1>3, <1>4 DEF Sound, CanJoin, Waits
<1>6. PICK e : e = [op |-> "gather", m |-> m, pend |-> Members(l0)]
  OBVIOUS
<1>7. Place(l0, m, "MATCHED") /\ Do(<<e>>) /\ e \in Task /\ e.op = "gather" /\ e.m = m /\ e.pend = Members(l0)
  <2>1. Place(l0, m, "MATCHED") /\ Do(<<e>>)
    BY <1>1, <1>3, <1>4, <1>6 DEF JoinMatch
  <2>2. Members(l0) \in SUBSET SearchIds
    BY DEF Members
  <2>3. e \in Task
    BY <1>6, <2>2 DEF Task
  <2> QED BY <1>6, <2>1, <2>3
<1>8. /\ search'[l0].st = "MATCHED" /\ search'[l0].match = m /\ search'[l0].leader = None
      /\ \A o \in SearchIds : o # l0 => search'[o] = search[o]
  BY <1>2, <1>5, <1>7 DEF Place, SearchType, Live
<1>9. todo' # <<>> /\ Head(todo') = e
  BY <1>2, <1>7, OneAfter
<1>10. \A s, k : ~Leaving(s) /\ ~Losing(k) /\ ~AtHead("end", k) /\ ~AtHead("gather", k)
  <2>1. Range(todo) = {t} \cup Behind /\ \A b \in Behind : b.op \in {"scan", "place"}
    BY <1>1, <1>2, HeadAndBehind, BehindKinds
  <2> QED BY <1>1, <1>2, <2>1 DEF Leaving, Losing, AtHead
<1>11. Companions'
  <2> SUFFICES ASSUME NEW s \in SearchIds, NEW l \in SearchIds, search'[s].leader = l,
                      search'[s].st \in Live, search'[l].st \in Live, search'[s].match # None
               PROVE  /\ search'[l].leader = None
                      /\ \/ search'[s].match = search'[l].match
                         \/ search'[l].match = None /\ search'[s].st \in Summoned
                         \/ search'[l].match = m /\ s \in Members(l0) /\ search'[s].st \in Summoned
    BY <1>7, <1>9 DEF Companions, Together, AtHead
  <2>1. s # l0 /\ search'[s] = search[s]
    BY <1>8, NoneAssumption
  <2>2. search[l].st \in Live
    BY <1>5, <1>8 DEF Live
  <2>3. /\ search[l].leader = None
        /\ \/ search[s].match = search[l].match
           \/ search[l].match = None /\ search[s].st \in Summoned
    BY <1>10, <2>1, <2>2 DEF Gathered, Companions, Together
  <2>4. CASE l # l0
    BY <1>8, <2>1, <2>3, <2>4
  <2>5. CASE l = l0
    BY <1>5, <1>8, <2>1, <2>3, <2>5 DEF Members
  <2> QED BY <2>4, <2>5
<1>12. Led'
  <2> SUFFICES ASSUME NEW s \in Members(l0) PROVE search'[search'[s].leader].st \in Live
    BY <1>7, <1>9 DEF Led
  <2>1. s \in SearchIds /\ search[s].leader = l0 /\ s # l0
    BY <1>5, NoneAssumption DEF Members
  <2> QED BY <1>8, <2>1 DEF Live
<1>13. FilledUp'
  <2>1. ASSUME NEW k \in MatchIds, match'[k].st = "FULL" PROVE match'[k] = match[k] /\ LiveRows(k)' = LiveRows(k)
    <3>1. k # m /\ k # None
      BY <1>2, <1>5, <2>1, NoneAssumption
    <3> QED BY <1>2, <1>5, <1>8, <3>1 DEF LiveRows
  <2> QED BY <1>1, <1>2, <1>10, <2>1, FilledKept DEF Gathered
<1> QED BY <1>11, <1>12, <1>13 DEF Gathered

\* the members follow their leader, out of matches that do not wait for a server
LEMMA GatherGathered == ASSUME TInv, Followed, Gathered, GatherParty PROVE Gathered'
<1>1. PICK t : t = Head(todo)
  OBVIOUS
<1>2. /\ todo # <<>> /\ t.op = "gather" /\ t \in Task /\ Sound(t) /\ UNCHANGED match /\ search \in [SearchIds -> SearchType]
  BY <1>1, Running DEF GatherParty, Now, TInv, PInv, IInv, TypeOK
<1>3. PICK m \in MatchIds : m = t.m
  BY <1>2, TaskFields
<1>4. t.pend \subseteq SearchIds /\ match[m].st = "FORMING"
  BY <1>2, <1>3, TaskFields DEF Sound, CanGather
<1>5. \A s, k : ~Leaving(s) /\ ~Losing(k) /\ ~AtHead("end", k)
  <2>1. Range(todo) = {t} \cup Behind /\ \A b \in Behind : b.op \in {"scan", "place"}
    BY <1>1, <1>2, HeadAndBehind, BehindKinds
  <2> QED BY <1>1, <1>2, <2>1 DEF Leaving, Losing, AtHead
<1>6. CASE t.pend = {} /\ UNCHANGED search /\ (Do(<<>>) \/ Do(<<[op |-> "full", m |-> t.m]>>))
  <2>1. PICK K : K = {"full"}
    OBVIOUS
  <2>2. PICK tasks \in Seq(Kind(K)) : Do(tasks)
    <3>1. [op |-> "full", m |-> t.m] \in Kind(K)
      BY <1>3, <2>1 DEF Kind, Task
    <3>2. <<>> \in Seq(Kind(K)) /\ <<[op |-> "full", m |-> t.m]>> \in Seq(Kind(K))
      BY <3>1
    <3> QED BY <1>6, <3>2
  <2>3. todo' # <<>> => Head(todo').op # "gather"
    BY <1>2, <2>1, <2>2, NoGather
  <2>4. Companions'
    <3> SUFFICES ASSUME NEW s \in SearchIds, NEW l \in SearchIds, search[s].leader = l,
                        search[s].st \in Live, search[l].st \in Live, search[s].match # None
                 PROVE  /\ search[l].leader = None
                        /\ \/ search[s].match = search[l].match
                           \/ search[l].match = None /\ search[s].st \in Summoned
      BY <1>6 DEF Companions, Together
    <3>1. Together(s, l)
      BY DEF Gathered, Companions
    <3> QED BY <1>1, <1>5, <1>6, <3>1 DEF Together
  <2>5. \A k \in MatchIds : match'[k] = match[k] /\ LiveRows(k)' = LiveRows(k)
    BY <1>2, <1>6 DEF LiveRows
  <2>6. FilledUp'
    BY <1>1, <1>2, <1>5, <2>5, FilledKept DEF Gathered
  <2> QED BY <2>3, <2>4, <2>6 DEF Gathered, Led
<1>7. ASSUME NEW s0 \in t.pend, Place(s0, t.m, "MATCHED"), Do(<<[t EXCEPT !.pend = @ \ {s0}]>>) PROVE Gathered'
  <2>1. PICK e : e = [t EXCEPT !.pend = @ \ {s0}]
    OBVIOUS
  <2>2. e \in Task /\ e.op = "gather" /\ e.m = m /\ e.pend = t.pend \ {s0} /\ Do(<<e>>)
    BY <1>2, <1>3, <1>7, <2>1, Less
  <2>3. todo' # <<>> /\ Head(todo') = e
    BY <1>2, <2>2, OneAfter
  <2>4. s0 \in SearchIds /\ \A s \in t.pend : search[search[s].leader].st \in Live
    BY <1>1, <1>2, <1>4 DEF Gathered, Led
  <2>5. PICK l0 \in SearchIds : l0 = search[s0].leader /\ search[l0].match = m /\ search[l0].leader = None /\ search[l0].st \in Live
    BY <1>2, <1>3, <2>4 DEF Sound, CanGather, SearchType
  <2>6. s0 # l0
    BY <2>5, NoneAssumption
  <2>7. /\ \A o \in SearchIds : o # s0 => search'[o] = search[o]
        /\ search'[s0].leader = l0
        /\ search[s0].st \in Live => search'[s0].st = "MATCHED" /\ search'[s0].match = m
        /\ search[s0].st \notin Live => search'[s0] = search[s0]
    BY <1>2, <1>3, <1>7, <2>4, <2>5 DEF Place, SearchType
  <2>8. Companions'
    <3> SUFFICES ASSUME NEW s \in SearchIds, NEW l \in SearchIds, search'[s].leader = l,
                        search'[s].st \in Live, search'[l].st \in Live, search'[s].match # None
                 PROVE  /\ search'[l].leader = None
                        /\ \/ search'[s].match = search'[l].match
                           \/ search'[l].match = None /\ search'[s].st \in Summoned
                           \/ search'[l].match = m /\ s \in t.pend \ {s0} /\ search'[s].st \in Summoned
      BY <2>2, <2>3 DEF Companions, Together, AtHead
    <3>1. CASE s = s0
      <4>1. l = l0 /\ search'[l0] = search[l0] /\ search[s0].st \in Live
        BY <2>6, <2>7, <3>1
      <4> QED BY <2>5, <2>7, <3>1, <4>1
    <3>2. CASE s # s0
      <4>1. search'[s] = search[s] /\ search[l].st \in Live
        BY <2>7, <3>2
      <4>2. Together(s, l)
        BY <4>1 DEF Gathered, Companions
      <4>3. l # s0
        BY <2>5, <4>1, <4>2, NoneAssumption DEF Together
      <4>4. search'[l] = search[l]
        BY <2>7, <4>3
      <4> QED BY <1>1, <1>2, <1>3, <1>5, <3>2, <4>1, <4>2, <4>4 DEF Together, AtHead
    <3> QED BY <3>1, <3>2
  <2>9. Led'
    <3> SUFFICES ASSUME NEW s \in t.pend \ {s0} PROVE search'[search'[s].leader].st \in Live
      BY <2>2, <2>3 DEF Led
    <3>1. s \in SearchIds /\ search'[s] = search[s] /\ search[s].leader \in SearchIds /\ search[search[s].leader].st \in Live
      BY <1>2, <1>4, <2>4, <2>7 DEF Sound, CanGather, SearchType
    <3> QED BY <2>7, <3>1 DEF Live
  <2>10. FilledUp'
    <3>1. ASSUME NEW k \in MatchIds, match'[k].st = "FULL" PROVE match'[k] = match[k] /\ LiveRows(k)' = LiveRows(k)
      <4>1. k # m /\ k # None
        BY <1>2, <1>4, <3>1, NoneAssumption
      <4>2. CASE search[s0].st \notin Live
        <5>1. \A o \in SearchIds : search'[o] = search[o]
          BY <2>7, <4>2
        <5>2. LiveRows(k)' = LiveRows(k)
          BY <5>1 DEF LiveRows
        <5> QED BY <1>2, <5>2
      <4>3. CASE search[s0].st \in Live /\ search[s0].match = k
        <5>1. Together(s0, l0)
          BY <2>4, <2>5 DEF Gathered, Companions
        <5>2. search[s0].st \in Summoned
          BY <1>4, <1>5, <2>5, <4>1, <4>3, <5>1, NoneAssumption DEF Together
        <5>3. Settled(s0)
          BY <1>1, <1>2, <2>4, AllSettled DEF Followed
        <5> QED BY <1>2, <3>1, <4>3, <5>2, <5>3 DEF Settled, Summoned, Over
      <4>4. CASE search[s0].st \in Live /\ search[s0].match # k
        BY <1>2, <2>7, <4>1, <4>4 DEF LiveRows
      <4> QED BY <4>2, <4>3, <4>4
    <3> QED BY <1>1, <1>2, <1>5, <3>1, FilledKept DEF Gathered
  <2> QED BY <2>8, <2>9, <2>10 DEF Gathered
<1>8. \/ \E s \in t.pend : Place(s, t.m, "MATCHED") /\ Do(<<[t EXCEPT !.pend = @ \ {s}]>>)
      \/ t.pend = {} /\ UNCHANGED search /\ (Do(<<>>) \/ Do(<<[op |-> "full", m |-> t.m]>>))
  BY <1>1 DEF GatherParty
<1> QED BY <1>6, <1>7, <1>8

\* a handler that begins writes no row and no match, but for the one that accepts
LEMMA BeginGathered ==
  ASSUME TInv, Gathered, NEW tasks, Begin(tasks), UNCHANGED match,
         \A s \in SearchIds : /\ search'[s].st = search[s].st /\ search'[s].match = search[s].match
                              /\ search'[s].leader = search[s].leader,
         todo' # <<>> => Head(todo').op # "gather"
  PROVE  Gathered'
<1>1. todo = <<>> /\ \A s, k : ~Leaving(s) /\ ~Losing(k)
  <2>1. todo = <<>>
    BY DEF Begin
  <2> QED BY <2>1, ShortQueue DEF Leaving, Losing, Queue
<1>2. Companions'
  BY <1>1, CompanionsKept DEF Gathered, GoesOn
<1>3. \A m \in MatchIds : match'[m] = match[m] /\ LiveRows(m)' = LiveRows(m)
  BY DEF LiveRows
<1>4. FilledUp'
  BY <1>1, <1>3, FilledKept DEF Gathered
<1> QED BY <1>2, <1>4 DEF Gathered, Led

\* the calls of the players
LEMMA PlayerGathered == ASSUME TInv, Gathered, Player PROVE Gathered'
<1>1. PICK K : K = {"scan", "leave", "sync", "abandon", "enter", "accepted"}
  OBVIOUS
<1>2. PICK tasks \in Seq(Kind(K)) : Begin(tasks)
  BY <1>1, PlayerPuts
<1>3. todo' # <<>> => Head(todo').op # "gather"
  <2>1. todo' \in Seq(Kind(K))
    BY <1>2 DEF Begin
  <2>2. todo' # <<>> => Head(todo') \in Kind(K)
    BY <2>1
  <2> QED BY <1>1, <2>2 DEF Kind
<1>4. CASE UNCHANGED <<search, match>>
  BY <1>2, <1>3, <1>4, BeginGathered
<1>5. ASSUME NEW a \in Accounts, NEW r \in Requests, NEW src \in Sources, NEW ask \in Choices,
             NEW party \in Parties[a], Start(a, r, src, ask, party)
      PROVE  Gathered'
  BY <1>4, <1>5 DEF Start
<1>6. ASSUME NEW s \in SearchIds, Poll(s) \/ Remove(s) PROVE Gathered'
  BY <1>4, <1>6 DEF Poll, Remove
<1>7. ASSUME NEW s \in SearchIds, NEW r \in Asked(s), Cancel(s, r) PROVE Gathered'
  BY <1>4, <1>7 DEF Cancel
<1>8. ASSUME NEW s \in SearchIds, NEW r \in Asked(s), Accept(s, r) PROVE Gathered'
  <2>1. search' = [search EXCEPT ![s].acc = TRUE] /\ UNCHANGED match /\ search \in [SearchIds -> SearchType]
    BY <1>8 DEF Accept, TInv, PInv, IInv, TypeOK
  <2>2. \A o \in SearchIds : /\ search'[o].st = search[o].st /\ search'[o].match = search[o].match
                             /\ search'[o].leader = search[o].leader
    BY <2>1 DEF SearchType
  <2> QED BY <1>2, <1>3, <2>1, <2>2, BeginGathered
<1> QED BY <1>5, <1>6, <1>7, <1>8 DEF Player

\* the calls of the administrator and of the game servers begin with the end of a match and a state to
\* set, and most end with the matcher; a roster that is ready is another matter
LEMMA ServerCalls ==
  ASSUME TInv, Operator \/ GameServer
  PROVE  \/ \E v \in Servers, m \in MatchIds : ConfirmRoster(v, m)
         \/ \E tasks \in Seq(Kind({"set", "end"})) : Begin(tasks) \/ Begin(tasks \o Matcher)
<1>1. PICK K : K = {"set", "end"}
  OBVIOUS
<1>2. <<>> \in Seq(Kind(K)) /\ Matcher = <<>> \o Matcher
  <2>1. Matcher \in Seq(Kind({"scan"}))
    BY ScanFirst
  <2> QED BY <2>1
<1> DEFINE Called == \E tasks \in Seq(Kind(K)) : Begin(tasks) \/ Begin(tasks \o Matcher)
<1>3. ASSUME NEW v \in Servers, NEW st \in Wish PROVE SetFreed(v, st) \in Seq(Kind(K))
  <2>1. PICK R : Queue(SetFreed(v, st), R) /\ \A r \in R : r.op \in {"end", "set"}
    BY SetFreedQueue
  <2>2. SetFreed(v, st) \in Seq(Task) /\ \A i \in 1..Len(SetFreed(v, st)) : SetFreed(v, st)[i] \in R
    BY <2>1, RangeEquality DEF Queue
  <2> QED BY <1>1, <2>1, <2>2 DEF Kind
<1>4. ASSUME NEW v \in Servers, NEW st \in {"AVAILABLE", "BUSY"}, SetServerState(v, st) PROVE Called
  BY <1>3, <1>4 DEF SetServerState, Wish
<1>5. ASSUME NEW v \in Servers, DeleteServer(v) PROVE Called
  BY <1>3, <1>5 DEF DeleteServer, Wish
<1>6. ASSUME NEW v \in Servers, NEW setup, NEW on, NEW st,
             EditServer(v, setup, on) \/ EnableServer(v, on) \/ CreateServer(v, setup, st, on) \/ RosterForServer(v)
      PROVE  Called
  <2>1. Begin(<<>>) \/ Begin(<<>> \o Matcher)
    BY <1>2, <1>6 DEF EditServer, EnableServer, CreateServer, RosterForServer
  <2> QED BY <1>2, <2>1
<1>7. ASSUME NEW v \in Servers, NEW map, NEW st, Report(v, map, st) PROVE Called
  <2>1. PICK e : e = [op |-> "set", v |-> v, st |-> "AVAILABLE"]
    OBVIOUS
  <2>2. e \in Kind(K)
    BY <1>1, <2>1 DEF Kind, Task, Wish
  <2>3. <<e>> \in Seq(Kind(K))
    BY <2>2
  <2>4. SetFreed(v, "BUSY") \in Seq(Kind(K))
    BY <1>3 DEF Wish
  <2>5. Begin(SetFreed(v, "BUSY") \o Matcher) \/ Begin(<<e>> \o Matcher) \/ Begin(<<>> \o Matcher)
    BY <1>7, <2>1 DEF Report
  <2> QED BY <1>2, <2>3, <2>4, <2>5
<1> HIDE DEF Called
<1>8. CASE Operator
  <2>1. Called
    BY <1>4, <1>5, <1>6, <1>8 DEF Operator
  <2> QED BY <1>1, <2>1 DEF Called
<1>9. CASE GameServer
  <2>1. Called \/ \E v \in Servers, m \in MatchIds : ConfirmRoster(v, m)
    BY <1>6, <1>7, <1>9 DEF GameServer
  <2> QED BY <1>1, <2>1 DEF Called
<1> QED BY <1>8, <1>9

\* so they begin with no other kinds of tasks
LEMMA ServerCallPuts ==
  ASSUME TInv, Operator \/ GameServer
  PROVE  \/ \E v \in Servers, m \in MatchIds : ConfirmRoster(v, m)
         \/ \E tasks \in Seq(Kind({"scan", "set", "end"})) : Begin(tasks)
<1>1. PICK K : K = {"scan", "set", "end"}
  OBVIOUS
<1>2. Kind({"set", "end"}) \subseteq Kind(K)
  BY <1>1 DEF Kind
<1>3. \A p \in Seq(Kind({"set", "end"})) : p \in Seq(Kind(K)) /\ p \o Matcher \in Seq(Kind(K))
  BY <1>1, <1>2, ScanFirst, Pieces
<1> QED BY <1>1, <1>3, ServerCalls

\* the calls of the administrator and of the game servers
LEMMA ServerCallGathered == ASSUME TInv, Gathered, Operator \/ GameServer PROVE Gathered'
<1>1. UNCHANGED <<search, match>>
  <2>1. CASE Operator
    BY <2>1 DEF Operator, SetServerState, DeleteServer, EditServer, CreateServer, EnableServer
  <2>2. CASE GameServer
    BY <2>2 DEF GameServer, RosterForServer, ConfirmRoster, Report
  <2> QED BY <2>1, <2>2
<1>2. ASSUME NEW K, NEW tasks \in Seq(Kind(K)), Begin(tasks), "gather" \notin K PROVE Gathered'
  <2>1. todo' \in Seq(Kind(K))
    BY <1>2 DEF Begin
  <2>2. todo' # <<>> => Head(todo') \in Kind(K)
    BY <2>1
  <2>3. todo' # <<>> => Head(todo').op # "gather"
    BY <1>2, <2>2 DEF Kind
  <2> QED BY <1>1, <1>2, <2>3, BeginGathered
<1>3. ASSUME NEW v \in Servers, NEW m \in MatchIds, ConfirmRoster(v, m) PROVE Gathered'
  <2>1. Assign(m) \in Seq(Kind({"assign"})) /\ <<>> \in Seq(Kind({"assign"}))
    BY Pieces
  <2>2. Begin(Assign(m)) \/ Begin(<<>>)
    BY <1>3 DEF ConfirmRoster
  <2> QED BY <1>2, <2>1, <2>2
<1> QED BY <1>2, <1>3, ServerCallPuts

\* all handlers but a restart
LEMMA NextGathered == TInv /\ Followed /\ Gathered /\ [Next]_vars /\ crashes' = 0 => Gathered'
<1> SUFFICES ASSUME TInv, Followed, Gathered, [Next]_vars, crashes' = 0 PROVE Gathered' OBVIOUS
<1>1. ~Crash
  BY DEF Crash, TInv, PInv, IInv, TypeOK
<1>2. CASE Step
  BY <1>2, ScanGathered, QuietGathered, MatchGathered, RetireGathered, AskGathered, LeaveGathered, LeftGathered,
     EnterGathered, DissolveGathered, EndGathered, JoinGathered, GatherGathered DEF Step
<1>3. CASE Player
  BY <1>3, PlayerGathered
<1>4. CASE Operator \/ GameServer
  BY <1>4, ServerCallGathered
<1>5. CASE FakePlayers \/ Time
  <2>1. UNCHANGED <<search, match>> /\ (Begin(Matcher) \/ Begin(Tick) \/ Begin(<<>>))
    BY <1>5 DEF FakePlayers, SetFakeMaster, WriteProfile, Time, RunTick, CooldownOver, PollWindowOver
  <2>2. todo' # <<>> => Head(todo').op # "gather"
    BY <2>1 DEF Begin, Matcher, Tick
  <2> QED BY <2>1, <2>2, BeginGathered
<1>6. CASE UNCHANGED vars
  BY <1>6 DEF vars, Gathered, Companions, Together, Leaving, Losing, Led, FilledUp, AtHead, Enough, Players, LiveRows, AcceptRequired
<1> QED BY <1>1, <1>2, <1>3, <1>4, <1>5, <1>6 DEF Next

\* before the first restart parties are together and full matches complete
United == TInv /\ (crashes = 0 => Followed /\ Gathered)

LEMMA UnitedAlways == ASSUME ~Outage PROVE Spec => []United
<1>1. Init => (crashes = 0 => Gathered)
  <2> SUFFICES ASSUME Init PROVE Gathered
    OBVIOUS
  <2>1. todo = <<>> /\ (\A s \in SearchIds : search[s].st = "NONE") /\ \A m \in MatchIds : match[m].st = "NONE"
    BY DEF Init, NoSearch, NoMatch
  <2> QED BY <2>1 DEF Gathered, Companions, Together, Led, FilledUp, Live
<1>2. Faithful /\ Faithful' /\ (crashes = 0 => Gathered) /\ [Next]_vars => (crashes = 0 => Gathered)'
  BY CrashesCount, NextGathered DEF Faithful
<1>3. Faithful /\ (crashes = 0 => Gathered) => United
  BY DEF Faithful, United
<1> QED BY <1>1, <1>2, <1>3, FaithfulAlways, PTL DEF Spec

\* PartiesTogether: for parties of any size that any players join, leave and form anew, as long as no
\* restart cuts a handler short and no outage outlasts a reservation, between two handlers a member
\* that is in a match is in that of its leader, unless the leader accepted and searches again
\* (PartyTogether: join, syncParty, finishPartyMembers, cancelMatch).
THEOREM PartiesTogether == ASSUME ~Outage PROVE Spec => [](crashes = 0 => PartyTogether)
<1>1. United => (crashes = 0 => PartyTogether)
  <2> SUFFICES ASSUME TInv, Gathered, todo = <<>>, NEW s \in SearchIds, NEW l \in SearchIds,
                      search[s].st \in Live, search[s].match # None, search[s].leader = l, search[l].st \in Live
               PROVE  search[s].match = search[l].match \/ (search[l].match = None /\ search[s].st \in Summoned)
    BY DEF United, PartyTogether, Summoned
  <2>1. Together(s, l)
    BY DEF Gathered, Companions
  <2>2. Range(todo) = {}
    BY ShortQueue DEF Queue
  <2> QED BY <2>1, <2>2 DEF Together, AtHead, Leaving
<1> QED BY <1>1, UnitedAlways, PTL

\* AllBeforeServer: for any modes, parties and profiles, as long as no restart cuts a handler short and
\* no outage outlasts a reservation, a server is reserved for a match only when all its players are in
\* it, or the Fake Players profile that makes up for those who are missing, whoever left in between
\* (FullBeforeServer: join, applyFakeProfiles, memberLeft, reserveServer).
THEOREM AllBeforeServer == ASSUME ~Outage PROVE Spec /\ [](crashes = 0) => FullBeforeServer
<1>1. ASSUME United, crashes = 0, [Next]_vars
      PROVE  [\A m \in MatchIds : match[m].st = "FULL" /\ match'[m].st = "READY"
                => match[m].prof # None \/ Players(m) >= Required[match[m].mode]]_vars
  <2> SUFFICES ASSUME NEW m \in MatchIds, match[m].st = "FULL", match'[m].st = "READY"
               PROVE  match[m].prof # None \/ Players(m) >= Required[match[m].mode]
    OBVIOUS
  <2>1. ReserveServer
    BY <1>1, OnlyReserved DEF United
  <2>2. todo # <<>> /\ Head(todo).op = "reserve"
    BY <2>1 DEF ReserveServer, Now
  <2>3. Range(todo) = {Head(todo)} \cup Behind /\ \A b \in Behind : b.op \in {"scan", "place", "fill"}
    BY <1>1, <2>2, HeadAndBehind, BehindKinds DEF United
  <2>4. Enough(m)
    BY <1>1, <2>2, <2>3 DEF United, Gathered, FilledUp, Losing, AtHead
  <2>5. AcceptRequired(m)
    BY <1>1 DEF United, TInv, PInv, PSafe, FullIsAccept, AcceptRequired
  <2> QED BY <2>4, <2>5 DEF Enough
<1> QED BY <1>1, UnitedAlways, PTL DEF Spec, FullBeforeServer

-----------------------------------------------------------------------------
(* Who queues the placing of a party. *)

Placing == {"join", "gather", "full", "assign"}

\* most statements leave no such task at the head
LEMMA NoPlacing ==
  ASSUME TInv, todo # <<>>, NEW K, NEW tasks \in Seq(Kind(K)), Do(tasks), K \cap Placing = {}, todo' # <<>>
  PROVE  Head(todo').op \notin Placing
<1>1. Head(todo') \in Kind(K) \cup Behind
  BY NextTasks
<1>2. \A t \in Behind : t.op \notin Placing
  BY BehindKinds DEF Placing
<1> QED BY <1>1, <1>2 DEF Kind

\* such a task comes from runMatcher, or from a roster that is ready
LEMMA WhoPlaces ==
  ASSUME TInv, [Next]_vars, todo' # <<>>, Head(todo').op \in Placing
  PROVE  \/ UNCHANGED vars
         \/ PlaceSearch \/ JoinMatch \/ GatherParty \/ CompleteMatch \/ FillMatch
         \/ ReserveServer \/ PromoteMatch \/ AssignRow
         \/ \E v \in Servers, m \in MatchIds : ConfirmRoster(v, m)
<1>1. ASSUME NEW K, NEW tasks \in Seq(Kind(K)), todo # <<>>, Do(tasks), K \cap Placing = {} PROVE FALSE
  BY <1>1, NoPlacing
<1>2. ASSUME NEW K, NEW tasks \in Seq(Kind(K)), Begin(tasks), K \cap Placing = {} PROVE FALSE
  <2>1. todo' \in Seq(Kind(K))
    BY <1>2 DEF Begin
  <2>2. Head(todo') \in Kind(K)
    BY <2>1
  <2> QED BY <1>2, <2>2 DEF Kind
<1>3. ASSUME Scan PROVE FALSE
  <2>1. \A r \in Range(todo') : r.op \in Timed \cup {"scan"}
    BY <1>3, ScanPuts, WorkTasks
  <2> QED BY <1>3, <2>1, ScanPuts DEF Timed, Placing
<1>4. ASSUME Breakup \/ Lapse \/ ReleaseAbandoned \/ ReleaseOrphan \/ Release \/ SetServer \/ SyncParty PROVE FALSE
  <2>1. Quiet \cap Placing = {}
    BY DEF Quiet, Placing
  <2> QED BY <1>1, <1>4, <2>1, QuietPuts
<1>5. ASSUME Retire \/ LeaveRow \/ Enter \/ AddMember \/ StartAccepting \/ MarkAccepted PROVE FALSE
  <2>1. todo # <<>>
    BY <1>5 DEF Retire, LeaveRow, Enter, AddMember, StartAccepting, MarkAccepted, Now
  <2>2. \A K \in {{"retire"}, {"leave", "left"}, {"leave", "left", "sync"}, {"leave", "add", "tag"}, {"accepted"}, {"connect"}} :
          K \cap Placing = {}
    BY DEF Placing
  <2>3. CASE Retire \/ LeaveRow \/ Enter
    BY <1>1, <2>1, <2>2, <2>3, Puts
  <2>4. CASE AddMember \/ StartAccepting \/ MarkAccepted
    BY <1>1, <2>1, <2>2, <2>4, Puts
  <2> QED BY <1>5, <2>3, <2>4
<1>6. ASSUME DeleteOld \/ TagMember \/ PromoteAccepted PROVE FALSE
  <2>1. todo # <<>> /\ Do(<<>>) /\ <<>> \in Seq(Kind({})) /\ {} \cap Placing = {}
    BY <1>6, Pieces DEF DeleteOld, TagMember, PromoteAccepted, Now
  <2> QED BY <1>1, <2>1
<1>7. ASSUME MemberLeft \/ DissolveRow \/ End PROVE FALSE
  <2>1. {"end", "release"} \cap Placing = {}
    BY DEF Placing
  <2> QED BY <1>1, <1>7, <2>1, EndPuts
<1>8. ~Player
  BY <1>2, PlayerPuts DEF Placing
<1>9. Operator \/ GameServer => \E v \in Servers, m \in MatchIds : ConfirmRoster(v, m)
  BY <1>2, ServerCallPuts DEF Placing
<1>10. ~FakePlayers /\ ~Time
  <2>1. FakePlayers \/ Time => Begin(Matcher) \/ Begin(Tick) \/ Begin(<<>>)
    BY DEF FakePlayers, SetFakeMaster, WriteProfile, Time, RunTick, CooldownOver, PollWindowOver
  <2>2. /\ Matcher \in Seq(Kind({"scan"})) /\ Tick \in Seq(Kind({"scan"})) /\ <<>> \in Seq(Kind({"scan"}))
        /\ {"scan"} \cap Placing = {}
    BY ScanFirst, Pieces DEF Placing
  <2> QED BY <1>2, <2>1, <2>2
<1>11. ~Crash
  BY DEF Crash
<1> QED BY <1>3, <1>4, <1>5, <1>6, <1>7, <1>8, <1>9, <1>10, <1>11 DEF Next, Step

-----------------------------------------------------------------------------
(* Where the players of a classic match are sent. *)

\* the server of the match serves one of the modes this search selected, on a map selected for that mode
Serves(s, m) ==
  LET v == match[m].sv IN
  \E w \in Wants(s) : w.mode = server[v].mode /\ server[v].map \in Allowed(w.maps)
Suited(S, m) == AcceptRequired(m) \/ \A s \in S : search[s].leader = None => Serves(s, m)
\* from its choice until everybody is told, the server suits who is or will be in the match
Chosen ==
  todo # <<>> =>
    LET t == Head(todo) IN
    /\ t.op = "join" => Suited(LiveRows(t.m) \cup {t.s}, t.m)
    /\ t.op \in {"gather", "full"} => Suited(LiveRows(t.m), t.m)
    /\ t.op = "assign" => Suited(t.pend, t.m)

\* a server goes on to suit the same players, and members of their parties
LEMMA SuitedStep ==
  ASSUME NEW S, NEW m, Suited(S, m), UNCHANGED server,
         match'[m].mode = match[m].mode, match'[m].sv = match[m].sv,
         NEW T, \A s \in T : search'[s].leader = None =>
                  s \in S /\ search[s].leader = None /\ search'[s].ask = search[s].ask
  PROVE  match'[m].mode \in AcceptModes \/ \A s \in T : search'[s].leader = None => Serves(s, m)'
BY DEF Suited, AcceptRequired, Serves, Wants

\* the matcher sends a search to a server it can be sent to
LEMMA PlaceChooses ==
  ASSUME TInv, PlaceSearch, todo' # <<>>, Head(todo').op \in Placing
  PROVE  Chosen'
<1>1. PICK t : t = Head(todo)
  OBVIOUS
<1>2. /\ todo # <<>> /\ t.op = "place" /\ t \in Task /\ UNCHANGED <<search, server>> /\ match \in [MatchIds -> MatchType]
  BY <1>1, Running DEF PlaceSearch, Now, TInv, PInv, IInv, TypeOK
<1>3. PICK s \in t.pend : IF search[s].ask.mode \in AcceptModes
                          THEN PlaceAccept(s, Rest(t, s)) ELSE PlaceClassic(s, Rest(t, s))
  BY <1>1 DEF PlaceSearch
<1>4. s \in SearchIds
  BY <1>2, TaskFields
<1>5. Queue(Rest(t, s), RestSet(t, s)) /\ Rest(t, s) \in Seq(Kind({"place"}))
  BY <1>2, RestQueue, Pieces DEF Looping
<1>6. ~Do(Rest(t, s))
  <2>1. {"place"} \cap Placing = {}
    BY DEF Placing
  <2> QED BY <1>2, <1>5, <2>1, NoPlacing
<1>7. ASSUME NEW m \in MatchIds, Do(Join(m, s) \o Rest(t, s)),
             match'[m].mode \in AcceptModes \/ Suited(LiveRows(m) \cup {s}, m)'
      PROVE  Chosen'
  <2>1. PICK e : e = [op |-> "join", m |-> m, s |-> s]
    OBVIOUS
  <2>2. e \in Task
    BY <1>4, <2>1 DEF Task
  <2>3. Do(<<e>> \o Rest(t, s))
    BY <1>7, <2>1 DEF Join
  <2>4. Head(todo') = e
    BY <1>2, <1>5, <2>2, <2>3, FrontAfter
  <2>5. e.op = "join" /\ e.m = m /\ e.s = s
    BY <2>1
  <2>6. Suited(LiveRows(m) \cup {s}, m)'
    BY <1>7 DEF Suited, AcceptRequired
  <2> QED BY <2>4, <2>5, <2>6 DEF Chosen
<1>8. CASE search[s].ask.mode \in AcceptModes
  <2>1. ASSUME NEW m \in Joinable(s), Do(Join(m, s) \o Rest(t, s)), UNCHANGED match PROVE Chosen'
    BY <1>7, <1>8, <2>1 DEF Joinable
  <2>2. ASSUME NEW m \in FreshMatches, Do(Join(m, s) \o Rest(t, s)),
               match' = [match EXCEPT ![m] = NewMatch(search[s].ask.mode, None, NoMap)]
        PROVE  Chosen'
    <3>1. m \in MatchIds /\ match'[m].mode = search[s].ask.mode
      BY <1>2, <2>2 DEF FreshMatches, NewMatch, NoMatch
    <3> QED BY <1>7, <1>8, <2>2, <3>1
  <2> QED BY <1>3, <1>6, <1>8, <2>1, <2>2 DEF PlaceAccept
<1>9. CASE search[s].ask.mode \notin AcceptModes
  <2>1. ASSUME NEW v \in Pickable(s), NEW m \in FreshMatches, Do(Join(m, s) \o Rest(t, s)),
               match' = [match EXCEPT ![m] = NewMatch(server[v].mode, v, server[v].map)]
        PROVE  Chosen'
    <3>1. m \in MatchIds /\ match'[m].sv = v
      BY <1>2, <2>1 DEF FreshMatches, NewMatch, NoMatch
    <3>2. LiveRows(m)' = {}
      BY <1>2 DEF FreshMatches, LiveRows
    <3>3. Serves(s, m)'
      BY <1>2, <3>1 DEF Pickable, Serves, Wants
    <3>4. Suited(LiveRows(m) \cup {s}, m)'
      BY <3>2, <3>3 DEF Suited
    <3> QED BY <1>7, <2>1, <3>1, <3>4
  <2> QED BY <1>3, <1>6, <1>9, <2>1 DEF PlaceClassic
<1> QED BY <1>8, <1>9

\* a leader enters its match, then its members
LEMMA GatherChooses == ASSUME TInv, Chosen, JoinMatch \/ GatherParty PROVE Chosen'
<1>1. PICK t : t = Head(todo)
  OBVIOUS
<1>2. /\ todo # <<>> /\ t.op \in {"join", "gather"} /\ t \in Task /\ Sound(t) /\ UNCHANGED <<match, server>>
      /\ search \in [SearchIds -> SearchType]
  BY <1>1, Running DEF JoinMatch, GatherParty, Now, TInv, PInv, IInv, TypeOK
<1>3. PICK m \in MatchIds : m = t.m
  BY <1>2, TaskFields
<1>4. CASE JoinMatch
  <2>1. t.op = "join" /\ Place(t.s, m, "MATCHED") /\ Do(<<[op |-> "gather", m |-> m, pend |-> Members(t.s)]>>)
    BY <1>1, <1>3, <1>4 DEF JoinMatch, Now
  <2>2. PICK e : e = [op |-> "gather", m |-> m, pend |-> Members(t.s)]
    OBVIOUS
  <2>3. Members(t.s) \in SUBSET SearchIds
    BY DEF Members
  <2>4. e \in Task /\ e.op = "gather" /\ e.m = m
    BY <2>2, <2>3 DEF Task
  <2>5. todo' # <<>> /\ Head(todo') = e
    BY <1>2, <2>1, <2>2, <2>4, OneAfter
  <2>6. t.s \in SearchIds
    BY <1>2, <2>1, TaskFields
  <2>7. \A s \in SearchIds : search'[s].leader = search[s].leader /\ search'[s].ask = search[s].ask
    BY <1>2, <2>1, <2>6 DEF Place, SearchType
  <2>8. LiveRows(m)' \subseteq LiveRows(m) \cup {t.s}
    BY <1>2, <2>1, <2>6 DEF Place, SearchType, LiveRows
  <2>9. Suited(LiveRows(m) \cup {t.s}, m)
    BY <1>1, <1>2, <1>3, <2>1 DEF Chosen
  <2>10. LiveRows(m)' \subseteq SearchIds
    BY DEF LiveRows
  <2>11. match'[m].mode \in AcceptModes \/ \A s \in LiveRows(m)' : search'[s].leader = None => Serves(s, m)'
    BY <1>2, <2>7, <2>8, <2>9, <2>10, SuitedStep
  <2> QED BY <2>4, <2>5, <2>11 DEF Chosen, Suited, AcceptRequired
<1>5. ASSUME NEW s \in t.pend, Place(s, t.m, "MATCHED"), Do(<<[t EXCEPT !.pend = @ \ {s}]>>), t.op = "gather" PROVE Chosen'
  <2>1. PICK e : e = [t EXCEPT !.pend = @ \ {s}]
    OBVIOUS
  <2>2. e \in Task /\ e.op = "gather" /\ e.m = m
    BY <1>2, <1>3, <1>5, <2>1, Less
  <2>3. todo' # <<>> /\ Head(todo') = e
    BY <1>2, <1>5, <2>1, <2>2, OneAfter
  <2>4. s \in SearchIds /\ search[s].leader # None
    BY <1>2, <1>5, TaskFields DEF Sound, CanGather
  <2>5. \A o \in SearchIds : search'[o].leader = search[o].leader /\ search'[o].ask = search[o].ask
    BY <1>2, <1>5, <2>4 DEF Place, SearchType
  <2>6. LiveRows(m)' \subseteq LiveRows(m) \cup {s}
    BY <1>2, <1>3, <1>5, <2>4 DEF Place, SearchType, LiveRows
  <2>7. Suited(LiveRows(m), m) /\ LiveRows(m)' \subseteq SearchIds
    BY <1>1, <1>2, <1>3, <1>5 DEF Chosen, LiveRows
  <2>8. match'[m].mode \in AcceptModes \/ \A o \in LiveRows(m)' : search'[o].leader = None => Serves(o, m)'
    BY <1>2, <2>4, <2>5, <2>6, <2>7, SuitedStep
  <2> QED BY <2>2, <2>3, <2>8 DEF Chosen, Suited, AcceptRequired
<1>6. CASE UNCHANGED search /\ Do(<<>>)
  <2>1. {} \cap Placing = {} /\ <<>> \in Seq(Kind({}))
    BY Pieces
  <2>2. todo' # <<>> => Head(todo').op \notin Placing
    BY <1>2, <1>6, <2>1, NoPlacing
  <2> QED BY <2>2 DEF Chosen, Placing
<1>7. CASE UNCHANGED search /\ Do(<<[op |-> "full", m |-> t.m]>>) /\ t.op = "gather"
  <2>1. PICK e : e = [op |-> "full", m |-> m]
    OBVIOUS
  <2>2. e \in Task /\ e.op = "full" /\ e.m = m
    BY <2>1 DEF Task
  <2>3. todo' # <<>> /\ Head(todo') = e
    BY <1>2, <1>3, <1>7, <2>1, <2>2, OneAfter
  <2>4. Suited(LiveRows(m), m)
    BY <1>1, <1>2, <1>3, <1>7 DEF Chosen
  <2>5. Suited(LiveRows(m), m)'
    BY <1>2, <1>7, <2>4 DEF Suited, Serves, Wants, AcceptRequired, LiveRows
  <2> QED BY <2>2, <2>3, <2>5 DEF Chosen
<1>8. GatherParty => t.op = "gather" /\
        \/ \E s \in t.pend : Place(s, t.m, "MATCHED") /\ Do(<<[t EXCEPT !.pend = @ \ {s}]>>)
        \/ UNCHANGED search /\ (Do(<<>>) \/ Do(<<[op |-> "full", m |-> t.m]>>))
  BY <1>1 DEF GatherParty, Now
<1> QED BY <1>4, <1>5, <1>6, <1>7, <1>8

\* a match that is to be accepted is not the concern here
LEMMA AcceptChooses ==
  ASSUME TInv, FillMatch \/ ReserveServer \/ PromoteMatch, todo' # <<>>, Head(todo').op \in Placing
  PROVE  Chosen'
<1>1. PICK t : t = Head(todo)
  OBVIOUS
<1>2. /\ todo # <<>> /\ t.op \in {"fill", "reserve", "promote"} /\ t \in Task /\ Sound(t) /\ t.pend \subseteq MatchIds
      /\ match \in [MatchIds -> MatchType]
  BY <1>1, Running, TaskFields DEF FillMatch, ReserveServer, PromoteMatch, Now, TInv, PInv, IInv, TypeOK
<1>3. \A m \in t.pend : Queue(Rest(t, m), RestSet(t, m)) /\ Rest(t, m) \in Seq(Kind({t.op}))
  BY <1>2, RestQueue, Pieces DEF Looping
<1>4. ASSUME NEW m \in t.pend, Do(Rest(t, m)) PROVE FALSE
  <2>1. {t.op} \cap Placing = {}
    BY <1>2 DEF Placing
  <2> QED BY <1>2, <1>3, <1>4, <2>1, NoPlacing
<1>5. ASSUME NEW m \in t.pend, NEW e \in Task, e.op \in {"full", "assign"}, e.m = m, Do(<<e>> \o Rest(t, m)),
             match'[m].mode \in AcceptModes
      PROVE  Chosen'
  <2>1. Head(todo') = e
    BY <1>2, <1>3, <1>5, FrontAfter
  <2> QED BY <1>5, <2>1 DEF Chosen, Suited, AcceptRequired
<1>6. CASE FillMatch
  <2>1. t.op = "fill" /\ \A m \in t.pend : match[m].mode \in AcceptModes
    BY <1>1, <1>2, <1>6 DEF FillMatch, Now, Sound, CanFill, AcceptRequired
  <2>2. PICK m \in t.pend : \/ Do(Rest(t, m))
                            \/ /\ Do(<<[op |-> "full", m |-> m]>> \o Rest(t, m))
                               /\ \E p, n : match' = [match EXCEPT ![m].prof = p, ![m].fake = n]
    BY <1>1, <1>6 DEF FillMatch
  <2>3. PICK e : e = [op |-> "full", m |-> m]
    OBVIOUS
  <2>4. e \in Task /\ e.op = "full" /\ e.m = m
    BY <1>2, <2>3 DEF Task
  <2>5. (\E p, n : match' = [match EXCEPT ![m].prof = p, ![m].fake = n]) => match'[m].mode = match[m].mode
    BY <1>2 DEF MatchType
  <2> QED BY <1>4, <1>5, <2>1, <2>2, <2>3, <2>4, <2>5
<1>7. CASE ReserveServer
  <2>1. ASSUME NEW m \in t.pend, match[m].st = "FULL", NEW v, Do(Assign(m) \o Rest(t, m)),
               match' = [match EXCEPT ![m].st = "READY", ![m].sv = v, ![m].map = server[v].map]
        PROVE  Chosen'
    <3>1. m \in MatchIds
      BY <1>2
    <3>2. AssignTask(m) \in Task /\ Assign(m) = <<AssignTask(m)>>
      BY <3>1, MatchQueue
    <3>3. AssignTask(m).op = "assign" /\ AssignTask(m).m = m
      BY DEF AssignTask
    <3>4. match'[m].mode = match[m].mode /\ match[m].mode \in AcceptModes
      BY <1>2, <2>1, <3>1 DEF TInv, PInv, PSafe, FullIsAccept, MatchType
    <3> QED BY <1>5, <2>1, <3>2, <3>3, <3>4
  <2>2. ASSUME NEW m \in t.pend, Do(<<>> \o Rest(t, m)) PROVE FALSE
    <3>1. <<>> \o Rest(t, m) = Rest(t, m)
      BY <1>3, EmptySeq DEF Queue
    <3> QED BY <1>4, <2>2, <3>1
  <2>3. PICK m \in t.pend :
          \/ Do(Rest(t, m))
          \/ /\ match[m].st = "FULL"
             /\ \E v : /\ match' = [match EXCEPT ![m].st = "READY", ![m].sv = v, ![m].map = server[v].map]
                       /\ Do((IF v \in reads THEN <<>> ELSE Assign(m)) \o Rest(t, m))
    BY <1>1, <1>7 DEF ReserveServer
  <2> QED BY <1>4, <2>1, <2>2, <2>3
<1>8. CASE PromoteMatch
  <2>1. PICK m \in t.pend : Do(Assign(m) \o Rest(t, m)) \/ Do(Rest(t, m))
    BY <1>1, <1>8 DEF PromoteMatch
  <2>2. m \in MatchIds /\ t.op = "promote" /\ UNCHANGED match
    BY <1>1, <1>2, <1>8 DEF PromoteMatch, Now
  <2>3. AssignTask(m) \in Task /\ Assign(m) = <<AssignTask(m)>>
    BY <2>2, MatchQueue
  <2>4. AssignTask(m).op = "assign" /\ AssignTask(m).m = m
    BY DEF AssignTask
  <2>5. match'[m].mode \in AcceptModes
    BY <1>2, <2>2 DEF Sound, CanPromote, AcceptRequired
  <2> QED BY <1>4, <1>5, <2>1, <2>3, <2>4, <2>5
<1> QED BY <1>6, <1>7, <1>8

\* a complete match of a classic mode is told at once, its players one by one
LEMMA AssignChooses ==
  ASSUME TInv, Chosen, CompleteMatch \/ AssignRow, todo' # <<>>, Head(todo').op \in Placing
  PROVE  Chosen'
<1>1. PICK t : t = Head(todo)
  OBVIOUS
<1>2. /\ todo # <<>> /\ t.op \in {"full", "assign"} /\ t \in Task /\ UNCHANGED server
      /\ search \in [SearchIds -> SearchType] /\ match \in [MatchIds -> MatchType]
  BY <1>1, Running DEF CompleteMatch, AssignRow, Now, TInv, PInv, IInv, TypeOK
<1>3. PICK m \in MatchIds : m = t.m
  BY <1>2, TaskFields
<1>4. CASE CompleteMatch
  <2>1. t.op = "full" /\ UNCHANGED search /\ match'[m].mode = match[m].mode /\ match'[m].sv = match[m].sv
    BY <1>1, <1>2, <1>3, <1>4 DEF CompleteMatch, Now, MatchType
  <2>2. ~AcceptRequired(m)
    <3>1. Loop("reserve", {m}) \in Seq(Kind({"reserve"})) /\ {"reserve"} \cap Placing = {}
      BY Pieces DEF Placing
    <3>2. ~Do(Loop("reserve", {m}))
      BY <1>2, <3>1, NoPlacing
    <3> QED BY <1>1, <1>3, <1>4, <3>2 DEF CompleteMatch
  <2>3. Do(Assign(m)) /\ AssignTask(m) \in Task /\ Assign(m) = <<AssignTask(m)>>
    BY <1>1, <1>3, <1>4, <2>2, MatchQueue DEF CompleteMatch
  <2>4. Head(todo') = AssignTask(m)
    BY <1>2, <2>3, OneAfter
  <2>5. AssignTask(m).op = "assign" /\ AssignTask(m).m = m /\ AssignTask(m).pend \subseteq LiveRows(m)
    BY DEF AssignTask
  <2>6. PICK e : e = AssignTask(m)
    OBVIOUS
  <2>7. Suited(LiveRows(m), m)
    BY <1>1, <1>2, <1>3, <2>1 DEF Chosen
  <2>8. match'[m].mode \in AcceptModes \/ \A s \in e.pend : search'[s].leader = None => Serves(s, m)'
    BY <1>2, <2>1, <2>5, <2>6, <2>7, SuitedStep
  <2> QED BY <2>4, <2>5, <2>6, <2>8 DEF Chosen, Suited, AcceptRequired
<1>5. CASE AssignRow
  <2>1. PICK s \in t.pend : Place(s, m, AssignedStatus(m)) /\ Do(<<[t EXCEPT !.pend = @ \ {s}]>>)
    BY <1>1, <1>3, <1>5 DEF AssignRow
  <2>2. t.op = "assign" /\ s \in SearchIds /\ t.pend \subseteq SearchIds /\ UNCHANGED match
    BY <1>1, <1>2, <1>5, <2>1, TaskFields DEF AssignRow, Now
  <2>3. PICK e : e = [t EXCEPT !.pend = @ \ {s}]
    OBVIOUS
  <2>4. e \in Task /\ e.op = "assign" /\ e.m = m /\ e.pend = t.pend \ {s}
    BY <1>2, <1>3, <2>2, <2>3, Less
  <2>5. Head(todo') = e
    BY <1>2, <2>1, <2>3, <2>4, OneAfter
  <2>6. \A o \in SearchIds : search'[o].leader = search[o].leader /\ search'[o].ask = search[o].ask
    BY <1>2, <2>1, <2>2 DEF Place, SearchType
  <2>7. Suited(t.pend, m)
    BY <1>1, <1>2, <1>3, <2>2 DEF Chosen
  <2>8. match'[m].mode \in AcceptModes \/ \A o \in e.pend : search'[o].leader = None => Serves(o, m)'
    BY <1>2, <2>2, <2>4, <2>6, <2>7, SuitedStep
  <2> QED BY <2>4, <2>5, <2>8 DEF Chosen, Suited, AcceptRequired
<1> QED BY <1>2, <1>4, <1>5

\* a server whose roster is ready: a match of a classic mode has told everybody already
LEMMA ConfirmChooses ==
  ASSUME TInv, Followed, NEW v \in Servers, NEW m \in MatchIds, ConfirmRoster(v, m), todo' # <<>>
  PROVE  Chosen'
<1>1. todo = <<>> /\ match[m].st = "READY" /\ todo' = Assign(m) /\ UNCHANGED <<search, match>>
  BY DEF ConfirmRoster, Begin
<1>2. Assign(m) = <<AssignTask(m)>>
  BY MatchQueue
<1>3. PICK e : e = AssignTask(m)
  OBVIOUS
<1>4. Head(todo') = e
  BY <1>1, <1>2, <1>3
<1>5. e.op = "assign" /\ e.m = m /\ e.pend = {s \in LiveRows(m) : search[s].st # AssignedStatus(m)}
  BY <1>3 DEF AssignTask
<1>6. AcceptRequired(m) \/ e.pend = {}
  <2> SUFFICES ASSUME ~AcceptRequired(m) PROVE \A s \in LiveRows(m) : search[s].st = "READY_TO_CONNECT"
    BY <1>5 DEF AssignedStatus
  <2>1. \A s \in SearchIds : Settled(s)
    BY <1>1, AllSettled DEF Followed
  <2> QED BY <1>1, <2>1, Connected DEF Holding
<1> QED BY <1>1, <1>4, <1>5, <1>6 DEF Chosen, Suited, AcceptRequired

\* all handlers but a restart
LEMMA NextChooses == TInv /\ Followed /\ Chosen /\ [Next]_vars => Chosen'
<1> SUFFICES ASSUME TInv, Followed, Chosen, [Next]_vars PROVE Chosen' OBVIOUS
<1>1. CASE todo' = <<>> \/ Head(todo').op \notin Placing
  BY <1>1 DEF Chosen, Placing
<1>2. CASE todo' # <<>> /\ Head(todo').op \in Placing
  <2>1. CASE UNCHANGED vars
    BY <2>1 DEF vars, Chosen, Suited, Serves, Wants, AcceptRequired, LiveRows
  <2> QED BY <1>2, <2>1, WhoPlaces, PlaceChooses, GatherChooses, AcceptChooses, AssignChooses, ConfirmChooses
<1> QED BY <1>1, <1>2

\* only an assignment tells a player who waits to connect
LEMMA OnlyAssigns ==
  ASSUME TInv, [Next]_vars, NEW s \in SearchIds, search[s].st = "MATCHED", search'[s].st = "READY_TO_CONNECT"
  PROVE  /\ todo # <<>> /\ Head(todo).op = "assign" /\ s \in Head(todo).pend
         /\ search[s].match = Head(todo).m /\ ~AcceptRequired(search[s].match)
<1>1. search \in [SearchIds -> SearchType]
  BY DEF TInv, PInv, IInv, TypeOK
<1>2. ASSUME AssignRow
      PROVE  /\ todo # <<>> /\ Head(todo).op = "assign" /\ s \in Head(todo).pend
             /\ search[s].match = Head(todo).m /\ ~AcceptRequired(search[s].match)
  <2>1. PICK t : t = Head(todo)
    OBVIOUS
  <2>2. todo # <<>> /\ t.op = "assign" /\ t \in Task /\ Sound(t)
    BY <1>2, <2>1, Running DEF AssignRow, Now
  <2>3. PICK o \in t.pend : Place(o, t.m, AssignedStatus(t.m))
    BY <1>2, <2>1 DEF AssignRow
  <2>4. o = s
    BY <1>1, <2>3 DEF Place
  <2>5. search[s].match = t.m
    BY <2>2, <2>3, <2>4 DEF Sound, CanAssign, LiveRows
  <2>6. ~AcceptRequired(t.m)
    BY <1>1, <2>3, <2>4 DEF Place, AssignedStatus, SearchType
  <2> QED BY <2>1, <2>2, <2>3, <2>4, <2>5, <2>6
<1>3. ASSUME Step, ~AssignRow PROVE FALSE
  <2>1. ~PromoteAccepted
    BY <1>1 DEF PromoteAccepted, SearchType
  <2>2. ~(Retire \/ LeaveRow \/ DissolveRow)
    <3>1. ASSUME NEW o, NEW st \in Finished, Finish(o, st) PROVE FALSE
      BY <1>1, <3>1 DEF Finish, Finished, SearchType
    <3>2. ~Retire
      BY <3>1 DEF Retire, Finished
    <3>3. ~LeaveRow
      <4>1. LeaveRow => Head(todo).st \in Finished
        BY Running, TaskFields DEF LeaveRow, Now
      <4> QED BY <3>1, <4>1 DEF LeaveRow
    <3>4. ~DissolveRow
      BY <1>1 DEF DissolveRow, Unplace, SearchType
    <3> QED BY <3>2, <3>3, <3>4
  <2>3. ~(DeleteOld \/ TagMember)
    BY <1>1 DEF DeleteOld, NoSearch, TagMember, SearchType
  <2>4. ~(Enter \/ AddMember)
    <3>1. \A a, r, src, ask, l : NewSearch(a, r, src, ask, l).st = "SEARCHING"
      BY DEF NewSearch, NoSearch
    <3>2. ASSUME NEW o, NEW row, search' = [search EXCEPT ![o] = row], row.st = "SEARCHING" PROVE FALSE
      BY <1>1, <3>2
    <3>3. PICK t : t = Head(todo)
      OBVIOUS
    <3>4. ~Enter
      <4>1. Enter =>
              \/ \E o \in FreshSearches : search' = [search EXCEPT ![o] = NewSearch(t.a, t.r, t.src, t.ask, None)]
              \/ search' = [search EXCEPT ![t.own] = NewSearch(t.a, t.r, t.src, t.ask, search[t.own].leader)]
        BY <3>3 DEF Enter
      <4> QED BY <3>1, <3>2, <4>1
    <3>5. ~AddMember
      <4>1. AddMember =>
              \/ UNCHANGED search
              \/ \E a \in t.pend, o \in FreshSearches : search' = [search EXCEPT ![o] = NewSearch(a, None, t.src, t.ask, t.l)]
        BY <3>3 DEF AddMember
      <4> QED BY <3>1, <3>2, <4>1
    <3> QED BY <3>4, <3>5
  <2>5. ~(JoinMatch \/ GatherParty)
    <3>1. ASSUME NEW o, NEW m, Place(o, m, "MATCHED") PROVE FALSE
      BY <1>1, <3>1 DEF Place, SearchType
    <3> QED BY <3>1 DEF JoinMatch, GatherParty
  <2>6. ~(Scan \/ Breakup \/ Lapse \/ ReleaseOrphan \/ MemberLeft \/ End \/ Release \/ SetServer \/ ReleaseAbandoned)
    BY DEF Scan, Breakup, Lapse, ReleaseOrphan, MemberLeft, End, Release, SetServer, ReleaseAbandoned
  <2>7. ~(SyncParty \/ PlaceSearch \/ CompleteMatch \/ FillMatch \/ ReserveServer \/ PromoteMatch \/ StartAccepting \/ MarkAccepted)
    BY DEF SyncParty, PlaceSearch, CompleteMatch, FillMatch, ReserveServer, PromoteMatch, StartAccepting, MarkAccepted
  <2> QED BY <1>3, <2>1, <2>2, <2>3, <2>4, <2>5, <2>6, <2>7 DEF Step
<1>4. ~Player
  BY <1>1 DEF Player, Start, Poll, Remove, Cancel, Accept
<1>5. ~(Operator \/ GameServer \/ FakePlayers \/ Time \/ Crash)
  BY DEF Operator, SetServerState, DeleteServer, EditServer, CreateServer, EnableServer, GameServer, RosterForServer,
         ConfirmRoster, Report, FakePlayers, SetFakeMaster, WriteProfile, Time, RunTick, CooldownOver, PollWindowOver, Crash
<1> QED BY <1>2, <1>3, <1>4, <1>5 DEF Next, vars

\* until a restart the players of a classic match stay suited
LEMMA ChosenAlways == ASSUME ~Outage PROVE Spec => [](TInv /\ (crashes = 0 => Chosen))
<1>1. Init => Chosen
  BY DEF Init, Chosen
<1>2. Faithful /\ Faithful' /\ (crashes = 0 => Chosen) /\ [Next]_vars => (crashes = 0 => Chosen)'
  BY CrashesCount, NextChooses DEF Faithful
<1>3. Faithful => TInv
  BY DEF Faithful
<1> QED BY <1>1, <1>2, <1>3, FaithfulAlways, PTL DEF Spec

\* ClassicFits: for any classic modes, variants, maps and servers, as long as no restart cuts a handler
\* short and no outage outlasts a reservation, a player is sent to a server that one of the modes it
\* selected serves, on a map it selected for that very mode, whatever an administrator or a game server
\* changes in between (ClassicServerFits: resolveVariants, pickServer, completeMatch, confirmRoster).
THEOREM ClassicFits == ASSUME ~Outage PROVE Spec /\ [](crashes = 0) => ClassicServerFits
<1>1. ASSUME TInv, Chosen, [Next]_vars
      PROVE  [\A s \in SearchIds :
                /\ search[s].st = "MATCHED" /\ search'[s].st = "READY_TO_CONNECT"
                /\ search[s].ask.mode \notin AcceptModes /\ search[s].leader = None
                => LET v == match[search[s].match].sv IN
                   \E w \in Wants(s) : w.mode = server[v].mode /\ server[v].map \in Allowed(w.maps)]_vars
  <2> SUFFICES ASSUME NEW s \in SearchIds, search[s].st = "MATCHED", search'[s].st = "READY_TO_CONNECT",
                      search[s].leader = None
               PROVE  Serves(s, search[s].match)
    BY DEF Serves
  <2>1. /\ todo # <<>> /\ Head(todo).op = "assign" /\ s \in Head(todo).pend
        /\ search[s].match = Head(todo).m /\ ~AcceptRequired(search[s].match)
    BY <1>1, OnlyAssigns
  <2> QED BY <1>1, <2>1 DEF Chosen, Suited
<1> QED BY <1>1, ChosenAlways, PTL DEF Spec, ClassicServerFits

-----------------------------------------------------------------------------
(* No match takes too many players. *)

\* a search that is placed for itself, with its party, fits into a match of its mode
PartiesFit == \A s \in Unplaced : search[s].ask.mode \in AcceptModes => PartySize(s) <= Required[search[s].ask.mode]
\* and there is room for those who are on their way into a match
Roomy ==
  /\ NoOverfill
  /\ todo # <<>> =>
       LET t == Head(todo) IN
       /\ t.op = "join" /\ AcceptRequired(t.m) => Players(t.m) + PartySize(t.s) <= Required[match[t.m].mode]
       /\ t.op = "gather" /\ AcceptRequired(t.m)
            => Players(t.m) + Cardinality(t.pend \ LiveRows(t.m)) <= Required[match[t.m].mode]

\* a row that is written anew is in no match
LEMMA NewRowFree == \A a, r, src, ask, l : NewSearch(a, r, src, ask, l).match = None
BY DEF NewSearch, NoSearch

\* only a leader who joins a match, and its members after it, come into one
LEMMA OnlyJoins ==
  ASSUME TInv, [Next]_vars, ~JoinMatch, ~GatherParty, NEW m \in MatchIds
  PROVE  LiveRows(m)' \subseteq LiveRows(m)
<1>1. search \in [SearchIds -> SearchType] /\ m # None
  BY NoneAssumption DEF TInv, PInv, IInv, TypeOK
<1>2. CASE \A s \in SearchIds : search'[s].st \in Live /\ search'[s].match = m =>
             search[s].st \in Live /\ search[s].match = m
  BY <1>2 DEF LiveRows
<1>3. CASE UNCHANGED search
  BY <1>2, <1>3
<1>4. CASE Step
  <2>1. CASE PromoteAccepted
    BY <1>1, <1>2, <2>1 DEF PromoteAccepted, SearchType, Live
  <2>2. CASE Retire \/ LeaveRow
    <3>1. ASSUME NEW o, NEW st \in Finished, Finish(o, st) PROVE LiveRows(m)' \subseteq LiveRows(m)
      BY <1>1, <1>2, <3>1 DEF Finish, Finished, SearchType, Live
    <3>2. LeaveRow => Head(todo).st \in Finished
      BY Running, TaskFields DEF LeaveRow, Now
    <3> QED BY <2>2, <3>1, <3>2 DEF Retire, LeaveRow, Finished
  <2>3. CASE DissolveRow
    BY <1>1, <1>2, <2>3 DEF DissolveRow, Unplace, SearchType
  <2>4. CASE DeleteOld
    BY <1>1, <1>2, <2>4 DEF DeleteOld, NoSearch
  <2>5. CASE TagMember
    BY <1>1, <1>2, <2>5 DEF TagMember, SearchType
  <2>6. CASE Enter \/ AddMember
    <3>1. ASSUME NEW o, NEW row, search' = [search EXCEPT ![o] = row], row.match = None PROVE LiveRows(m)' \subseteq LiveRows(m)
      BY <1>1, <1>2, <3>1
    <3>2. PICK t : t = Head(todo)
      OBVIOUS
    <3>3. Enter =>
            \/ \E o \in FreshSearches : search' = [search EXCEPT ![o] = NewSearch(t.a, t.r, t.src, t.ask, None)]
            \/ search' = [search EXCEPT ![t.own] = NewSearch(t.a, t.r, t.src, t.ask, search[t.own].leader)]
      BY <3>2 DEF Enter
    <3>4. AddMember =>
            \/ UNCHANGED search
            \/ \E a \in t.pend, o \in FreshSearches : search' = [search EXCEPT ![o] = NewSearch(a, None, t.src, t.ask, t.l)]
      BY <3>2 DEF AddMember
    <3> QED BY <1>3, <2>6, <3>1, <3>3, <3>4, NewRowFree
  <2>7. CASE AssignRow
    <3>1. PICK t : t = Head(todo) /\ t.op = "assign" /\ t \in Task /\ Sound(t)
      BY <2>7, Running DEF AssignRow, Now
    <3>2. PICK o \in t.pend : Place(o, t.m, AssignedStatus(t.m))
      BY <2>7, <3>1 DEF AssignRow
    <3>3. o \in LiveRows(t.m)
      BY <3>1, <3>2 DEF Sound, CanAssign
    <3> QED BY <1>1, <1>2, <3>2, <3>3 DEF Place, LiveRows, SearchType
  <2>8. CASE Scan \/ Breakup \/ Lapse \/ ReleaseOrphan \/ MemberLeft \/ End \/ Release \/ SetServer \/ ReleaseAbandoned
    BY <1>3, <2>8 DEF Scan, Breakup, Lapse, ReleaseOrphan, MemberLeft, End, Release, SetServer, ReleaseAbandoned
  <2>9. CASE SyncParty \/ PlaceSearch \/ CompleteMatch \/ FillMatch \/ ReserveServer \/ PromoteMatch \/ StartAccepting \/ MarkAccepted
    BY <1>3, <2>9 DEF SyncParty, PlaceSearch, CompleteMatch, FillMatch, ReserveServer, PromoteMatch, StartAccepting, MarkAccepted
  <2> QED BY <1>4, <2>1, <2>2, <2>3, <2>4, <2>5, <2>6, <2>7, <2>8, <2>9 DEF Step
<1>5. CASE Player
  <2>1. ASSUME NEW s \in SearchIds, NEW r, Accept(s, r) PROVE LiveRows(m)' \subseteq LiveRows(m)
    BY <1>1, <1>2, <2>1 DEF Accept, SearchType
  <2>2. UNCHANGED search \/ \E s \in SearchIds : \E r \in Asked(s) : Accept(s, r)
    BY <1>5 DEF Player, Start, Poll, Remove, Cancel
  <2> QED BY <1>3, <2>1, <2>2
<1>6. CASE Operator \/ GameServer \/ FakePlayers \/ Time \/ Crash \/ UNCHANGED vars
  BY <1>3, <1>6 DEF Operator, SetServerState, DeleteServer, EditServer, CreateServer, EnableServer, GameServer,
     RosterForServer, ConfirmRoster, Report, FakePlayers, SetFakeMaster, WriteProfile, Time, RunTick, CooldownOver,
     PollWindowOver, Crash, vars
<1> QED BY <1>4, <1>5, <1>6 DEF Next

\* a match gathers from the day it is created, and only a profile adds virtual players
LEMMA OnlyFills ==
  ASSUME TInv, [Next]_vars, ~PlaceSearch, ~FillMatch, NEW m \in MatchIds, match'[m].st \in Gathering
  PROVE  match[m].st \in Gathering /\ match'[m].mode = match[m].mode /\ match'[m].fake <= match[m].fake
<1>1. match \in [MatchIds -> MatchType] /\ match[m].fake \in Nat
  BY DEF TInv, PInv, IInv, TypeOK, MatchType
<1>2. CASE UNCHANGED match
  BY <1>1, <1>2
<1>3. ASSUME NEW k \in MatchIds, \A o \in MatchIds : o # k => match'[o] = match[o],
             /\ match'[k].st \in Gathering => match[k].st \in Gathering
             /\ match'[k].mode = match[k].mode /\ match'[k].fake = match[k].fake
      PROVE  match[m].st \in Gathering /\ match'[m].mode = match[m].mode /\ match'[m].fake <= match[m].fake
  BY <1>1, <1>3
<1>4. CASE Step
  <2>1. CASE DeleteOld
    BY <1>1, <2>1 DEF DeleteOld, NoMatch, Gathering
  <2>2. CASE MemberLeft
    BY <1>1, <2>2 DEF MemberLeft, MatchType, Gathering
  <2>3. CASE End \/ CompleteMatch \/ StartAccepting \/ MarkAccepted
    <3>1. PICK t : t = Head(todo) /\ t \in Task /\ t.op \in {"end", "full", "assign", "accepted"}
      BY <2>3, Running DEF End, CompleteMatch, StartAccepting, MarkAccepted, Now
    <3>2. PICK k \in MatchIds : k = t.m
      BY <3>1, TaskFields
    <3>3. CASE End
      <4>1. match' = [match EXCEPT ![k].st = IF @ \in Gathering \cup Holding THEN t.st ELSE @] /\ t.op = "end"
        BY <3>1, <3>2, <3>3 DEF End, Now
      <4>2. t.st \notin Gathering
        BY <3>1, <4>1, TaskFields DEF Over, Gathering
      <4> QED BY <1>1, <1>3, <4>1, <4>2 DEF MatchType
    <3>4. CASE CompleteMatch
      <4>1. match' = [match EXCEPT ![k].st = CASE @ = "FORMING" /\ AcceptRequired(k) -> "FULL"
                                               [] @ \in Gathering /\ ~AcceptRequired(k) -> "READY"
                                               [] OTHER -> @]
        BY <3>1, <3>2, <3>4 DEF CompleteMatch
      <4> QED BY <1>1, <1>3, <4>1 DEF MatchType, Gathering
    <3>5. CASE StartAccepting
      BY <1>1, <1>3, <3>1, <3>2, <3>5 DEF StartAccepting, MatchType, Gathering
    <3>6. CASE MarkAccepted
      BY <1>1, <1>3, <3>1, <3>2, <3>6 DEF MarkAccepted, MatchType, Gathering
    <3> QED BY <2>3, <3>3, <3>4, <3>5, <3>6
  <2>4. CASE ReserveServer
    <3>1. Head(todo).pend \subseteq MatchIds
      BY <2>4, Running, TaskFields DEF ReserveServer, Now
    <3>2. ASSUME NEW k \in MatchIds, NEW v, match' = [match EXCEPT ![k].st = "READY", ![k].sv = v, ![k].map = server[v].map]
          PROVE  match[m].st \in Gathering /\ match'[m].mode = match[m].mode /\ match'[m].fake <= match[m].fake
      BY <1>1, <1>3, <3>2 DEF MatchType, Gathering
    <3> QED BY <1>2, <2>4, <3>1, <3>2 DEF ReserveServer
  <2>5. CASE UNCHANGED match
    BY <1>2, <2>5
  <2>6. \/ DeleteOld \/ MemberLeft \/ End \/ CompleteMatch \/ StartAccepting \/ MarkAccepted \/ ReserveServer
        \/ UNCHANGED match
    BY <1>4 DEF Step, Scan, Breakup, Retire, Lapse, ReleaseOrphan, LeaveRow, DissolveRow, Release, SetServer,
                ReleaseAbandoned, Enter, SyncParty, AddMember, TagMember, JoinMatch, GatherParty, PromoteMatch,
                AssignRow, PromoteAccepted
  <2> QED BY <2>1, <2>2, <2>3, <2>4, <2>5, <2>6
<1>5. CASE Player
  BY <1>2, <1>5 DEF Player, Start, Poll, Remove, Cancel, Accept
<1>6. CASE Operator \/ GameServer \/ FakePlayers \/ Time \/ Crash \/ UNCHANGED vars
  BY <1>2, <1>6 DEF Operator, SetServerState, DeleteServer, EditServer, CreateServer, EnableServer, GameServer,
     RosterForServer, ConfirmRoster, Report, FakePlayers, SetFakeMaster, WriteProfile, Time, RunTick, CooldownOver,
     PollWindowOver, Crash, vars
<1> QED BY <1>4, <1>5, <1>6 DEF Next

\* a match that loses players keeps its room
LEMMA RoomKept ==
  ASSUME TInv, TInv', NoOverfill, NEW m \in MatchIds, match[m].st \in Gathering, match'[m].mode = match[m].mode,
         match'[m].fake <= match[m].fake, LiveRows(m)' \subseteq LiveRows(m), AcceptRequired(m)'
  PROVE  Players(m)' <= Required[match'[m].mode]
<1>1. Players(m) <= Required[match[m].mode]
  BY DEF NoOverfill, AcceptRequired
<1>2. IsFiniteSet(LiveRows(m)) /\ Cardinality(LiveRows(m)) \in Nat /\ Required[match[m].mode] \in Nat
  BY PlayersCount DEF AcceptRequired
<1>3. Cardinality(LiveRows(m)') <= Cardinality(LiveRows(m)) /\ Cardinality(LiveRows(m)') \in Nat
  <2>1. IsFiniteSet(LiveRows(m)') /\ Cardinality(LiveRows(m)') <= Cardinality(LiveRows(m))
    BY <1>2, FS_Subset
  <2> QED BY <2>1, FS_CardinalityType
<1>4. match[m].fake \in Nat /\ match'[m].fake \in Nat
  BY DEF TInv, PInv, IInv, TypeOK, MatchType
<1> QED BY <1>1, <1>2, <1>3, <1>4 DEF Players

\* the members of a party can be counted
LEMMA PartyCount ==
  ASSUME NEW s
  PROVE  IsFiniteSet(Members(s)) /\ Cardinality(Members(s)) \in Nat /\ PartySize(s) \in Nat
<1>1. Members(s) \subseteq SearchIds
  BY DEF Members
<1> QED BY <1>1, FiniteAssumption, FS_Subset, FS_CardinalityType DEF PartySize

\* a leader is placed, with its party, where there is room for all of them
LEMMA PlaceRoom == ASSUME TInv, TInv', PartiesFit, Roomy, PlaceSearch PROVE Roomy'
<1>1. PICK t : t = Head(todo)
  OBVIOUS
<1>2. /\ todo # <<>> /\ t.op = "place" /\ t \in Task /\ Sound(t) /\ UNCHANGED <<search, server>>
      /\ match \in [MatchIds -> MatchType] /\ search \in [SearchIds -> SearchType]
  BY <1>1, Running DEF PlaceSearch, Now, TInv, PInv, IInv, TypeOK
<1>3. PICK s \in t.pend : IF search[s].ask.mode \in AcceptModes
                          THEN PlaceAccept(s, Rest(t, s)) ELSE PlaceClassic(s, Rest(t, s))
  BY <1>1 DEF PlaceSearch
<1>4. s \in SearchIds /\ s \in Unplaced
  BY <1>2, TaskFields DEF Sound, CanPlace, Waits, Unplaced
<1>5. Queue(Rest(t, s), RestSet(t, s)) /\ Rest(t, s) \in Seq(Kind({"place"}))
  BY <1>2, RestQueue, Pieces DEF Looping
<1>6. (\A k : LiveRows(k)' = LiveRows(k)) /\ PartySize(s)' = PartySize(s)
  BY <1>2 DEF LiveRows, PartySize, Members
<1>7. UNCHANGED match => NoOverfill'
  BY <1>6 DEF Roomy, NoOverfill, AcceptRequired, Players
<1>8. ASSUME NEW m \in MatchIds, Do(Join(m, s) \o Rest(t, s)), NoOverfill',
             AcceptRequired(m)' => Players(m)' + PartySize(s) <= Required[match'[m].mode]
      PROVE  Roomy'
  <2>1. PICK e : e = [op |-> "join", m |-> m, s |-> s]
    OBVIOUS
  <2>2. e \in Task /\ e.op = "join" /\ e.m = m /\ e.s = s
    BY <1>4, <2>1 DEF Task
  <2>3. Do(<<e>> \o Rest(t, s))
    BY <1>8, <2>1 DEF Join
  <2>4. Head(todo') = e
    BY <1>2, <1>5, <2>2, <2>3, FrontAfter
  <2> QED BY <1>6, <1>8, <2>2, <2>4 DEF Roomy
<1>9. ASSUME Do(Rest(t, s)), UNCHANGED match PROVE Roomy'
  <2>1. {"place"} \cap Placing = {}
    BY DEF Placing
  <2>2. todo' # <<>> => Head(todo').op \notin Placing
    BY <1>2, <1>5, <1>9, <2>1, NoPlacing
  <2> QED BY <1>7, <1>9, <2>2 DEF Roomy, Placing
<1>10. ASSUME NEW m \in FreshMatches, NEW mode \in Modes, NEW v, NEW map, match' = [match EXCEPT ![m] = NewMatch(mode, v, map)]
       PROVE  m \in MatchIds /\ match'[m].mode = mode /\ Players(m)' = 0 /\ NoOverfill'
  <2>1. m \in MatchIds /\ match'[m].mode = mode /\ match'[m].fake = 0 /\ \A k \in MatchIds : k # m => match'[k] = match[k]
    BY <1>2, <1>10 DEF FreshMatches, NewMatch, NoMatch
  <2>2. LiveRows(m)' = {}
    BY <1>2, <1>10 DEF FreshMatches, LiveRows
  <2>3. Players(m)' = 0
    BY <2>1, <2>2, FS_EmptySet DEF Players
  <2>4. ASSUME NEW k \in MatchIds, match'[k].st \in Gathering, AcceptRequired(k)' PROVE Players(k)' <= Required[match'[k].mode]
    <3>1. CASE k = m
      BY <2>1, <2>3, <2>4, <3>1, ModesAssumption
    <3>2. CASE k # m
      BY <1>6, <2>1, <2>4, <3>2 DEF Roomy, NoOverfill, AcceptRequired, Players
    <3> QED BY <3>1, <3>2
  <2> QED BY <2>1, <2>3, <2>4 DEF NoOverfill
<1>11. CASE search[s].ask.mode \in AcceptModes
  <2>1. ASSUME NEW m \in Joinable(s), Do(Join(m, s) \o Rest(t, s)), UNCHANGED match PROVE Roomy'
    <3>1. m \in MatchIds /\ Players(m) + PartySize(s) <= Required[match[m].mode]
      BY DEF Joinable
    <3>2. Players(m)' = Players(m)
      BY <1>6, <2>1 DEF Players
    <3> QED BY <1>7, <1>8, <2>1, <3>1, <3>2
  <2>2. ASSUME NEW m \in FreshMatches, Do(Join(m, s) \o Rest(t, s)),
               match' = [match EXCEPT ![m] = NewMatch(search[s].ask.mode, None, NoMap)]
        PROVE  Roomy'
    <3>1. search[s].ask.mode \in Modes
      BY <1>11, ModesAssumption
    <3>2. m \in MatchIds /\ match'[m].mode = search[s].ask.mode /\ Players(m)' = 0 /\ NoOverfill'
      BY <1>10, <2>2, <3>1
    <3>3. PartySize(s) <= Required[search[s].ask.mode] /\ PartySize(s) \in Nat
      BY <1>4, <1>11, PartyCount DEF PartiesFit
    <3> QED BY <1>8, <2>2, <3>2, <3>3
  <2> QED BY <1>3, <1>9, <1>11, <2>1, <2>2 DEF PlaceAccept
<1>12. CASE search[s].ask.mode \notin AcceptModes
  <2>1. ASSUME NEW v \in Pickable(s), NEW m \in FreshMatches, Do(Join(m, s) \o Rest(t, s)),
               match' = [match EXCEPT ![m] = NewMatch(server[v].mode, v, server[v].map)]
        PROVE  Roomy'
    <3>1. search[s].ask \in Choices
      BY <1>2, <1>4 DEF SearchType
    <3>2. \A w \in Wants(s) : w.mode \in Modes \ AcceptModes
      BY <1>12, <3>1, ChoicesAssumption DEF Wants
    <3>3. server[v].mode \in Modes \ AcceptModes
      BY <3>2 DEF Pickable, Wants
    <3>4. m \in MatchIds /\ match'[m].mode = server[v].mode /\ NoOverfill'
      BY <1>10, <2>1, <3>3
    <3> QED BY <1>8, <2>1, <3>3, <3>4 DEF AcceptRequired
  <2> QED BY <1>3, <1>9, <1>12, <2>1 DEF PlaceClassic
<1> QED BY <1>11, <1>12

\* the leader enters: what is left is room for its members
LEMMA JoinRoom == ASSUME TInv, TInv', Roomy, JoinMatch PROVE Roomy'
<1>1. PICK t : t = Head(todo)
  OBVIOUS
<1>2. /\ todo # <<>> /\ t.op = "join" /\ t \in Task /\ Sound(t) /\ UNCHANGED match /\ search \in [SearchIds -> SearchType]
  BY <1>1, Running DEF JoinMatch, Now, TInv, PInv, IInv, TypeOK
<1>3. PICK m \in MatchIds, s \in SearchIds : m = t.m /\ s = t.s
  BY <1>2, TaskFields
<1>4. PICK e : e = [op |-> "gather", m |-> m, pend |-> Members(s)]
  OBVIOUS
<1>5. Place(s, m, "MATCHED") /\ Do(<<e>>) /\ e \in Task /\ e.op = "gather" /\ e.m = m /\ e.pend = Members(s)
  <2>1. Place(s, m, "MATCHED") /\ Do(<<e>>)
    BY <1>1, <1>3, <1>4 DEF JoinMatch
  <2>2. Members(s) \in SUBSET SearchIds
    BY DEF Members
  <2> QED BY <1>4, <2>1, <2>2 DEF Task
<1>6. todo' # <<>> /\ Head(todo') = e
  BY <1>2, <1>5, OneAfter
<1>7. search[s].st = "SEARCHING" /\ search[s].match = None /\ match[m].st = "FORMING"
  BY <1>2, <1>3 DEF Sound, CanJoin, Waits
<1>8. LiveRows(m)' = LiveRows(m) \cup {s} /\ s \notin LiveRows(m)
  BY <1>2, <1>5, <1>7, NoneAssumption DEF Place, SearchType, LiveRows, Live
<1>9. \A k \in MatchIds : k # m => LiveRows(k)' = LiveRows(k)
  BY <1>2, <1>5, <1>7, NoneAssumption DEF Place, SearchType, LiveRows
<1>10. /\ IsFiniteSet(LiveRows(m)) /\ Cardinality(LiveRows(m)) \in Nat
       /\ Cardinality(LiveRows(m)') = Cardinality(LiveRows(m)) + 1
  BY <1>8, PlayersCount, FS_AddElement
<1>11. IsFiniteSet(Members(s)) /\ Cardinality(Members(s)) \in Nat
  BY PartyCount
<1>12. Cardinality(e.pend \ LiveRows(m)') <= Cardinality(Members(s)) /\ Cardinality(e.pend \ LiveRows(m)') \in Nat
  <2>1. e.pend \ LiveRows(m)' \subseteq Members(s)
    BY <1>5
  <2>2. IsFiniteSet(e.pend \ LiveRows(m)') /\ Cardinality(e.pend \ LiveRows(m)') <= Cardinality(Members(s))
    BY <1>11, <2>1, FS_Subset
  <2> QED BY <2>2, FS_CardinalityType
<1>13. match[m].fake \in Nat /\ (AcceptRequired(m) => Required[match[m].mode] \in Nat)
  BY PlayersCount DEF TInv, PInv, IInv, TypeOK, MatchType
<1>14. AcceptRequired(m) => Players(m)' + Cardinality(e.pend \ LiveRows(m)') <= Required[match[m].mode]
  <2>1. AcceptRequired(m) => Players(m) + PartySize(s) <= Required[match[m].mode]
    BY <1>1, <1>2, <1>3 DEF Roomy
  <2>2. PICK n \in Nat, p \in Nat, q \in Nat :
          /\ n = Cardinality(LiveRows(m)) /\ p = Cardinality(Members(s)) /\ q = Cardinality(e.pend \ LiveRows(m)')
    BY <1>10, <1>11, <1>12
  <2>3. /\ Players(m) = n + match[m].fake /\ PartySize(s) = 1 + p /\ q <= p
        /\ Players(m)' = n + 1 + match[m].fake
    BY <1>2, <1>10, <1>12, <2>2 DEF Players, PartySize
  <2> QED BY <1>13, <2>1, <2>2, <2>3
<1>15. NoOverfill'
  <2> SUFFICES ASSUME NEW k \in MatchIds, match'[k].st \in Gathering, AcceptRequired(k)'
               PROVE  Players(k)' <= Required[match'[k].mode]
    BY DEF NoOverfill
  <2>1. CASE k = m
    <3>1. Players(m)' \in Nat /\ AcceptRequired(m)
      BY <1>2, <1>10, <1>13, <2>1 DEF AcceptRequired, Players
    <3> QED BY <1>2, <1>12, <1>13, <1>14, <2>1, <3>1
  <2>2. CASE k # m
    BY <1>2, <1>9, <2>2 DEF Roomy, NoOverfill, AcceptRequired, Players
  <2> QED BY <2>1, <2>2
<1> QED BY <1>2, <1>5, <1>6, <1>14, <1>15 DEF Roomy, AcceptRequired

\* a member follows: the room for it was kept
LEMMA GatherRoom == ASSUME TInv, TInv', Roomy, GatherParty PROVE Roomy'
<1>1. PICK t : t = Head(todo)
  OBVIOUS
<1>2. /\ todo # <<>> /\ t.op = "gather" /\ t \in Task /\ Sound(t) /\ UNCHANGED match /\ search \in [SearchIds -> SearchType]
  BY <1>1, Running DEF GatherParty, Now, TInv, PInv, IInv, TypeOK
<1>3. PICK m \in MatchIds : m = t.m
  BY <1>2, TaskFields
<1>4. t.pend \subseteq SearchIds /\ IsFiniteSet(t.pend)
  BY <1>2, TaskFields, FiniteAssumption, FS_Subset
<1>5. CASE UNCHANGED search /\ (Do(<<>>) \/ Do(<<[op |-> "full", m |-> m]>>))
  <2>1. PICK K : K = {"full"}
    OBVIOUS
  <2>2. PICK e : e = [op |-> "full", m |-> m]
    OBVIOUS
  <2>3. e \in Kind(K)
    BY <2>1, <2>2 DEF Kind, Task
  <2>4. <<>> \in Seq(Kind(K)) /\ <<e>> \in Seq(Kind(K)) /\ (Do(<<>>) \/ Do(<<e>>))
    BY <1>5, <2>2, <2>3
  <2>5. ASSUME NEW tasks \in Seq(Kind(K)), Do(tasks), todo' # <<>> PROVE Head(todo').op \notin {"join", "gather"}
    BY <1>2, <2>1, <2>5, NextTasks, BehindKinds DEF Kind
  <2>6. NoOverfill'
    BY <1>2, <1>5 DEF Roomy, NoOverfill, AcceptRequired, Players, LiveRows
  <2> QED BY <2>4, <2>5, <2>6 DEF Roomy
<1>6. ASSUME NEW s \in t.pend, Place(s, m, "MATCHED"), Do(<<[t EXCEPT !.pend = @ \ {s}]>>) PROVE Roomy'
  <2>1. PICK e : e = [t EXCEPT !.pend = @ \ {s}]
    OBVIOUS
  <2>2. e \in Task /\ e.op = "gather" /\ e.m = m /\ e.pend = t.pend \ {s} /\ Do(<<e>>)
    BY <1>2, <1>3, <1>6, <2>1, Less
  <2>3. todo' # <<>> /\ Head(todo') = e
    BY <1>2, <2>2, OneAfter
  <2>4. s \in SearchIds
    BY <1>4, <1>6
  <2>5. LiveRows(m)' = LiveRows(m) \/ (s \notin LiveRows(m) /\ LiveRows(m)' = LiveRows(m) \cup {s})
    <3>1. CASE search[s].st \in Live
      BY <1>2, <1>6, <2>4, <3>1 DEF Place, SearchType, LiveRows, Live
    <3>2. CASE search[s].st \notin Live
      <4>1. \A o \in SearchIds : search'[o] = search[o]
        BY <1>2, <1>6, <2>4, <3>2 DEF Place, SearchType
      <4> QED BY <4>1 DEF LiveRows
    <3> QED BY <3>1, <3>2
  <2>6. \A k \in MatchIds : k # m => LiveRows(k)' \subseteq LiveRows(k)
    BY <1>2, <1>6, <2>4 DEF Place, SearchType, LiveRows
  <2>7. IsFiniteSet(LiveRows(m)) /\ Cardinality(LiveRows(m)) \in Nat /\ match[m].fake \in Nat
        /\ (AcceptRequired(m) => Required[match[m].mode] \in Nat)
    BY PlayersCount DEF TInv, PInv, IInv, TypeOK, MatchType
  <2>8. PICK B : B = t.pend \ LiveRows(m)
    OBVIOUS
  <2>9. PICK C : C = e.pend \ LiveRows(m)'
    OBVIOUS
  <2>10. IsFiniteSet(B) /\ C \subseteq B /\ IsFiniteSet(C) /\ Cardinality(C) \in Nat /\ Cardinality(B) \in Nat
    <3>1. B \subseteq t.pend /\ C \subseteq B
      BY <2>2, <2>5, <2>8, <2>9
    <3>2. IsFiniteSet(B)
      BY <1>4, <3>1, FS_Subset
    <3> QED BY <3>1, <3>2, FS_Subset, FS_CardinalityType
  <2>11. Cardinality(LiveRows(m)') + Cardinality(C) <= Cardinality(LiveRows(m)) + Cardinality(B)
    <3>1. CASE LiveRows(m)' = LiveRows(m)
      <4>1. Cardinality(C) <= Cardinality(B)
        BY <2>10, FS_Subset
      <4> QED BY <2>7, <2>10, <3>1, <4>1
    <3>2. CASE s \notin LiveRows(m) /\ LiveRows(m)' = LiveRows(m) \cup {s}
      <4>1. Cardinality(LiveRows(m)') = Cardinality(LiveRows(m)) + 1
        BY <2>7, <3>2, FS_AddElement
      <4>2. C = B \ {s} /\ s \in B
        BY <1>6, <2>2, <2>8, <2>9, <3>2
      <4>3. Cardinality(C) = Cardinality(B) - 1
        BY <2>10, <4>2, FS_RemoveElement
      <4> QED BY <2>7, <2>10, <4>1, <4>3
    <3> QED BY <2>5, <3>1, <3>2
  <2>12. Cardinality(LiveRows(m)') \in Nat
    <3>1. IsFiniteSet(LiveRows(m)')
      BY <2>5, <2>7, FS_AddElement
    <3> QED BY <3>1, FS_CardinalityType
  <2>13. AcceptRequired(m) => Players(m)' + Cardinality(C) <= Required[match[m].mode]
    <3>1. AcceptRequired(m) => Players(m) + Cardinality(B) <= Required[match[m].mode]
      BY <1>1, <1>2, <1>3, <2>8 DEF Roomy
    <3> QED BY <1>2, <2>7, <2>10, <2>11, <2>12, <3>1 DEF Players
  <2>14. NoOverfill'
    <3> SUFFICES ASSUME NEW k \in MatchIds, match'[k].st \in Gathering, AcceptRequired(k)'
                 PROVE  Players(k)' <= Required[match'[k].mode]
      BY DEF NoOverfill
    <3>1. CASE k = m
      <4>1. Players(m)' \in Nat /\ AcceptRequired(m)
        BY <1>2, <2>7, <2>12, <3>1 DEF AcceptRequired, Players
      <4> QED BY <1>2, <2>7, <2>10, <2>13, <3>1, <4>1
    <3>2. CASE k # m
      <4>1. match[k].fake \in Nat
        BY DEF TInv, PInv, IInv, TypeOK, MatchType
      <4> QED BY <1>2, <2>6, <3>2, <4>1, RoomKept DEF Roomy
    <3> QED BY <3>1, <3>2
  <2> QED BY <1>2, <2>2, <2>3, <2>9, <2>13, <2>14 DEF Roomy, AcceptRequired
<1>7. \/ \E s \in t.pend : Place(s, m, "MATCHED") /\ Do(<<[t EXCEPT !.pend = @ \ {s}]>>)
      \/ UNCHANGED search /\ (Do(<<>>) \/ Do(<<[op |-> "full", m |-> m]>>))
  BY <1>1, <1>3 DEF GatherParty
<1> QED BY <1>5, <1>6, <1>7

\* a profile fills the free places, not more
LEMMA FillRoom == ASSUME TInv, TInv', Roomy, FillMatch PROVE Roomy'
<1>1. PICK t : t = Head(todo)
  OBVIOUS
<1>2. /\ todo # <<>> /\ t.op = "fill" /\ t \in Task /\ Sound(t) /\ t.pend \subseteq MatchIds /\ UNCHANGED search
      /\ match \in [MatchIds -> MatchType] /\ fakes \in [ProfileIds -> Profiles \cup {None}]
  BY <1>1, Running, TaskFields DEF FillMatch, Now, TInv, PInv, IInv, TypeOK
<1>3. todo' # <<>> => Head(todo').op \notin {"join", "gather"}
  <2>1. PICK K : K = {"full", "fill"}
    OBVIOUS
  <2>2. \E tasks \in Seq(Kind(K)) : Do(tasks)
    BY <2>1, Puts
  <2> QED BY <1>1, <1>2, <2>1, <2>2, NextTasks, BehindKinds DEF Kind
<1>4. \A k : LiveRows(k)' = LiveRows(k)
  BY <1>2 DEF LiveRows
<1>5. CASE UNCHANGED match
  BY <1>3, <1>4, <1>5 DEF Roomy, NoOverfill, AcceptRequired, Players
<1>6. ASSUME NEW m \in t.pend, NEW real, real = Cardinality(LiveRows(m)), ~(real >= Required[match[m].mode]),
             NEW p \in Fitting(m),
             match' = [match EXCEPT ![m].prof = p,
                         ![m].fake = Least(fakes[p].players, Required[match[m].mode] - real)]
      PROVE  Roomy'
  <2>1. m \in MatchIds /\ real \in Nat /\ AcceptRequired(m) /\ Required[match[m].mode] \in Nat
    BY <1>2, <1>6, PlayersCount DEF Sound, CanFill
  <2>2. /\ match'[m].fake = Least(fakes[p].players, Required[match[m].mode] - real) /\ match'[m].mode = match[m].mode
        /\ \A k \in MatchIds : k # m => match'[k] = match[k]
    BY <1>2, <1>6, <2>1 DEF MatchType
  <2>3. fakes[p].players \in Nat
    BY <1>2, <1>6, ProfilesAssumption DEF Fitting
  <2>4. Players(m)' <= Required[match[m].mode]
    BY <1>4, <1>6, <2>1, <2>2, <2>3 DEF Players, Least
  <2>5. NoOverfill'
    BY <1>4, <2>1, <2>2, <2>4 DEF Roomy, NoOverfill, AcceptRequired, Players
  <2> QED BY <1>3, <2>5 DEF Roomy
<1>7. \/ UNCHANGED match
      \/ \E m \in t.pend :
           /\ ~(Cardinality(LiveRows(m)) >= Required[match[m].mode])
           /\ \E p \in Fitting(m) :
                match' = [match EXCEPT ![m].prof = p,
                            ![m].fake = Least(fakes[p].players, Required[match[m].mode] - Cardinality(LiveRows(m)))]
  BY <1>1 DEF FillMatch, Best
<1> QED BY <1>5, <1>6, <1>7

\* no handler, and no restart, lets more players into a match than there is room for
LEMMA NextRoom == TInv /\ TInv' /\ PartiesFit /\ Roomy /\ [Next]_vars => Roomy'
<1> SUFFICES ASSUME TInv, TInv', PartiesFit, Roomy, [Next]_vars PROVE Roomy' OBVIOUS
<1>1. CASE PlaceSearch \/ FillMatch \/ JoinMatch \/ GatherParty
  BY <1>1, PlaceRoom, FillRoom, JoinRoom, GatherRoom
<1>2. CASE UNCHANGED vars
  BY <1>2 DEF vars, Roomy, NoOverfill, Players, PartySize, Members, LiveRows, AcceptRequired
<1>3. CASE ~(PlaceSearch \/ FillMatch \/ JoinMatch \/ GatherParty) /\ ~UNCHANGED vars
  <2>1. NoOverfill'
    <3> SUFFICES ASSUME NEW m \in MatchIds, match'[m].st \in Gathering, AcceptRequired(m)'
                 PROVE  Players(m)' <= Required[match'[m].mode]
      BY DEF NoOverfill
    <3>1. match[m].st \in Gathering /\ match'[m].mode = match[m].mode /\ match'[m].fake <= match[m].fake
      BY <1>3, OnlyFills
    <3>2. LiveRows(m)' \subseteq LiveRows(m)
      BY <1>3, OnlyJoins
    <3> QED BY <3>1, <3>2, RoomKept DEF Roomy
  <2>2. todo' # <<>> => Head(todo').op \notin {"join", "gather"}
    <3> SUFFICES ASSUME todo' # <<>>, Head(todo').op \in {"join", "gather"} PROVE FALSE
      OBVIOUS
    <3>1. \/ CompleteMatch \/ ReserveServer \/ PromoteMatch \/ AssignRow
          \/ \E v \in Servers, m \in MatchIds : ConfirmRoster(v, m)
      BY <1>3, WhoPlaces DEF Placing
    <3>2. ASSUME NEW K, NEW tasks \in Seq(Kind(K)), todo # <<>>, Do(tasks), "join" \notin K, "gather" \notin K PROVE FALSE
      BY <3>2, NextTasks, BehindKinds DEF Kind
    <3>3. ~(CompleteMatch \/ ReserveServer \/ PromoteMatch \/ AssignRow)
      <4>1. CompleteMatch \/ ReserveServer \/ PromoteMatch \/ AssignRow => todo # <<>>
        BY DEF CompleteMatch, ReserveServer, PromoteMatch, AssignRow, Now
      <4>2. CompleteMatch \/ ReserveServer \/ PromoteMatch \/ AssignRow =>
              \E K \in {{"reserve", "assign"}, {"assign", "reserve"}, {"assign", "promote"}, {"assign"}} :
                \E tasks \in Seq(Kind(K)) : Do(tasks)
        BY Puts
      <4> QED BY <3>2, <4>1, <4>2
    <3>4. ASSUME NEW v \in Servers, NEW m \in MatchIds, ConfirmRoster(v, m) PROVE FALSE
      <4>1. todo' = Assign(m)
        BY <3>4 DEF ConfirmRoster, Begin
      <4> QED BY <4>1 DEF Assign
    <3> QED BY <3>1, <3>3, <3>4
  <2> QED BY <2>1, <2>2 DEF Roomy
<1> QED BY <1>1, <1>2, <1>3

\* so no match is overfilled while parties fit into matches
LEMMA RoomAlways == Spec /\ []PartiesFit => []NoOverfill
<1>1. Init => Roomy
  <2> SUFFICES ASSUME Init PROVE Roomy
    OBVIOUS
  <2>1. todo = <<>> /\ \A m \in MatchIds : match[m].st = "NONE"
    BY DEF Init, NoMatch
  <2> QED BY <2>1 DEF Roomy, NoOverfill, Gathering
<1>2. Roomy => NoOverfill
  BY DEF Roomy
<1> QED BY <1>1, <1>2, InitTInv, NextTInv, NextRoom, PTL DEF Spec

-----------------------------------------------------------------------------
(* Parties are no larger than the clients name them. *)

\* no account names a party that is too large for a match it could search for
SmallParties ==
  \A a \in Accounts, k \in AcceptModes : \A p \in Parties[a] :
    p # None => IsFiniteSet(p) /\ Cardinality(p \cup {a}) <= Required[k]
\* the accounts of some rows, and whether one account could have named them
Who(S) == {search[s].acct : s \in S}
Named(a, A) == A = {} \/ \E p \in Parties[a] : p # None /\ A \subseteq p \ {a}
Staying(l) == {s \in Members(l) : ~Leaving(s)}
\* a party is read from one call, and the members it lost leave before others are added
Listed(t) ==
  /\ t.op = "enter" => Named(t.a, t.pend)
  /\ t.op = "sync" => search[t.l].st # "NONE" /\ Named(search[t.l].acct, t.pend)
  /\ t.op = "add" => search[t.l].st # "NONE" /\ Named(search[t.l].acct, t.pend \cup Who(Staying(t.l)))
Counted == \A l \in SearchIds : search[l].st # "NONE" =>
             search[l].acct \in Accounts /\ Named(search[l].acct, Who(Members(l)))
Partied == Counted /\ \A t \in Range(todo) : Listed(t)

\* part of a party is one, too
LEMMA NamedPart == \A a, A, B : Named(a, B) /\ A \subseteq B => Named(a, A)
BY DEF Named

\* only a search that starts, and a member that is added, gets an account and a leader
LEMMA OnlyEnters ==
  ASSUME TInv, [Next]_vars, ~Enter, ~AddMember, NEW s \in SearchIds
  PROVE  \/ DeleteOld /\ search'[s] = NoSearch
         \/ /\ search'[s].acct = search[s].acct /\ search'[s].leader = search[s].leader
            /\ search'[s].st \in Live => search[s].st \in Live
            /\ search'[s].st = "NONE" <=> search[s].st = "NONE"
<1> DEFINE Same == /\ search'[s].acct = search[s].acct /\ search'[s].leader = search[s].leader
                   /\ search'[s].st \in Live => search[s].st \in Live
                   /\ search'[s].st = "NONE" <=> search[s].st = "NONE"
<1>1. search \in [SearchIds -> SearchType]
  BY DEF TInv, PInv, IInv, TypeOK
<1>2. CASE UNCHANGED search
  BY <1>2
<1>3. CASE Step
  <2>1. CASE PromoteAccepted
    <3>1. Same
      BY <1>1, <2>1 DEF PromoteAccepted, SearchType, Live
    <3> QED BY <3>1
  <2>2. CASE Retire \/ LeaveRow
    <3>1. ASSUME NEW o, NEW st \in Finished, Finish(o, st) PROVE Same
      BY <1>1, <3>1 DEF Finish, Finished, SearchType, Live
    <3>2. LeaveRow => Head(todo).st \in Finished
      BY Running, TaskFields DEF LeaveRow, Now
    <3> HIDE DEF Same
    <3>3. Same
      BY <2>2, <3>1, <3>2 DEF Retire, LeaveRow, Finished
    <3> QED BY <3>3 DEF Same
  <2>3. CASE DissolveRow
    <3>1. Same
      BY <1>1, <2>3 DEF DissolveRow, Unplace, SearchType, Live
    <3> QED BY <3>1
  <2>4. CASE DeleteOld
    BY <1>1, <2>4 DEF DeleteOld
  <2>5. CASE TagMember
    <3>1. Same
      BY <1>1, <2>5 DEF TagMember, SearchType
    <3> QED BY <3>1
  <2>6. CASE JoinMatch \/ GatherParty \/ AssignRow
    <3>1. ASSUME NEW o, NEW m, NEW st \in {"MATCHED", "WAITING_ACCEPT", "READY_TO_CONNECT"}, Place(o, m, st) PROVE Same
      BY <1>1, <3>1 DEF Place, SearchType, Live
    <3> HIDE DEF Same
    <3>2. UNCHANGED search \/ \E o, m : \E st \in {"MATCHED", "WAITING_ACCEPT", "READY_TO_CONNECT"} : Place(o, m, st)
      <4>1. JoinMatch => Place(Head(todo).s, Head(todo).m, "MATCHED")
        BY DEF JoinMatch
      <4>2. GatherParty => UNCHANGED search \/ \E o \in Head(todo).pend : Place(o, Head(todo).m, "MATCHED")
        BY DEF GatherParty
      <4>3. AssignRow => \E o \in Head(todo).pend : Place(o, Head(todo).m, AssignedStatus(Head(todo).m))
        BY DEF AssignRow
      <4> QED BY <2>6, <4>1, <4>2, <4>3 DEF AssignedStatus
    <3>3. UNCHANGED search \/ Same
      BY <3>1, <3>2
    <3> QED BY <1>2, <3>3 DEF Same
  <2>7. CASE Scan \/ Breakup \/ Lapse \/ ReleaseOrphan \/ MemberLeft \/ End \/ Release \/ SetServer \/ ReleaseAbandoned
    BY <1>2, <2>7 DEF Scan, Breakup, Lapse, ReleaseOrphan, MemberLeft, End, Release, SetServer, ReleaseAbandoned
  <2>8. CASE SyncParty \/ PlaceSearch \/ CompleteMatch \/ FillMatch \/ ReserveServer \/ PromoteMatch \/ StartAccepting \/ MarkAccepted
    BY <1>2, <2>8 DEF SyncParty, PlaceSearch, CompleteMatch, FillMatch, ReserveServer, PromoteMatch, StartAccepting, MarkAccepted
  <2> HIDE DEF Same
  <2> QED BY <1>3, <2>1, <2>2, <2>3, <2>4, <2>5, <2>6, <2>7, <2>8 DEF Step
<1>4. CASE Player
  <2>1. ASSUME NEW o \in SearchIds, NEW r, Accept(o, r) PROVE Same
    BY <1>1, <2>1 DEF Accept, SearchType
  <2>2. UNCHANGED search \/ \E o \in SearchIds : \E r \in Asked(o) : Accept(o, r)
    BY <1>4 DEF Player, Start, Poll, Remove, Cancel
  <2> HIDE DEF Same
  <2>3. UNCHANGED search \/ Same
    BY <2>1, <2>2
  <2> QED BY <1>2, <2>3 DEF Same
<1>5. CASE Operator \/ GameServer \/ FakePlayers \/ Time \/ Crash \/ UNCHANGED vars
  BY <1>2, <1>5 DEF Operator, SetServerState, DeleteServer, EditServer, CreateServer, EnableServer, GameServer,
     RosterForServer, ConfirmRoster, Report, FakePlayers, SetFakeMaster, WriteProfile, Time, RunTick, CooldownOver,
     PollWindowOver, Crash, vars
<1> QED BY <1>3, <1>4, <1>5 DEF Next

\* so parties only lose members otherwise
LEMMA MembersStay ==
  ASSUME TInv, [Next]_vars, ~Enter, ~AddMember, NEW l \in SearchIds
  PROVE  /\ Members(l)' \subseteq Members(l)
         /\ \A s \in Members(l)' : search'[s].acct = search[s].acct
         /\ ~DeleteOld /\ search[l].st # "NONE" => search'[l].st # "NONE" /\ search'[l].acct = search[l].acct
         /\ search'[l].st # "NONE" => search[l].st # "NONE" /\ search'[l].acct = search[l].acct
<1>1. NoSearch.st = "NONE" /\ "NONE" \notin Live
  BY DEF NoSearch, Live
<1>2. ASSUME NEW s \in SearchIds, search'[s].st \in Live \/ ~DeleteOld \/ search'[s].st # "NONE"
      PROVE  /\ search'[s].acct = search[s].acct /\ search'[s].leader = search[s].leader
             /\ search'[s].st \in Live => search[s].st \in Live
             /\ search'[s].st = "NONE" <=> search[s].st = "NONE"
  BY <1>1, <1>2, OnlyEnters
<1>3. \A s \in Members(l)' : s \in SearchIds /\ search'[s].st \in Live /\ search'[s].leader = l
  BY DEF Members
<1>4. \A s \in Members(l)' : s \in Members(l) /\ search'[s].acct = search[s].acct
  BY <1>2, <1>3 DEF Members
<1> QED BY <1>2, <1>4

\* the rows of a party, then
LEMMA CountedKept == ASSUME TInv, [Next]_vars, ~Enter, ~AddMember, Counted PROVE Counted'
<1> SUFFICES ASSUME NEW l \in SearchIds, search'[l].st # "NONE"
             PROVE  search'[l].acct \in Accounts /\ Named(search'[l].acct, Who(Members(l))')
  BY DEF Counted, Named
<1>1. /\ Members(l)' \subseteq Members(l) /\ \A s \in Members(l)' : search'[s].acct = search[s].acct
      /\ search[l].st # "NONE" /\ search'[l].acct = search[l].acct
  BY MembersStay
<1>2. Who(Members(l))' \subseteq Who(Members(l))
  BY <1>1 DEF Who
<1> QED BY <1>1, <1>2, NamedPart DEF Counted

\* a task stays sound while no row of its party comes to life and nobody who leaves is forgotten
LEMMA ListedKept ==
  ASSUME TInv, [Next]_vars, ~Enter, ~AddMember, NEW t \in Task, Listed(t), t.op \in {"sync", "add"} => ~DeleteOld,
         t.op = "add" => \A s \in Members(t.l)' : Leaving(s) => Leaving(s)'
  PROVE  Listed(t)'
<1>1. CASE t.op = "enter"
  BY <1>1 DEF Listed, Named
<1>2. CASE t.op = "sync"
  <2>1. PICK l \in SearchIds : l = t.l
    BY <1>2, TaskFields
  <2> QED BY <1>2, <2>1, MembersStay DEF Listed, Named
<1>3. CASE t.op = "add"
  <2>1. PICK l \in SearchIds : l = t.l
    BY <1>3, TaskFields
  <2>2. /\ Members(l)' \subseteq Members(l) /\ \A s \in Members(l)' : search'[s].acct = search[s].acct
        /\ search'[l].st # "NONE" /\ search'[l].acct = search[l].acct
    BY <1>3, <2>1, MembersStay DEF Listed
  <2>3. Staying(l)' \subseteq Staying(l)
    BY <1>3, <2>1, <2>2 DEF Staying
  <2>4. \A s \in Staying(l)' : search'[s].acct = search[s].acct
    BY <2>2 DEF Staying
  <2>5. Who(Staying(l))' \subseteq Who(Staying(l))
    BY <2>3, <2>4 DEF Who
  <2>6. Named(search'[l].acct, t.pend \cup Who(Staying(l))')
    <3>1. Named(search[l].acct, t.pend \cup Who(Staying(l)))
      BY <1>3, <2>1 DEF Listed
    <3> QED BY <2>2, <2>5, <3>1, NamedPart
  <2> QED BY <1>3, <2>1, <2>2, <2>6 DEF Listed, Named
<1>4. CASE t.op \notin {"enter", "sync", "add"}
  BY <1>4 DEF Listed
<1> QED BY <1>1, <1>2, <1>3, <1>4

\* tasks that say nothing of a party
Party == {"enter", "sync", "add"}
LEMMA NoParty ==
  ASSUME TInv, [Next]_vars, ~Enter, ~AddMember, Partied, \A r \in Range(todo') : r.op \notin Party
  PROVE  Partied'
<1>1. \A r \in Range(todo') : Listed(r)'
  BY DEF Party, Listed
<1> QED BY <1>1, CountedKept DEF Partied

\* most statements queue nothing about a party, and nobody who leaves is forgotten
LEMMA PartiedAfter ==
  ASSUME TInv, [Next]_vars, ~Enter, ~AddMember, Partied, todo # <<>>,
         NEW K, NEW tasks \in Seq(Kind(K)), Do(tasks), K \cap Party = {},
         \/ Head(todo).op # "leave"
         \/ \A l \in SearchIds : \A s \in Members(l)' : Leaving(s) => Leaving(s)'
  PROVE  Partied'
<1>1. Range(todo') = Range(tasks) \cup Behind /\ Range(tasks) \subseteq Kind(K)
  BY NextTasks
<1>2. \A r \in Range(tasks) : Listed(r)'
  BY <1>1 DEF Kind, Party, Listed
<1>3. ASSUME NEW b \in Behind PROVE Listed(b)'
  <2>1. b \in Task /\ b \in Range(todo)
    BY <1>3, Running, HeadAndBehind
  <2>2. Listed(b)
    BY <2>1 DEF Partied
  <2>3. b.op \in {"sync", "add"} => ~DeleteOld
    BY <1>3, BehindKinds DEF DeleteOld, Now
  <2>4. b.op = "add" => \A s \in Members(b.l)' : Leaving(s) => Leaving(s)'
    <3>1. Head(todo).op # "leave" => \A s : Leaving(s) => Leaving(s)'
      BY TasksStay
    <3>2. b.op = "add" => b.l \in SearchIds
      BY <2>1, TaskFields
    <3> QED BY <3>1, <3>2
  <2> QED BY <2>1, <2>2, <2>3, <2>4, ListedKept
<1> QED BY <1>1, <1>2, <1>3, CountedKept DEF Partied

\* so do the calls
LEMMA PartiedBegins ==
  ASSUME TInv, [Next]_vars, ~Enter, ~AddMember, Partied, NEW K, NEW tasks \in Seq(Kind(K)), Begin(tasks), K \cap Party = {}
  PROVE  Partied'
<1>1. Range(todo') \subseteq Kind(K)
  BY RangeOfSeq DEF Begin
<1>2. \A r \in Range(todo') : r.op \notin Party
  BY <1>1 DEF Kind
<1> QED BY <1>2, NoParty

\* the row that leaves is no member any more
LEMMA LeavePartied == ASSUME TInv, [Next]_vars, Partied, LeaveRow PROVE Partied'
<1>1. PICK t : t = Head(todo)
  OBVIOUS
<1>2. todo # <<>> /\ t.op = "leave" /\ t \in Task /\ t.pend \subseteq SearchIds /\ t.st \in Finished
  BY <1>1, Running, TaskFields DEF LeaveRow, Now
<1>3. ~Enter /\ ~AddMember
  BY <1>1, <1>2 DEF Enter, AddMember, Now
<1>4. PICK s \in t.pend : /\ Finish(s, t.st)
                          /\ Do(Leave(IF t.party /\ ~search[s].acc THEN Members(s) ELSE {}, t.st, FALSE)
                                \o Left(search[s].match, search[s].acc) \o Rest(t, s))
  BY <1>1 DEF LeaveRow
<1>5. search'[s].st \notin Live /\ search \in [SearchIds -> SearchType]
  BY <1>2, <1>4, Statements DEF TInv, PInv, IInv, TypeOK
<1> DEFINE first == Leave(IF t.party /\ ~search[s].acc THEN Members(s) ELSE {}, t.st, FALSE)
                    \o Left(search[s].match, search[s].acc)
<1>6. first \in Seq(Kind({"leave", "left"}))
  <2>1. Leave(IF t.party /\ ~search[s].acc THEN Members(s) ELSE {}, t.st, FALSE) \in Seq(Kind({"leave", "left"}))
    BY <1>2, Pieces DEF Members
  <2>2. Left(search[s].match, search[s].acc) \in Seq(Kind({"leave", "left"}))
    BY <1>2, <1>5, Pieces DEF SearchType
  <2> QED BY <2>1, <2>2, Pieces
<1>7. Rest(t, s) \in Seq(Kind({"leave", "left"})) /\ Queue(Rest(t, s), RestSet(t, s))
  BY <1>2, RestQueue, Pieces DEF Looping
<1>8. Do(first \o Rest(t, s))
  BY <1>4
<1> HIDE DEF first
<1>9. first \o Rest(t, s) \in Seq(Kind({"leave", "left"})) /\ Range(Rest(t, s)) \subseteq Range(first \o Rest(t, s))
  BY <1>6, <1>7, RangeConcatenation, Pieces
<1>10. ASSUME NEW o, Leaving(o), o # s PROVE Leaving(o)'
  <2>1. PICK r \in Range(todo) : r.op = "leave" /\ o \in r.pend
    BY <1>10 DEF Leaving
  <2>2. CASE r \in Behind
    BY <1>2, <1>8, <1>9, <2>1, <2>2, NextTasks DEF Leaving
  <2>3. CASE r = t
    <3>1. RestSet(t, s) = {[t EXCEPT !.pend = @ \ {s}]} /\ t.pend # {s}
      BY <1>10, <2>1, <2>3 DEF RestSet
    <3>2. PICK e : e = [t EXCEPT !.pend = @ \ {s}]
      OBVIOUS
    <3>3. e.op = "leave" /\ o \in e.pend
      BY <1>2, <1>10, <2>1, <2>3, <3>2 DEF Task
    <3>4. e \in Range(first \o Rest(t, s))
      BY <1>7, <1>9, <3>1, <3>2 DEF Queue
    <3>5. e \in Range(todo')
      BY <1>2, <1>8, <1>9, <3>4, TasksStay
    <3> QED BY <3>3, <3>5 DEF Leaving
  <2> QED BY <1>1, <1>2, <2>1, <2>2, <2>3, HeadAndBehind
<1>11. \A l \in SearchIds : \A o \in Members(l)' : Leaving(o) => Leaving(o)'
  BY <1>5, <1>10 DEF Members
<1>12. {"leave", "left"} \cap Party = {}
  BY DEF Party
<1> QED BY <1>2, <1>3, <1>8, <1>9, <1>11, <1>12, PartiedAfter

\* the statements that look at no party
LEMMA PlainPartied ==
  ASSUME TInv, [Next]_vars, Partied, Step, ~Enter, ~SyncParty, ~AddMember
  PROVE  Partied'
<1>1. ASSUME NEW K, NEW tasks \in Seq(Kind(K)), todo # <<>>, Head(todo).op # "leave", Do(tasks), K \cap Party = {}
      PROVE  Partied'
  BY <1>1, PartiedAfter
<1>2. CASE Scan
  <2>1. \A r \in Range(todo') : r.op \in Timed \cup {"scan"}
    BY <1>2, ScanPuts, WorkTasks
  <2>2. \A r \in Range(todo') : r.op \notin Party
    BY <2>1 DEF Timed, Party
  <2> QED BY <2>2, NoParty
<1>3. CASE Breakup \/ Lapse \/ ReleaseAbandoned \/ ReleaseOrphan \/ Release \/ SetServer
  <2>1. PICK K : K = {"end", "breakup", "lapse", "abandon", "orphan"}
    OBVIOUS
  <2>2. /\ todo # <<>> /\ Head(todo).op \in {"breakup", "lapse", "abandon", "orphan", "release", "set"} /\ Head(todo) \in Task
    <3>1. todo # <<>> /\ Head(todo).op \in {"breakup", "lapse", "abandon", "orphan", "release", "set"}
      BY <1>3 DEF Breakup, Lapse, ReleaseAbandoned, ReleaseOrphan, Release, SetServer, Now
    <3> QED BY <3>1, Running
  <2>3. PICK t : t = Head(todo)
    OBVIOUS
  <2>4. CASE Breakup \/ Lapse \/ ReleaseAbandoned
    <3>1. t.op \in {"breakup", "lapse", "abandon"}
      BY <2>3, <2>4 DEF Breakup, Lapse, ReleaseAbandoned, Now
    <3>2. PICK m \in t.pend : Do(Dissolve(m) \o Rest(t, m)) \/ Do(EndMatch(m, "now") \o Rest(t, m))
      BY <2>3, <2>4 DEF Breakup, Lapse, ReleaseAbandoned
    <3>3. m \in MatchIds
      BY <2>2, <2>3, <3>1, TaskFields
    <3>4. Rest(t, m) \in Seq(Kind(K))
      BY <2>1, <2>2, <2>3, <3>1, Pieces DEF Looping
    <3>5. Dissolve(m) \in Seq(Kind(K)) /\ EndMatch(m, "now") \in Seq(Kind(K))
      BY <2>1, <3>3, Pieces
    <3>6. Dissolve(m) \o Rest(t, m) \in Seq(Kind(K)) /\ EndMatch(m, "now") \o Rest(t, m) \in Seq(Kind(K))
      BY <3>4, <3>5, Pieces
    <3> QED BY <1>1, <2>1, <2>2, <3>2, <3>6 DEF Party
  <2>5. CASE ReleaseOrphan
    <3>1. t.op = "orphan"
      BY <2>3, <2>5 DEF ReleaseOrphan, Now
    <3>2. PICK v \in t.pend : Do(Rest(t, v))
      BY <2>3, <2>5 DEF ReleaseOrphan
    <3>3. Rest(t, v) \in Seq(Kind(K))
      BY <2>1, <2>2, <2>3, <3>1, Pieces
    <3> QED BY <1>1, <2>1, <2>2, <3>2, <3>3 DEF Party
  <2>6. CASE Release \/ SetServer
    <3>1. Do(<<>>)
      BY <2>6 DEF Release, SetServer
    <3>3. <<>> \in Seq(Kind(K))
      BY Pieces
    <3>2. K \cap Party = {} /\ Head(todo).op # "leave" /\ todo # <<>>
      BY <2>1, <2>2 DEF Party
    <3> QED BY <1>1, <3>1, <3>2, <3>3
  <2> QED BY <1>3, <2>4, <2>5, <2>6
<1>4. CASE Retire \/ PlaceSearch \/ JoinMatch \/ GatherParty \/ CompleteMatch \/ FillMatch
  <2>1. todo # <<>> /\ Head(todo).op # "leave"
    BY <1>4 DEF Retire, PlaceSearch, JoinMatch, GatherParty, CompleteMatch, FillMatch, Now
  <2>2. \A K \in {{"retire"}, {"join", "place"}, {"gather"}, {"gather", "full"}, {"reserve", "assign"}, {"full", "fill"}} :
          K \cap Party = {}
    BY DEF Party
  <2>3. CASE Retire \/ PlaceSearch \/ JoinMatch
    BY <1>1, <2>1, <2>2, <2>3, Puts
  <2>4. CASE GatherParty \/ CompleteMatch \/ FillMatch
    BY <1>1, <2>1, <2>2, <2>4, Puts
  <2> QED BY <1>4, <2>3, <2>4
<1>5. CASE ReserveServer \/ PromoteMatch \/ AssignRow \/ StartAccepting \/ MarkAccepted
  <2>1. todo # <<>> /\ Head(todo).op # "leave"
    BY <1>5 DEF ReserveServer, PromoteMatch, AssignRow, StartAccepting, MarkAccepted, Now
  <2>2. \A K \in {{"assign", "reserve"}, {"assign", "promote"}, {"assign"}, {"accepted"}, {"connect"}} : K \cap Party = {}
    BY DEF Party
  <2>3. CASE ReserveServer \/ PromoteMatch \/ AssignRow
    BY <1>1, <2>1, <2>2, <2>3, Puts
  <2>4. CASE StartAccepting \/ MarkAccepted
    BY <1>1, <2>1, <2>2, <2>4, Puts
  <2> QED BY <1>5, <2>3, <2>4
<1>6. CASE DeleteOld \/ TagMember \/ PromoteAccepted
  <2>1. todo # <<>> /\ Head(todo).op # "leave" /\ Do(<<>>) /\ <<>> \in Seq(Kind({})) /\ {} \cap Party = {}
    BY <1>6, Pieces DEF DeleteOld, TagMember, PromoteAccepted, Now
  <2> QED BY <1>1, <2>1
<1>7. CASE MemberLeft \/ DissolveRow \/ End
  <2>1. {"end", "release"} \cap Party = {}
    BY DEF Party
  <2> QED BY <1>1, <1>7, <2>1, EndPuts
<1>8. CASE LeaveRow
  BY <1>8, LeavePartied
<1> QED BY <1>2, <1>3, <1>4, <1>5, <1>6, <1>7, <1>8 DEF Step

\* calls: a search that starts names a party, or changes the party of a row that is there
LEMMA CallPartied == ASSUME TInv, [Next]_vars, Partied, Player PROVE Partied'
<1>1. todo = <<>> /\ ~Enter /\ ~AddMember
  <2>1. todo = <<>>
    BY PlayerPuts DEF Begin
  <2> QED BY <2>1 DEF Enter, AddMember, Now
<1>2. PICK K : K = {"scan", "leave", "accepted", "abandon"}
  OBVIOUS
<1>3. /\ <<>> \in Seq(Kind(K)) /\ Matcher \in Seq(Kind(K)) /\ (\A p, q \in Seq(Kind(K)) : p \o q \in Seq(Kind(K)))
      /\ K \cap Party = {}
  BY <1>2, ScanFirst, Pieces DEF Party
<1>4. ASSUME NEW s \in SearchIds, Poll(s) \/ Remove(s) PROVE Partied'
  <2>1. Begin(Matcher) \/ Begin(Leave({s}, "REMOVED", TRUE) \o Matcher)
    BY <1>4 DEF Poll, Remove
  <2>2. Leave({s}, "REMOVED", TRUE) \in Seq(Kind(K))
    BY <1>2, Pieces DEF Finished
  <2>3. Leave({s}, "REMOVED", TRUE) \o Matcher \in Seq(Kind(K))
    BY <1>3, <2>2
  <2> QED BY <1>1, <1>3, <2>1, <2>3, PartiedBegins
<1>5. ASSUME NEW s \in SearchIds, NEW r, Cancel(s, r) PROVE Partied'
  <2>1. Begin(Leave({s}, "CANCELLED", TRUE) \o Matcher)
    BY <1>5 DEF Cancel
  <2>2. Leave({s}, "CANCELLED", TRUE) \in Seq(Kind(K))
    BY <1>2, Pieces DEF Finished
  <2>3. Leave({s}, "CANCELLED", TRUE) \o Matcher \in Seq(Kind(K))
    BY <1>3, <2>2
  <2> QED BY <1>1, <1>3, <2>1, <2>3, PartiedBegins
<1>6. ASSUME NEW s \in SearchIds, NEW r, Accept(s, r) PROVE Partied'
  <2>1. search[s].match \in MatchIds
    BY <1>6 DEF Accept, TInv, PInv, IInv, TypeOK, SearchType
  <2>2. PICK e : e = [op |-> "accepted", m |-> search[s].match]
    OBVIOUS
  <2>3. e \in Kind(K)
    BY <1>2, <2>1, <2>2 DEF Task, Kind
  <2>4. <<e>> \o Matcher \in Seq(Kind(K)) /\ <<>> \o Matcher \in Seq(Kind(K))
    <3>1. <<e>> \in Seq(Kind(K))
      BY <2>3
    <3> QED BY <1>3, <3>1
  <2>5. Begin(<<e>> \o Matcher) \/ Begin(<<>> \o Matcher)
    BY <1>6, <2>2 DEF Accept
  <2> QED BY <1>1, <1>3, <2>4, <2>5, PartiedBegins
<1>7. ASSUME NEW a \in Accounts, NEW r \in Requests, NEW src \in Sources, NEW ask \in Choices,
             NEW party \in Parties[a], Start(a, r, src, ask, party)
      PROVE  Partied'
  <2>1. PICK wanted : wanted = IF party = None THEN {} ELSE party \ {a}
    OBVIOUS
  <2>2. Named(a, wanted) /\ wanted \in SUBSET Accounts
    BY <2>1, NoneAssumption DEF Named
  <2>3. ASSUME NEW e \in Task, Listed(e)', Range(todo') \subseteq Kind(K) \cup {e} PROVE Partied'
    <3>1. \A b \in Kind(K) : Listed(b)'
      BY <1>2 DEF Kind, Listed
    <3> QED BY <1>1, <2>3, <3>1, CountedKept DEF Partied
  <2>4. ASSUME NEW e, NEW p \in Seq(Kind(K)), Begin(p \o <<e>> \o Matcher) PROVE Range(todo') \subseteq Kind(K) \cup {e}
    <3>1. p \in Seq(Kind(K) \cup {e}) /\ <<e>> \in Seq(Kind(K) \cup {e}) /\ Matcher \in Seq(Kind(K) \cup {e})
      BY <1>3
    <3>2. p \o <<e>> \o Matcher \in Seq(Kind(K) \cup {e})
      BY <3>1
    <3> QED BY <2>4, <3>2, RangeOfSeq DEF Begin
  <2>5. ASSUME NEW s \in RowOf(a), Begin((IF party = None THEN <<>>
                       ELSE <<[op |-> "sync", l |-> s, src |-> src, ask |-> ask, pend |-> wanted]>>) \o Matcher)
        PROVE  Partied'
    <3>1. PICK e : e = [op |-> "sync", l |-> s, src |-> src, ask |-> ask, pend |-> wanted]
      OBVIOUS
    <3>2. s \in SearchIds /\ search[s].st \in Live /\ search[s].acct = a
      BY DEF RowOf
    <3>3. e \in Task /\ e.op = "sync" /\ e.l = s /\ e.pend = wanted
      BY <2>2, <3>1, <3>2 DEF Task
    <3>4. UNCHANGED search
      BY <1>7 DEF Start
    <3>5. Listed(e)'
      BY <2>2, <3>2, <3>3, <3>4 DEF Listed, Live, Named
    <3>6. CASE party = None
      <4>1. <<>> \o Matcher \in Seq(Kind(K)) /\ Begin(<<>> \o Matcher)
        BY <1>3, <2>5, <3>6
      <4> QED BY <1>1, <1>3, <4>1, PartiedBegins
    <3>7. CASE party # None
      <4>1. Begin(<<e>> \o Matcher)
        BY <2>5, <3>1, <3>7
      <4>2. <<e>> \in Seq(Kind(K) \cup {e}) /\ Matcher \in Seq(Kind(K) \cup {e})
        BY <1>3
      <4>3. <<e>> \o Matcher \in Seq(Kind(K) \cup {e})
        BY <4>2
      <4>4. Range(todo') \subseteq Kind(K) \cup {e}
        BY <4>1, <4>3, RangeOfSeq DEF Begin
      <4> QED BY <2>3, <3>3, <3>5, <4>4
    <3> QED BY <3>6, <3>7
  <2>6. Loop("abandon", Abandoned(a)) \in Seq(Kind(K))
    <3>1. PICK e : e = [op |-> "abandon", pend |-> Abandoned(a)]
      OBVIOUS
    <3>2. e \in Task /\ e.op = "abandon"
      BY <3>1 DEF Task, Abandoned
    <3> QED BY <1>2, <3>1, <3>2, Pieces DEF Kind, Loop
  <2>7. ASSUME NEW s \in SearchIds \cup {None}, NEW m \in MatchIds \cup {None}, NEW acc \in BOOLEAN,
               Begin(Loop("abandon", Abandoned(a))
                     \o <<[op |-> "enter", a |-> a, r |-> r, src |-> src, ask |-> ask, pend |-> wanted, own |-> s, m |-> m, acc |-> acc]>>
                     \o Matcher)
        PROVE  Partied'
    <3>1. PICK e : e = [op |-> "enter", a |-> a, r |-> r, src |-> src, ask |-> ask, pend |-> wanted, own |-> s, m |-> m, acc |-> acc]
      OBVIOUS
    <3>2. e \in Task /\ e.op = "enter" /\ e.a = a /\ e.pend = wanted
      BY <2>2, <3>1 DEF Task
    <3>3. Listed(e)'
      BY <2>2, <3>2 DEF Listed, Named
    <3>4. Range(todo') \subseteq Kind(K) \cup {e}
      BY <2>4, <2>6, <2>7, <3>1
    <3> QED BY <2>3, <3>2, <3>3, <3>4
  <2>8. \/ \E s \in RowOf(a) : Begin((IF party = None THEN <<>>
                       ELSE <<[op |-> "sync", l |-> s, src |-> src, ask |-> ask, pend |-> wanted]>>) \o Matcher)
        \/ \E s \in SearchIds \cup {None}, m \in MatchIds \cup {None}, acc \in BOOLEAN :
             Begin(Loop("abandon", Abandoned(a))
                   \o <<[op |-> "enter", a |-> a, r |-> r, src |-> src, ask |-> ask, pend |-> wanted, own |-> s, m |-> m, acc |-> acc]>>
                   \o Matcher)
    <3> DEFINE task(s) == [op |-> "enter", a |-> a, r |-> r, src |-> src, ask |-> ask, pend |-> wanted, own |-> s,
                           m |-> IF s = None THEN None ELSE search[s].match,
                           acc |-> IF s = None THEN FALSE ELSE search[s].acc]
               ready == \E s \in IF RowOf(a) = {} THEN {None} ELSE RowOf(a) :
                          Begin(Loop("abandon", Abandoned(a)) \o <<task(s)>> \o Matcher)
    <3>1. \/ \E s \in RowOf(a) : Begin((IF party = None THEN <<>>
                       ELSE <<[op |-> "sync", l |-> s, src |-> src, ask |-> ask, pend |-> wanted]>>) \o Matcher)
          \/ ready
      BY <1>7, <2>1 DEF Start
    <3>2. ASSUME NEW s \in IF RowOf(a) = {} THEN {None} ELSE RowOf(a)
          PROVE  /\ s \in SearchIds \cup {None}
                 /\ (IF s = None THEN None ELSE search[s].match) \in MatchIds \cup {None}
                 /\ (IF s = None THEN FALSE ELSE search[s].acc) \in BOOLEAN
      BY DEF TInv, PInv, IInv, TypeOK, SearchType, RowOf
    <3> QED BY <3>1, <3>2
  <2> QED BY <2>5, <2>7, <2>8
<1> QED BY <1>4, <1>5, <1>6, <1>7 DEF Player

\* behind the handling of a party only the matcher waits
LEMMA PartyHead ==
  ASSUME TInv, Enter \/ SyncParty \/ AddMember
  PROVE  /\ todo # <<>> /\ Head(todo).op \in Party /\ Head(todo) \in Task /\ Head(todo) \in Range(todo)
         /\ \A b \in Behind : b.op \notin Party
         /\ \A s : ~Leaving(s)
<1>1. todo # <<>> /\ Head(todo).op \in Party
  BY DEF Enter, SyncParty, AddMember, Now, Party
<1>2. \A b \in Behind : b.op = "scan"
  BY <1>1, BehindKinds DEF Party
<1>3. Range(todo) = {Head(todo)} \cup Behind
  BY <1>1, HeadAndBehind
<1> QED BY <1>1, <1>2, <1>3, Running DEF Party, Leaving

\* syncParty: members who are no longer in the party are told to leave before others are added
LEMMA SyncPartied == ASSUME TInv, [Next]_vars, Partied, SyncParty PROVE Partied'
<1>1. PICK t : t = Head(todo)
  OBVIOUS
<1>2. todo # <<>> /\ t.op = "sync" /\ t \in Task /\ t.l \in SearchIds /\ t.pend \subseteq Accounts /\ UNCHANGED search
  BY <1>1, PartyHead, TaskFields DEF SyncParty, Now
<1>3. Listed(t)
  BY <1>1, PartyHead DEF Partied
<1> DEFINE stay == {s \in Members(t.l) : search[s].acct \in t.pend}
<1>4. PICK away, absent : /\ away = Members(t.l) \ stay /\ absent = t.pend \ {search[s].acct : s \in stay}
  OBVIOUS
<1>5. Do(Leave(away, "CANCELLED", FALSE) \o IF absent = {} THEN <<>> ELSE <<[t EXCEPT !.op = "add", !.pend = absent]>>)
  BY <1>1, <1>4 DEF SyncParty
<1>6. PICK e : e = [t EXCEPT !.op = "add", !.pend = absent]
  OBVIOUS
<1>7. e.op = "add" /\ e.l = t.l /\ e.pend = absent /\ absent \subseteq t.pend
  BY <1>2, <1>4, <1>6 DEF Task
<1>8. away \in SUBSET SearchIds /\ \A s \in Members(t.l) : s \notin away => search[s].acct \in t.pend
  BY <1>4 DEF Members
<1> HIDE DEF stay
<1>9. PICK lv, gone : /\ lv = Leave(away, "CANCELLED", FALSE)
                      /\ gone = IF away = {} THEN {} ELSE {[op |-> "leave", pend |-> away, st |-> "CANCELLED", party |-> FALSE]}
  OBVIOUS
<1>10. PICK added : added = IF absent = {} THEN <<>> ELSE <<e>>
  OBVIOUS
<1>11. Do(lv \o added)
  BY <1>5, <1>6, <1>9, <1>10
<1>12. lv \o added \in Seq(gone \cup {e}) /\ gone \subseteq Range(lv \o added)
  <2>1. Queue(lv, gone)
    BY <1>8, <1>9, LeaveQueue DEF Finished
  <2>2. lv \in Seq(Task) /\ Range(lv) = gone
    BY <2>1 DEF Queue
  <2>3. \A i \in 1..Len(lv) : lv[i] \in gone
    BY <2>2, RangeEquality
  <2>4. lv \in Seq(gone)
    BY <2>2, <2>3
  <2>5. added \in Seq({e})
    <3>1. <<>> \in Seq({e}) /\ <<e>> \in Seq({e})
      OBVIOUS
    <3> QED BY <1>10, <3>1
  <2>6. lv \in Seq(gone \cup {e}) /\ added \in Seq(gone \cup {e})
    BY <2>4, <2>5
  <2> QED BY <2>2, <2>6, RangeConcatenation, ConcatProperties
<1>13. Range(todo') \subseteq gone \cup {e} \cup Behind /\ gone \subseteq Range(todo')
  <2>1. PICK S, tasks : S = gone \cup {e} /\ tasks = lv \o added
    OBVIOUS
  <2>2. tasks \in Seq(S) /\ Do(tasks) /\ gone \subseteq Range(tasks)
    BY <1>11, <1>12, <2>1
  <2>3. Range(todo') = Range(tasks) \cup Behind /\ Range(tasks) \subseteq S
    BY <1>2, <2>2, NextTasks
  <2> QED BY <2>1, <2>2, <2>3
<1>14. \A s \in away : Leaving(s)'
  BY <1>9, <1>13 DEF Leaving
<1>15. Members(t.l)' = Members(t.l)
  BY <1>2 DEF Members
<1>16. Who(Staying(t.l))' \subseteq t.pend
  BY <1>2, <1>8, <1>14, <1>15 DEF Who, Staying
<1>17. Listed(e)'
  <2>1. search[t.l].st # "NONE" /\ Named(search[t.l].acct, t.pend)
    BY <1>2, <1>3 DEF Listed
  <2>2. absent \cup Who(Staying(t.l))' \subseteq t.pend
    BY <1>7, <1>16
  <2>3. Named(search[t.l].acct, absent \cup Who(Staying(t.l))')
    BY <2>1, <2>2, NamedPart
  <2> QED BY <1>2, <1>7, <2>1, <2>3 DEF Listed, Named
<1>18. \A r \in Range(todo') : Listed(r)'
  <2>1. \A r \in gone \cup Behind : r.op \notin Party
    BY <1>9, PartyHead DEF Party
  <2>2. \A r \in gone \cup Behind : Listed(r)'
    BY <2>1 DEF Listed, Party
  <2> QED BY <1>13, <1>17, <2>2
<1>19. Counted'
  BY <1>1, <1>2, CountedKept DEF Partied, Enter, AddMember, Now
<1> QED BY <1>18, <1>19 DEF Partied

\* what a new row leaves of the other parties
LEMMA NewMember ==
  ASSUME TInv, NEW s \in FreshSearches, NEW row, row.st # "NONE", row.leader # s, search' = [search EXCEPT ![s] = row]
  PROVE  /\ s \in SearchIds /\ search[s].st = "NONE" /\ search'[s] = row
         /\ \A o \in SearchIds \ {s} : search'[o] = search[o]
         /\ Members(s)' = {}
         /\ \A l \in SearchIds : /\ s \notin Members(l)
                                 /\ Members(l)' \subseteq Members(l) \cup {s}
                                 /\ l # row.leader => Members(l)' = Members(l)
<1>1. s \in SearchIds /\ search[s].st = "NONE" /\ (\A o \in SearchIds : search[o].leader # s) /\ search \in [SearchIds -> SearchType]
  BY DEF FreshSearches, TInv, PInv, IInv, TypeOK
<1>2. search'[s] = row /\ \A o \in SearchIds \ {s} : search'[o] = search[o]
  BY <1>1
<1>3. Members(s)' = {}
  BY <1>1, <1>2 DEF Members
<1>4. ASSUME NEW l \in SearchIds
      PROVE  /\ s \notin Members(l) /\ Members(l)' \subseteq Members(l) \cup {s}
             /\ l # row.leader => Members(l)' = Members(l)
  BY <1>1, <1>2 DEF Members, Live
<1> QED BY <1>1, <1>2, <1>3, <1>4

\* a search that starts brings a party that was named in its call
LEMMA EnterPartied == ASSUME TInv, Partied, Enter PROVE Partied'
<1>1. PICK t : t = Head(todo)
  OBVIOUS
<1> DEFINE Sync(l) == [op |-> "sync", l |-> l, src |-> t.src, ask |-> t.ask, pend |-> t.pend]
<1>2. todo # <<>> /\ t.op = "enter" /\ t \in Task /\ t.a \in Accounts /\ t.own \in SearchIds \cup {None} /\ CanEnter(t)
  <2>1. todo # <<>> /\ t.op = "enter" /\ t \in Task /\ Sound(t)
    BY <1>1, Running DEF Enter, Now
  <2> QED BY <2>1, TaskFields DEF Sound
<1>3. Named(t.a, t.pend)
  <2>1. Listed(t)
    BY <1>1, PartyHead DEF Partied
  <2> QED BY <1>2, <2>1 DEF Listed
<1>4. search \in [SearchIds -> SearchType]
  BY DEF TInv, PInv, IInv, TypeOK
<1>5. ASSUME NEW l \in SearchIds, search'[l].st # "NONE", search'[l].acct = t.a, NEW K, K = {"leave", "left"},
             NEW p \in Seq(Kind(K)), Do(p \o <<Sync(l)>>)
      PROVE  \A r \in Range(todo') : Listed(r)'
  <2>1. PICK e : e = Sync(l)
    OBVIOUS
  <2>2. e.op = "sync" /\ e.l = l /\ e.pend = t.pend
    BY <2>1
  <2> HIDE DEF Sync
  <2>3. p \o <<e>> \in Seq(Kind(K) \cup {e}) /\ Do(p \o <<e>>)
    <3>1. p \in Seq(Kind(K) \cup {e}) /\ <<e>> \in Seq(Kind(K) \cup {e})
      OBVIOUS
    <3> QED BY <1>5, <2>1, <3>1
  <2>4. Range(todo') \subseteq Kind(K) \cup {e} \cup Behind
    <3>1. PICK S, tasks : S = Kind(K) \cup {e} /\ tasks = p \o <<e>>
      OBVIOUS
    <3>2. tasks \in Seq(S) /\ Do(tasks)
      BY <2>3, <3>1
    <3>3. Range(todo') = Range(tasks) \cup Behind /\ Range(tasks) \subseteq S
      BY <1>1, <1>2, <3>2, NextTasks
    <3> QED BY <3>1, <3>3
  <2>5. Listed(e)'
    BY <1>3, <1>5, <2>2 DEF Listed, Named
  <2>6. \A r \in Kind(K) \cup Behind : Listed(r)'
    BY <1>5, PartyHead DEF Kind, Listed, Party
  <2> QED BY <2>4, <2>5, <2>6
<1>6. CASE t.own = None
  <2>1. PICK s \in FreshSearches : /\ search' = [search EXCEPT ![s] = NewSearch(t.a, t.r, t.src, t.ask, None)]
                                   /\ Do(<<Sync(s)>>)
    BY <1>1, <1>6 DEF Enter
  <2>2. PICK row : row = NewSearch(t.a, t.r, t.src, t.ask, None)
    OBVIOUS
  <2>3. row.st = "SEARCHING" /\ row.acct = t.a /\ row.leader = None
    BY <2>2 DEF NewSearch, NoSearch
  <2>4. s \in SearchIds /\ row.leader # s
    BY <2>3, NoneAssumption DEF FreshSearches
  <2>5. /\ search[s].st = "NONE" /\ search'[s] = row /\ (\A o \in SearchIds \ {s} : search'[o] = search[o])
        /\ Members(s)' = {}
        /\ \A l \in SearchIds : s \notin Members(l) /\ Members(l)' = Members(l)
    <3>1. search' = [search EXCEPT ![s] = row] /\ row.st # "NONE" /\ row.leader # s
      BY <2>1, <2>2, <2>3, <2>4
    <3>2. /\ s \in SearchIds /\ search[s].st = "NONE" /\ search'[s] = row /\ (\A o \in SearchIds \ {s} : search'[o] = search[o])
          /\ Members(s)' = {}
          /\ \A l \in SearchIds : /\ s \notin Members(l)
                                  /\ Members(l)' \subseteq Members(l) \cup {s}
                                  /\ l # row.leader => Members(l)' = Members(l)
      BY <3>1, NewMember
    <3> QED BY <2>3, <3>2, NoneAssumption
  <2>6. Counted'
    <3> SUFFICES ASSUME NEW l \in SearchIds, search'[l].st # "NONE"
                 PROVE  search'[l].acct \in Accounts /\ Named(search'[l].acct, Who(Members(l))')
      BY DEF Counted, Named
    <3>1. CASE l = s
      <4>1. Who(Members(l))' = {}
        BY <2>5, <3>1 DEF Who
      <4> QED BY <1>2, <2>3, <2>5, <3>1, <4>1 DEF Named
    <3>2. CASE l # s
      <4>1. Members(l)' = Members(l) /\ s \notin Members(l) /\ Members(l) \subseteq SearchIds
        BY <2>5 DEF Members
      <4>2. Who(Members(l))' = Who(Members(l))
        BY <2>5, <4>1 DEF Who
      <4> QED BY <2>5, <3>2, <4>2 DEF Partied, Counted
    <3> QED BY <3>1, <3>2
  <2>7. \A r \in Range(todo') : Listed(r)'
    <3>1. PICK K : K = {"leave", "left"}
      OBVIOUS
    <3>2. <<>> \in Seq(Kind(K)) /\ Do(<<>> \o <<Sync(s)>>)
      BY <2>1
    <3> QED BY <1>5, <2>3, <2>4, <2>5, <3>1, <3>2
  <2> QED BY <2>6, <2>7 DEF Partied
<1>7. CASE t.own # None
  <2>1. /\ search' = [search EXCEPT ![t.own] = NewSearch(t.a, t.r, t.src, t.ask, @.leader)]
        /\ Do(Leave(IF t.acc THEN {} ELSE Members(t.own), "CANCELLED", FALSE) \o Left(t.m, t.acc) \o <<Sync(t.own)>>)
    BY <1>1, <1>7 DEF Enter
  <2>2. PICK row : row = NewSearch(t.a, t.r, t.src, t.ask, search[t.own].leader)
    OBVIOUS
  <2>3. row.st = "SEARCHING" /\ row.acct = t.a /\ row.leader = search[t.own].leader
    BY <2>2 DEF NewSearch, NoSearch
  <2>4. t.own \in SearchIds /\ search[t.own].st \in Live /\ search[t.own].acct = t.a
    BY <1>2, <1>7 DEF CanEnter, RowOf
  <2>5. search'[t.own] = row /\ \A o \in SearchIds \ {t.own} : search'[o] = search[o]
    BY <1>4, <2>1, <2>2, <2>4
  <2>6. \A o \in SearchIds : /\ search'[o].acct = search[o].acct /\ search'[o].leader = search[o].leader
                             /\ search'[o].st \in Live <=> search[o].st \in Live
                             /\ search'[o].st = "NONE" <=> search[o].st = "NONE"
    BY <2>3, <2>4, <2>5 DEF Live
  <2>7. Counted'
    <3>1. \A l : Members(l)' = Members(l) /\ Members(l) \subseteq SearchIds
      BY <2>6 DEF Members
    <3>2. \A l : Who(Members(l))' = Who(Members(l))
      BY <2>6, <3>1 DEF Who
    <3> QED BY <2>6, <3>2 DEF Partied, Counted, Named
  <2>8. \A r \in Range(todo') : Listed(r)'
    <3>1. PICK K : K = {"leave", "left"}
      OBVIOUS
    <3>2. Leave(IF t.acc THEN {} ELSE Members(t.own), "CANCELLED", FALSE) \in Seq(Kind(K))
      BY <3>1, Pieces DEF Finished, Members
    <3>3. Left(t.m, t.acc) \in Seq(Kind(K))
      BY <1>2, <3>1, TaskFields, Pieces
    <3>4. Leave(IF t.acc THEN {} ELSE Members(t.own), "CANCELLED", FALSE) \o Left(t.m, t.acc) \in Seq(Kind(K))
      BY <3>2, <3>3, Pieces
    <3> HIDE DEF Sync
    <3> QED BY <1>5, <2>1, <2>3, <2>4, <2>5, <3>1, <3>4
  <2> QED BY <2>7, <2>8 DEF Partied
<1> QED BY <1>6, <1>7

\* a member is added to the row of a leader who named it, among those who stay
LEMMA AddPartied == ASSUME TInv, Partied, AddMember PROVE Partied'
<1>1. PICK t : t = Head(todo)
  OBVIOUS
<1>2. todo # <<>> /\ t.op = "add" /\ t \in Task /\ t.l \in SearchIds /\ t.pend \subseteq Accounts
  BY <1>1, PartyHead, TaskFields DEF AddMember, Now
<1>3. search[t.l].st # "NONE" /\ Named(search[t.l].acct, t.pend \cup Who(Members(t.l)))
  <2>1. Listed(t)
    BY <1>1, PartyHead DEF Partied
  <2>2. Staying(t.l) = Members(t.l)
    BY PartyHead DEF Staying
  <2> QED BY <1>2, <2>1, <2>2 DEF Listed
<1>4. search \in [SearchIds -> SearchType]
  BY DEF TInv, PInv, IInv, TypeOK
<1>5. PICK a \in t.pend :
        \/ RowOf(a) # {} /\ Do(Leave(RowOf(a), "CANCELLED", TRUE) \o <<t>>) /\ UNCHANGED search
        \/ \E s \in FreshSearches : /\ search' = [search EXCEPT ![s] = NewSearch(a, None, t.src, t.ask, t.l)]
                                    /\ Do(<<[op |-> "tag", s |-> s]>> \o Rest(t, a))
  BY <1>1 DEF AddMember
<1>6. ASSUME NEW e, e.op = "add", e.l = t.l, e.pend \subseteq t.pend, NEW K, K = {"leave", "tag"},
             NEW p \in Seq(Kind(K)), NEW q \in Seq({e}), Do(p \o q), search'[t.l].st # "NONE",
             search'[t.l].acct = search[t.l].acct, Who(Staying(t.l))' \subseteq t.pend \cup Who(Members(t.l))
      PROVE  \A r \in Range(todo') : Listed(r)'
  <2>1. PICK S, tasks : S = Kind(K) \cup {e} /\ tasks = p \o q
    OBVIOUS
  <2>2. p \in Seq(S) /\ q \in Seq(S)
    BY <2>1
  <2>3. tasks \in Seq(S) /\ Do(tasks)
    BY <1>6, <2>1, <2>2
  <2>4. Range(todo') = Range(tasks) \cup Behind /\ Range(tasks) \subseteq S
    BY <1>2, <2>3, NextTasks
  <2>5. e.pend \cup Who(Staying(t.l))' \subseteq t.pend \cup Who(Members(t.l))
    BY <1>6
  <2>6. Named(search[t.l].acct, e.pend \cup Who(Staying(t.l))')
    BY <1>3, <2>5, NamedPart
  <2>7. Listed(e)'
    BY <1>6, <2>6 DEF Listed, Named
  <2>8. \A r \in Kind(K) \cup Behind : Listed(r)'
    BY <1>6, PartyHead DEF Kind, Listed, Party
  <2> QED BY <2>1, <2>4, <2>7, <2>8
<1>7. PICK K : K = {"leave", "tag"}
  OBVIOUS
<1>8. CASE RowOf(a) # {} /\ Do(Leave(RowOf(a), "CANCELLED", TRUE) \o <<t>>) /\ UNCHANGED search
  <2>1. Leave(RowOf(a), "CANCELLED", TRUE) \in Seq(Kind(K)) /\ <<t>> \in Seq({t})
    <3>1. Leave(RowOf(a), "CANCELLED", TRUE) \in Seq(Kind(K))
      BY <1>7, Pieces DEF RowOf, Finished
    <3>2. <<t>> \in Seq({t})
      OBVIOUS
    <3> QED BY <3>1, <3>2
  <2>2. Members(t.l)' = Members(t.l)
    BY <1>8 DEF Members
  <2>3. Who(Staying(t.l))' \subseteq Who(Members(t.l))
    BY <1>8, <2>2 DEF Who, Staying
  <2>4. \A r \in Range(todo') : Listed(r)'
    BY <1>2, <1>3, <1>6, <1>7, <1>8, <2>1, <2>3
  <2>5. Counted'
    BY <1>8 DEF Partied, Counted, Named, Who, Members
  <2> QED BY <2>4, <2>5 DEF Partied
<1>9. ASSUME NEW s \in FreshSearches, search' = [search EXCEPT ![s] = NewSearch(a, None, t.src, t.ask, t.l)],
             Do(<<[op |-> "tag", s |-> s]>> \o Rest(t, a))
      PROVE  Partied'
  <2>1. PICK row : row = NewSearch(a, None, t.src, t.ask, t.l)
    OBVIOUS
  <2>2. row.st = "SEARCHING" /\ row.acct = a /\ row.leader = t.l
    BY <2>1 DEF NewSearch, NoSearch
  <2>3. t.l # s
    BY <1>2, <1>3 DEF FreshSearches
  <2>4. /\ s \in SearchIds /\ search'[s] = row /\ (\A o \in SearchIds \ {s} : search'[o] = search[o])
        /\ Members(s)' = {}
        /\ \A l \in SearchIds : /\ s \notin Members(l)
                                /\ Members(l)' \subseteq Members(l) \cup {s}
                                /\ l # row.leader => Members(l)' = Members(l)
    <3>1. search' = [search EXCEPT ![s] = row] /\ row.st # "NONE" /\ row.leader # s
      BY <1>9, <2>1, <2>2, <2>3
    <3> QED BY <3>1, NewMember
  <2>5. \A l \in SearchIds : Who(Members(l))' \subseteq Who(Members(l)) \cup {a}
    <3>1. \A l \in SearchIds : \A o \in Members(l)' : o = s \/ (o \in Members(l) /\ search'[o].acct = search[o].acct)
      BY <2>4 DEF Members
    <3> QED BY <2>2, <2>4, <3>1 DEF Who
  <2>6. Counted'
    <3> SUFFICES ASSUME NEW l \in SearchIds, search'[l].st # "NONE"
                 PROVE  search'[l].acct \in Accounts /\ Named(search'[l].acct, Who(Members(l))')
      BY DEF Counted, Named
    <3>1. CASE l = s
      <4>1. Who(Members(l))' = {}
        BY <2>4, <3>1 DEF Who
      <4> QED BY <1>2, <2>2, <2>4, <3>1, <4>1 DEF Named
    <3>2. CASE l = t.l
      <4>1. Who(Members(l))' \subseteq t.pend \cup Who(Members(l))
        BY <2>5
      <4>2. search'[l] = search[l]
        BY <2>3, <2>4, <3>2
      <4>3. Named(search[l].acct, Who(Members(l))')
        BY <1>3, <3>2, <4>1, NamedPart
      <4> QED BY <1>3, <3>2, <4>2, <4>3 DEF Partied, Counted
    <3>3. CASE l # s /\ l # t.l
      <4>1. Members(l)' = Members(l) /\ s \notin Members(l) /\ Members(l) \subseteq SearchIds /\ search'[l] = search[l]
        BY <2>2, <2>4, <3>3 DEF Members
      <4>2. Who(Members(l))' = Who(Members(l))
        BY <2>4, <4>1 DEF Who
      <4> QED BY <4>1, <4>2 DEF Partied, Counted
    <3> QED BY <3>1, <3>2, <3>3
  <2>7. \A r \in Range(todo') : Listed(r)'
    <3>1. PICK tag : tag = [op |-> "tag", s |-> s]
      OBVIOUS
    <3>2. tag \in Kind(K)
      BY <1>7, <2>4, <3>1 DEF Kind, Task
    <3>3. <<tag>> \in Seq(Kind(K))
      BY <3>2
    <3>4. PICK e : e = [t EXCEPT !.pend = @ \ {a}]
      OBVIOUS
    <3>5. e.op = "add" /\ e.l = t.l /\ e.pend \subseteq t.pend
      BY <1>2, <3>4 DEF Task
    <3>6. Rest(t, a) \in Seq({e})
      <4>1. <<>> \in Seq({e}) /\ <<e>> \in Seq({e})
        OBVIOUS
      <4> QED BY <3>4, <4>1 DEF Rest
    <3>7. Who(Staying(t.l))' \subseteq Who(Members(t.l))'
      BY DEF Who, Staying
    <3>8. Who(Staying(t.l))' \subseteq t.pend \cup Who(Members(t.l))
      BY <1>2, <2>5, <3>7
    <3>9. search'[t.l] = search[t.l] /\ Do(<<tag>> \o Rest(t, a))
      BY <1>2, <1>9, <2>3, <2>4, <3>1
    <3> QED BY <1>3, <1>6, <1>7, <3>3, <3>5, <3>6, <3>8, <3>9
  <2> QED BY <2>6, <2>7 DEF Partied
<1> QED BY <1>5, <1>8, <1>9

\* nothing else touches parties
LEMMA NextPartied == TInv /\ Partied /\ [Next]_vars => Partied'
<1> SUFFICES ASSUME TInv, Partied, [Next]_vars PROVE Partied' OBVIOUS
<1>1. CASE Step
  BY <1>1, PlainPartied, EnterPartied, SyncPartied, AddPartied
<1>2. CASE Player
  BY <1>2, CallPartied
<1>3. ASSUME todo = <<>>, NEW K, NEW tasks \in Seq(Kind(K)), Begin(tasks), K \cap Party = {} PROVE Partied'
  <2>1. ~Enter /\ ~AddMember
    BY <1>3 DEF Enter, AddMember, Now
  <2> QED BY <1>3, <2>1, PartiedBegins
<1>4. CASE Operator \/ GameServer
  <2>1. ASSUME NEW v \in Servers, NEW m \in MatchIds, ConfirmRoster(v, m) PROVE Partied'
    <3>1. Assign(m) \in Seq(Kind({"assign"})) /\ <<>> \in Seq(Kind({"assign"}))
      BY Pieces
    <3>2. Begin(Assign(m)) \/ Begin(<<>>)
      BY <2>1 DEF ConfirmRoster
    <3>3. todo = <<>> /\ {"assign"} \cap Party = {}
      BY <3>2 DEF Begin, Party
    <3> QED BY <1>3, <3>1, <3>2, <3>3
  <2>2. ASSUME NEW tasks \in Seq(Kind({"scan", "set", "end"})), Begin(tasks) PROVE Partied'
    <3>1. todo = <<>> /\ {"scan", "set", "end"} \cap Party = {}
      BY <2>2 DEF Begin, Party
    <3> QED BY <1>3, <2>2, <3>1
  <2> QED BY <1>4, <2>1, <2>2, ServerCallPuts
<1>5. CASE FakePlayers \/ Time
  <2>1. Begin(Matcher) \/ Begin(Tick) \/ Begin(<<>>)
    BY <1>5 DEF FakePlayers, SetFakeMaster, WriteProfile, Time, RunTick, CooldownOver, PollWindowOver
  <2>2. /\ Matcher \in Seq(Kind({"scan"})) /\ Tick \in Seq(Kind({"scan"})) /\ <<>> \in Seq(Kind({"scan"}))
        /\ {"scan"} \cap Party = {} /\ todo = <<>>
    BY <2>1, ScanFirst, Pieces DEF Party, Begin
  <2> QED BY <1>3, <2>1, <2>2
<1>6. CASE Crash \/ UNCHANGED vars
  <2>1. UNCHANGED search
    BY <1>6 DEF Crash, vars
  <2>2. Counted'
    BY <2>1 DEF Partied, Counted, Named, Who, Members
  <2>3. CASE Crash
    <3>1. Range(todo') = {}
      BY <2>3, ShortQueue DEF Crash, Queue
    <3> QED BY <2>2, <3>1 DEF Partied
  <2>4. CASE UNCHANGED vars
    <3>1. UNCHANGED search /\ UNCHANGED todo
      BY <2>4 DEF vars
    <3>2. \A l : Staying(l)' = Staying(l) /\ Staying(l) \subseteq SearchIds
      BY <3>1 DEF Staying, Members, Leaving
    <3>3. \A l : Who(Staying(l))' = Who(Staying(l))
      BY <3>1, <3>2 DEF Who
    <3>4. \A t : Listed(t) => Listed(t)'
      BY <3>1, <3>3 DEF Listed, Named
    <3> QED BY <2>2, <3>1, <3>4 DEF Partied
  <2> QED BY <1>6, <2>3, <2>4
<1> QED BY <1>1, <1>2, <1>4, <1>5, <1>6 DEF Next

\* a party that was named fits into a match
LEMMA SmallFit == ASSUME SmallParties, TInv, Counted PROVE PartiesFit
<1> SUFFICES ASSUME NEW s \in Unplaced, search[s].ask.mode \in AcceptModes
             PROVE  PartySize(s) <= Required[search[s].ask.mode]
  BY DEF PartiesFit
<1>1. PICK a, n : a = search[s].acct /\ n = Required[search[s].ask.mode]
  OBVIOUS
<1>2. s \in SearchIds /\ search[s].st # "NONE" /\ search \in [SearchIds -> SearchType]
  BY DEF Unplaced, TInv, PInv, IInv, TypeOK
<1>3. a \in Accounts /\ Named(a, Who(Members(s)))
  BY <1>1, <1>2 DEF Counted
<1>4. n \in Nat \ {0}
  BY <1>1, ModesAssumption
<1>5. Cardinality(Who(Members(s))) = Cardinality(Members(s)) /\ IsFiniteSet(Members(s)) /\ Cardinality(Members(s)) \in Nat
  <2>1. PICK f : f = [o \in Members(s) |-> search[o].acct]
    OBVIOUS
  <2>2. f \in Bijection(Members(s), Who(Members(s)))
    <3>1. f \in [Members(s) -> Who(Members(s))] /\ \A w \in Who(Members(s)) : \E o \in Members(s) : f[o] = w
      BY <2>1 DEF Who
    <3>2. \A o, u \in Members(s) : f[o] = f[u] => o = u
      BY <2>1 DEF Members, TInv, Rows, OneRow
    <3> QED BY <3>1, <3>2 DEF Bijection, Injection, IsInjective, Surjection
  <2>3. IsFiniteSet(Members(s)) /\ Cardinality(Members(s)) \in Nat
    BY PartyCount
  <2> QED BY <2>2, <2>3, FS_Bijection DEF ExistsBijection
<1>6. CASE Who(Members(s)) = {}
  <2>1. Cardinality(Members(s)) = 0
    BY <1>5, <1>6, FS_EmptySet
  <2> QED BY <1>1, <1>4, <2>1 DEF PartySize
<1>7. CASE Who(Members(s)) # {}
  <2>1. PICK p \in Parties[a] : p # None /\ Who(Members(s)) \subseteq p \ {a}
    BY <1>3, <1>7 DEF Named
  <2>2. IsFiniteSet(p) /\ Cardinality(p \cup {a}) <= n
    BY <1>1, <1>3, <2>1 DEF SmallParties
  <2>3. IsFiniteSet(p \ {a}) /\ IsFiniteSet(p \cup {a})
    BY <2>2, FS_Difference, FS_AddElement
  <2>4. Cardinality((p \ {a}) \cup {a}) = Cardinality(p \ {a}) + 1
    BY <2>3, FS_AddElement
  <2>5. (p \ {a}) \cup {a} = p \cup {a}
    OBVIOUS
  <2>6. Cardinality(Who(Members(s))) <= Cardinality(p \ {a})
    BY <2>1, <2>3, FS_Subset
  <2>7. Cardinality(p \ {a}) \in Nat
    BY <2>3, FS_CardinalityType
  <2> QED BY <1>1, <1>4, <1>5, <2>2, <2>4, <2>5, <2>6, <2>7 DEF PartySize
<1> QED BY <1>6, <1>7

\* NeverOverfilled: for any modes, accounts and profiles, and through any restarts, as long as no client
\* names a party that is larger than a match (SearchService does not check it: place creates a match for
\* any party), no match that gathers ever holds more players than its mode takes, whoever joins, leaves
\* and comes back, and however parties change (NoOverfill: syncParty, place, join, applyFakeProfiles,
\* memberLeft).
THEOREM NeverOverfilled == ASSUME SmallParties PROVE Spec => []NoOverfill
<1>1. Init => Partied
  <2> SUFFICES ASSUME Init PROVE Partied
    OBVIOUS
  <2>1. todo = <<>> /\ \A s \in SearchIds : search[s].st = "NONE"
    BY DEF Init, NoSearch
  <2>2. Range(todo) = {}
    BY <2>1, ShortQueue DEF Queue
  <2> QED BY <2>1, <2>2 DEF Partied, Counted
<1>2. TInv /\ Partied => PartiesFit
  BY SmallFit DEF Partied
<1> QED BY <1>1, <1>2, InitTInv, NextTInv, NextPartied, RoomAlways, PTL DEF Spec

-----------------------------------------------------------------------------
(* Nobody is left out of a run of the matcher. *)

\* a player who searches is in no match, and the match a live row is in has not been forgotten
Known ==
  \A s \in SearchIds :
    /\ search[s].st = "SEARCHING" => search[s].match = None
    /\ search[s].st \in Live /\ search[s].match # None => match[search[s].match].st # "NONE"

\* what becomes of a row and its match
Unmoved(s)  == /\ search'[s].match = search[s].match
               /\ \/ search'[s].st = search[s].st
                  \/ search[s].st \in Live /\ search'[s].st # "SEARCHING"
Unmatched(s) == search'[s].st = "SEARCHING" /\ search'[s].match = None
Joined(s)   == /\ search[s].st \in Live /\ search'[s].st = "MATCHED" /\ search'[s].match \in MatchIds
               /\ match[search'[s].match].st = "FORMING" /\ UNCHANGED match

LEMMA RowMoves ==
  ASSUME TInv, [Next]_vars, NEW s \in SearchIds
  PROVE  search'[s].st \notin Live \/ Unmoved(s) \/ Unmatched(s) \/ Joined(s)
<1> DEFINE Moves == search'[s].st \notin Live \/ Unmoved(s) \/ Unmatched(s) \/ Joined(s)
<1>1. search \in [SearchIds -> SearchType]
  BY DEF TInv, PInv, IInv, TypeOK
<1>2. CASE UNCHANGED search
  BY <1>2 DEF Unmoved
<1>3. CASE Step
  <2>1. CASE PromoteAccepted
    <3>1. Unmoved(s)
      BY <1>1, <2>1 DEF PromoteAccepted, SearchType, Live, Unmoved
    <3> QED BY <3>1
  <2>2. CASE Retire \/ LeaveRow
    <3>1. ASSUME NEW o, NEW st \in Finished, Finish(o, st) PROVE Unmoved(s)
      BY <1>1, <3>1 DEF Finish, Finished, SearchType, Live, Unmoved
    <3>2. LeaveRow => Head(todo).st \in Finished
      BY Running, TaskFields DEF LeaveRow, Now
    <3>3. Unmoved(s)
      BY <2>2, <3>1, <3>2 DEF Retire, LeaveRow, Finished
    <3> QED BY <3>3
  <2>3. CASE DissolveRow
    <3>1. PICK o \in Head(todo).pend : Unplace(o)
      BY <2>3 DEF DissolveRow
    <3>2. Unmoved(s) \/ Unmatched(s)
      BY <1>1, <3>1 DEF Unplace, SearchType, Unmoved, Unmatched
    <3> QED BY <3>2
  <2>4. CASE DeleteOld
    <3>1. search'[s] = NoSearch \/ search'[s] = search[s]
      BY <2>4 DEF DeleteOld
    <3>2. NoSearch.st \notin Live
      BY DEF NoSearch, Live
    <3> QED BY <3>1, <3>2 DEF Unmoved
  <2>5. CASE TagMember
    <3>1. Unmoved(s)
      BY <1>1, <2>5 DEF TagMember, SearchType, Unmoved
    <3> QED BY <3>1
  <2>6. CASE Enter \/ AddMember
    <3>1. ASSUME NEW o, NEW row, search' = [search EXCEPT ![o] = row], row.match = None, row.st = "SEARCHING"
          PROVE  Unmoved(s) \/ Unmatched(s)
      BY <1>1, <3>1 DEF Unmoved, Unmatched
    <3>2. PICK t : t = Head(todo)
      OBVIOUS
    <3>3. \A a, r, src, ask, l : NewSearch(a, r, src, ask, l).match = None /\ NewSearch(a, r, src, ask, l).st = "SEARCHING"
      BY DEF NewSearch, NoSearch
    <3>4. Enter =>
            \/ \E o \in FreshSearches : search' = [search EXCEPT ![o] = NewSearch(t.a, t.r, t.src, t.ask, None)]
            \/ search' = [search EXCEPT ![t.own] = NewSearch(t.a, t.r, t.src, t.ask, search[t.own].leader)]
      BY <3>2 DEF Enter
    <3>5. AddMember =>
            \/ UNCHANGED search
            \/ \E a \in t.pend, o \in FreshSearches : search' = [search EXCEPT ![o] = NewSearch(a, None, t.src, t.ask, t.l)]
      BY <3>2 DEF AddMember
    <3> QED BY <1>2, <2>6, <3>1, <3>3, <3>4, <3>5
  <2>7. CASE AssignRow
    <3>1. PICK t : t = Head(todo) /\ t.op = "assign" /\ t \in Task /\ Sound(t)
      BY <2>7, Running DEF AssignRow, Now
    <3>2. PICK o \in t.pend : Place(o, t.m, AssignedStatus(t.m))
      BY <2>7, <3>1 DEF AssignRow
    <3>3. o \in LiveRows(t.m) /\ AssignedStatus(t.m) # "SEARCHING"
      BY <3>1, <3>2 DEF Sound, CanAssign, AssignedStatus
    <3>4. Unmoved(s)
      BY <1>1, <3>2, <3>3 DEF Place, LiveRows, SearchType, Unmoved
    <3> QED BY <3>4
  <2>8. CASE JoinMatch \/ GatherParty
    <3>1. PICK t : t = Head(todo) /\ t.op \in {"join", "gather"} /\ t \in Task /\ Sound(t)
      BY <2>8, Running DEF JoinMatch, GatherParty, Now
    <3>2. t.m \in MatchIds /\ match[t.m].st = "FORMING" /\ UNCHANGED match
      BY <2>8, <3>1, TaskFields DEF Sound, CanJoin, CanGather, JoinMatch, GatherParty
    <3>3. UNCHANGED search \/ \E o : Place(o, t.m, "MATCHED")
      BY <2>8, <3>1 DEF JoinMatch, GatherParty
    <3>4. ASSUME NEW o, Place(o, t.m, "MATCHED") PROVE Unmoved(s) \/ Joined(s)
      BY <1>1, <3>2, <3>4 DEF Place, SearchType, Unmoved, Joined
    <3> QED BY <1>2, <3>3, <3>4
  <2>9. CASE Scan \/ Breakup \/ Lapse \/ ReleaseOrphan \/ MemberLeft \/ End \/ Release \/ SetServer \/ ReleaseAbandoned
    BY <1>2, <2>9 DEF Scan, Breakup, Lapse, ReleaseOrphan, MemberLeft, End, Release, SetServer, ReleaseAbandoned
  <2>10. CASE SyncParty \/ PlaceSearch \/ CompleteMatch \/ FillMatch \/ ReserveServer \/ PromoteMatch \/ StartAccepting \/ MarkAccepted
    BY <1>2, <2>10 DEF SyncParty, PlaceSearch, CompleteMatch, FillMatch, ReserveServer, PromoteMatch, StartAccepting, MarkAccepted
  <2> HIDE DEF Moves
  <2>11. Moves
    BY <1>3, <2>1, <2>2, <2>3, <2>4, <2>5, <2>6, <2>7, <2>8, <2>9, <2>10 DEF Step, Moves
  <2> QED BY <2>11 DEF Moves
<1>4. CASE Player
  <2>1. ASSUME NEW o \in SearchIds, NEW r, Accept(o, r) PROVE Unmoved(s)
    BY <1>1, <2>1 DEF Accept, SearchType, Unmoved
  <2>2. UNCHANGED search \/ \E o \in SearchIds : \E r \in Asked(o) : Accept(o, r)
    BY <1>4 DEF Player, Start, Poll, Remove, Cancel
  <2> QED BY <1>2, <2>1, <2>2
<1>5. CASE Operator \/ GameServer \/ FakePlayers \/ Time \/ Crash \/ UNCHANGED vars
  BY <1>2, <1>5 DEF Operator, SetServerState, DeleteServer, EditServer, CreateServer, EnableServer, GameServer,
     RosterForServer, ConfirmRoster, Report, FakePlayers, SetFakeMaster, WriteProfile, Time, RunTick, CooldownOver,
     PollWindowOver, Crash, vars
<1> QED BY <1>3, <1>4, <1>5 DEF Next

\* only the retention forgets a match, and none that has players
LEMMA MatchRemembered ==
  ASSUME TInv, [Next]_vars, NEW m \in MatchIds, match[m].st # "NONE", match'[m].st = "NONE"
  PROVE  DeleteOld /\ LiveRows(m) = {}
<1>1. match \in [MatchIds -> MatchType] /\ match' # match
  BY DEF TInv, PInv, IInv, TypeOK
<1>2. \/ DeleteOld \/ MemberLeft \/ End \/ PlaceSearch \/ CompleteMatch \/ FillMatch \/ ReserveServer
      \/ StartAccepting \/ MarkAccepted
  BY <1>1, MatchWriters
<1>3. ~MemberLeft /\ ~CompleteMatch /\ ~StartAccepting /\ ~MarkAccepted
  BY <1>1 DEF MemberLeft, CompleteMatch, StartAccepting, MarkAccepted, MatchType
<1>4. ~End
  <2>1. End => Head(todo).st \in Over
    BY Running, TaskFields DEF End, Now
  <2> QED BY <1>1, <2>1 DEF End, MatchType, Over
<1>5. ~PlaceSearch
  BY <1>1 DEF PlaceSearch, PlaceAccept, PlaceClassic, NewMatch, NoMatch
<1>6. ~FillMatch
  <2> SUFFICES ASSUME FillMatch PROVE FALSE OBVIOUS
  <2>1. PICK k \in Head(todo).pend : \E p \in Best(Fitting(k)) : \E n :
               match' = [match EXCEPT ![k].prof = p, ![k].fake = n]
    BY <1>1 DEF FillMatch
  <2> QED BY <1>1, <2>1 DEF MatchType
<1>7. ~ReserveServer
  <2> SUFFICES ASSUME ReserveServer PROVE FALSE OBVIOUS
  <2>1. PICK k \in Head(todo).pend : \E v \in Candidates(k) :
               match' = [match EXCEPT ![k].st = "READY", ![k].sv = v, ![k].map = server[v].map]
    BY <1>1 DEF ReserveServer
  <2> QED BY <1>1, <2>1 DEF MatchType
<1>8. DeleteOld
  BY <1>2, <1>3, <1>4, <1>5, <1>6, <1>7
<1> QED BY <1>8 DEF DeleteOld, OldMatches

LEMMA NextKnown == ASSUME TInv, Known, [Next]_vars PROVE Known'
<1> SUFFICES ASSUME NEW s \in SearchIds
             PROVE  /\ search'[s].st = "SEARCHING" => search'[s].match = None
                    /\ search'[s].st \in Live /\ search'[s].match # None => match'[search'[s].match].st # "NONE"
  BY DEF Known
<1>1. search'[s].st \notin Live \/ Unmoved(s) \/ Unmatched(s) \/ Joined(s)
  BY RowMoves
<1>2. "SEARCHING" \in Live /\ search[s].match \in MatchIds \cup {None}
  BY DEF Live, TInv, PInv, IInv, TypeOK, SearchType
<1>3. CASE search'[s].st \notin Live
  BY <1>2, <1>3
<1>4. CASE Unmatched(s)
  BY <1>4 DEF Unmatched
<1>5. CASE Joined(s)
  BY <1>5 DEF Joined
<1>6. CASE Unmoved(s)
  <2>1. search'[s].st = "SEARCHING" => search'[s].match = None
    BY <1>6 DEF Unmoved, Known
  <2>2. ASSUME search'[s].st \in Live, search'[s].match # None PROVE match'[search'[s].match].st # "NONE"
    <3>1. PICK m : m = search[s].match
      OBVIOUS
    <3>2. m \in MatchIds /\ search'[s].match = m /\ match[m].st # "NONE" /\ s \in LiveRows(m)
      BY <1>2, <1>6, <2>2, <3>1 DEF Unmoved, Known, LiveRows
    <3> QED BY <3>2, MatchRemembered
  <2> QED BY <2>1, <2>2
<1> QED BY <1>1, <1>3, <1>4, <1>5, <1>6

\* the matcher has come past the placing, and what the tasks of this part of it are
Late(t) == t.op = "scan" /\ t.at > PlacePhase
Forward == {"scan", "place", "join", "gather", "full", "reserve", "assign", "accepted", "connect", "fill", "promote"}
\* this task will look at the search
Awaits(t, s) ==
  \/ t.op = "place" /\ s \in t.pend
  \/ t.op = "join" /\ t.s = s
\* a search that waits for itself, or as the leader of its party, and could be served
Servable(s) ==
  /\ search[s].st = "SEARCHING" /\ search[s].leader = None /\ search[s].ask.mode \in AcceptModes
  /\ CanServe(search[s].ask.mode, Allowed(search[s].ask.maps), None)
\* from there on nothing ends any more, and who has not been looked at will be
Looked ==
  (\E t \in Range(todo) : Late(t)) =>
    /\ \A t \in Range(todo) : t.op \in Forward
    /\ FreshMatches # {} => \A s \in SearchIds : Servable(s) => \E t \in Range(todo) : Awaits(t, s)

\* no handler starts so late
LEMMA CallsLook == ASSUME TInv, Player \/ Operator \/ GameServer \/ FakePlayers \/ Time PROVE todo = <<>> /\ Looked'
<1>1. /\ \A t \in Range(Matcher) : ~Late(t)
      /\ \A t \in Range(Tick) : ~Late(t)
      /\ Matcher \in Seq(Kind({"scan"}))
  <2>1. PICK e, f : e = [op |-> "scan", at |-> PlacePhase] /\ f = [op |-> "scan", at |-> FirstPhase]
    OBVIOUS
  <2>2. Matcher = <<e>> /\ Tick = <<f>>
    BY <2>1 DEF Matcher, Tick
  <2>3. ~Late(e) /\ ~Late(f)
    BY <2>1 DEF Late, PlacePhase, FirstPhase
  <2>4. <<e>> \in Seq({e}) /\ <<f>> \in Seq({f})
    OBVIOUS
  <2>5. Range(<<e>>) \subseteq {e} /\ Range(<<f>>) \subseteq {f}
    BY <2>4, RangeOfSeq
  <2> QED BY <2>2, <2>3, <2>5, ScanFirst
<1>2. ASSUME NEW K, "scan" \notin K, NEW p \in Seq(Kind(K)), Begin(p) \/ Begin(p \o Matcher)
      PROVE  todo = <<>> /\ Looked'
  <2>1. Range(p) \subseteq Kind(K) /\ Matcher \in Seq(Task) /\ p \in Seq(Task)
    BY <1>1, RangeOfSeq DEF Kind
  <2>2. Range(p \o Matcher) = Range(p) \cup Range(Matcher)
    BY <2>1, RangeConcatenation
  <2>3. todo = <<>> /\ Range(todo') \subseteq Range(p) \cup Range(Matcher)
    BY <1>2, <2>2 DEF Begin
  <2>4. \A t \in Range(todo') : ~Late(t)
    BY <1>1, <1>2, <2>1, <2>3 DEF Kind, Late
  <2> QED BY <2>3, <2>4 DEF Looked, Late
<1>3. <<>> \in Seq(Kind({})) /\ "scan" \notin {} /\ Matcher = <<>> \o Matcher
  BY <1>1
<1>4. CASE Player
  <2>1. "scan" \notin {"leave", "sync", "abandon", "enter", "accepted"}
    OBVIOUS
  <2> QED BY <1>2, <1>4, <2>1, PlayerCalls
<1>5. CASE Operator \/ GameServer
  <2>1. ASSUME NEW v \in Servers, NEW m \in MatchIds, ConfirmRoster(v, m) PROVE todo = <<>> /\ Looked'
    <3>1. Assign(m) \in Seq(Kind({"assign"})) /\ <<>> \in Seq(Kind({"assign"})) /\ "scan" \notin {"assign"}
      BY Pieces
    <3>2. Begin(Assign(m)) \/ Begin(<<>>)
      BY <2>1 DEF ConfirmRoster
    <3> QED BY <1>2, <3>1, <3>2
  <2>2. "scan" \notin {"set", "end"}
    OBVIOUS
  <2> QED BY <1>2, <1>5, <2>1, <2>2, ServerCalls
<1>6. CASE FakePlayers \/ Time
  <2>1. Begin(<<>> \o Matcher) \/ Begin(Tick) \/ Begin(<<>>)
    BY <1>3, <1>6 DEF FakePlayers, SetFakeMaster, WriteProfile, Time, RunTick, CooldownOver, PollWindowOver
  <2>2. Begin(Tick) => todo = <<>> /\ Looked'
    <3>1. Begin(Tick) => todo = <<>> /\ \A t \in Range(todo') : ~Late(t)
      BY <1>1 DEF Begin
    <3> QED BY <3>1 DEF Looked, Late
  <2> QED BY <1>2, <1>3, <2>1, <2>2
<1> QED BY <1>4, <1>5, <1>6

\* the phases behind the placing, and the placing itself
LEMMA LateWorks ==
  ASSUME NEW q \in PlacePhase..LastPhase, NEW work \in Works(q)
  PROVE  /\ q = PlacePhase => work = Loop("place", Unplaced)
         /\ q # PlacePhase => \E op \in {"fill", "reserve", "promote"}, M \in SUBSET MatchIds : work = Loop(op, M)
<1>1. q \in {9, 10, 11, 12} /\ PlacePhase = 9
  BY DEF PlacePhase, LastPhase
<1>2. CASE q = 9
  <2>1. Works(q) = {Loop("place", Unplaced)}
    BY <1>2 DEF Works
  <2> QED BY <1>1, <1>2, <2>1
<1>3. CASE q = 10
  <2>1. Works(q) = {Loop("fill", M) : M \in SUBSET Fillable}
    BY <1>3 DEF Works
  <2>2. \E M \in SUBSET MatchIds : work = Loop("fill", M)
    BY <2>1 DEF Fillable
  <2> QED BY <1>1, <1>3, <2>2
<1>4. CASE q = 11
  <2>1. Works(q) = {Loop("reserve", Full)} /\ Full \in SUBSET MatchIds
    BY <1>4 DEF Works, Full
  <2> QED BY <1>1, <1>4, <2>1
<1>5. CASE q = 12
  <2>1. Works(q) = {Loop("promote", Promotable)} /\ Promotable \in SUBSET MatchIds
    BY <1>5 DEF Works, Promotable
  <2> QED BY <1>1, <1>5, <2>1
<1> QED BY <1>1, <1>2, <1>3, <1>4, <1>5

\* after the placing nobody who could be served is left
LEMMA NobodyServable ==
  ASSUME TInv, Known, Looked, Now("scan"), Head(todo).at <= PlacePhase => Unplaced = {}, FreshMatches # {}
  PROVE  \A s \in SearchIds : ~Servable(s)
<1>1. todo # <<>> /\ Head(todo).op = "scan" /\ Behind = {} /\ Range(todo) = {Head(todo)}
  <2>1. todo # <<>> /\ Head(todo).op = "scan"
    BY DEF Now
  <2>2. Behind = {}
    BY <2>1, BehindKinds
  <2> QED BY <2>1, <2>2, HeadAndBehind
<1>2. Head(todo).at \in 1..LastPhase + 1
  BY <1>1, Running DEF Task
<1>3. CASE Head(todo).at <= PlacePhase
  BY <1>3 DEF Servable, Unplaced, Known
<1>4. CASE Head(todo).at > PlacePhase
  <2>1. Late(Head(todo))
    BY <1>1, <1>4 DEF Late
  <2>2. \A s : ~Awaits(Head(todo), s)
    BY <1>1 DEF Awaits
  <2> QED BY <1>1, <2>1, <2>2 DEF Looked
<1> QED BY <1>2, <1>3, <1>4 DEF PlacePhase, LastPhase

\* the matcher goes on: it reads who waits, or has nobody left to look at
LEMMA ScanLooks == ASSUME TInv, Known, Looked, Scan PROVE Looked'
<1>1. /\ todo # <<>> /\ Head(todo).op = "scan" /\ Behind = {} /\ Head(todo).at \in 1..LastPhase + 1
      /\ UNCHANGED <<search, match, server>>
  BY Running, BehindKinds DEF Scan, Now, Task
<1>2. PICK at : at = Head(todo).at
  OBVIOUS
<1>3. CASE Do(<<>>)
  <2>1. todo' = <<>>
    BY <1>1, <1>3, ShortQueue, HeadAfter
  <2>2. Range(todo') = {}
    BY <2>1, ShortQueue DEF Queue
  <2> QED BY <2>2 DEF Looked
<1>4. ASSUME NEW q \in at..LastPhase, NEW work \in Works(q), Do(work \o <<[op |-> "scan", at |-> q + 1]>>),
             \A r \in at..LastPhase : r < q => <<>> \in Works(r)
      PROVE  Looked'
  <2>1. PICK go : go = [op |-> "scan", at |-> q + 1]
    OBVIOUS
  <2>2. q \in 1..LastPhase /\ go \in Task
    <3>1. q \in 1..LastPhase /\ q + 1 \in 1..LastPhase + 1
      BY <1>1, <1>2 DEF LastPhase
    <3> QED BY <2>1, <3>1 DEF Task
  <2>3. Queue(work, Range(work)) /\ \A t \in Range(work) : t.op \in Timed
    BY <2>2, WorksSound
  <2>4. Queue(work \o <<go>>, Range(work) \cup {go})
    <3>1. Queue(<<go>>, {go})
      BY <2>2, ShortQueue
    <3>2. \A t \in Range(work), o \in {go} : Precedes(t.op, o.op)
      BY <2>1, <2>3 DEF Precedes, Timed
    <3> QED BY <2>3, <3>1, <3>2, JoinQueues
  <2>5. work \o <<go>> \in Seq(Task)
    BY <2>4 DEF Queue
  <2>6. Do(work \o <<go>>)
    BY <1>4, <2>1
  <2>7. Range(todo') = Range(work) \cup {go}
    BY <1>1, <2>4, <2>5, <2>6, NextTasks DEF Queue
  <2>8. \A t \in Range(work) : ~Late(t)
    BY <2>3 DEF Timed, Late
  <2>9. CASE q < PlacePhase
    <3>1. ~Late(go)
      BY <2>1, <2>2, <2>9 DEF Late, PlacePhase, LastPhase
    <3> QED BY <2>7, <2>8, <3>1 DEF Looked, Late
  <2>10. CASE q = PlacePhase
    <3>1. q \in PlacePhase..LastPhase
      BY <2>10 DEF PlacePhase, LastPhase
    <3>2. work = Loop("place", Unplaced)
      BY <2>10, <3>1, LateWorks
    <3>3. Unplaced \in SUBSET SearchIds
      BY DEF Unplaced
    <3>4. Range(work) = IF Unplaced = {} THEN {} ELSE {[op |-> "place", pend |-> Unplaced]}
      BY <3>2, <3>3, LoopQueue DEF Queue
    <3>5. \A t \in Range(todo') : t.op \in Forward
      BY <2>1, <2>7, <3>4 DEF Forward
    <3>6. ASSUME NEW s \in SearchIds, Servable(s)' PROVE \E t \in Range(todo') : Awaits(t, s)
      <4>1. Servable(s)
        BY <1>1, <3>6 DEF Servable, CanServe
      <4>2. s \in Unplaced
        BY <4>1 DEF Servable, Known, Unplaced
      <4>3. PICK e : e = [op |-> "place", pend |-> Unplaced]
        OBVIOUS
      <4>4. e \in Range(todo') /\ e.op = "place" /\ s \in e.pend
        BY <2>7, <3>4, <4>2, <4>3
      <4> QED BY <4>4 DEF Awaits
    <3> QED BY <3>5, <3>6 DEF Looked
  <2>11. CASE q > PlacePhase
    <3>1. q \in PlacePhase..LastPhase /\ q # PlacePhase
      BY <2>2, <2>11 DEF PlacePhase, LastPhase
    <3>2. PICK op \in {"fill", "reserve", "promote"}, M \in SUBSET MatchIds : work = Loop(op, M)
      BY <3>1, LateWorks
    <3>3. Range(work) \subseteq {[op |-> op, pend |-> M]}
      BY <3>2, LoopQueue DEF Queue
    <3>4. \A t \in Range(todo') : t.op \in Forward
      BY <2>1, <2>7, <3>3 DEF Forward
    <3>5. at <= PlacePhase => Unplaced = {}
      <4>1. SUFFICES ASSUME at <= PlacePhase PROVE Unplaced = {}
        OBVIOUS
      <4>2. PlacePhase \in at..LastPhase /\ PlacePhase < q
        BY <1>1, <1>2, <2>2, <2>11, <4>1 DEF PlacePhase, LastPhase
      <4>3. <<>> \in Works(PlacePhase)
        BY <1>4, <4>2
      <4>4. PlacePhase \in PlacePhase..LastPhase
        BY DEF PlacePhase, LastPhase
      <4>5. Loop("place", Unplaced) = <<>>
        BY <4>3, <4>4, LateWorks
      <4> QED BY <4>5 DEF Loop
    <3>6. FreshMatches # {} => \A s \in SearchIds : ~Servable(s)
      BY <1>1, <1>2, <3>5, NobodyServable DEF Now
    <3>7. FreshMatches' # {} => \A s \in SearchIds : ~Servable(s)'
      BY <1>1, <3>6 DEF FreshMatches, Servable, CanServe
    <3> QED BY <3>4, <3>7 DEF Looked
  <2> QED BY <2>2, <2>9, <2>10, <2>11 DEF PlacePhase, LastPhase
<1> QED BY <1>2, <1>3, <1>4 DEF Scan

\* who the head awaits it looks at, or leaves to the tasks it puts in its place
LEMMA GoesForward ==
  ASSUME TInv, Looked, todo # <<>>, NEW K, NEW tasks \in Seq(Kind(K)), Do(tasks), K \subseteq Forward \ {"scan"},
         FreshMatches' \subseteq FreshMatches,
         \A v \in Servers : /\ server'[v].on = server[v].on /\ server'[v].mode = server[v].mode
                            /\ server'[v].map = server[v].map
                            /\ (server'[v].st = "ABSENT" <=> server[v].st = "ABSENT"),
         \A s \in SearchIds : search'[s].st = "SEARCHING" =>
           search[s].st = "SEARCHING" /\ search'[s].leader = search[s].leader /\ search'[s].ask = search[s].ask,
         \A s \in SearchIds : /\ Servable(s) /\ search'[s].st = "SEARCHING" /\ FreshMatches # {}
                              /\ Awaits(Head(todo), s)
                              => \E r \in Range(tasks) : Awaits(r, s)
  PROVE  Looked'
<1> SUFFICES ASSUME NEW late \in Range(todo'), Late(late)
             PROVE  /\ \A t \in Range(todo') : t.op \in Forward
                    /\ FreshMatches' # {} => \A s \in SearchIds : Servable(s)' => \E t \in Range(todo') : Awaits(t, s)
  BY DEF Looked, Late
<1>1. Range(todo') = Range(tasks) \cup Behind /\ Range(tasks) \subseteq Kind(K)
  BY NextTasks
<1>2. late \in Behind
  BY <1>1 DEF Kind, Late
<1>3. Range(todo) = {Head(todo)} \cup Behind
  BY HeadAndBehind
<1>4. /\ \A t \in Range(todo) : t.op \in Forward
      /\ FreshMatches # {} => \A s \in SearchIds : Servable(s) => \E t \in Range(todo) : Awaits(t, s)
  BY <1>2, <1>3 DEF Looked
<1>5. \A t \in Range(todo') : t.op \in Forward
  BY <1>1, <1>3, <1>4 DEF Kind
<1>6. ASSUME NEW s \in SearchIds, FreshMatches' # {}, Servable(s)' PROVE \E t \in Range(todo') : Awaits(t, s)
  <2>1. Servable(s) /\ search'[s].st = "SEARCHING" /\ FreshMatches # {}
    <3>1. \A mode, pool : CanServe(mode, pool, None)' => CanServe(mode, pool, None)
      BY DEF CanServe
    <3> QED BY <1>6, <3>1 DEF Servable
  <2>2. PICK t \in Range(todo) : Awaits(t, s)
    BY <1>4, <2>1
  <2> QED BY <1>1, <1>3, <2>1, <2>2
<1> QED BY <1>5, <1>6

\* a handler that is still ending or starting something has not come to the matcher
LEMMA LooksBack ==
  ASSUME TInv, Looked, todo # <<>>, Head(todo).op \notin Forward,
         NEW K, NEW tasks \in Seq(Kind(K)), Do(tasks), "scan" \notin K
  PROVE  Looked'
<1>1. Range(todo') = Range(tasks) \cup Behind /\ Range(tasks) \subseteq Kind(K) /\ Range(todo) = {Head(todo)} \cup Behind
  BY NextTasks, HeadAndBehind
<1>2. \A t \in Range(todo') : ~Late(t)
  <2> SUFFICES ASSUME NEW t \in Range(todo'), Late(t) PROVE FALSE
    OBVIOUS
  <2>1. t \in Range(todo)
    BY <1>1 DEF Kind, Late
  <2> QED BY <1>1, <2>1 DEF Looked
<1> QED BY <1>2 DEF Looked, Late

LEMMA BackLooks ==
  ASSUME TInv, Looked,
         \/ Breakup \/ Retire \/ Lapse \/ ReleaseOrphan \/ DeleteOld \/ LeaveRow \/ MemberLeft \/ DissolveRow \/ End
         \/ Release \/ SetServer \/ ReleaseAbandoned \/ Enter \/ SyncParty \/ AddMember \/ TagMember
  PROVE  Looked'
<1>1. CASE Breakup \/ Lapse \/ ReleaseAbandoned \/ ReleaseOrphan \/ Release \/ SetServer \/ SyncParty
  <2>1. \A op \in Quiet : op \notin Forward /\ op # "scan"
    BY DEF Quiet, Forward
  <2> QED BY <1>1, <2>1, QuietPuts, LooksBack
<1>2. CASE MemberLeft \/ DissolveRow \/ End
  <2>1. \A op \in {"left", "end", "release"} : op \notin Forward /\ op # "scan"
    BY DEF Forward
  <2> QED BY <1>2, <2>1, EndPuts, LooksBack
<1>3. CASE Retire \/ LeaveRow \/ Enter \/ AddMember
  <2>1. todo # <<>> /\ Head(todo).op \in {"retire", "leave", "enter", "add"}
    BY <1>3 DEF Retire, LeaveRow, Enter, AddMember, Now
  <2>2. Head(todo).op \notin Forward
    BY <2>1 DEF Forward
  <2>3. ASSUME NEW K, NEW tasks \in Seq(Kind(K)), Do(tasks), "scan" \notin K PROVE Looked'
    BY <2>1, <2>2, <2>3, LooksBack
  <2>4. \A K \in {{"retire"}, {"leave", "left"}, {"leave", "left", "sync"}, {"leave", "add", "tag"}} : "scan" \notin K
    OBVIOUS
  <2> QED BY <1>3, <2>3, <2>4, Puts
<1>4. CASE DeleteOld \/ TagMember
  <2>1. todo # <<>> /\ Head(todo).op \notin Forward /\ Do(<<>>)
    BY <1>4 DEF DeleteOld, TagMember, Now, Forward
  <2>2. <<>> \in Seq(Kind({})) /\ "scan" \notin {}
    BY Pieces
  <2> QED BY <2>1, <2>2, LooksBack
<1> QED BY <1>1, <1>2, <1>3, <1>4

\* a match that is not new stays so
LEMMA FreshKept ==
  ASSUME TInv, [Next]_vars, ~DeleteOld, Known,
         \A s \in SearchIds : search'[s].match = search[s].match \/ search[s].st \in Live
  PROVE  FreshMatches' \subseteq FreshMatches
<1> SUFFICES ASSUME NEW m \in MatchIds, match'[m].st = "NONE", \A s \in SearchIds : search'[s].match # m
             PROVE  match[m].st = "NONE" /\ \A s \in SearchIds : search[s].match # m
  BY DEF FreshMatches
<1>1. match[m].st = "NONE" /\ m # None
  BY MatchRemembered, NoneAssumption
<1> QED BY <1>1 DEF Known

\* the matcher takes up one search: it joins, gets a match of its own, or cannot be served
LEMMA PlaceLooks == ASSUME TInv, Known, Looked, [Next]_vars, PlaceSearch PROVE Looked'
<1>1. PICK t : t = Head(todo)
  OBVIOUS
<1>2. /\ todo # <<>> /\ t.op = "place" /\ t \in Task /\ t.pend \in SUBSET SearchIds /\ UNCHANGED <<search, server>>
  BY <1>1, Running, TaskFields DEF PlaceSearch, Now
<1>3. PICK s \in t.pend : IF search[s].ask.mode \in AcceptModes
                          THEN PlaceAccept(s, Rest(t, s)) ELSE PlaceClassic(s, Rest(t, s))
  BY <1>1 DEF PlaceSearch
<1>4. /\ Queue(Rest(t, s), RestSet(t, s)) /\ Rest(t, s) \in Seq(Kind({"join", "place"}))
      /\ {"join", "place"} \subseteq Forward \ {"scan"}
  BY <1>2, RestQueue, Pieces DEF Looping, Forward
<1>5. ~DeleteOld
  BY <1>1, <1>2 DEF DeleteOld, Now
<1>6. FreshMatches' \subseteq FreshMatches
  BY <1>2, <1>5, FreshKept
<1>7. \A o \in SearchIds : Awaits(t, o) /\ o # s => \E r \in RestSet(t, s) : Awaits(r, o)
  <2> SUFFICES ASSUME NEW o \in SearchIds, Awaits(t, o), o # s PROVE \E r \in RestSet(t, s) : Awaits(r, o)
    OBVIOUS
  <2>1. PICK e : e = [t EXCEPT !.pend = @ \ {s}]
    OBVIOUS
  <2>2. o \in t.pend
    BY <1>2 DEF Awaits
  <2>3. e \in RestSet(t, s)
    BY <2>1, <2>2 DEF RestSet
  <2>4. e.op = "place" /\ o \in e.pend
    BY <1>2, <2>1, <2>2 DEF Task
  <2> QED BY <2>3, <2>4 DEF Awaits
<1>8. ASSUME NEW m \in MatchIds, Do(Join(m, s) \o Rest(t, s)) PROVE Looked'
  <2>1. PICK e : e = [op |-> "join", m |-> m, s |-> s]
    OBVIOUS
  <2>2. e \in Kind({"join", "place"})
    BY <1>2, <2>1 DEF Task, Kind
  <2>3. <<e>> \in Seq(Kind({"join", "place"}))
    BY <2>2
  <2>4. PICK tasks : tasks = <<e>> \o Rest(t, s)
    OBVIOUS
  <2>5. tasks \in Seq(Kind({"join", "place"})) /\ Do(tasks)
    BY <1>4, <1>8, <2>1, <2>3, <2>4, Pieces DEF Join
  <2>6. Range(tasks) = Range(<<e>>) \cup RestSet(t, s) /\ Range(<<e>>) = {e}
    <3>1. Queue(<<e>>, {e})
      BY <2>2, ShortQueue DEF Kind
    <3>2. <<e>> \in Seq(Kind({"join", "place"})) /\ Range(Rest(t, s)) = RestSet(t, s) /\ Range(<<e>>) = {e}
      BY <1>4, <2>3, <3>1 DEF Queue
    <3>3. Range(<<e>> \o Rest(t, s)) = Range(<<e>>) \cup Range(Rest(t, s))
      BY <1>4, <3>2, RangeConcatenation
    <3> QED BY <2>4, <3>2, <3>3
  <2>7. Awaits(e, s)
    BY <2>1 DEF Awaits
  <2>8. \A o \in SearchIds : Awaits(t, o) => \E r \in Range(tasks) : Awaits(r, o)
    BY <1>7, <2>6, <2>7
  <2> QED BY <1>1, <1>2, <1>4, <1>6, <2>5, <2>8, GoesForward
<1>9. ASSUME Do(Rest(t, s)), Servable(s) => FreshMatches = {} PROVE Looked'
  <2>1. \A o \in SearchIds : Servable(o) /\ FreshMatches # {} /\ Awaits(t, o) => \E r \in Range(Rest(t, s)) : Awaits(r, o)
    BY <1>4, <1>7, <1>9 DEF Queue
  <2> QED BY <1>1, <1>2, <1>4, <1>6, <1>9, <2>1, GoesForward
<1>10. CASE search[s].ask.mode \in AcceptModes
  <2>1. PlaceAccept(s, Rest(t, s))
    BY <1>3, <1>10
  <2>2. \/ \E m \in MatchIds : Do(Join(m, s) \o Rest(t, s))
        \/ /\ Do(Rest(t, s))
           /\ ~CanServe(search[s].ask.mode, Allowed(search[s].ask.maps), None) \/ FreshMatches = {}
    BY <2>1 DEF PlaceAccept, Joinable, FreshMatches
  <2> QED BY <1>8, <1>9, <2>2 DEF Servable
<1>11. CASE search[s].ask.mode \notin AcceptModes
  <2>1. PlaceClassic(s, Rest(t, s))
    BY <1>3, <1>11
  <2>2. \/ \E m \in MatchIds : Do(Join(m, s) \o Rest(t, s))
        \/ Do(Rest(t, s))
    BY <2>1 DEF PlaceClassic, FreshMatches
  <2> QED BY <1>8, <1>9, <1>11, <2>2 DEF Servable
<1> QED BY <1>10, <1>11

\* the statements of the matcher behind the placing take nobody's place and no server away
LEMMA OnwardLooks ==
  ASSUME TInv, Known, Looked, [Next]_vars,
         \/ JoinMatch \/ GatherParty \/ CompleteMatch \/ FillMatch \/ ReserveServer \/ PromoteMatch
         \/ AssignRow \/ StartAccepting \/ MarkAccepted \/ PromoteAccepted
  PROVE  Looked'
<1>1. PICK t : t = Head(todo)
  OBVIOUS
<1>2. /\ todo # <<>> /\ t \in Task /\ Sound(t)
      /\ t.op \in {"join", "gather", "full", "fill", "reserve", "promote", "assign", "accepted", "connect"}
  <2>1. /\ todo # <<>>
        /\ t.op \in {"join", "gather", "full", "fill", "reserve", "promote", "assign", "accepted", "connect"}
    BY <1>1 DEF JoinMatch, GatherParty, CompleteMatch, FillMatch, ReserveServer, PromoteMatch, AssignRow,
       StartAccepting, MarkAccepted, PromoteAccepted, Now
  <2> QED BY <1>1, <2>1, Running
<1>3. \E K \in SUBSET (Forward \ {"scan"}) : \E tasks \in Seq(Kind(K)) : Do(tasks)
  <2>1. /\ {"gather"} \subseteq Forward \ {"scan"} /\ {"gather", "full"} \subseteq Forward \ {"scan"}
        /\ {"reserve", "assign"} \subseteq Forward \ {"scan"} /\ {"full", "fill"} \subseteq Forward \ {"scan"}
        /\ {"assign", "reserve"} \subseteq Forward \ {"scan"} /\ {"assign", "promote"} \subseteq Forward \ {"scan"}
        /\ {"assign"} \subseteq Forward \ {"scan"} /\ {"accepted"} \subseteq Forward \ {"scan"}
        /\ {"connect"} \subseteq Forward \ {"scan"}
    BY DEF Forward
  <2>2. CASE JoinMatch \/ GatherParty \/ CompleteMatch \/ FillMatch \/ ReserveServer
    BY <2>1, <2>2, Puts
  <2>3. CASE PromoteMatch \/ AssignRow \/ StartAccepting \/ MarkAccepted
    BY <2>1, <2>3, Puts
  <2>4. CASE PromoteAccepted
    <3>1. <<>> \in Seq(Kind({})) /\ {} \subseteq Forward \ {"scan"}
      BY Pieces
    <3> QED BY <2>4, <3>1 DEF PromoteAccepted
  <2> QED BY <2>2, <2>3, <2>4
<1>4. \A v \in Servers : /\ server'[v].on = server[v].on /\ server'[v].mode = server[v].mode
                         /\ server'[v].map = server[v].map
                         /\ (server'[v].st = "ABSENT" <=> server[v].st = "ABSENT")
  <2>1. CASE ReserveServer
    <3>1. PICK m \in t.pend :
            \/ UNCHANGED server
            \/ \E v \in Candidates(m) : server' = [server EXCEPT ![v].st = "RESERVED", ![v].by = m, ![v].cool = FALSE]
      BY <1>1, <2>1 DEF ReserveServer
    <3>2. server \in [Servers -> ServerType]
      BY DEF TInv, PInv, IInv, TypeOK
    <3>3. \A v \in Candidates(m) : v \in Servers /\ server[v].st = "AVAILABLE"
      BY DEF Candidates, Free
    <3>4. ASSUME NEW v \in Candidates(m),
                 server' = [server EXCEPT ![v].st = "RESERVED", ![v].by = m, ![v].cool = FALSE], NEW u \in Servers
          PROVE  /\ server'[u].on = server[u].on /\ server'[u].mode = server[u].mode
                 /\ server'[u].map = server[u].map
                 /\ server'[u].st = "ABSENT" <=> server[u].st = "ABSENT"
      <4>1. CASE u # v
        BY <3>2, <3>4, <4>1
      <4>2. CASE u = v
        BY <3>2, <3>3, <3>4, <4>2 DEF ServerType
      <4> QED BY <4>1, <4>2
    <3> QED BY <3>1, <3>4
  <2>2. ~ReserveServer => UNCHANGED server
    BY DEF JoinMatch, GatherParty, CompleteMatch, FillMatch, PromoteMatch, AssignRow, StartAccepting, MarkAccepted,
       PromoteAccepted
  <2> QED BY <2>1, <2>2
<1>5. search \in [SearchIds -> SearchType]
  BY DEF TInv, PInv, IInv, TypeOK
<1>6. ASSUME NEW s \in SearchIds PROVE \/ search'[s] = search[s]
                                       \/ search[s].st \in Live /\ search'[s].st # "SEARCHING"
  <2>1. CASE PromoteAccepted
    BY <1>5, <2>1 DEF PromoteAccepted, SearchType, Live
  <2>2. ASSUME NEW o, NEW m, NEW st, st # "SEARCHING", Place(o, m, st)
        PROVE  \/ search'[s] = search[s]
               \/ search[s].st \in Live /\ search'[s].st # "SEARCHING"
    BY <1>5, <2>2 DEF Place, SearchType
  <2>3. \A m : AssignedStatus(m) # "SEARCHING"
    BY DEF AssignedStatus
  <2>4. CASE JoinMatch \/ GatherParty \/ AssignRow
    <3>1. \/ UNCHANGED search
          \/ \E o : Place(o, t.m, "MATCHED")
          \/ \E o : Place(o, t.m, AssignedStatus(t.m))
      BY <1>1, <2>4 DEF JoinMatch, GatherParty, AssignRow
    <3> QED BY <2>2, <2>3, <3>1
  <2>5. CASE CompleteMatch \/ FillMatch \/ ReserveServer \/ PromoteMatch \/ StartAccepting \/ MarkAccepted
    BY <2>5 DEF CompleteMatch, FillMatch, ReserveServer, PromoteMatch, StartAccepting, MarkAccepted
  <2> QED BY <2>1, <2>4, <2>5
<1>7. ~DeleteOld
  BY <1>1, <1>2 DEF DeleteOld, Now
<1>8. FreshMatches' \subseteq FreshMatches
  BY <1>6, <1>7, FreshKept
<1>9. \A s \in SearchIds : search'[s].st = "SEARCHING" => search'[s] = search[s]
  BY <1>6
<1>10. ASSUME NEW s \in SearchIds, Servable(s), Awaits(t, s) PROVE search'[s].st # "SEARCHING"
  <2>1. t.op = "join" /\ t.s = s
    BY <1>2, <1>10 DEF Awaits
  <2>2. JoinMatch
    BY <1>1, <2>1 DEF JoinMatch, GatherParty, CompleteMatch, FillMatch, ReserveServer, PromoteMatch, AssignRow,
       StartAccepting, MarkAccepted, PromoteAccepted, Now
  <2>3. Place(s, t.m, "MATCHED")
    BY <1>1, <2>1, <2>2 DEF JoinMatch
  <2>4. search[s].st \in Live
    BY <1>10 DEF Servable, Live
  <2> QED BY <1>5, <2>3, <2>4 DEF Place, SearchType
<1> QED BY <1>1, <1>2, <1>3, <1>4, <1>8, <1>9, <1>10, GoesForward

LEMMA NextLooked == TInv /\ Known /\ Looked /\ [Next]_vars => Looked'
<1> SUFFICES ASSUME TInv, Known, Looked, [Next]_vars PROVE Looked' OBVIOUS
<1>1. CASE Step
  BY <1>1, ScanLooks, BackLooks, PlaceLooks, OnwardLooks DEF Step
<1>2. CASE Player \/ Operator \/ GameServer \/ FakePlayers \/ Time
  BY <1>2, CallsLook
<1>3. CASE Crash
  <2>1. Range(todo') = {}
    BY <1>3, ShortQueue DEF Crash, Queue
  <2> QED BY <2>1 DEF Looked
<1>4. CASE UNCHANGED vars
  BY <1>4 DEF vars, Looked, Range, FreshMatches, Servable, CanServe
<1> QED BY <1>1, <1>2, <1>3, <1>4 DEF Next

\* a run of the matcher is over when a step ends the handler with the matcher's last phase
Passed == todo # <<>> /\ Head(todo).op = "scan" /\ todo' = <<>> /\ crashes' = crashes /\ FreshMatches # {}

LEMMA PassedAll ==
  ASSUME TInv, Known, Looked, Next, Passed
  PROVE  \A s \in SearchIds : ~Servable(s)
<1>1. todo # <<>> /\ Head(todo).op = "scan" /\ todo' = <<>> /\ crashes' = crashes /\ FreshMatches # {} /\ crashes \in Nat
  BY DEF Passed, TInv, PInv, IInv, TypeOK
<1>2. Scan
  <2>1. ~Player /\ ~Operator /\ ~GameServer /\ ~FakePlayers /\ ~Time
    BY <1>1, CallsLook
  <2>2. ~Crash
    BY <1>1 DEF Crash
  <2>3. Step
    BY <2>1, <2>2 DEF Next
  <2>4. CASE Scan \/ Breakup \/ Retire \/ Lapse \/ ReleaseOrphan \/ DeleteOld \/ LeaveRow \/ MemberLeft
    BY <1>1, <2>4 DEF Breakup, Retire, Lapse, ReleaseOrphan, DeleteOld, LeaveRow, MemberLeft, Now
  <2>5. CASE DissolveRow \/ End \/ Release \/ SetServer \/ ReleaseAbandoned \/ Enter \/ SyncParty \/ AddMember \/ TagMember
    BY <1>1, <2>5 DEF DissolveRow, End, Release, SetServer, ReleaseAbandoned, Enter, SyncParty, AddMember, TagMember, Now
  <2>6. CASE PlaceSearch \/ JoinMatch \/ GatherParty \/ CompleteMatch \/ FillMatch \/ ReserveServer
    BY <1>1, <2>6 DEF PlaceSearch, JoinMatch, GatherParty, CompleteMatch, FillMatch, ReserveServer, Now
  <2>7. CASE PromoteMatch \/ AssignRow \/ StartAccepting \/ MarkAccepted \/ PromoteAccepted
    BY <1>1, <2>7 DEF PromoteMatch, AssignRow, StartAccepting, MarkAccepted, PromoteAccepted, Now
  <2> QED BY <2>3, <2>4, <2>5, <2>6, <2>7 DEF Step
<1>3. PICK at : at = Head(todo).at
  OBVIOUS
<1>4. at \in 1..LastPhase + 1
  <2>1. Head(todo) \in Task
    BY <1>1, Running
  <2> QED BY <1>1, <1>3, <2>1 DEF Task
<1>5. \A r \in at..LastPhase : r < LastPhase + 1 => <<>> \in Works(r)
  <2>1. ASSUME NEW q \in at..LastPhase, NEW work \in Works(q), Do(work \o <<[op |-> "scan", at |-> q + 1]>>) PROVE FALSE
    <3>1. PICK go : go = [op |-> "scan", at |-> q + 1]
      OBVIOUS
    <3>2. q \in 1..LastPhase
      BY <1>4 DEF LastPhase
    <3>3. work \in Seq(Task)
      BY <3>2, WorksSound DEF Queue
    <3>4. q + 1 \in 1..LastPhase + 1
      BY <3>2 DEF LastPhase
    <3>5. go \in Task
      BY <3>1, <3>4 DEF Task
    <3>6. work \o <<go>> # <<>> /\ work \o <<go>> \in Seq(Task)
      BY <3>3, <3>5
    <3>7. Do(work \o <<go>>)
      BY <2>1, <3>1
    <3> QED BY <1>1, <3>6, <3>7, NextTasks
  <2> QED BY <1>2, <1>3, <2>1 DEF Scan
<1>6. at <= PlacePhase => Unplaced = {}
  <2> SUFFICES ASSUME at <= PlacePhase PROVE Unplaced = {}
    OBVIOUS
  <2>1. PlacePhase \in at..LastPhase /\ PlacePhase < LastPhase + 1 /\ PlacePhase \in PlacePhase..LastPhase
    BY <1>4 DEF PlacePhase, LastPhase
  <2>2. <<>> \in Works(PlacePhase)
    BY <1>5, <2>1
  <2>3. Loop("place", Unplaced) = <<>>
    BY <2>1, <2>2, LateWorks
  <2> QED BY <2>3 DEF Loop
<1> QED BY <1>1, <1>3, <1>6, NobodyServable DEF Now

\* who plays without a party follows nobody
Solo == \A a \in Accounts : \A p \in Parties[a] : p = None \/ p \subseteq {a}
Leaderless == \A s \in SearchIds : search[s].leader = None

LEMMA NextLeaderless == ASSUME Solo, TInv, Partied, Leaderless, [Next]_vars PROVE Leaderless'
<1> SUFFICES ASSUME NEW s \in SearchIds PROVE search'[s].leader = None
  BY DEF Leaderless
<1>1. search[s].leader = None /\ NoSearch.leader = None /\ search \in [SearchIds -> SearchType]
  BY DEF Leaderless, NoSearch, TInv, PInv, IInv, TypeOK
<1>2. CASE ~Enter /\ ~AddMember
  BY <1>1, <1>2, OnlyEnters
<1>3. PICK t : t = Head(todo)
  OBVIOUS
<1>4. \A a, r, src, ask, l : NewSearch(a, r, src, ask, l).leader = l
  BY DEF NewSearch, NoSearch
<1>5. CASE Enter
  <2>1. \/ \E o \in FreshSearches : search' = [search EXCEPT ![o] = NewSearch(t.a, t.r, t.src, t.ask, None)]
        \/ t.own # None /\ search' = [search EXCEPT ![t.own] = NewSearch(t.a, t.r, t.src, t.ask, search[t.own].leader)]
    BY <1>3, <1>5 DEF Enter
  <2>2. t.own # None => t.own \in SearchIds
    <3>1. t \in Task /\ t.op = "enter"
      BY <1>3, <1>5, PartyHead DEF Enter, Now
    <3> QED BY <3>1, TaskFields
  <2>3. t.own # None => search[t.own].leader = None
    BY <2>2 DEF Leaderless
  <2> QED BY <1>1, <1>4, <2>1, <2>3
<1>6. CASE AddMember
  <2>1. t.op = "add" /\ t \in Task /\ Listed(t) /\ t.pend # {}
    BY <1>3, <1>6, PartyHead DEF AddMember, Now, Partied
  <2>2. t.l \in SearchIds /\ search[t.l].st # "NONE" /\ Named(search[t.l].acct, t.pend \cup Who(Staying(t.l)))
    BY <2>1, TaskFields DEF Listed
  <2>3. PICK a : a = search[t.l].acct
    OBVIOUS
  <2>4. a \in Accounts
    BY <2>2, <2>3 DEF Partied, Counted
  <2>5. PICK p \in Parties[a] : p # None /\ t.pend \subseteq p \ {a}
    BY <2>1, <2>2, <2>3 DEF Named
  <2> QED BY <2>1, <2>4, <2>5 DEF Solo
<1> QED BY <1>2, <1>5, <1>6

\* Everything the matcher knows holds always, after any restart, too.
LEMMA LookedAlways == Spec => [](TInv /\ Known /\ Looked)
<1>1. Init => Known /\ Looked
  <2> SUFFICES ASSUME Init PROVE Known /\ Looked
    OBVIOUS
  <2>1. todo = <<>> /\ \A s \in SearchIds : search[s].st = "NONE"
    BY DEF Init, NoSearch
  <2>2. Range(todo) = {}
    BY <2>1, ShortQueue DEF Queue
  <2> QED BY <2>1, <2>2 DEF Known, Looked, Live
<1> QED BY <1>1, InitTInv, NextTInv, NextKnown, NextLooked, PTL DEF Spec

\* LeadersServed: for any modes, servers, settings and parties, through any restarts and any edit of the servers,
\* when the matcher has run, a search of an Accept mode that is in no match and has no leader is one that no
\* enabled server of its mode could serve: the placing looks at everybody who waits, nobody comes back to
\* waiting behind it, and what it leaves no server came up for since (runMatcher, place, joinable, dissolve).
THEOREM LeadersServed ==
  Spec => [][todo # <<>> /\ Head(todo).op = "scan" /\ todo' = <<>> /\ crashes' = crashes /\ FreshMatches # {}
             => \A s \in SearchIds :
                  search[s].st = "SEARCHING" /\ search[s].ask.mode \in AcceptModes /\ search[s].leader = None
                    => ~CanServe(search[s].ask.mode, Allowed(search[s].ask.maps), None)]_vars
<1>1. TInv /\ Known /\ Looked /\ [Next]_vars =>
        [todo # <<>> /\ Head(todo).op = "scan" /\ todo' = <<>> /\ crashes' = crashes /\ FreshMatches # {}
          => \A s \in SearchIds :
               search[s].st = "SEARCHING" /\ search[s].ask.mode \in AcceptModes /\ search[s].leader = None
                 => ~CanServe(search[s].ask.mode, Allowed(search[s].ask.maps), None)]_vars
  <2> SUFFICES ASSUME TInv, Known, Looked, Next, Passed PROVE \A s \in SearchIds : ~Servable(s)
    BY DEF Passed, Servable
  <2> QED BY PassedAll
<1> QED BY <1>1, LookedAlways, PTL DEF Spec

\* SinglesServed: so while everybody plays without a party, no matcher run leaves anybody out (NobodyLeftOut).
\* With parties it may: a member that goes on alone keeps its leader (replaceLive).
THEOREM SinglesServed == ASSUME Solo PROVE Spec => NobodyLeftOut
<1>1. Init => Partied /\ Leaderless
  <2> SUFFICES ASSUME Init PROVE Partied /\ Leaderless
    OBVIOUS
  <2>1. todo = <<>> /\ \A s \in SearchIds : search[s].st = "NONE" /\ search[s].leader = None
    BY DEF Init, NoSearch
  <2>2. Range(todo) = {}
    BY <2>1, ShortQueue DEF Queue
  <2> QED BY <2>1, <2>2 DEF Partied, Counted, Leaderless
<1>2. TInv /\ Partied /\ Leaderless /\ [Next]_vars => Leaderless'
  BY NextLeaderless
<1>3. TInv /\ Known /\ Looked /\ Leaderless /\ [Next]_vars =>
        [todo # <<>> /\ Head(todo).op = "scan" /\ todo' = <<>> /\ crashes' = crashes /\ FreshMatches # {}
          => \A s \in SearchIds :
               search[s].st = "SEARCHING" /\ search[s].ask.mode \in AcceptModes
                 => ~CanServe(search[s].ask.mode, Allowed(search[s].ask.maps), None)]_vars
  <2> SUFFICES ASSUME TInv, Known, Looked, Leaderless, Next, Passed PROVE \A s \in SearchIds : ~Servable(s)
    BY DEF Passed, Servable, Leaderless
  <2> QED BY PassedAll
<1> QED BY <1>1, <1>2, <1>3, LookedAlways, InitTInv, NextTInv, NextPartied, PTL DEF Spec, NobodyLeftOut

=============================================================================
