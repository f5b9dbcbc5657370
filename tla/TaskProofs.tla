------------------------------ MODULE TaskProofs ------------------------------
(***************************************************************************)
(* What a task of a running handler may rely on: everything a handler has  *)
(* read before it queued the task still holds when the task runs, because  *)
(* only certain tasks may run before it.                                   *)
(***************************************************************************)
EXTENDS PoolProofs

-----------------------------------------------------------------------------
(* The order of the tasks. *)

\* a task of kind a may stand before one of kind b
Precedes(a, b) ==
  \/ b = "scan" /\ a # "scan"
  \/ b = "set" /\ a \in {"end", "release"}
  \/ b = "enter" /\ a \in {"abandon", "end", "release"}
  \/ b \in {"leave", "left", "sync"} /\ a \in {"leave", "left", "end", "release"}
  \/ b = "add" /\ a \in {"leave", "left", "end", "release", "tag"}
  \/ b \in {"abandon", "breakup", "lapse"} /\ a \in {"end", "release"}
  \/ b = "place" /\ a \in {"join", "gather", "full", "reserve", "assign", "accepted", "connect"}
  \/ b = "fill" /\ a \in {"full", "reserve", "assign", "accepted", "connect"}
  \/ b \in {"reserve", "promote"} /\ a \in {"assign", "accepted", "connect"}

Ordered(q) == \A i, j \in 1..Len(q) : i < j => Precedes(q[i].op, q[j].op)

\* q holds the tasks of R, in a legal order
Queue(q, R) == q \in Seq(Task) /\ Ordered(q) /\ Range(q) = R

\* what follows the head of todo
Behind == IF todo = <<>> THEN {} ELSE Range(Tail(todo))

\* a task of kind a may stand wherever one of kind h could
Inherits(a, h) == \A b : Precedes(h, b) => Precedes(a, b)

\* no task and one task are queues
LEMMA ShortQueue == Queue(<<>>, {}) /\ \A t \in Task : Queue(<<t>>, {t})
<1>1. <<>> \in Seq(Task) /\ Len(<<>>) = 0
  OBVIOUS
<1>2. Ordered(<<>>)
  BY <1>1 DEF Ordered
<1>3. Range(<<>>) = {}
  <2>1. Range(<<>>) = {<<>>[i] : i \in 1..0}
    BY <1>1, RangeEquality
  <2> QED BY <2>1
<1>4. ASSUME NEW t \in Task PROVE Queue(<<t>>, {t})
  <2>1. <<t>> \in Seq(Task) /\ Len(<<t>>) = 1 /\ <<t>>[1] = t
    OBVIOUS
  <2>2. Ordered(<<t>>)
    BY <2>1 DEF Ordered
  <2>3. Range(<<t>>) = {<<t>>[i] : i \in 1..1}
    BY <2>1, RangeEquality
  <2>4. Range(<<t>>) = {t}
    BY <2>1, <2>3
  <2> QED BY <2>1, <2>2, <2>4 DEF Queue
<1> QED BY <1>1, <1>2, <1>3, <1>4 DEF Queue

\* two queues one behind the other
LEMMA JoinQueues ==
  ASSUME NEW p, NEW q, NEW A, NEW B, Queue(p, A), Queue(q, B),
         \A a \in A, b \in B : Precedes(a.op, b.op)
  PROVE  Queue(p \o q, A \cup B)
<1>1. p \in Seq(Task) /\ q \in Seq(Task) /\ Ordered(p) /\ Ordered(q) /\ Range(p) = A /\ Range(q) = B
  BY DEF Queue
<1>2. p \o q \in Seq(Task) /\ Range(p \o q) = A \cup B
  BY <1>1, ConcatProperties, RangeConcatenation
<1>3. Len(p) \in Nat /\ Len(q) \in Nat /\ Len(p \o q) = Len(p) + Len(q)
  BY <1>1, ConcatProperties, LenProperties
<1>4. \A i \in 1..Len(p) : (p \o q)[i] = p[i] /\ p[i] \in A
  BY <1>1, <1>3, ConcatProperties, RangeEquality
<1>5. \A i \in 1..Len(p) + Len(q) : i > Len(p) => /\ (p \o q)[i] = q[i - Len(p)] /\ i - Len(p) \in 1..Len(q)
                                                  /\ q[i - Len(p)] \in B
  BY <1>1, <1>3, ConcatProperties, RangeEquality
<1>6. ASSUME NEW i \in 1..Len(p \o q), NEW j \in 1..Len(p \o q), i < j
      PROVE  Precedes((p \o q)[i].op, (p \o q)[j].op)
  <2>1. CASE j <= Len(p)
    BY <1>1, <1>3, <1>4, <1>6, <2>1 DEF Ordered
  <2>2. CASE i > Len(p)
    BY <1>1, <1>3, <1>5, <1>6, <2>2 DEF Ordered
  <2>3. CASE i <= Len(p) /\ j > Len(p)
    BY <1>3, <1>4, <1>5, <1>6, <2>3
  <2> QED BY <1>3, <2>1, <2>2, <2>3
<1> QED BY <1>2, <1>6 DEF Queue, Ordered

\* what follows the head is a queue, and the head may stand before all of it
LEMMA TailQueue ==
  ASSUME todo \in Seq(Task), Ordered(todo), todo # <<>>
  PROVE  /\ Queue(Tail(todo), Behind)
         /\ Head(todo) \in Task /\ Behind \subseteq Task
         /\ Range(todo) = {Head(todo)} \cup Behind
         /\ \A t \in Behind : Precedes(Head(todo).op, t.op)
<1>1. /\ Tail(todo) \in Seq(Task) /\ Head(todo) \in Task /\ Head(todo) = todo[1]
      /\ Len(Tail(todo)) = Len(todo) - 1 /\ Len(todo) \in Nat \ {0}
      /\ \A i \in 1..Len(Tail(todo)) : Tail(todo)[i] = todo[i + 1]
  BY HeadTailProperties, LenProperties, EmptySeq
<1>2. Behind = {Tail(todo)[i] : i \in 1..Len(Tail(todo))} /\ Behind \subseteq Task
  BY <1>1, RangeEquality, RangeOfSeq DEF Behind
<1>3. Range(todo) = {todo[i] : i \in 1..Len(todo)}
  BY RangeEquality
<1>4. Ordered(Tail(todo))
  BY <1>1 DEF Ordered
<1>5. \A t \in Behind : Precedes(Head(todo).op, t.op)
  BY <1>1, <1>2 DEF Ordered
<1>6. Range(todo) = {Head(todo)} \cup Behind
  <2>1. ASSUME NEW t \in Range(todo) PROVE t \in {Head(todo)} \cup Behind
    <3>1. PICK i \in 1..Len(todo) : t = todo[i]
      BY <1>3
    <3>2. i # 1 => i - 1 \in 1..Len(Tail(todo)) /\ t = Tail(todo)[i - 1]
      BY <1>1, <3>1
    <3> QED BY <1>1, <1>2, <3>1, <3>2
  <2>2. ASSUME NEW t \in Behind PROVE t \in Range(todo)
    <3>1. PICK i \in 1..Len(Tail(todo)) : t = Tail(todo)[i]
      BY <1>2
    <3> QED BY <1>1, <1>3, <3>1
  <2>3. Head(todo) \in Range(todo)
    BY <1>1, <1>3
  <2> QED BY <2>1, <2>2, <2>3
<1> QED BY <1>1, <1>2, <1>4, <1>5, <1>6 DEF Queue, Behind

\* a step puts tasks that inherit the place of the head in its place
LEMMA Advance ==
  ASSUME todo \in Seq(Task), Ordered(todo), todo # <<>>,
         NEW tasks, NEW R, Queue(tasks, R), \A t \in R : Inherits(t.op, Head(todo).op),
         Do(tasks)
  PROVE  /\ Queue(todo', R \cup Behind)
         /\ tasks # <<>> => todo' # <<>> /\ Head(todo') = Head(tasks)
         /\ tasks = <<>> => todo' = Tail(todo)
<1>1. Queue(Tail(todo), Behind) /\ \A t \in Behind : Precedes(Head(todo).op, t.op)
  BY TailQueue
<1>2. todo' = tasks \o Tail(todo)
  BY DEF Do
<1>3. Queue(todo', R \cup Behind)
  BY <1>1, <1>2, JoinQueues DEF Inherits
<1>4. tasks \in Seq(Task) /\ Tail(todo) \in Seq(Task)
  BY <1>1 DEF Queue
<1>5. tasks # <<>> => todo' # <<>> /\ Head(todo') = Head(tasks)
  BY <1>2, <1>4
<1>6. tasks = <<>> => todo' = Tail(todo)
  BY <1>2, <1>4, ConcatEmptySeq
<1> QED BY <1>3, <1>5, <1>6


\* the pieces the handlers put their tasks together from
LEMMA LoopQueue ==
  /\ \A op \in {"breakup", "lapse", "abandon", "fill", "reserve", "promote"}, M \in SUBSET MatchIds :
       Queue(Loop(op, M), IF M = {} THEN {} ELSE {[op |-> op, pend |-> M]})
  /\ \A op \in {"retire", "place"}, S \in SUBSET SearchIds :
       Queue(Loop(op, S), IF S = {} THEN {} ELSE {[op |-> op, pend |-> S]})
  /\ \A V \in SUBSET Servers :
       Queue(Loop("orphan", V), IF V = {} THEN {} ELSE {[op |-> "orphan", pend |-> V]})
<1>1. \A op \in {"breakup", "lapse", "abandon", "fill", "reserve", "promote"}, M \in SUBSET MatchIds :
        [op |-> op, pend |-> M] \in Task
  BY DEF Task
<1>2. \A op \in {"retire", "place"}, S \in SUBSET SearchIds : [op |-> op, pend |-> S] \in Task
  BY DEF Task
<1>3. \A V \in SUBSET Servers : [op |-> "orphan", pend |-> V] \in Task
  BY DEF Task
<1> QED BY <1>1, <1>2, <1>3, ShortQueue DEF Loop

\* the task that does what is left of a loop, if anything is
RestSet(t, x) == IF t.pend = {x} THEN {} ELSE {[t EXCEPT !.pend = @ \ {x}]}

\* what is left of a loop
LEMMA RestQueue ==
  ASSUME NEW t \in Task, t.op \in Looping \cup {"orphan"}, NEW x
  PROVE  /\ Queue(Rest(t, x), RestSet(t, x))
         /\ \A r \in RestSet(t, x) :
              /\ r.op = t.op /\ r.pend = t.pend \ {x} /\ r \in Task
              /\ t.op = "leave" => r.st = t.st /\ r.party = t.party
              /\ t.op \in {"add", "sync"} => r.l = t.l
              /\ t.op \in {"gather", "assign", "end"} => r.m = t.m
<1> DEFINE r == [t EXCEPT !.pend = @ \ {x}]
<1>1. /\ r \in Task /\ r.op = t.op /\ r.pend = t.pend \ {x}
      /\ t.op = "leave" => r.st = t.st /\ r.party = t.party
      /\ t.op \in {"add", "sync"} => r.l = t.l
      /\ t.op \in {"gather", "assign", "end"} => r.m = t.m
  BY DEF Task, Looping
<1>2. Rest(t, x) = IF t.pend = {x} THEN <<>> ELSE <<r>>
  BY DEF Rest
<1>3. RestSet(t, x) = IF t.pend = {x} THEN {} ELSE {r}
  BY DEF RestSet
<1> HIDE DEF r
<1> QED BY <1>1, <1>2, <1>3, ShortQueue

\* players who leave, and the match that is told
LEMMA LeaveQueue ==
  /\ \A S \in SUBSET SearchIds, st \in Finished, party \in BOOLEAN :
       Queue(Leave(S, st, party),
             IF S = {} THEN {} ELSE {[op |-> "leave", pend |-> S, st |-> st, party |-> party]})
  /\ \A m \in MatchIds \cup {None}, acc \in BOOLEAN :
       Queue(Left(m, acc), IF m = None THEN {} ELSE {[op |-> "left", m |-> m, acc |-> acc]})
<1>1. \A S \in SUBSET SearchIds, st \in Finished, party \in BOOLEAN :
        [op |-> "leave", pend |-> S, st |-> st, party |-> party] \in Task
  BY DEF Task
<1>2. \A m \in MatchIds, acc \in BOOLEAN : [op |-> "left", m |-> m, acc |-> acc] \in Task
  BY DEF Task
<1>3. \A S \in SUBSET SearchIds, st \in Finished, party \in BOOLEAN :
        Queue(Leave(S, st, party),
              IF S = {} THEN {} ELSE {[op |-> "leave", pend |-> S, st |-> st, party |-> party]})
  BY <1>1, ShortQueue DEF Leave
<1>4. \A m \in MatchIds \cup {None}, acc \in BOOLEAN :
        Queue(Left(m, acc), IF m = None THEN {} ELSE {[op |-> "left", m |-> m, acc |-> acc]})
  BY <1>2, ShortQueue DEF Left
<1> QED BY <1>3, <1>4

\* the task that assigns the players of a match
AssignTask(m) == [op |-> "assign", m |-> m, pend |-> {s \in LiveRows(m) : search[s].st # AssignedStatus(m)}]
\* the task that dissolves a match
DissolveTask(m) == [op |-> "end", m |-> m, st |-> "CANCELLED", pend |-> LiveRows(m),
                    free |-> IF match[m].st \in {"READY", "ACCEPTING"} THEN "cool" ELSE "now"]
\* the task that ends a match whose players go on
EndTask(m, free) == [op |-> "end", m |-> m, st |-> "ENDED", pend |-> {}, free |-> free]

\* assigning the players of a match, dissolving it and ending it
LEMMA MatchQueue ==
  ASSUME NEW m \in MatchIds
  PROVE  /\ AssignTask(m) \in Task /\ DissolveTask(m) \in Task
         /\ Queue(Assign(m), {AssignTask(m)}) /\ Assign(m) = <<AssignTask(m)>>
         /\ Queue(Dissolve(m), {DissolveTask(m)}) /\ Dissolve(m) = <<DissolveTask(m)>>
         /\ \A free \in {"now", "keep"} :
              Queue(EndMatch(m, free), {EndTask(m, free)}) /\ EndMatch(m, free) = <<EndTask(m, free)>>
<1>1. LiveRows(m) \in SUBSET SearchIds
  BY DEF LiveRows
<1>2. AssignTask(m) \in Task
  <2>1. \A S \in SUBSET SearchIds : [op |-> "assign", m |-> m, pend |-> S] \in Task
    BY DEF Task
  <2> QED BY <1>1, <2>1, Zenon DEF AssignTask
<1>3. DissolveTask(m) \in Task /\ \A free \in {"now", "keep"} : EndTask(m, free) \in Task
  <2>1. \A S \in SUBSET SearchIds, st \in Over, free \in {"cool", "now", "keep"} :
          [op |-> "end", m |-> m, st |-> st, pend |-> S, free |-> free] \in Task
    BY DEF Task
  <2> QED BY <1>1, <2>1 DEF DissolveTask, EndTask, Over
<1>4. /\ Assign(m) = <<AssignTask(m)>> /\ Dissolve(m) = <<DissolveTask(m)>>
      /\ \A free \in {"now", "keep"} : EndMatch(m, free) = <<EndTask(m, free)>>
  BY DEF Assign, AssignTask, Dissolve, DissolveTask, EndMatch, EndTask
<1> QED BY <1>2, <1>3, <1>4, ShortQueue

-----------------------------------------------------------------------------
(* What a task relies on. *)

\* a search that is placed on its own
Waits(s) == search[s].st = "SEARCHING" /\ search[s].match = None /\ search[s].leader = None
\* all players of an Accept match are there, or the profile that stands for those who are missing
Enough(m) == AcceptRequired(m) => match[m].prof # None \/ Players(m) >= Required[match[m].mode]

CanPlace(t) == \A s \in t.pend : Waits(s)
CanJoin(t) ==
  /\ match[t.m].st = "FORMING" /\ Waits(t.s)
  /\ AcceptRequired(t.m) => search[t.s].ask.mode = match[t.m].mode
CanGather(t) ==
  /\ match[t.m].st = "FORMING"
  /\ \A s \in t.pend : /\ search[s].leader # None
                       /\ search[search[s].leader].match = t.m
                       /\ search[search[s].leader].leader = None
CanComplete(t) == (match[t.m].st = "FORMING" \/ AcceptRequired(t.m)) /\ Enough(t.m)
CanFill(t)    == \A m \in t.pend : AcceptRequired(m)
CanPromote(t) == \A m \in t.pend : match[m].st = "READY" /\ AcceptRequired(m)
CanAssign(t) ==
  /\ match[t.m].st = "READY" /\ t.pend \subseteq LiveRows(t.m)
  /\ \A s \in LiveRows(t.m) \ t.pend : search[s].st = AssignedStatus(t.m)
CanAccept(t) ==
  /\ match[t.m].st = "ACCEPTING"
  /\ \A s \in LiveRows(t.m) : MustAccept(s) => search[s].acc
CanConnect(t) == match[t.m].st = "ACCEPTED"
\* a match that is dissolved loses everybody, one that ends nobody
CanEnd(t) ==
  /\ t.st = "CANCELLED" => t.pend = LiveRows(t.m) /\ t.free # "keep"
  /\ t.st = "ENDED" => t.pend = {}
CanAbandon(t) == \A m \in t.pend : match[m].st \in Holding \cup Over
CanBreak(t)   == \A m \in t.pend : match[m].st # "ACCEPTED"
CanRetire(t)  == \A s \in t.pend : search[s].st \in {"WAITING_ACCEPT", "READY_TO_CONNECT"}
\* the row that was read at first is still the account's, in that match or in none
CanEnter(t) ==
  IF t.own = None THEN RowOf(t.a) = {}
  ELSE /\ t.own \in RowOf(t.a)
       /\ search[t.own].match # None => search[t.own].match = t.m /\ search[t.own].acc = t.acc

Sound(t) ==
  /\ t.op = "place"    => CanPlace(t)
  /\ t.op = "join"     => CanJoin(t)
  /\ t.op = "gather"   => CanGather(t)
  /\ t.op = "full"     => CanComplete(t)
  /\ t.op = "fill"     => CanFill(t)
  /\ t.op = "promote"  => CanPromote(t)
  /\ t.op = "assign"   => CanAssign(t)
  /\ t.op = "accepted" => CanAccept(t)
  /\ t.op = "connect"  => CanConnect(t)
  /\ t.op = "end"      => CanEnd(t)
  /\ t.op = "abandon"  => CanAbandon(t)
  /\ t.op = "breakup"  => CanBreak(t)
  /\ t.op = "retire"   => CanRetire(t)
  /\ t.op = "enter"    => CanEnter(t)
\* tasks that rely on nothing
Carefree == {"scan", "leave", "left", "release", "set", "lapse", "reserve", "orphan", "purge", "sync", "add", "tag"}

\* no loop comes to a row or a match that the task before it is just working on
Once ==
  \A t \in Behind :
    /\ Head(todo).op = "join" /\ t.op = "place" => Head(todo).s \notin t.pend
    /\ Head(todo).op = "assign" /\ t.op = "promote" => Head(todo).m \notin t.pend

\* an account has one live row
OneRow == \A s, o \in SearchIds :
  search[s].st \in Live /\ search[o].st \in Live /\ search[s].acct = search[o].acct => s = o
\* who was placed for itself plays the mode it asked for
OwnMode == \A s \in SearchIds :
  /\ search[s].st \in Live /\ search[s].match # None /\ search[s].leader = None
  /\ AcceptRequired(search[s].match)
  => search[s].ask.mode = match[search[s].match].mode

Tasks == Ordered(todo) /\ (\A t \in Range(todo) : Sound(t)) /\ Once
Rows  == OneRow /\ OwnMode
TInv  == PInv /\ Tasks /\ Rows

-----------------------------------------------------------------------------
(* Steps in general. *)

\* a task that relies on nothing is always sound
LEMMA CarefreeTask == \A t : t.op \in Carefree => Sound(t) /\ Sound(t)'
BY DEF Sound, Carefree

\* what the invariant says of the running task
LEMMA Running ==
  ASSUME TInv, todo # <<>>
  PROVE  /\ todo \in Seq(Task) /\ Ordered(todo)
         /\ Head(todo) \in Task /\ Sound(Head(todo))
         /\ Behind \subseteq Task
         /\ \A t \in Behind : Precedes(Head(todo).op, t.op) /\ Sound(t)
<1>1. todo \in Seq(Task) /\ Ordered(todo) /\ \A t \in Range(todo) : Sound(t)
  BY DEF TInv, PInv, IInv, TypeOK, Tasks
<1>2. Head(todo) \in Range(todo) /\ Behind \subseteq Range(todo)
  BY <1>1, TailQueue
<1> QED BY <1>1, <1>2, TailQueue

\* the tasks after a step: those it put in front are sound, those behind stay so
LEMMA TasksAfter ==
  ASSUME TInv, todo # <<>>,
         NEW tasks, NEW R, Queue(tasks, R), \A t \in R : Inherits(t.op, Head(todo).op),
         Do(tasks),
         \A t \in R : Sound(t)', \A t \in Behind : Sound(t)',
         Once'
  PROVE  Tasks'
<1>1. Queue(todo', R \cup Behind)
  BY Running, Advance
<1> QED BY <1>1 DEF Queue, Tasks

\* which kinds of tasks stand behind the running one
LEMMA BehindKinds ==
  ASSUME TInv, todo # <<>>
  PROVE  \A t \in Behind :
    /\ Head(todo).op # "scan" /\ t.op \notin {"join", "gather", "full", "assign", "accepted", "connect", "end", "release",
                                              "retire", "orphan", "purge", "tag"}
    /\ Head(todo).op \in {"place", "fill", "promote", "breakup", "lapse", "retire", "orphan", "purge", "set",
                          "enter", "sync", "add"} => t.op = "scan"
    /\ Head(todo).op \in {"leave", "left"} => t.op \in {"scan", "leave", "left", "sync", "add"}
    /\ Head(todo).op = "tag" => t.op \in {"scan", "add"}
    /\ Head(todo).op = "abandon" => t.op \in {"scan", "enter"}
    /\ Head(todo).op \in {"join", "gather"} => t.op \in {"scan", "place"}
    /\ Head(todo).op \in {"full", "reserve"} => t.op \in {"scan", "place", "fill"}
    /\ Head(todo).op \in {"assign", "accepted", "connect"} => t.op \in {"scan", "place", "fill", "reserve", "promote"}
    /\ Head(todo).op \in {"end", "release"} =>
         t.op \in {"scan", "set", "enter", "leave", "left", "sync", "add", "abandon", "breakup", "lapse"}
<1>1. \A t \in Behind : Precedes(Head(todo).op, t.op)
  BY Running
<1> QED BY <1>1 DEF Precedes

\* only a join and an assignment have to keep out of the loops behind them
LEMMA OnceAfter ==
  ASSUME todo' # <<>> => Head(todo').op \notin {"join", "assign"}
  PROVE  Once'
<1>1. todo' = <<>> => Behind' = {}
  BY DEF Behind
<1> QED BY <1>1 DEF Once

\* tasks only read the searches and the matches
LEMMA SoundKept ==
  ASSUME UNCHANGED <<search, match>>
  PROVE  (\A t : Sound(t) => Sound(t)') /\ (Rows => Rows')
<1>1. /\ \A m : LiveRows(m)' = LiveRows(m) /\ Players(m)' = Players(m) /\ AcceptRequired(m)' = AcceptRequired(m)
               /\ Enough(m)' = Enough(m) /\ AssignedStatus(m)' = AssignedStatus(m)
      /\ \A s : Waits(s)' = Waits(s) /\ MustAccept(s)' = MustAccept(s)
      /\ \A a : RowOf(a)' = RowOf(a)
  BY DEF LiveRows, Players, AcceptRequired, Enough, AssignedStatus, Waits, MustAccept, RowOf
<1>2. ASSUME NEW t, Sound(t) PROVE Sound(t)'
  BY <1>1, <1>2 DEF Sound, CanPlace, CanJoin, CanGather, CanComplete, CanFill, CanPromote, CanAssign, CanAccept,
                    CanConnect, CanEnd, CanAbandon, CanBreak, CanRetire, CanEnter
<1>3. Rows => Rows'
  BY <1>1 DEF Rows, OneRow, OwnMode
<1> QED BY <1>2, <1>3

\* the statements on one row, in terms of the rows they leave
LEMMA Statements ==
  ASSUME search \in [SearchIds -> SearchType], NEW s \in SearchIds
  PROVE  /\ \A st \in Finished : Finish(s, st) =>
              /\ search'[s].st \notin Live
              /\ search'[s].leader = search[s].leader /\ search'[s].match = search[s].match
         /\ Unplace(s) => IF search[s].st \in Live
                          THEN search'[s] = [search[s] EXCEPT !.st = "SEARCHING", !.match = None, !.acc = FALSE]
                          ELSE search'[s] = search[s]
         /\ \A m \in MatchIds, st \in Live : Place(s, m, st) =>
              IF search[s].st \in Live
              THEN search'[s] = [search[s] EXCEPT !.st = st, !.match = m, !.acc = FALSE]
              ELSE search'[s] = search[s]
         /\ ((\E st \in Finished : Finish(s, st)) \/ Unplace(s) \/ (\E m \in MatchIds, st \in Live : Place(s, m, st)))
            => \A o \in SearchIds \ {s} : search'[o] = search[o]
<1>1. ASSUME NEW st \in Finished, Finish(s, st)
      PROVE  /\ search'[s].st \notin Live
             /\ search'[s].leader = search[s].leader /\ search'[s].match = search[s].match
             /\ \A o \in SearchIds \ {s} : search'[o] = search[o]
  BY <1>1 DEF Finish, SearchType, Finished, Live
<1>2. ASSUME Unplace(s)
      PROVE  /\ IF search[s].st \in Live
                THEN search'[s] = [search[s] EXCEPT !.st = "SEARCHING", !.match = None, !.acc = FALSE]
                ELSE search'[s] = search[s]
             /\ \A o \in SearchIds \ {s} : search'[o] = search[o]
  BY <1>2 DEF Unplace
<1>3. ASSUME NEW m \in MatchIds, NEW st \in Live, Place(s, m, st)
      PROVE  /\ IF search[s].st \in Live
                THEN search'[s] = [search[s] EXCEPT !.st = st, !.match = m, !.acc = FALSE]
                ELSE search'[s] = search[s]
             /\ \A o \in SearchIds \ {s} : search'[o] = search[o]
  BY <1>3 DEF Place
<1> QED BY <1>1, <1>2, <1>3

\* no row comes to life, changes its account, or goes to another match, and no match its mode
LEMMA RowsKept ==
  ASSUME Rows,
         \A s \in SearchIds : search'[s].st \in Live =>
           /\ search[s].st \in Live /\ search'[s].acct = search[s].acct
           /\ search'[s].match # None =>
                /\ search'[s].match = search[s].match /\ search'[s].leader = search[s].leader
                /\ search'[s].ask = search[s].ask
                /\ match'[search[s].match].mode = match[search[s].match].mode
  PROVE  Rows'
<1>1. OneRow'
  BY DEF Rows, OneRow
<1>2. OwnMode'
  BY DEF Rows, OwnMode, AcceptRequired
<1> QED BY <1>1, <1>2 DEF Rows

\* a statement that changes no search and no match
LEMMA QuietTask ==
  ASSUME TInv, PInv', todo # <<>>, UNCHANGED <<search, match>>,
         NEW tasks, NEW R, Queue(tasks, R), \A t \in R : Inherits(t.op, Head(todo).op),
         Do(tasks), \A t \in R : Sound(t),
         todo' # <<>> => Head(todo').op \notin {"join", "assign"}
  PROVE  TInv'
<1>1. \A t \in R \cup Behind : Sound(t)'
  BY Running, SoundKept
<1>2. Once'
  BY OnceAfter
<1>3. Tasks'
  BY <1>1, <1>2, TasksAfter
<1> QED BY <1>3, SoundKept DEF TInv

\* the head of a queue
LEMMA HeadKind ==
  ASSUME NEW q, NEW R, Queue(q, R), q # <<>>
  PROVE  Head(q) \in R
BY HeadTailProperties, LenProperties, EmptySeq, RangeEquality DEF Queue

\* after a step the head is one of the new tasks, or the one that stood behind the old head
LEMMA HeadAfter ==
  ASSUME TInv, todo # <<>>, NEW tasks, NEW R, Queue(tasks, R), Do(tasks), todo' # <<>>
  PROVE  Head(todo') \in R \cup Behind
<1>1. Queue(Tail(todo), Behind) /\ Tail(todo) \in Seq(Task) /\ tasks \in Seq(Task)
  BY Running, TailQueue DEF Queue
<1>2. CASE tasks = <<>>
  <2>1. todo' = Tail(todo)
    BY <1>1, <1>2, ConcatEmptySeq DEF Do
  <2> QED BY <1>1, <2>1, HeadKind
<1>3. CASE tasks # <<>>
  <2>1. Head(todo') = Head(tasks)
    BY <1>1, <1>3 DEF Do
  <2> QED BY <1>3, <2>1, HeadKind
<1> QED BY <1>2, <1>3

\* what the phases of the tick and of runMatcher find to do
LEMMA WorksAre ==
  ASSUME NEW q \in 1..LastPhase, NEW work \in Works(q)
  PROVE  \/ \E S \in SUBSET Stale : work = Leave(S, "EXPIRED", TRUE)
         \/ \E M \in SUBSET AcceptDue : work = Loop("breakup", M)
         \/ work = Loop("breakup", Legacy) \/ work = Loop("breakup", Deserted)
         \/ \E S \in SUBSET Assigned : work = Loop("retire", S)
         \/ \E M \in SUBSET Lapsed : work = Loop("lapse", M)
         \/ \E V \in SUBSET Orphans : work = Loop("orphan", V)
         \/ work \in {<<>>, Purge}
         \/ work = Loop("place", Unplaced)
         \/ \E M \in SUBSET Fillable : work = Loop("fill", M)
         \/ work = Loop("reserve", Full) \/ work = Loop("promote", Promotable)
<1> DEFINE W1  == {Leave(S, "EXPIRED", TRUE) : S \in SUBSET Stale}
           W2  == {Loop("breakup", M) : M \in SUBSET AcceptDue}
           W3  == {Loop("breakup", Legacy)}
           W4  == {Loop("breakup", Deserted)}
           W5  == {Loop("retire", S) : S \in SUBSET Assigned}
           W6  == {Loop("lapse", M) : M \in SUBSET Lapsed}
           W7  == {Loop("orphan", V) : V \in SUBSET Orphans}
           W8  == {<<>>, Purge}
           W9  == {Loop("place", Unplaced)}
           W10 == {Loop("fill", M) : M \in SUBSET Fillable}
           W11 == {Loop("reserve", Full)}
           W12 == {Loop("promote", Promotable)}
<1>1. Works(q) = CASE q = 1 -> W1 [] q = 2 -> W2 [] q = 3 -> W3 [] q = 4 -> W4 [] q = 5 -> W5 [] q = 6 -> W6
                   [] q = 7 -> W7 [] q = 8 -> W8 [] q = 9 -> W9 [] q = 10 -> W10 [] q = 11 -> W11 [] q = 12 -> W12
  BY DEF Works
<1>2. q \in {1, 2, 3, 4, 5, 6, 7, 8, 9, 10, 11, 12}
  BY DEF LastPhase
<1> HIDE DEF W1, W2, W3, W4, W5, W6, W7, W8, W9, W10, W11, W12
<1>3. \/ work \in W1 \/ work \in W2 \/ work \in W3 \/ work \in W4 \/ work \in W5 \/ work \in W6
      \/ work \in W7 \/ work \in W8 \/ work \in W9 \/ work \in W10 \/ work \in W11 \/ work \in W12
  BY <1>1, <1>2
<1> USE DEF W1, W2, W3, W4, W5, W6, W7, W8, W9, W10, W11, W12
<1> QED BY <1>3, Zenon

Timed == {"leave", "breakup", "retire", "lapse", "orphan", "purge", "place", "fill", "reserve", "promote"}

\* what a phase finds to do is sound: it has just been read
LEMMA WorksSound ==
  ASSUME TInv, NEW q \in 1..LastPhase, NEW work \in Works(q)
  PROVE  Queue(work, Range(work)) /\ \A t \in Range(work) : Sound(t) /\ t.op \in Timed
<1>1. ASSUME NEW R, Queue(work, R), NEW t, R \in {{}, {t}}, Sound(t), t.op \in Timed
      PROVE  Queue(work, Range(work)) /\ \A o \in Range(work) : Sound(o) /\ o.op \in Timed
  BY <1>1 DEF Queue
<1>2. ASSUME NEW S \in SUBSET Stale, work = Leave(S, "EXPIRED", TRUE)
      PROVE  Queue(work, Range(work)) /\ \A t \in Range(work) : Sound(t) /\ t.op \in Timed
  <2> DEFINE t == [op |-> "leave", pend |-> S, st |-> "EXPIRED", party |-> TRUE]
  <2>1. Queue(work, IF S = {} THEN {} ELSE {t})
    BY <1>2, LeaveQueue DEF Stale, Finished
  <2>2. Sound(t) /\ t.op \in Timed
    BY CarefreeTask DEF Carefree, Timed
  <2> HIDE DEF t
  <2> QED BY <1>1, <2>1, <2>2
<1>3. ASSUME NEW M \in SUBSET MatchIds, NEW op \in {"breakup", "lapse", "fill", "reserve", "promote"},
             work = Loop(op, M), Sound([op |-> op, pend |-> M])
      PROVE  Queue(work, Range(work)) /\ \A t \in Range(work) : Sound(t) /\ t.op \in Timed
  <2>1. Queue(work, IF M = {} THEN {} ELSE {[op |-> op, pend |-> M]})
    BY <1>3, LoopQueue
  <2> QED BY <1>1, <1>3, <2>1 DEF Timed
<1>4. ASSUME NEW S \in SUBSET SearchIds, NEW op \in {"retire", "place"},
             work = Loop(op, S), Sound([op |-> op, pend |-> S])
      PROVE  Queue(work, Range(work)) /\ \A t \in Range(work) : Sound(t) /\ t.op \in Timed
  <2>1. Queue(work, IF S = {} THEN {} ELSE {[op |-> op, pend |-> S]})
    BY <1>4, LoopQueue
  <2> QED BY <1>1, <1>4, <2>1 DEF Timed
<1>5. ASSUME NEW V \in SUBSET Orphans, work = Loop("orphan", V)
      PROVE  Queue(work, Range(work)) /\ \A t \in Range(work) : Sound(t) /\ t.op \in Timed
  <2>1. Queue(work, IF V = {} THEN {} ELSE {[op |-> "orphan", pend |-> V]})
    BY <1>5, LoopQueue DEF Orphans
  <2>2. Sound([op |-> "orphan", pend |-> V])
    BY CarefreeTask DEF Carefree
  <2> QED BY <1>1, <2>1, <2>2 DEF Timed
<1>6. ASSUME work \in {<<>>, Purge}
      PROVE  Queue(work, Range(work)) /\ \A t \in Range(work) : Sound(t) /\ t.op \in Timed
  <2>1. [op |-> "purge"] \in Task /\ Sound([op |-> "purge"])
    BY CarefreeTask DEF Task, Carefree
  <2>2. Queue(work, {}) \/ Queue(work, {[op |-> "purge"]})
    BY <1>6, <2>1, ShortQueue DEF Purge
  <2> QED BY <1>1, <2>1, <2>2 DEF Timed
<1>7. \A M \in (SUBSET AcceptDue) \cup {Legacy, Deserted} : M \in SUBSET MatchIds /\ Sound([op |-> "breakup", pend |-> M])
  BY DEF Sound, CanBreak, AcceptDue, Legacy, Deserted, Gathering
<1>8. \A S \in SUBSET Assigned : S \in SUBSET SearchIds /\ Sound([op |-> "retire", pend |-> S])
  BY DEF Sound, CanRetire, Assigned
<1>9. Unplaced \in SUBSET SearchIds /\ Sound([op |-> "place", pend |-> Unplaced])
  BY DEF Sound, CanPlace, Unplaced, Waits
<1>10. \A M \in SUBSET Fillable : M \in SUBSET MatchIds /\ Sound([op |-> "fill", pend |-> M])
  BY DEF Sound, CanFill, Fillable
<1>11. Promotable \in SUBSET MatchIds /\ Sound([op |-> "promote", pend |-> Promotable])
  BY DEF Sound, CanPromote, Promotable
<1>12. /\ \A M \in SUBSET Lapsed : M \in SUBSET MatchIds /\ Sound([op |-> "lapse", pend |-> M])
       /\ Full \in SUBSET MatchIds /\ Sound([op |-> "reserve", pend |-> Full])
  BY CarefreeTask DEF Carefree, Lapsed, Full
<1> QED BY <1>2, <1>3, <1>4, <1>5, <1>6, <1>7, <1>8, <1>9, <1>10, <1>11, <1>12, WorksAre

\* runMatcher and the tick go on with what they found
LEMMA ScanSound == TInv /\ PInv' /\ Scan => TInv'
<1> SUFFICES ASSUME TInv, PInv', Scan PROVE TInv' OBVIOUS
<1> DEFINE at == Head(todo).at
<1>1. todo # <<>> /\ Head(todo).op = "scan" /\ UNCHANGED <<search, match>>
  BY DEF Scan, Now
<1>2. at \in 1..LastPhase + 1 /\ Behind = {}
  BY <1>1, Running, BehindKinds DEF Task
<1>3. ASSUME NEW q \in at..LastPhase, NEW work \in Works(q), Do(work \o <<[op |-> "scan", at |-> q + 1]>>)
      PROVE  TInv'
  <2> DEFINE R == Range(work)
  <2>1. Queue(work, R) /\ \A t \in R : Sound(t) /\ t.op \in Timed
    BY <1>2, WorksSound DEF LastPhase
  <2> DEFINE go == [op |-> "scan", at |-> q + 1]
  <2>2. go \in Task /\ Queue(<<go>>, {go}) /\ Sound(go)
    <3>1. q + 1 \in 1..LastPhase + 1
      BY <1>2 DEF LastPhase
    <3>2. go \in Task
      BY <3>1 DEF Task
    <3> QED BY <3>2, ShortQueue, CarefreeTask DEF Carefree
  <2>3. Queue(work \o <<go>>, R \cup {go})
    <3>1. \A t \in R, o \in {go} : Precedes(t.op, o.op)
      BY <2>1 DEF Precedes, Timed
    <3> QED BY <2>1, <2>2, <3>1, JoinQueues
  <2>4. \A t \in R \cup {go} : Inherits(t.op, "scan") /\ Sound(t) /\ t.op \notin {"join", "assign"}
    BY <2>1, <2>2 DEF Inherits, Precedes, Timed
  <2>5. Do(work \o <<go>>)
    BY <1>3
  <2> HIDE DEF R, go
  <2>6. todo' # <<>> => Head(todo').op \notin {"join", "assign"}
    BY <1>1, <1>2, <2>3, <2>4, <2>5, HeadAfter
  <2> QED BY <1>1, <2>3, <2>4, <2>5, <2>6, QuietTask
<1>4. ASSUME Do(<<>>) PROVE TInv'
  <2>1. todo' # <<>> => Head(todo').op \notin {"join", "assign"}
    BY <1>1, <1>2, <1>4, ShortQueue, HeadAfter
  <2> QED BY <1>1, <1>4, <2>1, ShortQueue, QuietTask
<1> QED BY <1>3, <1>4 DEF Scan

-----------------------------------------------------------------------------
(* Statements that change no search and no match. *)

\* what is left of a sound loop is sound
LEMMA RestSound ==
  ASSUME NEW t \in Task, t.op \in {"breakup", "lapse", "abandon", "fill", "promote", "reserve", "retire", "place",
                                   "orphan", "leave", "add"}, NEW x, Sound(t)
  PROVE  \A r \in RestSet(t, x) : Sound(r)
<1> SUFFICES ASSUME NEW r \in RestSet(t, x) PROVE Sound(r) OBVIOUS
<1>1. r.op = t.op /\ r.pend = t.pend \ {x}
  BY RestQueue DEF Looping
<1> QED BY <1>1 DEF Sound, CanPlace, CanFill, CanPromote, CanAbandon, CanBreak, CanRetire

\* a match that has just been found is dissolved or ended soundly
LEMMA EndSound ==
  ASSUME NEW m
  PROVE  /\ Sound(DissolveTask(m)) /\ DissolveTask(m).op = "end" /\ DissolveTask(m).m = m
         /\ \A free : Sound(EndTask(m, free)) /\ EndTask(m, free).op = "end" /\ EndTask(m, free).m = m
BY DEF Sound, DissolveTask, EndTask, CanEnd

\* the statements that end a match in front of the rest of their loop
LEMMA EndFirst ==
  ASSUME TInv, PInv', todo # <<>>, UNCHANGED <<search, match>>,
         NEW t, t = Head(todo), t.op \in {"breakup", "lapse", "abandon"}, NEW m \in MatchIds,
         NEW end \in {DissolveTask(m), EndTask(m, "now")}, Do(<<end>> \o Rest(t, m))
  PROVE  TInv'
<1>1. t \in Task /\ Sound(t) /\ Sound(end) /\ end.op = "end" /\ Queue(<<end>>, {end})
  <2>1. Queue(<<DissolveTask(m)>>, {DissolveTask(m)}) /\ Queue(<<EndTask(m, "now")>>, {EndTask(m, "now")})
    BY MatchQueue
  <2>2. Sound(end) /\ end.op = "end"
    BY EndSound
  <2> QED BY <2>1, <2>2, Running
<1>2. Queue(Rest(t, m), RestSet(t, m)) /\ \A r \in RestSet(t, m) : r.op = t.op /\ Sound(r)
  BY <1>1, RestQueue, RestSound DEF Looping
<1>3. Queue(<<end>> \o Rest(t, m), {end} \cup RestSet(t, m))
  BY <1>1, <1>2, JoinQueues DEF Precedes
<1>4. \A r \in {end} \cup RestSet(t, m) : Inherits(r.op, t.op) /\ Sound(r) /\ r.op \notin {"join", "assign"}
  BY <1>1, <1>2 DEF Inherits, Precedes
<1>5. todo' # <<>> => Head(todo').op \notin {"join", "assign"}
  BY <1>3, <1>4, HeadAfter, BehindKinds
<1> QED BY <1>3, <1>4, <1>5, QuietTask

\* the timers, and the account that starts another search, end or dissolve one match after the other
LEMMA BreakupSound == TInv /\ PInv' /\ (Breakup \/ Lapse \/ ReleaseAbandoned) => TInv'
<1> SUFFICES ASSUME TInv, PInv', Breakup \/ Lapse \/ ReleaseAbandoned PROVE TInv' OBVIOUS
<1>1. todo # <<>> /\ Head(todo).op \in {"breakup", "lapse", "abandon"} /\ UNCHANGED <<search, match>>
  BY DEF Breakup, Lapse, ReleaseAbandoned, Now
<1>2. Head(todo).pend \in SUBSET MatchIds
  BY <1>1, Running, TaskFields
<1>3. PICK m \in Head(todo).pend : \/ Do(Dissolve(m) \o Rest(Head(todo), m))
                                   \/ Do(EndMatch(m, "now") \o Rest(Head(todo), m))
  BY DEF Breakup, Lapse, ReleaseAbandoned
<1>4. m \in MatchIds /\ Dissolve(m) = <<DissolveTask(m)>> /\ EndMatch(m, "now") = <<EndTask(m, "now")>>
  BY <1>2, MatchQueue
<1> QED BY <1>1, <1>3, <1>4, EndFirst

\* the statements on a server only go on
LEMMA ServerSound == TInv /\ PInv' /\ (ReleaseOrphan \/ Release \/ SetServer) => TInv'
<1> SUFFICES ASSUME TInv, PInv', ReleaseOrphan \/ Release \/ SetServer PROVE TInv' OBVIOUS
<1>1. todo # <<>> /\ Head(todo).op \in {"orphan", "release", "set"} /\ UNCHANGED <<search, match>>
  BY DEF ReleaseOrphan, Release, SetServer, Now
<1>2. ASSUME NEW tasks, NEW R, Queue(tasks, R), Do(tasks), \A r \in R : r.op = "orphan" /\ Head(todo).op = "orphan"
      PROVE  TInv'
  <2>1. \A r \in R : Inherits(r.op, Head(todo).op) /\ Sound(r)
    BY <1>2, CarefreeTask DEF Inherits, Carefree
  <2>2. todo' # <<>> => Head(todo').op \notin {"join", "assign"}
    BY <1>1, <1>2, HeadAfter, BehindKinds
  <2> QED BY <1>1, <1>2, <2>1, <2>2, QuietTask
<1>3. CASE ReleaseOrphan
  <2>1. PICK v \in Head(todo).pend : Do(Rest(Head(todo), v))
    BY <1>3 DEF ReleaseOrphan
  <2>2. Head(todo).op = "orphan"
    BY <1>3 DEF ReleaseOrphan, Now
  <2>3. Queue(Rest(Head(todo), v), RestSet(Head(todo), v)) /\ \A r \in RestSet(Head(todo), v) : r.op = "orphan"
    BY <1>1, <2>2, Running, RestQueue
  <2> QED BY <1>2, <2>1, <2>2, <2>3
<1>4. CASE Release \/ SetServer
  <2>1. Do(<<>>)
    BY <1>4 DEF Release, SetServer
  <2> QED BY <1>2, <2>1, ShortQueue
<1> QED BY <1>3, <1>4

\* syncParty only queues who leaves and who is added
LEMMA SyncSound == TInv /\ PInv' /\ SyncParty => TInv'
<1> SUFFICES ASSUME TInv, PInv', SyncParty PROVE TInv' OBVIOUS
<1> DEFINE t == Head(todo)
           stay == {s \in Members(t.l) : search[s].acct \in t.pend}
           absent == t.pend \ {search[s].acct : s \in stay}
           gone == [op |-> "leave", pend |-> Members(t.l) \ stay, st |-> "CANCELLED", party |-> FALSE]
           add == [t EXCEPT !.op = "add", !.pend = absent]
           leaving == IF Members(t.l) \ stay = {} THEN {} ELSE {gone}
           adding == IF absent = {} THEN {} ELSE {add}
<1>1. todo # <<>> /\ t.op = "sync" /\ t \in Task /\ UNCHANGED <<search, match>>
  BY Running DEF SyncParty, Now
<1>2. Do(Leave(Members(t.l) \ stay, "CANCELLED", FALSE) \o (IF absent = {} THEN <<>> ELSE <<add>>))
  BY DEF SyncParty
<1>3. Queue(Leave(Members(t.l) \ stay, "CANCELLED", FALSE), leaving)
  <2>1. Members(t.l) \ stay \in SUBSET SearchIds
    BY DEF Members
  <2> HIDE DEF stay
  <2> QED BY <2>1, LeaveQueue DEF Finished
<1>4. add \in Task /\ add.op = "add"
  <2>1. absent \in SUBSET Accounts
    BY <1>1, TaskFields
  <2> HIDE DEF absent
  <2> QED BY <1>1, <2>1 DEF Task
<1>5. Queue(IF absent = {} THEN <<>> ELSE <<add>>, adding)
  BY <1>4, ShortQueue
<1>6. \A r \in leaving : r.op = "leave"
  OBVIOUS
<1>7. \A r \in adding : r.op = "add"
  BY <1>4
<1> HIDE DEF t, stay, absent, gone, add, leaving, adding
<1>8. Queue(Leave(Members(t.l) \ stay, "CANCELLED", FALSE) \o (IF absent = {} THEN <<>> ELSE <<add>>),
            leaving \cup adding)
  BY <1>3, <1>5, <1>6, <1>7, JoinQueues DEF Precedes
<1>9. \A r \in leaving \cup adding : Inherits(r.op, "sync") /\ Sound(r) /\ r.op \notin {"join", "assign"}
  BY <1>6, <1>7, CarefreeTask DEF Inherits, Precedes, Carefree
<1>10. todo' # <<>> => Head(todo').op \notin {"join", "assign"}
  BY <1>1, <1>2, <1>8, <1>9, HeadAfter, BehindKinds
<1> QED BY <1>1, <1>2, <1>8, <1>9, <1>10, QuietTask DEF t

\* the players of a READY match are assigned soundly
LEMMA AssignSound ==
  ASSUME NEW m, match[m].st = "READY"
  PROVE  Sound(AssignTask(m)) /\ AssignTask(m).op = "assign" /\ AssignTask(m).m = m
BY DEF Sound, CanAssign, AssignTask

\* the match that is promoted is READY, and the rest of the loop is without it
LEMMA PromoteSound == TInv /\ PInv' /\ PromoteMatch => TInv'
<1> SUFFICES ASSUME TInv, PInv', PromoteMatch PROVE TInv' OBVIOUS
<1>1. todo # <<>> /\ Head(todo).op = "promote" /\ UNCHANGED <<search, match>>
  BY DEF PromoteMatch, Now
<1>2. PICK t : t = Head(todo)
  OBVIOUS
<1>3. t \in Task /\ Sound(t) /\ t.pend \in SUBSET MatchIds
  BY <1>1, <1>2, Running, TaskFields
<1>4. PICK m \in t.pend : Do(Assign(m) \o Rest(t, m)) \/ Do(Rest(t, m))
  BY <1>2 DEF PromoteMatch
<1>5. Queue(Rest(t, m), RestSet(t, m)) /\ \A r \in RestSet(t, m) : r.op = "promote" /\ r.pend = t.pend \ {m} /\ Sound(r)
  BY <1>1, <1>2, <1>3, RestQueue, RestSound DEF Looping
<1>6. Queue(Assign(m), {AssignTask(m)}) /\ Assign(m) = <<AssignTask(m)>>
  BY <1>3, MatchQueue
<1>7. Sound(AssignTask(m)) /\ AssignTask(m).op = "assign" /\ AssignTask(m).m = m
  BY <1>1, <1>2, <1>3, AssignSound DEF Sound, CanPromote
<1>8. \A b \in Behind : b.op = "scan"
  BY <1>1, BehindKinds
<1>9. CASE Do(Rest(t, m))
  <2>1. todo' # <<>> => Head(todo').op \notin {"join", "assign"}
    BY <1>1, <1>5, <1>8, <1>9, HeadAfter
  <2> QED BY <1>1, <1>2, <1>5, <1>9, <2>1, QuietTask DEF Inherits
<1>10. CASE Do(Assign(m) \o Rest(t, m))
  <2> DEFINE new == {AssignTask(m)} \cup RestSet(t, m)
  <2>1. Queue(Assign(m) \o Rest(t, m), new)
    BY <1>5, <1>6, <1>7, JoinQueues DEF Precedes
  <2>2. \A r \in new : Inherits(r.op, Head(todo).op) /\ Sound(r)
    BY <1>1, <1>5, <1>7 DEF Inherits, Precedes
  <2>3. Queue(todo', new \cup Behind)
    BY <1>1, <1>10, <2>1, <2>2, Running, Advance
  <2>4. todo' = Assign(m) \o (Rest(t, m) \o Tail(todo)) /\ Queue(Rest(t, m) \o Tail(todo), RestSet(t, m) \cup Behind)
    <3>1. Queue(Tail(todo), Behind)
      BY <1>1, Running, TailQueue
    <3>2. Queue(Rest(t, m) \o Tail(todo), RestSet(t, m) \cup Behind)
      BY <1>5, <1>8, <3>1, JoinQueues DEF Precedes
    <3>3. Assign(m) \in Seq(Task) /\ Rest(t, m) \in Seq(Task) /\ Tail(todo) \in Seq(Task)
      BY <1>5, <1>6, <3>1 DEF Queue
    <3> QED BY <1>10, <3>2, <3>3, ConcatAssociative DEF Do
  <2>5. Head(todo') = AssignTask(m) /\ Tail(todo') = Rest(t, m) \o Tail(todo) /\ todo' # <<>>
    BY <1>6, <2>4, Cons DEF Queue
  <2>6. Behind' = RestSet(t, m) \cup Behind
    BY <2>4, <2>5 DEF Behind, Queue
  <2>7. Once'
    BY <1>5, <1>7, <1>8, <2>5, <2>6 DEF Once
  <2>8. Tasks'
    BY <1>1, <1>10, <2>1, <2>2, <2>7, Running, SoundKept, TasksAfter
  <2> QED BY <1>1, <2>8, SoundKept DEF TInv
<1> QED BY <1>4, <1>9, <1>10

-----------------------------------------------------------------------------
(* Statements on searches. *)

\* any statement: what it queues and what stands behind is sound after it
LEMMA TaskStep ==
  ASSUME TInv, PInv', todo # <<>>,
         NEW tasks, NEW R, Queue(tasks, R), \A t \in R : Inherits(t.op, Head(todo).op),
         Do(tasks), \A t \in R : Sound(t)', \A t \in Behind : t.op \notin Carefree => Sound(t)', Rows',
         \A t \in R : t.op \notin {"join", "assign"}
  PROVE  TInv'
<1>1. \A t \in Behind : Sound(t)'
  BY CarefreeTask
<1>2. todo' # <<>> => Head(todo').op \notin {"join", "assign"}
  BY HeadAfter, BehindKinds
<1>3. Once'
  BY <1>2, OnceAfter
<1> QED BY <1>1, <1>3, TasksAfter DEF TInv

\* a statement that leaves one task in the place of the old one
LEMMA OneAfter ==
  ASSUME TInv, todo # <<>>, NEW e \in Task, Do(<<e>>)
  PROVE  todo' # <<>> /\ Head(todo') = e /\ Behind' = Behind
<1>1. Tail(todo) \in Seq(Task) /\ Range(Tail(todo)) = Behind
  BY Running, TailQueue DEF Queue
<1>2. todo' # <<>> /\ Head(todo') = e /\ Tail(todo') = Tail(todo)
  BY <1>1, Cons DEF Do
<1> QED BY <1>1, <1>2 DEF Behind

\* behind a task of these kinds nothing stands that relies on anything
LEMMA BehindCarefree ==
  ASSUME TInv, todo # <<>>,
         Head(todo).op \in {"scan", "place", "fill", "promote", "breakup", "lapse", "retire", "orphan", "purge", "set",
                            "enter", "sync", "add", "leave", "left", "tag"}
  PROVE  \A t \in Behind : t.op \in Carefree
BY BehindKinds DEF Carefree

\* an old answer is completed
LEMMA RetireSound == TInv /\ PInv' /\ Retire => TInv'
<1> SUFFICES ASSUME TInv, PInv', Retire PROVE TInv' OBVIOUS
<1>1. todo # <<>> /\ Head(todo).op = "retire" /\ UNCHANGED match
  BY DEF Retire, Now
<1>2. PICK t : t = Head(todo)
  OBVIOUS
<1>3. t \in Task /\ Sound(t) /\ t.pend \in SUBSET SearchIds
  BY <1>1, <1>2, Running, TaskFields
<1>4. PICK s \in t.pend : Finish(s, "COMPLETED") /\ Do(Rest(t, s))
  BY <1>2 DEF Retire
<1>5. /\ search'[s].st \notin Live /\ \A o \in SearchIds \ {s} : search'[o] = search[o]
  BY <1>3, <1>4, Statements DEF Finished, TInv, PInv, IInv, TypeOK
<1>6. Queue(Rest(t, s), RestSet(t, s)) /\ \A r \in RestSet(t, s) : r.op = "retire" /\ r.pend = t.pend \ {s}
  BY <1>1, <1>2, <1>3, RestQueue DEF Looping
<1>7. \A r \in RestSet(t, s) : Sound(r)'
  BY <1>1, <1>2, <1>3, <1>5, <1>6 DEF Sound, CanRetire
<1>8. Rows'
  BY <1>1, <1>5, RowsKept DEF TInv
<1>9. \A b \in Behind : b.op \in Carefree
  BY <1>1, BehindCarefree
<1> QED BY <1>1, <1>2, <1>4, <1>6, <1>7, <1>8, <1>9, TaskStep DEF Inherits

\* a player leaves
LEMMA LeaveRowSound == TInv /\ PInv' /\ LeaveRow => TInv'
<1> SUFFICES ASSUME TInv, PInv', LeaveRow PROVE TInv' OBVIOUS
<1>1. todo # <<>> /\ Head(todo).op = "leave" /\ UNCHANGED match
  BY DEF LeaveRow, Now
<1>2. PICK t : t = Head(todo)
  OBVIOUS
<1>3. t \in Task /\ Sound(t) /\ t.pend \in SUBSET SearchIds /\ t.st \in Finished
  BY <1>1, <1>2, Running, TaskFields
<1>4. PICK s \in t.pend :
        /\ Finish(s, t.st)
        /\ Do(Leave(IF t.party /\ ~search[s].acc THEN Members(s) ELSE {}, t.st, FALSE)
              \o Left(search[s].match, search[s].acc) \o Rest(t, s))
  BY <1>2 DEF LeaveRow
<1> DEFINE all == IF t.party /\ ~search[s].acc THEN Members(s) ELSE {}
           gone == IF all = {} THEN {} ELSE {[op |-> "leave", pend |-> all, st |-> t.st, party |-> FALSE]}
           told == IF search[s].match = None THEN {}
                   ELSE {[op |-> "left", m |-> search[s].match, acc |-> search[s].acc]}
<1>5. /\ search'[s].st \notin Live /\ \A o \in SearchIds \ {s} : search'[o] = search[o]
  BY <1>3, <1>4, Statements DEF TInv, PInv, IInv, TypeOK
<1>6. Rows'
  BY <1>1, <1>5, RowsKept DEF TInv
<1>7. all \in SUBSET SearchIds /\ search[s].match \in MatchIds \cup {None} /\ search[s].acc \in BOOLEAN
  BY <1>3 DEF Members, TInv, PInv, IInv, TypeOK, SearchType
<1> HIDE DEF all
<1>8. /\ Queue(Leave(all, t.st, FALSE), gone) /\ \A r \in gone : r.op = "leave"
      /\ Queue(Left(search[s].match, search[s].acc), told) /\ \A r \in told : r.op = "left"
  <2>1. Queue(Leave(all, t.st, FALSE), gone)
    BY <1>3, <1>7, LeaveQueue
  <2>2. Queue(Left(search[s].match, search[s].acc), told)
    BY <1>7, LeaveQueue
  <2>3. \A r \in gone : r.op = "leave"
    OBVIOUS
  <2>4. \A r \in told : r.op = "left"
    OBVIOUS
  <2> QED BY <2>1, <2>2, <2>3, <2>4
<1>9. Queue(Rest(t, s), RestSet(t, s)) /\ \A r \in RestSet(t, s) : r.op = "leave"
  BY <1>1, <1>2, <1>3, RestQueue DEF Looping
<1> HIDE DEF gone, told
<1>10. Queue(Leave(all, t.st, FALSE) \o Left(search[s].match, search[s].acc), gone \cup told)
  BY <1>8, JoinQueues DEF Precedes
<1> DEFINE tasks == Leave(all, t.st, FALSE) \o Left(search[s].match, search[s].acc) \o Rest(t, s)
<1>11. Queue(tasks, gone \cup told \cup RestSet(t, s))
  BY <1>8, <1>9, <1>10, JoinQueues DEF Precedes
<1>12. \A r \in gone \cup told \cup RestSet(t, s) : Inherits(r.op, "leave") /\ r.op \in {"leave", "left"} /\ Sound(r)'
  BY <1>8, <1>9, CarefreeTask DEF Inherits, Precedes, Carefree
<1>13. Do(tasks)
  BY <1>4 DEF all
<1>14. \A b \in Behind : b.op \in Carefree
  BY <1>1, BehindCarefree
<1> HIDE DEF tasks
<1> QED BY <1>1, <1>2, <1>6, <1>11, <1>12, <1>13, <1>14, TaskStep

\* a statement of the handler of a leaving or entering player: nothing that is queued relies on anything
LEMMA CarefreeStep ==
  ASSUME TInv, PInv', todo # <<>>, Head(todo).op \in {"set", "enter", "sync", "add", "leave", "left", "tag", "purge"},
         NEW tasks, NEW R, Queue(tasks, R), \A t \in R : Inherits(t.op, Head(todo).op) /\ t.op \in Carefree,
         Do(tasks), Rows'
  PROVE  TInv'
<1>1. \A b \in Behind : b.op \in Carefree
  BY BehindCarefree
<1>2. \A t \in R : Sound(t)' /\ t.op \notin {"join", "assign"}
  BY CarefreeTask DEF Carefree
<1> QED BY <1>1, <1>2, TaskStep

\* a row is written for an account that has no other live row
LEMMA RowsEntered ==
  ASSUME Rows, NEW s \in SearchIds, search'[s].match = None, RowOf(search'[s].acct) \subseteq {s},
         \A o \in SearchIds \ {s} : search'[o] = search[o],
         \A m \in MatchIds : match'[m].mode = match[m].mode, \A o \in SearchIds : search[o].match \in MatchIds \cup {None}
  PROVE  Rows'
<1>1. OneRow'
  BY DEF Rows, OneRow, RowOf
<1>2. OwnMode'
  BY DEF Rows, OwnMode, AcceptRequired
<1> QED BY <1>1, <1>2 DEF Rows

\* insert, and replaceLive
LEMMA EnterSound == TInv /\ PInv' /\ Enter => TInv'
<1> SUFFICES ASSUME TInv, PInv', Enter PROVE TInv' OBVIOUS
<1> DEFINE Sync(t, l) == [op |-> "sync", l |-> l, src |-> t.src, ask |-> t.ask, pend |-> t.pend]
<1>1. todo # <<>> /\ Head(todo).op = "enter" /\ UNCHANGED match
  BY DEF Enter, Now
<1>2. PICK t : t = Head(todo)
  OBVIOUS
<1>3. /\ t \in Task /\ t.op = "enter" /\ CanEnter(t) /\ t.own \in SearchIds \cup {None}
      /\ t.m \in MatchIds \cup {None} /\ t.acc \in BOOLEAN
  BY <1>1, <1>2, Running, TaskFields DEF Sound
<1>4. search \in [SearchIds -> SearchType] /\ \A s \in SearchIds : search[s].match \in MatchIds \cup {None}
  BY DEF TInv, PInv, IInv, TypeOK, SearchType
<1>5. \A l \in SearchIds : Queue(<<Sync(t, l)>>, {Sync(t, l)}) /\ Sync(t, l).op = "sync"
  <2>1. \A l \in SearchIds : Sync(t, l) \in Task
    BY <1>3, TaskFields DEF Task
  <2> QED BY <2>1, ShortQueue
<1>6. CASE t.own = None
  <2>1. PICK s \in FreshSearches : /\ search' = [search EXCEPT ![s] = NewSearch(t.a, t.r, t.src, t.ask, None)]
                                   /\ Do(<<Sync(t, s)>>)
    BY <1>2, <1>6 DEF Enter
  <2>2. s \in SearchIds /\ RowOf(t.a) = {}
    BY <1>3, <1>6 DEF FreshSearches, CanEnter
  <2>3. search'[s].match = None /\ search'[s].acct = t.a /\ \A o \in SearchIds \ {s} : search'[o] = search[o]
    BY <1>4, <2>1, <2>2 DEF NewSearch, NoSearch
  <2>4. Rows'
    BY <1>1, <1>4, <2>2, <2>3, RowsEntered DEF TInv
  <2> HIDE DEF Sync
  <2>5. \A r \in {Sync(t, s)} : Inherits(r.op, "enter") /\ r.op \in Carefree
    BY <1>5, <2>2 DEF Inherits, Precedes, Carefree
  <2>6. PICK e : e = Sync(t, s)
    OBVIOUS
  <2>7. Queue(<<e>>, {e}) /\ Do(<<e>>) /\ \A r \in {e} : Inherits(r.op, Head(todo).op) /\ r.op \in Carefree
    BY <1>1, <1>5, <2>1, <2>2, <2>5, <2>6
  <2> QED BY <1>1, <2>4, <2>7, CarefreeStep
<1>7. CASE t.own # None
  <2> DEFINE all == IF t.acc THEN {} ELSE Members(t.own)
             gone == IF all = {} THEN {} ELSE {[op |-> "leave", pend |-> all, st |-> "CANCELLED", party |-> FALSE]}
             told == IF t.m = None THEN {} ELSE {[op |-> "left", m |-> t.m, acc |-> t.acc]}
  <2>1. /\ search' = [search EXCEPT ![t.own] = NewSearch(t.a, t.r, t.src, t.ask, @.leader)]
        /\ Do(Leave(all, "CANCELLED", FALSE) \o Left(t.m, t.acc) \o <<Sync(t, t.own)>>)
    BY <1>2, <1>7 DEF Enter
  <2>2. t.own \in SearchIds /\ t.own \in RowOf(t.a)
    BY <1>3, <1>7 DEF CanEnter
  <2>3. /\ search'[t.own].match = None /\ search'[t.own].acct = t.a
        /\ \A o \in SearchIds \ {t.own} : search'[o] = search[o]
    BY <1>4, <2>1, <2>2 DEF NewSearch, NoSearch
  <2>4. RowOf(t.a) \subseteq {t.own}
    BY <2>2 DEF RowOf, TInv, Rows, OneRow
  <2>5. Rows'
    BY <1>1, <1>4, <2>2, <2>3, <2>4, RowsEntered DEF TInv
  <2>6. all \in SUBSET SearchIds
    BY DEF Members
  <2> HIDE DEF all, Sync
  <2>7. Queue(Leave(all, "CANCELLED", FALSE), gone) /\ Queue(Left(t.m, t.acc), told)
    <3>1. Queue(Leave(all, "CANCELLED", FALSE), gone)
      BY <2>6, LeaveQueue DEF Finished
    <3>2. Queue(Left(t.m, t.acc), told)
      BY <1>3, LeaveQueue
    <3> QED BY <3>1, <3>2
  <2>8. (\A r \in gone : r.op = "leave") /\ \A r \in told : r.op = "left"
    OBVIOUS
  <2> HIDE DEF gone, told
  <2>9. Queue(Leave(all, "CANCELLED", FALSE) \o Left(t.m, t.acc), gone \cup told)
    BY <2>7, <2>8, JoinQueues DEF Precedes
  <2> DEFINE R == gone \cup told \cup {Sync(t, t.own)}
  <2>10. Queue(Leave(all, "CANCELLED", FALSE) \o Left(t.m, t.acc) \o <<Sync(t, t.own)>>, R)
    BY <1>5, <2>2, <2>8, <2>9, JoinQueues DEF Precedes
  <2>11. \A r \in R : Inherits(r.op, "enter") /\ r.op \in Carefree
    BY <1>5, <2>2, <2>8 DEF Inherits, Precedes, Carefree
  <2> HIDE DEF R
  <2> QED BY <1>1, <1>2, <1>3, <2>1, <2>5, <2>10, <2>11, CarefreeStep
<1> QED BY <1>6, <1>7

\* a member of the party gets a search, once it is in no other
LEMMA AddMemberSound == TInv /\ PInv' /\ AddMember => TInv'
<1> SUFFICES ASSUME TInv, PInv', AddMember PROVE TInv' OBVIOUS
<1>1. todo # <<>> /\ Head(todo).op = "add" /\ UNCHANGED match
  BY DEF AddMember, Now
<1>2. PICK t : t = Head(todo)
  OBVIOUS
<1>3. t \in Task /\ t.op = "add" /\ t.pend \in SUBSET Accounts
  BY <1>1, <1>2, Running, TaskFields
<1>4. search \in [SearchIds -> SearchType] /\ \A s \in SearchIds : search[s].match \in MatchIds \cup {None}
  BY DEF TInv, PInv, IInv, TypeOK, SearchType
<1>5. PICK a \in t.pend :
        \/ RowOf(a) # {} /\ Do(Leave(RowOf(a), "CANCELLED", TRUE) \o <<t>>) /\ UNCHANGED search
        \/ /\ RowOf(a) = {}
           /\ \E s \in FreshSearches : /\ search' = [search EXCEPT ![s] = NewSearch(a, None, t.src, t.ask, t.l)]
                                       /\ Do(<<[op |-> "tag", s |-> s]>> \o Rest(t, a))
  BY <1>2 DEF AddMember
<1>6. CASE RowOf(a) # {} /\ Do(Leave(RowOf(a), "CANCELLED", TRUE) \o <<t>>) /\ UNCHANGED search
  <2> DEFINE gone == [op |-> "leave", pend |-> RowOf(a), st |-> "CANCELLED", party |-> TRUE]
  <2>1. RowOf(a) \in SUBSET SearchIds
    BY DEF RowOf
  <2>2. Queue(Leave(RowOf(a), "CANCELLED", TRUE), {gone}) /\ gone.op = "leave"
    BY <1>6, <2>1, LeaveQueue DEF Finished
  <2>3. Queue(<<t>>, {t})
    BY <1>3, ShortQueue
  <2> HIDE DEF gone
  <2>4. Queue(Leave(RowOf(a), "CANCELLED", TRUE) \o <<t>>, {gone} \cup {t})
    BY <1>3, <2>2, <2>3, JoinQueues DEF Precedes
  <2>5. \A r \in {gone} \cup {t} : Inherits(r.op, "add") /\ r.op \in Carefree
    BY <1>3, <2>2 DEF Inherits, Precedes, Carefree
  <2>6. Rows'
    BY <1>1, <1>6, SoundKept DEF TInv
  <2> QED BY <1>1, <1>2, <1>3, <1>6, <2>4, <2>5, <2>6, CarefreeStep
<1>7. ASSUME RowOf(a) = {}, NEW s \in FreshSearches,
             search' = [search EXCEPT ![s] = NewSearch(a, None, t.src, t.ask, t.l)],
             Do(<<[op |-> "tag", s |-> s]>> \o Rest(t, a))
      PROVE  TInv'
  <2> DEFINE tag == [op |-> "tag", s |-> s]
  <2>1. s \in SearchIds /\ tag \in Task /\ tag.op = "tag"
    BY DEF FreshSearches, Task
  <2>2. search'[s].match = None /\ search'[s].acct = a /\ \A o \in SearchIds \ {s} : search'[o] = search[o]
    BY <1>4, <1>7, <2>1 DEF NewSearch, NoSearch
  <2>3. Rows'
    BY <1>1, <1>4, <1>7, <2>1, <2>2, RowsEntered DEF TInv
  <2> HIDE DEF tag
  <2>4. Queue(Rest(t, a), RestSet(t, a)) /\ \A r \in RestSet(t, a) : r.op = "add"
    BY <1>3, RestQueue DEF Looping
  <2>5. Queue(<<tag>> \o Rest(t, a), {tag} \cup RestSet(t, a))
    BY <2>1, <2>4, ShortQueue, JoinQueues DEF Precedes
  <2>6. \A r \in {tag} \cup RestSet(t, a) : Inherits(r.op, "add") /\ r.op \in Carefree
    BY <2>1, <2>4 DEF Inherits, Precedes, Carefree
  <2>7. Do(<<tag>> \o Rest(t, a))
    BY <1>7 DEF tag
  <2> QED BY <1>1, <1>2, <1>3, <2>3, <2>5, <2>6, <2>7, CarefreeStep
<1> QED BY <1>5, <1>6, <1>7

\* setRequestId
LEMMA TagSound == TInv /\ PInv' /\ TagMember => TInv'
<1> SUFFICES ASSUME TInv, PInv', TagMember PROVE TInv' OBVIOUS
<1>1. todo # <<>> /\ Head(todo).op = "tag" /\ UNCHANGED match /\ Do(<<>>)
  BY DEF TagMember, Now
<1>2. Head(todo).s \in SearchIds
  BY <1>1, Running, TaskFields
<1>3. search \in [SearchIds -> SearchType]
  BY DEF TInv, PInv, IInv, TypeOK
<1>4. \A s \in SearchIds : /\ search'[s].st = search[s].st /\ search'[s].acct = search[s].acct
                           /\ search'[s].match = search[s].match /\ search'[s].leader = search[s].leader
                           /\ search'[s].ask = search[s].ask
  BY <1>2, <1>3 DEF TagMember, SearchType
<1>5. Rows'
  BY <1>1, <1>4, RowsKept DEF TInv
<1> QED BY <1>1, <1>5, ShortQueue, CarefreeStep

-----------------------------------------------------------------------------
(* Statements on matches. *)

\* a match changes, no search does: no row is disturbed while the modes stay
LEMMA ModesKept ==
  ASSUME TInv, UNCHANGED search, \A m \in MatchIds : match'[m].mode = match[m].mode
  PROVE  /\ Rows' /\ \A m \in MatchIds : LiveRows(m)' = LiveRows(m)
         /\ \A m \in MatchIds : /\ AcceptRequired(m)' = AcceptRequired(m)
                                /\ AssignedStatus(m)' = AssignedStatus(m)
         /\ \A t : t.op \in {"place", "retire", "enter"} /\ Sound(t) => Sound(t)'
         /\ \A t \in Task : t.op = "fill" /\ Sound(t) => Sound(t)'
<1>1. \A s \in SearchIds : search[s].match \in MatchIds \cup {None}
  BY DEF TInv, PInv, IInv, TypeOK, SearchType
<1>2. Rows'
  BY <1>1, RowsKept DEF TInv
<1>3. \A m \in MatchIds : AcceptRequired(m)' = AcceptRequired(m) /\ AssignedStatus(m)' = AssignedStatus(m)
  BY DEF AcceptRequired, AssignedStatus
<1>4. \A m \in MatchIds : LiveRows(m)' = LiveRows(m)
  BY DEF LiveRows
<1>5. (\A s : Waits(s)' = Waits(s)) /\ \A a : RowOf(a)' = RowOf(a)
  BY DEF Waits, RowOf
<1>6. \A t : t.op \in {"place", "retire", "enter"} /\ Sound(t) => Sound(t)'
  BY <1>5 DEF Sound, CanPlace, CanRetire, CanEnter
<1>7. ASSUME NEW t \in Task, t.op = "fill", Sound(t) PROVE Sound(t)'
  <2>1. t.pend \in SUBSET MatchIds
    BY <1>7, TaskFields
  <2> QED BY <1>3, <1>7, <2>1 DEF Sound, CanFill
<1> QED BY <1>2, <1>3, <1>4, <1>6, <1>7

\* one player of a match that is dissolved goes back to searching
LEMMA DissolveRowSound == TInv /\ PInv' /\ DissolveRow => TInv'
<1> SUFFICES ASSUME TInv, PInv', DissolveRow PROVE TInv' OBVIOUS
<1>1. todo # <<>> /\ Head(todo).op = "end" /\ UNCHANGED match
  BY DEF DissolveRow, Now
<1>2. PICK t : t = Head(todo)
  OBVIOUS
<1>3. /\ t \in Task /\ t.op = "end" /\ t.m \in MatchIds /\ t.pend \in SUBSET SearchIds /\ t.st \in Over
      /\ CanEnd(t)
  BY <1>1, <1>2, Running, TaskFields DEF Sound
<1>4. PICK s \in t.pend : Unplace(s) /\ Do(<<[t EXCEPT !.pend = @ \ {s}]>>)
  BY <1>2 DEF DissolveRow
<1>5. s \in LiveRows(t.m) /\ t.pend = LiveRows(t.m) /\ t.st = "CANCELLED" /\ t.free # "keep"
  BY <1>3, <1>4 DEF CanEnd, Over
<1>6. /\ search'[s] = [search[s] EXCEPT !.st = "SEARCHING", !.match = None, !.acc = FALSE]
      /\ \A o \in SearchIds \ {s} : search'[o] = search[o]
      /\ search \in [SearchIds -> SearchType]
  BY <1>4, <1>5, Statements DEF LiveRows, TInv, PInv, IInv, TypeOK
<1>7. search'[s].st = "SEARCHING" /\ search'[s].match = None /\ search'[s].acct = search[s].acct /\ search[s].st \in Live
  BY <1>5, <1>6 DEF LiveRows, SearchType
<1>8. Rows'
  BY <1>1, <1>5, <1>6, <1>7, RowsKept DEF TInv, LiveRows
<1> DEFINE e == [t EXCEPT !.pend = @ \ {s}]
<1>9. e \in Task /\ e.op = "end" /\ e.m = t.m /\ e.pend = t.pend \ {s} /\ e.st = t.st /\ e.free = t.free
  BY <1>3 DEF Task
<1> HIDE DEF e
<1>10. LiveRows(t.m)' = LiveRows(t.m) \ {s}
  BY <1>3, <1>5, <1>6, <1>7, NoneAssumption DEF LiveRows
<1>11. Sound(e)'
  BY <1>5, <1>9, <1>10 DEF Sound, CanEnd
<1>12. ASSUME NEW b \in Behind, b.op \notin Carefree PROVE Sound(b)'
  <2>1. b.op \in {"enter", "abandon", "breakup"} /\ Sound(b) /\ b \in Task
    BY <1>1, <1>12, BehindKinds, Running DEF Carefree
  <2>2. CASE b.op = "enter"
    <3>1. b.own \in SearchIds \cup {None} /\ CanEnter(b)
      BY <2>1, <2>2, TaskFields DEF Sound
    <3>4. \A o \in SearchIds : /\ search'[o].st \in Live <=> search[o].st \in Live
                               /\ search'[o].acct = search[o].acct
      <4>1. "SEARCHING" \in Live
        BY DEF Live
      <4> QED BY <1>6, <1>7, <4>1
    <3>2. \A a : RowOf(a)' = RowOf(a)
      BY <3>4 DEF RowOf
    <3>3. CanEnter(b)'
      BY <1>6, <1>7, <3>1, <3>2 DEF CanEnter
    <3> QED BY <2>2, <3>3 DEF Sound
  <2>3. CASE b.op \in {"abandon", "breakup"}
    BY <1>1, <2>1, <2>3 DEF Sound, CanAbandon, CanBreak
  <2> QED BY <2>1, <2>2, <2>3
<1>13. Queue(<<e>>, {e}) /\ Do(<<e>>)
  BY <1>4, <1>9, ShortQueue DEF e
<1> QED BY <1>1, <1>2, <1>3, <1>8, <1>9, <1>11, <1>12, <1>13, TaskStep DEF Inherits

\* the row of the match that ends
LEMMA EndRowSound == TInv /\ PInv' /\ End => TInv'
<1> SUFFICES ASSUME TInv, PInv', End PROVE TInv' OBVIOUS
<1>1. todo # <<>> /\ Head(todo).op = "end" /\ UNCHANGED search
  BY DEF End, Now
<1>2. PICK t : t = Head(todo)
  OBVIOUS
<1>3. t \in Task /\ t.m \in MatchIds /\ t.st \in Over /\ t.free \in {"cool", "now", "keep"}
  BY <1>1, <1>2, Running, TaskFields
<1>4. match \in [MatchIds -> MatchType]
  BY DEF TInv, PInv, IInv, TypeOK
<1>5. /\ match' = [match EXCEPT ![t.m].st = IF @ \in Gathering \cup Holding THEN t.st ELSE @]
      /\ \/ Do(<<>>)
         \/ t.free # "keep" /\ Do(<<[op |-> "release", m |-> t.m, free |-> t.free]>>)
  BY <1>2 DEF End
<1>6. \A m \in MatchIds : /\ match'[m].mode = match[m].mode
                          /\ match'[m].st = match[m].st \/ match'[m].st \in Over
  BY <1>3, <1>4, <1>5 DEF MatchType
<1>7. ASSUME NEW b \in Behind, b.op \notin Carefree PROVE Sound(b)'
  <2>1. b.op \in {"enter", "abandon", "breakup"} /\ Sound(b) /\ b \in Task
    BY <1>1, <1>7, BehindKinds, Running DEF Carefree
  <2>2. b.op \in {"abandon", "breakup"} => b.pend \in SUBSET MatchIds
    BY <2>1, TaskFields
  <2>3. CASE b.op = "enter"
    BY <1>1, <1>6, <2>1, <2>3, ModesKept
  <2>4. CASE b.op \in {"abandon", "breakup"}
    BY <1>6, <2>1, <2>2, <2>4 DEF Sound, CanAbandon, CanBreak, Over
  <2> QED BY <2>1, <2>3, <2>4
<1>8. Rows'
  BY <1>1, <1>6, ModesKept
<1>9. CASE Do(<<>>)
  BY <1>1, <1>7, <1>8, <1>9, ShortQueue, TaskStep
<1>10. ASSUME t.free # "keep", Do(<<[op |-> "release", m |-> t.m, free |-> t.free]>>) PROVE TInv'
  <2> DEFINE e == [op |-> "release", m |-> t.m, free |-> t.free]
  <2>1. e \in Task /\ e.op = "release"
    BY <1>3, <1>10 DEF Task
  <2> HIDE DEF e
  <2>2. Inherits(e.op, Head(todo).op) /\ Sound(e)'
    BY <1>1, <2>1, CarefreeTask DEF Inherits, Precedes, Carefree
  <2>3. Queue(<<e>>, {e}) /\ Do(<<e>>)
    BY <1>10, <2>1, ShortQueue DEF e
  <2> QED BY <1>1, <1>7, <1>8, <2>1, <2>2, <2>3, TaskStep
<1> QED BY <1>5, <1>9, <1>10

\* revertIfUnderfilled, and the match that loses a player it cannot do without
LEMMA MemberLeftSound == TInv /\ PInv' /\ MemberLeft => TInv'
<1> SUFFICES ASSUME TInv, PInv', MemberLeft PROVE TInv' OBVIOUS
<1>1. todo # <<>> /\ Head(todo).op = "left" /\ UNCHANGED search
  BY DEF MemberLeft, Now
<1>2. PICK m : m = Head(todo).m
  OBVIOUS
<1>3. m \in MatchIds /\ match \in [MatchIds -> MatchType]
  BY <1>1, <1>2, Running, TaskFields DEF TInv, PInv, IInv, TypeOK
<1>4. \A k \in MatchIds : match'[k].mode = match[k].mode
  BY <1>2, <1>3 DEF MemberLeft, MatchType
<1>5. Rows' /\ LiveRows(m)' = LiveRows(m)
  BY <1>1, <1>3, <1>4, ModesKept
<1>6. \A b \in Behind : b.op \in Carefree
  BY <1>1, BehindCarefree
<1>7. CASE Do(<<>>)
  BY <1>1, <1>5, <1>6, <1>7, ShortQueue, TaskStep
<1>8. CASE Do(Dissolve(m))
  <2>1. PICK e : e = DissolveTask(m)
    OBVIOUS
  <2>2. Queue(<<e>>, {e}) /\ Dissolve(m) = <<e>>
    BY <1>3, <2>1, MatchQueue
  <2>3. e.op = "end" /\ e.m = m /\ (e.st = "CANCELLED" /\ e.pend = LiveRows(m) /\ e.free # "keep")
    BY <2>1 DEF DissolveTask
  <2>4. Sound(e)'
    BY <1>5, <2>3 DEF Sound, CanEnd
  <2>5. Inherits(e.op, Head(todo).op)
    BY <1>1, <2>3 DEF Inherits, Precedes
  <2> QED BY <1>1, <1>5, <1>6, <1>8, <2>2, <2>3, <2>4, <2>5, TaskStep
<1>9. Do(Dissolve(m)) \/ Do(<<>>)
  BY <1>2 DEF MemberLeft
<1> QED BY <1>7, <1>8, <1>9

\* old rows are deleted
LEMMA DeleteSound == TInv /\ PInv' /\ DeleteOld => TInv'
<1> SUFFICES ASSUME TInv, PInv', DeleteOld PROVE TInv' OBVIOUS
<1>1. todo # <<>> /\ Head(todo).op = "purge" /\ Do(<<>>)
  BY DEF DeleteOld, Now
<1>2. \A s \in SearchIds : search[s].match \in MatchIds \cup {None}
  BY DEF TInv, PInv, IInv, TypeOK, SearchType
<1>3. \A s \in SearchIds : search'[s].st \in Live => s \notin OldRows /\ search'[s] = search[s]
  BY DEF DeleteOld, NoSearch, Live
<1>4. \A s \in SearchIds : search[s].st \in Live /\ search[s].match # None => search[s].match \notin OldMatches
  BY DEF OldMatches, LiveRows
<1>5. \A m \in MatchIds \ OldMatches : match'[m] = match[m]
  BY DEF DeleteOld
<1>6. Rows'
  BY <1>2, <1>3, <1>4, <1>5, RowsKept DEF TInv
<1> QED BY <1>1, <1>6, ShortQueue, CarefreeStep

-----------------------------------------------------------------------------
(* runMatcher. *)

\* a statement that puts one task in front of the rest of its loop
LEMMA FrontAfter ==
  ASSUME TInv, todo # <<>>, NEW e \in Task, NEW q, NEW R, Queue(q, R), Do(<<e>> \o q)
  PROVE  todo' # <<>> /\ Head(todo') = e /\ Behind' = R \cup Behind
<1>1. Tail(todo) \in Seq(Task) /\ Range(Tail(todo)) = Behind /\ q \in Seq(Task) /\ Range(q) = R
  BY Running, TailQueue DEF Queue
<1>2. q \o Tail(todo) \in Seq(Task) /\ Range(q \o Tail(todo)) = R \cup Behind
  BY <1>1, ConcatProperties, RangeConcatenation
<1>3. todo' = <<e>> \o (q \o Tail(todo))
  <2>1. <<e>> \in Seq(Task)
    OBVIOUS
  <2> QED BY <1>1, <2>1, ConcatAssociative DEF Do
<1>4. todo' # <<>> /\ Head(todo') = e /\ Tail(todo') = q \o Tail(todo)
  BY <1>2, <1>3, Cons
<1> QED BY <1>2, <1>4 DEF Behind

\* any statement whose first task keeps out of the loops behind it
LEMMA OnceStep ==
  ASSUME TInv, PInv', todo # <<>>,
         NEW tasks, NEW R, Queue(tasks, R), \A t \in R : Inherits(t.op, Head(todo).op),
         Do(tasks), \A t \in R : Sound(t)', \A t \in Behind : t.op \notin Carefree => Sound(t)', Rows', Once'
  PROVE  TInv'
<1>1. \A t \in Behind : Sound(t)'
  BY CarefreeTask
<1> QED BY <1>1, TasksAfter DEF TInv

\* a search that is placed first joins its match, then the loop goes on with the others
LEMMA JoinFirst ==
  ASSUME TInv, PInv', todo # <<>>, NEW t, t = Head(todo), t.op = "place", UNCHANGED search, Rows',
         NEW s \in t.pend, NEW m \in MatchIds, CanJoin([op |-> "join", m |-> m, s |-> s])',
         Do(Join(m, s) \o Rest(t, s))
  PROVE  TInv'
<1>1. PICK e : e = [op |-> "join", m |-> m, s |-> s]
  OBVIOUS
<1>2. t \in Task /\ t.pend \in SUBSET SearchIds /\ CanPlace(t)
  BY Running, TaskFields DEF Sound
<1>3. e \in Task /\ e.op = "join" /\ e.s = s /\ Join(m, s) = <<e>> /\ Sound(e)'
  BY <1>1, <1>2 DEF Task, Join, Sound
<1>4. Queue(<<e>>, {e})
  BY <1>3, ShortQueue
<1>5. Queue(Rest(t, s), RestSet(t, s)) /\ \A r \in RestSet(t, s) : r.op = "place" /\ r.pend = t.pend \ {s}
  BY <1>2, RestQueue DEF Looping
<1>6. Queue(<<e>> \o Rest(t, s), {e} \cup RestSet(t, s))
  BY <1>3, <1>4, <1>5, JoinQueues DEF Precedes
<1>7. \A r \in RestSet(t, s) : Sound(r)'
  BY <1>2, <1>5 DEF Sound, CanPlace, Waits
<1>8. \A b \in Behind : b.op = "scan"
  BY BehindKinds
<1>9. \A b \in Behind : b.op \in Carefree
  BY <1>8 DEF Carefree
<1>10. Once'
  BY <1>3, <1>5, <1>8, FrontAfter DEF Once
<1>11. \A r \in {e} \cup RestSet(t, s) : Inherits(r.op, Head(todo).op) /\ Sound(r)'
  BY <1>3, <1>5, <1>7 DEF Inherits, Precedes
<1> QED BY <1>3, <1>6, <1>9, <1>10, <1>11, OnceStep

\* a search joins a match that gathers players, or one that is new
LEMMA PlaceSound == TInv /\ PInv' /\ PlaceSearch => TInv'
<1> SUFFICES ASSUME TInv, PInv', PlaceSearch PROVE TInv' OBVIOUS
<1>1. todo # <<>> /\ Head(todo).op = "place" /\ UNCHANGED search
  BY DEF PlaceSearch, Now
<1>2. PICK t : t = Head(todo)
  OBVIOUS
<1>3. t \in Task /\ t.pend \in SUBSET SearchIds /\ CanPlace(t) /\ Sound(t)
  BY <1>1, <1>2, Running, TaskFields DEF Sound
<1>4. PICK s \in t.pend : IF search[s].ask.mode \in AcceptModes
                          THEN PlaceAccept(s, Rest(t, s)) ELSE PlaceClassic(s, Rest(t, s))
  BY <1>2 DEF PlaceSearch
<1>5. s \in SearchIds /\ Waits(s) /\ search[s].ask \in Choices
  BY <1>3 DEF CanPlace, TInv, PInv, IInv, TypeOK, SearchType
<1>6. match \in [MatchIds -> MatchType]
  BY DEF TInv, PInv, IInv, TypeOK
<1>7. ASSUME UNCHANGED match, NEW m \in Joinable(s), Do(Join(m, s) \o Rest(t, s)) PROVE TInv'
  <2>1. CanJoin([op |-> "join", m |-> m, s |-> s])' /\ m \in MatchIds
    BY <1>1, <1>5, <1>7 DEF CanJoin, Joinable, Waits, AcceptRequired
  <2>2. Rows'
    BY <1>1, <1>7, SoundKept DEF TInv
  <2> QED BY <1>1, <1>2, <1>7, <2>1, <2>2, JoinFirst
<1>8. ASSUME UNCHANGED match, Do(Rest(t, s)) PROVE TInv'
  <2>1. Queue(Rest(t, s), RestSet(t, s)) /\ \A r \in RestSet(t, s) : r.op = "place"
    BY <1>1, <1>2, <1>3, RestQueue DEF Looping
  <2>2. \A r \in RestSet(t, s) : Sound(r)
    BY <1>1, <1>2, <1>3, RestSound
  <2>3. todo' # <<>> => Head(todo').op \notin {"join", "assign"}
    BY <1>1, <1>8, <2>1, HeadAfter, BehindKinds
  <2> QED BY <1>1, <1>2, <1>8, <2>1, <2>2, <2>3, QuietTask DEF Inherits
<1>9. ASSUME NEW m \in FreshMatches, NEW mode, NEW v, NEW map, match' = [match EXCEPT ![m] = NewMatch(mode, v, map)],
             mode \in AcceptModes => search[s].ask.mode = mode, Do(Join(m, s) \o Rest(t, s))
      PROVE  TInv'
  <2>1. m \in MatchIds /\ match'[m].st = "FORMING" /\ match'[m].mode = mode
    BY <1>6, <1>9 DEF FreshMatches, NewMatch, NoMatch
  <2>2. CanJoin([op |-> "join", m |-> m, s |-> s])'
    BY <1>1, <1>5, <1>9, <2>1 DEF CanJoin, Waits, AcceptRequired
  <2>3. \A o \in SearchIds : search[o].match # m
    BY <1>9 DEF FreshMatches
  <2>4. \A k : k # m => match'[k] = match[k]
    BY <1>9
  <2>5. \A o \in SearchIds : match'[search[o].match] = match[search[o].match]
    BY <2>3, <2>4
  <2>6. Rows'
    BY <1>1, <2>5, RowsKept DEF TInv
  <2> QED BY <1>1, <1>2, <1>9, <2>1, <2>2, <2>6, JoinFirst
<1>10. CASE search[s].ask.mode \in AcceptModes
  <2>1. PlaceAccept(s, Rest(t, s))
    BY <1>4, <1>10
  <2> QED BY <1>7, <1>8, <1>9, <2>1 DEF PlaceAccept
<1>11. CASE search[s].ask.mode \notin AcceptModes
  <2>1. PlaceClassic(s, Rest(t, s))
    BY <1>4, <1>11
  <2>2. ASSUME NEW v \in Pickable(s), NEW m \in FreshMatches,
               match' = [match EXCEPT ![m] = NewMatch(server[v].mode, v, server[v].map)], Do(Join(m, s) \o Rest(t, s))
        PROVE  TInv'
    <3>1. \A w \in Wants(s) : w.mode \notin AcceptModes
      BY <1>5, <1>11, ChoicesAssumption DEF Wants
    <3>2. server[v].mode \notin AcceptModes
      BY <3>1 DEF Pickable
    <3> QED BY <1>9, <2>2, <3>2
  <2> QED BY <1>8, <2>1, <2>2 DEF PlaceClassic
<1> QED BY <1>10, <1>11

\* the leader joins first; its members are gathered next
LEMMA JoinSound == TInv /\ PInv' /\ JoinMatch => TInv'
<1> SUFFICES ASSUME TInv, PInv', JoinMatch PROVE TInv' OBVIOUS
<1>1. todo # <<>> /\ Head(todo).op = "join" /\ UNCHANGED match
  BY DEF JoinMatch, Now
<1>2. PICK t : t = Head(todo)
  OBVIOUS
<1>3. t \in Task /\ t.m \in MatchIds /\ t.s \in SearchIds /\ CanJoin(t)
  BY <1>1, <1>2, Running, TaskFields DEF Sound
<1>4. Place(t.s, t.m, "MATCHED") /\ Do(<<[op |-> "gather", m |-> t.m, pend |-> Members(t.s)]>>)
  BY <1>2 DEF JoinMatch
<1>5. search \in [SearchIds -> SearchType] /\ search[t.s].st \in Live /\ "MATCHED" \in Live
  BY <1>3 DEF CanJoin, Waits, Live, TInv, PInv, IInv, TypeOK
<1>6. /\ search'[t.s] = [search[t.s] EXCEPT !.st = "MATCHED", !.match = t.m, !.acc = FALSE]
      /\ \A o \in SearchIds \ {t.s} : search'[o] = search[o]
  <2>1. Place(t.s, t.m, "MATCHED") /\ t.s \in SearchIds /\ t.m \in MatchIds
    BY <1>3, <1>4
  <2> QED BY <1>5, <2>1, Statements
<1>7. /\ search'[t.s].match = t.m /\ search'[t.s].leader = None /\ search'[t.s].acct = search[t.s].acct
      /\ search'[t.s].ask = search[t.s].ask /\ search[t.s].leader = None
  BY <1>3, <1>5, <1>6 DEF CanJoin, Waits, SearchType
<1>8. Rows'
  <2>1. \A o \in SearchIds : /\ search'[o].acct = search[o].acct
                             /\ search'[o].st \in Live => search[o].st \in Live
    BY <1>5, <1>6, <1>7
  <2>2. OneRow'
    BY <2>1 DEF TInv, Rows, OneRow
  <2>3. AcceptRequired(t.m) => search'[t.s].ask.mode = match'[t.m].mode
    BY <1>1, <1>3, <1>7 DEF CanJoin
  <2>4. \A m : AcceptRequired(m)' = AcceptRequired(m)
    BY <1>1 DEF AcceptRequired
  <2>5. ASSUME NEW o \in SearchIds, search'[o].st \in Live, search'[o].match # None, search'[o].leader = None,
               AcceptRequired(search'[o].match)
        PROVE  search'[o].ask.mode = match'[search'[o].match].mode
    <3>1. CASE o = t.s
      BY <1>7, <2>3, <2>5, <3>1
    <3>2. CASE o # t.s
      <4>1. search'[o] = search[o]
        BY <1>6, <3>2
      <4> QED BY <1>1, <2>5, <4>1 DEF TInv, Rows, OwnMode
    <3> QED BY <3>1, <3>2
  <2>6. OwnMode'
    BY <2>4, <2>5 DEF OwnMode
  <2> QED BY <2>2, <2>6 DEF Rows
<1>9. PICK e : e = [op |-> "gather", m |-> t.m, pend |-> Members(t.s)]
  OBVIOUS
<1>10. e \in Task /\ e.op = "gather" /\ e.m = t.m
  <2>1. Members(t.s) \in SUBSET SearchIds
    BY DEF Members
  <2> QED BY <1>3, <1>9, <2>1 DEF Task
<1>11. Sound(e)'
  <2>1. \A o \in Members(t.s) : o \in SearchIds /\ search[o].leader = t.s
    BY DEF Members
  <2>2. \A o \in Members(t.s) : search'[o].leader = t.s
    BY <1>3, <1>6, <1>7, <2>1, NoneAssumption
  <2> QED BY <1>1, <1>3, <1>7, <1>9, <2>2, NoneAssumption DEF Sound, CanGather, CanJoin
<1>12. ASSUME NEW b \in Behind, b.op \notin Carefree PROVE Sound(b)'
  <2>1. b.op = "place" /\ Sound(b) /\ b \in Task
    BY <1>1, <1>12, BehindKinds, Running DEF Carefree
  <2>2. b.pend \in SUBSET SearchIds /\ t.s \notin b.pend /\ CanPlace(b)
    BY <1>1, <1>2, <2>1, TaskFields DEF TInv, Tasks, Once, Sound
  <2> QED BY <1>6, <2>1, <2>2 DEF Sound, CanPlace, Waits
<1>13. Queue(<<e>>, {e}) /\ Do(<<e>>) /\ Inherits(e.op, Head(todo).op)
  BY <1>1, <1>4, <1>9, <1>10, ShortQueue DEF Inherits, Precedes
<1> QED BY <1>1, <1>8, <1>10, <1>11, <1>12, <1>13, TaskStep

\* the match is complete when its players are counted to be all
LEMMA PlayersCount ==
  ASSUME TInv, NEW m \in MatchIds
  PROVE  /\ IsFiniteSet(LiveRows(m)) /\ Cardinality(LiveRows(m)) \in Nat /\ Players(m) \in Nat
         /\ AcceptRequired(m) => Required[match[m].mode] \in Nat \ {0}
<1>1. IsFiniteSet(LiveRows(m)) /\ Cardinality(LiveRows(m)) \in Nat
  BY FiniteAssumption, FS_Subset, FS_CardinalityType DEF LiveRows
<1>2. match[m].fake \in Nat
  BY DEF TInv, PInv, IInv, TypeOK, MatchType
<1>3. AcceptRequired(m) => Required[match[m].mode] \in Nat \ {0}
  BY ModesAssumption DEF AcceptRequired
<1> QED BY <1>1, <1>2, <1>3 DEF Players

\* the members of a party follow their leader into its match
LEMMA GatherSound == TInv /\ PInv' /\ GatherParty => TInv'
<1> SUFFICES ASSUME TInv, PInv', GatherParty PROVE TInv' OBVIOUS
<1>1. todo # <<>> /\ Head(todo).op = "gather" /\ UNCHANGED match
  BY DEF GatherParty, Now
<1>2. PICK t : t = Head(todo)
  OBVIOUS
<1>3. t \in Task /\ t.op = "gather" /\ t.m \in MatchIds /\ t.pend \in SUBSET SearchIds /\ CanGather(t)
  BY <1>1, <1>2, Running, TaskFields DEF Sound
<1>4. search \in [SearchIds -> SearchType]
  BY DEF TInv, PInv, IInv, TypeOK
<1>5. ASSUME NEW s \in t.pend, Place(s, t.m, "MATCHED"), Do(<<[t EXCEPT !.pend = @ \ {s}]>>)
      PROVE  TInv'
  <2>1. /\ IF search[s].st \in Live
           THEN search'[s] = [search[s] EXCEPT !.st = "MATCHED", !.match = t.m, !.acc = FALSE]
           ELSE search'[s] = search[s]
        /\ \A o \in SearchIds \ {s} : search'[o] = search[o]
        /\ s \in SearchIds
    BY <1>3, <1>4, <1>5, Statements DEF Live
  <2>2. /\ search'[s].leader = search[s].leader /\ search[s].leader # None
        /\ search'[s].acct = search[s].acct
        /\ search'[s].st \in Live => search[s].st \in Live
    <3>1. search[s] \in SearchType /\ search[s].leader # None
      BY <1>3, <1>4, <2>1 DEF CanGather
    <3> QED BY <2>1, <3>1 DEF SearchType
  <2>3. Rows'
    <3>1. OneRow'
      BY <2>1, <2>2 DEF TInv, Rows, OneRow
    <3>2. OwnMode'
      BY <1>1, <2>1, <2>2 DEF TInv, Rows, OwnMode, AcceptRequired
    <3> QED BY <3>1, <3>2 DEF Rows
  <2> DEFINE e == [t EXCEPT !.pend = @ \ {s}]
  <2>4. e \in Task /\ e.op = "gather" /\ e.m = t.m /\ e.pend = t.pend \ {s}
    BY <1>3 DEF Task
  <2> HIDE DEF e
  <2>5. Sound(e)'
    <3>1. \A o \in e.pend : o \in SearchIds \ {s} /\ search[o].leader \in SearchIds \cup {None}
      BY <1>3, <1>4, <2>4 DEF SearchType
    <3>2. \A o \in e.pend : search[o].leader \in SearchIds \ {s}
      BY <1>3, <2>2, <2>4, <3>1 DEF CanGather
    <3>3. \A o \in e.pend : search'[o] = search[o] /\ search'[search[o].leader] = search[search[o].leader]
      BY <2>1, <3>1, <3>2
    <3>4. CanGather(e)'
      BY <1>1, <1>3, <2>4, <3>3 DEF CanGather
    <3> QED BY <2>4, <3>4 DEF Sound
  <2>6. ASSUME NEW b \in Behind, b.op \notin Carefree PROVE Sound(b)'
    <3>1. b.op = "place" /\ Sound(b) /\ b \in Task
      BY <1>1, <2>6, BehindKinds, Running DEF Carefree
    <3>2. b.pend \in SUBSET SearchIds /\ CanPlace(b)
      BY <3>1, TaskFields DEF Sound
    <3> QED BY <2>1, <2>2, <3>1, <3>2 DEF Sound, CanPlace, Waits
  <2>7. Queue(<<e>>, {e}) /\ Do(<<e>>)
    BY <1>5, <2>4, ShortQueue DEF e
  <2> QED BY <1>1, <2>3, <2>4, <2>5, <2>6, <2>7, TaskStep DEF Inherits
<1>6. ASSUME UNCHANGED search, NEW tasks, Do(tasks),
             tasks = IF Players(t.m) < Required[match[t.m].mode] THEN <<>> ELSE <<[op |-> "full", m |-> t.m]>>
      PROVE  TInv'
  <2>1. CASE Players(t.m) < Required[match[t.m].mode]
    <3>1. todo' # <<>> => Head(todo').op \notin {"join", "assign"}
      BY <1>1, <1>6, <2>1, ShortQueue, HeadAfter, BehindKinds
    <3> QED BY <1>1, <1>6, <2>1, <3>1, ShortQueue, QuietTask
  <2>2. CASE ~(Players(t.m) < Required[match[t.m].mode])
    <3>1. PICK e : e = [op |-> "full", m |-> t.m]
      OBVIOUS
    <3>2. e \in Task /\ e.op = "full" /\ e.m = t.m /\ Do(<<e>>)
      BY <1>3, <1>6, <2>2, <3>1 DEF Task
    <3>3. Enough(t.m)
      BY <1>3, <2>2, PlayersCount DEF Enough
    <3>4. Sound(e)
      BY <1>3, <3>2, <3>3 DEF Sound, CanComplete, CanGather
    <3>5. Queue(<<e>>, {e}) /\ Inherits(e.op, Head(todo).op)
      BY <1>1, <3>2, ShortQueue DEF Inherits, Precedes
    <3>6. todo' # <<>> => Head(todo').op \notin {"join", "assign"}
      BY <1>1, <3>2, <3>5, HeadAfter, BehindKinds
    <3> QED BY <1>1, <1>6, <3>2, <3>4, <3>5, <3>6, QuietTask
  <2> QED BY <2>1, <2>2
<1> QED BY <1>2, <1>5, <1>6 DEF GatherParty

\* a complete match is FULL, or READY if nobody has to accept it
LEMMA CompleteSound == TInv /\ PInv' /\ CompleteMatch => TInv'
<1> SUFFICES ASSUME TInv, PInv', CompleteMatch PROVE TInv' OBVIOUS
<1>1. todo # <<>> /\ Head(todo).op = "full" /\ UNCHANGED search
  BY DEF CompleteMatch, Now
<1>2. PICK m : m = Head(todo).m
  OBVIOUS
<1>3. m \in MatchIds /\ CanComplete(Head(todo)) /\ match \in [MatchIds -> MatchType]
  BY <1>1, <1>2, Running, TaskFields DEF Sound, TInv, PInv, IInv, TypeOK
<1>4. /\ match' = [match EXCEPT ![m].st = CASE @ = "FORMING" /\ AcceptRequired(m) -> "FULL"
                                            [] @ \in Gathering /\ ~AcceptRequired(m) -> "READY"
                                            [] OTHER -> @]
      /\ Do(IF AcceptRequired(m) THEN Loop("reserve", {m}) ELSE Assign(m))
  BY <1>2 DEF CompleteMatch
<1>5. /\ \A k \in MatchIds : match'[k].mode = match[k].mode
      /\ ~AcceptRequired(m) => match'[m].st = "READY"
  BY <1>2, <1>3, <1>4 DEF MatchType, CanComplete, Gathering
<1>6. /\ Rows' /\ LiveRows(m)' = LiveRows(m) /\ AssignedStatus(m)' = AssignedStatus(m)
      /\ \A b \in Task : b.op \in {"fill", "place"} /\ Sound(b) => Sound(b)'
  BY <1>1, <1>3, <1>5, ModesKept
<1>7. ASSUME NEW b \in Behind, b.op \notin Carefree PROVE Sound(b)'
  <2>1. b.op \in {"fill", "place"} /\ Sound(b) /\ b \in Task
    BY <1>1, <1>7, BehindKinds, Running DEF Carefree
  <2> QED BY <1>6, <2>1
<1>8. CASE AcceptRequired(m)
  <2>1. PICK e : e = [op |-> "reserve", pend |-> {m}]
    OBVIOUS
  <2>2. Queue(Loop("reserve", {m}), {e}) /\ e.op = "reserve" /\ Do(Loop("reserve", {m}))
    <3>1. {m} \in SUBSET MatchIds /\ {m} # {}
      BY <1>3
    <3>2. Queue(Loop("reserve", {m}), {e})
      BY <2>1, <3>1, LoopQueue
    <3> QED BY <1>4, <1>8, <2>1, <3>2
  <2>3. Inherits(e.op, Head(todo).op) /\ Sound(e)'
    BY <1>1, <2>2, CarefreeTask DEF Inherits, Precedes, Carefree
  <2> QED BY <1>1, <1>6, <1>7, <2>2, <2>3, TaskStep
<1>9. CASE ~AcceptRequired(m)
  <2>1. PICK e : e = AssignTask(m)
    OBVIOUS
  <2>2. Queue(<<e>>, {e}) /\ Do(<<e>>) /\ e \in Task
    BY <1>3, <1>4, <1>9, <2>1, MatchQueue
  <2>3. e.op = "assign" /\ e.m = m /\ e.pend = {s \in LiveRows(m) : search[s].st # AssignedStatus(m)}
    BY <2>1 DEF AssignTask
  <2>4. Sound(e)'
    BY <1>1, <1>5, <1>6, <1>9, <2>3 DEF Sound, CanAssign
  <2>5. Once'
    BY <1>1, <2>2, <2>3, OneAfter, BehindKinds DEF Once
  <2>6. Inherits(e.op, Head(todo).op)
    BY <1>1, <2>3 DEF Inherits, Precedes
  <2> QED BY <1>1, <1>6, <1>7, <2>2, <2>4, <2>5, <2>6, OnceStep
<1> QED BY <1>8, <1>9

\* a Fake Players profile completes a match
LEMMA FillSound == TInv /\ PInv' /\ FillMatch => TInv'
<1> SUFFICES ASSUME TInv, PInv', FillMatch PROVE TInv' OBVIOUS
<1>1. todo # <<>> /\ Head(todo).op = "fill" /\ UNCHANGED search
  BY DEF FillMatch, Now
<1>2. PICK t : t = Head(todo)
  OBVIOUS
<1>3. t \in Task /\ Sound(t) /\ CanFill(t) /\ t.pend \in SUBSET MatchIds
  BY <1>1, <1>2, Running, TaskFields DEF Sound
<1>4. PICK m \in t.pend :
        \/ Do(Rest(t, m)) /\ UNCHANGED match
        \/ /\ \E p \in ProfileIds : \E n : match' = [match EXCEPT ![m].prof = p, ![m].fake = n]
           /\ Do(<<[op |-> "full", m |-> m]>> \o Rest(t, m))
  BY <1>2 DEF FillMatch, Best, Fitting
<1>5. m \in MatchIds /\ AcceptRequired(m) /\ match \in [MatchIds -> MatchType]
  BY <1>3 DEF CanFill, TInv, PInv, IInv, TypeOK
<1>6. Queue(Rest(t, m), RestSet(t, m)) /\ \A r \in RestSet(t, m) : r.op = "fill" /\ Sound(r) /\ r \in Task
  BY <1>1, <1>2, <1>3, RestQueue, RestSound DEF Looping
<1>7. CASE Do(Rest(t, m)) /\ UNCHANGED match
  <2>1. todo' # <<>> => Head(todo').op \notin {"join", "assign"}
    BY <1>1, <1>6, <1>7, HeadAfter, BehindKinds
  <2> QED BY <1>1, <1>2, <1>6, <1>7, <2>1, QuietTask DEF Inherits
<1>8. ASSUME NEW p \in ProfileIds, NEW n, match' = [match EXCEPT ![m].prof = p, ![m].fake = n],
             Do(<<[op |-> "full", m |-> m]>> \o Rest(t, m))
      PROVE  TInv'
  <2>1. (\A k \in MatchIds : match'[k].mode = match[k].mode) /\ match'[m].prof # None
    BY <1>5, <1>8, NoneAssumption DEF MatchType
  <2>2. Rows' /\ AcceptRequired(m)' = AcceptRequired(m) /\ \A b \in Task : b.op = "fill" /\ Sound(b) => Sound(b)'
    BY <1>1, <1>5, <2>1, ModesKept
  <2>3. PICK e : e = [op |-> "full", m |-> m]
    OBVIOUS
  <2>4. e \in Task /\ e.op = "full" /\ e.m = m
    BY <1>5, <2>3 DEF Task
  <2>5. Sound(e)'
    BY <1>5, <2>1, <2>2, <2>4 DEF Sound, CanComplete, Enough
  <2>6. Queue(<<e>> \o Rest(t, m), {e} \cup RestSet(t, m))
    BY <1>6, <2>4, ShortQueue, JoinQueues DEF Precedes
  <2>7. \A r \in {e} \cup RestSet(t, m) : Inherits(r.op, Head(todo).op) /\ Sound(r)' /\ r.op \notin {"join", "assign"}
    BY <1>1, <1>6, <2>2, <2>4, <2>5 DEF Inherits, Precedes
  <2>8. Do(<<e>> \o Rest(t, m))
    BY <1>8, <2>3
  <2>9. \A b \in Behind : b.op \in Carefree
    BY <1>1, BehindCarefree
  <2> QED BY <1>1, <2>2, <2>6, <2>7, <2>8, <2>9, TaskStep
<1> QED BY <1>4, <1>7, <1>8

\* a full match gets its server, and its players are assigned unless the server asks for its roster
LEMMA ReserveSound == TInv /\ PInv' /\ ReserveServer => TInv'
<1> SUFFICES ASSUME TInv, PInv', ReserveServer PROVE TInv' OBVIOUS
<1>1. todo # <<>> /\ Head(todo).op = "reserve" /\ UNCHANGED search
  BY DEF ReserveServer, Now
<1>2. PICK t : t = Head(todo)
  OBVIOUS
<1>3. t \in Task /\ Sound(t) /\ t.pend \in SUBSET MatchIds
  BY <1>1, <1>2, Running, TaskFields
<1>4. PICK m \in t.pend :
        \/ Do(Rest(t, m)) /\ UNCHANGED match
        \/ \E v \in Servers :
             /\ match' = [match EXCEPT ![m].st = "READY", ![m].sv = v, ![m].map = server[v].map]
             /\ Do(Assign(m) \o Rest(t, m)) \/ Do(<<>> \o Rest(t, m))
  BY <1>2 DEF ReserveServer, Candidates
<1>5. m \in MatchIds /\ match \in [MatchIds -> MatchType]
  BY <1>3 DEF TInv, PInv, IInv, TypeOK
<1>6. Queue(Rest(t, m), RestSet(t, m)) /\ \A r \in RestSet(t, m) : r.op = "reserve"
  BY <1>1, <1>2, <1>3, RestQueue DEF Looping
<1>7. \A r \in RestSet(t, m) : Inherits(r.op, Head(todo).op) /\ Sound(r) /\ Sound(r)' /\ r.op \notin {"join", "assign"}
  BY <1>1, <1>6, CarefreeTask DEF Carefree, Inherits
<1>8. CASE Do(Rest(t, m)) /\ UNCHANGED match
  <2>1. todo' # <<>> => Head(todo').op \notin {"join", "assign"}
    BY <1>1, <1>6, <1>8, HeadAfter, BehindKinds
  <2> QED BY <1>1, <1>6, <1>7, <1>8, <2>1, QuietTask
<1>9. ASSUME NEW v \in Servers, match' = [match EXCEPT ![m].st = "READY", ![m].sv = v, ![m].map = server[v].map],
             Do(Assign(m) \o Rest(t, m)) \/ Do(<<>> \o Rest(t, m))
      PROVE  TInv'
  <2>1. (\A k \in MatchIds : match'[k].mode = match[k].mode) /\ match'[m].st = "READY"
    BY <1>5, <1>9 DEF MatchType
  <2>2. /\ Rows' /\ LiveRows(m)' = LiveRows(m) /\ AssignedStatus(m)' = AssignedStatus(m)
        /\ \A b \in Task : b.op \in {"fill", "place"} /\ Sound(b) => Sound(b)'
    BY <1>1, <1>5, <2>1, ModesKept
  <2>3. ASSUME NEW b \in Behind, b.op \notin Carefree PROVE Sound(b)'
    <3>1. b.op \in {"fill", "place"} /\ Sound(b) /\ b \in Task
      BY <1>1, <2>3, BehindKinds, Running DEF Carefree
    <3> QED BY <2>2, <3>1
  <2>4. CASE Do(<<>> \o Rest(t, m))
    <3>1. Queue(<<>> \o Rest(t, m), {} \cup RestSet(t, m))
      BY <1>6, ShortQueue, JoinQueues
    <3> QED BY <1>1, <1>7, <2>2, <2>3, <2>4, <3>1, TaskStep
  <2>5. CASE Do(Assign(m) \o Rest(t, m))
    <3>1. PICK e : e = AssignTask(m)
      OBVIOUS
    <3>2. Queue(<<e>>, {e}) /\ Do(<<e>> \o Rest(t, m)) /\ e \in Task
      BY <1>5, <2>5, <3>1, MatchQueue
    <3>3. e.op = "assign" /\ e.m = m /\ e.pend = {s \in LiveRows(m) : search[s].st # AssignedStatus(m)}
      BY <3>1 DEF AssignTask
    <3>4. Sound(e)'
      BY <1>1, <2>1, <2>2, <3>3 DEF Sound, CanAssign
    <3>5. Once'
      BY <1>1, <1>6, <3>2, <3>3, FrontAfter, BehindKinds DEF Once
    <3>6. Queue(<<e>> \o Rest(t, m), {e} \cup RestSet(t, m))
      BY <1>6, <3>2, <3>3, JoinQueues DEF Precedes
    <3>7. \A r \in {e} \cup RestSet(t, m) : Inherits(r.op, Head(todo).op) /\ Sound(r)'
      BY <1>1, <1>7, <3>3, <3>4 DEF Inherits, Precedes
    <3> QED BY <1>1, <2>2, <2>3, <3>2, <3>5, <3>6, <3>7, OnceStep
  <2> QED BY <1>9, <2>4, <2>5
<1> QED BY <1>4, <1>8, <1>9

\* one player of a READY match is assigned
LEMMA AssignRowSound == TInv /\ PInv' /\ AssignRow => TInv'
<1> SUFFICES ASSUME TInv, PInv', AssignRow PROVE TInv' OBVIOUS
<1>1. todo # <<>> /\ Head(todo).op = "assign" /\ UNCHANGED match
  BY DEF AssignRow, Now
<1>2. PICK t : t = Head(todo)
  OBVIOUS
<1>3. t \in Task /\ t.op = "assign" /\ t.m \in MatchIds /\ t.pend \in SUBSET SearchIds /\ CanAssign(t)
  BY <1>1, <1>2, Running, TaskFields DEF Sound
<1>4. PICK s \in t.pend : Place(s, t.m, AssignedStatus(t.m)) /\ Do(<<[t EXCEPT !.pend = @ \ {s}]>>)
  BY <1>2 DEF AssignRow
<1>5. /\ s \in LiveRows(t.m) /\ s \in SearchIds /\ search[s].match = t.m /\ AssignedStatus(t.m) \in Live
      /\ search \in [SearchIds -> SearchType]
  BY <1>3, <1>4 DEF CanAssign, LiveRows, AssignedStatus, Live, TInv, PInv, IInv, TypeOK
<1>6. /\ search'[s] = [search[s] EXCEPT !.st = AssignedStatus(t.m), !.match = t.m, !.acc = FALSE]
      /\ \A o \in SearchIds \ {s} : search'[o] = search[o]
  <2>1. search[s].st \in Live
    BY <1>5 DEF LiveRows
  <2> QED BY <1>3, <1>4, <1>5, <2>1, Statements
<1>7. /\ search'[s].st = AssignedStatus(t.m) /\ search'[s].match = t.m
      /\ search'[s].leader = search[s].leader /\ search'[s].acct = search[s].acct /\ search'[s].ask = search[s].ask
  BY <1>5, <1>6 DEF SearchType
<1>8. \A o \in SearchIds : /\ search'[o].st \in Live <=> search[o].st \in Live
                           /\ search'[o].acct = search[o].acct /\ search'[o].match = search[o].match
                           /\ search'[o].leader = search[o].leader /\ search'[o].ask = search[o].ask
  <2>1. search[s].st \in Live
    BY <1>5 DEF LiveRows
  <2> QED BY <1>5, <1>6, <1>7, <2>1
<1>9. Rows'
  BY <1>1, <1>8, RowsKept DEF TInv
<1> DEFINE e == [t EXCEPT !.pend = @ \ {s}]
<1>10. e \in Task /\ e.op = "assign" /\ e.m = t.m /\ e.pend = t.pend \ {s}
  BY <1>3 DEF Task
<1> HIDE DEF e
<1>11. LiveRows(t.m)' = LiveRows(t.m) /\ AssignedStatus(t.m)' = AssignedStatus(t.m)
  <2>1. LiveRows(t.m)' = LiveRows(t.m)
    BY <1>8 DEF LiveRows
  <2>2. AssignedStatus(t.m)' = AssignedStatus(t.m)
    BY <1>1 DEF AssignedStatus, AcceptRequired
  <2> QED BY <2>1, <2>2
<1>12. Sound(e)'
  <2>1. \A o \in LiveRows(t.m) \ e.pend : search'[o].st = AssignedStatus(t.m)
    BY <1>3, <1>6, <1>7, <1>10 DEF CanAssign, LiveRows
  <2>2. e.pend \subseteq LiveRows(t.m) /\ match'[t.m].st = "READY"
    BY <1>1, <1>3, <1>10 DEF CanAssign
  <2>3. CanAssign(e)'
    BY <1>10, <1>11, <2>1, <2>2 DEF CanAssign
  <2> QED BY <1>10, <2>3 DEF Sound
<1>13. ASSUME NEW b \in Behind, b.op \notin Carefree PROVE Sound(b)'
  <2>1. b.op \in {"place", "fill", "promote"} /\ Sound(b) /\ b \in Task
    BY <1>1, <1>13, BehindKinds, Running DEF Carefree
  <2>2. CASE b.op = "place"
    <3>1. b.pend \in SUBSET SearchIds /\ CanPlace(b)
      BY <2>1, <2>2, TaskFields DEF Sound
    <3>2. s \notin b.pend
      BY <1>3, <1>5, <3>1, NoneAssumption DEF CanPlace, Waits
    <3> QED BY <1>6, <2>2, <3>1, <3>2 DEF Sound, CanPlace, Waits
  <2>3. CASE b.op \in {"fill", "promote"}
    BY <1>1, <2>1, <2>3 DEF Sound, CanFill, CanPromote, AcceptRequired
  <2> QED BY <2>1, <2>2, <2>3
<1>14. Queue(<<e>>, {e}) /\ Do(<<e>>)
  BY <1>4, <1>10, ShortQueue DEF e
<1>15. Once'
  BY <1>1, <1>2, <1>10, <1>14, OneAfter DEF Once, TInv, Tasks
<1> QED BY <1>1, <1>2, <1>3, <1>9, <1>10, <1>12, <1>13, <1>14, <1>15, OnceStep DEF Inherits

\* the status of one match changes, and no loop behind the task knows that match as READY
LEMMA StatusSound ==
  ASSUME TInv, PInv', todo # <<>>, NEW t, t = Head(todo), t.op \in {"assign", "accepted", "connect"},
         UNCHANGED search, NEW m \in MatchIds,
         t.op = "assign" => m = t.m, t.op # "assign" => match[m].st # "READY",
         \A k \in MatchIds : match'[k].mode = match[k].mode /\ (k # m => match'[k] = match[k]),
         NEW tasks, NEW R, Queue(tasks, R), Do(tasks),
         \A r \in R : r.op \in {"accepted", "connect"} /\ Sound(r)'
  PROVE  TInv'
<1>1. Rows' /\ \A b \in Task : b.op \in {"place", "fill"} /\ Sound(b) => Sound(b)'
  BY ModesKept
<1>2. ASSUME NEW b \in Behind, b.op \notin Carefree PROVE Sound(b)'
  <2>1. b.op \in {"place", "fill", "promote"} /\ Sound(b) /\ b \in Task
    BY <1>2, BehindKinds, Running DEF Carefree
  <2>2. CASE b.op = "promote"
    <3>1. b.pend \in SUBSET MatchIds /\ CanPromote(b)
      BY <2>1, <2>2, TaskFields DEF Sound
    <3>2. m \notin b.pend
      BY <2>2, <3>1 DEF CanPromote, TInv, Tasks, Once
    <3> QED BY <2>2, <3>1, <3>2 DEF Sound, CanPromote, AcceptRequired
  <2> QED BY <1>1, <2>1, <2>2
<1>3. \A r \in R : Inherits(r.op, Head(todo).op)
  BY DEF Inherits, Precedes
<1> QED BY <1>1, <1>2, <1>3, TaskStep

\* the Accept clock starts once every player is assigned
LEMMA StartAcceptingSound == TInv /\ PInv' /\ StartAccepting => TInv'
<1> SUFFICES ASSUME TInv, PInv', StartAccepting PROVE TInv' OBVIOUS
<1>1. todo # <<>> /\ Head(todo).op = "assign" /\ UNCHANGED search
  BY DEF StartAccepting, Now
<1>2. PICK t : t = Head(todo)
  OBVIOUS
<1>3. t \in Task /\ t.op = "assign" /\ t.m \in MatchIds /\ match \in [MatchIds -> MatchType]
  BY <1>1, <1>2, Running, TaskFields DEF TInv, PInv, IInv, TypeOK
<1> DEFINE begins == AcceptRequired(t.m) /\ match[t.m].st = "READY"
<1>4. /\ match' = IF begins THEN [match EXCEPT ![t.m].st = "ACCEPTING"] ELSE match
      /\ \/ Do(<<>>)
         \/ /\ begins /\ \A s \in LiveRows(t.m) : ~MustAccept(s)
            /\ Do(<<[op |-> "accepted", m |-> t.m]>>)
  BY <1>2 DEF StartAccepting
<1>5. /\ \A k \in MatchIds : match'[k].mode = match[k].mode /\ (k # t.m => match'[k] = match[k])
      /\ begins => match'[t.m].st = "ACCEPTING"
  BY <1>3, <1>4 DEF MatchType
<1>6. CASE Do(<<>>)
  BY <1>1, <1>2, <1>3, <1>5, <1>6, ShortQueue, StatusSound
<1>7. ASSUME begins, \A s \in LiveRows(t.m) : ~MustAccept(s), Do(<<[op |-> "accepted", m |-> t.m]>>)
      PROVE  TInv'
  <2>1. PICK e : e = [op |-> "accepted", m |-> t.m]
    OBVIOUS
  <2>2. e \in Task /\ e.op = "accepted" /\ e.m = t.m /\ Do(<<e>>)
    BY <1>3, <1>7, <2>1 DEF Task
  <2>3. Sound(e)'
    <3>1. LiveRows(t.m)' = LiveRows(t.m) /\ \A s : MustAccept(s)' = MustAccept(s)
      BY <1>1, <1>3, <1>5, <1>7, ModesKept DEF MustAccept
    <3> QED BY <1>5, <1>7, <2>2, <3>1 DEF Sound, CanAccept
  <2>4. Queue(<<e>>, {e}) /\ \A r \in {e} : r.op \in {"accepted", "connect"} /\ Sound(r)'
    BY <2>2, <2>3, ShortQueue
  <2>5. t.op \in {"assign", "accepted", "connect"} /\ UNCHANGED search
    BY <1>1, <1>3
  <2> QED BY <1>1, <1>2, <1>3, <1>5, <2>2, <2>4, <2>5, StatusSound
<1> QED BY <1>4, <1>6, <1>7

\* everybody accepted
LEMMA AcceptedSound == TInv /\ PInv' /\ MarkAccepted => TInv'
<1> SUFFICES ASSUME TInv, PInv', MarkAccepted PROVE TInv' OBVIOUS
<1>1. todo # <<>> /\ Head(todo).op = "accepted" /\ UNCHANGED search
  BY DEF MarkAccepted, Now
<1>2. PICK t : t = Head(todo)
  OBVIOUS
<1>3. /\ t \in Task /\ t.op = "accepted" /\ t.m \in MatchIds /\ CanAccept(t)
      /\ match \in [MatchIds -> MatchType]
  BY <1>1, <1>2, Running, TaskFields DEF Sound, TInv, PInv, IInv, TypeOK
<1>4. /\ match' = [match EXCEPT ![t.m].st = IF @ \in {"READY", "ACCEPTING"} THEN "ACCEPTED" ELSE @]
      /\ Do(<<[op |-> "connect", m |-> t.m]>>)
  BY <1>2 DEF MarkAccepted
<1>5. /\ \A k \in MatchIds : match'[k].mode = match[k].mode /\ (k # t.m => match'[k] = match[k])
      /\ match'[t.m].st = "ACCEPTED" /\ match[t.m].st # "READY"
  BY <1>3, <1>4 DEF MatchType, CanAccept
<1>6. PICK e : e = [op |-> "connect", m |-> t.m]
  OBVIOUS
<1>7. e \in Task /\ e.op = "connect" /\ e.m = t.m /\ Do(<<e>>)
  BY <1>3, <1>4, <1>6 DEF Task
<1>8. Sound(e)'
  BY <1>5, <1>7 DEF Sound, CanConnect
<1>9. Queue(<<e>>, {e}) /\ \A r \in {e} : r.op \in {"accepted", "connect"} /\ Sound(r)'
  BY <1>7, <1>8, ShortQueue
<1> QED BY <1>1, <1>2, <1>3, <1>5, <1>7, <1>9, StatusSound

\* the players of an accepted match are told to connect
LEMMA ConnectSound == TInv /\ PInv' /\ PromoteAccepted => TInv'
<1> SUFFICES ASSUME TInv, PInv', PromoteAccepted PROVE TInv' OBVIOUS
<1>1. todo # <<>> /\ Head(todo).op = "connect" /\ UNCHANGED match /\ Do(<<>>)
  BY DEF PromoteAccepted, Now
<1>2. \A s \in SearchIds : /\ search'[s].st \in Live <=> search[s].st \in Live
                           /\ search'[s].acct = search[s].acct /\ search'[s].match = search[s].match
                           /\ search'[s].leader = search[s].leader /\ search'[s].ask = search[s].ask
                           /\ Waits(s) => Waits(s)'
  <2>1. search \in [SearchIds -> SearchType]
    BY DEF TInv, PInv, IInv, TypeOK
  <2> QED BY <2>1 DEF PromoteAccepted, SearchType, Live, Waits
<1>3. Rows'
  BY <1>1, <1>2, RowsKept DEF TInv
<1>4. ASSUME NEW b \in Behind, b.op \notin Carefree PROVE Sound(b)'
  <2>1. b.op \in {"place", "fill", "promote"} /\ Sound(b) /\ b \in Task
    BY <1>1, <1>4, BehindKinds, Running DEF Carefree
  <2>2. CASE b.op = "place"
    <3>1. b.pend \in SUBSET SearchIds /\ CanPlace(b)
      BY <2>1, <2>2, TaskFields DEF Sound
    <3> QED BY <1>2, <2>2, <3>1 DEF Sound, CanPlace
  <2>3. CASE b.op \in {"fill", "promote"}
    BY <1>1, <2>1, <2>3 DEF Sound, CanFill, CanPromote, AcceptRequired
  <2> QED BY <2>1, <2>2, <2>3
<1> QED BY <1>1, <1>3, <1>4, ShortQueue, TaskStep

-----------------------------------------------------------------------------
(* The handlers. *)

\* a handler begins with tasks that are sound after its first statement
LEMMA BeginSound ==
  ASSUME TInv, PInv', NEW tasks, NEW R, Queue(tasks, R), Begin(tasks), \A r \in R : Sound(r)', Rows', Once'
  PROVE  TInv'
<1>1. todo' = tasks
  BY DEF Begin
<1>2. Tasks'
  BY <1>1 DEF Queue, Tasks
<1> QED BY <1>2 DEF TInv

\* a handler that begins by writing no search and no match
LEMMA BeginQuiet ==
  ASSUME TInv, PInv', NEW tasks, NEW R, Queue(tasks, R), Begin(tasks), UNCHANGED <<search, match>>,
         \A r \in R : Sound(r) /\ r.op \notin {"join", "assign"}
  PROVE  TInv'
<1>1. todo' = tasks
  BY DEF Begin
<1>2. Once'
  BY <1>1, HeadKind, OnceAfter
<1> QED BY <1>2, SoundKept, BeginSound DEF TInv

\* the tick and runMatcher
LEMMA MatcherQueue ==
  /\ \E go \in Task : go.op = "scan" /\ Queue(Tick, {go})
  /\ \E go \in Task : go.op = "scan" /\ Queue(Matcher, {go})
<1>1. \A at \in {FirstPhase, PlacePhase} : [op |-> "scan", at |-> at] \in Task
  BY DEF Task, FirstPhase, PlacePhase, LastPhase
<1> QED BY <1>1, ShortQueue DEF Tick, Matcher

\* a handler that ends with runMatcher
LEMMA BeginMatcher ==
  ASSUME TInv, PInv', NEW q, NEW R, Queue(q, R), UNCHANGED <<search, match>>,
         \A r \in R : Sound(r) /\ r.op \notin {"join", "assign", "scan"},
         Begin(q \o Matcher)
  PROVE  TInv'
<1>1. PICK go \in Task : go.op = "scan" /\ Queue(Matcher, {go})
  BY MatcherQueue
<1>2. Queue(q \o Matcher, R \cup {go})
  BY <1>1, JoinQueues DEF Precedes
<1>3. \A r \in R \cup {go} : Sound(r) /\ r.op \notin {"join", "assign"}
  BY <1>1, CarefreeTask DEF Carefree
<1> QED BY <1>2, <1>3, BeginQuiet

\* runMatcher, the tick, or nothing at all
LEMMA BeginPlain ==
  ASSUME TInv, PInv', UNCHANGED <<search, match>>, Begin(Matcher) \/ Begin(Tick) \/ Begin(<<>>)
  PROVE  TInv'
<1>1. \A go \in Task : go.op = "scan" => Sound(go)
  BY CarefreeTask DEF Carefree
<1>2. CASE Begin(Matcher)
  BY <1>1, <1>2, MatcherQueue, BeginQuiet
<1>3. CASE Begin(Tick)
  BY <1>1, <1>3, MatcherQueue, BeginQuiet
<1>4. CASE Begin(<<>>)
  BY <1>4, ShortQueue, BeginQuiet
<1> QED BY <1>2, <1>3, <1>4

\* the match of a server that is set is ended first
LEMMA SetFreedQueue ==
  ASSUME TInv, NEW v \in Servers, NEW st \in Wish
  PROVE  \E R : Queue(SetFreed(v, st), R) /\ \A r \in R : Sound(r) /\ r.op \in {"end", "set"}
<1> DEFINE m == server[v].by
<1>1. PICK t : t = [op |-> "set", v |-> v, st |-> st]
  OBVIOUS
<1>2. t \in Task /\ t.op = "set" /\ Sound(t) /\ Queue(<<t>>, {t})
  <2>1. t \in Task /\ t.op = "set"
    BY <1>1 DEF Task
  <2> QED BY <2>1, CarefreeTask, ShortQueue DEF Carefree
<1>3. m \in MatchIds \cup {None}
  BY DEF TInv, PInv, IInv, TypeOK, ServerType
<1>4. PICK q : /\ SetFreed(v, st) = q \o <<t>>
               /\ \/ q = <<>>
                  \/ m # None /\ (q = Dissolve(m) \/ q = EndMatch(m, "keep"))
  BY <1>1 DEF SetFreed
<1>5. \E Q : Queue(q, Q) /\ \A r \in Q : Sound(r) /\ r.op = "end"
  <2>1. CASE q = <<>>
    BY <2>1, ShortQueue
  <2>2. CASE m # None /\ (q = Dissolve(m) \/ q = EndMatch(m, "keep"))
    <3>1. m \in MatchIds
      BY <1>3, <2>2
    <3>2. Queue(Dissolve(m), {DissolveTask(m)}) /\ Queue(EndMatch(m, "keep"), {EndTask(m, "keep")})
      BY <3>1, MatchQueue
    <3> QED BY <2>2, <3>2, EndSound
  <2> QED BY <1>4, <2>1, <2>2
<1>6. PICK Q : Queue(q, Q) /\ \A r \in Q : Sound(r) /\ r.op = "end"
  BY <1>5
<1>7. Queue(q \o <<t>>, Q \cup {t})
  BY <1>2, <1>6, JoinQueues DEF Precedes
<1>8. \A r \in Q \cup {t} : Sound(r) /\ r.op \in {"end", "set"}
  BY <1>2, <1>6
<1> QED BY <1>4, <1>7, <1>8

\* setState, delete, create, update, setEnabled and the reports of a game server
LEMMA OperatorSound ==
  ASSUME TInv, PInv', NEW v \in Servers
  PROVE  /\ \A st \in {"AVAILABLE", "BUSY"} : SetServerState(v, st) => TInv'
         /\ DeleteServer(v) => TInv'
         /\ \A setup, on : EditServer(v, setup, on) => TInv'
         /\ \A setup, on, st : CreateServer(v, setup, st, on) => TInv'
         /\ \A on : EnableServer(v, on) => TInv'
         /\ \A map, st : Report(v, map, st) => TInv'
<1>1. {"AVAILABLE", "BUSY", "ABSENT"} \subseteq Wish
  BY DEF Wish
<1>2. \A st \in {"AVAILABLE", "BUSY"} : SetServerState(v, st) => TInv'
  <2> SUFFICES ASSUME NEW st \in {"AVAILABLE", "BUSY"}, SetServerState(v, st) PROVE TInv' OBVIOUS
  <2>1. PICK R : Queue(SetFreed(v, st), R) /\ \A r \in R : Sound(r) /\ r.op \in {"end", "set"}
    BY <1>1, SetFreedQueue
  <2>2. UNCHANGED <<search, match>> /\ Begin(SetFreed(v, st) \o Matcher)
    BY DEF SetServerState
  <2> QED BY <2>1, <2>2, BeginMatcher
<1>3. DeleteServer(v) => TInv'
  <2> SUFFICES ASSUME DeleteServer(v) PROVE TInv' OBVIOUS
  <2>1. PICK R : Queue(SetFreed(v, "ABSENT"), R) /\ \A r \in R : Sound(r) /\ r.op \in {"end", "set"}
    BY <1>1, SetFreedQueue
  <2>2. UNCHANGED <<search, match>> /\ Begin(SetFreed(v, "ABSENT"))
    BY DEF DeleteServer
  <2> QED BY <2>1, <2>2, BeginQuiet
<1>4. /\ \A setup, on : EditServer(v, setup, on) => TInv'
      /\ \A setup, on, st : CreateServer(v, setup, st, on) => TInv'
      /\ \A on : EnableServer(v, on) => TInv'
  BY BeginPlain DEF EditServer, CreateServer, EnableServer
<1>5. \A map, st : Report(v, map, st) => TInv'
  <2> SUFFICES ASSUME NEW map, NEW st, Report(v, map, st) PROVE TInv' OBVIOUS
  <2>1. UNCHANGED <<search, match>>
    BY DEF Report
  <2>2. \/ Begin(SetFreed(v, "BUSY") \o Matcher)
        \/ st = "AVAILABLE" /\ Begin(<<[op |-> "set", v |-> v, st |-> st]>> \o Matcher)
        \/ Begin(<<>> \o Matcher)
    BY DEF Report
  <2>3. CASE Begin(SetFreed(v, "BUSY") \o Matcher)
    <3>1. PICK R : Queue(SetFreed(v, "BUSY"), R) /\ \A r \in R : Sound(r) /\ r.op \in {"end", "set"}
      BY <1>1, SetFreedQueue
    <3> QED BY <2>1, <2>3, <3>1, BeginMatcher
  <2>4. CASE st = "AVAILABLE" /\ Begin(<<[op |-> "set", v |-> v, st |-> st]>> \o Matcher)
    <3>1. PICK t : t = [op |-> "set", v |-> v, st |-> st]
      OBVIOUS
    <3>2. t \in Task /\ t.op = "set"
      BY <1>1, <2>4, <3>1 DEF Task
    <3>3. Queue(<<t>>, {t}) /\ Sound(t) /\ Begin(<<t>> \o Matcher)
      BY <2>4, <3>1, <3>2, CarefreeTask, ShortQueue DEF Carefree
    <3>4. \A r \in {t} : Sound(r) /\ r.op \notin {"join", "assign", "scan"}
      BY <3>2, <3>3
    <3> QED BY <2>1, <3>3, <3>4, BeginMatcher
  <2>5. CASE Begin(<<>> \o Matcher)
    <3>1. <<>> \o Matcher = Matcher
      BY DEF Matcher
    <3> QED BY <2>1, <2>5, <3>1, BeginPlain
  <2> QED BY <2>2, <2>3, <2>4, <2>5
<1> QED BY <1>2, <1>3, <1>4, <1>5

\* rosterForServer, confirmRoster, the settings of Fake Players, the tick and the clocks
LEMMA MemorySound ==
  ASSUME TInv, PInv'
  PROVE  /\ \A v \in Servers : RosterForServer(v) \/ CooldownOver(v) \/ PollWindowOver(v) => TInv'
         /\ \A v \in Servers, m \in MatchIds : ConfirmRoster(v, m) => TInv'
         /\ \A on : SetFakeMaster(on) => TInv'
         /\ \A p, profile : WriteProfile(p, profile) => TInv'
         /\ RunTick => TInv'
<1>1. \A v \in Servers : RosterForServer(v) \/ CooldownOver(v) \/ PollWindowOver(v) => TInv'
  BY BeginPlain DEF RosterForServer, CooldownOver, PollWindowOver
<1>2. ASSUME NEW v \in Servers, NEW m \in MatchIds, ConfirmRoster(v, m) PROVE TInv'
  <2>1. /\ UNCHANGED <<search, match>>
        /\ Begin(<<>>) \/ (match[m].st = "READY" /\ Begin(Assign(m)))
    BY <1>2 DEF ConfirmRoster
  <2>2. CASE match[m].st = "READY" /\ Begin(Assign(m))
    <3>1. Queue(Assign(m), {AssignTask(m)}) /\ Assign(m) = <<AssignTask(m)>> /\ Sound(AssignTask(m))
      BY <2>2, MatchQueue, AssignSound
    <3>2. todo' = <<AssignTask(m)>>
      BY <2>2, <3>1 DEF Begin
    <3>3. Behind' = {}
      BY <3>1, <3>2 DEF Behind, Range
    <3>4. Once'
      BY <3>3 DEF Once
    <3>5. \A r \in {AssignTask(m)} : Sound(r)'
      BY <2>1, <3>1, SoundKept
    <3>6. Rows'
      BY <2>1, SoundKept DEF TInv
    <3> QED BY <2>2, <3>1, <3>4, <3>5, <3>6, BeginSound
  <2> QED BY <2>1, <2>2, BeginPlain
<1>3. (\A on : SetFakeMaster(on) => TInv') /\ (\A p, profile : WriteProfile(p, profile) => TInv')
  BY BeginPlain DEF SetFakeMaster, WriteProfile
<1>4. RunTick => TInv'
  BY BeginPlain DEF RunTick
<1> QED BY <1>1, <1>2, <1>3, <1>4

\* poll, cancel and remove
LEMMA LeaveCallSound ==
  ASSUME TInv, PInv', NEW s \in SearchIds
  PROVE  /\ Poll(s) => TInv'
         /\ Remove(s) => TInv'
         /\ \A r : Cancel(s, r) => TInv'
<1>1. ASSUME NEW st \in {"CANCELLED", "REMOVED"}, UNCHANGED <<search, match>>, Begin(Leave({s}, st, TRUE) \o Matcher)
      PROVE  TInv'
  <2>1. PICK t : t = [op |-> "leave", pend |-> {s}, st |-> st, party |-> TRUE]
    OBVIOUS
  <2>2. Queue(Leave({s}, st, TRUE), {t})
    <3>1. {s} \in SUBSET SearchIds /\ {s} # {} /\ st \in Finished
      BY DEF Finished
    <3> QED BY <2>1, <3>1, LeaveQueue
  <2>3. \A r \in {t} : Sound(r) /\ r.op \notin {"join", "assign", "scan"}
    BY <2>1, CarefreeTask DEF Carefree
  <2> QED BY <1>1, <2>2, <2>3, BeginMatcher
<1>2. Poll(s) => TInv'
  BY BeginPlain DEF Poll
<1>3. Remove(s) => TInv'
  BY <1>1 DEF Remove
<1>4. \A r : Cancel(s, r) => TInv'
  BY <1>1 DEF Cancel
<1> QED BY <1>2, <1>3, <1>4

\* accept: the last player to answer accepts for the match
LEMMA AcceptCallSound == ASSUME TInv, PInv', NEW s \in SearchIds, NEW r, Accept(s, r) PROVE TInv'
<1> DEFINE m == search[s].match
           everybody == \A o \in LiveRows(m) : ~MustAccept(o) \/ o = s \/ search[o].acc
<1>1. /\ m \in MatchIds /\ search[s] \in SearchType /\ search \in [SearchIds -> SearchType]
      /\ match[m].st = "ACCEPTING"
  BY DEF Accept, TInv, PInv, IInv, TypeOK, SearchType
<1>2. UNCHANGED match /\ search' = [search EXCEPT ![s].acc = TRUE]
  BY DEF Accept
<1>3. (everybody /\ Begin(<<[op |-> "accepted", m |-> m]>> \o Matcher)) \/ Begin(<<>> \o Matcher)
  BY DEF Accept
<1>4. \A o \in SearchIds : /\ search'[o].st = search[o].st /\ search'[o].acct = search[o].acct
                           /\ search'[o].match = search[o].match /\ search'[o].leader = search[o].leader
                           /\ search'[o].ask = search[o].ask /\ search'[o].src = search[o].src
                           /\ search'[o].acc = (search[o].acc \/ o = s)
  BY <1>1, <1>2 DEF SearchType
<1>5. Rows'
  BY <1>2, <1>4, RowsKept DEF TInv
<1>6. PICK go \in Task : go.op = "scan" /\ Queue(Matcher, {go})
  BY MatcherQueue
<1>7. CASE everybody /\ Begin(<<[op |-> "accepted", m |-> m]>> \o Matcher)
  <2>1. PICK e : e = [op |-> "accepted", m |-> m]
    OBVIOUS
  <2>2. e \in Task /\ e.op = "accepted" /\ e.m = m
    BY <1>1, <2>1 DEF Task
  <2>3. LiveRows(m)' \subseteq LiveRows(m)
    BY <1>4 DEF LiveRows
  <2>4. \A o \in LiveRows(m)' : MustAccept(o)' => search'[o].acc
    BY <1>4, <1>7, <2>3 DEF LiveRows, MustAccept
  <2>5. Sound(e)'
    BY <1>1, <1>2, <2>2, <2>4 DEF Sound, CanAccept
  <2>6. Queue(<<e>> \o Matcher, {e} \cup {go})
    BY <1>6, <2>2, ShortQueue, JoinQueues DEF Precedes
  <2>7. \A q \in {e} \cup {go} : Sound(q)' /\ q.op \notin {"join", "assign"}
    BY <1>6, <2>2, <2>5, CarefreeTask DEF Carefree
  <2>8. todo' = <<e>> \o Matcher /\ Begin(<<e>> \o Matcher)
    BY <1>7, <2>1 DEF Begin
  <2>9. Once'
    BY <2>6, <2>7, <2>8, HeadKind, OnceAfter
  <2> QED BY <1>5, <2>6, <2>7, <2>8, <2>9, BeginSound
<1>8. CASE Begin(<<>> \o Matcher)
  <2>1. <<>> \o Matcher = Matcher
    BY DEF Matcher
  <2>2. \A q \in {go} : Sound(q)' /\ q.op \notin {"join", "assign"}
    BY <1>6, CarefreeTask DEF Carefree
  <2>3. todo' = Matcher /\ Begin(Matcher)
    BY <1>8, <2>1 DEF Begin
  <2>4. Once'
    BY <1>6, <2>2, <2>3, HeadKind, OnceAfter
  <2> QED BY <1>5, <1>6, <2>2, <2>3, <2>4, BeginSound
<1> QED BY <1>3, <1>7, <1>8

\* start: the row of the account and the matches nobody else was in are read at once
LEMMA StartSound ==
  ASSUME TInv, PInv', NEW a \in Accounts, NEW r \in Requests, NEW src \in Sources, NEW ask \in Choices,
         NEW party \in Parties[a], Start(a, r, src, ask, party)
  PROVE  TInv'
<1> DEFINE wanted == IF party = None THEN {} ELSE party \ {a}
           sync(s) == [op |-> "sync", l |-> s, src |-> src, ask |-> ask, pend |-> wanted]
<1>1. wanted \in SUBSET Accounts
  BY NoneAssumption
<1>2. RowOf(a) \in SUBSET SearchIds /\ Abandoned(a) \in SUBSET MatchIds
  BY DEF RowOf, Abandoned
<1>3. UNCHANGED <<search, match>>
  BY DEF Start
<1> HIDE DEF wanted
<1>4. ASSUME NEW s \in RowOf(a), Begin(<<sync(s)>> \o Matcher) PROVE TInv'
  <2>1. PICK t : t = sync(s)
    OBVIOUS
  <2>2. t \in Task /\ t.op = "sync"
    BY <1>1, <1>2, <2>1 DEF Task
  <2>3. Queue(<<t>>, {t}) /\ Begin(<<t>> \o Matcher) /\ \A q \in {t} : Sound(q) /\ q.op \notin {"join", "assign", "scan"}
    BY <1>4, <2>1, <2>2, CarefreeTask, ShortQueue DEF Carefree
  <2> QED BY <1>3, <2>3, BeginMatcher
<1>5. ASSUME Begin(<<>> \o Matcher) PROVE TInv'
  <2>1. <<>> \o Matcher = Matcher
    BY DEF Matcher
  <2> QED BY <1>3, <1>5, <2>1, BeginPlain
<1>6. ASSUME NEW s \in IF RowOf(a) = {} THEN {None} ELSE RowOf(a),
             NEW t, t = [op |-> "enter", a |-> a, r |-> r, src |-> src, ask |-> ask, pend |-> wanted, own |-> s,
                         m |-> IF s = None THEN None ELSE search[s].match,
                         acc |-> IF s = None THEN FALSE ELSE search[s].acc],
             Begin(Loop("abandon", Abandoned(a)) \o <<t>> \o Matcher)
      PROVE  TInv'
  <2> DEFINE m == IF s = None THEN None ELSE search[s].match
             acc == IF s = None THEN FALSE ELSE search[s].acc
  <2>1. s \in SearchIds \cup {None} /\ m \in MatchIds \cup {None} /\ acc \in BOOLEAN
    BY <1>2 DEF TInv, PInv, IInv, TypeOK, SearchType
  <2>2. CanEnter(t)
    BY <1>6, NoneAssumption DEF CanEnter, RowOf
  <2> HIDE DEF m, acc
  <2>3. t = [op |-> "enter", a |-> a, r |-> r, src |-> src, ask |-> ask, pend |-> wanted, own |-> s, m |-> m,
             acc |-> acc]
    BY <1>6 DEF m, acc
  <2>4. t \in Task /\ t.op = "enter"
    BY <1>1, <2>1, <2>3 DEF Task
  <2>5. Sound(t) /\ Queue(<<t>>, {t})
    BY <2>2, <2>4, ShortQueue DEF Sound
  <2> DEFINE A == IF Abandoned(a) = {} THEN {} ELSE {[op |-> "abandon", pend |-> Abandoned(a)]}
  <2>6. Queue(Loop("abandon", Abandoned(a)), A)
    BY <1>2, LoopQueue
  <2>7. \A q \in A : Sound(q) /\ q.op = "abandon"
    BY DEF Sound, CanAbandon, Abandoned
  <2> HIDE DEF A
  <2>8. Queue(Loop("abandon", Abandoned(a)) \o <<t>>, A \cup {t})
    BY <2>4, <2>5, <2>6, <2>7, JoinQueues DEF Precedes
  <2>9. \A q \in A \cup {t} : Sound(q) /\ q.op \notin {"join", "assign", "scan"}
    BY <2>4, <2>5, <2>7
  <2> QED BY <1>3, <1>6, <2>8, <2>9, BeginMatcher
<1>7. \/ Begin(<<>> \o Matcher)
      \/ \E s \in RowOf(a) : Begin(<<sync(s)>> \o Matcher)
      \/ \E s \in IF RowOf(a) = {} THEN {None} ELSE RowOf(a) :
           \E t : /\ t = [op |-> "enter", a |-> a, r |-> r, src |-> src, ask |-> ask, pend |-> wanted, own |-> s,
                          m |-> IF s = None THEN None ELSE search[s].match,
                          acc |-> IF s = None THEN FALSE ELSE search[s].acc]
                  /\ Begin(Loop("abandon", Abandoned(a)) \o <<t>> \o Matcher)
  BY DEF Start, wanted
<1> QED BY <1>4, <1>5, <1>6, <1>7

\* a crash drops the running handler
LEMMA CrashSound == TInv /\ PInv' /\ Crash => TInv'
<1> SUFFICES ASSUME TInv, PInv', Crash PROVE TInv' OBVIOUS
<1>1. todo' = <<>> /\ UNCHANGED <<search, match>>
  BY DEF Crash
<1>2. Queue(<<>>, {}) /\ Once' /\ Rows'
  BY <1>1, ShortQueue, OnceAfter, SoundKept DEF TInv
<1>3. Tasks'
  BY <1>1, <1>2 DEF Queue, Tasks
<1> QED BY <1>2, <1>3 DEF TInv

\* the invariant holds in the initial state
LEMMA InitTInv == Init => TInv
<1> SUFFICES ASSUME Init PROVE TInv OBVIOUS
<1>1. PInv /\ todo = <<>>
  BY PoolInit DEF Init
<1>2. Queue(<<>>, {}) /\ Once
  BY <1>1, ShortQueue DEF Once, Behind
<1>3. \A s \in SearchIds : search[s].st \notin Live
  BY DEF Init, NoSearch, Live
<1>4. Rows /\ Tasks
  BY <1>1, <1>2, <1>3 DEF Rows, OneRow, OwnMode, Tasks, Queue
<1> QED BY <1>1, <1>4 DEF TInv

\* every statement of a handler leaves only sound tasks
LEMMA StepSound == TInv /\ PInv' /\ Step => TInv'
BY ScanSound, BreakupSound, RetireSound, ServerSound, DeleteSound, LeaveRowSound, MemberLeftSound, DissolveRowSound,
   EndRowSound, EnterSound, SyncSound, AddMemberSound, TagSound, PlaceSound, JoinSound, GatherSound, CompleteSound,
   FillSound, ReserveSound, PromoteSound, AssignRowSound, StartAcceptingSound, AcceptedSound, ConnectSound
DEF Step

\* so does the start of every handler
LEMMA HandlerSound == TInv /\ PInv' /\ (Player \/ Operator \/ GameServer \/ FakePlayers \/ Time) => TInv'
<1> SUFFICES ASSUME TInv, PInv', Player \/ Operator \/ GameServer \/ FakePlayers \/ Time PROVE TInv' OBVIOUS
<1>1. CASE Player
  BY <1>1, StartSound, LeaveCallSound, AcceptCallSound DEF Player
<1>2. CASE Operator
  BY <1>2, OperatorSound DEF Operator
<1>3. CASE GameServer
  BY <1>3, OperatorSound, MemorySound DEF GameServer
<1>4. CASE FakePlayers
  BY <1>4, MemorySound DEF FakePlayers
<1>5. CASE Time
  BY <1>5, MemorySound DEF Time
<1> QED BY <1>1, <1>2, <1>3, <1>4, <1>5

\* the invariant is inductive
LEMMA NextTInv == TInv /\ [Next]_vars => TInv'
<1> SUFFICES ASSUME TInv, [Next]_vars PROVE TInv' OBVIOUS
<1>1. PInv'
  BY PoolNext DEF TInv
<1>2. CASE Next
  BY <1>1, <1>2, StepSound, HandlerSound, CrashSound DEF Next
<1>3. CASE UNCHANGED vars
  <2>1. UNCHANGED <<search, match, todo>>
    BY <1>3 DEF vars
  <2>2. Behind' = Behind
    BY <2>1 DEF Behind
  <2>3. Tasks'
    BY <2>1, <2>2, SoundKept DEF TInv, Tasks, Once, Ordered
  <2> QED BY <1>1, <2>1, <2>3, SoundKept DEF TInv
<1> QED BY <1>2, <1>3

-----------------------------------------------------------------------------
(* What the invariant gives. *)

\* only these statements write a match
LEMMA MatchWriters ==
  ASSUME [Next]_vars, match' # match
  PROVE  \/ DeleteOld \/ MemberLeft \/ End \/ PlaceSearch \/ CompleteMatch \/ FillMatch \/ ReserveServer
         \/ StartAccepting \/ MarkAccepted
<1>1. ~Player
  <2>1. ASSUME NEW a \in Accounts, NEW r \in Requests, NEW src \in Sources, NEW ask \in Choices,
               NEW party \in Parties[a], Start(a, r, src, ask, party)
        PROVE  FALSE
    BY <2>1 DEF Start
  <2>2. ASSUME NEW s \in SearchIds, Poll(s) \/ Remove(s) PROVE FALSE
    BY <2>2 DEF Poll, Remove
  <2>3. ASSUME NEW s \in SearchIds, NEW r \in Asked(s), Cancel(s, r) \/ Accept(s, r) PROVE FALSE
    BY <2>3 DEF Cancel, Accept
  <2> QED BY <2>1, <2>2, <2>3 DEF Player
<1>2. ~Operator
  BY DEF Operator, SetServerState, DeleteServer, EditServer, CreateServer, EnableServer
<1>3. ~GameServer
  BY DEF GameServer, RosterForServer, ConfirmRoster, Report
<1>4. ~FakePlayers
  BY DEF FakePlayers, SetFakeMaster, WriteProfile
<1>5. ~Time
  BY DEF Time, RunTick, CooldownOver, PollWindowOver
<1>6. ~Crash
  BY DEF Crash
<1>7. Step
  BY <1>1, <1>2, <1>3, <1>4, <1>5, <1>6 DEF Next, vars
<1> QED BY <1>7 DEF Step, Scan, Breakup, Retire, Lapse, ReleaseOrphan, LeaveRow, DissolveRow, Release, SetServer,
                    ReleaseAbandoned, Enter, SyncParty, AddMember, TagMember, JoinMatch, GatherParty, PromoteMatch,
                    AssignRow, PromoteAccepted

\* only the statement that marks a match accepted makes it so
LEMMA OnlyMarked ==
  ASSUME TInv, [Next]_vars, NEW m \in MatchIds, match[m].st # "ACCEPTED", match'[m].st = "ACCEPTED"
  PROVE  MarkAccepted /\ Head(todo).m = m
<1>1. match \in [MatchIds -> MatchType] /\ match'[m] # match[m]
  BY DEF TInv, PInv, IInv, TypeOK
<1>4. \/ DeleteOld \/ MemberLeft \/ End \/ PlaceSearch \/ CompleteMatch \/ FillMatch \/ ReserveServer
      \/ StartAccepting \/ MarkAccepted
  BY <1>1, MatchWriters
<1>5. ~DeleteOld
  BY <1>1 DEF DeleteOld, NoMatch
<1>6. ~MemberLeft
  BY <1>1 DEF MemberLeft, MatchType
<1>7. ~End
  <2>1. End => Head(todo).st \in Over
    BY Running, TaskFields DEF End, Now
  <2> QED BY <1>1, <2>1 DEF End, MatchType, Over
<1>8. ~PlaceSearch
  BY <1>1 DEF PlaceSearch, PlaceAccept, PlaceClassic, NewMatch, NoMatch
<1>9. ~CompleteMatch
  BY <1>1 DEF CompleteMatch, MatchType
<1>10. ~FillMatch
  <2> SUFFICES ASSUME FillMatch PROVE FALSE OBVIOUS
  <2>1. PICK k \in Head(todo).pend : \E p \in Best(Fitting(k)) : \E n :
               match' = [match EXCEPT ![k].prof = p, ![k].fake = n]
    BY <1>1 DEF FillMatch
  <2> QED BY <1>1, <2>1 DEF MatchType
<1>11. ~ReserveServer
  <2> SUFFICES ASSUME ReserveServer PROVE FALSE OBVIOUS
  <2>1. PICK k \in Head(todo).pend : \E v \in Candidates(k) :
               match' = [match EXCEPT ![k].st = "READY", ![k].sv = v, ![k].map = server[v].map]
    BY <1>1 DEF ReserveServer
  <2> QED BY <1>1, <2>1 DEF MatchType
<1>12. ~StartAccepting
  BY <1>1 DEF StartAccepting, MatchType
<1>13. MarkAccepted
  BY <1>4, <1>5, <1>6, <1>7, <1>8, <1>9, <1>10, <1>11, <1>12
<1>14. Head(todo).m = m
  BY <1>1, <1>13 DEF MarkAccepted, MatchType
<1> QED BY <1>13, <1>14

\* AcceptedByAll: for any number of players, parties and restarts and whatever raced the answers,
\* a match becomes ACCEPTED only when every player in it that has a client has accepted this very
\* match (EverybodyAccepted: accept, startAccepting, markAccepted).
THEOREM AcceptedByAll == Spec => EverybodyAccepted
<1>1. TInv /\ [Next]_vars =>
        [\A m \in MatchIds : match[m].st # "ACCEPTED" /\ match'[m].st = "ACCEPTED"
           => \A s \in LiveRows(m) : MustAccept(s) => search[s].acc]_vars
  <2> SUFFICES ASSUME TInv, [Next]_vars, NEW m \in MatchIds, match[m].st # "ACCEPTED", match'[m].st = "ACCEPTED"
               PROVE  \A s \in LiveRows(m) : MustAccept(s) => search[s].acc
    OBVIOUS
  <2>1. MarkAccepted /\ Head(todo).m = m
    BY OnlyMarked
  <2> QED BY <2>1, Running DEF MarkAccepted, Now, Sound, CanAccept
<1> QED BY <1>1, InitTInv, NextTInv, PTL DEF Spec, EverybodyAccepted

\* OneSearchEach: no account is ever in two searches, as a player of its own and as a member of
\* somebody's party, whatever handlers were cut short (OneLiveSearch: start, syncParty).
THEOREM OneSearchEach == Spec => []OneLiveSearch
<1>1. TInv => OneLiveSearch
  <2> SUFFICES ASSUME TInv, NEW a \in Accounts PROVE Cardinality(RowOf(a)) <= 1
    BY DEF OneLiveSearch
  <2>1. CASE RowOf(a) = {}
    BY <2>1, FS_EmptySet
  <2>2. CASE RowOf(a) # {}
    <3>1. PICK s : s \in RowOf(a)
      BY <2>2
    <3>2. RowOf(a) = {s}
      BY <3>1 DEF RowOf, TInv, Rows, OneRow
    <3> QED BY <3>2, FS_Singleton
  <2> QED BY <2>1, <2>2
<1> QED BY <1>1, InitTInv, NextTInv, PTL DEF Spec


\* only reserveServer takes a full match to READY, with one of the servers it may choose from
LEMMA OnlyReserved ==
  ASSUME TInv, [Next]_vars, NEW m \in MatchIds, match[m].st = "FULL", match'[m].st = "READY"
  PROVE  ReserveServer /\ m \in Head(todo).pend /\ match'[m].sv \in Candidates(m)
<1>1. match \in [MatchIds -> MatchType] /\ match'[m] # match[m] /\ AcceptRequired(m)
  BY DEF TInv, PInv, IInv, TypeOK, PSafe, FullIsAccept, AcceptRequired
<1>2. \/ DeleteOld \/ MemberLeft \/ End \/ PlaceSearch \/ CompleteMatch \/ FillMatch \/ ReserveServer
      \/ StartAccepting \/ MarkAccepted
  BY <1>1, MatchWriters
<1>3. ~DeleteOld
  BY <1>1 DEF DeleteOld, NoMatch
<1>4. ~MemberLeft
  BY <1>1 DEF MemberLeft, MatchType
<1>5. ~End
  <2>1. End => Head(todo).st \in Over
    BY Running, TaskFields DEF End, Now
  <2> QED BY <1>1, <2>1 DEF End, MatchType, Over
<1>6. ~PlaceSearch
  BY <1>1 DEF PlaceSearch, PlaceAccept, PlaceClassic, NewMatch, NoMatch
<1>7. ~CompleteMatch
  <2> SUFFICES ASSUME CompleteMatch PROVE FALSE OBVIOUS
  <2>1. Head(todo).m = m
    BY <1>1 DEF CompleteMatch, MatchType
  <2> QED BY <1>1, <2>1 DEF CompleteMatch, MatchType
<1>8. ~FillMatch
  <2> SUFFICES ASSUME FillMatch PROVE FALSE OBVIOUS
  <2>1. PICK k \in Head(todo).pend : \E p \in Best(Fitting(k)) : \E n :
               match' = [match EXCEPT ![k].prof = p, ![k].fake = n]
    BY <1>1 DEF FillMatch
  <2> QED BY <1>1, <2>1 DEF MatchType
<1>9. ~StartAccepting /\ ~MarkAccepted
  BY <1>1 DEF StartAccepting, MarkAccepted, MatchType
<1>10. ReserveServer
  BY <1>2, <1>3, <1>4, <1>5, <1>6, <1>7, <1>8, <1>9
<1>11. PICK k \in Head(todo).pend : \E v \in Candidates(k) :
               match' = [match EXCEPT ![k].st = "READY", ![k].sv = v, ![k].map = server[v].map]
  BY <1>1, <1>10 DEF ReserveServer
<1>12. k = m
  BY <1>1, <1>11 DEF MatchType
<1> QED BY <1>1, <1>10, <1>11, <1>12 DEF MatchType

\* ServerFits: for any servers, modes and maps, and whatever the administrator edits while the
\* players wait, the server a match is given is enabled, of the mode every player that was placed
\* for itself asked for, and on a map every one of its players asked for (ReservedServerFits: place,
\* poolIntersect, reserveServer).
THEOREM ServerFits == Spec => ReservedServerFits
<1>1. TInv /\ [Next]_vars =>
        [\A m \in MatchIds : match[m].st = "FULL" /\ match'[m].st = "READY"
           => LET v == match'[m].sv IN
              /\ server[v].on
              /\ \A s \in LiveRows(m) :
                   /\ search[s].leader = None => search[s].ask.mode = server[v].mode
                   /\ server[v].map \in Allowed(search[s].ask.maps)]_vars
  <2> SUFFICES ASSUME TInv, [Next]_vars, NEW m \in MatchIds, match[m].st = "FULL", match'[m].st = "READY",
                      NEW s \in LiveRows(m)
               PROVE  /\ server[match'[m].sv].on
                      /\ search[s].leader = None => search[s].ask.mode = server[match'[m].sv].mode
                      /\ server[match'[m].sv].map \in Allowed(search[s].ask.maps)
    BY OnlyReserved DEF Candidates, Free
  <2>1. PICK v : v = match'[m].sv
    OBVIOUS
  <2>2. server[v].on /\ server[v].mode = match[m].mode /\ server[v].map \in Pool(m)
    BY <2>1, OnlyReserved DEF Candidates, Free
  <2>3. search[s].leader = None => search[s].ask.mode = match[m].mode
    BY NoneAssumption DEF LiveRows, TInv, Rows, OwnMode, PInv, PSafe, FullIsAccept, AcceptRequired
  <2>4. server[v].map \in Allowed(search[s].ask.maps)
    BY <2>2 DEF Pool
  <2> QED BY <2>1, <2>2, <2>3, <2>4
<1> QED BY <1>1, InitTInv, NextTInv, PTL DEF Spec, ReservedServerFits

=============================================================================
