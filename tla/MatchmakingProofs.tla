-------------------------- MODULE MatchmakingProofs --------------------------
EXTENDS Matchmaking, SequenceTheorems, FiniteSetTheorems, TLAPS

-----------------------------------------------------------------------------
(* The inductive invariant. *)

\* tasks that are only ever the head of todo, or stand right behind the task that ends a match
Urgent == {"set", "release", "orphan"}
Plain  == {t \in Task : t.op \notin Urgent}

UrgentFirst ==
  \/ todo \in Seq(Plain)
  \/ todo # <<>> /\ Head(todo).op \in Urgent /\ Tail(todo) \in Seq(Plain)
  \/ /\ todo # <<>> /\ Head(todo).op \in {"end", "release"}
     /\ Tail(todo) # <<>> /\ Head(Tail(todo)).op = "set" /\ Tail(Tail(todo)) \in Seq(Plain)

\* match m needs the reservation of server v
Needs(m, v) == match[m].st \in Holding /\ AcceptRequired(m) /\ match[m].sv = v

\* a server is released, set or swept only when no match needs it, or when the one that does is
\* the match that is about to end first
SetIsSafe ==
  \A m \in MatchIds, v \in Servers :
    Needs(m, v) =>
      /\ todo # <<>> /\ Head(todo).op = "set" => Head(todo).v # v
      /\ /\ todo # <<>> /\ Head(todo).op \in {"end", "release"}
         /\ Tail(todo) # <<>> /\ Head(Tail(todo)).op = "set" /\ Head(Tail(todo)).v = v
         => Head(todo).m = m
ReleaseIsSafe ==
  todo # <<>> /\ Head(todo).op = "release" => match[Head(todo).m].st \notin Holding
SweepIsSafe ==
  todo # <<>> /\ Head(todo).op = "orphan" =>
    \A v \in Head(todo).pend, m \in MatchIds : ~Needs(m, v)

IInv == TypeOK /\ UrgentFirst /\ HeldServerIsReserved /\ SetIsSafe /\ ReleaseIsSafe /\ SweepIsSafe

-----------------------------------------------------------------------------
(* Tasks and sequences of tasks. *)

\* what the arguments of a task of each kind are
LEMMA TaskFields ==
  ASSUME NEW t \in Task
  PROVE  /\ t.op = "leave" => t.pend \in SUBSET SearchIds /\ t.st \in Finished /\ t.party \in BOOLEAN
         /\ t.op = "left" => t.m \in MatchIds /\ t.acc \in BOOLEAN
         /\ t.op = "end" => /\ t.m \in MatchIds /\ t.st \in Over /\ t.pend \in SUBSET SearchIds
                            /\ t.free \in {"cool", "now", "keep"}
         /\ t.op = "release" => t.m \in MatchIds /\ t.free \in {"cool", "now"}
         /\ t.op = "set" => t.v \in Servers /\ t.st \in Wish
         /\ t.op \in {"breakup", "lapse", "abandon", "fill", "reserve", "promote"} => t.pend \in SUBSET MatchIds
         /\ t.op \in {"retire", "place"} => t.pend \in SUBSET SearchIds
         /\ t.op = "orphan" => t.pend \in SUBSET Servers
         /\ t.op = "enter" => /\ t.a \in Accounts /\ t.r \in Requests /\ t.src \in Sources /\ t.ask \in Choices
                              /\ t.pend \in SUBSET Accounts /\ t.own \in SearchIds \cup {None}
                              /\ t.m \in MatchIds \cup {None} /\ t.acc \in BOOLEAN
         /\ t.op \in {"sync", "add"} => /\ t.l \in SearchIds /\ t.src \in Sources /\ t.ask \in Choices
                                        /\ t.pend \in SUBSET Accounts
         /\ t.op = "tag" => t.s \in SearchIds
         /\ t.op = "join" => t.m \in MatchIds /\ t.s \in SearchIds
         /\ t.op \in {"gather", "assign"} => t.m \in MatchIds /\ t.pend \in SUBSET SearchIds
         /\ t.op \in {"full", "accepted", "connect"} => t.m \in MatchIds
BY DEF Task

\* sequences of plain tasks are closed under concatenation, head and tail
LEMMA PlainSeq ==
  ASSUME NEW p \in Seq(Plain), NEW q \in Seq(Plain)
  PROVE  /\ p \o q \in Seq(Plain)
         /\ p # <<>> => Head(p) \in Plain /\ Tail(p) \in Seq(Plain)
         /\ p \in Seq(Task)
BY ConcatProperties, HeadTailProperties, SeqMonotonic DEF Plain

\* a task in front of others is their head, and the others its tail
LEMMA Cons ==
  ASSUME NEW S, NEW e, NEW q \in Seq(S)
  PROVE  <<e>> \o q # <<>> /\ Head(<<e>> \o q) = e /\ Tail(<<e>> \o q) = q
<1>1. <<e>> \o q # <<>> /\ Head(<<e>> \o q) = e
  OBVIOUS
<1> DEFINE r == <<e>> \o q
<1>2. r \in Seq(S \cup {e}) /\ Len(r) = Len(q) + 1 /\ \A i \in 1..Len(q) : r[i + 1] = q[i]
  OBVIOUS
<1>3. Tail(r) \in Seq(S \cup {e}) /\ Len(Tail(r)) = Len(q) /\ \A i \in 1..Len(q) : Tail(r)[i] = q[i]
  BY <1>2
<1>4. Tail(r) = q
  BY <1>3, SeqEqual
<1> QED BY <1>1, <1>4

\* no task and one plain task are sequences of plain tasks
LEMMA OneTask == <<>> \in Seq(Plain) /\ \A t \in Plain : <<t>> \in Seq(Plain)
OBVIOUS

\* kinds of tasks that hold the rows a loop has still to visit
Looping == {"breakup", "lapse", "abandon", "fill", "reserve", "promote", "retire", "place", "leave", "end",
            "sync", "add", "gather", "assign"}

\* the loops of the handlers, and what is left of them, are plain
LEMMA LoopTasks ==
  /\ \A op \in {"breakup", "lapse", "abandon", "fill", "reserve", "promote"}, M \in SUBSET MatchIds :
       Loop(op, M) \in Seq(Plain)
  /\ \A op \in {"retire", "place"}, S \in SUBSET SearchIds : Loop(op, S) \in Seq(Plain)
  /\ \A t \in Plain : \A x : t.op \in Looping => Rest(t, x) \in Seq(Plain)
<1>1. \A op \in {"breakup", "lapse", "abandon", "fill", "reserve", "promote"}, M \in SUBSET MatchIds :
        [op |-> op, pend |-> M] \in Plain
  BY DEF Plain, Task, Urgent
<1>2. \A op \in {"retire", "place"}, S \in SUBSET SearchIds : [op |-> op, pend |-> S] \in Plain
  BY DEF Plain, Task, Urgent
<1>3. \A t \in Plain : \A x : t.op \in Looping => [t EXCEPT !.pend = @ \ {x}] \in Plain
  BY DEF Plain, Task, Urgent, Looping
<1> QED BY <1>1, <1>2, <1>3 DEF Loop, Rest

\* the loop that lets players leave (finish, finishPartyMembers) is plain
LEMMA LeaveTasks ==
  ASSUME NEW S \in SUBSET SearchIds, NEW st \in Finished, NEW party \in BOOLEAN
  PROVE  Leave(S, st, party) \in Seq(Plain)
<1>1. [op |-> "leave", pend |-> S, st |-> st, party |-> party] \in Plain
  BY DEF Plain, Task, Urgent
<1> QED BY <1>1 DEF Leave

\* memberLeft is a plain task
LEMMA LeftTasks ==
  ASSUME NEW m \in MatchIds \cup {None}, NEW acc \in BOOLEAN
  PROVE  Left(m, acc) \in Seq(Plain)
<1>1. m # None => [op |-> "left", m |-> m, acc |-> acc] \in Plain
  BY DEF Plain, Task, Urgent
<1> QED BY <1>1 DEF Left

\* dissolve and endMatch are one plain task that ends the match
LEMMA EndTasks ==
  ASSUME NEW m \in MatchIds
  PROVE  /\ Dissolve(m) \in Seq(Plain) /\ Len(Dissolve(m)) = 1
         /\ Head(Dissolve(m)).op = "end" /\ Head(Dissolve(m)).m = m
         /\ \A free \in {"now", "keep"} :
              /\ EndMatch(m, free) \in Seq(Plain) /\ Len(EndMatch(m, free)) = 1
              /\ Head(EndMatch(m, free)).op = "end" /\ Head(EndMatch(m, free)).m = m
<1>1. LiveRows(m) \in SUBSET SearchIds
  BY DEF LiveRows
<1>2. \A free \in {"cool", "now", "keep"}, st \in Over, S \in SUBSET SearchIds :
        [op |-> "end", m |-> m, st |-> st, pend |-> S, free |-> free] \in Plain
  BY DEF Plain, Task, Urgent
<1> QED BY <1>1, <1>2 DEF Dissolve, EndMatch, Over

\* joining, completing, assigning and promoting a match are plain tasks
LEMMA MatchTasks ==
  ASSUME NEW m \in MatchIds
  PROVE  /\ Assign(m) \in Seq(Plain)
         /\ \A s \in SearchIds : Join(m, s) \in Seq(Plain)
         /\ \A op \in {"full", "accepted", "connect"} : <<[op |-> op, m |-> m]>> \in Seq(Plain)
         /\ \A S \in SUBSET SearchIds : <<[op |-> "gather", m |-> m, pend |-> S]>> \in Seq(Plain)
<1> DEFINE S == {s \in LiveRows(m) : search[s].st # AssignedStatus(m)}
<1>1. S \in SUBSET SearchIds
  BY DEF LiveRows
<1> HIDE DEF S
<1>2. \A P \in SUBSET SearchIds : /\ [op |-> "gather", m |-> m, pend |-> P] \in Plain
                                  /\ [op |-> "assign", m |-> m, pend |-> P] \in Plain
  BY DEF Plain, Task, Urgent
<1>3. \A s \in SearchIds : [op |-> "join", m |-> m, s |-> s] \in Plain
  BY DEF Plain, Task, Urgent
<1>4. \A op \in {"full", "accepted", "connect"} : [op |-> op, m |-> m] \in Plain
  BY DEF Plain, Task, Urgent
<1>5. Assign(m) = <<[op |-> "assign", m |-> m, pend |-> S]>>
  BY DEF Assign, S
<1>6. Assign(m) \in Seq(Plain)
  BY <1>1, <1>2, <1>5, OneTask, Zenon
<1>7. \A s \in SearchIds : Join(m, s) \in Seq(Plain)
  BY <1>3 DEF Join
<1>8. \A op \in {"full", "accepted", "connect"} : <<[op |-> op, m |-> m]>> \in Seq(Plain)
  BY <1>4
<1>9. \A P \in SUBSET SearchIds : <<[op |-> "gather", m |-> m, pend |-> P]>> \in Seq(Plain)
  BY <1>2, OneTask, Zenon
<1> QED BY <1>6, <1>7, <1>8, <1>9

\* tick and runMatcher are plain tasks
LEMMA ScanTasks ==
  /\ \A q \in 1..LastPhase + 1 : <<[op |-> "scan", at |-> q]>> \in Seq(Plain)
  /\ Tick \in Seq(Plain) /\ Matcher \in Seq(Plain)
<1>1. \A q \in 1..LastPhase + 1 : [op |-> "scan", at |-> q] \in Plain
  BY DEF Plain, Task, Urgent
<1> QED BY <1>1 DEF Tick, Matcher, FirstPhase, PlacePhase, LastPhase

-----------------------------------------------------------------------------
(* Steps in general. *)

\* while a plain task runs only plain tasks stand behind it
LEMMA PlainHead ==
  ASSUME TypeOK, UrgentFirst, todo # <<>>, Head(todo).op \notin Urgent \cup {"end"}
  PROVE  /\ Head(todo) \in Plain /\ Tail(todo) \in Seq(Plain)
         /\ \A tasks \in Seq(Plain) : Do(tasks) => todo' \in Seq(Plain)
<1>1. Head(todo) \in Task
  BY HeadTailProperties DEF TypeOK
<1>2. Head(todo) \in Plain
  BY <1>1 DEF Plain
<1>3. todo \in Seq(Plain) \/ Tail(todo) \in Seq(Plain)
  BY <1>2 DEF UrgentFirst, Urgent
<1>4. Tail(todo) \in Seq(Plain)
  BY <1>3, PlainSeq
<1> QED BY <1>2, <1>4, PlainSeq DEF Do

\* while no urgent task is left there is nothing to keep safe
LEMMA PlainIsSafe ==
  ASSUME todo' \in Seq(Plain)
  PROVE  UrgentFirst' /\ SetIsSafe' /\ ReleaseIsSafe' /\ SweepIsSafe'
<1>1. todo' # <<>> => Head(todo').op \notin Urgent /\ Tail(todo') \in Seq(Plain)
  BY PlainSeq DEF Plain
<1>2. todo' # <<>> /\ Tail(todo') # <<>> => Head(Tail(todo')).op \notin Urgent
  BY <1>1, PlainSeq DEF Plain
<1> QED BY <1>1, <1>2 DEF UrgentFirst, SetIsSafe, ReleaseIsSafe, SweepIsSafe, Urgent

\* no match takes a server it did not have, and no reserved server changes hands
LEMMA HeldKept ==
  ASSUME HeldServerIsReserved,
         \A m \in MatchIds : match'[m].st \in Holding /\ AcceptRequired(m)'
           => match[m].st \in Holding /\ AcceptRequired(m) /\ match'[m].sv = match[m].sv,
         \A v \in Servers : server[v].st = "RESERVED"
           => server'[v].st = server[v].st /\ server'[v].by = server[v].by,
         TypeOK
  PROVE  HeldServerIsReserved'
<1> SUFFICES ASSUME NEW m \in MatchIds, match'[m].st \in Holding, AcceptRequired(m)'
             PROVE  /\ match'[m].sv # None
                    /\ server'[match'[m].sv].st = "RESERVED" /\ server'[match'[m].sv].by = m
  BY DEF HeldServerIsReserved
<1>1. match[m].sv # None /\ server[match[m].sv].st = "RESERVED" /\ server[match[m].sv].by = m
  BY DEF HeldServerIsReserved
<1>2. match[m].sv \in Servers
  BY <1>1 DEF TypeOK, MatchType
<1> QED BY <1>1, <1>2

\* a step that leaves only plain tasks has to keep the types and the reservations
LEMMA PlainStep ==
  ASSUME TypeOK', HeldServerIsReserved', todo' \in Seq(Plain)
  PROVE  IInv'
BY PlainIsSafe DEF IInv

-----------------------------------------------------------------------------
(* Statements on a search keep its types. *)

\* unplace, place and finish keep the types of the search rows
LEMMA SearchTypes ==
  ASSUME TypeOK, NEW s \in SearchIds
  PROVE  /\ Unplace(s) => search' \in [SearchIds -> SearchType]
         /\ \A m \in MatchIds, st \in Live : Place(s, m, st) => search' \in [SearchIds -> SearchType]
         /\ \A st \in Finished : Finish(s, st) => search' \in [SearchIds -> SearchType]
<1>1. search[s] \in SearchType /\ search \in [SearchIds -> SearchType]
  BY DEF TypeOK
<1>2. \A m \in MatchIds \cup {None}, st \in Live :
        [search[s] EXCEPT !.st = st, !.match = m, !.acc = FALSE] \in SearchType
  BY <1>1 DEF SearchType
<1>3. ASSUME Unplace(s) PROVE search' \in [SearchIds -> SearchType]
  <2> DEFINE row == IF search[s].st \in Live
                    THEN [search[s] EXCEPT !.st = "SEARCHING", !.match = None, !.acc = FALSE] ELSE search[s]
  <2>1. row \in SearchType
    BY <1>1, <1>2 DEF Live
  <2>2. search' = [search EXCEPT ![s] = row]
    BY <1>3 DEF Unplace
  <2> QED BY <1>1, <2>1, <2>2
<1>4. ASSUME NEW m \in MatchIds, NEW st \in Live, Place(s, m, st)
      PROVE search' \in [SearchIds -> SearchType]
  <2> DEFINE row == IF search[s].st \in Live
                    THEN [search[s] EXCEPT !.st = st, !.match = m, !.acc = FALSE] ELSE search[s]
  <2>1. row \in SearchType
    BY <1>1, <1>2
  <2>2. search' = [search EXCEPT ![s] = row]
    BY <1>4 DEF Place
  <2> QED BY <1>1, <2>1, <2>2
<1>5. ASSUME NEW st \in Finished, Finish(s, st)
      PROVE search' \in [SearchIds -> SearchType]
  BY <1>1, <1>5 DEF Finish, SearchType, Finished
<1> QED BY <1>3, <1>4, <1>5

-----------------------------------------------------------------------------
(* Steps on searches alone. *)

\* a step that touches neither a match nor a server, nor leaves an urgent task
LEMMA SearchStep ==
  ASSUME IInv, UNCHANGED <<match, server>>, search' \in [SearchIds -> SearchType],
         todo' \in Seq(Plain), acks' \subseteq MatchIds, UNCHANGED <<fakes, fakeOn, reads, crashes>>
  PROVE  IInv'
<1>1. TypeOK'
  BY PlainSeq DEF IInv, TypeOK
<1>2. HeldServerIsReserved'
  BY HeldKept DEF IInv, AcceptRequired
<1> QED BY <1>1, <1>2, PlainStep

\* the loops of the timers that dissolve matches put the end of one in front
LEMMA BreakupStep == IInv /\ Breakup => IInv'
<1> SUFFICES ASSUME IInv, Breakup PROVE IInv' OBVIOUS
<1> DEFINE t == Head(todo)
<1>1. t \in Plain /\ t.op = "breakup" /\ \A tasks \in Seq(Plain) : Do(tasks) => todo' \in Seq(Plain)
  BY PlainHead DEF Breakup, Now, IInv, Urgent
<1>2. PICK m \in t.pend : Do(Dissolve(m) \o Rest(t, m))
  BY DEF Breakup
<1>3. m \in MatchIds
  BY <1>1, TaskFields DEF Plain
<1>4. Dissolve(m) \o Rest(t, m) \in Seq(Plain)
  BY <1>1, <1>3, EndTasks, LoopTasks, PlainSeq DEF Looping
<1>5. search' \in [SearchIds -> SearchType] /\ acks' \subseteq MatchIds
  BY DEF Breakup, IInv, TypeOK
<1> QED BY <1>1, <1>2, <1>4, <1>5, SearchStep DEF Breakup, Do

\* listAssignedBefore: the old answer is completed, no match is touched
LEMMA RetireStep == IInv /\ Retire => IInv'
<1> SUFFICES ASSUME IInv, Retire PROVE IInv' OBVIOUS
<1> DEFINE t == Head(todo)
<1>1. t \in Plain /\ t.op = "retire" /\ \A tasks \in Seq(Plain) : Do(tasks) => todo' \in Seq(Plain)
  BY PlainHead DEF Retire, Now, IInv, Urgent
<1>2. PICK s \in t.pend : Finish(s, "COMPLETED") /\ Do(Rest(t, s))
  BY DEF Retire
<1>3. s \in SearchIds
  BY <1>1, TaskFields DEF Plain
<1>4. search' \in [SearchIds -> SearchType] /\ acks' \subseteq MatchIds
  BY <1>2, <1>3, SearchTypes DEF Retire, IInv, TypeOK, Finished
<1>5. todo' \in Seq(Plain)
  BY <1>1, <1>2, LoopTasks DEF Looping
<1> QED BY <1>2, <1>4, <1>5, SearchStep DEF Retire, Do

\* the TTL loop puts the end of one match in front
LEMMA LapseStep == IInv /\ Lapse => IInv'
<1> SUFFICES ASSUME IInv, Lapse PROVE IInv' OBVIOUS
<1> DEFINE t == Head(todo)
<1>1. t \in Plain /\ t.op = "lapse" /\ \A tasks \in Seq(Plain) : Do(tasks) => todo' \in Seq(Plain)
  BY PlainHead DEF Lapse, Now, IInv, Urgent
<1>2. PICK m \in t.pend : Do(EndMatch(m, "now") \o Rest(t, m))
  BY DEF Lapse
<1>3. m \in MatchIds
  BY <1>1, TaskFields DEF Plain
<1>4. EndMatch(m, "now") \o Rest(t, m) \in Seq(Plain)
  BY <1>1, <1>3, EndTasks, LoopTasks, PlainSeq DEF Looping
<1>5. search' \in [SearchIds -> SearchType] /\ acks' \subseteq MatchIds
  BY DEF Lapse, IInv, TypeOK
<1> QED BY <1>1, <1>2, <1>4, <1>5, SearchStep DEF Lapse, Do

\* releaseAbandonedMatches puts the end of one match in front
LEMMA ReleaseAbandonedStep == IInv /\ ReleaseAbandoned => IInv'
<1> SUFFICES ASSUME IInv, ReleaseAbandoned PROVE IInv' OBVIOUS
<1> DEFINE t == Head(todo)
<1>1. t \in Plain /\ t.op = "abandon" /\ \A tasks \in Seq(Plain) : Do(tasks) => todo' \in Seq(Plain)
  BY PlainHead DEF ReleaseAbandoned, Now, IInv, Urgent
<1>2. PICK m \in t.pend : \/ Do(Dissolve(m) \o Rest(t, m))
                          \/ Do(EndMatch(m, "now") \o Rest(t, m))
  BY DEF ReleaseAbandoned
<1>3. m \in MatchIds
  BY <1>1, TaskFields DEF Plain
<1>4. /\ EndMatch(m, "now") \o Rest(t, m) \in Seq(Plain)
      /\ Dissolve(m) \o Rest(t, m) \in Seq(Plain)
  BY <1>1, <1>3, EndTasks, LoopTasks, PlainSeq DEF Looping
<1>5. search' \in [SearchIds -> SearchType] /\ acks' \subseteq MatchIds
  BY DEF ReleaseAbandoned, IInv, TypeOK
<1> QED BY <1>1, <1>2, <1>4, <1>5, SearchStep DEF ReleaseAbandoned, Do

\* a player who leaves changes its own row only
LEMMA LeaveRowStep == IInv /\ LeaveRow => IInv'
<1> SUFFICES ASSUME IInv, LeaveRow PROVE IInv' OBVIOUS
<1> DEFINE t == Head(todo)
<1>1. t \in Plain /\ t.op = "leave" /\ \A tasks \in Seq(Plain) : Do(tasks) => todo' \in Seq(Plain)
  BY PlainHead DEF LeaveRow, Now, IInv, Urgent
<1>2. t.pend \in SUBSET SearchIds /\ t.st \in Finished
  BY <1>1, TaskFields DEF Plain
<1>3. PICK s \in t.pend :
        /\ Finish(s, t.st)
        /\ Do(Leave(IF t.party /\ ~search[s].acc THEN Members(s) ELSE {}, t.st, FALSE)
              \o Left(search[s].match, search[s].acc) \o Rest(t, s))
  BY DEF LeaveRow
<1>4. (IF t.party /\ ~search[s].acc THEN Members(s) ELSE {}) \in SUBSET SearchIds
  BY DEF Members
<1>5. Leave(IF t.party /\ ~search[s].acc THEN Members(s) ELSE {}, t.st, FALSE) \in Seq(Plain)
  BY <1>2, <1>4, LeaveTasks
<1>6. Left(search[s].match, search[s].acc) \in Seq(Plain)
  BY <1>2, LeftTasks DEF IInv, TypeOK, SearchType
<1>7. Rest(t, s) \in Seq(Plain)
  BY <1>1, LoopTasks DEF Looping
<1>8. todo' \in Seq(Plain)
  <2> HIDE DEF t
  <2> QED BY <1>1, <1>3, <1>5, <1>6, <1>7, PlainSeq
<1>9. search' \in [SearchIds -> SearchType] /\ acks' \subseteq MatchIds
  BY <1>2, <1>3, SearchTypes DEF LeaveRow, IInv, TypeOK
<1> QED BY <1>3, <1>8, <1>9, SearchStep DEF LeaveRow, Do

\* a row that start or syncParty inserts has the types of its columns
LEMMA NewSearchType ==
  ASSUME NEW a \in Accounts, NEW r \in Requests \cup {None}, NEW src \in Sources, NEW ask \in Choices,
         NEW leader \in SearchIds \cup {None}
  PROVE  NewSearch(a, r, src, ask, leader) \in SearchType
BY DEF NewSearch, NoSearch, SearchType, Live

\* insert and replaceLive write one search row
LEMMA EnterStep == IInv /\ Enter => IInv'
<1> SUFFICES ASSUME IInv, Enter PROVE IInv' OBVIOUS
<1> DEFINE t == Head(todo)
<1> DEFINE Sync(l) == <<[op |-> "sync", l |-> l, src |-> t.src, ask |-> t.ask, pend |-> t.pend]>>
<1>1. t \in Plain /\ t.op = "enter" /\ \A tasks \in Seq(Plain) : Do(tasks) => todo' \in Seq(Plain)
  BY PlainHead DEF Enter, Now, IInv, Urgent
<1>2. /\ t.a \in Accounts /\ t.r \in Requests /\ t.src \in Sources /\ t.ask \in Choices
      /\ t.pend \in SUBSET Accounts /\ t.own \in SearchIds \cup {None}
      /\ t.m \in MatchIds \cup {None} /\ t.acc \in BOOLEAN
  BY <1>1, TaskFields DEF Plain
<1>3. search \in [SearchIds -> SearchType] /\ \A s \in SearchIds : search[s].leader \in SearchIds \cup {None}
  BY DEF IInv, TypeOK, SearchType
<1>4. \A l \in SearchIds : Sync(l) \in Seq(Plain)
  <2>1. \A l \in SearchIds :
          [op |-> "sync", l |-> l, src |-> t.src, ask |-> t.ask, pend |-> t.pend] \in Plain
    BY <1>2 DEF Plain, Task, Urgent
  <2> QED BY <2>1, OneTask
<1> HIDE DEF Sync
<1>5. acks' \subseteq MatchIds
  BY DEF Enter, IInv, TypeOK
<1>6. CASE t.own = None
  <2>1. PICK s \in FreshSearches : /\ search' = [search EXCEPT ![s] = NewSearch(t.a, t.r, t.src, t.ask, None)]
                                   /\ Do(Sync(s))
    BY <1>6 DEF Enter, Sync
  <2>2. s \in SearchIds
    BY DEF FreshSearches
  <2>3. search' \in [SearchIds -> SearchType]
    BY <1>2, <1>3, <2>1, NewSearchType
  <2> QED BY <1>1, <1>4, <1>5, <2>1, <2>2, <2>3, SearchStep DEF Enter, Do
<1>7. CASE t.own # None
  <2>1. /\ search' = [search EXCEPT ![t.own] = NewSearch(t.a, t.r, t.src, t.ask, @.leader)]
        /\ Do(Leave(IF t.acc THEN {} ELSE Members(t.own), "CANCELLED", FALSE)
              \o Left(t.m, t.acc) \o Sync(t.own))
    BY <1>7 DEF Enter, Sync
  <2>2. NewSearch(t.a, t.r, t.src, t.ask, search[t.own].leader) \in SearchType
    BY <1>2, <1>3, <1>7, NewSearchType
  <2>3. search' \in [SearchIds -> SearchType]
    BY <1>2, <1>3, <1>7, <2>1, <2>2
  <2>4. (IF t.acc THEN {} ELSE Members(t.own)) \in SUBSET SearchIds
    BY DEF Members
  <2>5. Leave(IF t.acc THEN {} ELSE Members(t.own), "CANCELLED", FALSE) \in Seq(Plain)
    BY <2>4, LeaveTasks DEF Finished
  <2>6. todo' \in Seq(Plain)
    BY <1>1, <1>2, <1>4, <1>7, <2>1, <2>5, LeftTasks, PlainSeq
  <2> QED BY <1>5, <2>1, <2>3, <2>6, SearchStep DEF Enter, Do
<1> QED BY <1>6, <1>7

\* syncParty itself only queues who leaves and who is added
LEMMA SyncPartyStep == IInv /\ SyncParty => IInv'
<1> SUFFICES ASSUME IInv, SyncParty PROVE IInv' OBVIOUS
<1> DEFINE t == Head(todo)
<1> DEFINE stay == {s \in Members(t.l) : search[s].acct \in t.pend}
<1> DEFINE absent == t.pend \ {search[s].acct : s \in stay}
<1>1. t \in Plain /\ t.op = "sync" /\ \A tasks \in Seq(Plain) : Do(tasks) => todo' \in Seq(Plain)
  BY PlainHead DEF SyncParty, Now, IInv, Urgent
<1>2. t.l \in SearchIds /\ t.pend \in SUBSET Accounts
  BY <1>1, TaskFields DEF Plain
<1>3. Members(t.l) \ stay \in SUBSET SearchIds
  BY DEF Members
<1>4. Leave(Members(t.l) \ stay, "CANCELLED", FALSE) \in Seq(Plain)
  BY <1>3, LeaveTasks DEF Finished
<1>5. absent \in SUBSET Accounts
  BY <1>2
<1>6. Do(Leave(Members(t.l) \ stay, "CANCELLED", FALSE)
         \o IF absent = {} THEN <<>> ELSE <<[t EXCEPT !.op = "add", !.pend = absent]>>)
  BY DEF SyncParty
<1> HIDE DEF absent, stay
<1>7. [t EXCEPT !.op = "add", !.pend = absent] \in Plain
  BY <1>1, <1>5 DEF Plain, Task, Urgent
<1>8. (IF absent = {} THEN <<>> ELSE <<[t EXCEPT !.op = "add", !.pend = absent]>>) \in Seq(Plain)
  BY <1>7, OneTask
<1>9. todo' \in Seq(Plain)
  BY <1>1, <1>4, <1>6, <1>8, PlainSeq
<1>10. search' \in [SearchIds -> SearchType] /\ acks' \subseteq MatchIds
  BY DEF SyncParty, IInv, TypeOK
<1> QED BY <1>6, <1>9, <1>10, SearchStep DEF SyncParty, Do

\* adding a party member writes one search row
LEMMA AddMemberStep == IInv /\ AddMember => IInv'
<1> SUFFICES ASSUME IInv, AddMember PROVE IInv' OBVIOUS
<1> DEFINE t == Head(todo)
<1>1. t \in Plain /\ t.op = "add" /\ \A tasks \in Seq(Plain) : Do(tasks) => todo' \in Seq(Plain)
  BY PlainHead DEF AddMember, Now, IInv, Urgent
<1>2. t.l \in SearchIds /\ t.src \in Sources /\ t.ask \in Choices /\ t.pend \in SUBSET Accounts
  BY <1>1, TaskFields DEF Plain
<1>3. PICK a \in t.pend :
        \/ /\ Do(Leave(RowOf(a), "CANCELLED", TRUE) \o <<t>>)
           /\ UNCHANGED search
        \/ \E s \in FreshSearches :
             /\ search' = [search EXCEPT ![s] = NewSearch(a, None, t.src, t.ask, t.l)]
             /\ Do(<<[op |-> "tag", s |-> s]>> \o Rest(t, a))
  BY DEF AddMember
<1>4. acks' \subseteq MatchIds /\ search \in [SearchIds -> SearchType]
  BY DEF AddMember, IInv, TypeOK
<1>5. CASE Do(Leave(RowOf(a), "CANCELLED", TRUE) \o <<t>>) /\ UNCHANGED search
  <2>1. RowOf(a) \in SUBSET SearchIds
    BY DEF RowOf
  <2>2. Leave(RowOf(a), "CANCELLED", TRUE) \o <<t>> \in Seq(Plain)
    BY <1>1, <2>1, LeaveTasks, OneTask, PlainSeq DEF Finished
  <2> QED BY <1>1, <1>4, <1>5, <2>2, SearchStep DEF AddMember, Do
<1>6. ASSUME NEW s \in FreshSearches,
             search' = [search EXCEPT ![s] = NewSearch(a, None, t.src, t.ask, t.l)],
             Do(<<[op |-> "tag", s |-> s]>> \o Rest(t, a))
      PROVE  IInv'
  <2>1. s \in SearchIds
    BY DEF FreshSearches
  <2>2. [op |-> "tag", s |-> s] \in Plain
    BY <2>1 DEF Plain, Task, Urgent
  <2>3. Rest(t, a) \in Seq(Plain) /\ <<[op |-> "tag", s |-> s]>> \in Seq(Plain)
    BY <1>1, <2>2, LoopTasks, OneTask DEF Looping
  <2>4. <<[op |-> "tag", s |-> s]>> \o Rest(t, a) \in Seq(Plain)
    BY <2>3, PlainSeq
  <2>5. todo' \in Seq(Plain)
    BY <1>1, <1>6, <2>4
  <2>6. search' \in [SearchIds -> SearchType]
    BY <1>2, <1>4, <1>6, NewSearchType
  <2> QED BY <1>4, <1>6, <2>5, <2>6, SearchStep DEF AddMember, Do
<1> QED BY <1>3, <1>5, <1>6

\* setRequestId writes one search row
LEMMA TagMemberStep == IInv /\ TagMember => IInv'
<1> SUFFICES ASSUME IInv, TagMember PROVE IInv' OBVIOUS
<1> DEFINE t == Head(todo)
<1>1. t \in Plain /\ t.op = "tag" /\ \A tasks \in Seq(Plain) : Do(tasks) => todo' \in Seq(Plain)
  BY PlainHead DEF TagMember, Now, IInv, Urgent
<1>2. t.s \in SearchIds
  BY <1>1, TaskFields DEF Plain
<1>3. search' = [search EXCEPT ![t.s].req = t.s] /\ Do(<<>>)
  BY DEF TagMember
<1>4. search' \in [SearchIds -> SearchType] /\ acks' \subseteq MatchIds
  BY <1>2, <1>3 DEF TagMember, IInv, TypeOK, SearchType
<1>5. todo' \in Seq(Plain)
  BY <1>1, <1>3, OneTask
<1> QED BY <1>3, <1>4, <1>5, SearchStep DEF TagMember, Do

\* join places the leader and queues its members
LEMMA JoinMatchStep == IInv /\ JoinMatch => IInv'
<1> SUFFICES ASSUME IInv, JoinMatch PROVE IInv' OBVIOUS
<1> DEFINE t == Head(todo)
<1>1. t \in Plain /\ t.op = "join" /\ \A tasks \in Seq(Plain) : Do(tasks) => todo' \in Seq(Plain)
  BY PlainHead DEF JoinMatch, Now, IInv, Urgent
<1>2. t.m \in MatchIds /\ t.s \in SearchIds
  BY <1>1, TaskFields DEF Plain
<1>3. Place(t.s, t.m, "MATCHED") /\ Do(<<[op |-> "gather", m |-> t.m, pend |-> Members(t.s)]>>)
  BY DEF JoinMatch
<1>4. search' \in [SearchIds -> SearchType] /\ acks' \subseteq MatchIds
  BY <1>2, <1>3, SearchTypes DEF JoinMatch, IInv, TypeOK, Live
<1>5. Members(t.s) \in SUBSET SearchIds
  BY DEF Members
<1>6. todo' \in Seq(Plain)
  BY <1>1, <1>2, <1>3, <1>5, MatchTasks
<1> QED BY <1>3, <1>4, <1>6, SearchStep DEF JoinMatch, Do

\* join places the members and completes the match when it is full
LEMMA GatherPartyStep == IInv /\ GatherParty => IInv'
<1> SUFFICES ASSUME IInv, GatherParty PROVE IInv' OBVIOUS
<1> DEFINE t == Head(todo)
<1>1. t \in Plain /\ t.op = "gather" /\ \A tasks \in Seq(Plain) : Do(tasks) => todo' \in Seq(Plain)
  BY PlainHead DEF GatherParty, Now, IInv, Urgent
<1>2. t.m \in MatchIds /\ t.pend \in SUBSET SearchIds
  BY <1>1, TaskFields DEF Plain
<1>3. search \in [SearchIds -> SearchType] /\ acks' \subseteq MatchIds
  BY DEF GatherParty, IInv, TypeOK
<1>4. ASSUME NEW s \in t.pend, Place(s, t.m, "MATCHED"), Do(<<[t EXCEPT !.pend = @ \ {s}]>>)
      PROVE  IInv'
  <2>1. [t EXCEPT !.pend = @ \ {s}] \in Plain
    BY <1>1 DEF Plain, Task, Urgent
  <2>2. todo' \in Seq(Plain)
    BY <1>1, <1>4, <2>1, OneTask
  <2>3. search' \in [SearchIds -> SearchType]
    BY <1>2, <1>4, SearchTypes DEF IInv, Live
  <2> QED BY <1>3, <1>4, <2>2, <2>3, SearchStep DEF GatherParty, Do
<1>5. ASSUME Do(IF Players(t.m) < Required[match[t.m].mode] THEN <<>> ELSE <<[op |-> "full", m |-> t.m]>>),
             UNCHANGED search
      PROVE  IInv'
  <2> DEFINE next == IF Players(t.m) < Required[match[t.m].mode] THEN <<>> ELSE <<[op |-> "full", m |-> t.m]>>
  <2>1. next \in Seq(Plain)
    BY <1>2, MatchTasks, OneTask
  <2>2. todo' \in Seq(Plain)
    <3> HIDE DEF next
    <3> QED BY <1>1, <1>5, <2>1 DEF next
  <2> QED BY <1>3, <1>5, <2>2, SearchStep DEF GatherParty, Do
<1> QED BY <1>4, <1>5 DEF GatherParty

\* assignMembers writes one search row at a time
LEMMA AssignRowStep == IInv /\ AssignRow => IInv'
<1> SUFFICES ASSUME IInv, AssignRow PROVE IInv' OBVIOUS
<1> DEFINE t == Head(todo)
<1>1. t \in Plain /\ t.op = "assign" /\ \A tasks \in Seq(Plain) : Do(tasks) => todo' \in Seq(Plain)
  BY PlainHead DEF AssignRow, Now, IInv, Urgent
<1>2. t.m \in MatchIds /\ t.pend \in SUBSET SearchIds
  BY <1>1, TaskFields DEF Plain
<1>3. PICK s \in t.pend : Place(s, t.m, AssignedStatus(t.m)) /\ Do(<<[t EXCEPT !.pend = @ \ {s}]>>)
  BY DEF AssignRow
<1>4. search' \in [SearchIds -> SearchType] /\ acks' \subseteq MatchIds
  BY <1>2, <1>3, SearchTypes DEF AssignRow, AssignedStatus, IInv, TypeOK, Live
<1>5. [t EXCEPT !.pend = @ \ {s}] \in Plain
  BY <1>1 DEF Plain, Task, Urgent
<1>6. todo' \in Seq(Plain)
  BY <1>1, <1>3, <1>5, OneTask
<1> QED BY <1>3, <1>4, <1>6, SearchStep DEF AssignRow, Do

\* promoteMatchesWaitingForTheirServer only queues the assignments
LEMMA PromoteMatchStep == IInv /\ PromoteMatch => IInv'
<1> SUFFICES ASSUME IInv, PromoteMatch PROVE IInv' OBVIOUS
<1> DEFINE t == Head(todo)
<1>1. t \in Plain /\ t.op = "promote" /\ \A tasks \in Seq(Plain) : Do(tasks) => todo' \in Seq(Plain)
  BY PlainHead DEF PromoteMatch, Now, IInv, Urgent
<1>2. PICK m \in t.pend : Do(Assign(m) \o Rest(t, m)) \/ Do(Rest(t, m))
  BY DEF PromoteMatch
<1>3. m \in MatchIds
  BY <1>1, TaskFields DEF Plain
<1>4. todo' \in Seq(Plain)
  <2>1. Rest(t, m) \in Seq(Plain)
    BY <1>1, LoopTasks DEF Looping
  <2>2. Assign(m) \in Seq(Plain)
    BY <1>3, MatchTasks
  <2>3. Assign(m) \o Rest(t, m) \in Seq(Plain)
    BY <2>1, <2>2, PlainSeq
  <2> QED BY <1>1, <1>2, <2>1, <2>3
<1>5. search' \in [SearchIds -> SearchType] /\ acks' \subseteq MatchIds
  BY DEF PromoteMatch, IInv, TypeOK
<1> QED BY <1>2, <1>4, <1>5, SearchStep DEF PromoteMatch, Do

\* promoteAccepted writes search rows only
LEMMA PromoteAcceptedStep == IInv /\ PromoteAccepted => IInv'
<1> SUFFICES ASSUME IInv, PromoteAccepted PROVE IInv' OBVIOUS
<1> DEFINE t == Head(todo)
<1>1. t \in Plain /\ t.op = "connect" /\ \A tasks \in Seq(Plain) : Do(tasks) => todo' \in Seq(Plain)
  BY PlainHead DEF PromoteAccepted, Now, IInv, Urgent
<1>2. \A s \in SearchIds : [search[s] EXCEPT !.st = "READY_TO_CONNECT"] \in SearchType
  BY DEF IInv, TypeOK, SearchType, Live
<1>3. search' \in [SearchIds -> SearchType] /\ acks' \subseteq MatchIds
  BY <1>2 DEF PromoteAccepted, IInv, TypeOK
<1>4. Do(<<>>) /\ UNCHANGED <<match, server, acks>>
  BY DEF PromoteAccepted
<1>5. todo' \in Seq(Plain)
  BY <1>1, <1>4, OneTask
<1>6. UNCHANGED <<fakes, fakeOn, reads, crashes>>
  BY <1>4 DEF Do
<1> QED BY <1>3, <1>4, <1>5, <1>6, SearchStep

-----------------------------------------------------------------------------
(* The steps of the timers. *)

\* a step that reads the tables only
LEMMA IdleStep ==
  ASSUME IInv, UNCHANGED <<search, match, server, fakes, fakeOn, acks, reads, crashes>>,
         todo' \in Seq(Task)
  PROVE  TypeOK' /\ HeldServerIsReserved'
<1>1. TypeOK'
  BY DEF IInv, TypeOK
<1>2. HeldServerIsReserved'
  BY HeldKept DEF IInv, AcceptRequired
<1> QED BY <1>1, <1>2

\* an urgent task in front of plain ones
LEMMA UrgentTask ==
  ASSUME NEW t \in Task, t.op \in Urgent, NEW q \in Seq(Plain), todo' = <<t>> \o q
  PROVE  /\ UrgentFirst' /\ todo' \in Seq(Task)
         /\ todo' # <<>> /\ Head(todo') = t /\ Tail(todo') = q
<1>1. todo' # <<>> /\ Head(todo') = t /\ Tail(todo') = q
  BY Cons
<1>2. q \in Seq(Task)
  BY PlainSeq
<1>3. todo' \in Seq(Task)
  BY <1>2
<1> QED BY <1>1, <1>3 DEF UrgentFirst

\* every phase of a tick but the orphan timer queues plain tasks
LEMMA WorksPlain ==
  ASSUME IInv, NEW q \in 1..LastPhase, q # 7, NEW work \in Works(q)
  PROVE  work \in Seq(Plain)
<1>1. \A S \in SUBSET SearchIds : Leave(S, "EXPIRED", TRUE) \in Seq(Plain)
  BY LeaveTasks DEF Finished
<1>2. Stale \in SUBSET SearchIds /\ Assigned \in SUBSET SearchIds /\ Unplaced \in SUBSET SearchIds
  BY DEF Stale, Assigned, Unplaced
<1>3. /\ AcceptDue \in SUBSET MatchIds /\ Legacy \in SUBSET MatchIds /\ Deserted \in SUBSET MatchIds
      /\ Lapsed \in SUBSET MatchIds /\ Fillable \in SUBSET MatchIds /\ Full \in SUBSET MatchIds
      /\ Promotable \in SUBSET MatchIds
  BY DEF AcceptDue, Legacy, Deserted, Lapsed, Fillable, Full, Promotable
<1>4. Purge \in Seq(Plain)
  <2>1. [op |-> "purge"] \in Plain
    BY DEF Plain, Task, Urgent
  <2> QED BY <2>1, OneTask DEF Purge
<1>5. \A M \in SUBSET MatchIds : /\ Loop("breakup", M) \in Seq(Plain) /\ Loop("lapse", M) \in Seq(Plain)
                                 /\ Loop("fill", M) \in Seq(Plain) /\ Loop("reserve", M) \in Seq(Plain)
                                 /\ Loop("promote", M) \in Seq(Plain)
  BY LoopTasks
<1>6. \A S \in SUBSET SearchIds : Loop("retire", S) \in Seq(Plain) /\ Loop("place", S) \in Seq(Plain)
  BY LoopTasks
<1>7. q \in {1, 2, 3, 4, 5, 6, 8, 9, 10, 11, 12}
  BY DEF LastPhase
<1> DEFINE W1  == {Leave(S, "EXPIRED", TRUE) : S \in SUBSET Stale}
           W2  == {Loop("breakup", M) : M \in SUBSET AcceptDue}
           W3  == {Loop("breakup", Legacy)}
           W4  == {Loop("breakup", Deserted)}
           W5  == {Loop("retire", S) : S \in SUBSET Assigned}
           W6  == {Loop("lapse", M) : M \in SUBSET Lapsed}
           W7  == {Loop("orphan", V) : V \in SUBSET Orphans}
           W8  == {<<>>, Purge}
           W9  == {Loop("place", Unplaced)}
           W10 == {Loop("fill", M) : M \in SUBSET Fillable}
           W11 == {Loop("reserve", Full)}
           W12 == {Loop("promote", Promotable)}
<1>8. Works(q) = CASE q = 1 -> W1 [] q = 2 -> W2 [] q = 3 -> W3 [] q = 4 -> W4 [] q = 5 -> W5 [] q = 6 -> W6
                   [] q = 7 -> W7 [] q = 8 -> W8 [] q = 9 -> W9 [] q = 10 -> W10 [] q = 11 -> W11 [] q = 12 -> W12
  BY DEF Works
<1>9. /\ W1 \subseteq Seq(Plain) /\ W5 \subseteq Seq(Plain) /\ W9 \subseteq Seq(Plain)
      /\ W8 \subseteq Seq(Plain)
  BY <1>1, <1>2, <1>4, <1>6, OneTask
<1>10. /\ W2 \subseteq Seq(Plain) /\ W3 \subseteq Seq(Plain) /\ W4 \subseteq Seq(Plain) /\ W6 \subseteq Seq(Plain)
       /\ W10 \subseteq Seq(Plain) /\ W11 \subseteq Seq(Plain) /\ W12 \subseteq Seq(Plain)
  BY <1>3, <1>5
<1> HIDE DEF W1, W2, W3, W4, W5, W6, W7, W8, W9, W10, W11, W12
<1> QED BY <1>7, <1>8, <1>9, <1>10

\* a phase of the tick or of runMatcher only reads; what the orphan timer finds no match needs
LEMMA ScanStep == IInv /\ Scan => IInv'
<1> SUFFICES ASSUME IInv, Scan PROVE IInv' OBVIOUS
<1> DEFINE at == Head(todo).at
<1>1. /\ Head(todo) \in Plain /\ Tail(todo) \in Seq(Plain) /\ Head(todo).op = "scan"
      /\ \A tasks \in Seq(Plain) : Do(tasks) => todo' \in Seq(Plain)
  BY PlainHead DEF Scan, Now, IInv, Urgent
<1>2. at \in 1..LastPhase + 1
  BY <1>1 DEF Plain, Task
<1>3. UNCHANGED <<search, match, server, fakes, fakeOn, acks, reads, crashes>>
  BY DEF Scan, Do
<1>4. search' \in [SearchIds -> SearchType] /\ acks' \subseteq MatchIds
  BY <1>3 DEF IInv, TypeOK
<1>5. CASE Do(<<>>)
  <2>1. todo' \in Seq(Plain)
    BY <1>1, <1>5, OneTask
  <2> QED BY <1>3, <1>4, <2>1, SearchStep
<1>6. ASSUME NEW q \in at..LastPhase, NEW work \in Works(q) \ {<<>>},
             Do(work \o <<[op |-> "scan", at |-> q + 1]>>)
      PROVE  IInv'
  <2>1. q \in 1..LastPhase /\ q + 1 \in 1..LastPhase + 1
    BY <1>2 DEF LastPhase
  <2>2. <<[op |-> "scan", at |-> q + 1]>> \in Seq(Plain)
    BY <2>1, ScanTasks
  <2>3. CASE q # 7
    <3>1. work \in Seq(Plain)
      BY <2>1, <2>3, WorksPlain
    <3>2. work \o <<[op |-> "scan", at |-> q + 1]>> \in Seq(Plain)
      BY <2>2, <3>1, PlainSeq
    <3>3. todo' \in Seq(Plain)
      BY <1>1, <1>6, <3>2
    <3> QED BY <1>3, <1>4, <3>3, SearchStep
  <2>4. CASE q = 7
    <3>1. PICK V \in SUBSET Orphans : work = <<[op |-> "orphan", pend |-> V]>>
      BY <2>4 DEF Works, Loop
    <3> DEFINE t == [op |-> "orphan", pend |-> V]
               rest == <<[op |-> "scan", at |-> q + 1]>> \o Tail(todo)
    <3>2. V \in SUBSET Servers
      BY DEF Orphans
    <3>3. t \in Task /\ t.op \in Urgent /\ t.op = "orphan" /\ t.pend = V
      BY <3>2 DEF Task, Urgent
    <3>4. rest \in Seq(Plain)
      BY <1>1, <2>2, PlainSeq
    <3>5. todo' = <<t>> \o rest
      <4>1. todo' = (<<t>> \o <<[op |-> "scan", at |-> q + 1]>>) \o Tail(todo)
        BY <1>6, <3>1 DEF Do
      <4>2. <<t>> \in Seq(Task) /\ <<[op |-> "scan", at |-> q + 1]>> \in Seq(Task) /\ Tail(todo) \in Seq(Task)
        <5>1. Tail(todo) \in Seq(Task) /\ <<[op |-> "scan", at |-> q + 1]>> \in Seq(Task)
          BY <1>1, <2>2, PlainSeq
        <5> HIDE DEF t
        <5> QED BY <3>3, <5>1
      <4> HIDE DEF t
      <4> QED BY <4>1, <4>2, ConcatAssociative
    <3> HIDE DEF t, rest
    <3>6. /\ UrgentFirst' /\ todo' \in Seq(Task)
          /\ todo' # <<>> /\ Head(todo') = t /\ Tail(todo') = rest
      BY <3>3, <3>4, <3>5, UrgentTask
    <3>7. TypeOK' /\ HeldServerIsReserved'
      BY <1>3, <3>6, IdleStep
    <3>8. \A v \in V, m \in MatchIds : ~Needs(m, v)'
      BY <1>3, <3>1 DEF Needs, Orphans, Held, HeldServerIsReserved, IInv, AcceptRequired
    <3>9. SetIsSafe' /\ ReleaseIsSafe' /\ SweepIsSafe'
      BY <3>3, <3>6, <3>8 DEF SetIsSafe, ReleaseIsSafe, SweepIsSafe
    <3> QED BY <3>6, <3>7, <3>9 DEF IInv
  <2> QED BY <2>3, <2>4
<1> QED BY <1>5, <1>6 DEF Scan

\* the orphan timer releases a server no match needs, and still none needs the others
LEMMA ReleaseOrphanStep == IInv /\ ReleaseOrphan => IInv'
<1> SUFFICES ASSUME IInv, ReleaseOrphan PROVE IInv' OBVIOUS
<1> DEFINE t == Head(todo)
<1>1. t \in Task /\ t.op = "orphan" /\ todo # <<>>
  BY HeadTailProperties DEF ReleaseOrphan, Now, IInv, TypeOK
<1>2. t.pend \in SUBSET Servers
  BY <1>1, TaskFields
<1>3. Tail(todo) \in Seq(Plain)
  <2>1. todo \notin Seq(Plain)
    BY <1>1, PlainSeq DEF Plain, Urgent
  <2> QED BY <1>1, <2>1 DEF IInv, UrgentFirst
<1>4. PICK v \in t.pend :
        /\ server' = [server EXCEPT ![v].st = "AVAILABLE", ![v].by = None, ![v].cool = FALSE]
        /\ Do(Rest(t, v))
  BY DEF ReleaseOrphan
<1>5. UNCHANGED <<search, match, acks, fakes, fakeOn, reads, crashes>>
  BY <1>4 DEF ReleaseOrphan, Do
<1> DEFINE u == [t EXCEPT !.pend = @ \ {v}]
<1>6. u \in Task /\ u.op = "orphan" /\ u.op \in Urgent /\ u.pend = t.pend \ {v}
  BY <1>1, <1>2 DEF Task, Urgent
<1>7. todo' = Tail(todo) \/ todo' = <<u>> \o Tail(todo)
  BY <1>3, <1>4, PlainSeq DEF Do, Rest
<1>8. server' \in [Servers -> ServerType]
  <2>1. server \in [Servers -> ServerType] /\ server[v] \in ServerType
    BY <1>2 DEF IInv, TypeOK
  <2>2. [server[v] EXCEPT !.st = "AVAILABLE", !.by = None, !.cool = FALSE] \in ServerType
    BY <2>1 DEF ServerType
  <2> QED BY <1>2, <1>4, <2>1, <2>2
<1>9. HeldServerIsReserved'
  <2> SUFFICES ASSUME NEW m \in MatchIds, Needs(m, match[m].sv)
               PROVE  /\ match[m].sv # None /\ server'[match[m].sv].st = "RESERVED"
                      /\ server'[match[m].sv].by = m
    BY <1>5 DEF HeldServerIsReserved, Needs, AcceptRequired
  <2>1. match[m].sv # None /\ server[match[m].sv].st = "RESERVED" /\ server[match[m].sv].by = m
    BY DEF IInv, HeldServerIsReserved, Needs
  <2>2. match[m].sv # v
    BY <1>1, <1>4 DEF IInv, SweepIsSafe
  <2>3. match[m].sv \in Servers
    BY <2>1 DEF IInv, TypeOK, MatchType
  <2> QED BY <1>4, <2>1, <2>2, <2>3 DEF IInv, TypeOK
<1> HIDE DEF u
<1>10. CASE todo' = Tail(todo)
  <2>1. TypeOK'
    BY <1>3, <1>5, <1>8, <1>10, PlainSeq DEF IInv, TypeOK
  <2> QED BY <1>3, <1>9, <1>10, <2>1, PlainStep
<1>11. CASE todo' = <<u>> \o Tail(todo)
  <2>1. /\ UrgentFirst' /\ todo' \in Seq(Task)
        /\ todo' # <<>> /\ Head(todo') = u /\ Tail(todo') = Tail(todo)
    BY <1>3, <1>6, <1>11, UrgentTask
  <2>2. TypeOK'
    BY <1>5, <1>8, <2>1 DEF IInv, TypeOK
  <2>3. SetIsSafe' /\ ReleaseIsSafe'
    BY <1>6, <2>1 DEF SetIsSafe, ReleaseIsSafe
  <2>4. SweepIsSafe'
    BY <1>1, <1>5, <1>6, <2>1 DEF IInv, SweepIsSafe, Needs, AcceptRequired
  <2> QED BY <1>9, <2>1, <2>2, <2>3, <2>4 DEF IInv
<1> QED BY <1>7, <1>10, <1>11

\* a step that gives no server to a match and leaves only plain tasks
LEMMA MatchStep ==
  ASSUME IInv, UNCHANGED server, search' \in [SearchIds -> SearchType], match' \in [MatchIds -> MatchType],
         \A m \in MatchIds : match'[m].st \in Holding /\ AcceptRequired(m)'
           => match[m].st \in Holding /\ AcceptRequired(m) /\ match'[m].sv = match[m].sv,
         todo' \in Seq(Plain), acks' \subseteq MatchIds, UNCHANGED <<fakes, fakeOn, reads, crashes>>
  PROVE  IInv'
<1>1. TypeOK'
  BY PlainSeq DEF IInv, TypeOK
<1>2. HeldServerIsReserved'
  BY HeldKept DEF IInv
<1> QED BY <1>1, <1>2, PlainStep

\* the absent rows have the types of their columns
LEMMA NoRowTypes == NoSearch \in SearchType /\ NoMatch \in MatchType
BY ChoicesAssumption DEF NoSearch, SearchType, NoMatch, MatchType, MapOrNone

\* the retention timer deletes finished rows only, none of a match that holds a server
LEMMA DeleteOldStep == IInv /\ DeleteOld => IInv'
<1> SUFFICES ASSUME IInv, DeleteOld PROVE IInv' OBVIOUS
<1>1. \A tasks \in Seq(Plain) : Do(tasks) => todo' \in Seq(Plain)
  BY PlainHead DEF DeleteOld, Now, IInv, Urgent
<1>2. /\ search' = [s \in SearchIds |-> IF s \in OldRows THEN NoSearch ELSE search[s]]
      /\ match' = [m \in MatchIds |-> IF m \in OldMatches THEN NoMatch ELSE match[m]]
      /\ Do(<<>>) /\ UNCHANGED <<server, acks>>
  BY DEF DeleteOld
<1>3. todo' \in Seq(Plain)
  BY <1>1, <1>2, OneTask
<1>4. search' \in [SearchIds -> SearchType] /\ match' \in [MatchIds -> MatchType] /\ acks' \subseteq MatchIds
  BY <1>2, NoRowTypes DEF IInv, TypeOK
<1>5. \A m \in MatchIds : match'[m].st \in Holding => match'[m] = match[m]
  BY <1>2 DEF NoMatch, Holding
<1>6. \A m \in MatchIds : match'[m].st \in Holding /\ AcceptRequired(m)'
        => match[m].st \in Holding /\ AcceptRequired(m) /\ match'[m].sv = match[m].sv
  BY <1>5 DEF AcceptRequired
<1> QED BY <1>2, <1>3, <1>4, <1>6, MatchStep DEF Do

-----------------------------------------------------------------------------
(* The steps that take a match apart. *)

\* memberLeft may send a FULL match back to FORMING, and never one that holds a server
LEMMA MemberLeftStep == IInv /\ MemberLeft => IInv'
<1> SUFFICES ASSUME IInv, MemberLeft PROVE IInv' OBVIOUS
<1> DEFINE t == Head(todo)
<1>1. t \in Plain /\ t.op = "left" /\ \A tasks \in Seq(Plain) : Do(tasks) => todo' \in Seq(Plain)
  BY PlainHead DEF MemberLeft, Now, IInv, Urgent
<1>2. t.m \in MatchIds
  BY <1>1, TaskFields DEF Plain
<1>3. todo' \in Seq(Plain)
  <2>1. Do(Dissolve(t.m)) \/ Do(<<>>)
    BY DEF MemberLeft
  <2> QED BY <1>1, <1>2, <2>1, EndTasks, OneTask
<1>4. match' = match \/ match' = [match EXCEPT ![t.m].st = "FORMING", ![t.m].fake = 0, ![t.m].prof = None]
  BY DEF MemberLeft
<1>5. match' \in [MatchIds -> MatchType]
  <2>1. match \in [MatchIds -> MatchType] /\ match[t.m] \in MatchType
    BY <1>2 DEF IInv, TypeOK
  <2>2. [match[t.m] EXCEPT !.st = "FORMING", !.fake = 0, !.prof = None] \in MatchType
    BY <2>1 DEF MatchType, Gathering
  <2> QED BY <1>2, <1>4, <2>1, <2>2
<1>6. \A m \in MatchIds : match'[m].st \in Holding => match'[m] = match[m]
  BY <1>2, <1>4 DEF IInv, TypeOK, Holding, MatchType
<1>7. \A m \in MatchIds : match'[m].st \in Holding /\ AcceptRequired(m)'
        => match[m].st \in Holding /\ AcceptRequired(m) /\ match'[m].sv = match[m].sv
  BY <1>6 DEF AcceptRequired
<1>8. UNCHANGED <<search, server, acks, fakes, fakeOn, reads, crashes>>
  BY DEF MemberLeft, Do
<1>9. search' \in [SearchIds -> SearchType] /\ acks' \subseteq MatchIds
  BY <1>8 DEF IInv, TypeOK
<1> QED BY <1>3, <1>5, <1>7, <1>8, <1>9, MatchStep

\* what may stand behind the task that ends or releases a match
LEMMA BehindEnd ==
  ASSUME IInv, todo # <<>>, Head(todo).op \in {"end", "release"}
  PROVE  /\ Head(todo) \in Task
         /\ \/ Tail(todo) \in Seq(Plain)
            \/ Tail(todo) # <<>> /\ Head(Tail(todo)).op = "set" /\ Tail(Tail(todo)) \in Seq(Plain)
         /\ Tail(todo) \in Seq(Task)
<1>1. Head(todo) \in Task /\ Tail(todo) \in Seq(Task)
  BY HeadTailProperties DEF IInv, TypeOK
<1>2. todo \in Seq(Plain) => Tail(todo) \in Seq(Plain)
  BY PlainSeq
<1> QED BY <1>1, <1>2 DEF IInv, UrgentFirst

\* dissolve puts the players back one by one, the end of the match still in front
LEMMA DissolveRowStep == IInv /\ DissolveRow => IInv'
<1> SUFFICES ASSUME IInv, DissolveRow PROVE IInv' OBVIOUS
<1> DEFINE t == Head(todo)
<1>1. todo # <<>> /\ t.op = "end"
  BY DEF DissolveRow, Now
<1>2. /\ t \in Task
      /\ \/ Tail(todo) \in Seq(Plain)
         \/ Tail(todo) # <<>> /\ Head(Tail(todo)).op = "set" /\ Tail(Tail(todo)) \in Seq(Plain)
      /\ Tail(todo) \in Seq(Task)
  BY <1>1, BehindEnd
<1>3. PICK s \in t.pend : Unplace(s) /\ Do(<<[t EXCEPT !.pend = @ \ {s}]>>)
  BY DEF DissolveRow
<1> DEFINE u == [t EXCEPT !.pend = @ \ {s}]
<1>4. u \in Task /\ u.op = "end" /\ u.m = t.m /\ t.pend \in SUBSET SearchIds
  BY <1>1, <1>2 DEF Task
<1>5. todo' = <<u>> \o Tail(todo)
  BY <1>3 DEF Do
<1> HIDE DEF u
<1>6. todo' # <<>> /\ Head(todo') = u /\ Tail(todo') = Tail(todo)
  BY <1>2, <1>5, Cons
<1>7. UNCHANGED <<match, server, acks, fakes, fakeOn, reads, crashes>>
  BY <1>3 DEF DissolveRow, Do
<1>8. TypeOK'
  <2>1. search' \in [SearchIds -> SearchType]
    BY <1>3, <1>4, SearchTypes DEF IInv
  <2>2. todo' \in Seq(Task)
    BY <1>2, <1>4, <1>5
  <2> QED BY <1>7, <2>1, <2>2 DEF IInv, TypeOK
<1>9. HeldServerIsReserved'
  BY <1>7, HeldKept DEF IInv, AcceptRequired
<1>10. UrgentFirst'
  <2>1. CASE Tail(todo) \in Seq(Plain)
    <3>1. u \in Plain
      BY <1>4 DEF Plain, Urgent
    <3>2. todo' \in Seq(Plain)
      BY <1>5, <2>1, <3>1, OneTask, PlainSeq
    <3> QED BY <3>2 DEF UrgentFirst
  <2>2. CASE Tail(todo) # <<>> /\ Head(Tail(todo)).op = "set" /\ Tail(Tail(todo)) \in Seq(Plain)
    BY <1>4, <1>6, <2>2 DEF UrgentFirst
  <2> QED BY <1>2, <2>1, <2>2
<1>11. SetIsSafe'
  BY <1>1, <1>4, <1>6, <1>7 DEF IInv, SetIsSafe, Needs, AcceptRequired
<1>12. ReleaseIsSafe' /\ SweepIsSafe'
  BY <1>4, <1>6 DEF ReleaseIsSafe, SweepIsSafe
<1> QED BY <1>8, <1>9, <1>10, <1>11, <1>12 DEF IInv

\* the match ends first: from then on it does not need its server any more
LEMMA EndStep == IInv /\ End => IInv'
<1> SUFFICES ASSUME IInv, End PROVE IInv' OBVIOUS
<1> DEFINE t == Head(todo)
           u == [op |-> "release", m |-> t.m, free |-> t.free]
<1>1. todo # <<>> /\ t.op = "end"
  BY DEF End, Now
<1>2. /\ t \in Task
      /\ \/ Tail(todo) \in Seq(Plain)
         \/ Tail(todo) # <<>> /\ Head(Tail(todo)).op = "set" /\ Tail(Tail(todo)) \in Seq(Plain)
      /\ Tail(todo) \in Seq(Task)
  BY <1>1, BehindEnd
<1>3. t.m \in MatchIds /\ t.st \in Over /\ t.free \in {"cool", "now", "keep"}
  BY <1>1, <1>2, TaskFields
<1>4. /\ match' = [match EXCEPT ![t.m].st = IF @ \in Gathering \cup Holding THEN t.st ELSE @]
      /\ acks' = acks \ {t.m}
      /\ Do(IF match[t.m].sv = None \/ t.free = "keep" THEN <<>> ELSE <<u>>)
      /\ UNCHANGED <<search, server>>
  BY DEF End
<1>5. UNCHANGED <<fakes, fakeOn, reads, crashes>>
  BY <1>4 DEF Do
<1>6. \/ todo' = Tail(todo)
      \/ t.free \in {"cool", "now"} /\ todo' = <<u>> \o Tail(todo)
  BY <1>2, <1>3, <1>4 DEF Do
<1>7. match' \in [MatchIds -> MatchType] /\ match'[t.m].st \notin Holding
      /\ \A m \in MatchIds : m # t.m => match'[m] = match[m]
  <2> DEFINE row == [match[t.m] EXCEPT !.st = IF @ \in Gathering \cup Holding THEN t.st ELSE @]
  <2>1. match \in [MatchIds -> MatchType] /\ match[t.m] \in MatchType
    BY <1>3 DEF IInv, TypeOK
  <2>2. row \in MatchType /\ row.st \notin Holding
    BY <1>3, <2>1 DEF MatchType, Gathering, Holding, Over
  <2>3. match' = [match EXCEPT ![t.m] = row]
    BY <1>4
  <2> QED BY <1>3, <2>1, <2>2, <2>3
<1>8. \A m \in MatchIds, v \in Servers : Needs(m, v)' => Needs(m, v) /\ m # t.m
  BY <1>7 DEF Needs, AcceptRequired
<1>9. HeldServerIsReserved'
  <2>1. \A m \in MatchIds : match'[m].st \in Holding /\ AcceptRequired(m)'
          => match[m].st \in Holding /\ AcceptRequired(m) /\ match'[m].sv = match[m].sv
    BY <1>7 DEF AcceptRequired
  <2> QED BY <1>4, <2>1, HeldKept DEF IInv
<1>10. ASSUME todo' \in Seq(Task) PROVE TypeOK'
  BY <1>4, <1>5, <1>7, <1>10 DEF IInv, TypeOK
<1>11. ASSUME Tail(todo) # <<>>, Head(Tail(todo)).op = "set"
       PROVE  \A m \in MatchIds, v \in Servers : Needs(m, v)' => Head(Tail(todo)).v # v
  BY <1>1, <1>8, <1>11 DEF IInv, SetIsSafe
<1>12. CASE todo' = Tail(todo)
  <2>1. CASE Tail(todo) \in Seq(Plain)
    BY <1>2, <1>9, <1>10, <1>12, <2>1, PlainStep
  <2>2. CASE Tail(todo) # <<>> /\ Head(Tail(todo)).op = "set" /\ Tail(Tail(todo)) \in Seq(Plain)
    <3>1. UrgentFirst'
      BY <1>12, <2>2 DEF UrgentFirst, Urgent
    <3>2. SetIsSafe'
      BY <1>11, <1>12, <2>2 DEF SetIsSafe
    <3>3. ReleaseIsSafe' /\ SweepIsSafe'
      BY <1>12, <2>2 DEF ReleaseIsSafe, SweepIsSafe
    <3> QED BY <1>2, <1>9, <1>10, <1>12, <3>1, <3>2, <3>3 DEF IInv
  <2> QED BY <1>2, <2>1, <2>2
<1>13. CASE t.free \in {"cool", "now"} /\ todo' = <<u>> \o Tail(todo)
  <2>1. u \in Task /\ u.op = "release" /\ u.m = t.m
    BY <1>3, <1>13 DEF Task
  <2> HIDE DEF u
  <2>2. todo' # <<>> /\ Head(todo') = u /\ Tail(todo') = Tail(todo)
    BY <1>2, <1>13, Cons
  <2>3. todo' \in Seq(Task)
    BY <1>2, <1>13, <2>1
  <2>4. UrgentFirst'
    BY <1>2, <2>1, <2>2 DEF UrgentFirst, Urgent
  <2>5. SetIsSafe'
    <3>1. \A m \in MatchIds, v \in Servers :
            Needs(m, v)' /\ Tail(todo) # <<>> /\ Head(Tail(todo)).op = "set" => Head(Tail(todo)).v # v
      BY <1>11
    <3> QED BY <2>1, <2>2, <3>1 DEF SetIsSafe
  <2>6. ReleaseIsSafe' /\ SweepIsSafe'
    BY <1>7, <2>1, <2>2 DEF ReleaseIsSafe, SweepIsSafe
  <2> QED BY <1>9, <1>10, <2>3, <2>4, <2>5, <2>6 DEF IInv
<1> QED BY <1>6, <1>12, <1>13

\* only the server of the match that ended is released, and only if it is still reserved for it
LEMMA ReleaseStep == IInv /\ Release => IInv'
<1> SUFFICES ASSUME IInv, Release PROVE IInv' OBVIOUS
<1> DEFINE t == Head(todo)
           v == match[t.m].sv
<1>1. todo # <<>> /\ t.op = "release"
  BY DEF Release, Now
<1>2. /\ t \in Task
      /\ \/ Tail(todo) \in Seq(Plain)
         \/ Tail(todo) # <<>> /\ Head(Tail(todo)).op = "set" /\ Tail(Tail(todo)) \in Seq(Plain)
      /\ Tail(todo) \in Seq(Task)
  BY <1>1, BehindEnd
<1>3. t.m \in MatchIds /\ match[t.m].st \notin Holding
  BY <1>1, <1>2, TaskFields DEF IInv, ReleaseIsSafe
<1>4. /\ server' = IF server[v].by = t.m
                   THEN [server EXCEPT ![v].st = "AVAILABLE", ![v].by = None, ![v].cool = (t.free = "cool")]
                   ELSE server
      /\ Do(<<>>)
      /\ UNCHANGED <<search, match, acks>>
  BY DEF Release
<1>5. todo' = Tail(todo) /\ UNCHANGED <<search, match, acks, fakes, fakeOn, reads, crashes>>
  <2>1. <<>> \o Tail(todo) = Tail(todo)
    BY <1>2
  <2> QED BY <1>4, <2>1 DEF Do
<1>6. server' \in [Servers -> ServerType]
  <2> DEFINE row == [server[v] EXCEPT !.st = "AVAILABLE", !.by = None, !.cool = (t.free = "cool")]
  <2>1. server \in [Servers -> ServerType]
    BY DEF IInv, TypeOK
  <2>2. v \in Servers => row \in ServerType
    <3>1. v \in Servers => server[v] \in ServerType
      BY <2>1
    <3>2. (t.free = "cool") \in BOOLEAN
      OBVIOUS
    <3> QED BY <3>1, <3>2 DEF ServerType
  <2>3. server' = server \/ server' = [server EXCEPT ![v] = row]
    BY <1>4
  <2> HIDE DEF row, v
  <2> QED BY <2>1, <2>2, <2>3
<1>7. TypeOK'
  BY <1>2, <1>5, <1>6 DEF IInv, TypeOK
<1>8. HeldServerIsReserved'
  <2> SUFFICES ASSUME NEW m \in MatchIds, match[m].st \in Holding, AcceptRequired(m)
               PROVE  /\ match[m].sv # None /\ server'[match[m].sv].st = "RESERVED"
                      /\ server'[match[m].sv].by = m
    BY <1>5 DEF HeldServerIsReserved, AcceptRequired
  <2>1. match[m].sv # None /\ server[match[m].sv].st = "RESERVED" /\ server[match[m].sv].by = m
    BY DEF IInv, HeldServerIsReserved
  <2>2. m # t.m /\ match[m].sv \in Servers
    BY <1>3, <2>1 DEF IInv, TypeOK, MatchType
  <2>3. server' = server \/ match[m].sv # v
    BY <1>4, <2>1, <2>2
  <2>4. server'[match[m].sv] = server[match[m].sv]
    BY <1>4, <2>2, <2>3 DEF IInv, TypeOK
  <2> QED BY <2>1, <2>4
<1>9. CASE Tail(todo) \in Seq(Plain)
  BY <1>5, <1>7, <1>8, <1>9, PlainStep
<1>10. CASE Tail(todo) # <<>> /\ Head(Tail(todo)).op = "set" /\ Tail(Tail(todo)) \in Seq(Plain)
  <2>1. UrgentFirst'
    BY <1>5, <1>10 DEF UrgentFirst, Urgent
  <2>2. \A m \in MatchIds, w \in Servers : Needs(m, w) => Head(Tail(todo)).v # w
    BY <1>1, <1>3, <1>10 DEF IInv, SetIsSafe, Needs
  <2>3. SetIsSafe'
    BY <1>5, <1>10, <2>2 DEF SetIsSafe, Needs, AcceptRequired
  <2>4. ReleaseIsSafe' /\ SweepIsSafe'
    BY <1>5, <1>10 DEF ReleaseIsSafe, SweepIsSafe
  <2> QED BY <1>7, <1>8, <2>1, <2>3, <2>4 DEF IInv
<1> QED BY <1>2, <1>9, <1>10

\* a server is set or deleted only when the match it was reserved for is over
LEMMA SetServerStep == IInv /\ SetServer => IInv'
<1> SUFFICES ASSUME IInv, SetServer PROVE IInv' OBVIOUS
<1> DEFINE t == Head(todo)
<1>1. t \in Task /\ t.op = "set" /\ todo # <<>>
  BY HeadTailProperties DEF SetServer, Now, IInv, TypeOK
<1>2. t.v \in Servers /\ t.st \in Wish
  BY <1>1, TaskFields
<1>3. Tail(todo) \in Seq(Plain)
  <2>1. todo \notin Seq(Plain)
    BY <1>1, PlainSeq DEF Plain, Urgent
  <2> QED BY <1>1, <2>1 DEF IInv, UrgentFirst
<1>4. /\ server' = [server EXCEPT ![t.v].st = t.st, ![t.v].by = None, ![t.v].cool = FALSE]
      /\ Do(<<>>) /\ UNCHANGED <<search, match, acks>>
  BY DEF SetServer
<1>5. todo' = Tail(todo) /\ UNCHANGED <<search, match, acks, fakes, fakeOn, reads, crashes>>
  BY <1>3, <1>4 DEF Do
<1>6. server' \in [Servers -> ServerType] /\ \A v \in Servers : v # t.v => server'[v] = server[v]
  <2>1. server \in [Servers -> ServerType] /\ server[t.v] \in ServerType
    BY <1>2 DEF IInv, TypeOK
  <2>2. [server[t.v] EXCEPT !.st = t.st, !.by = None, !.cool = FALSE] \in ServerType
    BY <1>2, <2>1 DEF ServerType, Wish
  <2> QED BY <1>2, <1>4, <2>1, <2>2
<1>7. TypeOK'
  BY <1>3, <1>5, <1>6, PlainSeq DEF IInv, TypeOK
<1>8. HeldServerIsReserved'
  <2> SUFFICES ASSUME NEW m \in MatchIds, match[m].st \in Holding, AcceptRequired(m)
               PROVE  /\ match[m].sv # None /\ server'[match[m].sv].st = "RESERVED"
                      /\ server'[match[m].sv].by = m
    BY <1>5 DEF HeldServerIsReserved, AcceptRequired
  <2>1. match[m].sv # None /\ server[match[m].sv].st = "RESERVED" /\ server[match[m].sv].by = m
    BY DEF IInv, HeldServerIsReserved
  <2>2. match[m].sv \in Servers
    BY <2>1 DEF IInv, TypeOK, MatchType
  <2>3. Needs(m, match[m].sv)
    BY DEF Needs
  <2>4. match[m].sv # t.v
    BY <1>1, <2>2, <2>3 DEF IInv, SetIsSafe
  <2> QED BY <1>6, <2>1, <2>2, <2>4
<1> QED BY <1>3, <1>5, <1>7, <1>8, PlainStep

-----------------------------------------------------------------------------
(* The steps of runMatcher. *)

\* a match that place creates holds no reservation
LEMMA NewMatchStep ==
  ASSUME TypeOK, NEW m \in MatchIds, NEW mode \in Modes, NEW sv \in Servers \cup {None},
         NEW map \in MapOrNone, match' = [match EXCEPT ![m] = NewMatch(mode, sv, map)]
  PROVE  /\ match' \in [MatchIds -> MatchType]
         /\ \A o \in MatchIds : match'[o].st \in Holding => match'[o] = match[o]
<1>1. NewMatch(mode, sv, map) \in MatchType
  BY NoRowTypes DEF NewMatch, MatchType, Gathering
<1>2. NewMatch(mode, sv, map).st = "FORMING"
  BY DEF NewMatch, NoMatch
<1>3. match \in [MatchIds -> MatchType]
  BY DEF TypeOK
<1> QED BY <1>1, <1>2, <1>3 DEF Holding

\* place joins or creates a match that gathers, and reserves nothing
LEMMA PlaceSearchStep == IInv /\ PlaceSearch => IInv'
<1> SUFFICES ASSUME IInv, PlaceSearch PROVE IInv' OBVIOUS
<1> DEFINE t == Head(todo)
<1>1. t \in Plain /\ t.op = "place" /\ \A tasks \in Seq(Plain) : Do(tasks) => todo' \in Seq(Plain)
  BY PlainHead DEF PlaceSearch, Now, IInv, Urgent
<1>2. PICK s \in t.pend : PlaceAccept(s, Rest(t, s)) \/ PlaceClassic(s, Rest(t, s))
  BY DEF PlaceSearch
<1>3. s \in SearchIds /\ search[s].ask.mode \in Modes
  <2>1. s \in SearchIds
    BY <1>1, TaskFields DEF Plain
  <2>2. search[s].ask \in Choices
    BY <2>1 DEF IInv, TypeOK, SearchType
  <2> QED BY <2>1, <2>2, ChoicesAssumption
<1>4. Rest(t, s) \in Seq(Plain)
  BY <1>1, LoopTasks DEF Looping
<1>5. \A m \in MatchIds : Join(m, s) \o Rest(t, s) \in Seq(Plain)
  BY <1>3, <1>4, MatchTasks, PlainSeq
<1>6. FreshMatches \in SUBSET MatchIds /\ Joinable(s) \in SUBSET MatchIds
  BY DEF FreshMatches, Joinable
<1> HIDE DEF t
<1>7. /\ \/ Do(Rest(t, s)) \/ \E m \in MatchIds : Do(Join(m, s) \o Rest(t, s))
      /\ \/ UNCHANGED match
         \/ \E m \in MatchIds, mode \in Modes, v \in Servers \cup {None}, map \in MapOrNone :
              match' = [match EXCEPT ![m] = NewMatch(mode, v, map)]
  <2>1. CASE PlaceAccept(s, Rest(t, s))
    <3>1. None \in Servers \cup {None} /\ NoMap \in MapOrNone
      BY DEF MapOrNone
    <3> QED BY <1>3, <1>6, <2>1, <3>1 DEF PlaceAccept
  <2>2. CASE PlaceClassic(s, Rest(t, s))
    <3>1. \A v \in Servers : server[v].mode \in Modes /\ server[v].map \in MapOrNone
      BY DEF IInv, TypeOK, ServerType
    <3>2. Pickable(s) \in SUBSET Servers
      BY DEF Pickable
    <3> QED BY <1>6, <2>2, <3>1, <3>2 DEF PlaceClassic
  <2> QED BY <1>2, <2>1, <2>2
<1>8. todo' \in Seq(Plain)
  BY <1>1, <1>4, <1>5, <1>7
<1>9. /\ match' \in [MatchIds -> MatchType]
      /\ \A o \in MatchIds : match'[o].st \in Holding => match'[o] = match[o]
  <2>1. CASE UNCHANGED match
    BY <2>1 DEF IInv, TypeOK
  <2>2. CASE \E m \in MatchIds, mode \in Modes, v \in Servers \cup {None}, map \in MapOrNone :
               match' = [match EXCEPT ![m] = NewMatch(mode, v, map)]
    BY <2>2, NewMatchStep DEF IInv
  <2> QED BY <1>7, <2>1, <2>2
<1>10. \A m \in MatchIds : match'[m].st \in Holding /\ AcceptRequired(m)'
         => match[m].st \in Holding /\ AcceptRequired(m) /\ match'[m].sv = match[m].sv
  BY <1>9 DEF AcceptRequired
<1>11. UNCHANGED <<search, server, acks, fakes, fakeOn, reads, crashes>>
  BY <1>7 DEF PlaceSearch, Do
<1>12. search' \in [SearchIds -> SearchType] /\ acks' \subseteq MatchIds
  BY <1>11 DEF IInv, TypeOK
<1> QED BY <1>8, <1>9, <1>10, <1>11, <1>12, MatchStep

\* completeMatch makes an Accept match FULL, never READY
LEMMA CompleteMatchStep == IInv /\ CompleteMatch => IInv'
<1> SUFFICES ASSUME IInv, CompleteMatch PROVE IInv' OBVIOUS
<1> DEFINE t == Head(todo)
           m == t.m
           row == [match[m] EXCEPT !.st = CASE @ = "FORMING" /\ AcceptRequired(m) -> "FULL"
                                            [] @ \in Gathering /\ ~AcceptRequired(m) -> "READY"
                                            [] OTHER -> @]
<1>1. t \in Plain /\ t.op = "full" /\ \A tasks \in Seq(Plain) : Do(tasks) => todo' \in Seq(Plain)
  BY PlainHead DEF CompleteMatch, Now, IInv, Urgent
<1>2. m \in MatchIds
  BY <1>1, TaskFields DEF Plain
<1>3. match' = [match EXCEPT ![m] = row] /\ UNCHANGED <<search, server, acks>>
  BY DEF CompleteMatch
<1>4. Do(Loop("reserve", {m})) \/ Do(Assign(m))
  BY DEF CompleteMatch
<1>5. todo' \in Seq(Plain)
  <2>1. {m} \in SUBSET MatchIds
    BY <1>2
  <2>2. Loop("reserve", {m}) \in Seq(Plain) /\ Assign(m) \in Seq(Plain)
    BY <1>2, <2>1, LoopTasks, MatchTasks
  <2> QED BY <1>1, <1>4, <2>2
<1>6. match \in [MatchIds -> MatchType] /\ match[m] \in MatchType
  BY <1>2 DEF IInv, TypeOK
<1>7. row \in MatchType /\ (row.st \in Holding /\ AcceptRequired(m) => row = match[m]) /\ row.mode = match[m].mode
  BY <1>6 DEF MatchType, Gathering, Holding
<1> HIDE DEF row
<1>8. match' \in [MatchIds -> MatchType]
  BY <1>2, <1>3, <1>6, <1>7
<1>9. \A o \in MatchIds : match'[o].st \in Holding /\ AcceptRequired(o)'
        => match[o].st \in Holding /\ AcceptRequired(o) /\ match'[o].sv = match[o].sv
  BY <1>2, <1>3, <1>6, <1>7 DEF AcceptRequired
<1>10. search' \in [SearchIds -> SearchType] /\ acks' \subseteq MatchIds
  BY <1>3 DEF IInv, TypeOK
<1> QED BY <1>3, <1>4, <1>5, <1>8, <1>9, <1>10, MatchStep DEF Do

\* applyFakeProfiles writes the virtual players of a gathering match only
LEMMA FillMatchStep == IInv /\ FillMatch => IInv'
<1> SUFFICES ASSUME IInv, FillMatch PROVE IInv' OBVIOUS
<1> DEFINE t == Head(todo)
<1>1. t \in Plain /\ t.op = "fill" /\ \A tasks \in Seq(Plain) : Do(tasks) => todo' \in Seq(Plain)
  BY PlainHead DEF FillMatch, Now, IInv, Urgent
<1>2. t.pend \in SUBSET MatchIds
  BY <1>1, TaskFields DEF Plain
<1> DEFINE Real(m) == Cardinality(LiveRows(m))
           Filled(m, p) == [match EXCEPT ![m].prof = p,
                              ![m].fake = Least(fakes[p].players, Required[match[m].mode] - Real(m))]
<1>3. PICK m \in t.pend :
        \/ Do(Rest(t, m)) /\ UNCHANGED match
        \/ /\ ~(Real(m) = 0 \/ Real(m) >= Required[match[m].mode] \/ Fitting(m) = {})
           /\ \E p \in Best(Fitting(m)) : match' = Filled(m, p)
           /\ Do(<<[op |-> "full", m |-> m]>> \o Rest(t, m))
  BY DEF FillMatch
<1>4. m \in MatchIds
  BY <1>2
<1>5. UNCHANGED <<search, server, acks, fakes, fakeOn, reads, crashes>>
  BY <1>3 DEF FillMatch, Do
<1>6. Rest(t, m) \in Seq(Plain)
  BY <1>1, LoopTasks DEF Looping
<1>7. todo' \in Seq(Plain)
  <2>1. <<[op |-> "full", m |-> m]>> \o Rest(t, m) \in Seq(Plain)
    BY <1>4, <1>6, MatchTasks, PlainSeq
  <2> QED BY <1>1, <1>3, <1>6, <2>1
<1>8. /\ match' \in [MatchIds -> MatchType]
      /\ \A o \in MatchIds : match'[o].st = match[o].st /\ match'[o].sv = match[o].sv /\ match'[o].mode = match[o].mode
  <2>1. match \in [MatchIds -> MatchType] /\ match[m] \in MatchType
    BY <1>4 DEF IInv, TypeOK
  <2>2. CASE UNCHANGED match
    BY <2>1, <2>2
  <2>3. ASSUME ~(Real(m) = 0 \/ Real(m) >= Required[match[m].mode]), NEW p \in Best(Fitting(m)),
               match' = Filled(m, p)
        PROVE  /\ match' \in [MatchIds -> MatchType]
               /\ \A o \in MatchIds : /\ match'[o].st = match[o].st /\ match'[o].sv = match[o].sv
                                      /\ match'[o].mode = match[o].mode
    <3>1. p \in ProfileIds /\ fakes[p] # None /\ fakes[p].mode = match[m].mode
      BY DEF Best, Fitting
    <3>2. fakes[p] \in Profiles
      BY <3>1 DEF IInv, TypeOK
    <3>3. fakes[p].players \in Nat /\ match[m].mode \in Modes
      BY <3>1, <3>2, ProfilesAssumption, ModesAssumption
    <3>4. Required[match[m].mode] \in Nat
      BY <3>3, ModesAssumption
    <3>5. Real(m) \in Nat
      <4>1. LiveRows(m) \in SUBSET SearchIds
        BY DEF LiveRows
      <4> QED BY <4>1, FiniteAssumption, FS_Subset, FS_CardinalityType
    <3> DEFINE n == Least(fakes[p].players, Required[match[m].mode] - Real(m))
               row == [match[m] EXCEPT !.prof = p, !.fake = n]
    <3> HIDE DEF Real
    <3>6. n \in Nat
      BY <2>3, <3>3, <3>4, <3>5 DEF Least
    <3>7. match' = [match EXCEPT ![m] = row]
      BY <2>3
    <3> HIDE DEF n
    <3>8. row \in MatchType /\ row.st = match[m].st /\ row.sv = match[m].sv /\ row.mode = match[m].mode
      BY <2>1, <3>1, <3>6 DEF MatchType
    <3> HIDE DEF row
    <3> QED BY <1>4, <2>1, <3>7, <3>8
  <2> HIDE DEF Filled
  <2> QED BY <1>3, <2>2, <2>3
<1>9. \A o \in MatchIds : match'[o].st \in Holding /\ AcceptRequired(o)'
        => match[o].st \in Holding /\ AcceptRequired(o) /\ match'[o].sv = match[o].sv
  BY <1>8 DEF AcceptRequired
<1>10. search' \in [SearchIds -> SearchType] /\ acks' \subseteq MatchIds
  BY <1>5 DEF IInv, TypeOK
<1> QED BY <1>5, <1>7, <1>8, <1>9, <1>10, MatchStep

\* the transaction: the server was not RESERVED, so no other match loses it
LEMMA ReserveServerStep == IInv /\ ReserveServer => IInv'
<1> SUFFICES ASSUME IInv, ReserveServer PROVE IInv' OBVIOUS
<1> DEFINE t == Head(todo)
<1>1. t \in Plain /\ t.op = "reserve" /\ \A tasks \in Seq(Plain) : Do(tasks) => todo' \in Seq(Plain)
  BY PlainHead DEF ReserveServer, Now, IInv, Urgent
<1>2. PICK m \in t.pend :
        \/ /\ match[m].st # "FULL" \/ Candidates(m) = {}
           /\ Do(Rest(t, m)) /\ UNCHANGED <<match, server>>
        \/ /\ match[m].st = "FULL"
           /\ \E v \in Candidates(m) :
                /\ server' = [server EXCEPT ![v].st = "RESERVED", ![v].by = m, ![v].cool = FALSE]
                /\ match' = [match EXCEPT ![m].st = "READY", ![m].sv = v, ![m].map = server[v].map]
                /\ Do((IF v \in reads THEN <<>> ELSE Assign(m)) \o Rest(t, m))
  BY DEF ReserveServer
<1>3. m \in MatchIds
  BY <1>1, TaskFields DEF Plain
<1>4. UNCHANGED <<search, acks, fakes, fakeOn, reads, crashes>>
  BY <1>2 DEF ReserveServer, Do
<1>5. search' \in [SearchIds -> SearchType] /\ acks' \subseteq MatchIds
  BY <1>4 DEF IInv, TypeOK
<1>6. Rest(t, m) \in Seq(Plain)
  BY <1>1, LoopTasks DEF Looping
<1>7. CASE Do(Rest(t, m)) /\ UNCHANGED <<match, server>>
  <2>1. todo' \in Seq(Plain)
    BY <1>1, <1>6, <1>7
  <2> QED BY <1>4, <1>5, <1>7, <2>1, SearchStep
<1>8. ASSUME match[m].st = "FULL", NEW v \in Candidates(m),
             server' = [server EXCEPT ![v].st = "RESERVED", ![v].by = m, ![v].cool = FALSE],
             match' = [match EXCEPT ![m].st = "READY", ![m].sv = v, ![m].map = server[v].map],
             Do((IF v \in reads THEN <<>> ELSE Assign(m)) \o Rest(t, m))
      PROVE  IInv'
  <2>1. v \in Servers /\ server[v].st = "AVAILABLE"
    BY DEF Candidates, Free
  <2>2. (IF v \in reads THEN <<>> ELSE Assign(m)) \in Seq(Plain)
    BY <1>3, MatchTasks, OneTask
  <2>3. (IF v \in reads THEN <<>> ELSE Assign(m)) \o Rest(t, m) \in Seq(Plain)
    BY <1>6, <2>2, PlainSeq
  <2>4. todo' \in Seq(Plain)
    BY <1>1, <1>8, <2>3
  <2>5. server \in [Servers -> ServerType] /\ match \in [MatchIds -> MatchType]
    BY DEF IInv, TypeOK
  <2>6. [server[v] EXCEPT !.st = "RESERVED", !.by = m, !.cool = FALSE] \in ServerType
    BY <1>3, <2>1, <2>5 DEF ServerType
  <2>7. [match[m] EXCEPT !.st = "READY", !.sv = v, !.map = server[v].map] \in MatchType
    BY <1>3, <2>1, <2>5 DEF ServerType, MatchType, Holding
  <2>8. server' \in [Servers -> ServerType] /\ match' \in [MatchIds -> MatchType]
    BY <1>3, <1>8, <2>1, <2>5, <2>6, <2>7
  <2>9. TypeOK'
    BY <1>4, <1>5, <2>4, <2>8, PlainSeq DEF IInv, TypeOK
  <2>10. HeldServerIsReserved'
    <3> SUFFICES ASSUME NEW o \in MatchIds, match'[o].st \in Holding, AcceptRequired(o)'
                 PROVE  /\ match'[o].sv # None /\ server'[match'[o].sv].st = "RESERVED"
                        /\ server'[match'[o].sv].by = o
      BY DEF HeldServerIsReserved
    <3>1. CASE o = m
      <4>1. match'[m].sv = v
        BY <1>3, <1>8, <2>5 DEF MatchType
      <4>2. server'[v].st = "RESERVED" /\ server'[v].by = m
        BY <1>8, <2>1, <2>5 DEF ServerType
      <4> QED BY <2>1, <3>1, <4>1, <4>2, NoneAssumption
    <3>2. CASE o # m
      <4>1. match'[o] = match[o]
        BY <1>3, <1>8, <2>5, <3>2
      <4>2. match[o].sv # None /\ server[match[o].sv].st = "RESERVED" /\ server[match[o].sv].by = o
        BY <4>1 DEF IInv, HeldServerIsReserved, AcceptRequired
      <4>3. match[o].sv \in Servers
        BY <2>5, <4>2 DEF MatchType
      <4>4. server'[match[o].sv] = server[match[o].sv]
        BY <1>8, <2>1, <2>5, <4>2, <4>3
      <4> QED BY <4>1, <4>2, <4>4
    <3> QED BY <3>1, <3>2
  <2> QED BY <2>4, <2>9, <2>10, PlainStep
<1> QED BY <1>2, <1>7, <1>8

\* a match that holds its server may go on to another status that does
LEMMA StatusStep ==
  ASSUME IInv, NEW m \in MatchIds, NEW st \in Holding, match[m].st \in Holding,
         match' = match \/ match' = [match EXCEPT ![m].st = st],
         todo' \in Seq(Plain), UNCHANGED <<search, server, acks, fakes, fakeOn, reads, crashes>>
  PROVE  IInv'
<1>1. match \in [MatchIds -> MatchType] /\ match[m] \in MatchType
  BY DEF IInv, TypeOK
<1>2. [match[m] EXCEPT !.st = st] \in MatchType
  BY <1>1 DEF MatchType
<1>3. match' \in [MatchIds -> MatchType]
  BY <1>1, <1>2
<1>4. \A o \in MatchIds : match'[o].st \in Holding /\ AcceptRequired(o)'
        => match[o].st \in Holding /\ AcceptRequired(o) /\ match'[o].sv = match[o].sv
  <2>1. \A o \in MatchIds : /\ match'[o].mode = match[o].mode /\ match'[o].sv = match[o].sv
                            /\ match'[o].st = match[o].st \/ o = m
    BY <1>1 DEF MatchType
  <2> QED BY <2>1 DEF AcceptRequired
<1>5. search' \in [SearchIds -> SearchType] /\ acks' \subseteq MatchIds
  BY DEF IInv, TypeOK
<1> QED BY <1>3, <1>4, <1>5, MatchStep

\* startAccepting goes from READY to ACCEPTING, the server stays
LEMMA StartAcceptingStep == IInv /\ StartAccepting => IInv'
<1> SUFFICES ASSUME IInv, StartAccepting PROVE IInv' OBVIOUS
<1> DEFINE t == Head(todo)
<1>1. t \in Plain /\ t.op = "assign" /\ \A tasks \in Seq(Plain) : Do(tasks) => todo' \in Seq(Plain)
  BY PlainHead DEF StartAccepting, Now, IInv, Urgent
<1>2. t.m \in MatchIds
  BY <1>1, TaskFields DEF Plain
<1>3. Do(<<[op |-> "accepted", m |-> t.m]>>) \/ Do(<<>>)
  BY DEF StartAccepting
<1>4. todo' \in Seq(Plain)
  BY <1>1, <1>2, <1>3, MatchTasks, OneTask
<1>5. UNCHANGED <<search, server, acks, fakes, fakeOn, reads, crashes>>
  BY DEF StartAccepting, Do
<1>6. \/ match' = match
      \/ match[t.m].st = "READY" /\ match' = [match EXCEPT ![t.m].st = "ACCEPTING"]
  BY DEF StartAccepting
<1>7. CASE match' = match
  <2>1. search' \in [SearchIds -> SearchType] /\ acks' \subseteq MatchIds
    BY <1>5 DEF IInv, TypeOK
  <2> QED BY <1>4, <1>5, <1>7, <2>1, SearchStep
<1>8. CASE match[t.m].st = "READY" /\ match' = [match EXCEPT ![t.m].st = "ACCEPTING"]
  BY <1>2, <1>4, <1>5, <1>8, StatusStep DEF Holding
<1> QED BY <1>6, <1>7, <1>8

\* markAccepted goes from READY or ACCEPTING to ACCEPTED, the server stays
LEMMA MarkAcceptedStep == IInv /\ MarkAccepted => IInv'
<1> SUFFICES ASSUME IInv, MarkAccepted PROVE IInv' OBVIOUS
<1> DEFINE t == Head(todo)
<1>1. t \in Plain /\ t.op = "accepted" /\ \A tasks \in Seq(Plain) : Do(tasks) => todo' \in Seq(Plain)
  BY PlainHead DEF MarkAccepted, Now, IInv, Urgent
<1>2. t.m \in MatchIds
  BY <1>1, TaskFields DEF Plain
<1>3. Do(<<[op |-> "connect", m |-> t.m]>>)
  BY DEF MarkAccepted
<1>4. todo' \in Seq(Plain)
  BY <1>1, <1>2, <1>3, MatchTasks
<1>5. UNCHANGED <<search, server, acks, fakes, fakeOn, reads, crashes>>
  BY DEF MarkAccepted, Do
<1>6. match' = [match EXCEPT ![t.m].st = IF @ \in {"READY", "ACCEPTING"} THEN "ACCEPTED" ELSE @]
  BY DEF MarkAccepted
<1>7. CASE match[t.m].st \in {"READY", "ACCEPTING"}
  <2>1. match' = [match EXCEPT ![t.m].st = "ACCEPTED"]
    BY <1>6, <1>7
  <2> QED BY <1>2, <1>4, <1>5, <1>7, <2>1, StatusStep DEF Holding
<1>8. CASE match[t.m].st \notin {"READY", "ACCEPTING"}
  <2>1. match' = match
    BY <1>2, <1>6, <1>8 DEF IInv, TypeOK, MatchType
  <2>2. search' \in [SearchIds -> SearchType] /\ acks' \subseteq MatchIds
    BY <1>5 DEF IInv, TypeOK
  <2> QED BY <1>4, <1>5, <2>1, <2>2, SearchStep
<1> QED BY <1>7, <1>8

-----------------------------------------------------------------------------
(* The handlers. *)

\* a handler that only puts plain tasks, or none, before it reads or writes anything
LEMMA BeginStep ==
  ASSUME IInv, NEW tasks \in Seq(Plain), Begin(tasks), UNCHANGED <<search, match, server, fakes, fakeOn>>,
         acks' \subseteq MatchIds, reads' \subseteq Servers
  PROVE  IInv'
<1>1. todo' = tasks /\ crashes' = crashes
  BY DEF Begin
<1>2. TypeOK'
  BY <1>1, PlainSeq DEF IInv, TypeOK
<1>3. HeldServerIsReserved'
  BY HeldKept DEF IInv, AcceptRequired
<1> QED BY <1>1, <1>2, <1>3, PlainStep

\* start queues plain tasks only
LEMMA StartStep ==
  ASSUME IInv, NEW a \in Accounts, NEW r \in Requests, NEW src \in Sources, NEW ask \in Choices,
         NEW party \in Parties[a], Start(a, r, src, ask, party)
  PROVE  IInv'
<1> DEFINE wanted == IF party = None THEN {} ELSE party \ {a}
           enter(s) == [op |-> "enter", a |-> a, r |-> r, src |-> src, ask |-> ask, pend |-> wanted, own |-> s,
                        m |-> IF s = None THEN None ELSE search[s].match,
                        acc |-> IF s = None THEN FALSE ELSE search[s].acc]
           sync(s) == [op |-> "sync", l |-> s, src |-> src, ask |-> ask, pend |-> wanted]
<1>1. wanted \in SUBSET Accounts
  BY NoneAssumption
<1>2. RowOf(a) \in SUBSET SearchIds /\ Abandoned(a) \in SUBSET MatchIds
  BY DEF RowOf, Abandoned
<1>3. Matcher \in Seq(Plain)
  BY ScanTasks
<1> HIDE DEF wanted
<1>4. ASSUME NEW s \in SearchIds PROVE <<sync(s)>> \in Seq(Plain)
  <2>1. sync(s) \in Plain
    BY <1>1 DEF Plain, Task, Urgent
  <2> HIDE DEF sync
  <2> QED BY <2>1, OneTask
<1>5. ASSUME NEW s \in SearchIds \cup {None} PROVE <<enter(s)>> \in Seq(Plain)
  <2> DEFINE m == IF s = None THEN None ELSE search[s].match
             acc == IF s = None THEN FALSE ELSE search[s].acc
  <2>1. m \in MatchIds \cup {None} /\ acc \in BOOLEAN
    BY DEF IInv, TypeOK, SearchType
  <2> HIDE DEF m, acc
  <2>2. [op |-> "enter", a |-> a, r |-> r, src |-> src, ask |-> ask, pend |-> wanted, own |-> s, m |-> m,
         acc |-> acc] \in Plain
    BY <1>1, <2>1 DEF Plain, Task, Urgent
  <2>3. enter(s) \in Plain
    BY <2>2 DEF m, acc
  <2> HIDE DEF enter
  <2> QED BY <2>3, OneTask
<1>6. \/ \E s \in RowOf(a) : Begin((IF party = None THEN <<>> ELSE <<sync(s)>>) \o Matcher)
      \/ \E s \in IF RowOf(a) = {} THEN {None} ELSE RowOf(a) :
           Begin(Loop("abandon", Abandoned(a)) \o <<enter(s)>> \o Matcher)
  BY DEF Start, wanted
<1>7. /\ UNCHANGED <<search, match, server, fakes, fakeOn>>
      /\ acks' \subseteq MatchIds /\ reads' \subseteq Servers
  BY DEF Start, IInv, TypeOK
<1> HIDE DEF sync, enter
<1>8. ASSUME NEW s \in RowOf(a), Begin((IF party = None THEN <<>> ELSE <<sync(s)>>) \o Matcher) PROVE IInv'
  <2>1. (IF party = None THEN <<>> ELSE <<sync(s)>>) \in Seq(Plain)
    BY <1>2, <1>4, OneTask
  <2>2. (IF party = None THEN <<>> ELSE <<sync(s)>>) \o Matcher \in Seq(Plain)
    BY <1>3, <2>1, PlainSeq
  <2> QED BY <1>7, <1>8, <2>2, BeginStep
<1>9. ASSUME NEW s \in IF RowOf(a) = {} THEN {None} ELSE RowOf(a),
             Begin(Loop("abandon", Abandoned(a)) \o <<enter(s)>> \o Matcher)
      PROVE  IInv'
  <2>1. <<enter(s)>> \in Seq(Plain)
    BY <1>2, <1>5
  <2>2. Loop("abandon", Abandoned(a)) \in Seq(Plain)
    BY <1>2, LoopTasks
  <2>3. Loop("abandon", Abandoned(a)) \o <<enter(s)>> \in Seq(Plain)
    BY <2>1, <2>2, PlainSeq
  <2>4. Loop("abandon", Abandoned(a)) \o <<enter(s)>> \o Matcher \in Seq(Plain)
    BY <1>3, <2>3, PlainSeq
  <2> QED BY <1>7, <1>9, <2>4, BeginStep
<1> QED BY <1>6, <1>8, <1>9

\* poll, cancel and remove queue plain tasks only
LEMMA LeaveCallStep ==
  ASSUME IInv, NEW s \in SearchIds
  PROVE  /\ Poll(s) => IInv'
         /\ Remove(s) => IInv'
         /\ \A r : Cancel(s, r) => IInv'
<1>1. Matcher \in Seq(Plain)
  BY ScanTasks
<1>2. {s} \in SUBSET SearchIds /\ {"CANCELLED", "REMOVED"} \subseteq Finished
  BY DEF Finished
<1>3. \A st \in {"CANCELLED", "REMOVED"} : Leave({s}, st, TRUE) \o Matcher \in Seq(Plain)
  BY <1>1, <1>2, LeaveTasks, PlainSeq
<1>4. acks \subseteq MatchIds /\ reads \subseteq Servers
  BY DEF IInv, TypeOK
<1>5. Poll(s) => IInv'
  BY <1>1, <1>4, BeginStep DEF Poll
<1>6. Remove(s) => IInv'
  BY <1>3, <1>4, BeginStep DEF Remove
<1>7. \A r : Cancel(s, r) => IInv'
  BY <1>3, <1>4, BeginStep DEF Cancel
<1> QED BY <1>5, <1>6, <1>7

\* accept writes the acceptance of one search
LEMMA AcceptStep ==
  ASSUME IInv, NEW s \in SearchIds, NEW r, Accept(s, r)
  PROVE  IInv'
<1> DEFINE m == search[s].match
           everybody == \A o \in LiveRows(m) : ~MustAccept(o) \/ o = s \/ search[o].acc
           first == IF everybody THEN <<[op |-> "accepted", m |-> m]>> ELSE <<>>
<1>1. m \in MatchIds /\ search[s] \in SearchType
  BY DEF Accept, IInv, TypeOK, SearchType
<1>2. first \in Seq(Plain)
  BY <1>1, MatchTasks, OneTask
<1>3. Matcher \in Seq(Plain)
  BY ScanTasks
<1>4. search' = [search EXCEPT ![s].acc = TRUE] /\ Begin(first \o Matcher)
      /\ UNCHANGED <<match, server, fakes, fakeOn, acks, reads>>
  BY DEF Accept
<1> HIDE DEF first
<1>5. first \o Matcher \in Seq(Plain)
  BY <1>2, <1>3, PlainSeq
<1>6. search' \in [SearchIds -> SearchType]
  <2>1. [search[s] EXCEPT !.acc = TRUE] \in SearchType
    BY <1>1 DEF SearchType
  <2> QED BY <1>4, <2>1 DEF IInv, TypeOK
<1>7. todo' \in Seq(Plain) /\ crashes' = crashes
  BY <1>4, <1>5 DEF Begin
<1>8. acks' \subseteq MatchIds
  BY <1>4 DEF IInv, TypeOK
<1> QED BY <1>4, <1>6, <1>7, <1>8, SearchStep

\* rosterForServer and confirmRoster write what is kept in memory
LEMMA RosterStep ==
  ASSUME IInv, NEW v \in Servers
  PROVE  /\ RosterForServer(v) => IInv'
         /\ \A m \in MatchIds : ConfirmRoster(v, m) => IInv'
<1>1. acks \subseteq MatchIds /\ reads \subseteq Servers
  BY DEF IInv, TypeOK
<1>2. RosterForServer(v) => IInv'
  BY <1>1, OneTask, BeginStep DEF RosterForServer
<1>3. ASSUME NEW m \in MatchIds, ConfirmRoster(v, m) PROVE IInv'
  <2>1. /\ Begin(Assign(m)) \/ Begin(<<>>)
        /\ UNCHANGED <<search, match, server, fakes, fakeOn>>
        /\ reads' \subseteq Servers /\ acks' \subseteq MatchIds
    BY <1>1, <1>3 DEF ConfirmRoster
  <2>2. Assign(m) \in Seq(Plain) /\ <<>> \in Seq(Plain)
    BY MatchTasks, OneTask
  <2> QED BY <2>1, <2>2, BeginStep
<1> QED BY <1>2, <1>3

\* the task that sets a server is urgent, and the end of its match, if any, stands in front of it
LEMMA SetFreedIsSafe ==
  ASSUME IInv, todo = <<>>, NEW v \in Servers, NEW st \in Wish, NEW q \in Seq(Plain),
         Begin(SetFreed(v, st) \o q), UNCHANGED <<match, fakes, fakeOn, acks, reads>>,
         search' = search, server' \in [Servers -> ServerType],
         \A w \in Servers : server'[w].st = server[w].st /\ server'[w].by = server[w].by
  PROVE  IInv'
<1> DEFINE m == server[v].by
           t == [op |-> "set", v |-> v, st |-> st]
           unfinished == \/ match[m].st \in Gathering
                         \/ AcceptRequired(m) /\ match[m].st \in {"READY", "ACCEPTING"}
           first == CASE m # None /\ unfinished -> Dissolve(m)
                      [] m # None /\ ~unfinished /\ match[m].st \in Holding -> EndMatch(m, "keep")
                      [] OTHER -> <<>>
<1>1. t \in Task /\ t.op = "set" /\ t.v = v
  BY DEF Task
<1>2. m \in MatchIds \cup {None}
  BY DEF IInv, TypeOK, ServerType
<1>3. todo' = (first \o <<t>>) \o q /\ crashes' = crashes
  BY DEF Begin, SetFreed
<1>4. \/ first = <<>> /\ ~(m # None /\ match[m].st \in Holding)
      \/ m # None /\ first = Dissolve(m)
      \/ m # None /\ first = EndMatch(m, "keep")
  OBVIOUS
<1>5. \A o \in MatchIds, w \in Servers : /\ Needs(o, w)' => Needs(o, w)
                                         /\ Needs(o, w) => server[w].by = o /\ match[o].st \in Holding
  BY DEF Needs, IInv, HeldServerIsReserved, AcceptRequired
<1>6. HeldServerIsReserved'
  BY HeldKept DEF IInv, AcceptRequired
<1>7. q \in Seq(Task)
  BY PlainSeq
<1>8. ASSUME todo' \in Seq(Task) PROVE TypeOK'
  BY <1>3, <1>8 DEF IInv, TypeOK
<1> HIDE DEF t, first, unfinished
<1>9. CASE first = <<>> /\ ~(m # None /\ match[m].st \in Holding)
  <2>1. todo' = <<t>> \o q
    <3>1. <<>> \o <<t>> = <<t>>
      OBVIOUS
    <3> QED BY <1>3, <1>9, <3>1
  <2>2. /\ UrgentFirst' /\ todo' \in Seq(Task)
        /\ todo' # <<>> /\ Head(todo') = t /\ Tail(todo') = q
    BY <1>1, <2>1, UrgentTask DEF Urgent
  <2>3. \A o \in MatchIds : ~Needs(o, v)'
    BY <1>5, <1>9, NoneAssumption
  <2>4. SetIsSafe' /\ ReleaseIsSafe' /\ SweepIsSafe'
    BY <1>1, <2>2, <2>3 DEF SetIsSafe, ReleaseIsSafe, SweepIsSafe
  <2> QED BY <1>6, <1>8, <2>2, <2>4 DEF IInv
<1>10. CASE m # None /\ (first = Dissolve(m) \/ first = EndMatch(m, "keep"))
  <2>1. PICK u \in Plain : first = <<u>> /\ u.op = "end" /\ u.m = m
    <3>1. m \in MatchIds
      BY <1>2, <1>10
    <3>2. first \in Seq(Plain) /\ Len(first) = 1 /\ Head(first).op = "end" /\ Head(first).m = m
      BY <1>10, <3>1, EndTasks
    <3>3. Head(first) \in Plain /\ first = <<Head(first)>>
      BY <3>2
    <3> QED BY <3>2, <3>3
  <2>2. u \in Task
    BY DEF Plain
  <2> DEFINE rest == <<t>> \o q
  <2>3. rest \in Seq(Task) /\ rest # <<>> /\ Head(rest) = t /\ Tail(rest) = q
    BY <1>1, <1>7, Cons
  <2>4. todo' = <<u>> \o rest
    <3>1. <<u>> \in Seq(Task) /\ <<t>> \in Seq(Task)
      BY <1>1, <2>2
    <3> QED BY <1>3, <1>7, <2>1, <3>1, ConcatAssociative
  <2> HIDE DEF rest
  <2>5. /\ todo' \in Seq(Task) /\ todo' # <<>> /\ Head(todo') = u /\ Tail(todo') = rest
    BY <2>2, <2>3, <2>4, Cons
  <2>6. UrgentFirst'
    BY <1>1, <2>1, <2>3, <2>5 DEF UrgentFirst
  <2>7. SetIsSafe'
    BY <1>1, <1>5, <2>1, <2>3, <2>5 DEF SetIsSafe
  <2>8. ReleaseIsSafe' /\ SweepIsSafe'
    BY <2>1, <2>5 DEF ReleaseIsSafe, SweepIsSafe
  <2> QED BY <1>6, <1>8, <2>5, <2>6, <2>7, <2>8 DEF IInv
<1> QED BY <1>4, <1>9, <1>10

\* setState and delete of a server first end the match it is reserved for
LEMMA FreeServerStep ==
  ASSUME IInv, NEW v \in Servers
  PROVE  /\ \A st \in {"AVAILABLE", "BUSY"} : SetServerState(v, st) => IInv'
         /\ DeleteServer(v) => IInv'
<1>1. Matcher \in Seq(Plain) /\ {"AVAILABLE", "BUSY", "ABSENT"} \subseteq Wish
  BY ScanTasks DEF Wish
<1>2. server \in [Servers -> ServerType]
  BY DEF IInv, TypeOK
<1>3. ASSUME NEW st \in {"AVAILABLE", "BUSY"}, SetServerState(v, st) PROVE IInv'
  <2>1. /\ todo = <<>> /\ Begin(SetFreed(v, st) \o Matcher)
        /\ UNCHANGED <<search, match, server, fakes, fakeOn, acks, reads>>
    BY <1>3 DEF SetServerState, Begin
  <2> QED BY <1>1, <1>2, <2>1, SetFreedIsSafe
<1>4. ASSUME DeleteServer(v) PROVE IInv'
  <2>1. /\ todo = <<>> /\ Begin(SetFreed(v, "ABSENT"))
        /\ UNCHANGED <<search, match, server, fakes, fakeOn, acks, reads>>
    BY <1>4 DEF DeleteServer, Begin
  <2> DEFINE tasks == SetFreed(v, "ABSENT")
  <2>2. tasks \in Seq(Task)
    <3>1. server[v].by \in MatchIds \cup {None}
      BY <1>2 DEF ServerType
    <3>2. <<[op |-> "set", v |-> v, st |-> "ABSENT"]>> \in Seq(Task)
      BY <1>1 DEF Task
    <3>3. \A m \in MatchIds : Dissolve(m) \in Seq(Task) /\ EndMatch(m, "keep") \in Seq(Task)
      BY EndTasks, PlainSeq
    <3>4. <<>> \in Seq(Task)
      OBVIOUS
    <3>5. PICK first \in Seq(Task) : tasks = first \o <<[op |-> "set", v |-> v, st |-> "ABSENT"]>>
      BY <3>1, <3>3, <3>4 DEF SetFreed
    <3> QED BY <3>2, <3>5
  <2>3. Begin(tasks \o <<>>)
    <3>1. tasks \o <<>> = tasks
      BY <2>2
    <3> QED BY <2>1, <3>1
  <2> QED BY <1>1, <1>2, <2>1, <2>3, OneTask, SetFreedIsSafe
<1> QED BY <1>3, <1>4

\* a handler that writes the row of a server that is not RESERVED, or its other columns
LEMMA WriteServerStep ==
  ASSUME IInv, NEW tasks \in Seq(Plain), Begin(tasks), server' \in [Servers -> ServerType],
         \A w \in Servers : server[w].st = "RESERVED"
           => server'[w].st = server[w].st /\ server'[w].by = server[w].by,
         UNCHANGED <<search, match, fakes, fakeOn, acks, reads>>
  PROVE  IInv'
<1>1. todo' = tasks /\ crashes' = crashes
  BY DEF Begin
<1>2. TypeOK'
  BY <1>1, PlainSeq DEF IInv, TypeOK
<1>3. HeldServerIsReserved'
  BY HeldKept DEF IInv, AcceptRequired
<1> QED BY <1>1, <1>2, <1>3, PlainStep

\* create, update and setEnabled of a server, and the clocks, never touch a reservation
LEMMA EditStep ==
  ASSUME IInv, NEW v \in Servers
  PROVE  /\ \A setup \in Setups, on \in BOOLEAN : EditServer(v, setup, on) => IInv'
         /\ \A setup \in Setups, on \in BOOLEAN, st \in {"AVAILABLE", "BUSY"} :
              CreateServer(v, setup, st, on) => IInv'
         /\ \A on \in BOOLEAN : EnableServer(v, on) => IInv'
         /\ CooldownOver(v) => IInv'
         /\ PollWindowOver(v) => IInv'
<1>1. Matcher \in Seq(Plain) /\ <<>> \in Seq(Plain)
  BY ScanTasks, OneTask
<1>2. server \in [Servers -> ServerType] /\ server[v] \in ServerType
  BY DEF IInv, TypeOK
<1>3. ASSUME NEW setup \in Setups, NEW on \in BOOLEAN, EditServer(v, setup, on) PROVE IInv'
  <2>1. setup.mode \in Modes /\ setup.map \in MapOrNone
    BY FleetAssumption DEF MapOrNone
  <2>2. /\ server' = [server EXCEPT ![v].mode = setup.mode, ![v].map = setup.map, ![v].on = on]
        /\ Begin(Matcher) /\ UNCHANGED <<search, match, fakes, fakeOn, acks, reads>>
    BY <1>3 DEF EditServer
  <2>3. [server[v] EXCEPT !.mode = setup.mode, !.map = setup.map, !.on = on] \in ServerType
    BY <1>2, <2>1 DEF ServerType
  <2>4. /\ server' \in [Servers -> ServerType]
        /\ \A w \in Servers : server'[w].st = server[w].st /\ server'[w].by = server[w].by
    BY <1>2, <2>2, <2>3 DEF ServerType
  <2> QED BY <1>1, <2>2, <2>4, WriteServerStep
<1>4. ASSUME NEW setup \in Setups, NEW on \in BOOLEAN, NEW st \in {"AVAILABLE", "BUSY"},
             CreateServer(v, setup, st, on)
      PROVE  IInv'
  <2> DEFINE row == [st |-> st, by |-> None, cool |-> FALSE, on |-> on, mode |-> setup.mode, map |-> setup.map]
  <2>1. setup.mode \in Modes /\ setup.map \in MapOrNone
    BY FleetAssumption DEF MapOrNone
  <2>2. /\ server[v].st = "ABSENT" /\ server' = [server EXCEPT ![v] = row]
        /\ Begin(Matcher) /\ UNCHANGED <<search, match, fakes, fakeOn, acks, reads>>
    BY <1>4 DEF CreateServer
  <2>3. row \in ServerType
    BY <2>1 DEF ServerType
  <2> HIDE DEF row
  <2>4. /\ server' \in [Servers -> ServerType]
        /\ \A w \in Servers : server[w].st = "RESERVED" => server'[w] = server[w]
    BY <1>2, <2>2, <2>3
  <2> QED BY <1>1, <2>2, <2>4, WriteServerStep
<1>5. ASSUME NEW on \in BOOLEAN, EnableServer(v, on) PROVE IInv'
  <2>1. /\ server' = [server EXCEPT ![v].on = on]
        /\ Begin(Matcher) /\ UNCHANGED <<search, match, fakes, fakeOn, acks, reads>>
    BY <1>5 DEF EnableServer
  <2>2. [server[v] EXCEPT !.on = on] \in ServerType
    BY <1>2 DEF ServerType
  <2>3. /\ server' \in [Servers -> ServerType]
        /\ \A w \in Servers : server'[w].st = server[w].st /\ server'[w].by = server[w].by
    BY <1>2, <2>1, <2>2 DEF ServerType
  <2> QED BY <1>1, <2>1, <2>3, WriteServerStep
<1>6. ASSUME CooldownOver(v) PROVE IInv'
  <2>1. /\ server' = [server EXCEPT ![v].cool = FALSE]
        /\ Begin(<<>>) /\ UNCHANGED <<search, match, fakes, fakeOn, acks, reads>>
    BY <1>6 DEF CooldownOver
  <2>2. [server[v] EXCEPT !.cool = FALSE] \in ServerType
    BY <1>2 DEF ServerType
  <2>3. /\ server' \in [Servers -> ServerType]
        /\ \A w \in Servers : server'[w].st = server[w].st /\ server'[w].by = server[w].by
    BY <1>2, <2>1, <2>2 DEF ServerType
  <2> QED BY <1>1, <2>1, <2>3, WriteServerStep
<1>7. ASSUME PollWindowOver(v) PROVE IInv'
  <2>1. /\ Begin(<<>>) /\ UNCHANGED <<search, match, server, fakes, fakeOn>>
        /\ acks' \subseteq MatchIds /\ reads' \subseteq Servers
    BY <1>7 DEF PollWindowOver, IInv, TypeOK
  <2> QED BY <1>1, <2>1, BeginStep
<1> QED BY <1>3, <1>4, <1>5, <1>6, <1>7

\* the report of a game server: BUSY frees it, the rest touches no reservation
LEMMA ReportStep ==
  ASSUME IInv, NEW v \in Servers, NEW st \in {None, "AVAILABLE", "BUSY"},
         NEW map \in {server[v].map} \cup {k.map : k \in Setups}, Report(v, map, st)
  PROVE  IInv'
<1> DEFINE t == [op |-> "set", v |-> v, st |-> st]
<1>1. Matcher \in Seq(Plain) /\ {"AVAILABLE", "BUSY", "ABSENT"} \subseteq Wish
  BY ScanTasks DEF Wish
<1>2. server \in [Servers -> ServerType] /\ server[v] \in ServerType
  BY DEF IInv, TypeOK
<1>3. /\ todo = <<>> /\ server' = [server EXCEPT ![v].map = map]
      /\ UNCHANGED <<search, match, fakes, fakeOn, acks, reads>>
  BY DEF Report, Begin
<1>4. /\ server' \in [Servers -> ServerType]
      /\ \A w \in Servers : server'[w].st = server[w].st /\ server'[w].by = server[w].by
  <2>1. map \in MapOrNone
    BY <1>2, FleetAssumption DEF MapOrNone, ServerType
  <2>2. [server[v] EXCEPT !.map = map] \in ServerType
    BY <1>2, <2>1 DEF ServerType
  <2> QED BY <1>2, <1>3, <2>2 DEF ServerType
<1>5. \/ st = "BUSY" /\ Begin(SetFreed(v, "BUSY") \o Matcher)
      \/ st = "AVAILABLE" /\ server[v].st = "BUSY" /\ Begin(<<t>> \o Matcher)
      \/ Begin(<<>> \o Matcher)
  BY DEF Report
<1>6. CASE st = "BUSY" /\ Begin(SetFreed(v, "BUSY") \o Matcher)
  BY <1>1, <1>3, <1>4, <1>6, SetFreedIsSafe
<1>7. CASE st = "AVAILABLE" /\ server[v].st = "BUSY" /\ Begin(<<t>> \o Matcher)
  <2>1. t \in Task /\ t.op = "set" /\ t.v = v
    BY <1>1, <1>7 DEF Task
  <2> HIDE DEF t
  <2>2. todo' = <<t>> \o Matcher /\ crashes' = crashes
    BY <1>7 DEF Begin
  <2>3. /\ UrgentFirst' /\ todo' \in Seq(Task)
        /\ todo' # <<>> /\ Head(todo') = t /\ Tail(todo') = Matcher
    BY <1>1, <2>1, <2>2, UrgentTask DEF Urgent
  <2>4. TypeOK'
    BY <1>3, <1>4, <2>2, <2>3 DEF IInv, TypeOK
  <2>5. HeldServerIsReserved'
    BY <1>3, <1>4, HeldKept DEF IInv, AcceptRequired
  <2>6. \A m \in MatchIds : ~Needs(m, v)'
    BY <1>3, <1>7 DEF Needs, IInv, HeldServerIsReserved, AcceptRequired
  <2>7. SetIsSafe' /\ ReleaseIsSafe' /\ SweepIsSafe'
    BY <2>1, <2>3, <2>6 DEF SetIsSafe, ReleaseIsSafe, SweepIsSafe
  <2> QED BY <2>3, <2>4, <2>5, <2>7 DEF IInv
<1>8. CASE Begin(<<>> \o Matcher)
  <2>1. <<>> \o Matcher \in Seq(Plain)
    BY <1>1, OneTask, PlainSeq
  <2> QED BY <1>3, <1>4, <1>8, <2>1, WriteServerStep
<1> QED BY <1>5, <1>6, <1>7, <1>8

\* the Fake Players settings touch no match and no server
LEMMA SettingsStep ==
  ASSUME IInv
  PROVE  /\ \A on \in BOOLEAN : SetFakeMaster(on) => IInv'
         /\ \A p \in ProfileIds, profile \in Profiles \cup {None} : WriteProfile(p, profile) => IInv'
<1>1. Matcher \in Seq(Plain)
  BY ScanTasks
<1>2. ASSUME Begin(Matcher), UNCHANGED <<search, match, server, acks, reads>>,
             fakes' \in [ProfileIds -> Profiles \cup {None}], fakeOn' \in BOOLEAN
      PROVE  IInv'
  <2>1. todo' = Matcher /\ crashes' = crashes
    BY <1>2 DEF Begin
  <2>2. TypeOK'
    BY <1>1, <1>2, <2>1, PlainSeq DEF IInv, TypeOK
  <2>3. HeldServerIsReserved'
    BY <1>2, HeldKept DEF IInv, AcceptRequired
  <2> QED BY <1>1, <2>1, <2>2, <2>3, PlainStep
<1>3. \A on \in BOOLEAN : SetFakeMaster(on) => IInv'
  BY <1>2 DEF SetFakeMaster, IInv, TypeOK
<1>4. \A p \in ProfileIds, profile \in Profiles \cup {None} : WriteProfile(p, profile) => IInv'
  BY <1>2 DEF WriteProfile, IInv, TypeOK
<1> QED BY <1>3, <1>4

-----------------------------------------------------------------------------
(* Start, crash, and the whole next-state relation. *)

\* a crash loses the running handler and the memory, the tables stay as they are
LEMMA CrashStep == IInv /\ Crash => IInv'
<1> SUFFICES ASSUME IInv, Crash PROVE IInv' OBVIOUS
<1>1. /\ todo' = <<>> /\ acks' = {} /\ reads' = {} /\ crashes' = crashes + 1
      /\ UNCHANGED <<search, match, server, fakes, fakeOn>>
  BY DEF Crash
<1>2. TypeOK'
  BY <1>1 DEF IInv, TypeOK
<1>3. HeldServerIsReserved'
  BY <1>1, HeldKept DEF IInv, AcceptRequired
<1> QED BY <1>1, <1>2, <1>3, OneTask, PlainStep

\* the invariant holds in the initial state
LEMMA InitIInv == Init => IInv
<1> SUFFICES ASSUME Init PROVE IInv OBVIOUS
<1>1. search \in [SearchIds -> SearchType] /\ match \in [MatchIds -> MatchType]
  BY NoRowTypes DEF Init
<1>2. server \in [Servers -> ServerType]
  <2>1. \A v \in Servers : [st |-> "AVAILABLE", by |-> None, cool |-> FALSE, on |-> TRUE,
                            mode |-> Fleet[v].mode, map |-> Fleet[v].map] \in ServerType
    BY FleetAssumption DEF ServerType, MapOrNone
  <2> QED BY <2>1 DEF Init
<1>3. todo = <<>> /\ TypeOK
  BY <1>1, <1>2 DEF Init, TypeOK
<1>4. HeldServerIsReserved
  BY DEF Init, HeldServerIsReserved, NoMatch, Holding
<1> QED BY <1>3, <1>4, OneTask DEF IInv, UrgentFirst, SetIsSafe, ReleaseIsSafe, SweepIsSafe

\* the invariant is about the state only
LEMMA StutterIInv == IInv /\ UNCHANGED vars => IInv'
<1> SUFFICES ASSUME IInv, UNCHANGED vars PROVE IInv' OBVIOUS
<1>1. TypeOK' /\ UrgentFirst' /\ HeldServerIsReserved'
  BY DEF vars, IInv, TypeOK, UrgentFirst, HeldServerIsReserved, AcceptRequired
<1>2. SetIsSafe' /\ ReleaseIsSafe' /\ SweepIsSafe'
  BY DEF vars, IInv, SetIsSafe, ReleaseIsSafe, SweepIsSafe, Needs, AcceptRequired
<1> QED BY <1>1, <1>2 DEF IInv

\* every statement of a handler keeps the invariant
LEMMA StepIInv == IInv /\ Step => IInv'
BY ScanStep, BreakupStep, RetireStep, LapseStep, ReleaseOrphanStep, DeleteOldStep, LeaveRowStep,
   MemberLeftStep, DissolveRowStep, EndStep, ReleaseStep, SetServerStep, ReleaseAbandonedStep, EnterStep,
   SyncPartyStep, AddMemberStep, TagMemberStep, PlaceSearchStep, JoinMatchStep, GatherPartyStep,
   CompleteMatchStep, FillMatchStep, ReserveServerStep, PromoteMatchStep, AssignRowStep, StartAcceptingStep,
   MarkAcceptedStep, PromoteAcceptedStep
DEF Step

\* the start of every handler, with its first statement, keeps the invariant
LEMMA HandlerIInv == IInv /\ (Player \/ Operator \/ GameServer \/ FakePlayers \/ Time) => IInv'
<1> SUFFICES ASSUME IInv, Player \/ Operator \/ GameServer \/ FakePlayers \/ Time PROVE IInv' OBVIOUS
<1>1. CASE Player
  BY <1>1, StartStep, LeaveCallStep, AcceptStep DEF Player
<1>2. CASE Operator
  BY <1>2, FreeServerStep, EditStep DEF Operator
<1>3. CASE GameServer
  BY <1>3, RosterStep, ReportStep DEF GameServer
<1>4. CASE FakePlayers
  BY <1>4, SettingsStep DEF FakePlayers
<1>5. CASE Time
  <2>1. RunTick => IInv'
    <3>1. acks \subseteq MatchIds /\ reads \subseteq Servers
      BY DEF IInv, TypeOK
    <3> QED BY <3>1, ScanTasks, BeginStep DEF RunTick
  <2> QED BY <1>5, <2>1, EditStep DEF Time
<1> QED BY <1>1, <1>2, <1>3, <1>4, <1>5

\* the invariant is inductive
LEMMA NextIInv == IInv /\ [Next]_vars => IInv'
BY StepIInv, HandlerIInv, CrashStep, StutterIInv DEF Next

\* TypeCorrect: every row and every task of the running handler always has the type of its
\* columns and arguments, for any fleet, any players and parties and any number of restarts.
THEOREM TypeCorrect == Spec => []TypeOK
<1>1. IInv => TypeOK
  BY DEF IInv
<1> QED BY <1>1, InitIInv, NextIInv, PTL DEF Spec

\* ServerHeld: an Accept match that holds a server is never without its reservation, between any
\* two statements of any handler (reserveServer, dissolve, freeServer, the orphan timer) and
\* after a restart at any of them.
THEOREM ServerHeld == Spec => []HeldServerIsReserved
<1>1. IInv => HeldServerIsReserved
  BY DEF IInv
<1> QED BY <1>1, InitIInv, NextIInv, PTL DEF Spec

=============================================================================
