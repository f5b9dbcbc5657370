------------------------- MODULE PlayerSearchProofs -------------------------
(***************************************************************************)
(* Theorems about the matchmaking of one player's game, for any number of  *)
(* searches, matches, restarts and waiting events: the types; that no      *)
(* request of the game ends the search the player wants; and that what     *)
(* the player sees is what MatchOffer promises.                            *)
(***************************************************************************)
EXTENDS PlayerSearch, TLAPS

-----------------------------------------------------------------------------
(* Every part of the state has its type.                                   *)

Row == [rid : Searches \cup {0}, member : BOOLEAN, st : States, match : Ids \cup {0},
        accepted : BOOLEAN, missed : 0..Misses]
RowOK ==
  /\ row \in Row
  /\ ended \subseteq Searches /\ owner \in [Ids -> Searches \cup {0}] /\ ready \subseteq Ids
LateOK == late \subseteq [kind : {"register", "cancel", "accepted"}, rid : Searches]
Request == [kind : Kinds \cup {"none"}, rid : Searches \cup {0}, tries : 0..Attempts,
            code : {"none", "ok", "unknown", "refused"}, st : States \cup {"ENDED"},
            match : Ids \cup {0}, member : BOOLEAN, stalled : BOOLEAN]
RequestOK == w \in Request
Session == [rid : Searches \cup {0}, phase : {"Register", "Poll", "Done"},
            st : States \cup {"ENDED"}, match : Ids \cup {0}]
SessionOK ==
  /\ session \in Session
  /\ active \in Searches \cup {0} /\ adopted \in Searches \cup {0} /\ left \subseteq Searches
Job == [kind : {"cancel", "accepted", "snapshot"}, rid : Searches]
JobsOK == jobs \in Seq(Job) /\ Len(jobs) <= QueueLimit
InboxOK == inbox \in Seq(Events)
Gc == [pend : Ids \cup {0}, server : BOOLEAN, backend : BOOLEAN, popup : Ids \cup {0},
       active : BOOLEAN, mode : {"none", "accept", "classic"}, follows : BOOLEAN]
Arm == [on : BOOLEAN, for : Ids \cup {0}, seen : Ids \cup {0}]
GameOK ==
  /\ gc \in Gc /\ arm \in Arm
  /\ full \subseteq Ids /\ shown \subseteq Ids /\ joined \subseteq Ids
CountOK ==
  /\ count \in [own : 0..Own, party : 0..Parties, match : Ids \cup {0}, crash : 0..Restarts]
  /\ queued \in BOOLEAN /\ world \in Worlds

LEMMA Types ==
  TypeOK <=> RowOK /\ LateOK /\ RequestOK /\ SessionOK /\ JobsOK /\ InboxOK /\ GameOK /\ CountOK
BY DEF TypeOK, RowOK, Row, LateOK, RequestOK, Request, SessionOK, Session, JobsOK, Job, InboxOK, GameOK, Gc, Arm, CountOK

LEMMA TypesAfter ==
  (RowOK /\ LateOK /\ RequestOK /\ SessionOK /\ JobsOK /\ InboxOK /\ GameOK /\ CountOK)' => TypeOK'
BY DEF TypeOK, RowOK, Row, LateOK, RequestOK, Request, SessionOK, Session, JobsOK, Job, InboxOK, GameOK, Gc, Arm, CountOK

\* A search that is named is there, and a match is named exactly while there is one.
RowNamed ==
  /\ row.rid = 0 <=> row.st = "none"
  /\ row.rid = 0 => ~row.member
  /\ Assigned(row.st) <=> row.match # 0
SessionNamed == session.rid = active /\ (active = 0 => session.phase = "Done")
RequestNamed ==
  /\ w.kind \notin {"none", "account"} => w.rid # 0
  /\ w.code # "none" => w.kind \in {"register", "poll", "account"}
  /\ w.kind = "account" /\ w.code = "ok" => w.rid # 0
  /\ w.code # "none" => (Assigned(w.st) <=> w.match # 0)
ResultNamed(e) == e.kind = "result" => (Assigned(e.st) <=> e.match # 0)
InboxNamed == \A i \in DOMAIN inbox : ResultNamed(inbox[i])
Names == RowNamed /\ SessionNamed /\ RequestNamed /\ InboxNamed

\* the numbers of searches and matches
LEMMA Numbers ==
  /\ Searches \subseteq Nat \ {0} /\ Ids \subseteq Nat \ {0}
  /\ Own \in Nat /\ Parties \in Nat /\ Matches \in Nat /\ Misses \in Nat /\ Attempts \in Nat \ {0}
  /\ \A n \in 1..Own : n \in Searches
  /\ \A n \in 1..Parties : Own + n \in Searches
  /\ QueueLimit \in Nat \ {0}
BY BoundsAreNatural, LimitsArePositive DEF Searches, Ids

LEMMA Whole ==
  /\ \A x \in Searches \cup {0} : x \in Nat /\ x \in Int /\ x >= 0
  /\ \A x \in Searches : x \in Nat /\ x \in Int /\ x # 0 /\ x >= 1
  /\ \A x \in Ids \cup {0} : x \in Nat /\ x \in Int
  /\ \A x \in 0..Own : x \in Int /\ x <= Own
<1>1. ASSUME NEW x \in Searches PROVE x \in Nat /\ x \in Int /\ x # 0 /\ x >= 1
  BY Numbers
<1>2. ASSUME NEW x \in Ids PROVE x \in Nat /\ x \in Int
  BY Numbers
<1>3. ASSUME NEW x \in 0..Own PROVE x \in Int /\ x <= Own
  BY Numbers
<1> QED BY <1>1, <1>2, <1>3

LEMMA WorldType ==
  ASSUME CountOK
  PROVE  /\ world.own \in 0..Own /\ world.parties \in 0..Parties /\ world.restarts \in 0..Restarts
         /\ world.calm \in BOOLEAN /\ world.exact \in BOOLEAN /\ world.brief \in BOOLEAN /\ world.prompt \in BOOLEAN
         /\ world.refused \subseteq 1..Own
BY WorldsAreSwitches DEF CountOK

\* sequences that grow at the end and lose their head
LEMMA Appended ==
  ASSUME NEW S, NEW q \in Seq(S), NEW e \in S
  PROVE  /\ Append(q, e) \in Seq(S) /\ Len(Append(q, e)) = Len(q) + 1
         /\ \A i \in 1..Len(q) : Append(q, e)[i] = q[i]
         /\ Append(q, e)[Len(q) + 1] = e
OBVIOUS

LEMMA Tailed ==
  ASSUME NEW S, NEW q \in Seq(S), q # <<>>
  PROVE  /\ Tail(q) \in Seq(S) /\ Len(q) \in Nat \ {0} /\ Len(Tail(q)) = Len(q) - 1
         /\ Head(q) \in S /\ Head(q) = q[1]
         /\ \A i \in 1..Len(Tail(q)) : Tail(q)[i] = q[i + 1]
OBVIOUS

LEMMA EventKinds ==
  ASSUME NEW e \in Events
  PROVE  /\ e.kind \in {"start", "stop", "full", "result"}
         /\ e.kind = "start" => e.rid \in Searches
         /\ e.kind = "result" =>
              /\ e.rid \in Searches /\ e.st \in States \cup {"ENDED"} /\ e.match \in Ids \cup {0} /\ e.discovered \in BOOLEAN
BY DEF Events

-----------------------------------------------------------------------------
(* The backend.                                                            *)

LEMMA NoRowType ==
  /\ NoRow \in Row
  /\ NoRow.rid = 0 /\ NoRow.member = FALSE /\ NoRow.st = "none" /\ NoRow.match = 0 /\ NoRow.missed = 0
BY Numbers DEF NoRow, States, Row

LEMMA NewRowType ==
  ASSUME NEW r \in Searches, NEW b \in BOOLEAN
  PROVE  /\ NewRow(r, b) \in Row
         /\ NewRow(r, b).rid = r /\ NewRow(r, b).member = b /\ NewRow(r, b).st = "SEARCHING" /\ NewRow(r, b).match = 0
         /\ NewRow(r, b).missed = 0
<1>1. PICK z : z = NoRow
  OBVIOUS
<1>2. NewRow(r, b) = [z EXCEPT !.rid = r, !.member = b, !.st = "SEARCHING"]
  BY <1>1 DEF NewRow
<1>3. z \in Row /\ z.match = 0 /\ z.missed = 0
  BY <1>1, NoRowType
<1> QED BY <1>2, <1>3 DEF Row, States

\* What a request may do to the live search: it is refreshed or reported, replaced by a
\* search of the game, promoted, or ended.
Refreshed ==
  /\ row' \in Row /\ row'.rid = row.rid /\ row'.member = row.member /\ row'.st = row.st /\ row'.match = row.match
  /\ UNCHANGED <<ended, ready>>
Replaced(r) == r <= Own /\ r \notin world.refused /\ row.rid # r /\ row' = NewRow(r, row.member) /\ UNCHANGED <<ended, ready>>

LEMMA Calls ==
  ASSUME RowOK, NEW kind, NEW r \in Searches \cup {0}, Do(kind, r)
  PROVE  \/ Refreshed
         \/ kind = "register" /\ Replaced(r)
         \/ kind = "accepted" /\ row.rid = r /\ row.st = "WAITING_ACCEPT" /\ Promoted /\ UNCHANGED ended
         \/ kind = "cancel" /\ row.rid = r /\ Finish /\ UNCHANGED ready
<1>1. row \in Row
  BY DEF RowOK
<1>2. ASSUME UNCHANGED <<row, ended, ready>> PROVE Refreshed
  BY <1>1, <1>2 DEF Refreshed, Row
<1>3. ASSUME row' = Touched, UNCHANGED <<ended, ready>> PROVE Refreshed
  <2>1. CASE row.st = "SEARCHING"
    <3>1. row' = [row EXCEPT !.missed = 0] /\ 0 \in 0..Misses
      BY <1>3, <2>1, Numbers DEF Touched
    <3> QED BY <1>1, <1>3, <3>1 DEF Refreshed, Row
  <2>2. CASE row.st # "SEARCHING"
    BY <1>2, <1>3, <2>2 DEF Touched
  <2> QED BY <2>1, <2>2
<1>4. CASE kind = "register" /\ start(r)
  <2>1. r \in Int /\ Own \in Int
    BY Numbers
  <2>2. CASE r > Own \/ r \in world.refused \/ row.rid = r
    BY <1>2, <1>3, <1>4, <2>2 DEF start
  <2>3. CASE ~(r > Own \/ r \in world.refused \/ row.rid = r)
    BY <1>4, <2>1, <2>3 DEF start, Replaced
  <2> QED BY <2>2, <2>3
<1>5. CASE kind = "poll" /\ poll(r)
  BY <1>2, <1>3, <1>5 DEF poll
<1>6. CASE kind = "account" /\ pollAccount
  BY <1>3, <1>6 DEF pollAccount
<1>7. CASE kind = "cancel" /\ cancel(r)
  BY <1>2, <1>7 DEF cancel
<1>8. CASE kind = "accepted" /\ accept(r)
  <2>1. ASSUME row' = [row EXCEPT !.accepted = TRUE], UNCHANGED <<ended, ready>> PROVE Refreshed
    BY <1>1, <2>1 DEF Refreshed, Row
  <2> QED BY <1>2, <1>8, <2>1 DEF accept
<1>9. CASE kind = "snapshot" /\ UNCHANGED <<row, ended, ready>>
  BY <1>2, <1>9
<1> QED BY <1>4, <1>5, <1>6, <1>7, <1>8, <1>9 DEF Do

\* and what becomes of it
LEMMA AfterCall ==
  ASSUME RowOK, RowNamed, world.refused \subseteq 1..Own, NEW kind, NEW r \in Searches \cup {0}, Do(kind, r),
         kind \in {"register", "cancel"} => r # 0, UNCHANGED owner
  PROVE  RowOK' /\ RowNamed'
<1>1. row \in Row /\ ended \subseteq Searches /\ ready \subseteq Ids
  BY DEF RowOK
<1>2. CASE Refreshed
  BY <1>1, <1>2 DEF RowOK, RowNamed, Refreshed, Assigned
<1>3. CASE kind = "register" /\ Replaced(r)
  <2>1. r \in Searches /\ row.member \in BOOLEAN
    BY <1>1, <1>3 DEF Row
  <2>2. row' = NewRow(r, row.member) /\ UNCHANGED <<ended, ready>>
    BY <1>3 DEF Replaced
  <2> QED BY <1>1, <2>1, <2>2, NewRowType, Numbers DEF RowOK, RowNamed, Assigned
<1>4. CASE row.st = "WAITING_ACCEPT" /\ Promoted /\ UNCHANGED ended
  <2>1. row' \in Row /\ row'.rid = row.rid /\ row'.member = row.member /\ row'.match = row.match /\ row'.st = "READY_TO_CONNECT"
    BY <1>1, <1>4 DEF Promoted, Row, States
  <2>2. ready' \subseteq Ids /\ row.match # 0
    BY <1>1, <1>4 DEF Promoted, RowNamed, Assigned, Row
  <2> QED BY <1>1, <1>4, <2>1, <2>2 DEF RowOK, RowNamed, Assigned
<1>5. CASE row.rid = r /\ Finish /\ UNCHANGED ready /\ r # 0
  BY <1>1, <1>5, NoRowType DEF RowOK, RowNamed, Finish, Assigned
<1> QED BY <1>2, <1>3, <1>4, <1>5, Calls
LEMMA Ending ==
  ASSUME RowOK, row.rid # 0, Finish, UNCHANGED <<owner, ready>>
  PROVE  RowOK' /\ RowNamed'
BY NoRowType DEF RowOK, Row, RowNamed, Finish, Assigned

LEMMA BackendRow ==
  ASSUME TypeOK, Names, Backend
  PROVE  RowOK' /\ RowNamed'
<1>1. RowOK /\ LateOK /\ CountOK
  BY Types
<1>2. row \in Row /\ ended \subseteq Searches /\ ready \subseteq Ids /\ owner \in [Ids -> Searches \cup {0}]
  BY <1>1 DEF RowOK
<1>3. RowNamed
  BY DEF Names
<1>4. row.st # "none" => row.rid \in Searches
  BY <1>2, <1>3 DEF Row, RowNamed
<1>5. ASSUME NEW m \in Ids, Assign(m) PROVE RowOK' /\ RowNamed'
  <2>1. row.st = "SEARCHING" /\ owner' = [owner EXCEPT ![m] = row.rid] /\ UNCHANGED <<ended, ready>>
    BY <1>5 DEF Assign
  <2>2. PICK st \in {"WAITING_ACCEPT", "READY_TO_CONNECT"} : row' = [row EXCEPT !.match = m, !.missed = 0, !.st = st]
    BY <1>5 DEF Assign
  <2>3. st \in States /\ m # 0 /\ 0 \in 0..Misses
    BY Numbers DEF States
  <2>4. row' \in Row /\ row'.rid = row.rid /\ row'.st = st /\ row'.match = m
    BY <1>2, <2>2, <2>3 DEF Row
  <2>5. row.rid \in Searches /\ row.rid # 0
    BY <1>4, <2>1, Numbers
  <2>6. RowOK'
    BY <1>2, <2>1, <2>4, <2>5 DEF RowOK
  <2>7. RowNamed'
    BY <2>3, <2>4, <2>5 DEF RowNamed, Assigned
  <2> QED BY <2>6, <2>7
<1>6. CASE OthersAccept
  <2>1. UNCHANGED <<ended, owner>> /\ ready' = ready \cup {row.match} /\ row.match \in Ids
    BY <1>2, <1>3, <1>6 DEF OthersAccept, Promoted, RowNamed, Assigned, Row
  <2>2. row' = [row EXCEPT !.accepted = TRUE, !.st = "READY_TO_CONNECT"] /\ row.st = "WAITING_ACCEPT"
    BY <1>6 DEF OthersAccept, Promoted
  <2>3. row' \in Row /\ row'.rid = row.rid /\ row'.member = row.member /\ row'.match = row.match /\ row'.st = "READY_TO_CONNECT"
    BY <1>2, <2>2 DEF Row, States
  <2> QED BY <1>2, <1>3, <2>1, <2>2, <2>3 DEF RowOK, RowNamed, Assigned
<1>7. CASE Dissolve
  <2>1. row' = NewRow(row.rid, row.member) /\ row.rid \in Searches /\ row.member \in BOOLEAN /\ UNCHANGED <<ended, owner, ready>>
    BY <1>2, <1>4, <1>7 DEF Dissolve, Row
  <2> QED BY <1>2, <2>1, NewRowType, Numbers DEF RowOK, RowNamed, Assigned
<1>8. CASE Complete \/ Expire \/ Remove
  <2>1. row.rid # 0 /\ Finish /\ UNCHANGED <<owner, ready>>
    BY <1>4, <1>8, Numbers DEF Complete, Expire, Remove, Assigned
  <2> QED BY <1>1, <2>1, Ending
<1>9. CASE LeaderStarts
  <2>1. count.party \in 0..Parties /\ count.party < world.parties /\ world.parties \in 0..Parties
    BY <1>1, <1>9, WorldType DEF LeaderStarts, CountOK
  <2>2. count.party + 1 \in 1..Parties /\ Own + count.party + 1 = Own + (count.party + 1)
    BY <2>1, Numbers
  <2>3. Own + count.party + 1 \in Searches
    BY <2>2, Numbers
  <2>4. row' = NewRow(Own + count.party + 1, TRUE) /\ UNCHANGED <<owner, ready>>
    BY <1>9 DEF LeaderStarts
  <2>5. ended' \subseteq Searches
    BY <1>2, <1>9 DEF LeaderStarts, Row
  <2>6. PICK r : r = Own + count.party + 1
    OBVIOUS
  <2> QED BY <1>2, <2>3, <2>4, <2>5, <2>6, NewRowType, Numbers DEF RowOK, RowNamed, Assigned
<1>10. ASSUME NEW req \in late, ServeLate(req) PROVE RowOK' /\ RowNamed'
  <2>1. req.rid \in Searches
    BY <1>1, <1>10 DEF LateOK, ServeLate
  <2> QED BY <1>1, <1>3, <1>10, <2>1, AfterCall, WorldType, Numbers DEF ServeLate
<1> QED BY <1>5, <1>6, <1>7, <1>8, <1>9, <1>10 DEF Backend

\* What a step of the backend leaves alone, and how it counts.
LEMMA BackendFrame ==
  ASSUME TypeOK, Backend
  PROVE  UNCHANGED <<worker, inbox, game, full, world>> /\ LateOK' /\ CountOK'
<1>1. LateOK /\ CountOK
  BY Types
<1>2. ASSUME NEW m \in Ids, Assign(m) PROVE UNCHANGED <<worker, inbox, game, full, world>> /\ LateOK' /\ CountOK'
  BY <1>1, <1>2 DEF Assign, CountOK, LateOK
<1>3. CASE OthersAccept \/ Dissolve \/ Complete \/ Expire \/ Remove
  BY <1>1, <1>3 DEF OthersAccept, Dissolve, Complete, Expire, Remove, CountOK, LateOK
<1>4. CASE LeaderStarts
  <2>1. count.party \in 0..Parties /\ count.party < world.parties /\ world.parties \in 0..Parties
    BY <1>1, <1>4, WorldType DEF LeaderStarts, CountOK
  <2>2. count.party + 1 \in 0..Parties
    BY <2>1, Numbers
  <2> QED BY <1>1, <1>4, <2>2 DEF LeaderStarts, CountOK, LateOK
<1>5. ASSUME NEW req \in late, ServeLate(req) PROVE UNCHANGED <<worker, inbox, game, full, world>> /\ LateOK' /\ CountOK'
  BY <1>1, <1>5 DEF ServeLate, LateOK, CountOK
<1> QED BY <1>2, <1>3, <1>4, <1>5 DEF Backend

LEMMA BackendTypes ==
  ASSUME TypeOK, Names, Backend
  PROVE  TypeOK' /\ Names'
<1>1. RequestOK /\ SessionOK /\ JobsOK /\ InboxOK /\ GameOK
  BY Types
<1>2. RowOK' /\ RowNamed' /\ LateOK' /\ CountOK' /\ UNCHANGED <<worker, inbox, game, full, world>>
  BY BackendRow, BackendFrame
<1>3. UNCHANGED <<w, session, active, adopted, jobs, inbox, gc, arm, left, shown, joined, full>>
  BY <1>2 DEF worker, game
<1>4. RequestOK' /\ SessionOK' /\ JobsOK' /\ InboxOK' /\ GameOK'
  BY <1>1, <1>3 DEF RequestOK, SessionOK, JobsOK, InboxOK, GameOK
<1>5. SessionNamed' /\ RequestNamed' /\ InboxNamed'
  BY <1>3 DEF Names, SessionNamed, RequestNamed, InboxNamed, ResultNamed
<1> QED BY <1>2, <1>4, <1>5, TypesAfter DEF Names

-----------------------------------------------------------------------------
(* The worker.                                                             *)

LEMMA IdleType ==
  ASSUME NEW b \in BOOLEAN
  PROVE  /\ Idle(b) \in Request
         /\ Idle(b).kind = "none" /\ Idle(b).code = "none" /\ Idle(b).rid = 0 /\ Idle(b).match = 0 /\ Idle(b).st = "none"
<1>1. 0 \in 0..Attempts
  BY Numbers
<1> QED BY <1>1 DEF Idle, Request, States

\* the worker is idle again, or asks
LEMMA Idles ==
  ASSUME NEW b \in BOOLEAN, w' = Idle(b)
  PROVE  RequestOK' /\ RequestNamed'
BY IdleType DEF RequestOK, RequestNamed

LEMMA SentRequest ==
  ASSUME NEW kind \in Kinds, NEW r \in Searches \cup {0}, kind # "account" => r # 0, Send(kind, r)
  PROVE  /\ RequestOK' /\ RequestNamed' /\ w'.kind = kind /\ w'.rid = r /\ w'.code = "none"
         /\ w'.match = 0 /\ w'.st = "none"
<1>1. PICK z : z = Idle(FALSE)
  OBVIOUS
<1>2. w' = [z EXCEPT !.kind = kind, !.rid = r, !.tries = 1] /\ 1 \in 0..Attempts
  BY <1>1, Numbers DEF Send
<1>3. z \in Request /\ z.code = "none" /\ z.match = 0 /\ z.st = "none"
  BY <1>1, IdleType
<1>4. w' \in Request /\ w'.kind = kind /\ w'.rid = r /\ w'.code = "none" /\ w'.match = 0 /\ w'.st = "none"
  BY <1>2, <1>3 DEF Request
<1> QED BY <1>4 DEF RequestOK, RequestNamed

\* the queue of the worker keeps its limit
LEMMA Enqueued ==
  ASSUME JobsOK, NEW kind \in {"cancel", "accepted", "snapshot"}, NEW r \in Searches, Enqueue(kind, r)
  PROVE  /\ JobsOK'
         /\ \A i \in DOMAIN jobs' : (\E j \in DOMAIN jobs : jobs'[i] = jobs[j]) \/ (jobs'[i].kind = kind /\ jobs'[i].rid = r)
<1>1. PICK e : e = [kind |-> kind, rid |-> r]
  OBVIOUS
<1>2. e \in Job /\ e.kind = kind /\ e.rid = r
  BY <1>1 DEF Job
<1>3. PICK q : q = IF Len(jobs) >= QueueLimit THEN Tail(jobs) ELSE jobs
  OBVIOUS
<1>4. jobs' = Append(q, e)
  BY <1>1, <1>3 DEF Enqueue
<1>5. jobs \in Seq(Job) /\ Len(jobs) <= QueueLimit /\ QueueLimit \in Nat \ {0}
  BY Numbers DEF JobsOK
<1>6. CASE Len(jobs) >= QueueLimit
  <2>1. q = Tail(jobs) /\ jobs # <<>>
    BY <1>3, <1>5, <1>6
  <2>2. q \in Seq(Job) /\ Len(q) = Len(jobs) - 1 /\ Len(jobs) \in Nat /\ \A i \in 1..Len(q) : q[i] = jobs[i + 1]
    BY <1>5, <2>1, Tailed
  <2>5. \A i \in 1..Len(q) : i + 1 \in DOMAIN jobs
    BY <1>5, <2>2
  <2>3. Append(q, e) \in Seq(Job) /\ Len(Append(q, e)) = Len(q) + 1 /\ Len(q) \in Nat
    BY <1>2, <2>2
  <2>4. \A i \in DOMAIN Append(q, e) : (i \in 1..Len(q) /\ Append(q, e)[i] = q[i]) \/ Append(q, e)[i] = e
    BY <1>2, <2>2
  <2> QED BY <1>2, <1>4, <1>5, <2>2, <2>3, <2>4, <2>5 DEF JobsOK
<1>7. CASE ~(Len(jobs) >= QueueLimit)
  <2>1. q = jobs
    BY <1>3, <1>7
  <2>2. Append(q, e) \in Seq(Job) /\ Len(Append(q, e)) = Len(q) + 1
    BY <1>2, <1>5, <2>1
  <2>3. \A i \in DOMAIN Append(q, e) : (i \in 1..Len(q) /\ Append(q, e)[i] = q[i]) \/ Append(q, e)[i] = e
    BY <1>2, <1>5, <2>1
  <2>4. Len(q) + 1 <= QueueLimit /\ \A i \in 1..Len(q) : i \in DOMAIN jobs
    BY <1>5, <1>7, <2>1
  <2> QED BY <1>2, <1>4, <2>1, <2>2, <2>3, <2>4 DEF JobsOK
<1> QED BY <1>6, <1>7

\* an event joins those that wait, or the first is taken
LEMMA Posted ==
  ASSUME InboxOK, NEW e \in Events, Post(e)
  PROVE  /\ InboxOK' /\ Len(inbox') = Len(inbox) + 1 /\ Len(inbox) \in Nat /\ inbox' # <<>>
         /\ \A i \in 1..Len(inbox) : inbox'[i] = inbox[i]
         /\ inbox'[Len(inbox) + 1] = e
         /\ world.calm => inbox = <<>>
         /\ world.exact /\ e.kind # "full" => arm.seen = 0
<1>1. inbox \in Seq(Events) /\ inbox' = Append(inbox, e)
  BY DEF InboxOK, Post
<1>2. Append(inbox, e) \in Seq(Events) /\ Len(Append(inbox, e)) = Len(inbox) + 1 /\ Len(inbox) \in Nat
  BY <1>1
<1>3. (\A i \in 1..Len(inbox) : Append(inbox, e)[i] = inbox[i]) /\ Append(inbox, e)[Len(inbox) + 1] = e
  BY <1>1
<1>4. world.calm => Len(inbox) < 1
  BY DEF Post
<1>5. Append(inbox, e) # <<>> /\ (Len(inbox) < 1 => inbox = <<>>)
  BY <1>1
<1> QED BY <1>1, <1>2, <1>3, <1>4, <1>5 DEF InboxOK, Post

LEMMA Taken ==
  ASSUME InboxOK, NEW kind, Got(kind)
  PROVE  /\ InboxOK' /\ inbox # <<>> /\ Len(inbox) \in Nat \ {0} /\ Len(inbox') = Len(inbox) - 1
         /\ Head(inbox) \in Events /\ Head(inbox) = inbox[1] /\ Head(inbox).kind = kind /\ 1 \in DOMAIN inbox
         /\ \A i \in 1..Len(inbox') : inbox'[i] = inbox[i + 1]
         /\ world.exact => arm.seen = 0
<1>1. inbox \in Seq(Events) /\ inbox # <<>> /\ inbox' = Tail(inbox)
  BY DEF InboxOK, Got
<1>2. /\ Tail(inbox) \in Seq(Events) /\ Len(inbox) \in Nat \ {0} /\ Len(Tail(inbox)) = Len(inbox) - 1
      /\ Head(inbox) \in Events /\ Head(inbox) = inbox[1]
      /\ \A i \in 1..Len(Tail(inbox)) : Tail(inbox)[i] = inbox[i + 1]
  BY <1>1, Tailed
<1>3. 1 \in DOMAIN inbox
  BY <1>1, <1>2
<1> QED BY <1>1, <1>2, <1>3 DEF InboxOK, Got

\* what does not change keeps its type
LEMMA Still ==
  ASSUME TypeOK, Names
  PROVE  /\ UNCHANGED backend => RowOK' /\ RowNamed'
         /\ UNCHANGED late => LateOK'
         /\ UNCHANGED w => RequestOK' /\ RequestNamed'
         /\ UNCHANGED <<session, active, adopted, left>> => SessionOK' /\ SessionNamed'
         /\ UNCHANGED jobs => JobsOK'
         /\ UNCHANGED inbox => InboxOK' /\ InboxNamed'
         /\ UNCHANGED <<gc, arm, full, shown, joined>> => GameOK'
         /\ UNCHANGED <<count, queued, world>> => CountOK'
BY Types DEF backend, Names, RowOK, LateOK, RequestOK, SessionOK, JobsOK, InboxOK, GameOK, CountOK,
  RowNamed, RequestNamed, SessionNamed, InboxNamed, ResultNamed

Together ==
  /\ RowOK /\ RowNamed /\ LateOK /\ RequestOK /\ RequestNamed /\ SessionOK /\ SessionNamed
  /\ JobsOK /\ InboxOK /\ InboxNamed /\ GameOK /\ CountOK

LEMMA Parts == (TypeOK /\ Names <=> Together) /\ (Together' => TypeOK' /\ Names')
BY Types, TypesAfter DEF Together, Names

\* The worker picks what to do next, or gives up.
LEMMA PickTypes ==
  ASSUME TypeOK, Names, PickJob \/ PickStep \/ GiveUp \/ PickWatch
  PROVE  TypeOK' /\ Names'
<1>1. UNCHANGED <<row, ended, owner, ready, late, active, adopted, inbox, gc, arm, left, shown, joined, full, count, queued, world>>
  BY DEF PickJob, PickStep, GiveUp, PickWatch, backend, game
<1>2. RowOK' /\ RowNamed' /\ LateOK' /\ InboxOK' /\ InboxNamed' /\ GameOK' /\ CountOK'
  BY <1>1, Still DEF backend
<1>3. Together
  BY Parts
<1>4. CASE PickJob
  <2>1. JobsOK' /\ Head(jobs) \in Job
    <3>1. jobs \in Seq(Job) /\ Len(jobs) <= QueueLimit /\ jobs # <<>> /\ jobs' = Tail(jobs) /\ QueueLimit \in Nat
      BY <1>3, <1>4, Numbers DEF PickJob, JobsOK, Together
    <3>2. Tail(jobs) \in Seq(Job) /\ Len(jobs) \in Nat \ {0} /\ Len(Tail(jobs)) = Len(jobs) - 1 /\ Head(jobs) \in Job
      BY <3>1, Tailed
    <3> QED BY <3>1, <3>2 DEF JobsOK
  <2>2. Head(jobs).kind \in Kinds /\ Head(jobs).kind # "account" /\ Head(jobs).rid \in Searches /\ Head(jobs).rid # 0
    BY <2>1, Numbers DEF Job, Kinds
  <2>3. RequestOK' /\ RequestNamed'
    BY <1>4, <2>2, SentRequest, Still DEF PickJob
  <2>4. SessionOK' /\ SessionNamed'
    BY <1>1, <1>4, Still DEF PickJob
  <2> QED BY <1>2, <2>1, <2>3, <2>4, Parts DEF Together
<1>5. CASE PickStep
  <2>1. session \in Session /\ session.phase # "Done" /\ session.rid # 0
    BY <1>3, <1>5 DEF PickStep, SessionOK, SessionNamed, Together
  <2>2. RequestOK' /\ RequestNamed'
    BY <1>5, <2>1, SentRequest DEF PickStep, Session, Kinds
  <2>3. SessionOK' /\ SessionNamed' /\ JobsOK'
    BY <1>1, <1>5, Still DEF PickStep
  <2> QED BY <1>2, <2>2, <2>3, Parts DEF Together
<1>6. CASE GiveUp
  <2>1. SessionOK' /\ SessionNamed'
    <3>1. session' = [session EXCEPT !.phase = "Done"] /\ UNCHANGED <<active, adopted, left>>
      BY <1>1, <1>6 DEF GiveUp
    <3> QED BY <1>3, <3>1 DEF SessionOK, Session, SessionNamed, Together
  <2>2. RequestOK' /\ RequestNamed' /\ JobsOK'
    BY <1>6, Still DEF GiveUp
  <2> QED BY <1>2, <2>1, <2>2, Parts DEF Together
<1>7. CASE PickWatch
  <2>1. RequestOK' /\ RequestNamed'
    BY <1>7, SentRequest DEF PickWatch, Kinds
  <2>2. SessionOK' /\ SessionNamed' /\ JobsOK'
    BY <1>1, <1>7, Still DEF PickWatch
  <2> QED BY <1>2, <2>1, <2>2, Parts DEF Together
<1> QED BY <1>4, <1>5, <1>6, <1>7

\* The answer to a request is what the backend has for it.
Answer(a) ==
  /\ a \in Request /\ a.kind = w.kind /\ a.code # "none" /\ a.code = Code(w.kind, w.rid)
  /\ \/ a.kind = "account" /\ a.rid = row'.rid /\ a.st = row'.st /\ a.match = row'.match
     \/ a.kind \in {"register", "poll"} /\ a.rid = w.rid /\ row'.rid = w.rid /\ a.st = row'.st /\ a.match = row'.match
     \/ a.kind \in {"register", "poll"} /\ a.rid = w.rid /\ row'.rid # w.rid /\ a.st = "ENDED" /\ a.match = 0
  /\ a.member = row'.member

LEMMA Answering ==
  ASSUME TypeOK, Names, Serve
  PROVE  /\ RowOK' /\ RowNamed'
         /\ \/ w.kind \in {"register", "poll", "account"} /\ Answer(w')
            \/ w.kind \in {"cancel", "accepted", "snapshot"} /\ w' = Idle(FALSE)
         /\ w.kind # "none" /\ w.code = "none"
<1>1. Together
  BY Parts
<1>2. w \in Request /\ w.kind # "none" /\ w.code = "none" /\ w.rid \in Searches \cup {0} /\ w.kind \in Kinds
  BY <1>1 DEF Together, RequestOK, Request, Serve, Waiting
<1>3. w.kind \in {"register", "cancel"} => w.rid # 0
  BY <1>1 DEF Together, RequestNamed
<1>4. RowOK' /\ RowNamed'
  BY <1>1, <1>2, <1>3, AfterCall, WorldType DEF Serve, Together
<1>5. row' \in Row
  BY <1>4 DEF RowOK
<1>6. Code(w.kind, w.rid) \in {"ok", "unknown", "refused"}
  BY DEF Code
<1>7. CASE w.kind \in {"register", "poll", "account"}
  <2>1. PICK rid, code, b, st, m :
          /\ rid = IF w.kind = "account" THEN row'.rid ELSE w.rid
          /\ code = Code(w.kind, w.rid) /\ b = row'.member
          /\ st = IF w.kind = "account" \/ row'.rid = w.rid THEN row'.st ELSE "ENDED"
          /\ m = IF w.kind = "account" \/ row'.rid = w.rid THEN row'.match ELSE 0
    OBVIOUS
  <2>2. w' = [w EXCEPT !.rid = rid, !.code = code, !.member = b, !.st = st, !.match = m]
    BY <1>7, <2>1 DEF Serve
  <2>3. rid \in Searches \cup {0} /\ code \in {"ok", "unknown", "refused"} /\ b \in BOOLEAN /\ st \in States \cup {"ENDED"} /\ m \in Ids \cup {0}
    BY <1>2, <1>5, <1>6, <2>1 DEF Row
  <2>4. w' \in Request /\ w'.kind = w.kind /\ w'.rid = rid /\ w'.code = code /\ w'.member = b /\ w'.st = st /\ w'.match = m
    BY <1>2, <2>2, <2>3 DEF Request
  <2>5. Answer(w')
    BY <1>6, <1>7, <2>1, <2>4 DEF Answer
  <2> QED BY <1>2, <1>4, <1>7, <2>5
<1>8. CASE w.kind \notin {"register", "poll", "account"}
  BY <1>2, <1>4, <1>8 DEF Serve, Kinds
<1> QED BY <1>7, <1>8

LEMMA ServeTypes ==
  ASSUME TypeOK, Names, Serve
  PROVE  TypeOK' /\ Names'
<1>1. UNCHANGED <<owner, late, session, active, adopted, jobs, inbox, gc, arm, left, shown, joined, full, count, queued, world>>
  BY DEF Serve, game
<1>2. LateOK' /\ SessionOK' /\ SessionNamed' /\ JobsOK' /\ InboxOK' /\ InboxNamed' /\ GameOK' /\ CountOK'
  BY <1>1, Still
<1>3. RowOK' /\ RowNamed'
  BY Answering
<1>4. CASE Answer(w')
  <2>1. w'.kind = "account" /\ w'.code = "ok" => w'.rid # 0
    BY <1>4 DEF Answer, Code
  <2>2. RequestNamed
    BY DEF Names
  <2> QED BY <1>2, <1>3, <1>4, <2>1, <2>2, Parts DEF Together, RequestOK, RequestNamed, RowNamed, Answer, Assigned
<1>5. CASE w' = Idle(FALSE)
  <2>1. RequestOK' /\ RequestNamed'
    BY <1>5, Idles
  <2> QED BY <1>2, <1>3, <2>1, Parts DEF Together
<1> QED BY <1>4, <1>5, Answering

LEMMA TimeOutTypes ==
  ASSUME TypeOK, Names, TimeOut
  PROVE  TypeOK' /\ Names'
<1>1. UNCHANGED <<ended, owner, ready, session, active, adopted, jobs, inbox, gc, arm, left, shown, joined, full, count, queued, world>>
  BY DEF TimeOut, game
<1>2. SessionOK' /\ SessionNamed' /\ JobsOK' /\ InboxOK' /\ InboxNamed' /\ GameOK' /\ CountOK'
  BY <1>1, Still
<1>3. Together
  BY Parts
<1>4. w \in Request /\ w.kind # "none" /\ w.code = "none"
  BY <1>3 DEF Together, RequestOK, TimeOut, Waiting
<1>5. RequestOK' /\ RequestNamed'
  <2>1. CASE w' = Idle(TRUE)
    BY <2>1, Idles
  <2>2. CASE w.tries < Attempts /\ w' = [w EXCEPT !.tries = @ + 1]
    <3>1. w.tries + 1 \in 0..Attempts
      BY <1>4, <2>2, Numbers DEF Request
    <3>2. PICK n \in 0..Attempts : n = w.tries + 1
      BY <3>1
    <3>3. w' = [w EXCEPT !.tries = n]
      BY <2>2, <3>2
    <3>4. w' \in Request /\ w'.kind = w.kind /\ w'.rid = w.rid /\ w'.code = w.code /\ w'.st = w.st /\ w'.match = w.match
      BY <1>4, <3>3 DEF Request
    <3> QED BY <1>3, <3>4 DEF Together, RequestOK, RequestNamed
  <2> QED BY <2>1, <2>2 DEF TimeOut
<1>6. RowOK' /\ RowNamed'
  <2>1. row \in Row /\ RowNamed
    BY <1>3 DEF Together, RowOK
  <2>2. CASE row' = row
    BY <1>1, <2>2, Still DEF backend
  <2>3. CASE row.missed < Misses /\ row' = [row EXCEPT !.missed = @ + 1]
    <3>1. row.missed + 1 \in 0..Misses
      BY <2>1, <2>3, Numbers DEF Row
    <3>2. PICK n \in 0..Misses : n = row.missed + 1
      BY <3>1
    <3>3. row' = [row EXCEPT !.missed = n]
      BY <2>3, <3>2
    <3>4. row' \in Row /\ row'.rid = row.rid /\ row'.member = row.member /\ row'.st = row.st /\ row'.match = row.match
      BY <2>1, <3>3 DEF Row
    <3> QED BY <1>1, <1>3, <2>1, <3>4 DEF Together, RowOK, RowNamed, Assigned
  <2> QED BY <2>2, <2>3 DEF TimeOut
<1>7. LateOK'
  <2>1. CASE UNCHANGED late
    BY <2>1, Still
  <2>2. CASE w.kind \in {"register", "accepted", "cancel"} /\ late' = {[kind |-> w.kind, rid |-> w.rid]}
    <3>1. w.rid \in Searches
      BY <1>3, <1>4, <2>2 DEF Together, RequestNamed, Request
    <3> QED BY <2>2, <3>1 DEF LateOK
  <2> QED BY <2>1, <2>2 DEF TimeOut
<1> QED BY <1>2, <1>5, <1>6, <1>7, Parts DEF Together

LEMMA DroppedTypes ==
  ASSUME TypeOK, Names, Ignored \/ Lost \/ Rejected \/ NothingFound
  PROVE  TypeOK' /\ Names'
<1>1. /\ UNCHANGED <<row, ended, owner, ready, late, active, adopted, jobs, inbox, gc, arm, left, shown, joined, full, count, queued, world>>
      /\ w' = Idle(FALSE)
  BY DEF Ignored, Lost, Rejected, NothingFound, backend, game
<1>2. /\ RowOK' /\ RowNamed' /\ LateOK' /\ JobsOK' /\ InboxOK' /\ InboxNamed' /\ GameOK' /\ CountOK'
      /\ RequestOK' /\ RequestNamed'
  BY <1>1, Still, Idles DEF backend
<1>3. SessionOK' /\ SessionNamed'
  <2>1. SessionOK /\ SessionNamed /\ RequestNamed
    BY Parts DEF Together
  <2>2. CASE Ignored \/ NothingFound
    BY <1>1, <2>2, Still DEF Ignored, NothingFound
  <2>3. CASE Lost
    <3>1. session' = [session EXCEPT !.phase = "Register"] /\ active # 0
      BY <2>1, <2>3 DEF Lost, Stale, RequestNamed, SessionNamed
    <3> QED BY <1>1, <2>1, <3>1 DEF SessionOK, Session, SessionNamed
  <2>4. CASE Rejected
    <3>1. session' = [session EXCEPT !.phase = "Done"]
      BY <2>4 DEF Rejected
    <3> QED BY <1>1, <2>1, <3>1 DEF SessionOK, Session, SessionNamed
  <2> QED BY <2>2, <2>3, <2>4
<1> QED BY <1>2, <1>3, Parts DEF Together

\* a result of the request the worker is at
LEMMA Results ==
  ASSUME TypeOK, Names, w.code = "ok", w.rid # 0, NEW b \in BOOLEAN
  PROVE  /\ Result(b) \in Events /\ Result(b).kind = "result" /\ Result(b).rid = w.rid /\ Result(b).st = w.st
         /\ Result(b).match = w.match /\ Result(b).discovered = b /\ ResultNamed(Result(b))
<1>1. w \in Request /\ (Assigned(w.st) <=> w.match # 0)
  BY Parts DEF Together, RequestOK, RequestNamed
<1>2. PICK e : e = Result(b)
  OBVIOUS
<1>3. e = [kind |-> "result", rid |-> w.rid, st |-> w.st, match |-> w.match, discovered |-> b]
  BY <1>2 DEF Result
<1>4. w.rid \in Searches /\ w.st \in States \cup {"ENDED"} /\ w.match \in Ids \cup {0}
  BY <1>1 DEF Request
<1>5. e \in Events
  BY <1>3, <1>4 DEF Events
<1>6. e.kind = "result" /\ e.rid = w.rid /\ e.st = w.st /\ e.match = w.match /\ e.discovered = b
  BY <1>3
<1> QED BY <1>1, <1>2, <1>5, <1>6 DEF ResultNamed

LEMMA PostedNamed ==
  ASSUME InboxOK, InboxNamed, NEW e \in Events, ResultNamed(e), Post(e)
  PROVE  InboxOK' /\ InboxNamed'
<1>1. /\ InboxOK' /\ Len(inbox') = Len(inbox) + 1 /\ Len(inbox) \in Nat
      /\ \A i \in 1..Len(inbox) : inbox'[i] = inbox[i]
      /\ inbox'[Len(inbox) + 1] = e
  BY Posted
<1>2. DOMAIN inbox = 1..Len(inbox) /\ DOMAIN inbox' = 1..Len(inbox')
  BY <1>1 DEF InboxOK
<1>3. \A i \in DOMAIN inbox' : (i \in DOMAIN inbox /\ inbox'[i] = inbox[i]) \/ inbox'[i] = e
  BY <1>1, <1>2
<1> QED BY <1>1, <1>3 DEF InboxNamed, ResultNamed

LEMMA AnsweredTypes ==
  ASSUME TypeOK, Names, Answered
  PROVE  TypeOK' /\ Names'
<1>1. UNCHANGED <<row, ended, owner, ready, late, active, adopted, gc, arm, left, shown, joined, full, count, queued, world>> /\ w' = Idle(FALSE)
  BY DEF Answered, backend, game
<1>2. RowOK' /\ RowNamed' /\ LateOK' /\ GameOK' /\ CountOK' /\ RequestOK' /\ RequestNamed'
  BY <1>1, Still, Idles DEF backend
<1>3. Together
  BY Parts
<1>4. w \in Request /\ w.rid # 0 /\ w.rid = active /\ w.code = "ok" /\ w.rid \in Searches
  BY <1>3 DEF Together, RequestOK, Request, RequestNamed, SessionNamed, Answered, Stale
<1>5. SessionOK' /\ SessionNamed'
  <2>1. PICK ph \in {"Done", "Poll"} : session' = [session EXCEPT !.phase = ph, !.st = w.st, !.match = w.match]
    BY DEF Answered
  <2>2. w.st \in States \cup {"ENDED"} /\ w.match \in Ids \cup {0}
    BY <1>4 DEF Request
  <2> QED BY <1>1, <1>3, <1>4, <2>1, <2>2 DEF Together, SessionOK, Session, SessionNamed
<1>6. JobsOK'
  <2>1. CASE w.kind = "register"
    BY <1>3, <1>4, <2>1, Enqueued DEF Answered, Together
  <2>2. CASE w.kind # "register"
    BY <2>2, Still DEF Answered
  <2> QED BY <2>1, <2>2
<1>7. InboxOK' /\ InboxNamed'
  <2>1. CASE Post(Result(FALSE))
    BY <1>3, <1>4, <2>1, Results, PostedNamed DEF Together
  <2>2. CASE UNCHANGED inbox
    BY <2>2, Still
  <2> QED BY <2>1, <2>2 DEF Answered
<1> QED BY <1>2, <1>5, <1>6, <1>7, Parts DEF Together

LEMMA AdoptTypes ==
  ASSUME TypeOK, Names, Adopt
  PROVE  TypeOK' /\ Names'
<1>1. UNCHANGED <<row, ended, owner, ready, late, gc, arm, shown, joined, full, count, queued, world>> /\ w' = Idle(FALSE)
  BY DEF Adopt, backend
<1>2. RowOK' /\ RowNamed' /\ LateOK' /\ GameOK' /\ CountOK' /\ RequestOK' /\ RequestNamed'
  BY <1>1, Still, Idles DEF backend
<1>3. Together
  BY Parts
<1>4. w.rid # 0 /\ w.code = "ok" /\ w.rid \in Searches
  BY <1>3 DEF Together, RequestOK, Request, RequestNamed, Adopt, Adoptable
<1>5. SessionOK' /\ SessionNamed'
  <2>1. PICK z : z = NoSession
    OBVIOUS
  <2>2. session' = [z EXCEPT !.rid = w.rid, !.phase = "Poll"] /\ z \in Session
    BY <2>1 DEF Adopt, NoSession, Session, States
  <2>3. adopted' = w.rid /\ active' = w.rid /\ left' \subseteq left \cup {active} /\ (active = 0 => left' = left)
    BY DEF Adopt, Leave
  <2> QED BY <1>3, <1>4, <2>2, <2>3 DEF Together, SessionOK, Session, SessionNamed
<1>6. JobsOK'
  BY <1>3, <1>4, Enqueued DEF Adopt, Together
<1>7. InboxOK' /\ InboxNamed'
  BY <1>3, <1>4, Results, PostedNamed DEF Together, Adopt
<1> QED BY <1>2, <1>5, <1>6, <1>7, Parts DEF Together

LEMMA WorkTypes ==
  ASSUME TypeOK, Names, Work \/ GiveUp
  PROVE  TypeOK' /\ Names'
BY PickTypes, ServeTypes, TimeOutTypes, DroppedTypes, AnsweredTypes, AdoptTypes DEF Work

-----------------------------------------------------------------------------
(* The GC thread and the game.                                             *)

LEMMA NoGcType ==
  /\ NoGc \in Gc /\ NoGc.pend = 0 /\ NoGc.popup = 0 /\ NoGc.active = FALSE /\ NoGc.server = FALSE /\ NoGc.backend = FALSE
  /\ NoGc.mode = "none" /\ NoGc.follows = FALSE
BY DEF NoGc, Gc

LEMMA NotAcceptingType ==
  ASSUME NEW g \in Gc
  PROVE  /\ NotAccepting(g) \in Gc /\ NotAccepting(g).pend = 0 /\ NotAccepting(g).popup = g.popup
         /\ NotAccepting(g).active = g.active /\ NotAccepting(g).mode = g.mode
         /\ NotAccepting(g).server = FALSE /\ NotAccepting(g).backend = FALSE
BY DEF NotAccepting, Gc

LEMMA ModeType == \A r : Mode(r) \in {"accept", "classic"} /\ (Mode(r) = "accept" <=> r \in AcceptModes)
BY DEF Mode

LEMMA Disarming ==
  ASSUME arm \in Arm, arm' = [arm EXCEPT !.on = FALSE]
  PROVE  arm' \in Arm /\ arm'.on = FALSE /\ arm'.seen = arm.seen /\ arm'.for = arm.for
BY DEF Arm

\* the session of a search that begins, and none
LEMMA NewSession ==
  ASSUME NEW r \in Searches, NEW ph \in {"Register", "Poll", "Done"}, session' = [NoSession EXCEPT !.rid = r, !.phase = ph]
  PROVE  session' \in Session /\ session'.rid = r /\ session'.phase = ph /\ session'.st = "none" /\ session'.match = 0
<1>1. PICK z : z = NoSession
  OBVIOUS
<1>2. z \in Session /\ z.st = "none" /\ z.match = 0
  BY <1>1 DEF NoSession, Session, States
<1>3. session' = [z EXCEPT !.rid = r, !.phase = ph]
  BY <1>1
<1> QED BY <1>2, <1>3 DEF Session

LEMMA NoSessionType == NoSession \in Session /\ NoSession.rid = 0 /\ NoSession.phase = "Done" /\ NoSession.st = "none" /\ NoSession.match = 0
BY DEF NoSession, Session, States

LEMMA TakenNamed ==
  ASSUME TypeOK, Names, NEW kind, Got(kind)
  PROVE  InboxOK' /\ InboxNamed' /\ Head(inbox) \in Events /\ Head(inbox).kind = kind /\ ResultNamed(Head(inbox))
<1>1. InboxOK /\ InboxNamed
  BY Parts DEF Together
<1>2. /\ InboxOK' /\ Len(inbox) \in Nat \ {0} /\ Len(inbox') = Len(inbox) - 1
      /\ Head(inbox) \in Events /\ Head(inbox) = inbox[1] /\ Head(inbox).kind = kind /\ 1 \in DOMAIN inbox
      /\ \A i \in 1..Len(inbox') : inbox'[i] = inbox[i + 1]
  BY <1>1, Taken
<1>3. DOMAIN inbox = 1..Len(inbox) /\ DOMAIN inbox' = 1..Len(inbox')
  BY <1>1, <1>2 DEF InboxOK
<1>4. \A i \in DOMAIN inbox' : i + 1 \in DOMAIN inbox /\ inbox'[i] = inbox[i + 1]
  BY <1>2, <1>3
<1> QED BY <1>1, <1>2, <1>4 DEF InboxNamed, ResultNamed

\* An Accept that the game server and the backend agree on is over.
LEMMA Connecting ==
  ASSUME TypeOK, Names, NEW g \in Gc, g.server => g.pend # 0, TryConnect(g)
  PROVE  /\ gc' \in Gc /\ joined' \subseteq Ids /\ session' \in Session /\ session'.rid = session.rid
         /\ active = 0 => session'.phase = "Done"
         /\ session'.st = session.st /\ session'.match = session.match
<1>1. session \in Session /\ joined \subseteq Ids /\ SessionNamed
  BY Parts DEF Together, SessionOK, GameOK
<1>2. CASE g.server /\ g.backend
  <2>1. gc' = [NotAccepting(g) EXCEPT !.popup = 0] /\ joined' = joined \cup {g.pend} /\ session' = [session EXCEPT !.phase = "Done"]
    BY <1>2 DEF TryConnect
  <2>2. PICK z \in Gc : z = NotAccepting(g)
    BY NotAcceptingType
  <2>3. gc' \in Gc
    BY <2>1, <2>2 DEF Gc
  <2>4. g.pend \in Ids
    BY <1>2 DEF Gc
  <2> QED BY <1>1, <2>1, <2>3, <2>4 DEF Session
<1>3. CASE ~(g.server /\ g.backend)
  BY <1>1, <1>3 DEF TryConnect, SessionNamed
<1> QED BY <1>2, <1>3

LEMMA HandleStartTypes ==
  ASSUME TypeOK, Names, HandleStart
  PROVE  TypeOK' /\ Names'
<1>1. UNCHANGED <<row, ended, owner, ready, late, w, adopted, jobs, shown, joined, full, count, queued, world>>
  BY DEF HandleStart, backend
<1>2. RowOK' /\ RowNamed' /\ LateOK' /\ RequestOK' /\ RequestNamed' /\ JobsOK' /\ CountOK'
  BY <1>1, Still DEF backend
<1>3. Together
  BY Parts
<1>4. InboxOK' /\ InboxNamed' /\ Head(inbox) \in Events /\ Head(inbox).kind = "start"
  BY TakenNamed DEF HandleStart
<1>5. PICK r \in Searches : r = Head(inbox).rid
  BY <1>4, EventKinds
<1>6. GameOK'
  <2>1. arm' = [arm EXCEPT !.on = FALSE] /\ arm \in Arm
    BY <1>3 DEF HandleStart, Together, GameOK
  <2>2. gc' \in Gc
    <3>1. PICK z \in Gc : z = NoGc
      BY NoGcType
    <3>2. PICK m \in {"accept", "classic"} : m = Mode(r)
      BY ModeType
    <3>3. gc' = [z EXCEPT !.active = TRUE, !.mode = m]
      BY <1>5, <3>1, <3>2 DEF HandleStart
    <3> QED BY <3>3 DEF Gc
  <2>3. full \subseteq Ids /\ shown \subseteq Ids /\ joined \subseteq Ids
    BY <1>3 DEF Together, GameOK
  <2> QED BY <1>1, <2>1, <2>2, <2>3, Disarming DEF GameOK
<1>7. SessionOK' /\ SessionNamed'
  <2>1. session' = [NoSession EXCEPT !.rid = r, !.phase = "Register"] /\ active' = r /\ left' \subseteq left \cup {active} /\ (active = 0 => left' = left)
    BY <1>5 DEF HandleStart, Leave
  <2>2. session' \in Session /\ session'.rid = r
    BY <2>1, NewSession
  <2> QED BY <1>1, <1>3, <2>1, <2>2, Numbers DEF Together, SessionOK, SessionNamed
<1> QED BY <1>2, <1>4, <1>6, <1>7, Parts DEF Together

LEMMA HandleStopTypes ==
  ASSUME TypeOK, Names, HandleStop
  PROVE  TypeOK' /\ Names'
<1>1. UNCHANGED <<row, ended, owner, ready, late, w, adopted, shown, joined, full, count, queued, world>>
  BY DEF HandleStop, backend
<1>2. RowOK' /\ RowNamed' /\ LateOK' /\ RequestOK' /\ RequestNamed' /\ CountOK'
  BY <1>1, Still DEF backend
<1>3. Together
  BY Parts
<1>4. InboxOK' /\ InboxNamed'
  BY TakenNamed DEF HandleStop
<1>5. CASE Followed
  <2>1. UNCHANGED <<gc, arm, active, left, session, jobs>>
    BY <1>5 DEF HandleStop
  <2>2. GameOK' /\ SessionOK' /\ SessionNamed' /\ JobsOK'
    BY <1>1, <2>1, Still
  <2> QED BY <1>2, <1>4, <2>2, Parts DEF Together
<1>6. CASE ~Followed
  <2>1. Leave /\ gc' = [NoGc EXCEPT !.follows = gc.follows] /\ arm' = [arm EXCEPT !.on = FALSE]
    BY <1>6 DEF HandleStop
  <2>2. IF active = 0 THEN UNCHANGED <<active, session, jobs>> ELSE active' = 0 /\ session' = NoSession /\ Enqueue("cancel", active)
    BY <1>6 DEF HandleStop
  <2>3. GameOK'
    <3>1. PICK z \in Gc : z = NoGc
      BY NoGcType
    <3>2. gc' \in Gc
      BY <1>3, <2>1, <3>1 DEF Gc, Together, GameOK
    <3>3. arm' \in Arm
      BY <1>3, <2>1, Disarming DEF Together, GameOK
    <3> QED BY <1>1, <1>3, <3>2, <3>3 DEF Together, GameOK
  <2>4. SessionOK' /\ SessionNamed'
    BY <1>1, <1>3, <2>1, <2>2, NoSessionType DEF Together, SessionOK, SessionNamed, Leave
  <2>5. JobsOK'
    <3>1. CASE active = 0
      BY <2>2, <3>1, Still
    <3>2. CASE active # 0
      <4>1. active \in Searches
        BY <1>3, <3>2 DEF Together, SessionOK
      <4> QED BY <1>3, <2>2, <3>2, <4>1, Enqueued DEF Together
    <3> QED BY <3>1, <3>2
  <2> QED BY <1>2, <1>4, <2>3, <2>4, <2>5, Parts DEF Together
<1> QED BY <1>5, <1>6

LEMMA HandleFullTypes ==
  ASSUME TypeOK, Names, HandleFull
  PROVE  TypeOK' /\ Names'
<1>1. UNCHANGED <<row, ended, owner, ready, late, w, active, adopted, arm, left, shown, full, count, queued, world>>
  BY DEF HandleFull, backend
<1>2. RowOK' /\ RowNamed' /\ LateOK' /\ RequestOK' /\ RequestNamed' /\ CountOK'
  BY <1>1, Still DEF backend
<1>3. Together
  BY Parts
<1>4. InboxOK' /\ InboxNamed'
  BY TakenNamed DEF HandleFull
<1>5. CASE gc.pend = 0 \/ gc.server
  <2>1. GameOK' /\ SessionOK' /\ SessionNamed' /\ JobsOK'
    BY <1>1, <1>5, Still DEF HandleFull
  <2> QED BY <1>2, <1>4, <2>1, Parts DEF Together
<1>6. CASE ~(gc.pend = 0 \/ gc.server)
  <2>1. PICK g : g = [gc EXCEPT !.server = TRUE]
    OBVIOUS
  <2>2. g \in Gc /\ g.pend # 0 /\ TryConnect(g)
    BY <1>3, <1>6, <2>1 DEF HandleFull, Together, GameOK, Gc
  <2>3. gc' \in Gc /\ joined' \subseteq Ids /\ session' \in Session /\ session'.rid = session.rid /\ (active = 0 => session'.phase = "Done")
    BY <2>2, Connecting
  <2>4. GameOK' /\ SessionOK' /\ SessionNamed'
    BY <1>1, <1>3, <2>3 DEF Together, GameOK, SessionOK, SessionNamed
  <2>5. JobsOK'
    <3>1. CASE active = 0
      BY <1>6, <3>1, Still DEF HandleFull
    <3>2. CASE active # 0
      <4>1. active \in Searches /\ Enqueue("accepted", active)
        BY <1>3, <1>6, <3>2 DEF Together, SessionOK, HandleFull
      <4> QED BY <1>3, <4>1, Enqueued DEF Together
    <3> QED BY <3>1, <3>2
  <2> QED BY <1>2, <1>4, <2>4, <2>5, Parts DEF Together
<1> QED BY <1>5, <1>6

\* the handlers of a result
Told == HandleDiscovered \/ HandleAssigned \/ HandleSameMatch \/ HandleWithdrawn \/ HandleEnded \/ HandleOther

LEMMA ToldTypes ==
  ASSUME TypeOK, Names, Told
  PROVE  TypeOK' /\ Names'
<1>1. UNCHANGED <<row, ended, owner, ready, late, w, active, adopted, jobs, left, full, count, queued, world>> /\ Got("result")
  BY DEF Told, HandleDiscovered, HandleAssigned, HandleSameMatch, HandleWithdrawn, HandleEnded, HandleOther, GcOnly, GotResult, backend
<1>2. RowOK' /\ RowNamed' /\ LateOK' /\ RequestOK' /\ RequestNamed' /\ JobsOK' /\ CountOK'
  BY <1>1, Still DEF backend
<1>3. Together
  BY Parts
<1>4. InboxOK' /\ InboxNamed'
  BY <1>1, TakenNamed
<1>5. Head(inbox) \in Events /\ Head(inbox).kind = "result" /\ ResultNamed(Head(inbox))
  BY <1>1, TakenNamed
<1>6. Head(inbox).match \in Ids \cup {0} /\ Head(inbox).rid \in Searches
  BY <1>5, EventKinds
<1>7. gc \in Gc /\ arm \in Arm /\ full \subseteq Ids /\ shown \subseteq Ids /\ joined \subseteq Ids /\ session \in Session /\ SessionNamed
  BY <1>3 DEF Together, GameOK, SessionOK
<1>8. PICK g \in Gc : g = NotAccepting(gc)
  BY <1>7, NotAcceptingType
<1> DEFINE Goal == gc' \in Gc /\ arm' \in Arm /\ shown' \subseteq Ids /\ joined' \subseteq Ids /\ session' \in Session /\ session'.rid = session.rid
                   /\ (active = 0 => session'.phase = "Done")
<1>9. ASSUME UNCHANGED session PROVE session' \in Session /\ session'.rid = session.rid /\ (active = 0 => session'.phase = "Done")
  BY <1>7, <1>9 DEF SessionNamed
<1>10. ASSUME HandleDiscovered PROVE Goal
  <2>1. PICK m \in {"accept", "classic"} : m = Mode(Head(inbox).rid)
    BY ModeType
  <2>2. gc' = [g EXCEPT !.active = TRUE, !.mode = m, !.follows = TRUE]
    BY <1>8, <1>10, <2>1 DEF HandleDiscovered
  <2>3. gc' \in Gc
    BY <2>2 DEF Gc
  <2> QED BY <1>7, <1>9, <1>10, <2>3, Disarming DEF HandleDiscovered
<1>11. ASSUME HandleAssigned PROVE Goal
  <2>1. PICK m \in Ids : m = Head(inbox).match
    BY <1>5, <1>6, <1>11 DEF HandleAssigned, ResultNamed
  <2>2. StartServerFlow(Head(inbox))
    BY <1>11 DEF HandleAssigned
  <2>3. shown' = shown \cup {m} /\ joined' \subseteq joined \cup {m} /\ UNCHANGED session
    BY <2>1, <2>2 DEF StartServerFlow
  <2>4. gc' \in Gc
    <3>1. CASE gc.mode = "accept"
      <4>1. PICK b \in BOOLEAN : b = (Head(inbox).st = "READY_TO_CONNECT")
        OBVIOUS
      <4>2. gc' = [g EXCEPT !.active = FALSE, !.pend = m, !.popup = m, !.backend = b]
        BY <1>8, <2>1, <2>2, <3>1, <4>1 DEF StartServerFlow
      <4> QED BY <4>2 DEF Gc
    <3>2. CASE gc.mode # "accept"
      <4>1. gc' = [g EXCEPT !.active = FALSE, !.popup = 0]
        BY <1>8, <2>2, <3>2 DEF StartServerFlow
      <4> QED BY <4>1 DEF Gc
    <3> QED BY <3>1, <3>2
  <2>5. arm' \in Arm
    <3>1. CASE arm' = [arm EXCEPT !.on = TRUE, !.for = m]
      BY <1>7, <3>1 DEF Arm
    <3>2. CASE arm' = [arm EXCEPT !.on = FALSE]
      BY <1>7, <3>2, Disarming
    <3> QED BY <2>1, <2>2, <3>1, <3>2 DEF StartServerFlow
  <2> QED BY <1>7, <1>9, <2>3, <2>4, <2>5
<1>12. ASSUME HandleSameMatch PROVE Goal
  <2>1. UNCHANGED <<arm, shown>> /\ gc.pend # 0
    BY <1>12 DEF HandleSameMatch, OfAccept
  <2>2. CASE Head(inbox).st = "READY_TO_CONNECT"
    <3>1. PICK h : h = [gc EXCEPT !.backend = TRUE]
      OBVIOUS
    <3>2. h \in Gc /\ h.pend # 0 /\ TryConnect(h)
      BY <1>7, <1>12, <2>1, <2>2, <3>1 DEF HandleSameMatch, Gc
    <3> QED BY <1>7, <2>1, <3>2, Connecting
  <2>3. CASE Head(inbox).st # "READY_TO_CONNECT"
    BY <1>7, <1>9, <1>12, <2>1, <2>3 DEF HandleSameMatch
  <2> QED BY <2>2, <2>3
<1>13. ASSUME HandleWithdrawn PROVE Goal
  <2>1. gc' = [g EXCEPT !.popup = 0, !.active = TRUE] /\ arm' = [arm EXCEPT !.on = FALSE] /\ UNCHANGED <<shown, joined, session>>
    BY <1>8, <1>13 DEF HandleWithdrawn
  <2>2. gc' \in Gc
    BY <2>1 DEF Gc
  <2> QED BY <1>7, <1>9, <2>1, <2>2, Disarming
<1>14. ASSUME HandleEnded PROVE Goal
  <2>1. PICK z \in Gc : z = NoGc
    BY NoGcType
  <2>2. UNCHANGED <<shown, joined, session>>
    BY <1>14 DEF HandleEnded
  <2>3. gc' = [z EXCEPT !.follows = gc.follows] \/ gc' = [gc EXCEPT !.active = FALSE, !.mode = "none"]
    BY <1>14, <2>1 DEF HandleEnded
  <2>4. gc' \in Gc
    BY <1>7, <2>3 DEF Gc
  <2>5. arm' \in Arm
    BY <1>7, <1>14, Disarming DEF HandleEnded
  <2> QED BY <1>7, <1>9, <2>2, <2>4, <2>5
<1>15. ASSUME HandleOther PROVE Goal
  BY <1>7, <1>9, <1>15 DEF HandleOther, game
<1>16. Goal
  BY <1>10, <1>11, <1>12, <1>13, <1>14, <1>15 DEF Told
<1>17. GameOK' /\ SessionOK' /\ SessionNamed'
  BY <1>1, <1>3, <1>7, <1>16 DEF Together, GameOK, SessionOK, SessionNamed
<1> QED BY <1>2, <1>4, <1>17, Parts DEF Together

LEMMA PlayerTypes ==
  ASSUME TypeOK, Names, PressPlay \/ PressStop
  PROVE  TypeOK' /\ Names'
<1>1. UNCHANGED <<row, ended, owner, ready, late, w, session, active, adopted, jobs, gc, arm, left, shown, joined, full, world>>
  BY DEF PressPlay, PressStop, backend, worker, game
<1>2. RowOK' /\ RowNamed' /\ LateOK' /\ RequestOK' /\ RequestNamed' /\ SessionOK' /\ SessionNamed' /\ JobsOK' /\ GameOK'
  BY <1>1, Still DEF backend
<1>3. Together
  BY Parts
<1>4. CASE PressPlay
  <2>1. count.own \in 0..Own /\ count.own < world.own /\ world.own \in 0..Own
    BY <1>3, <1>4, WorldType DEF PressPlay, Together, CountOK
  <2>2. PICK n \in 1..Own : n = count.own + 1
    BY <2>1, Numbers
  <2>3. n \in Searches /\ n \in 0..Own
    BY <2>2, Numbers
  <2>4. CountOK'
    <3>1. count' = [count EXCEPT !.own = n] /\ queued' = TRUE
      BY <1>4, <2>2 DEF PressPlay
    <3> QED BY <1>1, <1>3, <2>3, <3>1 DEF Together, CountOK
  <2>5. PICK e : e = [kind |-> "start", rid |-> n]
    OBVIOUS
  <2>6. e \in Events /\ ResultNamed(e) /\ Post(e)
    BY <1>4, <2>2, <2>3, <2>5 DEF Events, ResultNamed, PressPlay
  <2>7. InboxOK' /\ InboxNamed'
    BY <1>3, <2>6, PostedNamed DEF Together
  <2> QED BY <1>2, <2>4, <2>7, Parts DEF Together
<1>5. CASE PressStop
  <2>1. CountOK'
    BY <1>1, <1>3, <1>5 DEF PressStop, Together, CountOK
  <2>2. PICK e : e = [kind |-> "stop"]
    OBVIOUS
  <2>3. e \in Events /\ ResultNamed(e) /\ Post(e)
    BY <1>5, <2>2 DEF Events, ResultNamed, PressStop
  <2>4. InboxOK' /\ InboxNamed'
    BY <1>3, <2>3, PostedNamed DEF Together
  <2> QED BY <1>2, <2>1, <2>4, Parts DEF Together
<1> QED BY <1>4, <1>5

LEMMA WatcherTypes ==
  ASSUME TypeOK, Names, PlayersAccept \/ (\E m \in Ids : Inspect(m)) \/ Notify
  PROVE  TypeOK' /\ Names'
<1>1. UNCHANGED <<row, ended, owner, ready, late, w, session, active, adopted, jobs, gc, left, shown, joined, count, queued, world>>
  BY DEF PlayersAccept, Inspect, Notify, backend, worker, game
<1>2. RowOK' /\ RowNamed' /\ LateOK' /\ RequestOK' /\ RequestNamed' /\ SessionOK' /\ SessionNamed' /\ JobsOK' /\ CountOK'
  BY <1>1, Still DEF backend
<1>3. Together
  BY Parts
<1>4. GameOK'
  <2>1. gc \in Gc /\ arm \in Arm /\ full \subseteq Ids /\ shown \subseteq Ids /\ joined \subseteq Ids
    BY <1>3 DEF Together, GameOK
  <2>2. CASE PlayersAccept
    BY <1>1, <2>1, <2>2 DEF PlayersAccept, GameOK, Gc, game
  <2>3. CASE \E m \in Ids : Inspect(m)
    <3>1. PICK m \in Ids : Inspect(m)
      BY <2>3
    <3>2. arm' = [arm EXCEPT !.seen = m] /\ UNCHANGED full
      BY <3>1 DEF Inspect
    <3> QED BY <1>1, <2>1, <3>2 DEF GameOK, Arm
  <2>4. CASE Notify
    <3>1. arm' = [arm EXCEPT !.on = FALSE, !.seen = 0] /\ UNCHANGED full
      BY <2>4 DEF Notify
    <3> QED BY <1>1, <2>1, <3>1 DEF GameOK, Arm
  <2> QED BY <2>2, <2>3, <2>4
<1>5. InboxOK' /\ InboxNamed'
  <2>1. CASE UNCHANGED inbox
    BY <2>1, Still
  <2>2. CASE Post([kind |-> "full"])
    <3>1. PICK e : e = [kind |-> "full"]
      OBVIOUS
    <3>2. e \in Events /\ ResultNamed(e) /\ Post(e)
      BY <2>2, <3>1 DEF Events, ResultNamed
    <3> QED BY <1>3, <3>2, PostedNamed DEF Together
  <2> QED BY <2>1, <2>2 DEF PlayersAccept, Inspect, Notify
<1> QED BY <1>2, <1>4, <1>5, Parts DEF Together

LEMMA RestartTypes ==
  ASSUME TypeOK, Names, Restart
  PROVE  TypeOK' /\ Names'
<1>1. /\ UNCHANGED <<row, ended, owner, ready, full, world>> /\ w' = Idle(FALSE) /\ session' = NoSession /\ active' = 0 /\ adopted' = 0
      /\ jobs' = <<>> /\ inbox' = <<>> /\ gc' = NoGc /\ arm' = Disarmed /\ left' = {} /\ shown' = {} /\ joined' = {} /\ queued' = FALSE
  BY DEF Restart, backend
<1>2. Together
  BY Parts
<1>3. RowOK' /\ RowNamed' /\ RequestOK' /\ RequestNamed'
  BY <1>1, Still, Idles DEF backend
<1>4. SessionOK' /\ SessionNamed'
  BY <1>1, NoSessionType DEF SessionOK, SessionNamed
<1>5. JobsOK' /\ InboxOK' /\ InboxNamed'
  <2>1. <<>> \in Seq(Job) /\ <<>> \in Seq(Events) /\ Len(<<>>) = 0 /\ DOMAIN <<>> = {}
    OBVIOUS
  <2> QED BY <1>1, <2>1, Numbers DEF JobsOK, InboxOK, InboxNamed
<1>6. GameOK'
  BY <1>1, <1>2, NoGcType DEF Together, GameOK, Disarmed, Arm
<1>7. CountOK'
  <2>1. count.crash \in 0..Restarts /\ count.crash < world.restarts /\ world.restarts \in 0..Restarts
    BY <1>2, WorldType DEF Restart, Together, CountOK
  <2>2. PICK n \in 0..Restarts : n = count.crash + 1
    BY <2>1, BoundsAreNatural
  <2>3. count' = [count EXCEPT !.crash = n]
    BY <2>2 DEF Restart
  <2> QED BY <1>1, <1>2, <2>3 DEF Together, CountOK
<1>8. LateOK'
  <2>1. late' = late \/ (w.kind \in {"register", "accepted", "cancel"} /\ late' = {[kind |-> w.kind, rid |-> w.rid]})
    BY DEF Restart
  <2>2. CASE late' = late
    BY <2>2, Still
  <2>3. CASE w.kind \in {"register", "accepted", "cancel"} /\ late' = {[kind |-> w.kind, rid |-> w.rid]}
    <3>1. w.rid \in Searches
      BY <1>2, <2>3 DEF Together, RequestOK, RequestNamed, Request
    <3> QED BY <2>3, <3>1 DEF LateOK
  <2> QED BY <2>1, <2>2, <2>3
<1> QED BY <1>3, <1>4, <1>5, <1>6, <1>7, <1>8, Parts DEF Together

LEMMA InitTypes ==
  ASSUME Init
  PROVE  TypeOK /\ Names
<1>1. RowOK /\ RowNamed
  BY NoRowType DEF Init, RowOK, RowNamed, Assigned
<1>2. RequestOK /\ RequestNamed /\ LateOK
  BY IdleType DEF Init, RequestOK, RequestNamed, LateOK
<1>3. SessionOK /\ SessionNamed
  BY NoSessionType DEF Init, SessionOK, SessionNamed
<1>4. JobsOK /\ InboxOK /\ InboxNamed
  <2>1. <<>> \in Seq(Job) /\ <<>> \in Seq(Events) /\ Len(<<>>) = 0 /\ DOMAIN <<>> = {}
    OBVIOUS
  <2> QED BY <2>1, Numbers DEF Init, JobsOK, InboxOK, InboxNamed
<1>5. GameOK
  BY NoGcType DEF Init, GameOK, Disarmed, Arm
<1>6. CountOK
  <2>1. 0 \in 0..Own /\ 0 \in 0..Parties /\ 0 \in 0..Restarts
    BY Numbers, BoundsAreNatural
  <2> QED BY <2>1 DEF Init, CountOK
<1> QED BY <1>1, <1>2, <1>3, <1>4, <1>5, <1>6, Parts DEF Together

LEMMA StutterTypes == TypeOK /\ Names /\ UNCHANGED vars => TypeOK' /\ Names'
BY Still, Parts DEF Together, vars, backend, worker, game

LEMMA NextTypes == TypeOK /\ Names /\ [Next]_vars => TypeOK' /\ Names'
BY BackendTypes, WorkTypes, HandleStartTypes, HandleStopTypes, HandleFullTypes, ToldTypes, PlayerTypes, WatcherTypes, RestartTypes,
  StutterTypes DEF Next, Handle, Told, Environment

\* TypesHold: for any number of searches, matches, restarts and waiting events, every part of the game's and the
\* backend's state has its type, and the worker's queue never exceeds its limit (Enqueue drops the oldest
\* job); an answer, a result and an event always name a search that exists (TypeOK).
THEOREM TypesHold == Spec => []TypeOK
<1>1. Init => TypeOK /\ Names
  BY InitTypes
<1> QED BY <1>1, NextTypes, PTL DEF Spec

-----------------------------------------------------------------------------
(* What the steps leave alone.                                             *)

\* the worker picks or drops something, or hears of its search
Steers == PickJob \/ PickStep \/ PickWatch \/ GiveUp \/ Ignored \/ Lost \/ Rejected \/ NothingFound \/ Answered
\* the player and the watcher
Acts == PressPlay \/ PressStop \/ PlayersAccept \/ (\E m \in Ids : Inspect(m)) \/ Notify

LEMMA NextSteps == Next => Backend \/ Steers \/ Serve \/ TimeOut \/ Adopt \/ Handle \/ Acts \/ Restart
BY DEF Next, Work, Steers, Acts, Environment

LEMMA Frames ==
  /\ Backend => UNCHANGED <<w, session, active, adopted, jobs, inbox, gc, arm, left, shown, joined, full, world>>
  /\ Steers => UNCHANGED <<row, ended, owner, ready, late, active, adopted, gc, arm, left, shown, joined, full, count, queued, world>>
  /\ Serve \/ TimeOut => UNCHANGED <<owner, session, active, adopted, jobs, inbox, gc, arm, left, shown, joined, full, count, queued, world>>
  /\ Adopt => UNCHANGED <<row, ended, owner, ready, late, gc, arm, shown, joined, full, count, queued, world>>
  /\ Handle => UNCHANGED <<row, ended, owner, ready, late, w, adopted, full, count, queued, world>>
  /\ Acts => UNCHANGED <<row, ended, owner, ready, late, w, session, active, adopted, jobs, gc, left, shown, joined, world>>
<1>1. Backend => UNCHANGED <<w, session, active, adopted, jobs, inbox, gc, arm, left, shown, joined, full, world>>
  BY DEF Backend, Assign, OthersAccept, Dissolve, Complete, Expire, Remove, LeaderStarts, ServeLate, worker, game
<1>2. Steers => UNCHANGED <<row, ended, owner, ready, late, active, adopted, gc, arm, left, shown, joined, full, count, queued, world>>
  BY DEF Steers, PickJob, PickStep, PickWatch, GiveUp, Ignored, Lost, Rejected, NothingFound, Answered, backend, game
<1>3. Serve \/ TimeOut => UNCHANGED <<owner, session, active, adopted, jobs, inbox, gc, arm, left, shown, joined, full, count, queued, world>>
  BY DEF Serve, TimeOut, game
<1>4. Adopt => UNCHANGED <<row, ended, owner, ready, late, gc, arm, shown, joined, full, count, queued, world>>
  BY DEF Adopt, backend
<1>5. HandleStart \/ HandleStop \/ HandleFull => UNCHANGED <<row, ended, owner, ready, late, w, adopted, full, count, queued, world>>
  BY DEF HandleStart, HandleStop, HandleFull, backend
<1>6. Told => UNCHANGED <<row, ended, owner, ready, late, w, adopted, full, count, queued, world>>
  BY DEF Told, HandleDiscovered, HandleAssigned, HandleSameMatch, HandleWithdrawn, HandleEnded, HandleOther, GcOnly, backend
<1>7. Acts => UNCHANGED <<row, ended, owner, ready, late, w, session, active, adopted, jobs, gc, left, shown, joined, world>>
  BY DEF Acts, PressPlay, PressStop, PlayersAccept, Inspect, Notify, backend, worker, game
<1> QED BY <1>1, <1>2, <1>3, <1>4, <1>5, <1>6, <1>7 DEF Handle, Told

-----------------------------------------------------------------------------
(* What was read of a match.                                               *)

\* What a step can do to the live search and to what the backend made.
Registers == (Serve /\ w.kind = "register") \/ \E req \in late : ServeLate(req)
RowStep ==
  \/ Refreshed /\ UNCHANGED owner
  \/ Registers /\ \E r \in Searches : Replaced(r) /\ UNCHANGED owner
  \/ row.st = "WAITING_ACCEPT" /\ Promoted /\ UNCHANGED <<ended, owner>>
  \/ row.rid # 0 /\ Finish /\ UNCHANGED <<owner, ready>>
  \/ \E m \in Ids : Assign(m)
  \/ Dissolve
  \/ LeaderStarts

LEMMA CallStep ==
  ASSUME RowOK, RowNamed, NEW kind, NEW r \in Searches \cup {0}, Do(kind, r), UNCHANGED owner,
         kind \in {"register", "cancel"} => r # 0, kind = "register" => Registers
  PROVE  RowStep
BY Calls DEF RowStep

LEMMA SameRow ==
  ASSUME row \in Row, UNCHANGED backend
  PROVE  Refreshed /\ UNCHANGED owner
BY DEF Refreshed, backend

LEMMA RowSteps ==
  ASSUME TypeOK, Names, Next
  PROVE  RowStep
<1>1. Together
  BY Parts
<1>2. row \in Row /\ RowOK /\ RowNamed /\ (row.st # "none" => row.rid # 0)
  BY <1>1 DEF Together, RowOK, RowNamed
<1>3. CASE UNCHANGED backend
  BY <1>2, <1>3, SameRow DEF RowStep
<1>4. ASSUME NEW req \in late, ServeLate(req) PROVE RowStep
  <2>1. req.rid \in Searches
    BY <1>1 DEF Together, LateOK
  <2> QED BY <1>2, <1>4, <2>1, CallStep, Numbers DEF ServeLate, Registers
<1>5. CASE Serve
  <2>1. w.rid \in Searches \cup {0} /\ (w.kind \in {"register", "cancel"} => w.rid # 0)
    BY <1>1 DEF Together, RequestOK, Request, RequestNamed
  <2> QED BY <1>2, <1>5, <2>1, CallStep DEF Serve, Registers
<1>6. CASE TimeOut
  <2>1. row' = row \/ (row.missed < Misses /\ row' = [row EXCEPT !.missed = @ + 1])
    BY <1>6 DEF TimeOut
  <2>2. row.missed < Misses => row.missed + 1 \in 0..Misses
    BY <1>2, Numbers DEF Row
  <2>3. Refreshed
    BY <1>2, <1>6, <2>1, <2>2 DEF TimeOut, Refreshed, Row
  <2> QED BY <1>6, <2>3 DEF TimeOut, RowStep
<1>7. CASE Backend
  BY <1>2, <1>4, <1>7 DEF Backend, OthersAccept, Complete, Expire, Remove, Assigned, RowStep
<1>8. CASE Steers \/ Adopt \/ Handle \/ Acts \/ Restart
  <2>1. UNCHANGED backend
    BY <1>8, Frames DEF Restart, backend
  <2> QED BY <1>3, <2>1
<1> QED BY <1>5, <1>6, <1>7, <1>8, NextSteps

\* What is known of a match stays: it was made, for this search, and has every accept.
Grows ==
  /\ count'.match \in Ids \cup {0} /\ count'.match >= count.match
  /\ \A m \in Ids : owner[m] # 0 => owner'[m] = owner[m]
  /\ ready \subseteq ready'

Owned == \A m \in Ids : owner[m] # 0 <=> m <= count.match

LEMMA Growing ==
  ASSUME TypeOK, Names, Owned, Next
  PROVE  Grows /\ Owned'
<1>1. count.match \in Ids \cup {0} /\ owner \in [Ids -> Searches \cup {0}] /\ ready \subseteq Ids
  BY Parts DEF Together, CountOK, RowOK
<1>2. ASSUME NEW m \in Ids, Assign(m) PROVE Grows /\ Owned'
  <2>1. m = count.match + 1 /\ owner' = [owner EXCEPT ![m] = row.rid] /\ count' = [count EXCEPT !.match = m] /\ UNCHANGED ready
    BY <1>2 DEF Assign
  <2>2. row.rid # 0
    BY <1>2 DEF Assign, Names, RowNamed
  <2>3. count'.match = m
    BY <2>1, Parts DEF Together, CountOK
  <2>4. \A k \in Ids : k # m => owner'[k] = owner[k]
    BY <1>1, <2>1
  <2>5. owner'[m] = row.rid /\ owner[m] = 0
    BY <1>1, <2>1, Numbers DEF Owned
  <2> QED BY <1>1, <2>1, <2>2, <2>3, <2>4, <2>5, Numbers DEF Grows, Owned
<1>3. CASE ~\E m \in Ids : Assign(m)
  <2>1. UNCHANGED owner /\ ready \subseteq ready'
    BY <1>3, RowSteps DEF RowStep, Refreshed, Replaced, Promoted, Finish, Dissolve, LeaderStarts
  <2>2. count'.match = count.match
    <3>1. CASE LeaderStarts \/ PressPlay \/ Restart
      <4>1. count \in [own : 0..Own, party : 0..Parties, match : Ids \cup {0}, crash : 0..Restarts]
        BY Parts DEF Together, CountOK
      <4>2. \E n : \/ count' = [count EXCEPT !.party = n] \/ count' = [count EXCEPT !.own = n] \/ count' = [count EXCEPT !.crash = n]
        BY <3>1 DEF LeaderStarts, PressPlay, Restart
      <4> QED BY <4>1, <4>2
    <3>2. CASE Backend /\ ~LeaderStarts
      BY <1>3, <3>2 DEF Backend, OthersAccept, Dissolve, Complete, Expire, Remove, ServeLate
    <3>3. CASE Acts /\ ~PressPlay
      BY <3>3 DEF Acts, PressStop, PlayersAccept, Inspect, Notify
    <3>4. CASE Steers \/ Serve \/ TimeOut \/ Adopt \/ Handle
      BY <3>4, Frames
    <3> QED BY <3>1, <3>2, <3>3, <3>4, NextSteps
  <2>3. count.match >= count.match
    <3>1. \A n \in Ids \cup {0} : n >= n
      BY Numbers
    <3> QED BY <1>1, <3>1
  <2>4. \A m \in Ids : owner'[m] = owner[m]
    BY <2>1
  <2>5. Grows
    BY <1>1, <2>1, <2>2, <2>3, <2>4 DEF Grows
  <2>6. Owned'
    BY <2>2, <2>4 DEF Owned
  <2> QED BY <2>5, <2>6
<1> QED BY <1>2, <1>3
-----------------------------------------------------------------------------
(* The invariant of the refinement.                                        *)

\* The world of the behaviour is one whose theorem this is: nothing comes between a packet of the
\* game server and the GC thread, and where leaders start searches the GC thread keeps up, no
\* Accept outlasts its session and no request is handled after it was given up.
Orderly == world.exact /\ (world.parties # 0 => world.calm /\ world.brief /\ world.prompt)

\* Parties play: the world of the behaviour has searches of party leaders.
Led == world.parties # 0

\* What was read of a match: who it was made for, and that it had every accept.
Good(rid, st, match) ==
  match # 0 => /\ rid # 0 /\ owner[match] = rid
               /\ st = "READY_TO_CONNECT" /\ rid \in AcceptModes => match \in ready

\* the events that wait for the GC thread
Waits == {inbox[i] : i \in 1..Len(inbox)}
Starts == {e \in Waits : e.kind = "start"}
ResultsIn == {e \in Waits : e.kind = "result"}

Seen ==
  /\ Good(row.rid, row.st, row.match) /\ Good(w.rid, w.st, w.match)
  /\ \A e \in ResultsIn : Good(e.rid, e.st, e.match)

\* The searches this game followed or follows, and what it asks and hears is of them.
Mine == left \cup ({active} \ {0})
Ours ==
  /\ active \notin left
  /\ w.kind \in {"register", "poll"} => w.rid \in Mine
  /\ \A e \in ResultsIn : e.rid \in Mine
  /\ \A m \in shown : owner[m] \in Mine

\* A pressed Play is of a search that comes after every search of the player before.
Fresh ==
  /\ \A r \in Mine : r <= Own => r <= count.own
  /\ \A e \in Starts : e.rid <= count.own /\ \A r \in Mine : r <= Own => r < e.rid
  /\ \A i, j \in 1..Len(inbox) :
       i < j /\ inbox[i].kind = "start" /\ inbox[j].kind = "start" => inbox[i].rid < inbox[j].rid

\* Without party leaders there are only searches of the player.
Unled == ~Led =>
  /\ ~row.member /\ (w.kind = "account" /\ w.code # "none" => ~w.member)
  /\ \A e \in ResultsIn : ~e.discovered
  /\ \A r \in Mine : r <= Own

\* With them the searches of the player and of the leaders do not overlap.
Unasked == session.phase # "Register" /\ w.kind # "register" /\ Starts = {}
Known == ended \cup {row.rid}
Turn ==
  /\ late = {} /\ Len(inbox) <= 1
  /\ row.member => row.rid > Own /\ Unasked
  /\ session.phase = "Poll" => w.kind # "register"
  /\ w.kind = "register" /\ w.rid = active => session.phase = "Register"
  /\ session.phase = "Poll" \/ (w.kind = "poll" /\ w.rid = active) => active \in Known
  /\ w.kind = "poll" /\ w.rid = active => w.code # "unknown"
  /\ w.code = "ok" /\ (w.kind = "account" => w.member) => w.rid \in Known
  /\ w.code = "refused" => w.kind = "register"
  /\ session.phase = "Register" => session.st = "none" /\ gc.pend = 0 /\ ResultsIn = {}
InTurn == Led => Turn

\* A leader's search comes after those that were followed before.
Newer == Led =>
  /\ w.kind = "account" /\ w.code = "ok" /\ w.member =>
       /\ w.rid > Own /\ w.rid >= adopted /\ w.rid <= Own + count.party
       /\ row.rid > Own => row.rid >= w.rid
  /\ row.rid > Own => row.rid >= adopted /\ row.rid <= Own + count.party
  /\ adopted <= Own + count.party
  /\ \A r \in Mine : r > Own => r <= adopted

\* While a popup is up the search is tracked, so that no leader's search is followed.
Tracked ==
  /\ ResultsIn = {} /\ gc.pend # 0 => session.phase # "Done" /\ Assigned(session.st)
  /\ \A e \in ResultsIn :
       /\ e.rid = active
       /\ IF e.discovered
            THEN gc.pend = 0 /\ \A m \in shown : owner[m] # active
            ELSE /\ session.st = e.st
                 /\ session.phase = "Done" => ~Assigned(session.st) \/ active \notin AcceptModes
Up == Led => Tracked

\* The game's view of the Accept.
Game ==
  /\ gc.pend = gc.popup
  /\ gc.pend # 0 =>
       gc.mode = "accept" /\ active \in AcceptModes /\ ~gc.active /\ owner[gc.pend] = active /\ gc.pend \in shown
  /\ gc.active /\ (\A e \in ResultsIn : ~e.discovered) => active # 0 /\ gc.mode = Mode(active)
  /\ gc.server => gc.pend # 0 /\ gc.pend \in full /\ ~arm.on
  /\ gc.backend => gc.pend # 0 /\ gc.pend \in ready

\* The watcher is armed for that Accept, and what it reports is of it.
Armed ==
  /\ arm.on => gc.pend = arm.for /\ arm.for # 0
  /\ arm.seen # 0 => arm.seen \in full /\ inbox = <<>> /\ (arm.on => arm.for = arm.seen)
  /\ \A i \in 1..Len(inbox) : inbox[i].kind = "full" =>
       i = 1 /\ ~arm.on /\ arm.seen = 0 /\ (gc.pend # 0 => gc.pend \in full)

\* A cancel is of a search the game left.
Gone ==
  /\ \A i \in 1..Len(jobs) : jobs[i].kind = "cancel" => jobs[i].rid \in left
  /\ w.kind = "cancel" => w.rid \in left
  /\ \A q \in late : q.kind = "cancel" => q.rid # active /\ q.rid <= Own /\ q.rid <= count.own /\ \A e \in Starts : q.rid < e.rid

\* The matches of the followed search in the order they are heard of: in the results that wait,
\* in the answer the worker got, and at the backend.  0 is a search without a match, -1 tells nothing.
Heard(e) == e.kind = "result" /\ ~e.discovered /\ e.rid = active
FromWorker == IF w.kind \in {"register", "poll"} /\ w.code # "none" /\ w.rid = active THEN w.match ELSE -1
FromRow == IF row.rid = active THEN row.match ELSE -1
News == [i \in 1..(Len(inbox) + 2) |->
  IF i <= Len(inbox) THEN (IF Heard(inbox[i]) THEN inbox[i].match ELSE -1)
  ELSE IF i = Len(inbox) + 1 THEN FromWorker ELSE FromRow]

\* They never go back, and a match after none is another one.
Rise(f, n) ==
  \A i, j \in 1..n : i < j /\ f[i] > 0 /\ f[j] > 0 =>
    f[i] <= f[j] /\ \A k \in 1..n : i < k /\ k < j /\ f[k] = 0 => f[i] < f[j]
Strict(m, f, n) == \A i \in 1..n : f[i] > 0 => m < f[i]
Weak(m, f, n) == \A i \in 1..n : f[i] > 0 => m <= f[i] /\ \A k \in 1..n : k < i /\ f[k] = 0 => m < f[i]
Rising == Rise(News, Len(inbox) + 2)
Above == gc.active \/ gc.pend # 0 =>
  \A m \in shown : owner[m] = active =>
    IF m = gc.pend THEN Weak(m, News, Len(inbox) + 2) ELSE Strict(m, News, Len(inbox) + 2)

Safe == Owned /\ Seen /\ Ours /\ Fresh /\ Unled /\ InTurn /\ Newer /\ Up /\ Game /\ Armed /\ Gone /\ Rising /\ Above

-----------------------------------------------------------------------------
(* The events that wait.                                                   *)

LEMMA WaitsType ==
  ASSUME InboxOK
  PROVE  Waits \subseteq Events /\ Len(inbox) \in Nat
BY DEF Waits, InboxOK

LEMMA WaitsSame ==
  ASSUME UNCHANGED inbox
  PROVE  Waits' = Waits /\ Starts' = Starts /\ ResultsIn' = ResultsIn
BY DEF Waits, Starts, ResultsIn

LEMMA Emptied == Restart \/ inbox' = <<>> => Waits' = {} /\ Starts' = {} /\ ResultsIn' = {}
<1>1. Restart => inbox' = <<>>
  BY DEF Restart
<1>2. inbox' = <<>> => Waits' = {}
  BY DEF Waits
<1>3. Waits' = {} => Starts' = {} /\ ResultsIn' = {}
  BY DEF Starts, ResultsIn
<1> QED BY <1>1, <1>2, <1>3

LEMMA WaitsTaken ==
  ASSUME InboxOK, inbox # <<>>, inbox' = Tail(inbox)
  PROVE  /\ Head(inbox) \in Waits /\ Head(inbox) \in Events /\ Waits' \subseteq Waits
         /\ Starts' \subseteq Starts /\ ResultsIn' \subseteq ResultsIn
         /\ Len(inbox) <= 1 => inbox' = <<>> /\ Waits' = {} /\ Starts' = {} /\ ResultsIn' = {}
<1>1. /\ inbox' \in Seq(Events) /\ Len(inbox) \in Nat \ {0} /\ Len(inbox') = Len(inbox) - 1
      /\ Head(inbox) \in Events /\ Head(inbox) = inbox[1]
      /\ \A i \in 1..Len(inbox') : inbox'[i] = inbox[i + 1]
  BY Tailed DEF InboxOK
<1>2. Head(inbox) \in Waits
  BY <1>1 DEF Waits
<1>3. Waits' \subseteq Waits
  <2>1. \A i \in 1..Len(inbox') : i + 1 \in 1..Len(inbox)
    BY <1>1
  <2> QED BY <1>1, <2>1 DEF Waits
<1>4. ASSUME Len(inbox) <= 1 PROVE inbox' = <<>> /\ Waits' = {}
  <2>1. Len(inbox') = 0
    BY <1>1, <1>4
  <2>2. inbox' = <<>>
    BY <1>1, <2>1
  <2>3. 1..Len(inbox') = {}
    <3>1. 1..0 = {}
      OBVIOUS
    <3> QED BY <2>1, <3>1
  <2> QED BY <2>2, <2>3 DEF Waits
<1>5. Starts' \subseteq Starts /\ ResultsIn' \subseteq ResultsIn
  BY <1>3 DEF Starts, ResultsIn
<1> QED BY <1>1, <1>2, <1>3, <1>4, <1>5 DEF Starts, ResultsIn

LEMMA WaitsPosted ==
  ASSUME InboxOK, NEW e \in Events, inbox' = Append(inbox, e)
  PROVE  /\ Waits' = Waits \cup {e} /\ Len(inbox') = Len(inbox) + 1
         /\ Starts' = Starts \cup (IF e.kind = "start" THEN {e} ELSE {})
         /\ ResultsIn' = ResultsIn \cup (IF e.kind = "result" THEN {e} ELSE {})
<1>1. /\ inbox' \in Seq(Events) /\ Len(inbox) \in Nat /\ Len(inbox') = Len(inbox) + 1
      /\ \A i \in 1..Len(inbox) : inbox'[i] = inbox[i]
      /\ inbox'[Len(inbox) + 1] = e
  BY Appended DEF InboxOK
<1>2. 1..Len(inbox') = 1..Len(inbox) \cup {Len(inbox) + 1}
  BY <1>1
<1>3. Waits' = Waits \cup {e}
  BY <1>1, <1>2 DEF Waits
<1> QED BY <1>1, <1>3 DEF Starts, ResultsIn

\* the search of an event
LEMMA WaitsNamed ==
  ASSUME TypeOK, Names, NEW e \in ResultsIn
  PROVE  /\ e \in Waits /\ e.kind = "result" /\ e.rid \in Searches /\ e.st \in States \cup {"ENDED"}
         /\ e.match \in Ids \cup {0} /\ e.discovered \in BOOLEAN
         /\ Assigned(e.st) <=> e.match # 0
<1>1. InboxOK /\ InboxNamed
  BY Parts DEF Together
<1>2. PICK i \in 1..Len(inbox) : inbox[i] = e
  BY DEF ResultsIn, Waits
<1>3. inbox[i] \in Events /\ i \in DOMAIN inbox
  BY <1>1 DEF InboxOK
<1> QED BY <1>1, <1>2, <1>3, EventKinds DEF InboxNamed, ResultNamed, ResultsIn


\* What becomes of the waiting events in a step.
Awaits(e) == e \in Events /\ Post(e) /\ inbox' = Append(inbox, e)
InboxStep ==
  \/ UNCHANGED inbox
  \/ Handle /\ inbox # <<>> /\ inbox' = Tail(inbox) /\ (world.exact => arm.seen = 0)
  \/ inbox' = <<>> /\ Restart
  \/ Answered /\ Awaits(Result(FALSE))
  \/ Adopt /\ Awaits(Result(TRUE))
  \/ PressPlay /\ Awaits([kind |-> "start", rid |-> count.own + 1])
  \/ PressStop /\ Awaits([kind |-> "stop"])
  \/ Notify /\ Awaits([kind |-> "full"])

-----------------------------------------------------------------------------
(* What the GC thread does with an event, field by field.                  *)

GcBecomes(pend, server, bck, popup, searching, mode) ==
  /\ gc'.pend = pend /\ gc'.server = server /\ gc'.backend = bck /\ gc'.popup = popup
  /\ gc'.active = searching /\ gc'.mode = mode
Tracks == UNCHANGED <<active, left>>
Heading == Head(inbox).kind = "result" /\ ~Head(inbox).discovered /\ Head(inbox).rid = active

Begins ==
  /\ Head(inbox).kind = "start" /\ Head(inbox).rid \in Searches
  /\ active' = Head(inbox).rid /\ left' = Mine /\ session'.phase = "Register" /\ session'.st = "none"
  /\ GcBecomes(0, FALSE, FALSE, 0, TRUE, Mode(Head(inbox).rid)) /\ arm'.on = FALSE
  /\ UNCHANGED <<jobs, shown, joined>>
Leaves ==
  /\ Head(inbox).kind = "stop"
  /\ active' = 0 /\ left' = Mine /\ session'.phase = "Done"
  /\ GcBecomes(0, FALSE, FALSE, 0, FALSE, "none") /\ arm'.on = FALSE
  /\ UNCHANGED jobs \/ (active # 0 /\ Enqueue("cancel", active))
  /\ UNCHANGED <<shown, joined>>
Ignores ==
  /\ UNCHANGED <<gc, arm, session, jobs, shown, joined>> /\ Tracks
  /\ Head(inbox).kind \in {"stop", "full", "result"}
  /\ Head(inbox).kind = "result" =>
       ~Head(inbox).discovered /\ (gc.pend # 0 /\ Head(inbox).rid = active => Assigned(Head(inbox).st))
Reports ==
  /\ Head(inbox).kind = "full" /\ gc.pend # 0
  /\ GcBecomes(gc.pend, TRUE, gc.backend, gc.popup, gc.active, gc.mode)
  /\ UNCHANGED jobs \/ (active # 0 /\ Enqueue("accepted", active))
  /\ UNCHANGED <<arm, session, shown, joined>> /\ Tracks
Confirms ==
  /\ Heading /\ Head(inbox).st = "READY_TO_CONNECT" /\ gc.pend # 0 /\ Head(inbox).match = gc.pend
  /\ GcBecomes(gc.pend, gc.server, TRUE, gc.popup, gc.active, gc.mode)
  /\ UNCHANGED <<arm, session, jobs, shown, joined>> /\ Tracks
Connects ==
  /\ gc.pend # 0
  /\ \/ /\ Head(inbox).kind = "full" /\ gc.backend
        /\ UNCHANGED jobs \/ (active # 0 /\ Enqueue("accepted", active))
     \/ /\ Heading /\ Head(inbox).st = "READY_TO_CONNECT" /\ Head(inbox).match = gc.pend /\ gc.server
        /\ UNCHANGED jobs
  /\ GcBecomes(0, FALSE, FALSE, 0, gc.active, gc.mode)
  /\ joined' = joined \cup {gc.pend} /\ session'.phase = "Done" /\ session'.st = session.st
  /\ UNCHANGED <<arm, shown>> /\ Tracks
Discovers ==
  /\ Head(inbox).kind = "result" /\ Head(inbox).discovered
  /\ GcBecomes(0, FALSE, FALSE, gc.popup, TRUE, Mode(Head(inbox).rid)) /\ arm'.on = FALSE
  /\ UNCHANGED <<session, jobs, shown, joined>> /\ Tracks
Offered ==
  /\ Heading /\ Assigned(Head(inbox).st)
  /\ (gc.pend # 0 /\ Head(inbox).match # gc.pend) \/ (gc.pend = 0 /\ gc.active)
  /\ shown' = shown \cup {Head(inbox).match}
  /\ UNCHANGED <<session, jobs>> /\ Tracks
Pops ==
  /\ Offered /\ gc.mode = "accept" /\ UNCHANGED joined
  /\ GcBecomes(Head(inbox).match, FALSE, Head(inbox).st = "READY_TO_CONNECT", Head(inbox).match, FALSE, gc.mode)
  /\ arm'.on = TRUE /\ arm'.for = Head(inbox).match
Joins ==
  /\ Offered /\ gc.mode # "accept" /\ joined' = joined \cup {Head(inbox).match}
  /\ GcBecomes(0, FALSE, FALSE, 0, FALSE, gc.mode) /\ arm'.on = FALSE
Withdraws ==
  /\ Heading /\ Head(inbox).st = "SEARCHING" /\ gc.pend # 0
  /\ GcBecomes(0, FALSE, FALSE, 0, TRUE, gc.mode) /\ arm'.on = FALSE
  /\ UNCHANGED <<session, jobs, shown, joined>> /\ Tracks
Ends ==
  /\ Heading /\ Head(inbox).st = "ENDED"
  /\ \/ gc.pend # 0 /\ GcBecomes(0, FALSE, FALSE, 0, FALSE, "none") /\ arm'.on = FALSE
     \/ gc.pend = 0 /\ gc.active /\ GcBecomes(0, gc.server, gc.backend, gc.popup, FALSE, "none") /\ UNCHANGED arm
  /\ UNCHANGED <<session, jobs, shown, joined>> /\ Tracks

Effect ==
  \/ Begins \/ Leaves \/ Ignores \/ Reports \/ Confirms \/ Connects
  \/ Discovers \/ Pops \/ Joins \/ Withdraws \/ Ends

LEMMA GcFields ==
  ASSUME NEW g \in Gc
  PROVE  /\ \A b \in BOOLEAN : [g EXCEPT !.server = b] \in Gc /\ [g EXCEPT !.backend = b] \in Gc
         /\ gc' = NotAccepting(g) => GcBecomes(0, FALSE, FALSE, g.popup, g.active, g.mode)
         /\ gc' = [NotAccepting(g) EXCEPT !.popup = 0] => GcBecomes(0, FALSE, FALSE, 0, g.active, g.mode)
<1>1. \A b \in BOOLEAN : [g EXCEPT !.server = b] \in Gc /\ [g EXCEPT !.backend = b] \in Gc
  BY DEF Gc
<1>2. gc' = NotAccepting(g) => GcBecomes(0, FALSE, FALSE, g.popup, g.active, g.mode)
  BY DEF Gc, NotAccepting, GcBecomes
<1>3. gc' = [NotAccepting(g) EXCEPT !.popup = 0] => GcBecomes(0, FALSE, FALSE, 0, g.active, g.mode)
  BY DEF Gc, NotAccepting, GcBecomes
<1> QED BY <1>1, <1>2, <1>3

\* an Accept that came to g
LEMMA Tries ==
  ASSUME NEW g \in Gc, session \in Session, TryConnect(g)
  PROVE  \/ /\ g.server /\ g.backend /\ GcBecomes(0, FALSE, FALSE, 0, g.active, g.mode)
            /\ joined' = joined \cup {g.pend} /\ session'.phase = "Done" /\ session'.st = session.st
         \/ /\ GcBecomes(g.pend, g.server, g.backend, g.popup, g.active, g.mode)
            /\ UNCHANGED <<joined, session>>
<1>1. CASE g.server /\ g.backend
  <2>1. GcBecomes(0, FALSE, FALSE, 0, g.active, g.mode)
    BY <1>1, GcFields DEF TryConnect
  <2>2. session' = [session EXCEPT !.phase = "Done"] /\ joined' = joined \cup {g.pend}
    BY <1>1 DEF TryConnect
  <2>3. session'.phase = "Done" /\ session'.st = session.st
    BY <2>2 DEF Session
  <2> QED BY <1>1, <2>1, <2>2, <2>3
<1>2. CASE ~(g.server /\ g.backend)
  BY <1>2 DEF TryConnect, GcBecomes
<1> QED BY <1>1, <1>2

LEMMA StartEffect ==
  ASSUME TypeOK, Names, HandleStart
  PROVE  Begins
<1>1. Head(inbox) \in Events /\ Head(inbox).kind = "start"
  BY TakenNamed DEF HandleStart
<1>2. PICK r \in Searches : r = Head(inbox).rid
  BY <1>1, EventKinds
<1>3. PICK md : md = Mode(r)
  OBVIOUS
<1>4. gc' = [NoGc EXCEPT !.active = TRUE, !.mode = md]
  BY <1>2, <1>3 DEF HandleStart
<1>5. PICK z : z = NoGc
  OBVIOUS
<1>6. z \in Gc /\ z.pend = 0 /\ z.popup = 0 /\ z.server = FALSE /\ z.backend = FALSE
  BY <1>5, NoGcType
<1>7. gc' = [z EXCEPT !.active = TRUE, !.mode = md]
  BY <1>4, <1>5
<1>8. GcBecomes(0, FALSE, FALSE, 0, TRUE, md)
  BY <1>6, <1>7 DEF Gc, GcBecomes
<1>9. session'.phase = "Register" /\ session'.st = "none"
  <2>1. session' = [NoSession EXCEPT !.rid = r, !.phase = "Register"]
    BY <1>2 DEF HandleStart
  <2> QED BY <2>1, NewSession
<1>10. arm'.on = FALSE
  BY Parts, Disarming DEF Together, GameOK, HandleStart
<1>11. active' = r /\ left' = Mine /\ UNCHANGED <<jobs, shown, joined>>
  BY <1>2 DEF HandleStart, Leave, Mine
<1> QED BY <1>1, <1>2, <1>3, <1>8, <1>9, <1>10, <1>11 DEF Begins

LEMMA StopEffect ==
  ASSUME TypeOK, Names, HandleStop
  PROVE  Leaves \/ Ignores
<1>1. Head(inbox).kind = "stop" /\ UNCHANGED <<shown, joined>>
  BY DEF HandleStop, Got
<1>2. CASE Followed
  BY <1>1, <1>2 DEF HandleStop, Ignores, Tracks
<1>3. CASE ~Followed
  <2>1. PICK z : z = NoGc
    OBVIOUS
  <2>2. z \in Gc /\ z.pend = 0 /\ z.popup = 0 /\ z.server = FALSE /\ z.backend = FALSE /\ z.active = FALSE /\ z.mode = "none"
    BY <2>1, NoGcType
  <2>3. gc' = [z EXCEPT !.follows = gc.follows]
    BY <1>3, <2>1 DEF HandleStop
  <2>4. GcBecomes(0, FALSE, FALSE, 0, FALSE, "none")
    BY <2>2, <2>3 DEF Gc, GcBecomes
  <2>5. arm'.on = FALSE
    BY <1>3, Parts, Disarming DEF Together, GameOK, HandleStop
  <2>6. left' = Mine
    BY <1>3 DEF HandleStop, Leave, Mine
  <2>7. active' = 0 /\ session'.phase = "Done" /\ (UNCHANGED jobs \/ (active # 0 /\ Enqueue("cancel", active)))
    BY <1>3, Parts, NoSessionType DEF HandleStop, Together, SessionNamed
  <2> QED BY <1>1, <2>4, <2>5, <2>6, <2>7 DEF Leaves
<1> QED BY <1>2, <1>3

LEMMA FullEffect ==
  ASSUME TypeOK, Names, HandleFull
  PROVE  Reports \/ Connects \/ Ignores
<1>1. Head(inbox).kind = "full" /\ UNCHANGED <<active, left, arm, shown>> /\ gc \in Gc /\ session \in Session
  BY Parts DEF HandleFull, Got, Together, GameOK, SessionOK
<1>2. CASE gc.pend = 0 \/ gc.server
  BY <1>1, <1>2 DEF HandleFull, Ignores, Tracks
<1>3. CASE ~(gc.pend = 0 \/ gc.server)
  <2>1. PICK g : g = [gc EXCEPT !.server = TRUE]
    OBVIOUS
  <2>2. g \in Gc /\ g.server = TRUE /\ g.pend = gc.pend /\ g.backend = gc.backend /\ g.popup = gc.popup /\ g.active = gc.active /\ g.mode = gc.mode
    BY <1>1, <2>1 DEF Gc
  <2>3. TryConnect(g) /\ (UNCHANGED jobs \/ (active # 0 /\ Enqueue("accepted", active)))
    BY <1>3, <2>1 DEF HandleFull
  <2> QED BY <1>1, <1>3, <2>2, <2>3, Tries DEF Reports, Connects, Tracks
<1> QED BY <1>2, <1>3

\* a result of a search
LEMMA Hearing ==
  ASSUME TypeOK, Names, NEW b, GotResult(b)
  PROVE  /\ Head(inbox).kind = "result" /\ Head(inbox).discovered = b /\ Head(inbox).match \in Ids \cup {0}
         /\ Head(inbox).st \in States \cup {"ENDED"}
         /\ gc \in Gc /\ session \in Session /\ arm \in Arm
BY TakenNamed, EventKinds, Parts DEF GotResult, Together, GameOK, SessionOK

LEMMA DiscoveredEffect ==
  ASSUME TypeOK, Names, HandleDiscovered
  PROVE  Discovers
<1>1. Head(inbox).kind = "result" /\ Head(inbox).discovered /\ gc \in Gc /\ arm \in Arm
  BY Hearing DEF HandleDiscovered
<1>2. PICK z, md : z = NotAccepting(gc) /\ md = Mode(Head(inbox).rid)
  OBVIOUS
<1>3. z \in Gc /\ z.pend = 0 /\ z.popup = gc.popup /\ z.server = FALSE /\ z.backend = FALSE
  BY <1>1, <1>2, NotAcceptingType
<1>4. gc' = [z EXCEPT !.active = TRUE, !.mode = md, !.follows = TRUE]
  BY <1>2 DEF HandleDiscovered
<1>5. GcBecomes(0, FALSE, FALSE, gc.popup, TRUE, md)
  BY <1>3, <1>4 DEF Gc, GcBecomes
<1>6. arm'.on = FALSE
  BY <1>1, Disarming DEF HandleDiscovered
<1> QED BY <1>1, <1>2, <1>5, <1>6 DEF HandleDiscovered, GcOnly, Discovers, Tracks

LEMMA AssignedEffect ==
  ASSUME TypeOK, Names, HandleAssigned
  PROVE  Pops \/ Joins
<1>1. /\ Head(inbox).kind = "result" /\ Head(inbox).discovered = FALSE /\ gc \in Gc /\ arm \in Arm
      /\ Head(inbox).match \in Ids \cup {0} /\ Head(inbox).st \in States \cup {"ENDED"}
  BY Hearing DEF HandleAssigned
<1>2. Offered
  BY <1>1 DEF HandleAssigned, Offered, Heading, OfAccept, OfSearch, StartServerFlow, GcOnly, Tracks
<1>3. PICK z, e, b : z = NotAccepting(gc) /\ e = Head(inbox).match /\ b = (Head(inbox).st = "READY_TO_CONNECT")
  OBVIOUS
<1>4. z \in Gc /\ z.pend = 0 /\ z.server = FALSE /\ z.backend = FALSE /\ z.mode = gc.mode /\ b \in BOOLEAN
  BY <1>1, <1>3, NotAcceptingType
<1>5. CASE gc.mode = "accept"
  <2>1. gc' = [z EXCEPT !.active = FALSE, !.pend = e, !.popup = e, !.backend = b]
    BY <1>3, <1>5 DEF HandleAssigned, StartServerFlow
  <2>2. GcBecomes(e, FALSE, b, e, FALSE, gc.mode)
    BY <1>4, <2>1 DEF Gc, GcBecomes
  <2>3. arm' = [arm EXCEPT !.on = TRUE, !.for = e]
    BY <1>3, <1>5 DEF HandleAssigned, StartServerFlow
  <2>4. arm'.on = TRUE /\ arm'.for = e
    BY <1>1, <2>3 DEF Arm
  <2>5. joined' = joined
    BY <1>5 DEF HandleAssigned, StartServerFlow
  <2> QED BY <1>2, <1>3, <1>5, <2>2, <2>4, <2>5 DEF Pops
<1>6. CASE gc.mode # "accept"
  <2>1. gc' = [z EXCEPT !.active = FALSE, !.popup = 0]
    BY <1>3, <1>6 DEF HandleAssigned, StartServerFlow
  <2>2. GcBecomes(0, FALSE, FALSE, 0, FALSE, gc.mode)
    BY <1>4, <2>1 DEF Gc, GcBecomes
  <2>3. arm' = [arm EXCEPT !.on = FALSE]
    BY <1>6 DEF HandleAssigned, StartServerFlow
  <2>4. arm'.on = FALSE
    BY <1>1, <2>3, Disarming
  <2>5. joined' = joined \cup {Head(inbox).match}
    BY <1>6 DEF HandleAssigned, StartServerFlow
  <2> QED BY <1>2, <1>6, <2>2, <2>4, <2>5 DEF Joins
<1> QED BY <1>5, <1>6

LEMMA SameMatchEffect ==
  ASSUME TypeOK, Names, HandleSameMatch
  PROVE  Confirms \/ Connects \/ Ignores
<1>1. /\ Heading /\ gc.pend # 0 /\ Head(inbox).match = gc.pend /\ Assigned(Head(inbox).st) /\ gc \in Gc /\ session \in Session
      /\ Head(inbox).kind = "result" /\ ~Head(inbox).discovered
      /\ UNCHANGED <<active, left, jobs, arm, shown>>
  BY Hearing DEF HandleSameMatch, OfAccept, Heading, GcOnly
<1>2. CASE Head(inbox).st # "READY_TO_CONNECT"
  BY <1>1, <1>2 DEF HandleSameMatch, Ignores, Tracks
<1>3. CASE Head(inbox).st = "READY_TO_CONNECT"
  <2>1. PICK g : g = [gc EXCEPT !.backend = TRUE]
    OBVIOUS
  <2>2. g \in Gc /\ g.backend = TRUE /\ g.pend = gc.pend /\ g.server = gc.server /\ g.popup = gc.popup /\ g.active = gc.active /\ g.mode = gc.mode
    BY <1>1, <2>1 DEF Gc
  <2>3. TryConnect(g)
    BY <1>3, <2>1 DEF HandleSameMatch
  <2> QED BY <1>1, <1>3, <2>2, <2>3, Tries DEF Confirms, Connects, Tracks
<1> QED BY <1>2, <1>3

LEMMA WithdrawnEffect ==
  ASSUME TypeOK, Names, HandleWithdrawn
  PROVE  Withdraws
<1>1. Heading /\ Head(inbox).st = "SEARCHING" /\ gc.pend # 0 /\ gc \in Gc /\ arm \in Arm
  BY Hearing DEF HandleWithdrawn, OfAccept, Heading
<1>2. PICK z : z = NotAccepting(gc)
  OBVIOUS
<1>3. z \in Gc /\ z.pend = 0 /\ z.server = FALSE /\ z.backend = FALSE /\ z.mode = gc.mode
  BY <1>1, <1>2, NotAcceptingType
<1>4. gc' = [z EXCEPT !.popup = 0, !.active = TRUE]
  BY <1>2 DEF HandleWithdrawn
<1>5. GcBecomes(0, FALSE, FALSE, 0, TRUE, gc.mode)
  BY <1>3, <1>4 DEF Gc, GcBecomes
<1>6. arm'.on = FALSE
  BY <1>1, Disarming DEF HandleWithdrawn
<1> QED BY <1>1, <1>5, <1>6 DEF HandleWithdrawn, GcOnly, Withdraws, Tracks

LEMMA EndedEffect ==
  ASSUME TypeOK, Names, HandleEnded
  PROVE  Ends
<1>1. Head(inbox).kind = "result" /\ Head(inbox).discovered = FALSE /\ Head(inbox).st = "ENDED" /\ gc \in Gc /\ arm \in Arm
  BY Hearing DEF HandleEnded
<1>2. UNCHANGED <<session, jobs, shown, joined, active, left>>
  BY DEF HandleEnded, GcOnly
<1>3. CASE OfAccept /\ gc' = [NoGc EXCEPT !.follows = gc.follows] /\ arm' = [arm EXCEPT !.on = FALSE]
  <2>1. PICK z : z = NoGc
    OBVIOUS
  <2>2. z \in Gc /\ z.pend = 0 /\ z.popup = 0 /\ z.server = FALSE /\ z.backend = FALSE /\ z.active = FALSE /\ z.mode = "none"
    BY <2>1, NoGcType
  <2>3. gc' = [z EXCEPT !.follows = gc.follows]
    BY <1>3, <2>1
  <2>4. GcBecomes(0, FALSE, FALSE, 0, FALSE, "none")
    BY <2>2, <2>3 DEF Gc, GcBecomes
  <2>5. arm'.on = FALSE
    BY <1>1, <1>3, Disarming
  <2> QED BY <1>1, <1>2, <1>3, <2>4, <2>5 DEF Ends, Heading, OfAccept, Tracks
<1>4. CASE OfSearch /\ gc' = [gc EXCEPT !.active = FALSE, !.mode = "none"] /\ UNCHANGED arm
  <2>1. GcBecomes(0, gc.server, gc.backend, gc.popup, FALSE, "none")
    BY <1>1, <1>4 DEF Gc, GcBecomes, OfSearch
  <2> QED BY <1>1, <1>2, <1>4, <2>1 DEF Ends, Heading, OfSearch, Tracks
<1> QED BY <1>3, <1>4 DEF HandleEnded

LEMMA OtherEffect ==
  ASSUME TypeOK, Names, HandleOther
  PROVE  Ignores
<1>1. Head(inbox).kind = "result" /\ Head(inbox).discovered = FALSE
  BY Hearing DEF HandleOther
<1> QED BY <1>1 DEF HandleOther, OfAccept, GcOnly, game, Ignores, Tracks

LEMMA Handles ==
  ASSUME TypeOK, Names, Handle
  PROVE  /\ Effect /\ inbox # <<>> /\ inbox' = Tail(inbox) /\ (world.exact => arm.seen = 0)
         /\ arm'.seen = arm.seen
<1>1. Effect
  BY StartEffect, StopEffect, FullEffect, DiscoveredEffect, AssignedEffect, SameMatchEffect, WithdrawnEffect, EndedEffect,
    OtherEffect DEF Handle, Effect
<1>2. inbox # <<>> /\ inbox' = Tail(inbox) /\ (world.exact => arm.seen = 0)
  BY DEF Handle, HandleStart, HandleStop, HandleFull, HandleDiscovered, HandleAssigned, HandleSameMatch, HandleWithdrawn,
    HandleEnded, HandleOther, GotResult, Got
<1>3. arm' = arm \/ arm' = [arm EXCEPT !.on = FALSE] \/ \E m : arm' = [arm EXCEPT !.on = TRUE, !.for = m]
  BY DEF Handle, HandleStart, HandleStop, HandleFull, HandleDiscovered, HandleAssigned, HandleSameMatch, HandleWithdrawn,
    HandleEnded, HandleOther, StartServerFlow, game
<1>4. arm'.seen = arm.seen
  BY <1>3, Parts DEF Together, GameOK, Arm
<1> QED BY <1>1, <1>2, <1>4

LEMMA InboxSteps ==
  ASSUME TypeOK, Names, Next
  PROVE  InboxStep
<1>1. CASE Backend \/ Serve \/ TimeOut
  BY <1>1, Frames DEF InboxStep
<1>2. CASE Handle
  BY <1>2, Handles DEF InboxStep
<1>3. CASE Restart
  BY <1>3 DEF InboxStep, Restart
<1>4. CASE Answered
  <2>1. w.code = "ok" /\ w.rid # 0
    BY <1>4, Parts DEF Together, RequestNamed, Answered
  <2>2. Result(FALSE) \in Events
    BY <2>1, Results
  <2>3. UNCHANGED inbox \/ Post(Result(FALSE))
    BY <1>4 DEF Answered
  <2> QED BY <1>4, <2>2, <2>3 DEF InboxStep, Awaits, Post
<1>5. CASE Adopt
  <2>1. w.code = "ok" /\ w.rid # 0
    BY <1>5, Parts DEF Together, RequestNamed, Adopt, Adoptable
  <2>2. Result(TRUE) \in Events /\ Post(Result(TRUE))
    BY <1>5, <2>1, Results DEF Adopt
  <2> QED BY <1>5, <2>2 DEF InboxStep, Awaits, Post
<1>6. CASE Steers /\ ~Answered
  BY <1>6 DEF InboxStep, Steers, PickJob, PickStep, PickWatch, GiveUp, Ignored, Lost, Rejected, NothingFound
<1>7. CASE PressPlay
  <2>1. count.own \in 0..Own /\ count.own < world.own /\ world.own \in 0..Own
    BY <1>7, Parts, WorldType DEF PressPlay, Together, CountOK
  <2>2. PICK n \in 1..Own : n = count.own + 1
    BY <2>1, Numbers
  <2>3. PICK e : e = [kind |-> "start", rid |-> n]
    OBVIOUS
  <2>4. e \in Events
    BY <2>3, Numbers DEF Events
  <2> QED BY <1>7, <2>2, <2>3, <2>4 DEF InboxStep, Awaits, Post, PressPlay
<1>8. CASE PressStop
  <2>1. [kind |-> "stop"] \in Events
    BY DEF Events
  <2> QED BY <1>8, <2>1 DEF InboxStep, Awaits, Post, PressStop
<1>9. CASE Notify
  <2>1. [kind |-> "full"] \in Events
    BY DEF Events
  <2> QED BY <1>9, <2>1 DEF InboxStep, Awaits, Post, Notify
<1>10. CASE PlayersAccept \/ \E m \in Ids : Inspect(m)
  BY <1>10 DEF InboxStep, PlayersAccept, Inspect
<1> QED BY <1>1, <1>2, <1>3, <1>4, <1>5, <1>6, <1>7, <1>8, <1>9, <1>10, NextSteps DEF Acts

\* What becomes of the worker's request in a step.
Asks(kind, r) == w'.kind = kind /\ w'.rid = r /\ w'.code = "none" /\ w'.match = 0
RequestStep ==
  \/ UNCHANGED w /\ ~Serve
  \/ Asks("none", 0) /\ (Serve => w.kind \in {"cancel", "accepted", "snapshot"})
  \/ TimeOut /\ w.kind \in {"accepted", "snapshot"} /\ \A k \in {"kind", "rid", "code", "match"} : w'[k] = w[k]
  \/ PickJob /\ jobs # <<>> /\ Asks(Head(jobs).kind, Head(jobs).rid)
  \/ PickStep /\ Asks(IF session.phase = "Register" THEN "register" ELSE "poll", active)
  \/ PickWatch /\ Asks("account", 0)
  \/ Serve /\ Answer(w')

LEMMA RequestSteps ==
  ASSUME TypeOK, Names, Next
  PROVE  RequestStep
<1>1. Together
  BY Parts
<1>2. w \in Request /\ session.rid = active
  BY <1>1 DEF Together, RequestOK, SessionNamed
<1>3. ASSUME NEW b \in BOOLEAN, w' = Idle(b) PROVE Asks("none", 0)
  BY <1>3, IdleType DEF Asks
<1>4. CASE Serve
  BY <1>3, <1>4, Answering DEF RequestStep
<1>5. CASE TimeOut
  <2>1. CASE w.kind \in {"accepted", "snapshot"} /\ w.tries < Attempts
    <3>1. PICK n : n = w.tries + 1
      OBVIOUS
    <3>2. w' = [w EXCEPT !.tries = n]
      BY <1>5, <2>1, <3>1 DEF TimeOut
    <3>3. w'["kind"] = w["kind"] /\ w'["rid"] = w["rid"] /\ w'["code"] = w["code"] /\ w'["match"] = w["match"]
      BY <1>2, <3>2 DEF Request
    <3> QED BY <1>5, <2>1, <3>3 DEF RequestStep
  <2>2. CASE w' = Idle(TRUE) /\ ~Serve
    BY <1>3, <2>2 DEF RequestStep
  <2>3. CASE Serve
    BY <1>4, <2>3
  <2> QED BY <1>5, <2>1, <2>2, <2>3 DEF TimeOut
<1>6. CASE Backend \/ Handle \/ Acts \/ GiveUp
  BY <1>4, <1>6, Frames DEF GiveUp, RequestStep
<1>7. CASE Ignored \/ Lost \/ Rejected \/ Answered \/ NothingFound \/ Adopt \/ Restart
  <2>1. w' = Idle(FALSE)
    BY <1>7 DEF Ignored, Lost, Rejected, Answered, NothingFound, Adopt, Restart
  <2> QED BY <1>3, <1>4, <2>1 DEF RequestStep
<1>8. CASE PickJob
  <2>1. jobs \in Seq(Job) /\ jobs # <<>>
    BY <1>1, <1>8 DEF Together, JobsOK, PickJob
  <2>2. Head(jobs) \in Job
    BY <2>1
  <2>3. Head(jobs).kind \in Kinds /\ Head(jobs).rid \in Searches \cup {0} /\ Head(jobs).kind # "account" /\ Head(jobs).rid # 0
    BY <2>2, Numbers DEF Job, Kinds
  <2>4. CASE Send(Head(jobs).kind, Head(jobs).rid)
    <3>1. PICK k \in Kinds, r \in Searches \cup {0} : k = Head(jobs).kind /\ r = Head(jobs).rid /\ r # 0
      BY <2>3
    <3>2. Asks(k, r)
      BY <2>4, <3>1, SentRequest DEF Asks
    <3> QED BY <1>8, <2>1, <3>1, <3>2 DEF RequestStep
  <2> QED BY <1>4, <1>8, <2>4 DEF PickJob, RequestStep
<1>9. CASE PickStep
  <2>1. active \in Searches \cup {0} /\ active # 0 /\ session.phase \in {"Register", "Poll"}
    BY <1>1, <1>9 DEF Together, SessionOK, SessionNamed, Session, PickStep
  <2>2. PICK k \in Kinds : k = IF session.phase = "Register" THEN "register" ELSE "poll"
    BY DEF Kinds
  <2>3. Send(k, active)
    BY <1>2, <1>9, <2>2 DEF PickStep
  <2>4. Asks(k, active)
    BY <2>1, <2>3, SentRequest DEF Asks
  <2> QED BY <1>9, <2>2, <2>4 DEF RequestStep
<1>10. CASE PickWatch
  <2>1. Asks("account", 0)
    BY <1>10, SentRequest DEF PickWatch, Asks, Kinds
  <2> QED BY <1>10, <2>1 DEF RequestStep
<1> QED BY <1>4, <1>5, <1>6, <1>7, <1>8, <1>9, <1>10, NextSteps DEF Steers

\* What was read of a match stays true.
GoodAfter(rid, st, match) ==
  match # 0 => /\ rid # 0 /\ owner'[match] = rid
               /\ st = "READY_TO_CONNECT" /\ rid \in AcceptModes => match \in ready'

LEMMA GoodStays ==
  ASSUME Grows, NEW rid, NEW st, NEW match \in Ids \cup {0}, Good(rid, st, match)
  PROVE  GoodAfter(rid, st, match)
BY DEF Grows, Good, GoodAfter

LEMMA RowSeen ==
  ASSUME TypeOK, Names, Grows, Seen, RowStep
  PROVE  GoodAfter(row'.rid, row'.st, row'.match)
<1>1. row \in Row /\ owner \in [Ids -> Searches \cup {0}] /\ RowNamed
  BY Parts DEF Together, RowOK
<1>2. Good(row.rid, row.st, row.match) /\ GoodAfter(row.rid, row.st, row.match)
  BY <1>1, GoodStays DEF Seen, Row
<1>3. CASE Refreshed
  BY <1>2, <1>3 DEF Refreshed
<1>4. ASSUME NEW r \in Searches, NEW b, row' = NewRow(r, b) PROVE row'.match = 0
  <2>1. PICK z : z = NoRow
    OBVIOUS
  <2>2. row' = [z EXCEPT !.rid = r, !.member = b, !.st = "SEARCHING"]
    BY <1>4, <2>1 DEF NewRow
  <2> QED BY <2>1, <2>2, NoRowType DEF Row
<1>5. CASE \E r \in Searches : Replaced(r)
  BY <1>4, <1>5 DEF Replaced, GoodAfter
<1>6. CASE row.st = "WAITING_ACCEPT" /\ Promoted
  <2>1. row'.rid = row.rid /\ row'.match = row.match /\ row.match \in ready'
    BY <1>1, <1>6 DEF Promoted, Row
  <2> QED BY <1>2, <2>1 DEF GoodAfter
<1>7. CASE Finish
  BY <1>7, NoRowType DEF Finish, GoodAfter
<1>8. ASSUME NEW m \in Ids, Assign(m) PROVE GoodAfter(row'.rid, row'.st, row'.match)
  <2>1. PICK st \in {"WAITING_ACCEPT", "READY_TO_CONNECT"} :
          /\ row' = [row EXCEPT !.match = m, !.missed = 0, !.st = st]
          /\ st = IF row.rid \in AcceptModes THEN "WAITING_ACCEPT" ELSE "READY_TO_CONNECT"
    BY <1>8 DEF Assign
  <2>2. row'.rid = row.rid /\ row'.match = m /\ row'.st = st
    BY <1>1, <2>1 DEF Row
  <2>3. owner'[m] = row.rid /\ row.rid # 0
    BY <1>1, <1>8 DEF Assign, RowNamed
  <2> QED BY <2>1, <2>2, <2>3 DEF GoodAfter
<1>9. CASE Dissolve
  <2>1. row.rid \in Searches
    BY <1>1, <1>9 DEF Dissolve, RowNamed, Row
  <2> QED BY <1>4, <1>9, <2>1 DEF Dissolve, GoodAfter
<1>10. CASE LeaderStarts
  <2>1. row'.match = 0
    <3>1. PICK z, r : z = NoRow /\ r = Own + count.party + 1
      OBVIOUS
    <3>2. row' = [z EXCEPT !.rid = r, !.member = TRUE, !.st = "SEARCHING"]
      BY <1>10, <3>1 DEF LeaderStarts, NewRow
    <3> QED BY <3>1, <3>2, NoRowType DEF Row
  <2> QED BY <2>1 DEF GoodAfter
<1> QED BY <1>3, <1>5, <1>6, <1>7, <1>8, <1>9, <1>10 DEF RowStep

LEMMA SeenStays ==
  ASSUME TypeOK, Names, Owned, Seen, Next
  PROVE  Seen'
<1>1. Grows /\ RowStep /\ RequestStep /\ InboxStep
  BY Growing, RowSteps, RequestSteps, InboxSteps
<1>2. GoodAfter(row'.rid, row'.st, row'.match)
  BY <1>1, RowSeen
<1>3. w.match \in Ids \cup {0} /\ InboxOK
  BY Parts DEF Together, RequestOK, Request
<1>4. GoodAfter(w.rid, w.st, w.match)
  BY <1>1, <1>3, GoodStays DEF Seen
<1>5. GoodAfter(w'.rid, w'.st, w'.match)
  <2>1. CASE Serve /\ Answer(w')
    BY <1>2, <2>1 DEF Answer, GoodAfter
  <2>2. CASE w'.match = 0
    BY <2>2 DEF GoodAfter
  <2>3. CASE TimeOut /\ w.kind \in {"accepted", "snapshot"} /\ \A k \in {"kind", "rid", "code", "match"} : w'[k] = w[k]
    <3>1. w'.st = w.st /\ w'.rid = w.rid /\ w'.match = w.match
      <4>1. w' = Idle(TRUE) \/ \E n : w' = [w EXCEPT !.tries = n]
        BY <2>3 DEF TimeOut
      <4>2. w'["kind"] = w["kind"]
        BY <2>3
      <4>3. w'.kind # "none"
        BY <2>3, <4>2
      <4>4. PICK n : w' = [w EXCEPT !.tries = n]
        BY <4>1, <4>3, IdleType
      <4>5. w \in Request
        BY Parts DEF Together, RequestOK
      <4> QED BY <4>4, <4>5 DEF Request
    <3> QED BY <1>4, <3>1
  <2>4. CASE UNCHANGED w
    BY <1>4, <2>4
  <2> QED BY <1>1, <2>1, <2>2, <2>3, <2>4 DEF RequestStep, Asks
<1>6. ASSUME NEW e \in ResultsIn PROVE GoodAfter(e.rid, e.st, e.match)
  BY <1>1, <1>6, WaitsNamed, GoodStays DEF Seen
<1>7. ASSUME NEW e \in ResultsIn' PROVE GoodAfter(e.rid, e.st, e.match)
  <2>1. CASE e \in ResultsIn
    BY <1>6, <2>1
  <2>2. CASE UNCHANGED inbox \/ (inbox # <<>> /\ inbox' = Tail(inbox))
    BY <1>3, <1>6, <1>7, <2>2, WaitsSame, WaitsTaken
  <2>3. CASE inbox' = <<>>
    <3>1. Waits' = {}
      BY <2>3 DEF Waits
    <3> QED BY <1>7, <3>1 DEF ResultsIn
  <2>4. ASSUME NEW b \in BOOLEAN, Answered \/ Adopt, Awaits(Result(b)), e \notin ResultsIn
        PROVE  GoodAfter(e.rid, e.st, e.match)
    <3>1. w.code = "ok" /\ w.rid # 0
      BY <2>4, Parts DEF Together, RequestNamed, Answered, Adopt, Adoptable
    <3>2. e = Result(b)
      <4>1. Result(b) \in Events /\ inbox' = Append(inbox, Result(b))
        BY <2>4 DEF Awaits
      <4> QED BY <1>3, <1>7, <2>4, <4>1, WaitsPosted
    <3> QED BY <1>4, <3>1, <3>2, Results
  <2>5. ASSUME NEW x \in Events, x.kind # "result", Awaits(x) PROVE e \in ResultsIn
    BY <1>3, <1>7, <2>5, WaitsPosted DEF Awaits
  <2> QED BY <1>1, <2>1, <2>2, <2>3, <2>4, <2>5 DEF InboxStep, Awaits
<1> QED BY <1>2, <1>5, <1>7 DEF Seen, Good, GoodAfter

-----------------------------------------------------------------------------
(* The searches of this game.                                              *)

LEMMA CountSteps ==
  ASSUME TypeOK, Names, Next
  PROVE  /\ world' = world
         /\ count.own \in 0..Own /\ count'.own = (IF PressPlay THEN count.own + 1 ELSE count.own)
         /\ count.party \in 0..Parties /\ count'.party = (IF LeaderStarts THEN count.party + 1 ELSE count.party)
<1>1. count \in [own : 0..Own, party : 0..Parties, match : Ids \cup {0}, crash : 0..Restarts]
  BY Parts DEF Together, CountOK
<1>2. CASE PressPlay
  <2>1. PICK n : n = count.own + 1
    OBVIOUS
  <2>2. count' = [count EXCEPT !.own = n] /\ UNCHANGED <<row, world>>
    BY <1>2, <2>1 DEF PressPlay, backend
  <2>3. ~LeaderStarts
    <3>1. LeaderStarts => UNCHANGED inbox
      BY DEF LeaderStarts
    <3>2. Len(inbox') # Len(inbox)
      <4>1. PICK e \in Events : inbox' = Append(inbox, e)
        <5>1. count.own < world.own /\ world.own \in 0..Own
          BY <1>2, Parts, WorldType DEF PressPlay, Together
        <5>2. PICK k \in 1..Own : k = count.own + 1
          BY <1>1, <5>1, Numbers
        <5>3. [kind |-> "start", rid |-> k] \in Events
          BY Numbers DEF Events
        <5> QED BY <1>2, <5>2, <5>3 DEF PressPlay, Post
      <4> QED BY <4>1, Parts, WaitsPosted, WaitsType DEF Together
    <3> QED BY <3>1, <3>2
  <2> QED BY <1>1, <1>2, <2>1, <2>2, <2>3
<1>3. CASE LeaderStarts
  <2>1. PICK n : n = count.party + 1
    OBVIOUS
  <2>2. count' = [count EXCEPT !.party = n] /\ UNCHANGED <<inbox, world>>
    BY <1>3, <2>1 DEF LeaderStarts
  <2>3. ~PressPlay
    BY <1>1, <1>2, <2>2
  <2> QED BY <1>1, <1>3, <2>1, <2>2, <2>3
<1>4. CASE ~PressPlay /\ ~LeaderStarts
  <2>1. count'.own = count.own /\ count'.party = count.party
    <3>1. CASE Restart \/ \E m \in Ids : Assign(m)
      <4>1. \E n : count' = [count EXCEPT !.crash = n] \/ count' = [count EXCEPT !.match = n]
        BY <3>1 DEF Restart, Assign
      <4> QED BY <1>1, <4>1
    <3>2. CASE Backend /\ ~\E m \in Ids : Assign(m)
      BY <1>4, <3>2 DEF Backend, OthersAccept, Dissolve, Complete, Expire, Remove, ServeLate
    <3>3. CASE Acts
      BY <1>4, <3>3 DEF Acts, PressStop, PlayersAccept, Inspect, Notify
    <3>4. CASE Steers \/ Serve \/ TimeOut \/ Adopt \/ Handle
      BY <3>4, Frames
    <3> QED BY <3>1, <3>2, <3>3, <3>4, NextSteps
  <2>2. world' = world
    BY Frames, NextSteps DEF Restart
  <2> QED BY <1>1, <1>4, <2>1, <2>2
<1> QED BY <1>2, <1>3, <1>4

LEMMA MineType ==
  ASSUME TypeOK, Names
  PROVE  Mine \subseteq Searches /\ active \in Mine \cup {0} /\ active \in Searches \cup {0} /\ left \subseteq Mine
BY Parts DEF Together, SessionOK, Mine

\* What becomes of the searches the game follows and left.
MineStep ==
  \/ Tracks /\ Mine' = Mine /\ ~Adopt /\ ~Restart
  \/ Handle /\ Begins /\ Mine' = Mine \cup {Head(inbox).rid}
  \/ Handle /\ Leaves /\ Mine' = Mine
  \/ /\ Adopt /\ active' = w.rid /\ left' = Mine /\ Mine' = Mine \cup {w.rid}
     /\ w.code = "ok" /\ w.member /\ w.rid # adopted /\ w.rid \in Searches
  \/ Restart /\ Mine' = {} /\ left' = {} /\ active' = 0

LEMMA MineSteps ==
  ASSUME TypeOK, Names, Next
  PROVE  MineStep
<1>1. CASE Handle
  <2>1. Effect
    BY <1>1, Handles
  <2>2. CASE Begins
    BY <1>1, <2>2, Numbers DEF Begins, Mine, MineStep
  <2>3. CASE Leaves
    BY <1>1, <2>3 DEF Leaves, Mine, MineStep
  <2>4. CASE Tracks
    <3>1. inbox' # inbox
      <4>1. inbox # <<>> /\ inbox' = Tail(inbox) /\ inbox \in Seq(Events)
        BY <1>1, Handles, Parts DEF Together, InboxOK
      <4>2. Len(inbox') # Len(inbox)
        BY <4>1, Tailed
      <4> QED BY <4>2
    <3>2. ~Adopt
      <4>1. Adopt => inbox' # <<>> /\ Len(inbox') = Len(inbox) + 1
        <5>1. Adopt => w.code = "ok" /\ w.rid # 0 /\ Post(Result(TRUE))
          BY Parts DEF Together, RequestNamed, Adopt, Adoptable
        <5> QED BY <5>1, Results, Posted, Parts DEF Together
      <4>2. inbox # <<>> /\ inbox' = Tail(inbox) /\ inbox \in Seq(Events)
        BY <1>1, Handles, Parts DEF Together, InboxOK
      <4> QED BY <4>1, <4>2, Tailed
    <3>3. ~Restart
      <4>1. Restart => count'.crash = count.crash + 1
        <5>1. Restart => \E n : n = count.crash + 1 /\ count' = [count EXCEPT !.crash = n]
          BY DEF Restart
        <5> QED BY <5>1, Parts DEF Together, CountOK
      <4>2. count' = count /\ count.crash \in 0..Restarts
        BY <1>1, Frames, Parts DEF Together, CountOK
      <4> QED BY <4>1, <4>2, BoundsAreNatural
    <3> QED BY <2>4, <3>2, <3>3 DEF MineStep, Tracks, Mine
  <2> QED BY <2>1, <2>2, <2>3, <2>4 DEF Effect, Ignores, Reports, Confirms, Connects, Discovers, Pops, Joins, Offered, Withdraws, Ends
<1>2. CASE Adopt
  <2>1. w.rid \in Searches /\ w.code = "ok" /\ w.member /\ w.rid # adopted
    BY <1>2, Parts DEF Together, RequestOK, Request, RequestNamed, Adopt, Adoptable
  <2>2. active' = w.rid /\ left' = Mine
    BY <1>2 DEF Adopt, Leave, Mine
  <2> QED BY <1>2, <2>1, <2>2, Numbers DEF MineStep, Mine
<1>3. CASE Restart
  BY <1>3 DEF Restart, Mine, MineStep
<1>4. CASE (Backend \/ Steers \/ Serve \/ TimeOut \/ Acts) /\ ~Adopt /\ ~Restart
  BY <1>4, Frames DEF MineStep, Tracks, Mine
<1> QED BY <1>1, <1>2, <1>3, <1>4, NextSteps

\* the search at the backend
RowRid ==
  \/ row'.rid = row.rid /\ row'.member = row.member /\ UNCHANGED ended
  \/ row.rid # 0 /\ row'.rid = 0 /\ ~row'.member /\ ended' = ended \cup {row.rid}
  \/ Registers /\ row'.rid \in 1..Own /\ row'.member = row.member /\ UNCHANGED ended
  \/ LeaderStarts /\ row'.rid = Own + count.party + 1 /\ row'.member /\ ended \subseteq ended' /\ (row.rid = 0 \/ row.rid \in ended')

LEMMA RowRids ==
  ASSUME TypeOK, Names, Next
  PROVE  RowRid
<1>1. RowStep /\ row \in Row /\ RowNamed
  BY RowSteps, Parts DEF Together, RowOK
<1>2. CASE Refreshed
  BY <1>2 DEF Refreshed, RowRid
<1>3. ASSUME Registers, NEW r \in Searches, Replaced(r) PROVE RowRid
  <2>1. row'.rid = r /\ row'.member = row.member
    BY <1>1, <1>3, NewRowType DEF Replaced, Row
  <2>2. r \in 1..Own
    BY <1>3, Numbers DEF Replaced
  <2> QED BY <1>3, <2>1, <2>2 DEF RowRid, Replaced
<1>4. CASE row.st = "WAITING_ACCEPT" /\ Promoted /\ UNCHANGED ended
  BY <1>1, <1>4 DEF Promoted, Row, RowRid
<1>5. CASE row.rid # 0 /\ Finish
  BY <1>5, NoRowType DEF Finish, RowRid
<1>6. CASE \E m \in Ids : Assign(m)
  <2>1. PICK m \in Ids, st \in {"WAITING_ACCEPT", "READY_TO_CONNECT"} : row' = [row EXCEPT !.match = m, !.missed = 0, !.st = st]
    BY <1>6 DEF Assign
  <2>2. row'.rid = row.rid /\ row'.member = row.member
    BY <1>1, <2>1 DEF Row
  <2> QED BY <1>6, <2>2 DEF Assign, RowRid
<1>7. CASE Dissolve
  <2>1. row.rid \in Searches /\ row.member \in BOOLEAN
    BY <1>1, <1>7 DEF Dissolve, RowNamed, Row
  <2> QED BY <1>7, <2>1, NewRowType DEF Dissolve, RowRid
<1>8. CASE LeaderStarts
  <2>1. count.party \in 0..Parties /\ count.party < world.parties /\ world.parties \in 0..Parties
    BY <1>8, Parts, WorldType DEF LeaderStarts, Together, CountOK
  <2>2. count.party + 1 \in 1..Parties /\ Own + count.party + 1 = Own + (count.party + 1)
    BY <2>1, Numbers
  <2>3. PICK r \in Searches : r = Own + count.party + 1
    BY <2>2, Numbers
  <2>4. row'.rid = r /\ row'.member = TRUE
    BY <1>8, <2>3, NewRowType DEF LeaderStarts
  <2>5. ended \subseteq ended' /\ (row.rid = 0 \/ row.rid \in ended')
    BY <1>8 DEF LeaderStarts
  <2> QED BY <1>8, <2>3, <2>4, <2>5 DEF RowRid
<1> QED BY <1>1, <1>2, <1>3, <1>4, <1>5, <1>6, <1>7, <1>8 DEF RowStep

Inv == TypeOK /\ Names /\ Orderly /\ Safe

\* The leader's search the worker hears of was not followed before.
LEMMA NotMine ==
  ASSUME Inv, Adopt
  PROVE  Led /\ w.rid \notin Mine /\ w.rid > Own /\ w.rid \in Searches /\ w.rid # 0
<1>1. w.kind = "account" /\ w.code = "ok" /\ w.member /\ w.rid # adopted
  BY DEF Adopt, Adoptable
<1>2. Led
  BY <1>1 DEF Inv, Safe, Unled
<1>3. w.rid > Own /\ w.rid >= adopted /\ \A r \in Mine : r > Own => r <= adopted
  BY <1>1, <1>2 DEF Inv, Safe, Newer
<1>4. w.rid \in Searches \cup {0} /\ adopted \in Searches \cup {0} /\ w.rid # 0
  BY <1>1, Parts DEF Inv, Together, RequestOK, Request, RequestNamed, SessionOK
<1>5. w.rid \in Searches /\ w.rid \in Int /\ adopted \in Int
  BY <1>4, Whole
<1>6. w.rid \notin Mine
  BY <1>1, <1>3, <1>5
<1> QED BY <1>2, <1>3, <1>4, <1>5, <1>6

LEMMA Starting ==
  ASSUME Inv, inbox # <<>>, Head(inbox).kind = "start"
  PROVE  Head(inbox) \in Starts /\ Head(inbox).rid \notin Mine /\ Head(inbox).rid \in 1..Own /\ Head(inbox).rid <= count.own
<1>1. InboxOK /\ count.own \in 0..Own
  BY Parts DEF Inv, Together, CountOK
<1>2. Head(inbox) \in Events /\ Head(inbox) = inbox[1] /\ Len(inbox) \in Nat \ {0}
  BY <1>1, Tailed DEF InboxOK
<1>3. Head(inbox) \in Starts
  BY <1>2 DEF Starts, Waits
<1>4. Head(inbox).rid <= count.own /\ \A r \in Mine : r <= Own => r < Head(inbox).rid
  BY <1>3 DEF Inv, Safe, Fresh
<1>5. Head(inbox).rid \in Searches
  BY <1>2, EventKinds
<1>6. PICK r \in Searches : r = Head(inbox).rid
  BY <1>5
<1>7. r \in Int /\ r >= 1 /\ count.own \in Int /\ Own \in Int /\ count.own <= Own /\ r <= count.own
  BY <1>1, <1>4, <1>6, Whole, Numbers
<1>8. r \in 1..Own /\ r <= Own
  BY <1>7
<1>9. r \notin Mine
  BY <1>4, <1>6, <1>7, <1>8
<1> QED BY <1>3, <1>4, <1>6, <1>8, <1>9

\* what the worker sends and hears in a step
LEMMA Beginning ==
  ASSUME Inv, Handle, Begins
  PROVE  /\ Head(inbox) \in Starts /\ Head(inbox).rid \notin Mine /\ Head(inbox).rid \in Searches
         /\ Head(inbox).rid \in 1..Own /\ Head(inbox).rid <= Own /\ Head(inbox).rid <= count.own
<1>1. inbox # <<>> /\ Head(inbox).kind = "start" /\ Head(inbox).rid \in Searches
  BY Handles DEF Inv, Begins
<1>2. Head(inbox) \in Starts /\ Head(inbox).rid \notin Mine /\ Head(inbox).rid \in 1..Own /\ Head(inbox).rid <= count.own
  BY <1>1, Starting
<1>3. \A n \in 1..Own : n <= Own
  BY Numbers
<1> QED BY <1>1, <1>2, <1>3

LEMMA NewResult ==
  ASSUME TypeOK, Names, Next, NEW e \in ResultsIn', e \notin ResultsIn
  PROVE  /\ (Answered /\ ~e.discovered /\ Awaits(Result(FALSE)) /\ e = Result(FALSE)) \/ (Adopt /\ e.discovered /\ Awaits(Result(TRUE)) /\ e = Result(TRUE))
         /\ e.kind = "result" /\ e.rid = w.rid /\ e.st = w.st /\ e.match = w.match /\ w.code = "ok"
<1>1. InboxStep /\ InboxOK
  BY InboxSteps, Parts DEF Together
<1>2. ~UNCHANGED inbox /\ ~(inbox # <<>> /\ inbox' = Tail(inbox)) /\ inbox' # <<>>
  <2>1. UNCHANGED inbox => ResultsIn' = ResultsIn
    BY WaitsSame
  <2>2. inbox # <<>> /\ inbox' = Tail(inbox) => ResultsIn' \subseteq ResultsIn
    BY <1>1, WaitsTaken
  <2>3. inbox' = <<>> => Waits' = {}
    BY DEF Waits
  <2> QED BY <2>1, <2>2, <2>3 DEF ResultsIn
<1>3. ASSUME NEW x \in Events, Awaits(x) PROVE e = x /\ x.kind = "result"
  BY <1>1, <1>3, WaitsPosted DEF Awaits
<1>4. ASSUME NEW b \in BOOLEAN, Answered \/ Adopt, e = Result(b)
      PROVE  e.discovered = b /\ e.kind = "result" /\ e.rid = w.rid /\ e.st = w.st /\ e.match = w.match /\ w.code = "ok"
  <2>1. w.code = "ok" /\ w.rid # 0
    BY <1>4, Parts DEF Together, RequestNamed, Answered, Adopt, Adoptable
  <2> QED BY <1>4, <2>1, Results
<1>5. CASE Answered /\ Awaits(Result(FALSE))
  BY <1>3, <1>4, <1>5 DEF Awaits
<1>6. CASE Adopt /\ Awaits(Result(TRUE))
  BY <1>3, <1>4, <1>6 DEF Awaits
<1>7. ~Awaits([kind |-> "start", rid |-> count.own + 1]) /\ ~Awaits([kind |-> "stop"]) /\ ~Awaits([kind |-> "full"])
  BY <1>3 DEF Awaits
<1> QED BY <1>1, <1>2, <1>5, <1>6, <1>7 DEF InboxStep

LEMMA NewStart ==
  ASSUME TypeOK, Names, Next, NEW e \in Starts', e \notin Starts
  PROVE  PressPlay /\ Awaits([kind |-> "start", rid |-> count.own + 1]) /\ e.rid = count.own + 1
<1>1. InboxStep /\ InboxOK
  BY InboxSteps, Parts DEF Together
<1>2. ~UNCHANGED inbox /\ ~(inbox # <<>> /\ inbox' = Tail(inbox)) /\ inbox' # <<>>
  <2>1. UNCHANGED inbox => Starts' = Starts
    BY WaitsSame
  <2>2. inbox # <<>> /\ inbox' = Tail(inbox) => Starts' \subseteq Starts
    BY <1>1, WaitsTaken
  <2>3. inbox' = <<>> => Waits' = {}
    BY DEF Waits
  <2> QED BY <2>1, <2>2, <2>3 DEF Starts
<1>3. ASSUME NEW x \in Events, Awaits(x) PROVE e = x /\ x.kind = "start"
  BY <1>1, <1>3, WaitsPosted DEF Awaits
<1>4. ASSUME NEW b \in BOOLEAN, Answered \/ Adopt PROVE ~Awaits(Result(b))
  <2>1. w.code = "ok" /\ w.rid # 0
    BY <1>4, Parts DEF Together, RequestNamed, Answered, Adopt, Adoptable
  <2> QED BY <1>3, <2>1, Results DEF Awaits
<1>5. ~Awaits([kind |-> "stop"]) /\ ~Awaits([kind |-> "full"])
  BY <1>3 DEF Awaits
<1>6. PressPlay /\ Awaits([kind |-> "start", rid |-> count.own + 1])
  BY <1>1, <1>2, <1>4, <1>5 DEF InboxStep
<1>7. PICK x : x = [kind |-> "start", rid |-> count.own + 1]
  OBVIOUS
<1>8. x.rid = count.own + 1 /\ x \in Events /\ Awaits(x)
  BY <1>6, <1>7 DEF Awaits
<1> QED BY <1>3, <1>6, <1>8

LEMMA OursStays ==
  ASSUME Inv, Next
  PROVE  Ours'
<1>1. TypeOK /\ Names /\ Ours /\ Seen /\ MineStep /\ Grows /\ RequestStep
  BY MineSteps, Growing, RequestSteps DEF Inv, Safe
<1>2. Mine \subseteq Searches /\ active \in Mine \cup {0} /\ 0 \notin Searches
  BY <1>1, MineType, Numbers
<1>3. active' \notin left'
  <2>1. CASE Handle /\ Begins
    <3>1. Head(inbox).rid \notin Mine
      BY <2>1, Beginning
    <3> QED BY <2>1, <3>1 DEF Begins
  <2>2. CASE Handle /\ Leaves
    BY <1>2, <2>2 DEF Leaves
  <2>3. CASE Adopt /\ active' = w.rid /\ left' = Mine
    BY <2>3, NotMine
  <2>4. CASE Tracks
    BY <1>1, <2>4 DEF Tracks, Ours
  <2>5. CASE left' = {}
    BY <2>5
  <2> QED BY <1>1, <2>1, <2>2, <2>3, <2>4, <2>5 DEF MineStep
<1>4. Restart \/ Mine \subseteq Mine'
  BY <1>1 DEF MineStep
<1>5. w'.kind \in {"register", "poll"} => w'.rid \in Mine'
  <2>1. CASE Restart
    <3>1. w' = Idle(FALSE)
      BY <2>1 DEF Restart
    <3> QED BY <3>1, IdleType
  <2>2. CASE ~Restart /\ UNCHANGED w
    BY <1>1, <1>4, <2>2 DEF Ours
  <2>3. CASE Asks("none", 0)
    BY <2>3 DEF Asks
  <2>4. CASE TimeOut /\ w.kind \in {"accepted", "snapshot"} /\ \A k \in {"kind", "rid", "code", "match"} : w'[k] = w[k]
    <3>1. w'["kind"] = w["kind"]
      BY <2>4
    <3> QED BY <2>4, <3>1
  <2>5. CASE jobs # <<>> /\ Asks(Head(jobs).kind, Head(jobs).rid)
    <3>1. Head(jobs) \in Job
      BY <1>1, <2>5, Parts DEF Together, JobsOK
    <3> QED BY <2>5, <3>1 DEF Asks, Job
  <2>6. CASE ~Restart /\ PickStep /\ Asks(IF session.phase = "Register" THEN "register" ELSE "poll", active)
    <3>1. active # 0
      BY <1>1, <2>6 DEF Names, SessionNamed, PickStep
    <3> QED BY <1>2, <1>4, <2>6, <3>1 DEF Asks
  <2>7. CASE Asks("account", 0)
    BY <2>7 DEF Asks
  <2>8. CASE ~Restart /\ Serve /\ Answer(w')
    BY <1>1, <1>4, <2>8 DEF Answer, Ours
  <2> QED BY <1>1, <2>1, <2>2, <2>3, <2>4, <2>5, <2>6, <2>7, <2>8 DEF RequestStep
<1>6. ASSUME NEW e \in ResultsIn' PROVE e.rid \in Mine'
  <2>1. ~Restart
    BY <1>6, Emptied
  <2>2. CASE e \in ResultsIn
    BY <1>1, <1>4, <2>1, <2>2 DEF Ours
  <2>3. CASE e \notin ResultsIn /\ Answered
    BY <1>1, <1>4, <1>6, <2>1, <2>3, NewResult DEF Ours, Answered
  <2>4. CASE e \notin ResultsIn /\ Adopt
    <3>1. e.rid = w.rid /\ active' = w.rid /\ w.rid # 0
      BY <1>1, <1>6, <2>4, NewResult, NotMine DEF Adopt
    <3> QED BY <3>1 DEF Mine
  <2> QED BY <1>1, <1>6, <2>2, <2>3, <2>4, NewResult
<1>7. ASSUME NEW m \in shown' PROVE owner'[m] \in Mine'
  <2>1. ~Restart
    BY <1>7 DEF Restart
  <2>2. CASE m \in shown
    <3>1. owner[m] \in Mine /\ m \in Ids
      BY <1>1, <2>2, Parts DEF Ours, Together, GameOK
    <3>2. owner'[m] = owner[m]
      BY <1>1, <1>2, <3>1 DEF Grows
    <3> QED BY <1>4, <2>1, <3>1, <3>2
  <2>3. CASE m \notin shown
    <3>1. Handle
      BY <1>7, <2>1, <2>3, Frames, NextSteps
    <3>2. Handle /\ Effect /\ inbox # <<>> /\ inbox' = Tail(inbox)
      BY <1>1, <3>1, Handles
    <3>3. Offered /\ m = Head(inbox).match
      BY <1>7, <2>3, <3>2 DEF Effect, Begins, Leaves, Ignores, Reports, Confirms, Connects, Discovers, Pops, Joins, Offered, Withdraws, Ends
    <3>4. Head(inbox) \in ResultsIn /\ Assigned(Head(inbox).st) /\ Head(inbox).rid = active
      BY <1>1, <3>2, <3>3, WaitsTaken, Parts DEF Offered, Heading, ResultsIn, Together
    <3>5. m # 0 /\ m \in Ids /\ owner[m] = active /\ active # 0
      BY <1>1, <3>3, <3>4, WaitsNamed DEF Seen, Good
    <3>6. owner'[m] = active
      BY <1>1, <3>5 DEF Grows
    <3> QED BY <1>2, <1>4, <2>1, <3>5, <3>6
  <2> QED BY <2>2, <2>3
<1> QED BY <1>3, <1>5, <1>6, <1>7 DEF Ours

LEMMA FreshStays ==
  ASSUME Inv, Next
  PROVE  Fresh'
<1>1. TypeOK /\ Names /\ Fresh /\ MineStep /\ InboxStep /\ InboxOK
  BY MineSteps, InboxSteps, Parts DEF Inv, Safe, Together
<1>2. Mine \subseteq Searches /\ count.own \in Int /\ Own \in Int /\ count'.own \in Int /\ count'.own >= count.own
      /\ (PressPlay => count'.own = count.own + 1)
  <2>1. count.own \in 0..Own /\ count'.own = (IF PressPlay THEN count.own + 1 ELSE count.own)
    BY <1>1, CountSteps
  <2>2. PICK n \in 0..Own : n = count.own
    BY <2>1
  <2>3. n \in Int /\ Own \in Int
    BY Whole, Numbers
  <2>4. CASE PressPlay
    BY <1>1, <2>1, <2>2, <2>3, <2>4, MineType
  <2>5. CASE ~PressPlay
    BY <1>1, <2>1, <2>2, <2>3, <2>5, MineType
  <2> QED BY <2>4, <2>5
<1>3. ASSUME NEW r \in Mine', r <= Own
      PROVE  r \in Mine \/ (Handle /\ Begins /\ r = Head(inbox).rid /\ r <= count.own)
  <2>1. CASE Adopt /\ Mine' = Mine \cup {w.rid}
    BY <1>2, <1>3, <2>1, NotMine, Whole
  <2>2. CASE Handle /\ Begins /\ Mine' = Mine \cup {Head(inbox).rid}
    BY <1>1, <1>3, <2>2, Starting, Handles DEF Begins
  <2>3. CASE Mine' = Mine \/ Mine' = {}
    BY <1>3, <2>3
  <2> QED BY <1>1, <2>1, <2>2, <2>3 DEF MineStep
<1>4. ASSUME NEW r \in Mine', r <= Own PROVE r <= count'.own
  <2>1. r <= count.own
    BY <1>1, <1>3, <1>4 DEF Fresh
  <2>2. r \in Int
    <3>1. r \in Mine \/ r \in 1..Own
      BY <1>1, <1>3, <1>4, Starting, Handles DEF Begins
    <3> QED BY <1>2, <3>1, Whole
  <2> QED BY <1>2, <2>1, <2>2
<1>5. ASSUME NEW e \in Starts' PROVE e.rid <= count'.own /\ \A r \in Mine' : r <= Own => r < e.rid
  <2>1. CASE e \in Starts
    <3>1. e.rid <= count.own /\ \A r \in Mine : r <= Own => r < e.rid
      BY <1>1, <2>1 DEF Fresh
    <3>2. e.rid \in Int
      <4>1. e \in Events /\ e.kind = "start"
        BY <1>1, <2>1, WaitsType DEF Starts
      <4>2. e.rid \in Searches
        BY <4>1, EventKinds
      <4> QED BY <4>2, Whole
    <3>3. ASSUME Handle, Begins PROVE Head(inbox).rid < e.rid
      <4>1. inbox # <<>> /\ inbox' = Tail(inbox) /\ Head(inbox).kind = "start"
        BY <1>1, <3>3, Handles DEF Begins
      <4>2. PICK i \in 1..Len(inbox') : inbox'[i] = e
        BY DEF Starts, Waits
      <4>3. /\ Len(inbox) \in Nat \ {0} /\ Len(inbox') = Len(inbox) - 1 /\ Head(inbox) = inbox[1]
            /\ inbox'[i] = inbox[i + 1]
        BY <1>1, <4>1, <4>2, Tailed DEF InboxOK
      <4>4. i + 1 \in 1..Len(inbox) /\ 1 \in 1..Len(inbox) /\ 1 < i + 1
        BY <4>2, <4>3
      <4>5. inbox[i + 1].kind = "start" /\ inbox[1].kind = "start"
        BY <4>1, <4>2, <4>3 DEF Starts
      <4>6. PICK j \in 1..Len(inbox) : j = i + 1
        BY <4>4
      <4> QED BY <1>1, <4>2, <4>3, <4>4, <4>5, <4>6 DEF Fresh
    <3>4. \A r \in Mine' : r <= Own => r < e.rid
      BY <1>3, <3>1, <3>3
    <3> QED BY <1>2, <3>1, <3>2, <3>4
  <2>2. CASE e \notin Starts
    <3>1. PressPlay /\ e.rid = count.own + 1
      BY <1>1, <2>2, NewStart
    <3>2. ~Handle
      <4>1. PressPlay => count'.own # count.own
        BY <1>2
      <4>2. Handle => count' = count
        BY Frames
      <4> QED BY <3>1, <4>1, <4>2
    <3>3. \A r \in Mine' : r <= Own => r \in Mine /\ r <= count.own /\ r \in Int
      BY <1>1, <1>2, <1>3, <3>2, Whole DEF Fresh
    <3>4. \A r \in Mine' : r <= Own => r < count.own + 1
      BY <1>2, <3>3
    <3> QED BY <1>2, <3>1, <3>4
  <2> QED BY <2>1, <2>2
<1>6. ASSUME NEW i \in 1..Len(inbox'), NEW j \in 1..Len(inbox'), i < j, inbox'[i].kind = "start", inbox'[j].kind = "start"
      PROVE  inbox'[i].rid < inbox'[j].rid
  <2>1. CASE UNCHANGED inbox
    BY <1>1, <1>6, <2>1 DEF Fresh
  <2>2. CASE inbox # <<>> /\ inbox' = Tail(inbox)
    <3>1. /\ Len(inbox) \in Nat \ {0} /\ Len(inbox') = Len(inbox) - 1
          /\ inbox'[i] = inbox[i + 1] /\ inbox'[j] = inbox[j + 1]
      BY <1>1, <1>6, <2>2, Tailed DEF InboxOK
    <3>2. PICK k \in 1..Len(inbox), l \in 1..Len(inbox) : k = i + 1 /\ l = j + 1 /\ k < l
      BY <1>6, <3>1
    <3> QED BY <1>1, <1>6, <3>1, <3>2 DEF Fresh
  <2>3. CASE inbox' = <<>>
    BY <1>6, <2>3
  <2>4. ASSUME NEW e \in Events, inbox' = Append(inbox, e), e.kind = "start" => e.rid = count.own + 1
        PROVE  inbox'[i].rid < inbox'[j].rid
    <3>1. /\ Len(inbox) \in Nat /\ Len(inbox') = Len(inbox) + 1
          /\ \A k \in 1..Len(inbox) : inbox'[k] = inbox[k]
          /\ inbox'[Len(inbox) + 1] = e
      BY <1>1, <2>4, Appended DEF InboxOK
    <3>2. i \in 1..Len(inbox) /\ (j \in 1..Len(inbox) \/ j = Len(inbox) + 1)
      BY <1>6, <3>1
    <3>3. CASE j \in 1..Len(inbox)
      BY <1>1, <1>6, <3>1, <3>2, <3>3 DEF Fresh
    <3>4. CASE j = Len(inbox) + 1
      <4>1. inbox[i] \in Starts
        BY <1>6, <3>1, <3>2 DEF Starts, Waits
      <4>2. inbox[i].rid <= count.own
        BY <1>1, <4>1 DEF Fresh
      <4>3. inbox[i] \in Events /\ inbox[i].kind = "start"
        BY <1>1, <4>1, WaitsType DEF Starts
      <4>4. PICK r \in Searches : r = inbox[i].rid
        BY <4>3, EventKinds
      <4>5. r < count.own + 1
        BY <1>2, <4>2, <4>4, Whole
      <4>6. inbox'[i].rid = r /\ inbox'[j].rid = count.own + 1
        BY <1>6, <2>4, <3>1, <3>2, <3>4, <4>4
      <4> QED BY <4>5, <4>6
    <3> QED BY <3>2, <3>3, <3>4
  <2>5. ASSUME NEW b \in BOOLEAN, Answered \/ Adopt PROVE Result(b).kind = "result"
    <3>1. w.code = "ok" /\ w.rid # 0
      BY <1>1, <2>5, Parts DEF Together, RequestNamed, Answered, Adopt, Adoptable
    <3> QED BY <1>1, <3>1, Results
  <2>6. CASE (Answered \/ Adopt) /\ \E b \in BOOLEAN : Awaits(Result(b))
    BY <2>4, <2>5, <2>6 DEF Awaits
  <2>7. CASE \E r : Awaits([kind |-> "start", rid |-> r]) /\ r = count.own + 1
    <3>1. PICK e : e = [kind |-> "start", rid |-> count.own + 1] /\ e \in Events /\ inbox' = Append(inbox, e)
      BY <2>7 DEF Awaits
    <3>2. e.rid = count.own + 1
      BY <3>1
    <3> QED BY <2>4, <3>1, <3>2
  <2>8. ASSUME NEW k \in {"stop", "full"}, Awaits([kind |-> k]) PROVE inbox'[i].rid < inbox'[j].rid
    <3>1. PICK e : e = [kind |-> k] /\ e \in Events /\ inbox' = Append(inbox, e)
      BY <2>8 DEF Awaits
    <3>2. e.kind # "start"
      BY <3>1
    <3> QED BY <2>4, <3>1, <3>2
  <2> QED BY <1>1, <2>1, <2>2, <2>3, <2>6, <2>7, <2>8 DEF InboxStep
<1> QED BY <1>4, <1>5, <1>6 DEF Fresh

LEMMA LedStays ==
  ASSUME TypeOK, Names, Next
  PROVE  Led' = Led /\ (Orderly => Orderly')
BY CountSteps DEF Led, Orderly

LEMMA UnledStays ==
  ASSUME Inv, Next
  PROVE  Unled'
<1> SUFFICES ASSUME ~Led
             PROVE  /\ ~row'.member /\ (w'.kind = "account" /\ w'.code # "none" => ~w'.member)
                    /\ \A e \in ResultsIn' : ~e.discovered
                    /\ \A r \in Mine' : r <= Own
  BY LedStays DEF Unled, Inv
<1>1. /\ TypeOK /\ Names /\ MineStep /\ RequestStep /\ RowRid
      /\ ~row.member /\ (w.kind = "account" /\ w.code # "none" => ~w.member)
      /\ (\A e \in ResultsIn : ~e.discovered) /\ (\A r \in Mine : r <= Own)
  BY MineSteps, RequestSteps, RowRids DEF Inv, Safe, Unled
<1>2. ~row'.member
  <2>1. ~LeaderStarts
    <3>1. LeaderStarts => count.party < 0 /\ count.party \in 0..Parties
      BY <1>1, CountSteps DEF LeaderStarts, Led
    <3> QED BY <3>1, Numbers
  <2> QED BY <1>1, <2>1 DEF RowRid
<1>3. w'.kind = "account" /\ w'.code # "none" => ~w'.member
  BY <1>1, <1>2 DEF RequestStep, Asks, Answer
<1>4. ~Adopt
  BY NotMine
<1>5. \A e \in ResultsIn' : ~e.discovered
  BY <1>1, <1>4, NewResult
<1>6. \A r \in Mine' : r <= Own
  <2>1. Handle /\ Begins => Head(inbox).rid <= Own
    BY Beginning
  <2>2. Mine' \subseteq Mine \/ (Handle /\ Begins /\ Mine' = Mine \cup {Head(inbox).rid})
    BY <1>1, <1>4 DEF MineStep
  <2> QED BY <1>1, <2>1, <2>2
<1> QED BY <1>2, <1>3, <1>5, <1>6

LEMMA NewerStays ==
  ASSUME Inv, Next
  PROVE  Newer'
<1> SUFFICES ASSUME Led
             PROVE  /\ w'.kind = "account" /\ w'.code = "ok" /\ w'.member =>
                         /\ w'.rid > Own /\ w'.rid >= adopted' /\ w'.rid <= Own + count'.party
                         /\ row'.rid > Own => row'.rid >= w'.rid
                    /\ row'.rid > Own => row'.rid >= adopted' /\ row'.rid <= Own + count'.party
                    /\ adopted' <= Own + count'.party
                    /\ \A r \in Mine' : r > Own => r <= adopted'
  BY LedStays DEF Newer, Inv
<1>1. /\ TypeOK /\ Names /\ MineStep /\ RequestStep /\ RowRid
      /\ w.kind = "account" /\ w.code = "ok" /\ w.member =>
           /\ w.rid > Own /\ w.rid >= adopted /\ w.rid <= Own + count.party
           /\ row.rid > Own => row.rid >= w.rid
      /\ row.rid > Own => row.rid >= adopted /\ row.rid <= Own + count.party
      /\ adopted <= Own + count.party
      /\ \A r \in Mine : r > Own => r <= adopted
      /\ row.member => row.rid > Own
      /\ late = {}
  BY MineSteps, RequestSteps, RowRids DEF Inv, Safe, Newer, InTurn, Turn
<1>2. /\ adopted \in Int /\ adopted >= 0 /\ row.rid \in Int /\ w.rid \in Int /\ Own \in Int /\ Own >= 0
      /\ \A r \in Mine : r \in Int
  <2>1. adopted \in Searches \cup {0} /\ row.rid \in Searches \cup {0} /\ w.rid \in Searches \cup {0} /\ Mine \subseteq Searches
    BY <1>1, MineType, Parts DEF Together, SessionOK, RowOK, Row, RequestOK, Request
  <2>2. \A x \in Searches \cup {0} : x \in Int /\ x >= 0
    BY Whole
  <2>3. adopted \in Int /\ adopted >= 0 /\ row.rid \in Int /\ w.rid \in Int
    BY <2>1, <2>2
  <2>4. \A r \in Mine : r \in Int
    BY <2>1, <2>2
  <2>5. Own \in Int /\ Own >= 0
    BY Numbers
  <2> QED BY <2>3, <2>4, <2>5
<1>3. count.party \in Int /\ count.party >= 0 /\ count'.party \in Int /\ count'.party >= count.party
      /\ (LeaderStarts => count'.party = count.party + 1)
  <2>1. PICK p \in 0..Parties : p = count.party
    BY <1>1, CountSteps
  <2>2. p \in Int /\ p >= 0
    BY Numbers
  <2> QED BY <1>1, <2>1, <2>2, CountSteps
<1>4. Registers => Serve /\ w.kind = "register"
  BY <1>1 DEF Registers
<1>5. row'.rid > Own => row'.rid = row.rid \/ (LeaderStarts /\ row'.rid = Own + count.party + 1)
  <2>1. ~(0 > Own) /\ \A n \in 1..Own : ~(n > Own)
    BY <1>2
  <2> QED BY <1>1, <2>1 DEF RowRid
<1>6. row'.rid > Own => row'.rid >= adopted /\ row'.rid <= Own + count'.party
  BY <1>1, <1>2, <1>3, <1>5
<1>7. adopted <= Own + count'.party
  BY <1>1, <1>2, <1>3
<1>8. CASE Adopt
  <2>1. w' = Idle(FALSE) /\ adopted' = w.rid /\ row' = row
    BY <1>8 DEF Adopt, backend
  <2>2. w.kind = "account" /\ w.code = "ok" /\ w.member
    BY <1>8 DEF Adopt, Adoptable
  <2>3. Mine' \subseteq Mine \cup {w.rid}
    <3>1. active' = w.rid /\ left' \subseteq Mine
      BY <1>8 DEF Adopt, Leave, Mine
    <3> QED BY <3>1 DEF Mine
  <2>4. \A r \in Mine : r > Own => r <= w.rid
    BY <1>1, <1>2, <2>2
  <2>5. w.rid <= Own + count'.party /\ w.rid <= w.rid
    BY <1>1, <1>2, <1>3, <2>2
  <2>6. w'.kind # "account"
    BY <2>1, IdleType
  <2> QED BY <1>1, <1>6, <2>1, <2>2, <2>3, <2>4, <2>5, <2>6
<1>9. CASE Restart
  <2>1. w' = Idle(FALSE) /\ adopted' = 0 /\ row' = row /\ Mine' = {}
    BY <1>9 DEF Restart, backend, Mine
  <2>2. w'.kind # "account"
    BY <2>1, IdleType
  <2>3. 0 <= Own + count'.party /\ row.rid >= 0
    BY <1>1, <1>2, <1>3, <1>6, <2>1, Parts, Whole DEF Together, RowOK, Row
  <2> QED BY <1>6, <2>1, <2>2, <2>3
<1>10. CASE ~Adopt /\ ~Restart
  <2>1. adopted' = adopted
    BY <1>10, Frames, NextSteps
  <2>2. \A r \in Mine' : r > Own => r \in Mine
    <3>1. Handle /\ Begins => Head(inbox).rid <= Own
      BY Beginning
    <3>2. Handle /\ Begins => Head(inbox).rid \in Int
      BY Whole DEF Begins
    <3>3. Handle /\ Begins => ~(Head(inbox).rid > Own)
      BY <1>2, <3>1, <3>2
    <3> QED BY <1>1, <1>10, <3>3 DEF MineStep
  <2>3. w'.kind = "account" /\ w'.code = "ok" /\ w'.member =>
           /\ w'.rid > Own /\ w'.rid >= adopted /\ w'.rid <= Own + count'.party
           /\ row'.rid > Own => row'.rid >= w'.rid
    <3>1. CASE UNCHANGED w
      BY <1>1, <1>2, <1>3, <1>5, <3>1
    <3>2. CASE Serve /\ Answer(w')
      <4>1. w'.kind = "account" => w.kind # "register" /\ w'.rid = row'.rid /\ w'.member = row'.member
        BY <3>2 DEF Answer
      <4>2. w'.kind = "account" /\ row'.member => row'.rid > Own
        <5>1. w'.kind = "account" /\ row'.member =>
                 (row'.rid = row.rid /\ row.member) \/ row'.rid = Own + count.party + 1
          BY <1>1, <1>4, <4>1 DEF RowRid
        <5> QED BY <1>1, <1>2, <1>3, <5>1
      <4>3. row'.rid > Own => row'.rid >= row'.rid
        BY <1>2, <1>3, <1>5
      <4> QED BY <1>6, <4>1, <4>2, <4>3
    <3>3. CASE w'.kind # "account" \/ w'.code = "none"
      BY <3>3
    <3>4. TimeOut /\ w.kind \in {"accepted", "snapshot"} /\ (\A k \in {"kind", "rid", "code", "match"} : w'[k] = w[k])
            => w'.kind # "account"
      <4>1. (\A k \in {"kind", "rid", "code", "match"} : w'[k] = w[k]) => w'["kind"] = w["kind"]
        OBVIOUS
      <4> QED BY <4>1
    <3> QED BY <1>1, <3>1, <3>2, <3>3, <3>4 DEF RequestStep, Asks
  <2> QED BY <1>1, <1>6, <1>7, <2>1, <2>2, <2>3
<1> QED BY <1>8, <1>9, <1>10

-----------------------------------------------------------------------------
(* What the worker does, field by field.                                   *)

Quiet == w'.kind = "none" /\ w'.code = "none" /\ UNCHANGED inbox
SessionBecomes(ph, st) == session'.phase = ph /\ session'.st = st
Steer ==
  \/ /\ UNCHANGED <<session, inbox>>
     /\ \/ UNCHANGED w
        \/ w'.kind \in {"none", "cancel", "accepted", "snapshot", "account"} /\ w'.code = "none"
        \/ /\ session.phase \in {"Register", "Poll"} /\ w'.rid = active /\ w'.code = "none"
           /\ w'.kind = IF session.phase = "Register" THEN "register" ELSE "poll"
  \/ /\ UNCHANGED <<w, inbox>> /\ w.kind = "none" /\ session.phase # "Done" /\ (world.brief => ~Assigned(session.st))
     /\ SessionBecomes("Done", session.st)
  \/ Quiet /\ w.kind = "poll" /\ w.code = "unknown" /\ w.rid = active /\ SessionBecomes("Register", session.st)
  \/ Quiet /\ w.code = "refused" /\ w.rid = active /\ SessionBecomes("Done", session.st)
  \/ /\ Answered /\ w.kind \in {"register", "poll"} /\ w.code = "ok" /\ w.rid = active /\ active # 0
     /\ w'.kind = "none" /\ w'.code = "none"
     /\ SessionBecomes(IF Over THEN "Done" ELSE "Poll", w.st)
     /\ IF w.st # session.st \/ w.match # session.match \/ Over THEN Awaits(Result(FALSE)) ELSE UNCHANGED inbox

LEMMA Steering ==
  ASSUME TypeOK, Names, Steers
  PROVE  Steer
<1>1. Together
  BY Parts
<1>2. session \in Session /\ session.rid = active /\ w \in Request
  BY <1>1 DEF Together, SessionOK, SessionNamed, RequestOK
<1>3. w' = Idle(FALSE) => w'.kind = "none" /\ w'.code = "none"
  BY IdleType
<1>4. CASE PickJob
  <2>1. UNCHANGED <<session, inbox>> /\ jobs # <<>> /\ jobs \in Seq(Job)
    BY <1>1, <1>4 DEF PickJob, Together, JobsOK
  <2>2. Head(jobs) \in Job
    BY <2>1
  <2>3. PICK k \in {"cancel", "accepted", "snapshot"}, r \in Searches : k = Head(jobs).kind /\ r = Head(jobs).rid /\ k \in Kinds /\ r # 0
    BY <2>2, Whole DEF Job, Kinds
  <2>4. Send(k, r) => w'.kind = k /\ w'.code = "none"
    BY <2>3, SentRequest
  <2> QED BY <1>4, <2>1, <2>3, <2>4 DEF PickJob, Steer
<1>5. CASE PickStep
  <2>1. active # 0 /\ active \in Searches \cup {0} /\ session.phase \in {"Register", "Poll"} /\ UNCHANGED <<session, inbox>>
    BY <1>1, <1>2, <1>5 DEF PickStep, Together, SessionNamed, SessionOK, Session
  <2>2. PICK k \in Kinds : k = IF session.phase = "Register" THEN "register" ELSE "poll"
    BY DEF Kinds
  <2>3. Send(k, active)
    BY <1>2, <1>5, <2>2 DEF PickStep
  <2>4. w'.kind = k /\ w'.rid = active /\ w'.code = "none"
    BY <2>1, <2>3, SentRequest
  <2> QED BY <2>1, <2>2, <2>4 DEF Steer
<1>6. CASE PickWatch
  <2>1. w'.kind = "account" /\ w'.code = "none"
    BY <1>6, SentRequest DEF PickWatch, Kinds
  <2> QED BY <1>6, <2>1 DEF PickWatch, Steer
<1>7. CASE GiveUp
  <2>1. session' = [session EXCEPT !.phase = "Done"]
    BY <1>7 DEF GiveUp
  <2>2. SessionBecomes("Done", session.st)
    BY <1>2, <2>1 DEF Session, SessionBecomes
  <2> QED BY <1>7, <2>2 DEF GiveUp, Steer
<1>8. CASE Ignored \/ NothingFound
  BY <1>3, <1>8 DEF Ignored, NothingFound, Steer
<1>9. CASE Lost
  <2>1. session' = [session EXCEPT !.phase = "Register"]
    BY <1>9 DEF Lost
  <2>2. SessionBecomes("Register", session.st)
    BY <1>2, <2>1 DEF Session, SessionBecomes
  <2> QED BY <1>2, <1>3, <1>9, <2>2 DEF Lost, Stale, Quiet, Steer
<1>10. CASE Rejected
  <2>1. session' = [session EXCEPT !.phase = "Done"]
    BY <1>10 DEF Rejected
  <2>2. SessionBecomes("Done", session.st)
    BY <1>2, <2>1 DEF Session, SessionBecomes
  <2> QED BY <1>2, <1>3, <1>10, <2>2 DEF Rejected, Stale, Quiet, Steer
<1>11. CASE Answered
  <2>1. PICK ph : ph = IF Over THEN "Done" ELSE "Poll"
    OBVIOUS
  <2>2. session' = [session EXCEPT !.phase = ph, !.st = w.st, !.match = w.match]
    BY <1>11, <2>1 DEF Answered
  <2>3. SessionBecomes(ph, w.st)
    BY <1>2, <2>2 DEF Session, SessionBecomes
  <2>4. w.kind \in {"register", "poll"} /\ w.code = "ok" /\ w.rid = active /\ active # 0 /\ w'.kind = "none" /\ w'.code = "none"
    BY <1>1, <1>2, <1>3, <1>11 DEF Answered, Stale, Together, RequestNamed
  <2>5. Result(FALSE) \in Events
    BY <2>4, Results
  <2>6. IF w.st # session.st \/ w.match # session.match \/ Over THEN Awaits(Result(FALSE)) ELSE UNCHANGED inbox
    BY <1>11, <2>5 DEF Answered, Awaits, Post
  <2> QED BY <1>11, <2>1, <2>3, <2>4, <2>6 DEF Steer
<1> QED BY <1>4, <1>5, <1>6, <1>7, <1>8, <1>9, <1>10, <1>11 DEF Steers

LEMMA ServeMoves ==
  ASSUME TypeOK, Names, Serve
  PROVE  w' # w /\ w.kind # "none" /\ w.code = "none"
BY Answering, IdleType DEF Answer

\* Where leaders start searches no event waits behind another, and nothing is handled late.
LEMMA OneWaits ==
  ASSUME Inv, Led
  PROVE  /\ late = {} /\ Len(inbox) <= 1 /\ Len(inbox) \in Nat
         /\ \A e \in Events : Awaits(e) => inbox = <<>> /\ Waits = {} /\ Starts = {} /\ ResultsIn = {} /\ Waits' = {e} /\ Len(inbox') = 1
         /\ Handle => inbox' = <<>> /\ Waits' = {} /\ Starts' = {} /\ ResultsIn' = {}
<1>1. late = {} /\ Len(inbox) <= 1 /\ InboxOK /\ Len(inbox) \in Nat /\ world.calm
  BY Parts, WaitsType DEF Inv, Safe, InTurn, Turn, Together, Orderly, Led
<1>2. ASSUME NEW e \in Events, Awaits(e)
      PROVE  inbox = <<>> /\ Waits = {} /\ Starts = {} /\ ResultsIn = {} /\ Waits' = {e} /\ Len(inbox') = 1
  <2>1. inbox = <<>>
    BY <1>1, <1>2, Posted DEF Awaits
  <2>2. Len(inbox) = 0 /\ Waits = {}
    <3>1. Len(<<>>) = 0 /\ 1..0 = {}
      OBVIOUS
    <3> QED BY <2>1, <3>1 DEF Waits
  <2>3. Waits' = Waits \cup {e} /\ Len(inbox') = Len(inbox) + 1
    BY <1>1, <1>2, WaitsPosted DEF Awaits
  <2> QED BY <2>1, <2>2, <2>3 DEF Starts, ResultsIn
<1>3. Handle => inbox' = <<>> /\ Waits' = {} /\ Starts' = {} /\ ResultsIn' = {}
  BY <1>1, Handles, WaitsTaken DEF Inv
<1> QED BY <1>1, <1>2, <1>3

LEMMA OneKind ==
  ASSUME NEW e \in Events, Awaits(e), Inv, Led
  PROVE  /\ e.kind # "start" => Starts' = {}
         /\ e.kind # "result" => ResultsIn' = {}
         /\ ResultsIn' \subseteq {e} /\ Len(inbox') <= 1
<1>1. Waits' = {e} /\ Len(inbox') = 1
  BY OneWaits
<1>2. 1 <= 1
  OBVIOUS
<1> QED BY <1>1, <1>2 DEF Starts, ResultsIn

-----------------------------------------------------------------------------
(* The searches of the player and of the leaders take turns.               *)

LEMMA KnownGrows ==
  ASSUME Inv, Next, Led, w.kind # "register" \/ w.code # "none"
  PROVE  \A r \in Known : r # 0 => r \in Known'
<1>1. TypeOK /\ Names /\ RowRid /\ late = {}
  BY RowRids DEF Inv, Safe, InTurn, Turn
<1>2. ~Registers
  BY <1>1, ServeMoves DEF Registers
<1>3. ended \subseteq ended' /\ (row'.rid = row.rid \/ row.rid \in ended' \/ row.rid = 0)
  BY <1>1, <1>2 DEF RowRid
<1> QED BY <1>3 DEF Known

\* a live search of a party member is not one of the player, who has none under way
LEMMA MemberAsks ==
  ASSUME Inv, Next, Led, row'.member
  PROVE  row'.rid > Own /\ session.phase # "Register" /\ w.kind # "register" /\ Starts = {}
<1>1. TypeOK /\ Names /\ RowRid /\ (row.member => row.rid > Own /\ Unasked) /\ late = {}
  BY RowRids DEF Inv, Safe, InTurn, Turn
<1>2. CASE LeaderStarts /\ row'.rid = Own + count.party + 1
  <2>1. Unoccupied
    BY <1>2 DEF LeaderStarts, Inv, Orderly, Led
  <2>2. inbox = <<>> /\ session.phase = "Done" /\ w.kind # "register"
    BY <2>1 DEF Unoccupied
  <2>3. Starts = {}
    <3>1. 1..Len(<<>>) = {}
      OBVIOUS
    <3> QED BY <2>2, <3>1 DEF Starts, Waits
  <2>4. PICK p \in 0..Parties : p = count.party
    BY <1>1, CountSteps
  <2>5. row'.rid > Own
    BY <1>2, <2>4, Numbers
  <2> QED BY <2>2, <2>3, <2>5
<1>3. CASE row'.rid = row.rid /\ row'.member = row.member
  BY <1>1, <1>3 DEF Unasked
<1>4. CASE Registers /\ row'.member = row.member
  BY <1>1, <1>4 DEF Registers, Unasked
<1> QED BY <1>1, <1>2, <1>3, <1>4 DEF RowRid

LEMMA BackendTurn ==
  ASSUME Inv, Next, Led, Backend
  PROVE  Turn'
<1>1. TypeOK /\ Names /\ Turn /\ Ours
  BY DEF Inv, Safe, InTurn
<1>2. UNCHANGED <<w, session, active, inbox, gc>> /\ Starts' = Starts /\ ResultsIn' = ResultsIn
  BY Frames, WaitsSame
<1>3. late' = {}
  BY <1>1 DEF Turn, Backend, Assign, OthersAccept, Dissolve, Complete, Expire, Remove, LeaderStarts, ServeLate
<1>4. active # 0 <=> session.phase # "Done" \/ active # 0
  BY <1>1 DEF Names, SessionNamed
<1>5. session.phase = "Poll" \/ (w.kind = "poll" /\ w.rid = active) => active \in Known'
  <2>1. session.phase = "Poll" \/ (w.kind = "poll" /\ w.rid = active) => w.kind # "register" /\ active \in Known /\ active # 0
    BY <1>1 DEF Turn, Names, SessionNamed, RequestNamed
  <2> QED BY <2>1, KnownGrows
<1>6. w.code = "ok" /\ (w.kind = "account" => w.member) => w.rid \in Known'
  <2>1. w.code = "ok" => w.rid # 0
    BY <1>1 DEF Names, RequestNamed
  <2> QED BY <1>1, <2>1, KnownGrows DEF Turn
<1>7. row'.member => row'.rid > Own /\ Unasked'
  BY <1>2, MemberAsks DEF Unasked
<1> QED BY <1>1, <1>2, <1>3, <1>5, <1>6, <1>7 DEF Turn

LEMMA ServeTurn ==
  ASSUME Inv, Next, Led, Serve
  PROVE  Turn'
<1>1. TypeOK /\ Names /\ Turn
  BY DEF Inv, Safe, InTurn
<1>2. UNCHANGED <<session, active, inbox, gc, late>> /\ Starts' = Starts /\ ResultsIn' = ResultsIn
  BY Frames, WaitsSame DEF Serve
<1>3. w.kind # "none" /\ w.code = "none"
  BY <1>1, ServeMoves
<1>4. (w'.kind = w.kind /\ Answer(w')) \/ (w'.kind = "none" /\ w'.code = "none")
  BY <1>1, Answering, IdleType DEF Answer
<1>5. session.phase = "Poll" \/ (w'.kind = "poll" /\ w'.rid = active) => active \in Known'
  <2>1. session.phase = "Poll" \/ (w'.kind = "poll" /\ w'.rid = active) => w.kind # "register" /\ active \in Known /\ active # 0
    BY <1>1, <1>4 DEF Turn, Names, SessionNamed, RequestNamed, Answer
  <2> QED BY <2>1, KnownGrows
<1>6. w'.kind = "poll" /\ w'.rid = active => w'.code # "unknown"
  BY <1>4, <1>5 DEF Answer, Code, Known
<1>7. w'.code = "ok" /\ (w'.kind = "account" => w'.member) => w'.rid \in Known'
  BY <1>4 DEF Answer, Code, Known
<1>8. w'.code = "refused" => w'.kind = "register"
  BY <1>4 DEF Answer, Code
<1>9. row'.member => row'.rid > Own /\ Unasked'
  BY <1>2, <1>4, MemberAsks DEF Unasked
<1>10. (session.phase = "Poll" => w'.kind # "register") /\ (w'.kind = "register" /\ w'.rid = active => session.phase = "Register")
  BY <1>1, <1>4 DEF Turn, Answer
<1> QED BY <1>1, <1>2, <1>5, <1>6, <1>7, <1>8, <1>9, <1>10 DEF Turn

LEMMA TimeOutTurn ==
  ASSUME Inv, Next, Led, TimeOut
  PROVE  Turn'
<1>1. TypeOK /\ Names /\ Turn
  BY DEF Inv, Safe, InTurn
<1>2. UNCHANGED <<session, active, inbox, gc, late>> /\ Starts' = Starts /\ ResultsIn' = ResultsIn
  BY Frames, WaitsSame DEF TimeOut, Inv, Orderly, Led
<1>3. w'.kind \in {"none", "accepted", "snapshot"} /\ w'.code = "none"
  <2>1. w' = Idle(TRUE) \/ (w.kind \in {"accepted", "snapshot"} /\ \E n : w' = [w EXCEPT !.tries = n])
    BY DEF TimeOut
  <2>2. w \in Request /\ w.code = "none"
    BY <1>1, Parts DEF Together, RequestOK, TimeOut, Waiting
  <2> QED BY <2>1, <2>2, IdleType DEF Request
<1>4. session.phase = "Poll" => active \in Known'
  <2>1. session.phase = "Poll" => w.kind # "register" /\ active \in Known /\ active # 0
    BY <1>1 DEF Turn, Names, SessionNamed
  <2> QED BY <2>1, KnownGrows
<1>5. row'.member => row'.rid > Own /\ Unasked'
  BY <1>2, <1>3, MemberAsks DEF Unasked
<1> QED BY <1>1, <1>2, <1>3, <1>4, <1>5 DEF Turn

LEMMA SteersTurn ==
  ASSUME Inv, Next, Led, Steers
  PROVE  Turn'
<1>1. TypeOK /\ Names /\ Turn /\ Steer
  BY Steering DEF Inv, Safe, InTurn
<1>2. UNCHANGED <<row, active, gc, late>> /\ Known' = Known
  BY Frames DEF Known
<1>3. /\ Len(inbox') <= 1 /\ (Starts = {} => Starts' = {})
      /\ UNCHANGED inbox => Starts' = Starts /\ ResultsIn' = ResultsIn
  <2>1. CASE UNCHANGED inbox
    BY <1>1, <2>1, WaitsSame DEF Turn
  <2>2. CASE Answered /\ Awaits(Result(FALSE))
    <3>1. w.code = "ok" /\ w.rid # 0
      BY <1>1, <2>2 DEF Names, RequestNamed, Answered
    <3>2. Result(FALSE) \in Events /\ Result(FALSE).kind = "result"
      BY <1>1, <3>1, Results
    <3>3. Len(inbox') = 1 /\ inbox = <<>> /\ Starts' = {} /\ Len(inbox') <= 1
      BY <2>2, <3>2, OneWaits, OneKind
    <3>4. inbox' # inbox
      BY <3>3
    <3> QED BY <3>3, <3>4
  <2> QED BY <1>1, <2>1, <2>2 DEF Steer, Quiet
<1>4. session.phase = "Poll" => active # 0
  BY <1>1 DEF Names, SessionNamed
<1>5. CASE UNCHANGED <<session, inbox, w>>
  BY <1>1, <1>2, <1>3, <1>5 DEF Turn, Unasked
<1>6. CASE UNCHANGED <<session, inbox>> /\ w'.kind \in {"none", "cancel", "accepted", "snapshot", "account"} /\ w'.code = "none"
  BY <1>1, <1>2, <1>3, <1>6 DEF Turn, Unasked
<1>7. CASE /\ UNCHANGED <<session, inbox>> /\ session.phase \in {"Register", "Poll"} /\ w'.rid = active /\ w'.code = "none"
           /\ w'.kind = IF session.phase = "Register" THEN "register" ELSE "poll"
  BY <1>1, <1>2, <1>3, <1>7 DEF Turn, Unasked
<1>8. CASE UNCHANGED <<w, inbox>> /\ w.kind = "none" /\ SessionBecomes("Done", session.st)
  BY <1>1, <1>2, <1>3, <1>8 DEF Turn, Unasked, SessionBecomes
<1>9. ~(w.kind = "poll" /\ w.code = "unknown" /\ w.rid = active)
  BY <1>1 DEF Turn
<1>10. CASE Quiet /\ w.code = "refused" /\ w.rid = active /\ SessionBecomes("Done", session.st)
  BY <1>1, <1>2, <1>3, <1>10 DEF Turn, Unasked, SessionBecomes, Quiet
<1>11. CASE /\ w.kind \in {"register", "poll"} /\ w.code = "ok" /\ w.rid = active /\ w'.kind = "none" /\ w'.code = "none"
            /\ SessionBecomes(IF Over THEN "Done" ELSE "Poll", w.st)
  <2>1. active \in Known /\ session'.phase \in {"Done", "Poll"}
    BY <1>1, <1>11 DEF Turn, SessionBecomes
  <2> QED BY <1>1, <1>2, <1>3, <1>11, <2>1 DEF Turn, Unasked
<1> QED BY <1>1, <1>5, <1>6, <1>7, <1>8, <1>9, <1>10, <1>11 DEF Steer

LEMMA AdoptTurn ==
  ASSUME Inv, Next, Led, Adopt
  PROVE  Turn'
<1>1. TypeOK /\ Names /\ Turn
  BY DEF Inv, Safe, InTurn
<1>2. UNCHANGED <<row, ended, late, gc>> /\ w' = Idle(FALSE) /\ active' = w.rid
  BY DEF Adopt, backend
<1>3. w.rid \in Known /\ w.rid \in Searches /\ Known' = Known
  BY <1>1, <1>2, NotMine DEF Turn, Adopt, Adoptable, Known
<1>4. session'.phase = "Poll"
  <2>1. session' = [NoSession EXCEPT !.rid = w.rid, !.phase = "Poll"]
    BY DEF Adopt
  <2> QED BY <1>3, <2>1, NewSession
<1>5. Len(inbox') <= 1 /\ Starts' = {}
  <2>1. w.code = "ok" /\ w.rid # 0 /\ Post(Result(TRUE))
    BY NotMine DEF Adopt, Adoptable
  <2>2. Result(TRUE) \in Events /\ Result(TRUE).kind = "result"
    BY <1>1, <2>1, Results
  <2> QED BY <2>1, <2>2, OneKind DEF Awaits, Post
<1>6. w'.kind = "none" /\ w'.code = "none"
  BY <1>2, IdleType
<1> QED BY <1>1, <1>2, <1>3, <1>4, <1>5, <1>6 DEF Turn, Unasked

LEMMA ActsTurn ==
  ASSUME Inv, Next, Led, Acts
  PROVE  Turn'
<1>1. TypeOK /\ Names /\ Turn /\ InboxStep
  BY InboxSteps DEF Inv, Safe, InTurn
<1>2. UNCHANGED <<row, ended, late, w, session, active, gc>> /\ Known' = Known
  BY Frames DEF Known
<1>3. CASE UNCHANGED inbox
  <2>1. Starts' = Starts /\ ResultsIn' = ResultsIn
    BY <1>3, WaitsSame
  <2> QED BY <1>1, <1>2, <1>3, <2>1 DEF Turn, Unasked
<1>4. ASSUME NEW e \in Events, Awaits(e), e.kind # "result", e.kind = "start" => ~row.member PROVE Turn'
  <2>1. Waits' = {e} /\ Len(inbox') = 1
    BY <1>4, OneWaits
  <2>2. ResultsIn' = {} /\ (e.kind # "start" => Starts' = {})
    BY <1>4, <2>1 DEF ResultsIn, Starts
  <2>3. 1 <= 1
    OBVIOUS
  <2>4. row'.member => row'.rid > Own /\ Unasked'
    BY <1>1, <1>2, <1>4, <2>2 DEF Turn, Unasked
  <2> QED BY <1>1, <1>2, <2>1, <2>2, <2>3, <2>4 DEF Turn
<1>5. CASE PressPlay
  <2>1. PICK e : e = [kind |-> "start", rid |-> count.own + 1]
    OBVIOUS
  <2>2. e.kind = "start" /\ ~row.member /\ inbox' = Append(inbox, e) /\ Post(e)
    BY <1>5, <2>1 DEF PressPlay, Post, Inv, Orderly, Led
  <2>3. count.own \in 0..Own /\ count.own < world.own /\ world.own \in 0..Own
    BY <1>1, <1>5, Parts, WorldType DEF PressPlay, Together, CountOK
  <2>4. PICK n \in 1..Own : n = count.own + 1
    BY <2>3, Numbers
  <2>5. e \in Events
    BY <2>1, <2>4, Numbers DEF Events
  <2> QED BY <1>4, <2>2, <2>5 DEF Awaits
<1>6. CASE PressStop
  <2>1. PICK e : e = [kind |-> "stop"]
    OBVIOUS
  <2>2. e \in Events /\ e.kind = "stop" /\ Post(e) /\ inbox' = Append(inbox, e)
    BY <1>6, <2>1 DEF PressStop, Events, Post
  <2> QED BY <1>4, <2>2 DEF Awaits
<1>7. CASE Notify
  <2>1. PICK e : e = [kind |-> "full"]
    OBVIOUS
  <2>2. UNCHANGED inbox \/ (e \in Events /\ e.kind = "full" /\ Post(e) /\ inbox' = Append(inbox, e))
    BY <1>7, <2>1 DEF Notify, Events, Post
  <2> QED BY <1>3, <1>4, <2>2 DEF Awaits
<1>8. CASE PlayersAccept \/ \E m \in Ids : Inspect(m)
  BY <1>3, <1>8 DEF PlayersAccept, Inspect
<1> QED BY <1>5, <1>6, <1>7, <1>8 DEF Acts

LEMMA RestartTurn ==
  ASSUME Inv, Next, Led, Restart
  PROVE  Turn'
<1>1. TypeOK /\ Names /\ Turn
  BY DEF Inv, Safe, InTurn
<1>2. UNCHANGED <<row, ended>> /\ w' = Idle(FALSE) /\ session' = NoSession /\ active' = 0 /\ inbox' = <<>> /\ gc' = NoGc
  BY DEF Restart, backend
<1>3. late' = {}
  BY <1>1 DEF Restart, Turn, Inv, Orderly, Led
<1>4. w'.kind = "none" /\ w'.code = "none" /\ session'.phase = "Done"
  BY <1>2, IdleType, NoSessionType
<1>5. Starts' = {} /\ ResultsIn' = {} /\ Len(inbox') <= 1
  <2>1. Len(<<>>) <= 1
    OBVIOUS
  <2> QED BY <1>2, <2>1, Emptied
<1> QED BY <1>1, <1>2, <1>3, <1>4, <1>5 DEF Turn, Unasked

LEMMA HandleTurn ==
  ASSUME Inv, Next, Led, Handle
  PROVE  Turn'
<1>1. TypeOK /\ Names /\ Turn /\ Effect /\ Ours
  BY Handles DEF Inv, Safe, InTurn
<1>2. UNCHANGED <<row, ended, late, w>> /\ Known' = Known
  BY Frames DEF Known
<1>3. inbox' = <<>> /\ Starts' = {} /\ ResultsIn' = {} /\ Len(inbox') <= 1
  <2>1. Len(<<>>) <= 1
    OBVIOUS
  <2> QED BY <2>1, OneWaits
<1>4. w.kind \in {"register", "poll"} => w.rid \in Mine /\ w.rid # 0
  BY <1>1 DEF Ours, Names, RequestNamed
<1>5. CASE Begins
  <2>1. Head(inbox) \in Starts /\ Head(inbox).rid \notin Mine
    BY <1>5, Beginning
  <2>2. ~row.member
    BY <1>1, <2>1 DEF Turn, Unasked
  <2>3. ~(w.kind \in {"register", "poll"} /\ w.rid = active')
    BY <1>4, <1>5, <2>1 DEF Begins
  <2>4. session'.phase = "Register" /\ session'.st = "none" /\ gc'.pend = 0
    BY <1>5 DEF Begins, GcBecomes
  <2> QED BY <1>1, <1>2, <1>3, <2>2, <2>3, <2>4 DEF Turn
<1>6. CASE Leaves
  <2>1. active' = 0 /\ session'.phase = "Done"
    BY <1>6 DEF Leaves
  <2> QED BY <1>1, <1>2, <1>3, <1>4, <2>1 DEF Turn, Unasked
<1>7. ASSUME active' = active, session' = session \/ (session'.phase = "Done" /\ session.phase # "Register"),
             session'.phase = "Register" => gc'.pend = 0
      PROVE  Turn'
  BY <1>1, <1>2, <1>3, <1>7 DEF Turn, Unasked
<1>8. CASE Connects
  <2>1. session.phase # "Register"
    BY <1>1, <1>8 DEF Connects, Turn
  <2> QED BY <1>7, <1>8, <2>1 DEF Connects, Tracks
<1>9. CASE Ignores
  BY <1>1, <1>7, <1>9 DEF Ignores, Tracks, Turn
<1>10. CASE Reports \/ Confirms
  BY <1>1, <1>7, <1>10 DEF Reports, Confirms, Tracks, Turn
<1>11. CASE Discovers \/ Joins \/ Withdraws \/ Ends
  BY <1>1, <1>7, <1>11 DEF Discovers, Joins, Offered, Withdraws, Ends, GcBecomes, Tracks
<1>12. CASE Pops
  <2>1. Head(inbox) \in ResultsIn
    BY <1>1, <1>12, Handles, WaitsTaken, Parts DEF Pops, Offered, Heading, ResultsIn, Together
  <2>2. session.phase # "Register"
    BY <1>1, <2>1 DEF Turn
  <2> QED BY <1>7, <1>12, <2>2 DEF Pops, Offered, Tracks
<1> QED BY <1>1, <1>5, <1>6, <1>8, <1>9, <1>10, <1>11, <1>12 DEF Effect

LEMMA InTurnStays ==
  ASSUME Inv, Next
  PROVE  InTurn'
BY LedStays, BackendTurn, ServeTurn, TimeOutTurn, SteersTurn, AdoptTurn, ActsTurn, RestartTurn, HandleTurn, NextSteps DEF InTurn, Inv

-----------------------------------------------------------------------------
(* The game's view of the Accept.                                          *)

\* the first event
LEMMA FirstWaits ==
  ASSUME Inv, Handle
  PROVE  /\ Head(inbox) \in Waits /\ Head(inbox) = inbox[1] /\ 1 \in 1..Len(inbox) /\ Waits \subseteq Waits' \cup {Head(inbox)}
         /\ Head(inbox).kind = "result" => Head(inbox) \in ResultsIn
         /\ \A i \in 1..Len(inbox') : i + 1 \in 1..Len(inbox) /\ inbox'[i] = inbox[i + 1] /\ i + 1 # 1
         /\ Led => Waits = {Head(inbox)}
<1>1. InboxOK /\ inbox # <<>> /\ inbox' = Tail(inbox)
  BY Handles, Parts DEF Inv, Together
<1>2. /\ Len(inbox) \in Nat \ {0} /\ Len(inbox') = Len(inbox) - 1 /\ Head(inbox) = inbox[1]
      /\ \A i \in 1..Len(inbox') : inbox'[i] = inbox[i + 1]
  BY <1>1, Tailed DEF InboxOK
<1>3. /\ 1 \in 1..Len(inbox)
      /\ \A i \in 1..Len(inbox') : i + 1 \in 1..Len(inbox) /\ i + 1 # 1
      /\ \A i \in 1..Len(inbox) : i = 1 \/ (i - 1 \in 1..Len(inbox') /\ (i - 1) + 1 = i)
  BY <1>2
<1>4. Head(inbox) \in Waits
  BY <1>2, <1>3 DEF Waits
<1>5. Waits \subseteq Waits' \cup {Head(inbox)}
  <2>1. ASSUME NEW i \in 1..Len(inbox) PROVE inbox[i] \in Waits' \cup {Head(inbox)}
    <3>1. CASE i = 1
      BY <1>2, <3>1
    <3>2. CASE i # 1
      <4>1. PICK j \in 1..Len(inbox') : j + 1 = i
        BY <1>3, <3>2
      <4>2. inbox'[j] = inbox[i]
        BY <1>2, <4>1
      <4> QED BY <4>2 DEF Waits
    <3> QED BY <3>1, <3>2
  <2> QED BY <2>1 DEF Waits
<1>6. Led => Waits = {Head(inbox)}
  BY <1>4, <1>5, OneWaits
<1>7. Head(inbox).kind = "result" => Head(inbox) \in ResultsIn
  BY <1>4 DEF ResultsIn
<1> QED BY <1>2, <1>3, <1>4, <1>5, <1>6, <1>7

\* A match that is heard of is one of the search the game follows.
LEMMA Hears ==
  ASSUME Inv, Handle, Heading
  PROVE  /\ Head(inbox) \in ResultsIn /\ active # 0 /\ Head(inbox).st \in States \cup {"ENDED"} /\ Head(inbox).match \in Ids \cup {0}
         /\ Assigned(Head(inbox).st) => Head(inbox).match \in Ids /\ Head(inbox).match # 0 /\ owner[Head(inbox).match] = active
         /\ Head(inbox).st = "READY_TO_CONNECT" /\ active \in AcceptModes => Head(inbox).match \in ready
         /\ gc.pend # 0 \/ gc.active => (gc.mode = "accept" <=> active \in AcceptModes)
<1>1. TypeOK /\ Names /\ Seen /\ Game /\ Unled
  BY DEF Inv, Safe
<1>2. Head(inbox) \in ResultsIn /\ Head(inbox).rid = active /\ ~Head(inbox).discovered
  BY FirstWaits DEF Heading
<1>3. /\ active # 0 /\ Head(inbox).st \in States \cup {"ENDED"} /\ Head(inbox).match \in Ids \cup {0}
      /\ Assigned(Head(inbox).st) <=> Head(inbox).match # 0
  BY <1>1, <1>2, WaitsNamed, Whole
<1>4. Head(inbox).match # 0 =>
        /\ owner[Head(inbox).match] = active
        /\ Head(inbox).st = "READY_TO_CONNECT" /\ active \in AcceptModes => Head(inbox).match \in ready
  BY <1>1, <1>2 DEF Seen, Good
<1>5. \A e \in ResultsIn : ~e.discovered
  <2>1. CASE Led
    BY <1>2, <2>1, FirstWaits DEF ResultsIn
  <2>2. CASE ~Led
    BY <1>1, <2>2 DEF Unled
  <2> QED BY <2>1, <2>2
<1>6. gc.pend # 0 \/ gc.active => (gc.mode = "accept" <=> active \in AcceptModes)
  BY <1>1, <1>5, ModeType DEF Game
<1> QED BY <1>2, <1>3, <1>4, <1>6 DEF Assigned

\* A leader's search is followed when no popup is up.
LEMMA Adopting ==
  ASSUME Inv, Adopt
  PROVE  /\ gc.pend = 0 /\ Waits = {} /\ ResultsIn = {} /\ inbox = <<>> /\ Waits' = {Result(TRUE)} /\ ResultsIn' = {Result(TRUE)}
         /\ Result(TRUE).rid = w.rid /\ Result(TRUE).discovered /\ Result(TRUE).kind = "result"
         /\ w.rid # 0 /\ w.rid \notin Mine
<1>1. TypeOK /\ Names /\ Up /\ Led
  BY NotMine DEF Inv, Safe
<1>2. w.code = "ok" /\ w.rid # 0 /\ w.rid \notin Mine /\ session.phase = "Done" /\ Post(Result(TRUE))
  BY NotMine DEF Adopt, Adoptable
<1>3. Result(TRUE) \in Events /\ Result(TRUE).kind = "result" /\ Result(TRUE).rid = w.rid /\ Result(TRUE).discovered = TRUE
  BY <1>1, <1>2, Results
<1>4. Waits = {} /\ ResultsIn = {} /\ Waits' = {Result(TRUE)} /\ inbox = <<>>
  BY <1>1, <1>2, <1>3, OneWaits DEF Awaits, Post
<1>5. ResultsIn' = {Result(TRUE)}
  BY <1>3, <1>4 DEF ResultsIn
<1>6. gc.pend = 0
  BY <1>1, <1>2, <1>4 DEF Up, Tracked
<1> QED BY <1>2, <1>3, <1>4, <1>5, <1>6

\* what the player and the watcher post
LEMMA Posting ==
  ASSUME TypeOK, Names, Acts
  PROVE  \/ UNCHANGED inbox
         \/ \E e \in Events : /\ Awaits(e) /\ e.kind \in {"start", "stop", "full"}
                              /\ e.kind = "start" => PressPlay
                              /\ e.kind = "stop" => PressStop
                              /\ e.kind = "full" => Notify /\ arm.on
<1>1. CASE PressPlay
  <2>1. PICK e : e = [kind |-> "start", rid |-> count.own + 1]
    OBVIOUS
  <2>2. e.kind = "start" /\ inbox' = Append(inbox, e) /\ Post(e)
    BY <1>1, <2>1 DEF PressPlay, Post
  <2>3. count.own \in 0..Own /\ count.own < world.own /\ world.own \in 0..Own
    BY <1>1, Parts, WorldType DEF PressPlay, Together, CountOK
  <2>4. PICK n \in 1..Own : n = count.own + 1
    BY <2>3, Numbers
  <2>5. e \in Events
    BY <2>1, <2>4, Numbers DEF Events
  <2> QED BY <1>1, <2>2, <2>5 DEF Awaits
<1>2. CASE PressStop
  <2>1. PICK e : e = [kind |-> "stop"]
    OBVIOUS
  <2>2. e \in Events /\ e.kind = "stop" /\ Post(e) /\ inbox' = Append(inbox, e)
    BY <1>2, <2>1 DEF PressStop, Events, Post
  <2> QED BY <1>2, <2>2 DEF Awaits
<1>3. CASE Notify
  <2>1. PICK e : e = [kind |-> "full"]
    OBVIOUS
  <2>2. UNCHANGED inbox \/ (arm.on /\ e \in Events /\ e.kind = "full" /\ Post(e) /\ inbox' = Append(inbox, e))
    BY <1>3, <2>1 DEF Notify, Events, Post
  <2> QED BY <1>3, <2>2 DEF Awaits
<1> QED BY <1>1, <1>2, <1>3 DEF Acts, PlayersAccept, Inspect

\* what the game showed was made for a search it follows or left
LEMMA Shown ==
  ASSUME Inv, Next
  PROVE  /\ Grows
         /\ \A m \in shown : m \in Ids /\ owner[m] \in Mine /\ owner[m] # 0 /\ owner'[m] = owner[m]
<1>1. TypeOK /\ Names /\ Ours /\ Grows
  BY Growing DEF Inv, Safe
<1>2. \A m \in shown : m \in Ids /\ owner[m] \in Mine /\ owner[m] # 0
  BY <1>1, MineType, Whole, Parts DEF Ours, Together, GameOK
<1> QED BY <1>1, <1>2 DEF Grows

LEMMA UpSame ==
  ASSUME Inv, Next, Led, UNCHANGED <<session, gc, active, shown, inbox>>
  PROVE  Tracked'
<1>1. Tracked /\ ResultsIn' = ResultsIn
  BY WaitsSame DEF Inv, Safe, Up
<1>2. \A m \in shown : owner'[m] = owner[m]
  BY Shown
<1> QED BY <1>1, <1>2 DEF Tracked

LEMMA ActsUp ==
  ASSUME Inv, Next, Led, Acts
  PROVE  Tracked'
<1>1. UNCHANGED <<session, gc, active, shown>>
  BY Frames
<1>2. ASSUME NEW e \in Events, Awaits(e), e.kind # "result" PROVE Tracked'
  <2>1. ResultsIn = {} /\ ResultsIn' = {}
    BY <1>2, OneWaits, OneKind
  <2>2. Tracked
    BY DEF Inv, Safe, Up
  <2> QED BY <1>1, <2>1, <2>2 DEF Tracked
<1> QED BY <1>1, <1>2, UpSame, Posting DEF Inv

LEMMA SteersUp ==
  ASSUME Inv, Next, Led, Steers
  PROVE  Tracked'
<1>1. TypeOK /\ Names /\ Tracked /\ Turn /\ Steer /\ Game
  BY Steering DEF Inv, Safe, Up, InTurn
<1>2. UNCHANGED <<owner, gc, active, shown>>
  BY Frames
<1>3. CASE UNCHANGED <<session, inbox>>
  BY <1>2, <1>3, UpSame
<1>4. CASE UNCHANGED inbox /\ session.phase # "Done" /\ ~Assigned(session.st) /\ SessionBecomes("Done", session.st)
  <2>1. ResultsIn' = ResultsIn
    BY <1>4, WaitsSame
  <2> QED BY <1>1, <1>2, <1>4, <2>1 DEF Tracked, SessionBecomes
<1>5. CASE UNCHANGED inbox /\ w.code = "refused" /\ w.rid = active /\ SessionBecomes("Done", session.st)
  <2>1. w.kind = "register" /\ session.phase = "Register" /\ gc.pend = 0 /\ ResultsIn = {}
    BY <1>1, <1>5 DEF Turn
  <2>2. ResultsIn' = {}
    BY <1>5, <2>1, WaitsSame
  <2> QED BY <1>2, <2>1, <2>2 DEF Tracked
<1>6. ASSUME w.rid = active, w.kind \in {"register", "poll"}, w.code = "ok", active # 0, SessionBecomes(IF Over THEN "Done" ELSE "Poll", w.st),
             Awaits(Result(FALSE))
      PROVE  Tracked'
  <2>1. Result(FALSE) \in Events /\ Result(FALSE).kind = "result" /\ Result(FALSE).rid = w.rid /\ Result(FALSE).st = w.st
        /\ ~Result(FALSE).discovered
    BY <1>6, Results, <1>1 DEF Awaits
  <2>2. Waits' = {Result(FALSE)}
    BY <1>6, <2>1, OneWaits
  <2>3. ResultsIn' = {Result(FALSE)}
    BY <2>1, <2>2 DEF ResultsIn
  <2>4. session'.st = w.st /\ (session'.phase = "Done" => ~Assigned(w.st) \/ active \notin AcceptModes)
    BY <1>6 DEF SessionBecomes, Over, Assigned
  <2> QED BY <1>2, <1>6, <2>1, <2>3, <2>4 DEF Tracked
<1>7. ASSUME UNCHANGED inbox, w.st = session.st, ~Over, SessionBecomes("Poll", w.st) PROVE Tracked'
  <2>1. ResultsIn' = ResultsIn
    BY <1>7, WaitsSame
  <2>2. session'.phase = "Poll" /\ session'.st = session.st
    BY <1>7 DEF SessionBecomes
  <2> QED BY <1>1, <1>2, <2>1, <2>2 DEF Tracked
<1>8. ~(w.kind = "poll" /\ w.code = "unknown" /\ w.rid = active)
  BY <1>1 DEF Turn
<1>9. world.brief
  BY DEF Inv, Orderly, Led
<1>10. CASE Answered /\ w.kind \in {"register", "poll"} /\ w.code = "ok" /\ w.rid = active /\ active # 0
            /\ SessionBecomes(IF Over THEN "Done" ELSE "Poll", w.st)
            /\ (IF w.st # session.st \/ w.match # session.match \/ Over THEN Awaits(Result(FALSE)) ELSE UNCHANGED inbox)
  <2>1. CASE Awaits(Result(FALSE))
    BY <1>6, <1>10, <2>1
  <2>2. CASE UNCHANGED inbox /\ w.st = session.st /\ ~Over
    BY <1>7, <1>10, <2>2
  <2> QED BY <1>10, <2>1, <2>2
<1> QED BY <1>1, <1>3, <1>4, <1>5, <1>8, <1>9, <1>10 DEF Steer, Quiet

LEMMA AdoptUp ==
  ASSUME Inv, Next, Led, Adopt
  PROVE  Tracked'
<1>1. gc.pend = 0 /\ ResultsIn' = {Result(TRUE)} /\ Result(TRUE).rid = w.rid /\ Result(TRUE).discovered /\ w.rid \notin Mine
  BY Adopting
<1>2. UNCHANGED <<gc, owner, shown>> /\ active' = w.rid
  BY DEF Adopt, backend
<1>3. \A m \in shown : owner[m] \in Mine
  BY Shown
<1> QED BY <1>1, <1>2, <1>3 DEF Tracked

LEMMA HandleUp ==
  ASSUME Inv, Next, Led, Handle
  PROVE  Tracked'
<1>1. TypeOK /\ Names /\ Tracked /\ Effect /\ Game
  BY Handles DEF Inv, Safe, Up
<1>2. ResultsIn' = {}
  BY OneWaits
<1>3. Head(inbox).kind # "result" => ResultsIn = {}
  <2>1. Waits = {Head(inbox)}
    BY FirstWaits
  <2> QED BY <2>1 DEF ResultsIn
<1>4. Head(inbox).kind = "result" => Head(inbox) \in ResultsIn
  BY FirstWaits
<1>5. SUFFICES ASSUME gc'.pend # 0 PROVE session'.phase # "Done" /\ Assigned(session'.st)
  BY <1>2 DEF Tracked
<1>6. CASE Ignores
  <2>1. gc.pend # 0 /\ UNCHANGED session
    BY <1>5, <1>6 DEF Ignores
  <2>2. CASE Head(inbox).kind = "result"
    <3>1. Head(inbox) \in ResultsIn /\ ~Head(inbox).discovered /\ Assigned(Head(inbox).st)
      BY <1>1, <1>4, <1>6, <2>1, <2>2 DEF Ignores, Tracked
    <3>2. active \in AcceptModes
      BY <1>1, <2>1 DEF Game
    <3> QED BY <1>1, <2>1, <3>1, <3>2 DEF Tracked
  <2>3. CASE Head(inbox).kind # "result"
    BY <1>1, <1>3, <2>1, <2>3 DEF Tracked
  <2> QED BY <2>2, <2>3
<1>7. CASE Reports
  BY <1>1, <1>3, <1>7 DEF Tracked, Reports
<1>8. CASE Confirms \/ Pops
  <2>1. Heading /\ Assigned(Head(inbox).st) /\ (gc.pend # 0 \/ gc.active) /\ UNCHANGED session
    BY <1>8 DEF Confirms, Pops, Offered, Assigned
  <2>2. gc.mode = "accept"
    BY <1>1, <1>8 DEF Confirms, Pops, Game
  <2>3. Head(inbox) \in ResultsIn /\ active \in AcceptModes
    BY <2>1, <2>2, Hears
  <2> QED BY <1>1, <2>1, <2>3 DEF Tracked, Heading
<1>9. CASE Begins \/ Leaves \/ Connects \/ Discovers \/ Joins \/ Withdraws \/ Ends
  BY <1>5, <1>9 DEF Begins, Leaves, Connects, Discovers, Joins, Withdraws, Ends, GcBecomes
<1> QED BY <1>1, <1>6, <1>7, <1>8, <1>9 DEF Effect

LEMMA RestartUp ==
  ASSUME Restart
  PROVE  Tracked'
<1>1. gc'.pend = 0 /\ ResultsIn' = {}
  BY Emptied DEF Restart, NoGc
<1> QED BY <1>1 DEF Tracked

LEMMA UpStays ==
  ASSUME Inv, Next
  PROVE  Up'
<1>1. Led /\ (Backend \/ Serve \/ TimeOut) => Tracked'
  BY UpSame, Frames
<1> QED BY <1>1, LedStays, SteersUp, AdoptUp, HandleUp, ActsUp, RestartUp, NextSteps DEF Up, Inv

\* no result that waits is lost but to the GC thread
LEMMA ResultsStay ==
  ASSUME TypeOK, Names, Next, ~Handle, ~Restart
  PROVE  ResultsIn \subseteq ResultsIn'
<1>1. InboxStep /\ InboxOK
  BY InboxSteps, Parts DEF Together
<1>2. ASSUME NEW e, Awaits(e) PROVE ResultsIn \subseteq ResultsIn'
  BY <1>1, <1>2, WaitsPosted DEF Awaits
<1>3. UNCHANGED inbox => ResultsIn \subseteq ResultsIn'
  BY WaitsSame
<1> QED BY <1>1, <1>2, <1>3 DEF InboxStep

LEMMA ArmSteps ==
  ASSUME TypeOK, Names, Next, ~Handle
  PROVE  full \subseteq full' /\ (arm'.on => arm.on)
<1>1. arm \in Arm
  BY Parts DEF Together, GameOK
<1>2. CASE UNCHANGED <<full, arm>>
  BY <1>2
<1>3. CASE PressPlay \/ PressStop
  BY <1>3 DEF PressPlay, PressStop, game
<1>4. CASE PlayersAccept
  BY <1>4 DEF PlayersAccept, game
<1>5. CASE Notify \/ \E m \in Ids : Inspect(m)
  BY <1>1, <1>5 DEF Notify, Inspect, Arm
<1>6. CASE Restart
  BY <1>6 DEF Restart, Disarmed
<1> QED BY <1>2, <1>3, <1>4, <1>5, <1>6, Frames, NextSteps DEF Acts

LEMMA GameSame ==
  ASSUME Inv, Next, UNCHANGED <<gc, active, shown>>, ResultsIn \subseteq ResultsIn', full \subseteq full', arm'.on => arm.on
  PROVE  Game'
<1>1. Game /\ Grows /\ (\A m \in shown : owner'[m] = owner[m])
  BY Shown DEF Inv, Safe
<1>2. gc.pend \in shown => owner'[gc.pend] = owner[gc.pend]
  BY <1>1
<1> QED BY <1>1, <1>2 DEF Game, Grows

LEMMA HandleGame ==
  ASSUME Inv, Next, Handle
  PROVE  Game'
<1>1. TypeOK /\ Names /\ Effect /\ Game /\ Armed /\ Unled /\ Up
  BY Handles DEF Inv, Safe
<1>2. UNCHANGED <<full, ready, owner>> /\ owner \in [Ids -> Searches \cup {0}]
  BY <1>1, Frames, Parts DEF Together, RowOK
<1>3. 1 \in 1..Len(inbox) /\ Head(inbox) = inbox[1] /\ (Head(inbox).kind = "result" => Head(inbox) \in ResultsIn)
  BY FirstWaits
<1>4. CASE Begins
  <2>1. active' # 0 /\ gc'.mode = Mode(active') /\ gc'.pend = 0 /\ gc'.popup = 0 /\ ~gc'.server /\ ~gc'.backend
    BY <1>4, Numbers, Whole DEF Begins, GcBecomes
  <2> QED BY <2>1 DEF Game
<1>5. CASE Leaves
  BY <1>5 DEF Leaves, GcBecomes, Game
<1>6. CASE Ignores
  <2>1. \A e \in ResultsIn : e \in ResultsIn' \/ ~e.discovered
    <3>1. Waits \subseteq Waits' \cup {Head(inbox)}
      BY FirstWaits
    <3> QED BY <1>6, <3>1 DEF ResultsIn, Ignores
  <2>2. UNCHANGED <<gc, active, shown, arm>>
    BY <1>6 DEF Ignores, Tracks
  <2> QED BY <1>1, <1>2, <2>1, <2>2 DEF Game
<1>7. CASE Reports
  <2>1. ~arm.on /\ gc.pend \in full
    BY <1>1, <1>3, <1>7 DEF Reports, Armed
  <2>2. UNCHANGED <<active, shown, arm>> /\ gc.pend # 0
    BY <1>7 DEF Reports, Tracks
  <2> QED BY <1>1, <1>2, <1>7, <2>1, <2>2 DEF Reports, GcBecomes, Game
<1>8. CASE Confirms
  <2>1. UNCHANGED <<active, shown, arm>> /\ gc.pend # 0
    BY <1>8 DEF Confirms, Tracks
  <2>2. gc.pend \in ready
    BY <1>1, <1>8, Hears DEF Confirms, Game
  <2> QED BY <1>1, <1>2, <1>8, <2>1, <2>2 DEF Confirms, GcBecomes, Game
<1>9. CASE Connects
  <2>1. ~gc.active
    BY <1>1, <1>9 DEF Connects, Game
  <2> QED BY <1>9, <2>1 DEF Connects, GcBecomes, Game
<1>10. CASE Discovers
  <2>1. Head(inbox) \in ResultsIn /\ Head(inbox).discovered
    BY <1>3, <1>10 DEF Discovers
  <2>2. Led
    BY <1>1, <2>1 DEF Unled
  <2>3. gc.pend = 0 /\ gc.popup = 0 /\ Head(inbox).rid = active
    BY <1>1, <2>1, <2>2 DEF Up, Tracked, Game
  <2>4. active # 0
    BY <1>1, <2>1, <2>3, WaitsNamed, Whole
  <2>5. UNCHANGED active
    BY <1>10 DEF Discovers, Tracks
  <2> QED BY <1>10, <2>3, <2>4, <2>5 DEF Discovers, GcBecomes, Game
<1>11. CASE Pops
  <2>1. Heading /\ Assigned(Head(inbox).st) /\ UNCHANGED active /\ shown' = shown \cup {Head(inbox).match} /\ gc.mode = "accept"
        /\ (gc.pend # 0 \/ gc.active)
    BY <1>11 DEF Pops, Offered, Tracks
  <2>2. Head(inbox).match # 0 /\ owner[Head(inbox).match] = active /\ active \in AcceptModes
        /\ (Head(inbox).st = "READY_TO_CONNECT" => Head(inbox).match \in ready)
    BY <2>1, Hears
  <2> QED BY <1>2, <1>11, <2>1, <2>2 DEF Pops, GcBecomes, Game
<1>12. CASE Joins
  BY <1>12 DEF Joins, GcBecomes, Game
<1>13. CASE Withdraws
  <2>1. active # 0 /\ active \in AcceptModes /\ gc.mode = "accept" /\ UNCHANGED active
    BY <1>1, <1>13, Hears DEF Withdraws, Tracks, Game
  <2> QED BY <1>13, <2>1, ModeType DEF Withdraws, GcBecomes, Game
<1>14. CASE Ends
  <2>1. gc.pend = 0 => gc.popup = 0 /\ ~gc.server /\ ~gc.backend
    BY <1>1 DEF Game
  <2> QED BY <1>14, <2>1 DEF Ends, GcBecomes, Game
<1> QED BY <1>1, <1>4, <1>5, <1>6, <1>7, <1>8, <1>9, <1>10, <1>11, <1>12, <1>13, <1>14 DEF Effect

LEMMA GameStays ==
  ASSUME Inv, Next
  PROVE  Game'
<1>1. TypeOK /\ Names /\ Game
  BY DEF Inv, Safe
<1>2. CASE ~Handle /\ ~Restart /\ ~Adopt
  <2>1. ResultsIn \subseteq ResultsIn' /\ full \subseteq full' /\ (arm'.on => arm.on)
    BY <1>1, <1>2, ResultsStay, ArmSteps
  <2>2. UNCHANGED <<gc, active, shown>>
    BY <1>2, Frames, NextSteps
  <2> QED BY <2>1, <2>2, GameSame
<1>3. CASE Adopt
  <2>1. gc.pend = 0 /\ UNCHANGED gc /\ Result(TRUE) \in ResultsIn' /\ Result(TRUE).discovered
    BY <1>3, Adopting DEF Adopt
  <2> QED BY <1>1, <2>1 DEF Game
<1>4. CASE Restart
  BY <1>4 DEF Restart, NoGc, Game
<1> QED BY <1>2, <1>3, <1>4, HandleGame

LEMMA ArmedSame ==
  ASSUME Inv, Next, UNCHANGED <<gc, arm, inbox>>, full \subseteq full'
  PROVE  Armed'
BY DEF Inv, Safe, Armed

LEMMA ArmedPosted ==
  ASSUME Inv, Next, NEW e \in Events, Awaits(e), e.kind # "full", UNCHANGED <<gc, arm, full>>
  PROVE  Armed'
<1>1. Armed /\ InboxOK /\ world.exact
  BY Parts DEF Inv, Safe, Together, Orderly
<1>2. /\ arm.seen = 0 /\ Len(inbox') = Len(inbox) + 1 /\ Len(inbox) \in Nat /\ inbox'[Len(inbox) + 1] = e
      /\ \A i \in 1..Len(inbox) : inbox'[i] = inbox[i]
  BY <1>1, Posted DEF Awaits
<1>3. \A i \in 1..Len(inbox') : i \in 1..Len(inbox) \/ i = Len(inbox) + 1
  BY <1>2
<1>4. \A i \in 1..Len(inbox') : inbox'[i].kind = "full" => i \in 1..Len(inbox) /\ inbox[i].kind = "full"
  BY <1>2, <1>3
<1> QED BY <1>1, <1>2, <1>4 DEF Armed

LEMMA NotifyArmed ==
  ASSUME Inv, Next, Notify
  PROVE  Armed'
<1>1. Armed /\ arm \in Arm /\ arm.seen # 0 /\ inbox = <<>> /\ UNCHANGED <<gc, full>>
  BY Parts DEF Inv, Safe, Together, GameOK, Notify, Armed
<1>2. arm'.on = FALSE /\ arm'.seen = 0
  BY <1>1 DEF Notify, Arm
<1>3. CASE UNCHANGED inbox
  <2>1. 1..Len(inbox) = {}
    BY <1>1
  <2> QED BY <1>1, <1>2, <1>3, <2>1 DEF Armed
<1>4. CASE arm.on /\ inbox' = Append(inbox, [kind |-> "full"])
  <2>1. gc.pend = arm.seen /\ gc.pend \in full
    BY <1>1, <1>4 DEF Armed
  <2>2. 1..Len(inbox') = {1}
    BY <1>1, <1>4
  <2> QED BY <1>1, <1>2, <2>1, <2>2 DEF Armed
<1> QED BY <1>3, <1>4 DEF Notify, Post

LEMMA HandleArmed ==
  ASSUME Inv, Next, Handle
  PROVE  Armed'
<1>1. TypeOK /\ Names /\ Effect /\ Game /\ Armed /\ arm.seen = 0 /\ arm'.seen = 0
  BY Handles DEF Inv, Safe, Orderly
<1>2. \A i \in 1..Len(inbox') : inbox'[i].kind # "full"
  BY <1>1, FirstWaits DEF Armed
<1>3. Head(inbox) = inbox[1] /\ 1 \in 1..Len(inbox)
  BY FirstWaits
<1>4. SUFFICES ASSUME arm'.on PROVE gc'.pend = arm'.for /\ arm'.for # 0
  BY <1>1, <1>2 DEF Armed
<1>5. CASE Ignores \/ Reports \/ Confirms
  BY <1>1, <1>4, <1>5 DEF Armed, Ignores, Reports, Confirms, GcBecomes
<1>6. CASE Connects
  <2>1. ~arm.on
    BY <1>1, <1>3, <1>6 DEF Connects, Armed, Game
  <2> QED BY <1>4, <1>6, <2>1 DEF Connects
<1>7. CASE Pops
  <2>1. Heading /\ Assigned(Head(inbox).st)
    BY <1>7 DEF Pops, Offered
  <2>2. Head(inbox).match # 0
    BY <2>1, Hears
  <2> QED BY <1>7, <2>2 DEF Pops, GcBecomes
<1>8. CASE Ends
  BY <1>1, <1>4, <1>8 DEF Ends, Armed, GcBecomes
<1>9. CASE Begins \/ Leaves \/ Discovers \/ Joins \/ Withdraws
  BY <1>4, <1>9 DEF Begins, Leaves, Discovers, Joins, Withdraws
<1> QED BY <1>1, <1>5, <1>6, <1>7, <1>8, <1>9 DEF Effect

LEMMA ArmedStays ==
  ASSUME Inv, Next
  PROVE  Armed'
<1>1. TypeOK /\ Names /\ Armed /\ world.exact
  BY DEF Inv, Safe, Orderly
<1>2. CASE Backend \/ Serve \/ TimeOut
  BY <1>2, ArmedSame, Frames
<1>3. CASE Steers
  <2>1. Steer /\ UNCHANGED <<gc, arm, full>>
    BY <1>1, <1>3, Steering, Frames
  <2>2. Awaits(Result(FALSE)) /\ w.code = "ok" /\ w.rid # 0 => Armed'
    <3>1. Awaits(Result(FALSE)) /\ w.code = "ok" /\ w.rid # 0 => Result(FALSE) \in Events /\ Result(FALSE).kind # "full"
      BY <1>1, Results
    <3> QED BY <2>1, <3>1, ArmedPosted
  <2> QED BY <2>1, <2>2, ArmedSame DEF Steer, Quiet
<1>4. CASE Adopt
  <2>1. UNCHANGED <<gc, arm, full>> /\ w.code = "ok" /\ w.rid # 0 /\ Post(Result(TRUE))
    BY <1>4, NotMine DEF Adopt, Adoptable
  <2>2. Result(TRUE) \in Events /\ Result(TRUE).kind # "full"
    BY <1>1, <2>1, Results
  <2> QED BY <2>1, <2>2, ArmedPosted DEF Awaits, Post
<1>5. CASE PressPlay \/ PressStop
  <2>1. UNCHANGED <<gc, arm, full>>
    BY <1>5 DEF PressPlay, PressStop, game
  <2>2. ~Notify \/ Armed'
    BY NotifyArmed
  <2>3. Acts
    BY <1>5 DEF Acts
  <2> QED BY <1>1, <2>1, <2>2, <2>3, Posting, ArmedPosted, ArmedSame
<1>6. CASE PlayersAccept
  BY <1>6, ArmedSame DEF PlayersAccept, game
<1>7. ASSUME NEW m \in Ids, Inspect(m) PROVE Armed'
  <2>1. arm' = [arm EXCEPT !.seen = m] /\ m \in full /\ arm.for = m /\ inbox = <<>> /\ UNCHANGED <<gc, full, inbox>> /\ arm \in Arm
    BY <1>1, <1>7, Parts DEF Inspect, Together, GameOK
  <2>2. arm'.on = arm.on /\ arm'.for = arm.for /\ arm'.seen = m
    BY <2>1 DEF Arm
  <2>3. 1..Len(inbox') = {}
    BY <2>1
  <2> QED BY <1>1, <2>1, <2>2, <2>3 DEF Armed
<1>8. CASE Restart
  <2>1. inbox' = <<>> /\ arm' = Disarmed
    BY <1>8 DEF Restart
  <2>2. 1..Len(<<>>) = {}
    OBVIOUS
  <2> QED BY <2>1, <2>2 DEF Armed, Disarmed
<1> QED BY <1>2, <1>3, <1>4, <1>5, <1>6, <1>7, <1>8, NotifyArmed, HandleArmed, NextSteps DEF Acts

\* The cancel of a search is queued when the game leaves it.
LEMMA JobSteps ==
  ASSUME Inv, Next
  PROVE  \A i \in 1..Len(jobs') : jobs'[i].kind = "cancel" => jobs'[i].rid \in left'
<1>1. TypeOK /\ Names /\ JobsOK /\ MineStep
  BY MineSteps, Parts DEF Inv, Together
<1>2. \A i \in 1..Len(jobs) : jobs[i].kind = "cancel" => jobs[i].rid \in left
  BY DEF Inv, Safe, Gone
<1>3. ~Restart => left \subseteq left'
  BY <1>1, MineType DEF MineStep, Tracks, Begins, Leaves
<1>4. jobs \in Seq(Job) /\ DOMAIN jobs = 1..Len(jobs)
  BY <1>1 DEF JobsOK
<1>5. ASSUME NEW k \in {"cancel", "accepted", "snapshot"}, NEW r \in Searches, Enqueue(k, r), k = "cancel" => r \in left', ~Restart
      PROVE  \A i \in 1..Len(jobs') : jobs'[i].kind = "cancel" => jobs'[i].rid \in left'
  <2>1. JobsOK' /\ \A i \in DOMAIN jobs' : (\E j \in DOMAIN jobs : jobs'[i] = jobs[j]) \/ (jobs'[i].kind = k /\ jobs'[i].rid = r)
    BY <1>1, <1>5, Enqueued
  <2>2. DOMAIN jobs' = 1..Len(jobs')
    BY <2>1 DEF JobsOK
  <2> QED BY <1>2, <1>3, <1>4, <1>5, <2>1, <2>2
<1>6. CASE UNCHANGED jobs /\ ~Restart
  BY <1>2, <1>3, <1>6
<1>7. CASE jobs # <<>> /\ jobs' = Tail(jobs) /\ ~Restart
  <2>1. Len(jobs) \in Nat \ {0} /\ Len(jobs') = Len(jobs) - 1 /\ \A i \in 1..Len(jobs') : jobs'[i] = jobs[i + 1]
    BY <1>4, <1>7, Tailed
  <2>2. \A i \in 1..Len(jobs') : i + 1 \in 1..Len(jobs)
    BY <2>1
  <2> QED BY <1>2, <1>3, <1>7, <2>1, <2>2
<1>8. CASE Restart
  <2>1. jobs' = <<>>
    BY <1>8 DEF Restart
  <2>2. 1..Len(<<>>) = {}
    OBVIOUS
  <2> QED BY <2>1, <2>2
<1>9. CASE Handle /\ ~Restart
  <2>1. Effect
    BY <1>1, <1>9, Handles
  <2>2. active # 0 => active \in Searches
    BY <1>1, MineType
  <2>3. CASE Leaves
    <3>1. active # 0 => active \in left'
      BY <2>3 DEF Leaves, Mine
    <3> QED BY <1>5, <1>6, <1>9, <2>2, <2>3, <3>1 DEF Leaves
  <2>4. CASE Reports \/ Connects
    BY <1>5, <1>6, <1>9, <2>2, <2>4 DEF Reports, Connects
  <2>5. CASE Begins \/ Ignores \/ Confirms \/ Discovers \/ Pops \/ Joins \/ Withdraws \/ Ends
    BY <1>6, <1>9, <2>5 DEF Begins, Ignores, Confirms, Discovers, Pops, Joins, Offered, Withdraws, Ends
  <2> QED BY <2>1, <2>3, <2>4, <2>5 DEF Effect
<1>10. CASE Adopt /\ ~Restart
  <2>1. w.rid \in Searches
    BY <1>10, NotMine
  <2> QED BY <1>5, <1>10, <2>1 DEF Adopt
<1>11. CASE Answered /\ ~Restart
  <2>1. w.rid \in Searches
    BY <1>1, <1>11, Parts DEF Together, RequestOK, Request, RequestNamed, Answered
  <2> QED BY <1>5, <1>6, <1>11, <2>1 DEF Answered
<1>12. CASE PickJob /\ ~Restart
  BY <1>7, <1>12 DEF PickJob
<1>13. CASE (Backend \/ Serve \/ TimeOut \/ Acts \/ (Steers /\ ~Answered /\ ~PickJob)) /\ ~Restart
  <2>1. UNCHANGED jobs
    BY <1>13, Frames DEF Steers, PickStep, PickWatch, GiveUp, Ignored, Lost, Rejected, NothingFound
  <2> QED BY <1>6, <1>13, <2>1
<1> QED BY <1>8, <1>9, <1>10, <1>11, <1>12, <1>13, NextSteps

LEMMA CancelSent ==
  ASSUME Inv, Next
  PROVE  w'.kind = "cancel" => w'.rid \in left'
<1>1. TypeOK /\ Names /\ Gone /\ JobsOK /\ MineStep /\ RequestStep
  BY MineSteps, RequestSteps, Parts DEF Inv, Together, Safe
<1>2. ~Restart => left \subseteq left'
  BY <1>1, MineType DEF MineStep, Tracks, Begins, Leaves
<1>3. Restart => w'.kind = "none"
  BY IdleType DEF Restart
<1>4. CASE UNCHANGED w \/ (TimeOut /\ \A k \in {"kind", "rid", "code", "match"} : w'[k] = w[k])
  BY <1>1, <1>2, <1>3, <1>4 DEF Gone
<1>5. CASE PickJob /\ jobs # <<>> /\ Asks(Head(jobs).kind, Head(jobs).rid)
  <2>1. Head(jobs) = jobs[1] /\ 1 \in 1..Len(jobs)
    BY <1>1, <1>5, Tailed DEF JobsOK
  <2> QED BY <1>1, <1>2, <1>3, <1>5, <2>1 DEF Gone, Asks
<1>6. CASE Serve /\ Answer(w')
  <2>1. w'.kind = "cancel" => FALSE
    BY <1>6 DEF Answer
  <2> QED BY <2>1
<1>7. CASE Asks("none", 0) \/ Asks(IF session.phase = "Register" THEN "register" ELSE "poll", active) \/ Asks("account", 0)
  BY <1>7 DEF Asks
<1> QED BY <1>1, <1>4, <1>5, <1>6, <1>7 DEF RequestStep

\* A cancel that the backend handles late is of a search before every one that is or will be followed.
LEMMA LateSteps ==
  ASSUME TypeOK, Names, Next, NEW q \in late', q \notin late
  PROVE  ~world.prompt /\ q.rid = w.rid /\ q.kind = w.kind /\ (TimeOut \/ Restart)
<1>1. CASE TimeOut
  <2>1. late' = {[kind |-> w.kind, rid |-> w.rid]} /\ ~world.prompt
    BY <1>1 DEF TimeOut
  <2> QED BY <1>1, <2>1
<1>2. CASE Restart
  <2>1. late' = {[kind |-> w.kind, rid |-> w.rid]} /\ ~world.prompt
    BY <1>2 DEF Restart
  <2> QED BY <1>2, <2>1
<1>3. ASSUME NEW req \in late, ServeLate(req) PROVE FALSE
  BY <1>3 DEF ServeLate
<1>4. CASE Backend
  BY <1>3, <1>4 DEF Backend, Assign, OthersAccept, Dissolve, Complete, Expire, Remove, LeaderStarts
<1>5. CASE Serve
  BY <1>5 DEF Serve
<1> QED BY <1>1, <1>2, <1>4, <1>5, Frames, NextSteps

LEMMA GoneStays ==
  ASSUME Inv, Next
  PROVE  Gone'
<1>1. TypeOK /\ Names /\ Gone /\ Fresh /\ Unled /\ MineStep
  BY MineSteps DEF Inv, Safe
<1>2. count'.own \in Int /\ count.own \in 0..Own /\ count.own <= count'.own /\ count.own < count.own + 1 /\ (PressPlay => count'.own = count.own + 1)
  BY <1>1, CountSteps, Whole
<1>3. late \subseteq [kind : {"register", "cancel", "accepted"}, rid : Searches]
  BY <1>1, Parts DEF Together, LateOK
<1>4. ASSUME NEW q \in late', q.kind = "cancel"
      PROVE  q.rid \in Searches /\ q.rid # active' /\ q.rid <= Own /\ q.rid <= count'.own /\ \A e \in Starts' : q.rid < e.rid
  <2>1. q.rid \in Searches /\ q.rid <= Own /\ q.rid <= count.own /\ \A e \in Starts : q.rid < e.rid
    <3>1. CASE q \in late
      BY <1>1, <1>3, <1>4, <3>1 DEF Gone
    <3>2. CASE q \notin late
      <4>1. ~world.prompt /\ q.rid = w.rid /\ w.kind = "cancel"
        BY <1>1, <1>4, <3>2, LateSteps
      <4>2. q.rid \in Mine /\ ~Led
        BY <1>1, <4>1 DEF Gone, Mine, Inv, Orderly, Led
      <4>3. q.rid <= Own /\ q.rid \in Searches
        BY <1>1, <4>2, MineType DEF Unled
      <4> QED BY <1>1, <4>2, <4>3 DEF Fresh
    <3> QED BY <3>1, <3>2
  <2>2. PICK r \in Searches : r = q.rid
    BY <2>1
  <2>3. r \in Int /\ r # 0 /\ r <= count.own /\ r <= count'.own /\ r < count.own + 1
    BY <1>2, <2>1, <2>2, Whole
  <2>4. ASSUME NEW e \in Starts' PROVE r < e.rid
    <3>1. CASE e \in Starts
      BY <2>1, <2>2, <3>1
    <3>2. CASE e \notin Starts
      <4>1. e.rid = count.own + 1
        BY <1>1, <3>2, NewStart
      <4> QED BY <2>3, <4>1
    <3> QED BY <3>1, <3>2
  <2>5. r # active'
    <3>1. CASE Handle /\ Begins
      <4>1. Head(inbox) \in Starts /\ active' = Head(inbox).rid
        BY <3>1, Beginning DEF Begins
      <4> QED BY <2>1, <2>2, <2>3, <4>1
    <3>2. CASE active' = 0
      BY <2>3, <3>2
    <3>3. CASE Adopt
      <4>1. late = {} /\ ~TimeOut
        <5>1. Led
          BY <3>3, NotMine
        <5>2. ~Waiting
          BY <3>3 DEF Adopt, Adoptable, Waiting
        <5> QED BY <5>1, <5>2, OneWaits DEF TimeOut
      <4>2. late' = late
        BY <3>3, Frames
      <4> QED BY <4>1, <4>2
    <3>4. CASE Tracks /\ ~Adopt /\ ~Restart
      <4>1. CASE q \in late
        BY <1>1, <1>4, <2>2, <3>4, <4>1 DEF Gone, Tracks
      <4>2. CASE q \notin late
        <5>1. q.rid = w.rid /\ w.kind = "cancel"
          BY <1>1, <1>4, <4>2, LateSteps
        <5>2. r \in left
          BY <1>1, <2>2, <5>1 DEF Gone
        <5>3. active \notin left
          BY DEF Inv, Safe, Ours
        <5> QED BY <3>4, <5>2, <5>3 DEF Tracks
      <4> QED BY <4>1, <4>2
    <3> QED BY <1>1, <3>1, <3>2, <3>3, <3>4 DEF MineStep, Leaves
  <2> QED BY <2>1, <2>2, <2>3, <2>4, <2>5
<1> QED BY <1>4, JobSteps, CancelSent DEF Gone

-----------------------------------------------------------------------------
(* The order of the matches that are heard of.                             *)

\* Entries disappear, or are heard a second time.
Thins(f, n, g, k, h) ==
  /\ \A i \in 1..n : f[i] \in Int
  /\ \A i \in 1..k : g[i] \in Int /\ h[i] \in 1..n
  /\ \A i \in 1..k : g[i] > 0 => g[i] = f[h[i]]
  /\ \A i, j \in 1..k : i < j => h[i] <= h[j]
  /\ \A i, j \in 1..k : i < j /\ g[j] > 0 /\ g[i] = 0 => g[i] = f[h[i]]

\* That leaves the order as it is.
LEMMA Thinner ==
  ASSUME NEW n \in Nat, NEW k \in Nat, NEW f, NEW g, NEW h, Thins(f, n, g, k, h)
  PROVE  /\ Rise(f, n) => Rise(g, k)
         /\ \A m \in Int : (Weak(m, f, n) => Weak(m, g, k)) /\ (Strict(m, f, n) => Strict(m, g, k))
<1> USE DEF Thins
<1>1. ASSUME NEW i \in 1..k, NEW j \in 1..k, i < j, g[j] > 0, g[i] = 0 PROVE h[i] < h[j] /\ f[h[i]] = 0
  <2>1. g[i] = f[h[i]] /\ h[i] <= h[j] /\ g[j] = f[h[j]]
    BY <1>1
  <2>2. h[i] \in 1..n /\ h[j] \in 1..n /\ h[i] # h[j]
    BY <1>1, <2>1
  <2> QED BY <1>1, <2>1, <2>2
<1>2. ASSUME Rise(f, n) PROVE Rise(g, k)
  <2>1. ASSUME NEW i \in 1..k, NEW j \in 1..k, i < j, g[i] > 0, g[j] > 0
        PROVE  g[i] <= g[j] /\ \A l \in 1..k : i < l /\ l < j /\ g[l] = 0 => g[i] < g[j]
    <3>1. h[i] \in 1..n /\ h[j] \in 1..n /\ g[i] = f[h[i]] /\ g[j] = f[h[j]] /\ h[i] <= h[j] /\ g[i] \in Int /\ g[j] \in Int
      BY <2>1
    <3>2. g[i] <= g[j]
      BY <1>2, <2>1, <3>1 DEF Rise
    <3>3. ASSUME NEW l \in 1..k, i < l, l < j, g[l] = 0 PROVE g[i] < g[j]
      <4>1. h[l] < h[j] /\ f[h[l]] = 0 /\ h[l] \in 1..n
        BY <1>1, <2>1, <3>3
      <4>2. h[i] < h[l]
        <5>1. h[l] # h[i]
          BY <2>1, <3>1, <4>1
        <5>2. h[i] <= h[l]
          BY <3>3
        <5> QED BY <3>1, <4>1, <5>1, <5>2
      <4> QED BY <1>2, <2>1, <3>1, <4>1, <4>2 DEF Rise
    <3> QED BY <3>2, <3>3
  <2> QED BY <2>1 DEF Rise
<1>3. ASSUME NEW m \in Int, Weak(m, f, n) PROVE Weak(m, g, k)
  <2>1. ASSUME NEW i \in 1..k, g[i] > 0 PROVE m <= g[i] /\ \A l \in 1..k : l < i /\ g[l] = 0 => m < g[i]
    <3>1. h[i] \in 1..n /\ g[i] = f[h[i]]
      BY <2>1
    <3>2. ASSUME NEW l \in 1..k, l < i, g[l] = 0 PROVE m < g[i]
      <4>1. h[l] < h[i] /\ f[h[l]] = 0 /\ h[l] \in 1..n
        BY <1>1, <2>1, <3>2
      <4> QED BY <1>3, <2>1, <3>1, <4>1 DEF Weak
    <3> QED BY <1>3, <2>1, <3>1, <3>2 DEF Weak
  <2> QED BY <2>1 DEF Weak
<1>4. ASSUME NEW m \in Int, Strict(m, f, n) PROVE Strict(m, g, k)
  BY <1>4 DEF Strict
<1> QED BY <1>2, <1>3, <1>4

\* The last entry goes away, or is a match after all others.
LEMMA Topped ==
  ASSUME NEW n \in Nat, NEW f, NEW g, n > 0,
         \A i \in 1..n : f[i] \in Int /\ g[i] \in Int,
         \A i \in 1..n : i < n => g[i] = f[i]
  PROVE  /\ Rise(f, n) /\ (g[n] <= 0 \/ \A i \in 1..n : i < n => f[i] < g[n]) => Rise(g, n)
         /\ \A m \in Int : g[n] <= 0 \/ m < g[n] => (Weak(m, f, n) => Weak(m, g, n)) /\ (Strict(m, f, n) => Strict(m, g, n))
<1>1. n \in 1..n /\ \A i \in 1..n : i < n \/ i = n
  OBVIOUS
<1>2. ASSUME Rise(f, n), g[n] <= 0 \/ \A i \in 1..n : i < n => f[i] < g[n] PROVE Rise(g, n)
  <2>1. ASSUME NEW i \in 1..n, NEW j \in 1..n, i < j, g[i] > 0, g[j] > 0
        PROVE  g[i] <= g[j] /\ \A l \in 1..n : i < l /\ l < j /\ g[l] = 0 => g[i] < g[j]
    <3>1. i < n /\ g[i] = f[i] /\ f[i] \in Int /\ g[j] \in Int
      BY <2>1
    <3>2. CASE j < n
      <4>1. g[j] = f[j] /\ \A l \in 1..n : l < j => g[l] = f[l]
        BY <2>1, <3>2
      <4> QED BY <1>2, <2>1, <3>1, <4>1 DEF Rise
    <3>3. CASE j = n
      BY <1>2, <2>1, <3>1, <3>3
    <3> QED BY <1>1, <3>2, <3>3
  <2> QED BY <2>1 DEF Rise
<1>3. ASSUME NEW m \in Int, g[n] <= 0 \/ m < g[n], Weak(m, f, n) PROVE Weak(m, g, n)
  <2>1. ASSUME NEW i \in 1..n, g[i] > 0 PROVE m <= g[i] /\ \A l \in 1..n : l < i /\ g[l] = 0 => m < g[i]
    <3>1. CASE i < n
      <4>1. g[i] = f[i] /\ \A l \in 1..n : l < i => g[l] = f[l]
        BY <3>1
      <4> QED BY <1>3, <2>1, <4>1 DEF Weak
    <3>2. CASE i = n
      BY <1>3, <2>1, <3>2
    <3> QED BY <1>1, <3>1, <3>2
  <2> QED BY <2>1 DEF Weak
<1>4. ASSUME NEW m \in Int, g[n] <= 0 \/ m < g[n], Strict(m, f, n) PROVE Strict(m, g, n)
  <2>1. ASSUME NEW i \in 1..n, g[i] > 0 PROVE m < g[i]
    BY <1>1, <1>4, <2>1 DEF Strict
  <2> QED BY <2>1 DEF Strict
<1> QED BY <1>2, <1>3, <1>4

\* One match alone is in order.
LEMMA Alone ==
  ASSUME NEW n \in Nat, NEW g, \A i \in 1..n : i < n => g[i] <= 0, \A i \in 1..n : g[i] \in Int
  PROVE  Rise(g, n)
BY DEF Rise

LEMMA RowMatch ==
  ASSUME TypeOK, Names, Next
  PROVE  \/ row'.rid = row.rid /\ row'.match = row.match
         \/ row'.match = 0
         \/ \E m \in Ids : Assign(m) /\ m = count.match + 1 /\ row'.rid = row.rid /\ row'.match = m
<1>1. RowStep /\ row \in Row /\ RowNamed
  BY RowSteps, Parts DEF Together, RowOK
<1>2. CASE Refreshed
  BY <1>2 DEF Refreshed
<1>3. ASSUME NEW r \in Searches, Replaced(r) PROVE row'.match = 0
  BY <1>1, <1>3, NewRowType DEF Replaced, Row
<1>4. CASE row.st = "WAITING_ACCEPT" /\ Promoted
  BY <1>1, <1>4 DEF Promoted, Row
<1>5. CASE Finish
  BY <1>5, NoRowType DEF Finish
<1>6. ASSUME NEW m \in Ids, Assign(m) PROVE m = count.match + 1 /\ row'.rid = row.rid /\ row'.match = m
  <2>1. PICK st \in {"WAITING_ACCEPT", "READY_TO_CONNECT"} : row' = [row EXCEPT !.match = m, !.missed = 0, !.st = st] /\ m = count.match + 1
    BY <1>6 DEF Assign
  <2> QED BY <1>1, <2>1 DEF Row
<1>7. CASE Dissolve
  <2>1. row.rid \in Searches /\ row.member \in BOOLEAN
    BY <1>1, <1>7 DEF Dissolve, RowNamed, Row
  <2> QED BY <1>7, <2>1, NewRowType DEF Dissolve
<1>8. CASE LeaderStarts
  <2>1. PICK z, r : z = NoRow /\ r = Own + count.party + 1
    OBVIOUS
  <2>2. row' = [z EXCEPT !.rid = r, !.member = TRUE, !.st = "SEARCHING"]
    BY <1>8, <2>1 DEF LeaderStarts, NewRow
  <2> QED BY <2>1, <2>2, NoRowType DEF Row
<1> QED BY <1>1, <1>2, <1>3, <1>4, <1>5, <1>6, <1>7, <1>8 DEF RowStep

\* what the entries are
LEMMA NewsIs ==
  ASSUME TypeOK
  PROVE  /\ Len(inbox) \in Nat /\ FromWorker \in Int /\ FromRow \in Int
         /\ \A i \in 1..(Len(inbox) + 2) : News[i] \in Int
         /\ \A i \in 1..Len(inbox) : i \in 1..(Len(inbox) + 2) /\ News[i] = (IF Heard(inbox[i]) THEN inbox[i].match ELSE -1)
         /\ News[Len(inbox) + 1] = FromWorker /\ News[Len(inbox) + 2] = FromRow
         /\ \A i \in 1..(Len(inbox) + 2) : i \in 1..Len(inbox) \/ i = Len(inbox) + 1 \/ i = Len(inbox) + 2
<1>1. inbox \in Seq(Events) /\ w \in Request /\ row \in Row
  BY DEF TypeOK, Request, Row
<1>2. Len(inbox) \in Nat /\ \A i \in 1..Len(inbox) : inbox[i] \in Events
  BY <1>1
<1>3. FromWorker \in Int /\ FromRow \in Int
  BY <1>1, Whole DEF Request, Row, FromWorker, FromRow
<1>4. \A i \in 1..Len(inbox) : Heard(inbox[i]) => inbox[i].match \in Int
  BY <1>2, EventKinds, Whole DEF Heard
<1>5. /\ \A i \in 1..Len(inbox) : i \in 1..(Len(inbox) + 2)
      /\ Len(inbox) + 1 \in 1..(Len(inbox) + 2) /\ Len(inbox) + 2 \in 1..(Len(inbox) + 2)
      /\ ~(Len(inbox) + 1 <= Len(inbox)) /\ ~(Len(inbox) + 2 <= Len(inbox)) /\ Len(inbox) + 1 # Len(inbox) + 2
      /\ \A i \in 1..(Len(inbox) + 2) : i \in 1..Len(inbox) \/ i = Len(inbox) + 1 \/ i = Len(inbox) + 2
      /\ \A i \in 1..Len(inbox) : i <= Len(inbox)
  BY <1>2
<1>6. \A i \in 1..Len(inbox) : News[i] = (IF Heard(inbox[i]) THEN inbox[i].match ELSE -1)
  BY <1>5 DEF News
<1>7. News[Len(inbox) + 1] = FromWorker /\ News[Len(inbox) + 2] = FromRow
  BY <1>5 DEF News
<1>8. \A i \in 1..(Len(inbox) + 2) : News[i] \in Int
  BY <1>3, <1>4, <1>5, <1>6, <1>7
<1> QED BY <1>2, <1>3, <1>5, <1>6, <1>7, <1>8

LEMMA NewsAfter ==
  ASSUME TypeOK, Names, Next
  PROVE  /\ Len(inbox') \in Nat /\ FromWorker' \in Int /\ FromRow' \in Int
         /\ \A i \in 1..(Len(inbox') + 2) : News'[i] \in Int
         /\ \A i \in 1..Len(inbox') : i \in 1..(Len(inbox') + 2) /\ News'[i] = (IF Heard(inbox[i])' THEN inbox'[i].match ELSE -1)
         /\ News'[Len(inbox') + 1] = FromWorker' /\ News'[Len(inbox') + 2] = FromRow'
         /\ \A i \in 1..(Len(inbox') + 2) : i \in 1..Len(inbox') \/ i = Len(inbox') + 1 \/ i = Len(inbox') + 2
<1>1. inbox' \in Seq(Events) /\ w' \in Request /\ row' \in Row
  BY NextTypes DEF TypeOK, Request, Row
<1>2. Len(inbox') \in Nat /\ \A i \in 1..Len(inbox') : inbox'[i] \in Events
  BY <1>1
<1>3. FromWorker' \in Int /\ FromRow' \in Int
  BY <1>1, Whole DEF Request, Row, FromWorker, FromRow
<1>4. \A i \in 1..Len(inbox') : Heard(inbox[i])' => inbox'[i].match \in Int
  BY <1>2, EventKinds, Whole DEF Heard
<1>5. /\ \A i \in 1..Len(inbox') : i \in 1..(Len(inbox') + 2)
      /\ Len(inbox') + 1 \in 1..(Len(inbox') + 2) /\ Len(inbox') + 2 \in 1..(Len(inbox') + 2)
      /\ ~(Len(inbox') + 1 <= Len(inbox')) /\ ~(Len(inbox') + 2 <= Len(inbox')) /\ Len(inbox') + 1 # Len(inbox') + 2
      /\ \A i \in 1..(Len(inbox') + 2) : i \in 1..Len(inbox') \/ i = Len(inbox') + 1 \/ i = Len(inbox') + 2
      /\ \A i \in 1..Len(inbox') : i <= Len(inbox')
  BY <1>2
<1>6. \A i \in 1..Len(inbox') : News'[i] = (IF Heard(inbox[i])' THEN inbox'[i].match ELSE -1)
  BY <1>5 DEF News
<1>7. News'[Len(inbox') + 1] = FromWorker' /\ News'[Len(inbox') + 2] = FromRow'
  BY <1>5 DEF News
<1>8. \A i \in 1..(Len(inbox') + 2) : News'[i] \in Int
  BY <1>3, <1>4, <1>5, <1>6, <1>7
<1> QED BY <1>2, <1>3, <1>5, <1>6, <1>7, <1>8

\* what is heard of was made
LEMMA NewsMade ==
  ASSUME Inv
  PROVE  \A i \in 1..(Len(inbox) + 2) : News[i] <= count.match
<1>1. TypeOK /\ Owned /\ Seen
  BY DEF Inv, Safe
<1>2. count.match \in Ids \cup {0} /\ row \in Row /\ w \in Request /\ inbox \in Seq(Events)
  BY <1>1 DEF TypeOK, Row, Request
<1>3. count.match \in Int /\ count.match >= 0 /\ -1 <= count.match /\ 0 <= count.match
  <2>1. \A n \in Ids \cup {0} : n \in Int /\ n >= 0 /\ -1 <= n /\ 0 <= n
    BY Numbers
  <2> QED BY <1>2, <2>1
<1>4. ASSUME NEW rid, NEW st, NEW m \in Ids \cup {0}, Good(rid, st, m) PROVE m <= count.match
  <2>1. CASE m = 0
    BY <1>3, <2>1
  <2>2. CASE m # 0
    BY <1>1, <1>4, <2>2 DEF Good, Owned
  <2> QED BY <2>1, <2>2
<1>5. row.match <= count.match /\ w.match <= count.match
  BY <1>1, <1>2, <1>4 DEF Seen, Row, Request
<1>6. FromWorker <= count.match /\ FromRow <= count.match
  BY <1>3, <1>5 DEF FromWorker, FromRow
<1>7. ASSUME NEW i \in 1..Len(inbox), Heard(inbox[i]) PROVE inbox[i].match <= count.match
  <2>1. inbox[i] \in Events /\ inbox[i] \in ResultsIn
    BY <1>2, <1>7 DEF Heard, ResultsIn, Waits
  <2>2. inbox[i].match \in Ids \cup {0}
    BY <1>7, <2>1, EventKinds DEF Heard
  <2> QED BY <1>1, <1>4, <2>1, <2>2 DEF Seen
<1> QED BY <1>1, <1>3, <1>6, <1>7, NewsIs

\* The row after the step in the place of the row before it.
NewsOfRow == [i \in 1..(Len(inbox) + 2) |-> IF i = Len(inbox) + 2 THEN FromRow' ELSE News[i]]

LEMMA RowNews ==
  ASSUME Inv, Next, UNCHANGED active
  PROVE  /\ \A i \in 1..(Len(inbox) + 2) : NewsOfRow[i] \in Int /\ NewsOfRow[i] = IF i = Len(inbox) + 2 THEN FromRow' ELSE News[i]
         /\ Rise(NewsOfRow, Len(inbox) + 2)
         /\ \A m \in shown : /\ Weak(m, News, Len(inbox) + 2) => Weak(m, NewsOfRow, Len(inbox) + 2)
                             /\ Strict(m, News, Len(inbox) + 2) => Strict(m, NewsOfRow, Len(inbox) + 2)
         /\ UNCHANGED <<row>> => FromRow' = FromRow
<1>1. TypeOK /\ Names /\ Owned /\ Rising
  BY DEF Inv, Safe
<1>2. PICK n \in Nat : n = Len(inbox) + 2 /\ n > 0
  BY <1>1, NewsIs
<1>3. FromRow' \in Int /\ FromRow \in Int /\ News[n] = FromRow /\ n \in 1..n /\ \A i \in 1..n : News[i] \in Int
  BY <1>1, <1>2, NewsIs, NewsAfter
<1>4. \A i \in 1..n : NewsOfRow[i] \in Int /\ NewsOfRow[i] = IF i = n THEN FromRow' ELSE News[i]
  BY <1>2, <1>3 DEF NewsOfRow
<1>5. \A i \in 1..n : i < n => NewsOfRow[i] = News[i]
  BY <1>4
<1>6. CASE FromRow' = FromRow
  <2>1. PICK h : h = [i \in 1..n |-> i]
    OBVIOUS
  <2>2. \A i \in 1..n : h[i] = i /\ NewsOfRow[i] = News[h[i]]
    BY <1>3, <1>4, <1>6, <2>1
  <2>3. /\ Rise(News, n) => Rise(NewsOfRow, n)
        /\ \A m \in Int : (Weak(m, News, n) => Weak(m, NewsOfRow, n)) /\ (Strict(m, News, n) => Strict(m, NewsOfRow, n))
    <3>1. Thins(News, n, NewsOfRow, n, h)
      BY <1>3, <1>4, <2>2 DEF Thins
    <3> QED BY <3>1, Thinner
  <2>4. \A m \in shown : m \in Int
    BY Shown, Whole
  <2> QED BY <1>1, <1>2, <1>4, <1>6, <2>3, <2>4 DEF Rising
<1>7. CASE FromRow' <= 0 \/ (FromRow' = count.match + 1 /\ count.match \in Int)
  <2>1. \A m \in shown : m \in Int /\ (FromRow' <= 0 \/ m < FromRow')
    BY <1>1, <1>7, Shown, Whole DEF Owned
  <2>2. \A i \in 1..n : News[i] <= count.match
    BY <1>2, NewsMade
  <2>3. NewsOfRow[n] <= 0 \/ \A i \in 1..n : i < n => News[i] < NewsOfRow[n]
    BY <1>3, <1>4, <1>7, <2>2
  <2>4. \A m \in shown : m \in Int /\ (NewsOfRow[n] <= 0 \/ m < NewsOfRow[n])
    BY <1>3, <1>4, <2>1
  <2>5. Rise(NewsOfRow, n)
    BY <1>1, <1>2, <1>3, <1>4, <1>5, <2>3, Topped DEF Rising
  <2>6. \A m \in shown : (Weak(m, News, n) => Weak(m, NewsOfRow, n)) /\ (Strict(m, News, n) => Strict(m, NewsOfRow, n))
    BY <1>2, <1>3, <1>4, <1>5, <2>4, Topped
  <2>7. UNCHANGED row => FromRow' = FromRow
    BY DEF FromRow
  <2> QED BY <1>2, <1>4, <2>5, <2>6, <2>7
<1>8. FromRow' = FromRow \/ FromRow' <= 0 \/ (FromRow' = count.match + 1 /\ count.match \in Int)
  <2>1. count.match \in Int
    BY <1>1, Whole DEF TypeOK
  <2>2. CASE row'.rid = row.rid /\ row'.match = row.match
    BY <2>2 DEF FromRow
  <2>3. CASE row'.match = 0
    BY <2>3 DEF FromRow
  <2>4. ASSUME NEW m \in Ids, m = count.match + 1, row'.match = m PROVE FromRow' <= 0 \/ FromRow' = count.match + 1
    BY <2>4 DEF FromRow
  <2> QED BY <1>1, <2>1, <2>2, <2>3, <2>4, RowMatch
<1> QED BY <1>6, <1>7, <1>8

\* The order of what is heard of stays, and what came before all of it still does.
Ordered ==
  /\ Rising'
  /\ \A m \in shown : /\ Weak(m, News, Len(inbox) + 2) => Weak(m, News', Len(inbox') + 2)
                      /\ Strict(m, News, Len(inbox) + 2) => Strict(m, News', Len(inbox') + 2)

LEMMA Thinned ==
  ASSUME Inv, Next, UNCHANGED active, NEW n \in Nat, n = Len(inbox) + 2, NEW k \in Nat, k = Len(inbox') + 2, NEW h,
         \A i \in 1..k : h[i] \in 1..n,
         \A i \in 1..k : News'[i] > 0 => News'[i] = NewsOfRow[h[i]],
         \A i, j \in 1..k : i < j => h[i] <= h[j],
         \A i, j \in 1..k : i < j /\ News'[j] > 0 /\ News'[i] = 0 => News'[i] = NewsOfRow[h[i]]
  PROVE  Ordered
<1>1. TypeOK /\ Names
  BY DEF Inv
<1>2. /\ \A i \in 1..n : NewsOfRow[i] \in Int
      /\ Rise(NewsOfRow, n)
      /\ \A m \in shown : (Weak(m, News, n) => Weak(m, NewsOfRow, n)) /\ (Strict(m, News, n) => Strict(m, NewsOfRow, n))
  BY RowNews
<1>3. PICK f, g : f = NewsOfRow /\ g = News'
  OBVIOUS
<1>4. Thins(f, n, g, k, h)
  <2>1. \A i \in 1..k : g[i] \in Int
    BY <1>1, <1>3, NewsAfter
  <2> HIDE DEF NewsOfRow, News
  <2> QED BY <1>2, <1>3, <2>1 DEF Thins
<1>5. /\ Rise(f, n) => Rise(g, k)
      /\ \A m \in Int : (Weak(m, f, n) => Weak(m, g, k)) /\ (Strict(m, f, n) => Strict(m, g, k))
  BY <1>4, Thinner
<1>6. \A m \in shown : m \in Int
  BY Shown, Whole
<1>7. Rise(g, k)
  BY <1>2, <1>3, <1>5
<1>8. Rising'
  BY <1>3, <1>7 DEF Rising
<1> QED BY <1>2, <1>3, <1>5, <1>6, <1>8 DEF Ordered

LEMMA SameInbox ==
  ASSUME Inv, Next, UNCHANGED <<inbox, active>>, (FromWorker' = -1) \/ FromWorker' = FromWorker
  PROVE  Ordered
<1>1. TypeOK /\ Names
  BY DEF Inv
<1>2. PICK n \in Nat, k \in Nat : n = Len(inbox) + 2 /\ k = Len(inbox') + 2
  BY <1>1, NewsIs, NewsAfter
<1>3. PICK h : h = [i \in 1..n |-> i]
  OBVIOUS
<1>4. k = n /\ \A i \in 1..n : h[i] = i
  BY <1>2, <1>3
<1>5. ASSUME NEW i \in 1..n PROVE News'[i] = NewsOfRow[i] \/ News'[i] = -1
  <2>1. NewsOfRow[i] = IF i = n THEN FromRow' ELSE News[i]
    BY <1>2, RowNews
  <2>2. CASE i \in 1..Len(inbox)
    <3>1. News'[i] = News[i]
      BY <1>1, <2>2, NewsIs, NewsAfter DEF Heard
    <3>2. i # n
      BY <1>2, <2>2
    <3> QED BY <2>1, <3>1, <3>2
  <2>3. CASE i = Len(inbox) + 1
    <3>1. News'[i] = FromWorker' /\ News[i] = FromWorker /\ i # n
      BY <1>1, <1>2, <2>3, NewsIs, NewsAfter
    <3> QED BY <2>1, <3>1
  <2>4. CASE i = n
    BY <1>1, <1>2, <2>1, <2>4, NewsAfter
  <2> QED BY <1>1, <1>2, <2>2, <2>3, <2>4, NewsIs
<1>6. /\ \A i \in 1..k : h[i] \in 1..n
      /\ \A i \in 1..k : News'[i] > 0 => News'[i] = NewsOfRow[h[i]]
      /\ \A i, j \in 1..k : i < j => h[i] <= h[j]
      /\ \A i, j \in 1..k : i < j /\ News'[j] > 0 /\ News'[i] = 0 => News'[i] = NewsOfRow[h[i]]
  BY <1>4, <1>5
<1> QED BY <1>2, <1>6, Thinned

\* the answer shows what the row shows
LEMMA ServeNews ==
  ASSUME Inv, Next, Serve
  PROVE  Ordered
<1>1. TypeOK /\ Names /\ UNCHANGED <<inbox, active>>
  BY Frames DEF Inv
<1>2. PICK n \in Nat, k \in Nat : n = Len(inbox) + 2 /\ k = Len(inbox') + 2
  BY <1>1, NewsIs, NewsAfter
<1>3. (FromWorker' = -1) \/ FromWorker' = FromRow' \/ (FromWorker' = 0 /\ FromRow' = -1)
  <2>1. CASE w.kind \in {"register", "poll", "account"} /\ Answer(w')
    BY <1>1, <2>1 DEF Answer, FromWorker, FromRow
  <2>2. CASE w' = Idle(FALSE)
    BY <2>2, IdleType DEF FromWorker
  <2> QED BY <1>1, <2>1, <2>2, Answering
<1>4. CASE FromWorker' = -1
  BY <1>1, <1>4, SameInbox
<1>5. \A i \in 1..n : NewsOfRow[i] = IF i = n THEN FromRow' ELSE News[i]
  BY <1>1, <1>2, RowNews
<1>6. k = n /\ n > 1 /\ \A i \in 1..n : i < n - 1 => News'[i] = NewsOfRow[i]
  <2>1. k = n /\ n > 1
    BY <1>1, <1>2, NewsIs
  <2>2. ASSUME NEW i \in 1..n, i < n - 1 PROVE News'[i] = NewsOfRow[i]
    <3>1. i \in 1..Len(inbox) /\ i # n
      BY <1>1, <1>2, <2>2, NewsIs
    <3>2. News'[i] = News[i]
      BY <1>1, <3>1, NewsIs, NewsAfter DEF Heard
    <3> QED BY <1>5, <3>1, <3>2
  <2> QED BY <2>1, <2>2
<1>7. News'[n - 1] = FromWorker' /\ News'[n] = FromRow' /\ NewsOfRow[n] = FromRow' /\ n - 1 \in 1..n /\ n \in 1..n
  <2>1. Len(inbox') + 1 = n - 1 /\ Len(inbox') + 2 = n /\ n \in 1..n /\ n - 1 \in 1..n
    BY <1>1, <1>2, <1>6
  <2> QED BY <1>1, <1>5, <2>1, NewsAfter
<1>8. CASE FromWorker' = FromRow'
  <2>1. PICK h : h = [i \in 1..n |-> IF i = n - 1 THEN n ELSE i]
    OBVIOUS
  <2>2. \A i \in 1..n : h[i] = IF i = n - 1 THEN n ELSE i
    BY <2>1
  <2>3. \A i \in 1..n : News'[i] = NewsOfRow[h[i]] /\ h[i] \in 1..n
    BY <1>6, <1>7, <1>8, <2>2
  <2>4. \A i, j \in 1..n : i < j => h[i] <= h[j]
    BY <2>2
  <2> QED BY <1>1, <1>2, <1>6, <2>3, <2>4, Thinned
<1>9. CASE FromWorker' = 0 /\ FromRow' = -1
  <2>1. PICK h : h = [i \in 1..n |-> i]
    OBVIOUS
  <2>2. \A i \in 1..n : h[i] = i
    BY <2>1
  <2>3. \A i \in 1..n : News'[i] > 0 => News'[i] = NewsOfRow[h[i]]
    BY <1>6, <1>7, <1>9, <2>2
  <2>4. \A i, j \in 1..n : i < j /\ News'[j] > 0 /\ News'[i] = 0 => News'[i] = NewsOfRow[h[i]]
    BY <1>6, <1>7, <1>9, <2>2
  <2>5. \A i, j \in 1..n : i < j => h[i] <= h[j]
    BY <2>2
  <2>6. \A i \in 1..n : h[i] \in 1..n
    BY <2>2
  <2> QED BY <1>1, <1>2, <1>6, <2>3, <2>4, <2>5, <2>6, Thinned
<1> QED BY <1>3, <1>4, <1>8, <1>9

\* an event is posted; a result is what the worker heard
LEMMA PostedNews ==
  ASSUME Inv, Next, UNCHANGED <<row, active>>, NEW e \in Events, Awaits(e),
         Heard(e) => e.match = FromWorker /\ FromWorker' = -1,
         ~Heard(e) => FromWorker' = FromWorker \/ FromWorker' = -1
  PROVE  Ordered
<1>1. TypeOK /\ Names /\ InboxOK
  BY Parts DEF Inv, Together
<1>2. PICK n \in Nat, k \in Nat : n = Len(inbox) + 2 /\ k = Len(inbox') + 2
  BY <1>1, NewsIs, NewsAfter
<1>3. /\ Len(inbox') = Len(inbox) + 1 /\ Len(inbox) \in Nat /\ inbox'[Len(inbox) + 1] = e
      /\ \A i \in 1..Len(inbox) : inbox'[i] = inbox[i]
  BY <1>1, Posted DEF Awaits
<1>4. k = n + 1 /\ n > 1 /\ n - 2 = Len(inbox)
  BY <1>2, <1>3
<1>5. PICK h : h = [i \in 1..k |-> IF i < n THEN i ELSE i - 1]
  OBVIOUS
<1>6. \A i \in 1..k : h[i] = IF i < n THEN i ELSE i - 1
  BY <1>5
<1>7. \A i \in 1..k : h[i] \in 1..n
  BY <1>4, <1>6
<1>8. \A i \in 1..n : NewsOfRow[i] = IF i = n THEN FromRow' ELSE News[i]
  BY <1>2, RowNews
<1>9. ASSUME NEW i \in 1..k, i < n - 1 PROVE News'[i] = NewsOfRow[h[i]]
  <2>1. i \in 1..Len(inbox) /\ i \in 1..Len(inbox') /\ i \in 1..n /\ i # n /\ h[i] = i
    BY <1>3, <1>4, <1>6, <1>9
  <2>2. inbox'[i] = inbox[i]
    BY <1>3, <2>1
  <2>3. News'[i] = News[i]
    BY <1>1, <2>1, <2>2, NewsIs, NewsAfter DEF Heard
  <2> QED BY <1>8, <2>1, <2>3
<1>10. News'[n - 1] = (IF Heard(e) THEN e.match ELSE -1) /\ NewsOfRow[n - 1] = FromWorker /\ h[n - 1] = n - 1
  <2>1. n - 1 \in 1..Len(inbox') /\ n - 1 \in 1..n /\ n - 1 # n /\ n - 1 = Len(inbox) + 1 /\ n - 1 \in 1..k /\ n - 1 < n
    BY <1>3, <1>4
  <2>2. inbox'[n - 1] = e
    BY <1>3, <2>1
  <2>3. News'[n - 1] = (IF Heard(e) THEN e.match ELSE -1)
    BY <1>1, <2>1, <2>2, NewsAfter DEF Heard
  <2>4. News[n - 1] = FromWorker
    BY <1>1, <2>1, NewsIs
  <2> QED BY <1>6, <1>8, <2>1, <2>3, <2>4
<1>11. News'[n] = FromWorker' /\ h[n] = n - 1
  <2>1. n = Len(inbox') + 1 /\ n \in 1..k /\ ~(n < n)
    BY <1>3, <1>4
  <2> QED BY <1>1, <1>6, <2>1, NewsAfter
<1>12. News'[n + 1] = FromRow' /\ h[n + 1] = n /\ NewsOfRow[n] = FromRow'
  <2>1. n + 1 = Len(inbox') + 2 /\ n + 1 \in 1..k /\ ~(n + 1 < n) /\ (n + 1) - 1 = n /\ n \in 1..n
    BY <1>3, <1>4
  <2> QED BY <1>1, <1>6, <1>8, <2>1, NewsAfter
<1>13. ASSUME NEW i \in 1..k PROVE News'[i] = NewsOfRow[h[i]] \/ News'[i] = -1
  <2>1. i < n - 1 \/ i = n - 1 \/ i = n \/ i = n + 1
    BY <1>4
  <2> QED BY <1>9, <1>10, <1>11, <1>12, <2>1
<1>14. /\ \A i \in 1..k : News'[i] > 0 => News'[i] = NewsOfRow[h[i]]
       /\ \A i, j \in 1..k : i < j /\ News'[j] > 0 /\ News'[i] = 0 => News'[i] = NewsOfRow[h[i]]
  BY <1>13
<1>15. \A i, j \in 1..k : i < j => h[i] <= h[j]
  BY <1>4, <1>6
<1> QED BY <1>2, <1>7, <1>14, <1>15, Thinned

\* the GC thread takes an event
LEMMA TakenNews ==
  ASSUME Inv, Next, Handle, UNCHANGED active
  PROVE  Ordered /\ \A i \in 1..(Len(inbox') + 2) : i + 1 \in 1..(Len(inbox) + 2) /\ News'[i] = News[i + 1] /\ 1 < i + 1
<1>1. TypeOK /\ Names /\ InboxOK /\ UNCHANGED <<row, w>>
  BY Parts, Frames DEF Inv, Together
<1>2. PICK n \in Nat, k \in Nat : n = Len(inbox) + 2 /\ k = Len(inbox') + 2
  BY <1>1, NewsIs, NewsAfter
<1>3. /\ Len(inbox') = Len(inbox) - 1 /\ Len(inbox) \in Nat \ {0}
      /\ \A i \in 1..Len(inbox') : inbox'[i] = inbox[i + 1]
  BY <1>1, Handles, Tailed DEF InboxOK
<1>4. k = n - 1
  BY <1>2, <1>3
<1>5. PICK h : h = [i \in 1..k |-> i + 1]
  OBVIOUS
<1>6. \A i \in 1..k : h[i] = i + 1 /\ i + 1 \in 1..n /\ 1 < i + 1
  BY <1>4, <1>5
<1>7. ASSUME NEW i \in 1..k PROVE News'[i] = News[i + 1]
  <2>1. CASE i \in 1..Len(inbox')
    <3>1. i + 1 \in 1..Len(inbox) /\ inbox'[i] = inbox[i + 1]
      BY <1>3, <2>1
    <3> QED BY <1>1, <2>1, <3>1, NewsIs, NewsAfter DEF Heard
  <2>2. CASE i = Len(inbox') + 1
    <3>1. i + 1 = Len(inbox) + 1
      BY <1>3, <2>2
    <3>2. FromWorker' = FromWorker
      BY <1>1 DEF FromWorker
    <3> QED BY <1>1, <2>2, <3>1, <3>2, NewsIs, NewsAfter
  <2>3. CASE i = Len(inbox') + 2
    <3>1. i + 1 = Len(inbox) + 2
      BY <1>3, <2>3
    <3>2. FromRow' = FromRow
      BY <1>1 DEF FromRow
    <3> QED BY <1>1, <2>3, <3>1, <3>2, NewsIs, NewsAfter
  <2> QED BY <1>1, <1>2, <2>1, <2>2, <2>3, NewsAfter
<1>8. \A i \in 1..n : NewsOfRow[i] = News[i]
  <2>1. FromRow' = FromRow /\ News[n] = FromRow
    BY <1>1, <1>2, NewsIs DEF FromRow
  <2> QED BY <1>2, <2>1, RowNews
<1>9. \A i \in 1..k : h[i] \in 1..n /\ News'[i] = NewsOfRow[h[i]]
  BY <1>6, <1>7, <1>8
<1>10. \A i, j \in 1..k : i < j => h[i] <= h[j]
  BY <1>6
<1>11. Ordered
  BY <1>2, <1>9, <1>10, Thinned
<1> QED BY <1>2, <1>6, <1>7, <1>11

LEMMA StepNews ==
  ASSUME Inv, Next, ~Handle, ~Adopt, ~Restart
  PROVE  Ordered
<1>1. TypeOK /\ Names /\ w \in Request
  BY Parts DEF Inv, Together, RequestOK
<1>2. w'.code = "none" => FromWorker' = -1
  BY DEF FromWorker
<1>3. UNCHANGED <<w, active>> => FromWorker' = FromWorker
  BY DEF FromWorker
<1>4. CASE Backend
  <2>1. UNCHANGED <<inbox, active, w>>
    BY <1>4, Frames
  <2> QED BY <1>3, <2>1, SameInbox
<1>5. CASE TimeOut
  <2>1. UNCHANGED <<inbox, active>> /\ w.code = "none"
    BY <1>5, Frames DEF TimeOut, Waiting
  <2>2. PICK n : n = w.tries + 1
    OBVIOUS
  <2>3. w' = [w EXCEPT !.tries = n] \/ w' = Idle(TRUE)
    BY <1>5, <2>2 DEF TimeOut
  <2>4. w'.code = "none"
    BY <1>1, <2>1, <2>3, IdleType DEF Request
  <2> QED BY <1>2, <2>1, <2>4, SameInbox
<1>6. CASE Steers
  <2>1. Steer /\ UNCHANGED <<row, active>>
    BY <1>1, <1>6, Steering, Frames
  <2>2. CASE UNCHANGED inbox /\ (UNCHANGED w \/ w'.code = "none")
    BY <1>2, <1>3, <2>1, <2>2, SameInbox
  <2>3. ASSUME w.kind \in {"register", "poll"}, w.code = "ok", w.rid = active, active # 0, w'.code = "none", Awaits(Result(FALSE))
        PROVE  Ordered
    <3>1. PICK e : e = Result(FALSE)
      OBVIOUS
    <3>2. e \in Events /\ e.match = w.match
      BY <1>1, <2>3, <3>1, Results DEF Awaits
    <3>3. Awaits(e)
      BY <2>3, <3>1
    <3>4. e.match = FromWorker /\ FromWorker' = -1
      BY <1>2, <2>3, <3>2 DEF FromWorker
    <3> QED BY <2>1, <3>2, <3>3, <3>4, PostedNews
  <2> QED BY <2>1, <2>2, <2>3 DEF Steer, Quiet
<1>7. CASE Acts
  <2>1. UNCHANGED <<row, active, w>>
    BY <1>7, Frames
  <2>2. ASSUME NEW e \in Events, Awaits(e), e.kind # "result" PROVE Ordered
    <3>1. ~Heard(e)
      BY <2>2 DEF Heard
    <3> QED BY <1>3, <2>1, <2>2, <3>1, PostedNews
  <2>3. UNCHANGED inbox => Ordered
    BY <1>3, <2>1, SameInbox
  <2> QED BY <1>1, <1>7, <2>2, <2>3, Posting
<1> QED BY <1>4, <1>5, <1>6, <1>7, ServeNews, NextSteps

\* Of a search that is followed from now on the backend alone can tell.
LEMMA Anew ==
  ASSUME Inv, Next, (Handle /\ (Begins \/ Leaves)) \/ Adopt \/ Restart
  PROVE  Rising'
<1>1. TypeOK /\ Names /\ Ours /\ InboxOK
  BY Parts DEF Inv, Safe, Together
<1>2. PICK k \in Nat : k = Len(inbox') + 2
  BY <1>1, NewsAfter
<1>3. SUFFICES ASSUME FromWorker' = -1 , \A i \in 1..Len(inbox') : ~Heard(inbox[i])' PROVE Rising'
  <2>1. CASE Handle /\ (Begins \/ Leaves)
    <3>1. UNCHANGED w /\ inbox # <<>> /\ inbox' = Tail(inbox)
      BY <1>1, <2>1, Frames, Handles
    <3>2. ASSUME NEW r \in Mine PROVE r # active'
      <4>1. r # 0
        BY <1>1, <3>2, MineType, Whole
      <4> QED BY <2>1, <3>2, <4>1, Beginning DEF Begins, Leaves
    <3>3. FromWorker' = -1
      BY <1>1, <3>1, <3>2 DEF Ours, FromWorker
    <3>4. ASSUME NEW i \in 1..Len(inbox') PROVE ~Heard(inbox[i])'
      <4>1. inbox'[i] \in Waits
        BY <1>1, <3>1, WaitsTaken DEF Waits
      <4>2. inbox'[i].kind = "result" => inbox'[i].rid \in Mine
        BY <1>1, <4>1 DEF ResultsIn, Ours
      <4> QED BY <3>2, <4>2 DEF Heard
    <3> QED BY <3>3, <3>4
  <2>2. CASE Adopt
    <3>1. w' = Idle(FALSE) /\ Waits' = {Result(TRUE)} /\ Result(TRUE).discovered
      BY <2>2, Adopting DEF Adopt
    <3>2. FromWorker' = -1
      BY <3>1, IdleType DEF FromWorker
    <3>3. \A i \in 1..Len(inbox') : inbox'[i] = Result(TRUE)
      BY <3>1 DEF Waits
    <3> HIDE DEF Result
    <3> QED BY <3>1, <3>2, <3>3 DEF Heard
  <2>3. CASE Restart
    <3>1. w' = Idle(FALSE) /\ inbox' = <<>>
      BY <2>3 DEF Restart
    <3>2. FromWorker' = -1
      BY <3>1, IdleType DEF FromWorker
    <3>3. 1..Len(<<>>) = {}
      OBVIOUS
    <3> QED BY <3>1, <3>2, <3>3
  <2> QED BY <2>1, <2>2, <2>3
<1>4. PICK g : g = News'
  OBVIOUS
<1>5. \A i \in 1..k : g[i] \in Int
  BY <1>1, <1>2, <1>4, NewsAfter
<1>6. ASSUME NEW i \in 1..k, i < k PROVE g[i] <= 0
  <2>1. i \in 1..Len(inbox') \/ i = Len(inbox') + 1
    BY <1>2, <1>6
  <2>2. g[i] = -1
    BY <1>1, <1>3, <1>4, <2>1, NewsAfter
  <2> QED BY <2>2
<1>7. Rise(g, k)
  BY <1>5, <1>6, Alone
<1> QED BY <1>2, <1>4, <1>7 DEF Rising

LEMMA RisingStays ==
  ASSUME Inv, Next
  PROVE  Rising'
<1>1. CASE ~Handle /\ ~Adopt /\ ~Restart
  BY <1>1, StepNews DEF Ordered
<1>2. CASE Handle /\ ~Begins /\ ~Leaves
  <2>1. UNCHANGED active
    BY <1>2, Handles DEF Inv, Effect, Ignores, Reports, Confirms, Connects, Discovers, Pops, Joins, Offered, Withdraws, Ends, Tracks
  <2> QED BY <1>2, <2>1, TakenNews DEF Ordered
<1> QED BY <1>1, <1>2, Anew

\* what was shown comes before what is heard of still
LEMMA AboveKept ==
  ASSUME Inv, Next, Ordered, UNCHANGED <<active, shown>>, gc'.active = gc.active, gc'.pend = gc.pend
  PROVE  Above'
<1>1. Above /\ \A m \in shown : owner'[m] = owner[m]
  BY Shown DEF Inv, Safe
<1>2. \A m \in shown : /\ Weak(m, News, Len(inbox) + 2) => Weak(m, News', Len(inbox') + 2)
                       /\ Strict(m, News, Len(inbox) + 2) => Strict(m, News', Len(inbox') + 2)
  BY DEF Ordered
<1>3. SUFFICES ASSUME gc'.active \/ gc'.pend # 0, NEW m \in shown', owner'[m] = active'
               PROVE  IF m = gc'.pend THEN Weak(m, News', Len(inbox') + 2) ELSE Strict(m, News', Len(inbox') + 2)
  BY DEF Above
<1>4. m \in shown /\ owner[m] = active /\ (gc.active \/ gc.pend # 0)
  BY <1>1, <1>3
<1> QED BY <1>1, <1>2, <1>4 DEF Above

LEMMA Positive == \A m \in Ids : m \in Int /\ m # 0 /\ m > 0
BY Numbers

LEMMA ShownFacts ==
  ASSUME Inv, Next
  PROVE  \A m \in shown : owner'[m] = owner[m] /\ m \in Int /\ m # 0
<1>1. \A m \in shown : owner'[m] = owner[m] /\ m \in Ids
  BY Shown
<1> QED BY <1>1, Positive

\* A popup closes without another, and the game does not search.
LEMMA AboveNone ==
  ASSUME ~gc'.active, gc'.pend = 0
  PROVE  Above'
BY DEF Above

LEMMA PopsAbove ==
  ASSUME Inv, Next, Handle, Pops
  PROVE  Above'
<1>1. TypeOK /\ Names /\ Above /\ Rising /\ (\A m \in shown : owner'[m] = owner[m] /\ m \in Int /\ m # 0) /\ UNCHANGED owner
  BY ShownFacts, Frames DEF Inv, Safe
<1>2. Heading /\ Assigned(Head(inbox).st) /\ (gc.active \/ gc.pend # 0) /\ UNCHANGED active /\ shown' = shown \cup {Head(inbox).match}
      /\ gc'.pend = Head(inbox).match
  BY DEF Pops, Offered, Tracks, GcBecomes
<1>3. PICK v \in Int : v = Head(inbox).match /\ v > 0
  <2>1. Head(inbox).match \in Ids
    BY <1>2, Hears
  <2> QED BY <2>1, Positive
<1>4. PICK n \in Nat, k \in Nat : n = Len(inbox) + 2 /\ k = Len(inbox') + 2
  BY <1>1, NewsIs, NewsAfter
<1>5. PICK f, g : f = News /\ g = News'
  OBVIOUS
<1>6. Ordered /\ \A i \in 1..k : i + 1 \in 1..n /\ g[i] = f[i + 1] /\ 1 < i + 1
  BY <1>2, <1>4, <1>5, TakenNews
<1>7. f[1] = v /\ 1 \in 1..n /\ (\A i \in 1..n : f[i] \in Int) /\ (\A i \in 1..k : g[i] \in Int)
  <2>1. Head(inbox) = inbox[1] /\ 1 \in 1..Len(inbox)
    BY FirstWaits
  <2>2. Heard(inbox[1])
    BY <1>2, <2>1 DEF Heading, Heard
  <2> QED BY <1>1, <1>3, <1>4, <1>5, <2>1, <2>2, NewsIs, NewsAfter
<1>8. Rise(f, n)
  BY <1>1, <1>4, <1>5 DEF Rising
<1>9. Weak(v, g, k)
  <2>1. ASSUME NEW i \in 1..k, g[i] > 0 PROVE v <= g[i] /\ \A l \in 1..k : l < i /\ g[l] = 0 => v < g[i]
    <3>1. v <= g[i]
      BY <1>3, <1>6, <1>7, <1>8, <2>1 DEF Rise
    <3>2. ASSUME NEW l \in 1..k, l < i, g[l] = 0 PROVE v < g[i]
      <4>1. l + 1 \in 1..n /\ f[l + 1] = 0 /\ 1 < l + 1 /\ l + 1 < i + 1 /\ i + 1 \in 1..n /\ f[i + 1] > 0
        BY <1>6, <2>1, <3>2
      <4>2. PICK p \in 1..n, q \in 1..n : p = l + 1 /\ q = i + 1 /\ 1 < p /\ p < q /\ f[p] = 0 /\ f[q] = g[i] /\ 1 < q
        BY <1>6, <2>1, <4>1
      <4> QED BY <1>3, <1>7, <1>8, <2>1, <4>2 DEF Rise
    <3> QED BY <3>1, <3>2
  <2> QED BY <2>1 DEF Weak
<1>10. ASSUME NEW m \in shown, owner[m] = active, m # v PROVE Strict(m, g, k)
  <2>1. CASE m = gc.pend
    <3>1. Weak(m, f, n)
      BY <1>1, <1>2, <1>4, <1>5, <1>10, <2>1 DEF Above
    <3>2. m < v
      BY <1>1, <1>3, <1>7, <1>10, <3>1 DEF Weak
    <3>3. \A i \in 1..k : g[i] > 0 => v <= g[i]
      BY <1>9 DEF Weak
    <3> QED BY <1>1, <1>3, <1>7, <3>2, <3>3 DEF Strict
  <2>2. CASE m # gc.pend
    <3>1. Strict(m, f, n)
      BY <1>1, <1>2, <1>4, <1>5, <1>10, <2>2 DEF Above
    <3> QED BY <1>4, <1>5, <1>6, <3>1 DEF Ordered
  <2> QED BY <2>1, <2>2
<1>11. SUFFICES ASSUME NEW m \in shown', owner'[m] = active'
                PROVE  IF m = gc'.pend THEN Weak(m, News', Len(inbox') + 2) ELSE Strict(m, News', Len(inbox') + 2)
  BY DEF Above
<1>12. CASE m = v
  BY <1>2, <1>3, <1>4, <1>5, <1>9, <1>12
<1>13. CASE m # v
  BY <1>1, <1>2, <1>3, <1>4, <1>5, <1>10, <1>11, <1>13
<1> QED BY <1>12, <1>13

LEMMA WithdrawsAbove ==
  ASSUME Inv, Next, Handle, Withdraws
  PROVE  Above'
<1>1. TypeOK /\ Names /\ Above /\ UNCHANGED owner /\ \A m \in shown : m \in Int /\ m # 0
  BY ShownFacts, Frames DEF Inv, Safe
<1>2. Heading /\ Head(inbox).st = "SEARCHING" /\ gc.pend # 0 /\ UNCHANGED <<active, shown>> /\ gc'.pend = 0
  BY DEF Withdraws, Tracks, GcBecomes
<1>3. PICK n \in Nat, k \in Nat : n = Len(inbox) + 2 /\ k = Len(inbox') + 2
  BY <1>1, NewsIs, NewsAfter
<1>4. PICK f, g : f = News /\ g = News'
  OBVIOUS
<1>5. Ordered /\ \A i \in 1..k : i + 1 \in 1..n /\ g[i] = f[i + 1] /\ 1 < i + 1
  BY <1>2, <1>3, <1>4, TakenNews
<1>6. f[1] = 0 /\ 1 \in 1..n
  <2>1. Head(inbox) = inbox[1] /\ 1 \in 1..Len(inbox) /\ Head(inbox) \in ResultsIn
    BY <1>2, FirstWaits DEF Heading
  <2>2. Heard(inbox[1])
    BY <1>2, <2>1 DEF Heading, Heard
  <2>3. inbox[1].match = 0
    BY <1>1, <1>2, <2>1, WaitsNamed DEF Assigned
  <2> QED BY <1>1, <1>3, <1>4, <2>1, <2>2, <2>3, NewsIs
<1>7. ASSUME NEW m \in shown, owner[m] = active PROVE Strict(m, g, k)
  <2>1. CASE m = gc.pend
    <3>1. Weak(m, f, n)
      BY <1>1, <1>2, <1>3, <1>4, <1>7, <2>1 DEF Above
    <3>2. ASSUME NEW i \in 1..k, g[i] > 0 PROVE m < g[i]
      <4>1. PICK q \in 1..n : q = i + 1 /\ 1 < q /\ f[q] = g[i]
        BY <1>5
      <4> QED BY <1>6, <3>1, <3>2, <4>1 DEF Weak
    <3> QED BY <3>2 DEF Strict
  <2>2. CASE m # gc.pend
    <3>1. Strict(m, f, n)
      BY <1>1, <1>2, <1>3, <1>4, <1>7, <2>2 DEF Above
    <3> QED BY <1>3, <1>4, <1>5, <3>1 DEF Ordered
  <2> QED BY <2>1, <2>2
<1>8. SUFFICES ASSUME NEW m \in shown', owner'[m] = active'
               PROVE  IF m = gc'.pend THEN Weak(m, News', Len(inbox') + 2) ELSE Strict(m, News', Len(inbox') + 2)
  BY DEF Above
<1> QED BY <1>1, <1>2, <1>3, <1>4, <1>7, <1>8

\* a search that was not followed before
LEMMA AnewAbove ==
  ASSUME Inv, Next, (Handle /\ Begins) \/ Adopt
  PROVE  Above'
<1>1. active' \notin Mine /\ UNCHANGED shown
  BY Beginning, NotMine DEF Begins, Adopt
<1>2. \A m \in shown : owner'[m] \in Mine
  BY Shown
<1> QED BY <1>1, <1>2 DEF Above

LEMMA AboveStays ==
  ASSUME Inv, Next
  PROVE  Above'
<1>1. TypeOK /\ Names /\ Game /\ Up /\ Unled
  BY DEF Inv, Safe
<1>2. CASE ~Handle /\ ~Adopt /\ ~Restart
  <2>1. UNCHANGED <<active, shown, gc>>
    BY <1>2, Frames, NextSteps
  <2> QED BY <1>2, <2>1, StepNews, AboveKept
<1>3. CASE Restart
  BY <1>3 DEF Restart, Above
<1>4. CASE Handle /\ (Ignores \/ Reports \/ Confirms)
  <2>1. UNCHANGED <<active, shown>> /\ gc'.active = gc.active /\ gc'.pend = gc.pend
    BY <1>4 DEF Ignores, Reports, Confirms, GcBecomes, Tracks
  <2> QED BY <1>4, <2>1, TakenNews, AboveKept
<1>5. CASE Handle /\ (Leaves \/ Connects \/ Joins \/ Ends)
  <2>1. ~gc'.active /\ gc'.pend = 0
    BY <1>1, <1>5 DEF Leaves, Connects, Joins, Ends, GcBecomes, Game
  <2> QED BY <2>1, AboveNone
<1>6. CASE Handle /\ Discovers
  <2>1. Head(inbox) \in ResultsIn /\ Head(inbox).discovered /\ UNCHANGED <<shown, active>>
    BY <1>6, FirstWaits DEF Discovers, Tracks
  <2>2. \A m \in shown : owner[m] # active
    BY <1>1, <2>1 DEF Unled, Up, Tracked
  <2>3. UNCHANGED owner
    BY <1>6, Frames
  <2> QED BY <2>1, <2>2, <2>3 DEF Above
<1>7. CASE Handle
  BY <1>1, <1>4, <1>5, <1>6, <1>7, Handles, AnewAbove, PopsAbove, WithdrawsAbove DEF Effect
<1> QED BY <1>2, <1>3, <1>7, AnewAbove

-----------------------------------------------------------------------------
(* The invariant holds.                                                    *)

\* Nothing comes between a packet of the game server and the GC thread; where leaders start searches,
\* the GC thread handles an event before the next one comes, no Accept outlasts its session and the
\* backend handles no request that was given up.
OrderlyWorlds ==
  \A x \in Worlds : x.exact /\ (x.parties # 0 => x.calm /\ x.brief /\ x.prompt)

LEMMA SafeInit ==
  ASSUME OrderlyWorlds, Init
  PROVE  Inv
<1>1. TypeOK /\ Names
  BY InitTypes
<1>2. Orderly
  BY DEF OrderlyWorlds, Init, Orderly
<1>3. inbox = <<>> /\ Len(<<>>) = 0 /\ 1..Len(<<>>) = {} /\ Len(<<>>) <= 1
  BY DEF Init
<1>4. Waits = {} /\ Starts = {} /\ ResultsIn = {}
  BY <1>3 DEF Waits, Starts, ResultsIn
<1>5. Mine = {} /\ active = 0 /\ adopted = 0 /\ left = {} /\ shown = {} /\ jobs = <<>> /\ late = {} /\ ended = {}
  BY DEF Init, Mine
<1>6. w.kind = "none" /\ w.code = "none" /\ w.match = 0 /\ w.rid = 0
  BY IdleType DEF Init, Idle
<1>7. row.rid = 0 /\ ~row.member /\ row.match = 0
  BY NoRowType DEF Init
<1>8. session.phase = "Done"
  BY NoSessionType DEF Init
<1>9. gc.pend = 0 /\ gc.popup = 0 /\ ~gc.server /\ ~gc.backend /\ ~gc.active
  BY DEF Init, NoGc
<1>10. ~arm.on /\ arm.seen = 0
  BY DEF Init, Disarmed
<1>11. Owned
  <2>1. count.match = 0 /\ \A m \in Ids : owner[m] = 0
    BY DEF Init
  <2> QED BY <2>1, Numbers DEF Owned
<1>12. Seen
  BY <1>4, <1>6, <1>7 DEF Seen, Good
<1>13. Ours /\ Fresh /\ Unled
  <2>1. Ours
    BY <1>4, <1>5, <1>6 DEF Ours
  <2>2. Fresh
    BY <1>3, <1>4, <1>5 DEF Fresh
  <2>3. Unled
    BY <1>4, <1>5, <1>6, <1>7 DEF Unled
  <2> QED BY <2>1, <2>2, <2>3
<1>14. InTurn
  BY <1>3, <1>4, <1>5, <1>6, <1>7, <1>8, <1>9 DEF InTurn, Turn
<1>15. Newer
  <2>1. 0 <= Own + count.party /\ ~(0 > Own)
    <3>1. count.party = 0
      BY DEF Init
    <3> QED BY <3>1, Numbers
  <2> QED BY <1>5, <1>6, <1>7, <2>1 DEF Newer
<1>16. Up /\ Game
  BY <1>4, <1>9 DEF Up, Tracked, Game
<1>17. Armed /\ Gone
  BY <1>3, <1>5, <1>6, <1>10 DEF Armed, Gone
<1>18. Rising
  <2>1. PICK n \in Nat : n = Len(inbox) + 2
    BY <1>1, NewsIs
  <2>2. \A i \in 1..n : News[i] \in Int /\ (i < n => News[i] <= 0)
    <3>1. FromWorker = -1
      BY <1>6 DEF FromWorker
    <3>2. n = 2 /\ Len(inbox) = 0
      BY <1>3, <2>1
    <3>3. ASSUME NEW i \in 1..n, i < n PROVE i = Len(inbox) + 1
      BY <3>2, <3>3
    <3> QED BY <1>1, <2>1, <3>1, <3>3, NewsIs
  <2>3. PICK f : f = News
    OBVIOUS
  <2>4. Rise(f, n)
    BY <2>2, <2>3, Alone
  <2> QED BY <2>1, <2>3, <2>4 DEF Rising
<1>19. Above
  BY <1>5 DEF Above
<1> QED BY <1>1, <1>2, <1>11, <1>12, <1>13, <1>14, <1>15, <1>16, <1>17, <1>18, <1>19 DEF Inv, Safe

LEMMA SafeStutters ==
  ASSUME Inv, UNCHANGED vars
  PROVE  Inv'
<1>1. UNCHANGED <<row, ended, owner, ready, late, w, session, active, adopted, jobs, inbox, gc, arm, left, shown, joined, full, count, queued, world>>
  BY DEF vars, backend, worker, game
<1>2. TypeOK' /\ Names'
  BY StutterTypes DEF Inv
<1>3. Waits' = Waits /\ Starts' = Starts /\ ResultsIn' = ResultsIn /\ Mine' = Mine /\ Led' = Led /\ Known' = Known
  BY <1>1, WaitsSame DEF Mine, Led, Known
<1>4. News' = News
  BY <1>1 DEF News, Heard, FromWorker, FromRow
<1>5. Orderly' /\ Owned'
  BY <1>1 DEF Inv, Safe, Orderly, Owned
<1>6. Seen' /\ Ours' /\ Fresh'
  BY <1>1, <1>3 DEF Inv, Safe, Seen, Good, Ours, Fresh
<1>7. Unled' /\ InTurn' /\ Newer' /\ Up'
  BY <1>1, <1>3 DEF Inv, Safe, Unled, InTurn, Turn, Unasked, Newer, Up, Tracked
<1>8. Game' /\ Armed' /\ Gone'
  BY <1>1, <1>3 DEF Inv, Safe, Game, Armed, Gone
<1>9. Rising' /\ Above'
  BY <1>1, <1>4 DEF Inv, Safe, Rising, Above
<1> QED BY <1>2, <1>5, <1>6, <1>7, <1>8, <1>9 DEF Inv, Safe

LEMMA SafeNext == Inv /\ [Next]_vars => Inv'
<1>1. ASSUME Inv, Next PROVE Inv'
  <2>1. TypeOK /\ Names /\ Orderly /\ Owned /\ Seen
    BY <1>1 DEF Inv, Safe
  <2>2. TypeOK' /\ Names' /\ Orderly' /\ Owned' /\ Seen'
    BY <1>1, <2>1, NextTypes, LedStays, Growing, SeenStays
  <2> QED BY <1>1, <2>2, OursStays, FreshStays, UnledStays, InTurnStays, NewerStays, UpStays, GameStays, ArmedStays, GoneStays,
             RisingStays, AboveStays DEF Inv, Safe
<1> QED BY <1>1, SafeStutters

-----------------------------------------------------------------------------
(* What the player wants goes on.                                          *)

LEMMA WantedStep ==
  ASSUME Inv, Serve \/ \E req \in late : ServeLate(req)
  PROVE  active \notin ended' \ ended
<1>1. Gone /\ Ours
  BY DEF Inv, Safe
<1>2. ASSUME NEW kind, NEW r, Do(kind, r), kind = "cancel" => r # active PROVE active \notin ended' \ ended
  <2>1. UNCHANGED ended \/ (kind = "cancel" /\ ended' = ended \cup {r})
    BY <1>2 DEF Do, start, poll, pollAccount, cancel, accept, Finish
  <2> QED BY <1>2, <2>1
<1>3. CASE Serve
  BY <1>1, <1>2, <1>3 DEF Serve, Gone, Ours
<1>4. ASSUME NEW req \in late, ServeLate(req) PROVE active \notin ended' \ ended
  BY <1>1, <1>2, <1>4 DEF ServeLate, Gone
<1> QED BY <1>3, <1>4

\* InvHolds: in an orderly world the invariant holds, for any number of searches, leaders' searches, matches,
\* restarts and events that wait.
THEOREM InvHolds == ASSUME OrderlyWorlds PROVE Spec => []Inv
<1>1. Init => Inv
  BY SafeInit
<1> QED BY <1>1, SafeNext, PTL DEF Spec

\* WantedHolds: a request of this game never ends the search the player wants.  The cancel of the search
\* before, sent, repeated or handled after the worker gave it up, does not hit the search that replaced it
\* (WantedGoesOn).
THEOREM WantedHolds == ASSUME OrderlyWorlds PROVE Spec => WantedGoesOn
<1>1. Inv /\ [Next]_vars => [Serve \/ (\E req \in late : ServeLate(req)) => active \notin ended' \ ended]_vars
  BY WantedStep
<1> QED BY <1>1, InvHolds, PTL DEF Spec, WantedGoesOn

-----------------------------------------------------------------------------
(* The game keeps what MatchOffer promises.                                *)

\* what the backend does
LEMMA BackendOffers ==
  ASSUME Inv, Next, UNCHANGED <<active, left, gc, shown, joined, full>>
  PROVE  [Offers!Next]_Offers!vars
<1>1. TypeOK /\ Names /\ Owned /\ RowStep /\ RowOK /\ RowNamed
  BY RowSteps, Parts DEF Inv, Safe, Together
<1>2. CASE UNCHANGED <<owner, ready>>
  BY <1>2 DEF Offers!vars
<1>3. CASE row.st = "WAITING_ACCEPT" /\ Promoted /\ UNCHANGED owner
  <2>1. row.match \in Ids /\ ready' = ready \cup {row.match}
    BY <1>1, <1>3 DEF Promoted, RowNamed, RowOK, Row, Assigned
  <2>2. CASE row.match \in full
    <3>1. (full \cap ready)' = (full \cap ready) \cup {row.match}
      BY <2>1, <2>2
    <3>2. Offers!Agree(row.match)
      BY <1>3, <3>1 DEF Offers!Agree
    <3> QED BY <2>1, <3>2 DEF Offers!Next
  <2>3. CASE row.match \notin full
    <3>1. (full \cap ready)' = full \cap ready
      BY <2>1, <2>3
    <3> QED BY <1>3, <3>1 DEF Offers!vars
  <2> QED BY <2>2, <2>3
<1>4. ASSUME NEW m \in Ids, Assign(m) PROVE Offers!Next
  <2>1. m = count.match + 1 /\ owner' = [owner EXCEPT ![m] = row.rid] /\ UNCHANGED ready /\ row.st = "SEARCHING"
    BY <1>4 DEF Assign
  <2>2. row.rid \in Searches
    BY <1>1, <2>1 DEF RowOK, Row, RowNamed
  <2>3. owner[m] = 0
    <3>1. count.match \in Ids \cup {0}
      BY <1>1 DEF TypeOK
    <3>2. PICK x \in Int : x = count.match
      BY <3>1, Whole
    <3>3. ~(m <= count.match)
      BY <2>1, <3>2
    <3> QED BY <1>1, <3>3 DEF Owned
  <2>4. Offers!Offer(m, row.rid)
    BY <2>1, <2>3 DEF Offers!Offer
  <2> QED BY <2>2, <2>4 DEF Offers!Next
<1>5. CASE Dissolve \/ LeaderStarts
  BY <1>2, <1>5 DEF Dissolve, LeaderStarts
<1> QED BY <1>1, <1>2, <1>3, <1>4, <1>5 DEF RowStep, Refreshed, Replaced

\* a match that is announced is a new one
LEMMA OfferedNew ==
  ASSUME Inv, Next, Handle, Offered
  PROVE  /\ Head(inbox).match \in Ids /\ owner[Head(inbox).match] = active /\ Head(inbox).match \notin shown
         /\ gc.mode = "accept" <=> active \in AcceptModes
<1>1. TypeOK /\ Names /\ Above
  BY DEF Inv, Safe
<1>2. Heading /\ Assigned(Head(inbox).st) /\ (gc.active \/ gc.pend # 0) /\ Head(inbox).match # gc.pend
  <2>1. Heading /\ Assigned(Head(inbox).st) /\ (gc.active \/ gc.pend # 0) /\ (gc.pend = 0 \/ Head(inbox).match # gc.pend)
    BY DEF Offered
  <2>2. Head(inbox).match # 0
    BY <2>1, Hears
  <2> QED BY <2>1, <2>2
<1>3. Head(inbox).match \in Ids /\ owner[Head(inbox).match] = active /\ (gc.mode = "accept" <=> active \in AcceptModes)
  BY <1>2, Hears
<1>4. News[1] = Head(inbox).match /\ 1 \in 1..(Len(inbox) + 2)
  <2>1. Head(inbox) = inbox[1] /\ 1 \in 1..Len(inbox)
    BY FirstWaits
  <2>2. Heard(inbox[1])
    BY <1>2, <2>1 DEF Heading, Heard
  <2> QED BY <1>1, <2>1, <2>2, NewsIs
<1>5. ASSUME Head(inbox).match \in shown PROVE FALSE
  <2>1. Strict(Head(inbox).match, News, Len(inbox) + 2)
    BY <1>1, <1>2, <1>3, <1>5 DEF Above
  <2>2. PICK v \in Int : v = Head(inbox).match /\ v > 0
    BY <1>3, Positive
  <2> QED BY <1>4, <2>1, <2>2 DEF Strict
<1> QED BY <1>3, <1>5

\* what the GC thread does
LEMMA HandleOffers ==
  ASSUME Inv, Next, Handle
  PROVE  [Offers!Next]_Offers!vars
<1>1. TypeOK /\ Names /\ Effect /\ Game /\ Armed /\ Mine \subseteq Searches /\ left \subseteq Mine
  BY Handles, MineType DEF Inv, Safe
<1>2. UNCHANGED <<owner, full, ready>>
  BY Frames
<1>3. Mine = IF active = 0 THEN left ELSE left \cup {active}
  BY DEF Mine
<1>4. CASE Begins
  <2>1. Head(inbox).rid \notin Mine /\ Head(inbox).rid \in Searches
    BY <1>4, Beginning
  <2>2. Offers!Follow(Head(inbox).rid)
    BY <1>1, <1>2, <1>3, <1>4, <2>1 DEF Begins, GcBecomes, Offers!Follow
  <2> QED BY <2>1, <2>2 DEF Offers!Next
<1>5. CASE Leaves
  <2>1. 0 \notin left
    BY <1>1, Whole
  <2>2. Offers!Follow(0)
    BY <1>2, <1>3, <1>5, <2>1 DEF Leaves, GcBecomes, Offers!Follow
  <2> QED BY <2>2 DEF Offers!Next
<1>6. CASE Ignores \/ Reports \/ Confirms \/ Discovers
  BY <1>2, <1>6 DEF Ignores, Reports, Confirms, Discovers, GcBecomes, Tracks, Offers!vars
<1>7. CASE Connects
  <2>1. gc.pend \in full
    <3>1. Head(inbox).kind = "full" => gc.pend \in full
      <4>1. Head(inbox) = inbox[1] /\ 1 \in 1..Len(inbox)
        BY FirstWaits
      <4> QED BY <1>1, <1>7, <4>1 DEF Armed, Connects
    <3> QED BY <1>1, <1>7, <3>1 DEF Connects, Game
  <2>2. gc.pend \in ready
    BY <1>1, <1>7, Hears DEF Connects, Game
  <2>3. gc.popup = gc.pend
    BY <1>1 DEF Game
  <2>4. Offers!Connect
    BY <1>2, <1>7, <2>1, <2>2, <2>3 DEF Connects, GcBecomes, Tracks, Offers!Connect
  <2> QED BY <2>4 DEF Offers!Next
<1>8. CASE Pops
  <2>1. Head(inbox).match \in Ids /\ owner[Head(inbox).match] = active /\ Head(inbox).match \notin shown /\ active \in AcceptModes
    BY <1>8, OfferedNew DEF Pops
  <2>2. Offers!Find(Head(inbox).match)
    BY <1>2, <1>8, <2>1 DEF Pops, Offered, GcBecomes, Tracks, Offers!Find, Offers!New
  <2> QED BY <2>1, <2>2 DEF Offers!Next
<1>9. CASE Joins
  <2>1. Head(inbox).match \in Ids /\ owner[Head(inbox).match] = active /\ Head(inbox).match \notin shown /\ active \notin AcceptModes
    BY <1>9, OfferedNew DEF Joins
  <2>2. gc.popup = 0
    BY <1>1, <1>9 DEF Game, Joins
  <2>3. Offers!Join(Head(inbox).match)
    BY <1>2, <1>9, <2>1, <2>2 DEF Joins, Offered, GcBecomes, Tracks, Offers!Join, Offers!New
  <2> QED BY <2>1, <2>3 DEF Offers!Next
<1>10. CASE Withdraws
  <2>1. Offers!Withdraw
    BY <1>2, <1>10 DEF Withdraws, GcBecomes, Tracks, Offers!Withdraw
  <2> QED BY <2>1 DEF Offers!Next
<1>11. CASE Ends
  <2>1. gc'.popup = 0
    BY <1>1, <1>11 DEF Ends, GcBecomes, Game
  <2>2. Offers!Withdraw
    BY <1>2, <1>11, <2>1 DEF Ends, Tracks, Offers!Withdraw
  <2> QED BY <2>2 DEF Offers!Next
<1> QED BY <1>1, <1>4, <1>5, <1>6, <1>7, <1>8, <1>9, <1>10, <1>11 DEF Effect

LEMMA NextOffers == Inv /\ [Next]_vars => [Offers!Next]_Offers!vars
<1>1. ASSUME UNCHANGED vars PROVE [Offers!Next]_Offers!vars
  <2>1. UNCHANGED <<active, left, owner, full, ready, gc, shown, joined>>
    BY <1>1 DEF vars, backend, game, worker
  <2>2. UNCHANGED Offers!vars
    BY <2>1 DEF Offers!vars
  <2> QED BY <2>2
<1>2. ASSUME Inv, Backend \/ Steers \/ Serve \/ TimeOut \/ (Acts /\ UNCHANGED full), Next PROVE [Offers!Next]_Offers!vars
  BY <1>2, Frames, BackendOffers
<1>3. ASSUME Inv, PlayersAccept PROVE [Offers!Next]_Offers!vars
  <2>1. gc.popup # 0 /\ full' = full \cup {gc.popup} /\ UNCHANGED <<backend, game, worker>>
    BY <1>3 DEF PlayersAccept
  <2>2. gc.popup \in Ids
    BY <2>1, Parts, <1>3 DEF Inv, Together, GameOK, Gc
  <2>3. UNCHANGED <<active, left, owner, ready, gc, shown, joined>>
    BY <2>1 DEF backend, game, worker
  <2>4. CASE gc.popup \in ready
    <3>1. (full \cap ready)' = (full \cap ready) \cup {gc.popup}
      BY <2>1, <2>3, <2>4
    <3>2. Offers!Agree(gc.popup)
      BY <2>3, <3>1 DEF Offers!Agree
    <3> QED BY <2>2, <3>2 DEF Offers!Next
  <2>5. CASE gc.popup \notin ready
    <3>1. (full \cap ready)' = full \cap ready
      BY <2>1, <2>3, <2>5
    <3> QED BY <2>3, <3>1 DEF Offers!vars
  <2> QED BY <2>4, <2>5
<1>4. ASSUME Inv, Next, Adopt PROVE [Offers!Next]_Offers!vars
  <2>1. w.rid \in Searches /\ w.rid \notin Mine /\ left \subseteq Mine
    BY <1>4, NotMine, MineType DEF Inv
  <2>2. gc.popup = 0 /\ UNCHANGED <<gc, owner, full, ready, shown, joined>>
    BY <1>4, Adopting, Frames DEF Inv, Safe, Game
  <2>3. active' = w.rid /\ left' = IF active = 0 THEN left ELSE left \cup {active}
    BY <1>4 DEF Adopt, Leave
  <2>4. Offers!Follow(w.rid)
    BY <2>1, <2>2, <2>3 DEF Offers!Follow
  <2> QED BY <2>1, <2>4 DEF Offers!Next
<1>5. ASSUME Restart PROVE [Offers!Next]_Offers!vars
  <2>1. Offers!Restart
    BY <1>5 DEF Restart, NoGc, backend, Offers!Restart
  <2> QED BY <2>1 DEF Offers!Next
<1>6. Acts => UNCHANGED full \/ PlayersAccept
  BY DEF Acts, PressPlay, PressStop, Inspect, Notify, game
<1> QED BY <1>1, <1>2, <1>3, <1>4, <1>5, <1>6, HandleOffers, NextSteps

\* OffersMatches: the client, its worker, the watcher and the backend together implement MatchOffer.  Whatever answers
\* come late, twice or not at all, and whatever is still queued for the search it just left, the game
\* never returns to a search it left, announces a match once and only one made for the search it
\* follows, and connects to a match with an Accept only when the game server and the backend both
\* had every accept (OfferSpec).
THEOREM OffersMatches == ASSUME OrderlyWorlds PROVE Spec => OfferSpec
<1>1. Init => Offers!Init
  BY DEF Init, NoGc, Offers!Init
<1> QED BY <1>1, NextOffers, InvHolds, PTL DEF Spec, OfferSpec, Offers!Spec

=============================================================================
