----------------------------- MODULE ServerPool -----------------------------
(***************************************************************************)
(* What the backend promises about its game servers, without handlers,     *)
(* statements and restarts: a match waits until it gets a server, gets one *)
(* that nobody holds, keeps that one until it is over and gets no other.   *)
(***************************************************************************)
CONSTANTS Servers, Matches, None

VARIABLES
  holder,  \* the match a server is reserved for, or None
  phase    \* how far each match is

vars == <<holder, phase>>

Init ==
  /\ holder = [v \in Servers |-> None]
  /\ phase = [m \in Matches |-> "none"]

Turn(m, from, to) == phase[m] \in from /\ phase' = [phase EXCEPT ![m] = to]

Gather(m) == Turn(m, {"none"}, "waiting") /\ UNCHANGED holder

Grant(m, v) ==
  /\ holder[v] = None /\ \A w \in Servers : holder[w] # m
  /\ holder' = [holder EXCEPT ![v] = m]
  /\ Turn(m, {"waiting"}, "held")

\* A match that is over may still have its server reserved ...
Close(m) == Turn(m, {"waiting", "held"}, "over") /\ UNCHANGED holder

\* ... which only then is given back, or taken away.
GiveBack(v) ==
  /\ holder[v] # None /\ phase[holder[v]] = "over"
  /\ holder' = [holder EXCEPT ![v] = None]
  /\ UNCHANGED phase

\* Matches are forgotten when no server is reserved for them any more.
Forget(old) ==
  /\ \A m \in old : phase[m] = "over" /\ \A v \in Servers : holder[v] # m
  /\ phase' = [m \in Matches |-> IF m \in old THEN "none" ELSE phase[m]]
  /\ UNCHANGED holder

Next ==
  \/ \E m \in Matches : Gather(m) \/ Close(m) \/ \E v \in Servers : Grant(m, v)
  \/ \E v \in Servers : GiveBack(v)
  \/ \E old \in SUBSET Matches : Forget(old)

Spec == Init /\ [][Next]_vars
=============================================================================
