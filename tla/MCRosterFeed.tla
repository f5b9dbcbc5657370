--------------------------- MODULE MCRosterFeed ---------------------------
(* Small instances of the roster feed.                                     *)
EXTENDS RosterFeed, TLC

CONSTANTS p1, p2

One(p, n) == [roster |-> [real |-> {p}, fakes |-> n], fits |-> TRUE]
Stranger == [roster |-> [real |-> {p1}, fakes |-> 0], fits |-> FALSE]
Strangers == [roster |-> [real |-> {p1, p2}, fakes |-> 0], fits |-> FALSE]
World(first, second) ==
  [plan |-> <<first, second>>, calm |-> TRUE, greets |-> "atOnce", outages |-> FALSE, callers |-> {}, guests |-> {},
   snaps |-> "off"]

\* One question each: the backend is down at times, with other players in the
\* second match; a player comes and goes, with the same players again; a player
\* comes before there is a roster and his GC is slow; a match of another mode,
\* whose player calls and gets the legacy roster; nobody is virtual.
Orderly ==
  { [World(One(p1, 2), One(p2, 1)) EXCEPT !.outages = TRUE],
    [World(One(p1, 1), One(p1, 1)) EXCEPT !.guests = {p1}],
    [World(Stranger, One(p1, 0)) EXCEPT !.guests = {p1}, !.greets = "later"],
    [World(Stranger, One(p1, 1)) EXCEPT !.callers = {p1}],
    World(One(p1, 0), One(p1, 1)) }

\* What the player of a match of another mode has equipped: he comes and goes;
\* two players, whose snapshots are reported faster than they are taken.
Snaps ==
  { [World(Stranger, Stranger) EXCEPT !.guests = {p1}, !.greets = "never", !.snaps = "timely"],
    [World(Strangers, Stranger) EXCEPT !.greets = "never", !.snaps = "rushed"] }

All == Orderly \cup Snaps
===========================================================================
