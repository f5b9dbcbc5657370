--------------------------- MODULE MCPlayerSearch ---------------------------
(* Worlds of PlayerSearch for TLC: what happens in one behaviour and what is *)
(* left out of it.                                                           *)
EXTENDS PlayerSearch

Calm == [calm |-> TRUE, exact |-> TRUE, brief |-> TRUE, prompt |-> TRUE,
         own |-> 1, refused |-> {}, parties |-> 0, restarts |-> 0]

\* Two own searches with events queued for the GC thread; two with requests
\* handled late; an own search and one of a party; two of parties and a restart
\* of the game; one that is refused and a restart.
PlayerWorlds == {
  [Calm EXCEPT !.own = 2, !.calm = FALSE],
  [Calm EXCEPT !.own = 2, !.prompt = FALSE],
  [Calm EXCEPT !.parties = 1],
  [Calm EXCEPT !.own = 0, !.parties = 2, !.restarts = 1],
  [Calm EXCEPT !.own = 2, !.refused = {2}, !.restarts = 1]}

\* One search; a request can be handled late.
LateWorlds == {[Calm EXCEPT !.prompt = FALSE]}

\* One search; the game is started again.
RestartWorlds == {[Calm EXCEPT !.restarts = 1]}
=============================================================================
