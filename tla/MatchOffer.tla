----------------------------- MODULE MatchOffer -----------------------------
(***************************************************************************)
(* What the matchmaking promises the player of one game, without threads,  *)
(* requests and queues: the search it follows, the matches the backend     *)
(* made for it, and what the game shows of them.                           *)
(***************************************************************************)
CONSTANTS Searches, Ids, None, AcceptModes

VARIABLES
  search,   \* the search the game follows, or None
  left,     \* the searches it left
  offered,  \* the search each match was made for, or None
  agreed,   \* the matches that everybody accepted
  found,    \* the match of the Match Found popup, or None
  shown,    \* the matches the player was told of
  joined    \* the matches the game connected to

vars == <<search, left, offered, agreed, found, shown, joined>>

Init ==
  /\ search = None /\ left = {} /\ offered = [m \in Ids |-> None] /\ agreed = {}
  /\ found = None /\ shown = {} /\ joined = {}

Offer(m, r) ==
  /\ offered[m] = None
  /\ offered' = [offered EXCEPT ![m] = r]
  /\ UNCHANGED <<search, left, agreed, found, shown, joined>>

Agree(m) ==
  /\ agreed' = agreed \cup {m}
  /\ UNCHANGED <<search, left, offered, found, shown, joined>>

\* The game follows another search, or none.  It never returns to one it left.
Follow(r) ==
  /\ r \notin left
  /\ search' = r /\ found' = None
  /\ left' = IF search = None THEN left ELSE left \cup {search}
  /\ UNCHANGED <<offered, agreed, shown, joined>>

\* A match is announced once, and only one of the search.
New(m) == offered[m] = search /\ m \notin shown /\ shown' = shown \cup {m}

Find(m) ==
  /\ search \in AcceptModes /\ New(m)
  /\ found' = m
  /\ UNCHANGED <<search, left, offered, agreed, joined>>

Withdraw ==
  /\ found' = None
  /\ UNCHANGED <<search, left, offered, agreed, shown, joined>>

\* Without an Accept the game connects at once ...
Join(m) ==
  /\ search \notin AcceptModes /\ New(m)
  /\ joined' = joined \cup {m}
  /\ UNCHANGED <<search, left, offered, agreed, found>>

\* ... and otherwise when everybody accepted.
Connect ==
  /\ found \in agreed
  /\ joined' = joined \cup {found} /\ found' = None
  /\ UNCHANGED <<search, left, offered, agreed, shown>>

Restart ==
  /\ search' = None /\ left' = {} /\ found' = None /\ shown' = {} /\ joined' = {}
  /\ UNCHANGED <<offered, agreed>>

Next ==
  \/ \E m \in Ids : (\E r \in Searches : Offer(m, r)) \/ Agree(m) \/ Find(m) \/ Join(m)
  \/ \E r \in Searches \cup {None} : Follow(r)
  \/ Withdraw \/ Connect \/ Restart

Spec == Init /\ [][Next]_vars
=============================================================================
