SPECIFICATION FairSpec
CONSTANTS
  p1 = p1  p2 = p2
  Matches = 2
  Players = {p1, p2}
  NoPlayer = NoPlayer
  Need = 2
  Tries = 2
  Room = 3
  Worlds <- All
INVARIANTS TypeOK InsideCatchesUp AsDelivered Dressed
PROPERTIES ConfirmedIsHeld MatchIsTold
