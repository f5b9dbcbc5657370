SPECIFICATION FairSpec
CONSTANTS
  Own = 2
  Parties = 2
  Matches = 2
  AcceptModes = {1, 3}
  QueueLimit = 2
  Attempts = 2
  Misses = 1
  Restarts = 1
  Room = 2
  Worlds <- PlayerWorlds
INVARIANT TypeOK
PROPERTIES OfferSpec WantedGoesOn Heals AcceptEnds
CHECK_DEADLOCK FALSE
