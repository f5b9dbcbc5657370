SPECIFICATION Spec
CONSTANTS
  Own = 2
  Parties = 2
  Matches = 2
  AcceptModes = {1, 3}
  QueueLimit = 2
  Attempts = 2
  Misses = 1
  Restarts = 1
  Room = 2
  Worlds <- LateWorlds
INVARIANT ReadyMeansFull
CHECK_DEADLOCK FALSE
