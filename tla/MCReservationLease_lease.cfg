SPECIFICATION FairSpec
CONSTANTS
  c1 = c1  c2 = c2
  Clients = {c1, c2}
  Refresh = 3
  EngineTimeout = 8
  Idle = 9
  MaxFailures = 3
  Worlds <- AnyWorld
INVARIANTS TypeOK KeptAlive CountedInUseIsLeased
PROPERTY ReArmed
