SPECIFICATION Spec
CONSTANTS
  Ids = 5
  Places = {"t", "t2", "ct", "spray"}
  Class <- PlaceClass
  Graffiti = "spray"
  Bases = {"usp", "r8"}
  Wear = 1
  Capacity = 1
  Kills = 1
  Room = 2
  Worlds <- InventoryWorlds
INVARIANTS TypeOK OnePerPlace GameInStep ServerInStep CasketCounts NoReuse
PROPERTY KeptAtExit
CHECK_DEADLOCK FALSE
