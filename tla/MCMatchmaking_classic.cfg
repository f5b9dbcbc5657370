SPECIFICATION Spec
CONSTANTS
  None = None  NoMap = NoMap
  x = x  y = y  p1 = p1  r1 = r1
  a1 = a1  a2 = a2  a3 = a3  v1 = v1  v2 = v2
  m1 = m1  m2 = m2  s1 = s1  s2 = s2  s3 = s3
  Accounts = {a1}
  SearchIds = {s1}
  MatchIds = {m1, m2}
  Servers = {v1, v2}
  ProfileIds = {}
  Requests = {r1, None}
  Maps = {x, y}
  Modes = {"duel", "casual", "skirmish"}
  AcceptModes = {"duel"}
  Required <- RequiredClassic
  Sources = {"gc"}
  Choices <- ChoicesClassic
  Parties <- NoParties
  Fleet <- MixedFleet
  Calls = {"delete", "create", "enable", "report", "master"}
  Setups <- SetupsClassic
  Profiles = {}
  MaxCrashes = 0
  Outage = FALSE
SYMMETRY IdSymmetry
PROPERTIES ClassicServerFits
