SPECIFICATION Spec
CONSTANTS
  None = None  NoMap = NoMap
  x = x  y = y  p1 = p1  r1 = r1
  a1 = a1  a2 = a2  a3 = a3  v1 = v1  v2 = v2
  m1 = m1  m2 = m2  s1 = s1  s2 = s2  s3 = s3
  Accounts = {a1, a2}
  SearchIds = {s1, s2}
  MatchIds = {m1, m2}
  Servers = {v1}
  ProfileIds = {p1}
  Requests = {None}
  Maps = {x, y}
  Modes = {"duel"}
  AcceptModes = {"duel"}
  Required <- RequiredTrio
  Sources = {"gc"}
  Choices <- ChoicesMaps
  Parties <- NoParties
  Fleet <- MapFleet
  Calls = {"edit"}
  Setups <- SetupsMaps
  Profiles <- ProfilesMaps
  MaxCrashes = 0
  Outage = FALSE
SYMMETRY Symmetry
INVARIANTS NoOverfill
PROPERTIES PoolSpec ReservedServerFits
