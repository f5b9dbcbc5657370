SPECIFICATION Spec
CONSTANTS
  None = None  NoMap = NoMap
  x = x  y = y  p1 = p1  r1 = r1
  a1 = a1  a2 = a2  a3 = a3  v1 = v1  v2 = v2
  m1 = m1  m2 = m2  s1 = s1  s2 = s2  s3 = s3
  Accounts = {a1, a2, a3}
  SearchIds = {s1, s2, s3}
  MatchIds = {m1}
  Servers = {v1}
  ProfileIds = {}
  Requests = {r1, None}
  Maps = {}
  Modes = {"duel"}
  AcceptModes = {"duel"}
  Required <- RequiredDuel
  Sources = {"gc"}
  Choices <- ChoicesDuel
  Parties <- LeaderParty
  Fleet <- OneServer
  Calls = {}
  Setups = {}
  Profiles = {}
  MaxCrashes = 0
  Outage = FALSE
SYMMETRY RowSymmetry
INVARIANTS PartyTogether OneLiveSearch NoOverfill
