SPECIFICATION ServicesFairSpec
CONSTANTS
  k1 = k1  p = p  None = None
  c1 = c1  c2 = c2  r1 = r1  r2 = r2  s1 = s1  s2 = s2  x1 = x1
  panel = panel  main = main
  Parts = {"dsh", "opencode", "delegation"}
  Jobs = {1}
  Pages = {p}
  PageOf <- OnePage
  Runs = {1}
  Ticks = {1}
  Commands = {k1}
  MaxConcurrent = 1
  MaxSteps = 1
  MaxActs = 0
  Files = {1}
  MaxEdits = 0
  MaxStops = 0
  MaxMoves = 0
  MaxSaves = 0
  Leasers = {c1, c2}
  MaxEpochs = 2
  MaxLives = 0
  Requests = {r1, r2}
  MaxContexts = 1
  MaxSessions = 1
  Limit = 2
  Bounds <- LiveBounds
  Starts = {s1, s2}
  Cancels = {x1}
  Loads <- LiveLoads
  Surfaces = {panel}
  MaxProjects = 0
  MaxFolders = 0
  Visits <- NoVisits
CHECK_DEADLOCK FALSE
PROPERTIES
  AcquireSettles
  RequestsEnd
  RequestsAnswer
