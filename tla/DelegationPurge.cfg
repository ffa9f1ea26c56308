SPECIFICATION ServicesSpec
CONSTANTS
  k1 = k1  p = p  None = None
  c1 = c1  c2 = c2  r1 = r1  r2 = r2  s1 = s1  s2 = s2  x1 = x1
  panel = panel  main = main
  Parts = {"delegation"}
  Jobs = {1, 2}
  Pages = {p}
  PageOf <- OnePage
  Runs = {1, 2}
  Ticks = {1, 2}
  Commands = {k1}
  MaxConcurrent = 2
  MaxSteps = 2
  MaxActs = 2
  Files = {1, 2}
  MaxEdits = 2
  MaxStops = 1
  MaxMoves = 2
  MaxSaves = 1
  Leasers = {c1, c2}
  MaxEpochs = 2
  MaxLives = 1
  Requests = {r1, r2}
  MaxContexts = 2
  MaxSessions = 1
  Limit = 2
  Bounds <- SafetyBounds
  Starts = {s1, s2}
  Cancels = {x1}
  Loads <- SafetyLoads
  Surfaces = {panel, main}
  MaxProjects = 1
  MaxFolders = 1
  Visits <- SafetyVisits
CHECK_DEADLOCK FALSE
PROPERTY RunningPacketsAreKept
