SPECIFICATION SceneSpec
CONSTANTS
  c1 = c1  c2 = c2  A = A  B = B  e1 = e1  None = None
  Contexts = {c1, c2}
  Holders = {A, B}
  Epochs = {e1}
  CallOps = {"history"}
  AllowedSets <- AnySets
  MaxSessions = 1
  MaxGeneration = 2
  MaxTurns = 2
  MaxLog = 3
SYMMETRY ContextSymmetry
CHECK_DEADLOCK FALSE
INVARIANTS
  TypeOK
  SessionsAreCurrent
  AdaptersAreReleased
  OutputHeldAuthority
  TurnsEndOnce
