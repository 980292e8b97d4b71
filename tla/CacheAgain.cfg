SPECIFICATION Spec
CONSTANTS
  p1 = p1
  p2 = p2
  g1 = g1
  g2 = g2
  a = a
  b = b
  d1 = d1
  d2 = d2
  s1 = s1
  s2 = s2
  Producers = {p1}
  GenerationNames = {g1}
  FileNames = {a}
  Messages = {0}
  Data = {d1, d2}
  Statuses = {1}
  Geometries <- NoGeometry
  GeometryStatuses = {s1}
  GeometryOf <- EveryMessage
  Operations <- ContentAgain
  MaxCalls = 2
  MaxRestarts = 0
  FileIdModulus = 8
  MaxEvents = 100
  TruncateStep = 10
  Loaded = TRUE
  GoneFiles = 0
  RegisterOnce = TRUE
  PageSize = 2
  ClearedBy = "own"
  MaxFailures = 0
SYMMETRY Symmetry
CHECK_DEADLOCK FALSE
INVARIANTS
  PrimaryAgrees
