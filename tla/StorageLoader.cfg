SPECIFICATION StorageSpec
CONSTANTS
  p1 = p1
  p2 = p2
  g1 = g1
  g2 = g2
  a = a
  b = b
  d1 = d1
  d2 = d2
  s1 = s1
  s2 = s2
  Producers = {p1}
  GenerationNames = {g1, g2}
  FileNames = {a, b}
  Messages = {0, 1}
  Data = {d1, d2}
  Statuses = {1}
  Geometries <- TwoGeometries
  GeometryStatuses = {s1}
  GeometryOf <- LevelsOfOneGeometry
  Operations <- LoaderCalls
  MaxCalls = 3
  MaxRestarts = 0
  FileIdModulus = 8
  MaxEvents = 100
  TruncateStep = 10
  Loaded = TRUE
  GoneFiles = 0
  RegisterOnce = TRUE
SYMMETRY Symmetry
CHECK_DEADLOCK FALSE
INVARIANTS
  FileNamesResolve
  ContentBelongs
PROPERTIES
  ChangesAnnounced
