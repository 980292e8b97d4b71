SPECIFICATION StorageSpec
CONSTANTS
  p1 = p1
  p2 = p2
  g1 = g1
  g2 = g2
  a = a
  b = b
  d1 = d1
  d2 = d2
  s1 = s1
  s2 = s2
  Producers = {p1, p2}
  GenerationNames = {g1, g2}
  FileNames = {a, b}
  Messages = {0}
  Data = {d1, d2}
  Statuses = {1, 2}
  Geometries <- OneGeometry
  GeometryStatuses = {s1, s2}
  GeometryOf <- LevelsOfOneGeometry
  Operations <- AllCalls
  MaxCalls = 3
  MaxRestarts = 1
  FileIdModulus = 4
  MaxEvents = 9
  TruncateStep = 2
  Loaded = TRUE
  GoneFiles = 2
  RegisterOnce = FALSE
SYMMETRY Symmetry
CHECK_DEADLOCK FALSE
INVARIANTS
  StorageTypeOK
  NamesUnique
PROPERTIES
  FreshFileIds
  LogIsWindow
