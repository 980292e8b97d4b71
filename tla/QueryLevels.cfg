SPECIFICATION Spec
CONSTANTS
  l1 = l1
  l2 = l2
  AskedLevels = {l1, l2}
  AnyLevel = AnyLevel
  NoProducer = NoProducer
  Generations = {1, 2}
  Levels = {l1, l2}
  CheckInterval = 2
  MaxChanges = 2
  MaxReloads = 0
  Expiry = FALSE
  EmptyGenerations = TRUE
SYMMETRY Symmetry
CHECK_DEADLOCK FALSE
INVARIANTS
  LevelIndependent
