SPECIFICATION FairSpec
CONSTANTS
  l1 = l1
  l2 = l2
  AskedLevels = {l1}
  AnyLevel = AnyLevel
  NoProducer = NoProducer
  Generations = {1, 2}
  Levels = {l1}
  CheckInterval = 1
  MaxChanges = 2
  MaxReloads = 1
  Expiry = FALSE
  EmptyGenerations = TRUE
CHECK_DEADLOCK FALSE
INVARIANTS
  TypeOK
  ResultsNotOlder
  GenerationListsFollow
PROPERTIES
  CopiesFollow
