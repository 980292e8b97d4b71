SPECIFICATION FairSpec
CONSTANTS
  f1 = f1
  f2 = f2
  m1 = m1
  m2 = m2
  Never = Never
  Files = {f1}
  Messages = {m1, m2}
  Lifetimes = {Never}
  DeleteAfter = 3
  RefuseBefore = 2
  FaultyAfter = 1
  DropAfter = 1
  CleanupAge = 1
  IsCache = TRUE
  MaxChanges = 2
  MaxFailures = 1
CHECK_DEADLOCK FALSE
INVARIANTS
  TypeOK
  CopiesKept
PROPERTIES
  OutdatedFilesGo
