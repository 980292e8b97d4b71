SPECIFICATION FairSpec
CONSTANTS
  o1 = o1
  o2 = o2
  o3 = o3
  o4 = o4
  t1 = t1
  t2 = t2
  t3 = t3
  t4 = t4
  t5 = t5
  NoThread = NoThread
  Objects = {o1, o2, o3, o4}
  Threads = {t1, t2, t3, t4, t5}
  ObjectOf <- BothModes
  mDatabaseLockEnabled = {o1, o2, o3}
  MaxTickets = 4
  MaxCrashes = 1
  Crashers = {o1, o2, o4}
  Stoppers = {o1, o2}
  SlowPhases <- SlowOperations
CHECK_DEADLOCK FALSE
INVARIANTS
  ThreadExclusion
  SlowHolderKeepsLock
  TypeOK
