SPECIFICATION FairSpec
CONSTANTS
  o1 = o1
  o2 = o2
  o3 = o3
  o4 = o4
  t1 = t1
  t2 = t2
  t3 = t3
  t4 = t4
  t5 = t5
  NoThread = NoThread
  Objects = {o1, o2}
  Threads = {t1, t2}
  ObjectOf <- TwoProcesses
  mDatabaseLockEnabled = {o1, o2}
  MaxTickets = 3
  MaxCrashes = 1
  Crashers = {o1, o2}
  Stoppers = {}
  SlowPhases = {}
CHECK_DEADLOCK FALSE
INVARIANT
  MutualExclusion
