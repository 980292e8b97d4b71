SPECIFICATION FairSpec
CONSTANTS
  o1 = o1
  o2 = o2
  o3 = o3
  o4 = o4
  t1 = t1
  t2 = t2
  t3 = t3
  t4 = t4
  t5 = t5
  NoThread = NoThread
  Objects = {o1, o2, o3}
  Threads = {t1, t2, t3}
  ObjectOf <- ThreeProcesses
  mDatabaseLockEnabled = {o1, o2, o3}
  MaxTickets = 8
  MaxCrashes = 0
  Crashers = {}
  Stoppers = {}
  SlowPhases = {}
CHECK_DEADLOCK FALSE
INVARIANT UndisturbedExclusion
PROPERTIES
  TicketOrder
  ReleasesAdvance
  EveryWaiterLeaves
  ImplementsQueue
