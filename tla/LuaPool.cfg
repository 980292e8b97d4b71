SPECIFICATION FairSpec
CONSTANTS
  t1 = t1
  t2 = t2
  t3 = t3
  Threads = {t1, t2, t3}
  NUM_OF_LUA_HANDLES = 2
  Updater = Updater
  Nobody = Nobody
  NoState = NoState
  MaxCalls = 3
  MaxEdits = 2
CHECK_DEADLOCK FALSE
INVARIANTS
  TypeOK
  StateUsedByOne
  FileLoaded
PROPERTIES
  WaiterGetsState
