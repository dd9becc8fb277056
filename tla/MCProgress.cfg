SPECIFICATION FairSpec
CONSTANTS
  u1 = u1
  u2 = u2
  x1 = x1
  x2 = x2
  Users = {u1}
  Nobody = Nobody
  NoClient = NoClient
  DocIds = {1}
  Ids = {x1}
  Absent = Absent
  MaxPendingWrites = 10
  Budget <- ProgressBudget
  Amounts = {1, 2}
  Dates = {1}
  Nil = Nil
  NSNull = NSNull
  PickableTypes = {"Income"}
  PickableCategories = {"Other"}
  Unset = Unset
  NotAdded = NotAdded
  NoKey = NoKey
  NotLoaded = NotLoaded
INVARIANTS
  MemoryMatchesServer
PROPERTIES
  DeletionReachesServer
  ComesToRest
  SignedInReachesTabs
CHECK_DEADLOCK FALSE
