SPECIFICATION Spec
CONSTANTS
  u1 = u1
  u2 = u2
  x1 = x1
  x2 = x2
  Users = {u1}
  Nobody = Nobody
  NoClient = NoClient
  DocIds = {1, 2}
  Ids = {x1, x2}
  Absent = Absent
  MaxPendingWrites = 10
  Budget <- FailuresBudget
  Amounts = {1}
  Dates = {1}
  Nil = Nil
  NSNull = NSNull
  PickableTypes = {"Income"}
  PickableCategories = {"Other"}
  Unset = Unset
  NotAdded = NotAdded
  NoKey = NoKey
  NotLoaded = NotLoaded
SYMMETRY IdSymmetry
INVARIANTS
  AddedNotLost
  DeletedStaysDeleted
  OneDocumentPerTransaction
  TableShowsManager
CHECK_DEADLOCK FALSE
