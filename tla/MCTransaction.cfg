SPECIFICATION Spec
CONSTANTS
  MaxKey = 3
  v1 = v1
  v2 = v2
  Values = {v1, v2}
  None = None
  MaxChanges = 3
INVARIANTS
  IteratorInSync
PROPERTIES
  ImplementsView
