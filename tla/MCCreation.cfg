SPECIFICATION Spec
CONSTANTS
  w1 = w1
  w2 = w2
  Writers = {w1, w2}
  MaxWrites = 1
  MemLimit = 0
  CompactionTrigger = 2
  StopTrigger = 3
  Budget <- CreationBudget
INVARIANTS
  CreationCommitted
CHECK_DEADLOCK FALSE
