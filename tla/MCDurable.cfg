SPECIFICATION FairSpec
CONSTANTS
  w1 = w1
  w2 = w2
  Writers = {w1, w2}
  MaxWrites = 4
  MemLimit = 0
  CompactionTrigger = 2
  StopTrigger = 3
  Budget <- FaultBudget
INVARIANTS
  OpensAgain
  ReadsWhatIsDurable
  LaterWritesWin
PROPERTIES
  ImplementsDurableWrites
  EveryWriteReturns
CHECK_DEADLOCK FALSE
