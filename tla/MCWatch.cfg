SPECIFICATION FairSpec
CONSTANTS
  t1 = t1
  Targets = {t1}
  MaxVersion = 2
  Budget <- ReuseBudget
INVARIANTS
  CountsUnanswered
  OwnChangesOnly
PROPERTIES
  EveryListenEnds
CHECK_DEADLOCK FALSE
