SPECIFICATION Spec
CONSTANTS
  u1 = u1
  u2 = u2
  Users = {u1, u2}
  Elsewhere = Elsewhere
  Keys = {k1}
  k1 = k1
  t1 = t1
  t2 = t2
  Targets = {t1}
  MaxPendingWrites = 2
  Budget <- QueueBudget
INVARIANTS
  IdsInOrder
  PipelineFull
  AnswersMatchPipeline
  CallersToldTheTruth
PROPERTIES
  ImplementsOutbox
CHECK_DEADLOCK FALSE
