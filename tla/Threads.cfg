SPECIFICATION Spec
CONSTANT MaxThreads = 4
INVARIANTS
  QueueExact
  OwnContext
PROPERTIES
  RoundRobinOrder
  EveryThreadRuns
