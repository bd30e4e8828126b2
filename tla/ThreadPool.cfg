\* Two workers, so that threads_.back() is not the first Thread, and one task
\* more than workers; starts, stops and destruction at any time.
CONSTANTS
  NoTask = NoTask
  Tasks = {a, b, c}
  Capacity = 2
SPECIFICATION FairSpec
INVARIANTS
  PoolIsConsistent
PROPERTIES
  StopReturns
  ImplementsExecutor
