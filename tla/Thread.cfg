\* A second start() meets the leftovers of the first.
CONSTANTS
  MaxStarts = 2
  Kinds <- AllKinds
SPECIFICATION FairSpec
INVARIANTS
  TasksUnderControl
  StopNotInherited
  OwnIdAfterStart
PROPERTY
  DestructorReturns
\* A task that waits for its StopToken can block join() for ever.
CHECK_DEADLOCK FALSE
