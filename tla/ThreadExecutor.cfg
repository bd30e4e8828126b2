\* Three async() calls race with stops, restarts and the destructor: one
\* task being taken, one queued, one submitted meanwhile; one of them stops
\* its own executor.
CONSTANTS
  NoTask = NoTask
  Tasks = {a, b, c}
  Stoppers = {a}
SPECIFICATION FairSpec
INVARIANTS
  TasksAccounted
PROPERTIES
  ImplementsExecutor
  DestructionResolves
  QueuedIsRun
