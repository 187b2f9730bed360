CONSTANTS
  Threads = {t1, t2}
  Callers = {c1, c2}
  Tasks = {1, 2}
  Priority <- NumberedPriority
  NoTask = NoTask
  InitThreads = {t1}
  MaxThreads = 2
  Spurious = TRUE
  SlowCreate = FALSE
SPECIFICATION FairSpec
\* The pool is destroyed, or nobody calls it any more.
CHECK_DEADLOCK FALSE
INVARIANTS
  CountersMatch
  WaitersCovered
PROPERTIES
  BoardSpec
  TasksAreTaken
  ExitEndsThreads
  DestroyReturns
