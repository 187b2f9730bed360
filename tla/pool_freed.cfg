CONSTANTS
  Threads = {t1, t2, t3}
  Callers = {c1, c2}
  Tasks = {1, 2}
  Priority <- NumberedPriority
  NoTask = NoTask
  InitThreads = {t1}
  MaxThreads = 2
  Spurious = FALSE
  SlowCreate = TRUE
SPECIFICATION Spec
\* The pool is destroyed, or nobody calls it any more.
CHECK_DEADLOCK FALSE
INVARIANT FreedUntouched
