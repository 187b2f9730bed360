CONSTANTS
  Nodes = {n1, n2}
  NULL = NULL
  MaxNfree = 1
  MaxSamples = 3
  MaxSignals = 2
  Receivers = {"main", "acq", "submit"}
SPECIFICATION MCSpec
\* The process ends, or its main thread stays suspended for good.
CHECK_DEADLOCK FALSE
INVARIANTS
  NodesConserved
  JsonOwned
  PoolBounded
  NothingLeftAtExit
  CrashLosesNothing
PROPERTIES
  ChannelSpec
  ThreadsStop
  LinuxStops
