CONSTANTS
  Starters = {a, b}
  Stoppers = {}
  Old = Old
  None = None
  MaxCrashes = 0
  MaxFails = 0
SPECIFICATION Spec
\* Every instance has ended, or is a master nobody stops.
CHECK_DEADLOCK FALSE
INVARIANT SingleMaster
