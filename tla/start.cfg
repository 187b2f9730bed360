CONSTANTS
  Starters = {a, b, c}
  Stoppers = {s}
  Old = Old
  None = None
  MaxCrashes = 1
  MaxFails = 1
SPECIFICATION Spec
\* Every instance has ended, or is a master nobody stops.
CHECK_DEADLOCK FALSE
INVARIANTS
  OnlyTheftDoubles
  SomebodyRuns
  StopFindsMaster
