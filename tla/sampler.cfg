CONSTANTS
  Freqs = {1, 2}
  Measures <- MCMeasures
  Start = 3
  MaxClock = 5
  MaxSteps = 1
  MaxFails = 1
SPECIFICATION Spec
\* The clock stands at its bound.
CHECK_DEADLOCK FALSE
INVARIANTS
  ReportsWhole
  GapsHealed
  RoundComplete
