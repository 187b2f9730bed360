CONSTANTS
  Responses <- MCResponses
  CaVersion <- MCCaVersion
  NotHex = NotHex
  WordSize = 4096
  CaVersionHex = 1
  MaxProcesses = 3
  MaxSignals = 3
  MaxForkFails = 1
SPECIFICATION Spec
\* The process may have ended, or hang in a fetch.
CHECK_DEADLOCK FALSE
INVARIANTS
  NoOrphan
  NoSelfUpdate
PROPERTY StopEnds
