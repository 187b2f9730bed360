CONSTANTS
  Kinds <- TwoKinds
  MaxProcesses = 2
  ParentIsInit = TRUE
  MaxSignals = 2
  MaxCrashes = 2
  MaxForkFails = 1
SPECIFICATION FairSpec
\* The master exits, or waits for signals nobody sends.
CHECK_DEADLOCK FALSE
INVARIANTS
  TableMatchesKernel
  ExitLeavesNoChild
  KillAfterGrace
  UpgradeHandsOver
PROPERTIES
  NoSpawnAfterQuit
  TerminateExits
  QuitExits
  DeadIsReplaced
