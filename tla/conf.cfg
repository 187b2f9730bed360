CONSTANTS
  Inputs <- MCInputs
  Files <- MCFiles
  Globs <- MCGlobs
  Hosts <- MCHosts
  Items <- MCItems
  Levels <- MCLevels
  BufferSizes = {6, 9, 16, 64}
  WordSize = 4096
  TimeMax = 10000000
  MaxPort = 100
SPECIFICATION Spec
INVARIANTS
  WrittenIsRead
  BrokenIsRefused
