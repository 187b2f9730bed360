CONSTANTS
  Entries <- MCEntries
  Priority <- MCPriority
  None = None
  InitSize = 1
  MaxFails = 1
SPECIFICATION Spec
PROPERTY BagSpec
