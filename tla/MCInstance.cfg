\* A gas limit of 4 leaves room for several calls and imports before it is used up.
CONSTANTS
  GasLimit = 4
  U64 = 16
  GasInfos <- MCGasInfos
  GuestImports <- Imports
  HostImports <- Imports
  GuestKeys <- SmallGuestKeys
  GuestValues <- SmallGuestValues
  Entries = {"execute", "query"}
  MaxRegions = 5
  MaxImports = 4
  MaxCalls = 2
  MaxScans = 1
  MAX_LENGTH_DB_KEY = 1
  BufferLength = 1
  ResultLimit = 2
  SectionRadix = 2
  LengthBytes = 2
SPECIFICATION InstanceSpec
INVARIANTS
  GasReportIsExact
  QueriesNeverWrite
  StorageIsFaithful
  SuccessfulCallsFreeMemory
  NoDanglingRegion
PROPERTIES
  NoWorkAfterDepletion
\* A contract whose import waits for the write lock stops for good, and after
\* the last call on the memory nothing happens.
CHECK_DEADLOCK FALSE
