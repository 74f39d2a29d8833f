CONSTANTS
  GasLimit = 4
  U64 = 16
  GasInfos <- MCGasInfos
  GuestImports <- Imports
  HostImports <- Imports
SPECIFICATION Spec
INVARIANTS
  NoSelfDeadlock
CHECK_DEADLOCK FALSE
