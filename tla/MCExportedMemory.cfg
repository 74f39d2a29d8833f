CONSTANTS
  MEMORY_LIMIT = 2
  MAX_WASM_MEMORY = 12
  PageSize = 4
  MaxMemorySize = 17
SPECIFICATION WasmSpec
CHECK_DEADLOCK FALSE
INVARIANT AcceptedCodeExportsMemory
