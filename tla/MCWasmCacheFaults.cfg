\* The memory cache has room for the code, and nothing is unpinned.
SPECIFICATION Spec
CONSTANTS
  t1 = t1
  t2 = t2
  c1 = c1
  c2 = c2
  c3 = c3
  NoThread = NoThread
  Threads = {t1, t2}
  Checksums = {c1}
  Accepted = {c1}
  Size <- MCSize
  MemoryCacheSize = 4
  Versions = {1, 2}
  Ops = {"save", "load", "get", "pin"}
  Faults = {"stop", "upgrade", "io"}
  MaxStats = 2
INVARIANTS
  TypeOK
  SavedWasmSurvives
  ModulesHaveCode
  InstancesAreLimited
  ReadFromDiskOnce
PROPERTIES
  SavedCodeIsFound
  ImplementsStore
SYMMETRY ThreadSymmetry
