SPECIFICATION Spec
CONSTANTS
  t1 = t1
  t2 = t2
  c1 = c1
  c2 = c2
  c3 = c3
  NoThread = NoThread
  Threads = {t1, t2}
  Checksums = {c1}
  Accepted = {c1}
  Size <- MCSize
  MemoryCacheSize = 10
  Versions = {1}
  Ops = {"save", "load", "get", "pin", "unpin"}
  Faults = {"stop"}
  MaxStats = 2
PROPERTIES
  SavedCodeIsUsable
