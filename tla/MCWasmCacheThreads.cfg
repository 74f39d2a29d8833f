\* Two accepted codes that do not fit the memory cache together, and a refused one.
SPECIFICATION FairSpec
CONSTANTS
  t1 = t1
  t2 = t2
  c1 = c1
  c2 = c2
  c3 = c3
  NoThread = NoThread
  Threads = {t1, t2}
  Checksums = {c1, c2, c3}
  Accepted = {c1, c2}
  Size <- MCSize
  MemoryCacheSize = 4
  Versions = {1}
  Ops = {"save", "load", "get", "pin", "unpin"}
  Faults = {}
  MaxStats = 2
INVARIANTS
  MemoryCacheBounded
  NoTornReads
PROPERTIES
  LocksAreReleased
