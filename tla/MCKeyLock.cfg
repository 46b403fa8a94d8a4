\* The per-volume lock, and the abstract lock it implements (no symmetry: liveness).
CONSTANTS
  t1 = t1
  t2 = t2
  t3 = t3
  vol1 = vol1
  vol2 = vol2
  e1 = e1
  e2 = e2
  e3 = e3
  Threads <- MCThreads
  Keys <- MCKeys
  Entries <- MCEntries
  NoThread = NoThread
  NoEntry = NoEntry
SPECIFICATION FairSpec
INVARIANTS MutualExclusion NoIdleEntry
PROPERTIES ImplementsVolumeLock NoStarvation
