\* Two threads, caches of one entry, and the bounds of SmallWorkloads.
SPECIFICATION Spec
CONSTANTS
  Threads = {t1, t2}
  Workloads <- SmallWorkloads
  Mappings <- SmallMappings
  CallerCap = 1
  NativeCap = 1
  RescanInterval = 1
INVARIANTS
  
  ArtifactIsSeen
PROPERTIES
  LegacyIsNeverLost
  EveryTrapReturns
CHECK_DEADLOCK FALSE
