\* Two threads, any jobs or plain patches, a fork, mprotect calls that fail.
SPECIFICATION MCFairSpec
CONSTANTS
  t1 = t1
  t2 = t2
  Threads = {t1, t2}
  PatchWaitLimit = 2
  MaxPatches = 4
  MaxJobs = 4
  MayFork = TRUE
  HackEnabled = TRUE
INVARIANTS
  PageHasOneWriter
  
  BridgeForwardsToWine
  
PROPERTIES
  ImplementsPatchState
  EveryJobEnds
CHECK_DEADLOCK FALSE
