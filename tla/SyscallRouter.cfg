\* Two threads, nested syscalls, a marker table that can fill up.
SPECIFICATION FairSpec
CONSTANTS
  t1 = t1
  t2 = t2
  Threads = {t1, t2}
  Capacity = 2
  MaxStack = 2
  MaxSyscalls = 3
  DirectAtStub = FALSE
INVARIANTS
  MarkersAreSound
  ReplayRestoresOwnContext
PROPERTY
  EverySyscallLeaves
CHECK_DEADLOCK FALSE
