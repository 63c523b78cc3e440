\* Two threads installing actions and taking signals; the kernel may refuse an
\* action, memory may run out, and the process may fork.
SPECIFICATION FairSpec
CONSTANTS
  t1 = t1
  t2 = t2
  b1 = b1
  b2 = b2
  none = none
  Threads = {t1, t2}
  Actions <- AnyAction
  Blocks = {b1, b2}
  Null = none
  MaxUpdates = 3
  MaxSignals = 2
  InstallMayFail = TRUE
  MayFork = TRUE
INVARIANTS
  SnapshotsAreSound
PROPERTIES
  BridgeStaysAhead
  RefusedUpdateChangesNothing
  EveryCallEnds
CHECK_DEADLOCK FALSE
