\* Two threads, one of the three discoveries in a behaviour, and a fork.
SPECIFICATION DispatchSpec
CONSTANTS
  c1 = c1
  c2 = c2
  Callers = {c1, c2}
  StackSlots <- Stacks
  Imports = 2
  Hooks <- TwoHooks
  StubSlots = 3
  StubCapacity = 2
  RetryInterval = 2
  RepairInterval = 2
  RepairMax = 3
  ResolveLimit = 2
  Scenes <- OneScene
  MaxDispatchForks = 1
INVARIANT
  SelectorIsSound
PROPERTY
  DiscoveryCompletes
CHECK_DEADLOCK FALSE
