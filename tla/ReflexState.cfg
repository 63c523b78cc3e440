\* Every call in either of two threads, with forks.
SPECIFICATION FairSpec
CONSTANTS
  t1 = t1
  t2 = t2
  h1 = h1
  ah = ah
  p1 = p1
  id1 = id1
  sel = sel
  NoId = NoId
  Bypass = Bypass
  Null = Null
  Threads = {t1, t2}
  Handlers = {h1}
  AttributesHandlers = {ah}
  Pids = {p1}
  Ids = {id1}
  Selectors = {sel}
  Calls <- AnyCall
  TransitionWaitLimit = 2
  MaxCalls = 3
  MayFork = TRUE
INVARIANTS
  TypeOK
  TransitionHasOneOwner
  ConventionMatchesRouting
  ConsumedHandlerIsLive
  RegisteredSyscallsAreRouted
  ArmedIdentityStaysArmed
PROPERTIES
  RoutingOnlyAdvances
  EveryCallReturns
CHECK_DEADLOCK FALSE
