\* Code may also run a marked stub's syscall instruction directly.
SPECIFICATION Spec
CONSTANTS
  t1 = t1
  t2 = t2
  Threads = {t1}
  Capacity = 2
  MaxStack = 2
  MaxSyscalls = 3
  DirectAtStub = TRUE
INVARIANT
  ReplayRestoresOwnContext
CHECK_DEADLOCK FALSE
