\* win32u also frees blocks that code elsewhere allocated.
SPECIFICATION Spec
CONSTANTS
  t1 = t1
  t2 = t2
  a1 = a1
  a2 = a2
  a3 = a3
  none = none
  Threads = {t1}
  Addresses = {a1}
  NoAddress = none
  Capacity = 2
  Buckets <- TwoBuckets
  BucketOf <- Hash1
  MaxCalls = 4
  Transfers = TRUE
  MayFork = FALSE
INVARIANT
  OnlyDoubleFreesAreSkipped
CHECK_DEADLOCK FALSE
