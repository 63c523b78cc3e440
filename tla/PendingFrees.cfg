\* Two threads, more addresses than the ring holds, and a fork.
SPECIFICATION FairSpec
CONSTANTS
  t1 = t1
  t2 = t2
  a1 = a1
  a2 = a2
  a3 = a3
  none = none
  Threads = {t1, t2}
  Addresses = {a1, a2, a3}
  NoAddress = none
  Capacity = 2
  Buckets <- TwoBuckets
  BucketOf <- Hash
  MaxCalls = 8
  Transfers = FALSE
  MayFork = TRUE
INVARIANTS
  HistoryIsSound
PROPERTIES
  
  EveryCallReturns
CHECK_DEADLOCK FALSE
