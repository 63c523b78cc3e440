\* Two processes with one thread each.
SPECIFICATION Spec
CONSTANTS
  a = a
  b = b
  t1 = t1
  t2 = t2
  Processes = {a, b}
  Threads = {t1}
  Root = a
  Filetimes = {9, 60}
  Modulus = 8
  TicksPerSecond = 4
  Seconds1601To1970 = 5
  PeekInterval = 2
  QueueLimit = 2
  FirstNow = 6
  MaxTime = 2
  MaxSets = 2
  MaxReads = 1
  Ready = TRUE
INVARIANT
  EveryProcessSeesTheSameTime
CHECK_DEADLOCK FALSE
