\* Every part on its own small instance; the bounds are explained in README.md.
SPECIFICATION ProcessSpec
CONSTANTS
  p1 = p1
  p2 = p2
  t1 = t1
  t2 = t2
  m1 = m1
  m2 = m2
  f1 = f1
  f2 = f2
  e1 = e1
  e2 = e2
  e3 = e3
  s1 = s1
  s2 = s2
  s3 = s3
  g1 = g1
  g2 = g2
  g3 = g3
  q1 = q1
  q2 = q2
  q3 = q3
  none = none
  \* Faketime
  Processes = {p1, p2}
  Threads = {t1, t2}
  Root = p1
  Filetimes = {9}
  Modulus = 8
  TicksPerSecond = 4
  Seconds1601To1970 = 5
  PeekInterval = 2
  QueueLimit = 1
  FirstNow = 6
  MaxTime = 2
  MaxSets = 2
  MaxReads = 2
  Ready = TRUE
  \* SocketPair
  RecvFd = 2
  SendFd = 4
  FdLimits = {4, 6}
  MaxExecs = 2
  Inherited <- AnyDescriptor
  \* ThunkTails
  Contents <- SmallFiles
  Signatures = {1, 4, 9}
  MinRead = 3
  \* ImageCopies
  Mappers = {m1, m2}
  Files = {f1, f2}
  DeviceOf <- TwoDevices
  InodeOf <- OneInode
  NoFile = none
  ImageSlots = 2
  BaseAddresses = {1, 2, 3}
  MaxImages = 3
  \* PeExport
  ModuleLimit = 2
  ExportLimit = 3
  MaxList = 3
  ExportNames = {1, 2, 3, 4, 5}
  Services = {7}
  \* Int2e
  Faulters = {m1, m2}
  Sites = {s1, s2, s3}
  Direct = {s3}
  Straddling = {s2}
  HomeOf <- Homes
  Capacities = {1, 2}
  Pages = {g1, g2, g3}
  NoSite = none
  NoPage = none
  MaxFaults = 3
  \* TraceRing
  Tracers = {e1, e2, e3}
  HistoryCapacity = 2
  NullFaultDumpLimit = 1
  MaxEvents = 4
  \* Bootstrap
  Allocators = {e1, e2}
  PoolSize = 4
  Sizes = {2}
  Keys = {1, 2, 3, 4}
  NoKey = 0
  MaxAllocCalls = 3
  MaxNesting = 2
  \* Startup
  Procs = {q1, q2, q3}
  First = q1
  OverrideNames <- TwoOverrides
  Sessions <- SmallSessions
  UserPreloads <- Preloads
  Self = "self"
  AncestryLimit = 2
SYMMETRY ThreadSymmetry
INVARIANTS
  FakedClockIsSound
  DescriptorsAreKept
  
  SearchIsRight
  TrampolinesAreOwn
  CodeIsLeftAlone
  DumpedEventsAreWhole
  AllocationsAreSafe
  
PROPERTY
  OffsetIsNeverInvented
CHECK_DEADLOCK FALSE
