\* An unrelated socket on one of the two descriptors.
SPECIFICATION PairSpec
CONSTANTS
  RecvFd = 2
  SendFd = 4
  FdLimits = {6}
  MaxExecs = 2
  Inherited <- AnyDescriptor
INVARIANT
  ForeignDescriptorsAreKept
CHECK_DEADLOCK FALSE
