SPECIFICATION Spec
CONSTANTS
  None = None
  f1 = f1
  f2 = f2
  f3 = f3
  t1 = t1
  t2 = t2
  c1 = c1
  c2 = c2
  Threads <- MCThreads
  Cpus <- MCCpus
  Fds = {f1, f2, f3}
  Setups <- AllSetups
  Streams <- TwoStreams
  RequestSlots = 2
  MaxRequests = 3
SYMMETRY Symmetry
CHECK_DEADLOCK FALSE
INVARIANTS
  TypeOK
  OwnResponse
  FreshRecords
  ReadsAreOwn
PROPERTIES
  ReportedOnce
