SPECIFICATION Spec
CONSTANTS
  None = None
  f1 = f1
  f2 = f2
  f3 = f3
  t1 = t1
  t2 = t2
  c1 = c1
  c2 = c2
  Threads <- MCThreads
  Cpus <- MCCpus
  Fds = {f2}
  Setups <- MysqlSetups
  Streams <- NoStream
  RequestSlots = 2
  MaxRequests = 2
SYMMETRY Symmetry
CHECK_DEADLOCK FALSE
INVARIANTS
  OnlyClosesAreCloses
