SPECIFICATION Spec
CONSTANTS
  None = None
  g1 = g1
  g2 = g2
  t1 = t1
  t2 = t2
  Tasks <- MCTasks
  Threads <- MCThreads
  MaxRequests = 3
SYMMETRY Symmetry
CHECK_DEADLOCK FALSE
INVARIANTS
  TypeOK
  CallsMeetTheirReturns
  ResponsesAreReported
  ReportedWithOwn
