SPECIFICATION Spec
CONSTANTS
  None = None
  t1 = t1
  t2 = t2
  p1 = p1
  Threads <- MCThreads
  Pids <- MCPids
  Tgid <- MCTgid
  Fds = {f1, f2}
  Socks = {s1, s2}
  FdSlots = 2
  SkInfoSlots = 1
  TimestampSlots = 1
  MaxClock = 2
INVARIANTS
  TypeOK
  FdSlotIsOwn
  SkInfoIsOwn
  OutcomeNamesCaller
  NeverOlder
PROPERTIES
  AttemptsAreTracked
  AttemptsEnd
