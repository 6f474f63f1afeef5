SPECIFICATION AllSpec
CONSTANTS
  None = None
  p1 = p1
  s1 = s1
  s2 = s2
  service = service
  Threads = {t1}
  Readers = {r1}
  Pids = {p1}
  Tgid <- MCTgid
  Fds = {f1}
  Socks = {s1, s2}
  FdSlots = 2
  SkInfoSlots = 2
  TimestampSlots = 1
  MaxClock = 2
  Addresses = {service, lo}
  Dst <- MCDst
  Loopback = {lo}
  Backends = {}
  PathSlots = 2
  MaxFailed = 1
SYMMETRY Symmetry
CHECK_DEADLOCK FALSE
INVARIANTS
  TablesOK
  NeverCreditedToOlder
  CreditedToCarrier
