SPECIFICATION Spec
CONSTANTS
  None = None
  app1 = app1
  app2 = app2
  pause = pause
  service = service
  scope = scope
  Pids = {a, b}
  Cpus = {c1, c2}
  Cgroups = {app1, scope}
  PathOf <- MCPathOf
  LabelOf <- MCLabelOf
  ExitedReadable = FALSE
  Orders <- MCOneOrder
  RingSlots = 2
  ChanSlots = 2
  OomSlots = 1
  MaxForks = 2
  MaxObjects = 2
CHECK_DEADLOCK FALSE
SYMMETRY Symmetry
INVARIANTS
  DockerScopesAreDocker

