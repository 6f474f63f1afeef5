SPECIFICATION Spec
CONSTANTS
  None = None
  app1 = app1
  app2 = app2
  pause = pause
  service = service
  scope = scope
  Pids = {a, b}
  Cpus = {c1}
  Cgroups = {app1, pause}
  PathOf <- MCPathOf
  LabelOf <- MCLabelOf
  ExitedReadable = FALSE
  Orders <- MCOneOrder
  RingSlots = 2
  ChanSlots = 1
  OomSlots = 1
  MaxForks = 1
  MaxObjects = 2
CHECK_DEADLOCK FALSE
PROPERTIES
  ExitedAreForgotten
  StartupCompletes

