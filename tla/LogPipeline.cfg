SPECIFICATION Spec
CONSTANTS
  None = None
  docker = docker
  kernel = kernel
  Units = {docker, kernel}
  Providers = {a, b}
  Entries <- MCEntries
  maxLines = 2
  maxBytes = 3
  MaxEntries = 3
CHECK_DEADLOCK FALSE
INVARIANTS
  TypeOK
  AtMostOneStraggler
  SeverityFollowsPriority
PROPERTIES
  ImplementsQueue
  FollowProceeds
  MessagesLeave
