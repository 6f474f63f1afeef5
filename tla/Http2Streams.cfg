SPECIFICATION Spec
CONSTANTS
  None = None
  s1 = s1
  s3 = s3
  Streams = {s1, s3}
  Answer <- MCAnswer
  GcInterval = 1
  Modulus = 16
  PathSlots = 2
  MaxTime = 6
CHECK_DEADLOCK FALSE
INVARIANTS
  TypeOK
  StatusIsOwn
  DurationsArePositive
  CollectionIsExact
PROPERTIES
  ReportedOnce
