SPECIFICATION Spec
CONSTANTS
  None = None
  unnamed = unnamed
  s1 = s1
  Names <- MCNames
  Unnamed <- unnamed
  MaxTexts = 3
  MaxOnTheWay = 3
CHECK_DEADLOCK FALSE
INVARIANTS
  TypeOK
  TextIsOwn
  ClosedAreForgotten
