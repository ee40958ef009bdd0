SPECIFICATION FairSpec
CONSTANTS
  Task = {"bus", "drive", "logger"}
  Global = {"control", "table", "axis", "pose"}
  LastPart = 1
  Val = {0, 1}
  Body <- FlatBodies
  MaxActivations = 2
INVARIANTS
  TypeOK
  DeadlockFree
  FieldsSurvive
  CopiesAreWhole
PROPERTIES
  ActivationsEnd
CHECK_DEADLOCK FALSE
