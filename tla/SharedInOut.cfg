SPECIFICATION Spec
CONSTANTS
  Task = {"bus", "drive"}
  Global = {"axis"}
  LastPart = 1
  Val = {0, 1}
  Body <- InOutBodies
  MaxActivations = 1
INVARIANTS
  FieldsSurvive
CHECK_DEADLOCK FALSE
