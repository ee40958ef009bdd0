SPECIFICATION Spec
CONSTANTS
  Task = {"bus", "drive"}
  Global = {"table", "axis"}
  LastPart = 1
  Val = {0, 1}
  Body <- NestedBodies
  MaxActivations = 1
INVARIANTS
  DeadlockFree
CHECK_DEADLOCK FALSE
