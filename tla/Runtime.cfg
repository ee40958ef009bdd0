SPECIFICATION RuntimeSpec
CONSTANTS
  Interval <- TwoTasks
  DefaultInterval = 6
  MaxWall = 10
  MaxCycles = 5
  Owner = 1
  PT = 8
  Build = {"first", "swapped", "fixed", "widened"}
  Layout <- Layouts
  Width <- Widths
  ReadOnly <- Constants
  Declared <- Initials
  Unreadable <- Failing
  Hash <- Hashes
  LenModulus = 3
  Garbage = Garbage
  MaxSaves = 2
  Suites = {"cyclic", "retain"}
INVARIANTS
  RunsOnSchedule
  StopIsPrompt
  ConstantsKeepDeclaration
PROPERTIES
  ImplementsPacing
  ShutdownCompletes
  ElapsesInWallTime
  ImplementsContract
  StaleMeansRecompiled
CHECK_DEADLOCK FALSE
