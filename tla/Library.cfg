SPECIFICATION LibrarySpec
CONSTANTS
  TimerPresets <- WaitPresets
  MaxTime = 4
  MaxCalls = 5
  CounterPresets <- CountPresets
  MinInt <- Lowest
  MaxInt = 2
  Orders <- CallOrders
  PowerTimeout = 2
  HomeTimeout = 2
  MaxFaults = 1
  Retained = FALSE
  Suites = {"timers", "counters", "motion"}
INVARIANTS
  TonFollowsHistory
  TofFollowsHistory
  TpFollowsHistory
  CountersTypeOK
PROPERTIES
  OneCountPerEdge
  PowerAnswers
  PowersDown
  HomingEnds
  ModeChangesDisabled
