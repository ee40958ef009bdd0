SPECIFICATION LibrarySpec
CONSTANTS
  TimerPresets <- WaitPresets
  MaxTime = 4
  MaxCalls = 5
  CounterPresets <- CountPresets
  MinInt <- Lowest
  MaxInt = 2
  Orders <- CallOrders
  PowerTimeout = 2
  HomeTimeout = 2
  MaxFaults = 1
  Retained = TRUE
  Suites = {"timers"}
INVARIANTS
  BeganInThePast
