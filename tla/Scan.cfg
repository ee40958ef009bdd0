SPECIFICATION FairSpec
CONSTANTS
  ByteBits = 8
  Var = {"start", "flag", "lamp", "limit", "preset"}
  Table <- BitTable
  Desc <- BitDesc
  Constants = {"limit", "preset"}
  NumPrograms = 2
  Uses <- TwoPrograms
  Declared <- BitDeclared
  Served = {"flag"}
  MidScan = TRUE
INVARIANTS
  ForcedRawHolds
  PointerHonoursForce
PROPERTIES
  OnlyImageMovesConstants
  ForceStaysWithOperator
  ForcedOutputsDelivered
  ForceReachesDriver
  MarkersSurvive
