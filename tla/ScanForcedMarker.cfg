SPECIFICATION Spec
CONSTANTS
  ByteBits = 8
  Var = {"start", "flag", "lamp", "limit", "preset"}
  Table <- BitTable
  Desc <- BitDesc
  Constants = {"limit", "preset"}
  NumPrograms = 2
  Uses <- TwoPrograms
  Declared <- BitDeclared
  Served = {}
  MidScan = FALSE
PROPERTIES
  ForcedVariablesDelivered
