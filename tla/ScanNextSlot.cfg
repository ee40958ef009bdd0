SPECIFICATION Spec
CONSTANTS
  ByteBits = 1
  Var = {"speed", "count"}
  Table <- WordTable
  Desc <- NextSlotDesc
  Constants = {}
  NumPrograms = 1
  Uses <- WordProgram
  Declared <- WordDeclared
  Served = {}
  MidScan = FALSE
PROPERTIES
  MarkersSurvive
