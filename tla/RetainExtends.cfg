SPECIFICATION ToolSpec
CONSTANTS
  Blocks = {"A", "B", "C"}
  Position <- Declared
  Types = {"S", "T", "U"}
  Others = {}
  ElementTypes = {"INT"}
  InlineArray = "__INLINE_ARRAY_INT"
  MaxUses = 2
  Archives = {"a", "b"}
  Compiled <- Resolved
  Names = {"P", "Q", "R"}
  Half <- Scaled
  NativeLevels = {3, 4}
  MaxArguments = 4
  MinControl <- LowestControl
  MaxControl = 3
  Bounds <- Ends
  Steps <- By
  Docs = {"A", "B"}
  Texts = {1, 2}
  ByteBits = 2
  Programs = {"P", "Q"}
  Declarations <- Placed
  MaxDeclarations = 3
  MaxInstances = 2
  BlockTypes = {"Inner", "Outer"}
  Sources <- Extended
  MaxEntries = 2
  Suites = {"table"}
INVARIANTS
  RetainedInstancesAreWhole
CHECK_DEADLOCK FALSE
