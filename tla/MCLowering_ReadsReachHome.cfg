\* A local variable may have the name of one around it.
SPECIFICATION LoweringSpec
CONSTANTS
  Names = {"x", "X"}
  BuiltinNames = {}
  PyNames <- MCPyNames
  Snake <- MCSnake
  Base <- MCBase
  LoopBase <- MCLoopBase
  Candidate <- MCCandidate
  Guard = "_guard"
  Attributes = {}
  MaxOrdinal = 2
  Kinds = {"normal"}
  MaxScopes = 3
  MaxDecls = 2
  MaxFrames = 3
  HoistPlaces = {}
  NamesReused = TRUE
  EmptyElseIf = FALSE
  Retranslates = FALSE
INVARIANT ReadsReachHome
CHECK_DEADLOCK FALSE
