\* A variable with the name of a builtin.
SPECIFICATION LoweringSpec
CONSTANTS
  Names = {"x", "X"}
  BuiltinNames = {"X"}
  PyNames <- MCPyNames
  Snake <- MCSnake
  Base <- MCBase
  LoopBase <- MCLoopBase
  Candidate <- MCCandidate
  Guard = "_guard"
  Attributes = {}
  MaxOrdinal = 2
  Kinds = {"normal"}
  MaxScopes = 3
  MaxDecls = 2
  MaxFrames = 3
  HoistPlaces = {}
  NamesReused = FALSE
  EmptyElseIf = FALSE
  Retranslates = FALSE
INVARIANT HidesBuiltin
CHECK_DEADLOCK FALSE
