\* The condition of an else-if may need a temporary series too.
SPECIFICATION LoweringSpec
CONSTANTS
  Names = {"x", "X"}
  BuiltinNames = {}
  PyNames <- MCPyNames
  Snake <- MCSnake
  Base <- MCBase
  LoopBase <- MCLoopBase
  Candidate <- MCCandidate
  Guard = "_guard"
  Attributes = {}
  MaxOrdinal = 2
  Kinds = {"normal"}
  MaxScopes = 3
  MaxDecls = 2
  MaxFrames = 3
  HoistPlaces = {"elif"}
  NamesReused = FALSE
  EmptyElseIf = FALSE
  Retranslates = FALSE
INVARIANT WellFormedPython
CHECK_DEADLOCK FALSE
