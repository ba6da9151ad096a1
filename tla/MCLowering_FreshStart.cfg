\* A second program on the same Translator.
SPECIFICATION LoweringSpec
CONSTANTS
  Names = {"x", "X"}
  BuiltinNames = {}
  PyNames <- MCPyNames
  Snake <- MCSnake
  Base <- MCBase
  LoopBase <- MCLoopBase
  Candidate <- MCCandidate
  Guard = "_guard"
  Attributes = {}
  MaxOrdinal = 2
  Kinds = {"normal"}
  MaxScopes = 3
  MaxDecls = 2
  MaxFrames = 3
  HoistPlaces = {}
  NamesReused = FALSE
  EmptyElseIf = FALSE
  Retranslates = TRUE
INVARIANT FreshStart
CHECK_DEADLOCK FALSE
