\* One Translator used for several programs, with errors in between.
SPECIFICATION LoweringSpec
CONSTANTS
  Names = {"x", "X"}
  BuiltinNames = {}
  PyNames <- MCPyNames
  Snake <- MCSnake
  Base <- MCBase
  LoopBase <- MCLoopBase
  Candidate <- MCCandidate
  Guard = "_guard"
  Attributes = {}
  MaxOrdinal = 2
  Kinds = {"normal"}
  MaxScopes = 3
  MaxDecls = 3
  MaxFrames = 2
  HoistPlaces = {}
  NamesReused = FALSE
  EmptyElseIf = FALSE
  Retranslates = TRUE
INVARIANTS UniqueNames BranchDepthRestored
CHECK_DEADLOCK FALSE
