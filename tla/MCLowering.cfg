\* Two names of one spelling, two levels of structures in a body.
SPECIFICATION LoweringSpec
CONSTANTS
  Names = {"x", "X"}
  BuiltinNames = {"X"}
  PyNames <- MCPyNames
  Snake <- MCSnake
  Base <- MCBase
  LoopBase <- MCLoopBase
  Candidate <- MCCandidate
  Guard = "_guard"
  Attributes = {}
  MaxOrdinal = 2
  Kinds = {"normal", "varip", "input"}
  MaxScopes = 3
  MaxDecls = 2
  MaxFrames = 3
  HoistPlaces = {"simple", "if", "loop"}
  NamesReused = FALSE
  EmptyElseIf = FALSE
  Retranslates = FALSE
INVARIANTS LoweringTypeOK WellFormedPython Balanced BranchDepthRestored ReadsReachHome HomesDistinct
CHECK_DEADLOCK FALSE
