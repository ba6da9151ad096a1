\* A function with two parameters of one snake_case spelling.
SPECIFICATION ContextSpec
CONSTANTS
  Names = {"x", "X"}
  PyNames <- MCPyNames
  Snake <- MCSnake
  Base <- MCBase
  LoopBase <- MCLoopBase
  Candidate <- MCCandidate
  Guard = "_guard"
  Attributes = {}
  MaxOrdinal = 3
  Kinds = {"normal"}
  MaxScopes = 3
  MaxDecls = 3
INVARIANT ArgumentsDistinct
