\* A global variable named like the attribute that holds the runtime.
SPECIFICATION ContextSpec
CONSTANTS
  Names = {"x", "rt"}
  PyNames <- MCPyNames
  Snake <- MCSnake
  Base <- MCBase
  LoopBase <- MCLoopBase
  Candidate <- MCCandidate
  Guard = "_guard"
  Attributes = {"rt"}
  MaxOrdinal = 3
  Kinds = {"normal"}
  MaxScopes = 3
  MaxDecls = 3
INVARIANT AttributesIntact
