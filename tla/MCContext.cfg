\* Two spellings of one base, the suffixed name, and a builtin.
SPECIFICATION ContextSpec
CONSTANTS
  Names = {"x", "X", "x_2", "len"}
  PyNames <- MCPyNames
  Snake <- MCSnake
  Base <- MCBase
  LoopBase <- MCLoopBase
  Candidate <- MCCandidate
  Guard = "_guard"
  Attributes = {}
  MaxOrdinal = 3
  Kinds = {"normal"}
  MaxScopes = 3
  MaxDecls = 3
INVARIANTS ContextTypeOK UniqueNames LiveLocalsDistinct IndexCurrent
