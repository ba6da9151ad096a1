\* Two globals over every operator the doubts are about, and a call with any operand.
SPECIFICATION TypeFlowSpec
CONSTANTS
  Names = {"x", "y", "hl2"}
  BuiltinNames = {"hl2"}
  Atoms = {"five", "true", "na", "bar_index"}
  Locals = {"param", "loop", "int_param"}
  Operators = {"ta", "float", "round", "arith", "nz", "bb", "trend", "direction",
               "security_list", "kc", "call", "list"}
  MaxGlobals = 2
INVARIANTS TypeFlowTypeOK AcceptsOnlyAllowed RefusesOnlyDisallowed ReadsTrue SeriesTyped
CHECK_DEADLOCK FALSE
