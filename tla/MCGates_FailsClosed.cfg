\* A tick declaration by an expression, a diagnostic that spells a visual builtin,
\* a request in a branch that is not lowered.
CONSTANTS
  Features = {"varip", "tick_expression", "lookalike", "dropped_request"}
  Policies = {"drop"}
  MaxPrograms = 1
  MaxFeatures = 1
SPECIFICATION GatesSpec
INVARIANT FailsClosed
CHECK_DEADLOCK FALSE
