\* A function that calls a function.
SPECIFICATION CallSitesSpec
CONSTANTS
  LastFunction = 2
  Locations = {l1}
  Builtins = {ema}
  Locals = {x}
  MaxCalls = 4
  MaxEvaluations = 0
  Uses = {"nested"}
INVARIANT Isolated
CHECK_DEADLOCK FALSE
