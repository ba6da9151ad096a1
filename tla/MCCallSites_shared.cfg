\* Functions that call functions, methods, temporaries and unlocated calls.
SPECIFICATION CallSitesSpec
CONSTANTS
  LastFunction = 2
  Locations = {l1}
  Builtins = {ema}
  Locals = {x}
  MaxCalls = 4
  MaxEvaluations = 0
  Uses = {"nested", "method", "temp", "unlocated"}
INVARIANT SharedForAReason
CHECK_DEADLOCK FALSE
