\* Functions called from the body of the script only.
SPECIFICATION CallSitesSpec
CONSTANTS
  LastFunction = 2
  Locations = {l1}
  Builtins = {ema}
  Locals = {x}
  MaxCalls = 4
  MaxEvaluations = 1
  Uses = {}
INVARIANTS CallSitesTypeOK Isolated
PROPERTY KeepsHistories
CHECK_DEADLOCK FALSE
