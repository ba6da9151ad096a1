CONSTANTS
  Names <- MCNames
  Values <- MCValues
  NA = 0
  Script <- MCScript
  Eval <- MCEval
  Bars <- MCBars
  NoBar = 0
  Unset = 9
  MaxBars = 2
  MaxOrders = 2
  Faults = {"restart"}
SPECIFICATION GeneratedSpec
INVARIANTS RestoredScriptRuns
CHECK_DEADLOCK FALSE
