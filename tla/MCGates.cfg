\* Every flag, strict or not, two programs; no feature that passes unseen.
CONSTANTS
  Features = {"frontend_error", "visual_error", "metadata", "gate", "tick", "varip", "import", "library_call", "request", "visual", "security", "lower_tf", "unknown", "unrendered"}
  Policies = {"drop", "error"}
  MaxPrograms = 2
  MaxFeatures = 2
SPECIFICATION GatesSpec
INVARIANTS GatesTypeOK FailsClosed ParityHonest CodegenHonest ShownErrorsAreLater
CHECK_DEADLOCK FALSE
