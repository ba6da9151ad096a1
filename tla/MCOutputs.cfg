CONSTANTS
  Inputs = {"a.json", "x/a.json", "c.json"}
  Stems = {"a", "c"}
  Stem <- MCStem
  Queues <- MCQueues
  Requests <- MCRequests
  MaxTranslations = 2
SPECIFICATION OutputsSpec
INVARIANTS OutputsTypeOK ArtifactSeals ReportTrue AllOrNothing
CHECK_DEADLOCK FALSE
