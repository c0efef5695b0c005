SPECIFICATION ReconcileSpec
CONSTANTS
  Slot = {s1}
  MaxAttempts <- NoRetries
  MaxRevisions = 1
  RepoTakesRevision = TRUE
  MaxScenarios = 2
  MaxFaults = 0
  MaxTasks = 6
SYMMETRY SlotSymmetry
\* A terminal workflow, or one that waits for its human, has nothing to do.
CHECK_DEADLOCK FALSE
INVARIANTS
  ReconcilerTypeOK
PROPERTY ImplementsStages
