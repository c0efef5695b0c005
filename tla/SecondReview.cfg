SPECIFICATION Spec
CONSTANTS
  Slot = {s1, s2}
  MaxAttempts <- NoRetries
  MaxRevisions = 1
  RepoTakesRevision = FALSE
  MaxScenarios = 2
  MaxFaults = 0
\* A terminal workflow, or one that waits for its human, has nothing to do.
CHECK_DEADLOCK FALSE
INVARIANT DuplicateMeansDone
