SPECIFICATION FairSpec
CONSTANTS
  Slot = {s1, s2}
  MaxAttempts <- RetryReview
  MaxRevisions = 0
  RepoTakesRevision = FALSE
  MaxScenarios = 1
  MaxFaults = 1
\* A terminal workflow, or one that waits for its human, has nothing to do.
CHECK_DEADLOCK FALSE
PROPERTY Progress
