SPECIFICATION Spec
CONSTANTS
  Slot = {s1, s2}
  MaxAttempts <- RetryReview
  MaxRevisions = 1
  RepoTakesRevision = TRUE
  MaxScenarios = 2
  MaxFaults = 1
SYMMETRY SlotSymmetry
\* A terminal workflow, or one that waits for its human, has nothing to do.
CHECK_DEADLOCK FALSE
INVARIANTS
  AckedIsSettled
  PrerequisitesThere
  NoLoserPath
  WorkNotLost
PROPERTIES
  ImplementsStages
