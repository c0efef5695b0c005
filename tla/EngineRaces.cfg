SPECIFICATION Spec
CONSTANTS
  Caller = {c1, c2}
  MaxRevisions = 2
  MaxScenarios = 3
  RepoTakesRevision = TRUE
SYMMETRY CallerSymmetry
\* A terminal workflow with idle callers has nothing left to do.
CHECK_DEADLOCK FALSE
INVARIANTS
  TypeOK
  HistoryIsPath
  RevisionsWithinCap
  RevisionsCounted
  ReviewsActiveScenario
  TaskKeysUnique
  ScenariosInStep
PROPERTIES
  TerminalIsFinal
  ImplementsLifecycle
