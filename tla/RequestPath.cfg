SPECIFICATION FairSpec
CONSTANTS
  MaxRequests = 3
  Named <- NamedWorkflows
  Existing = 10
  Commands <- Requests
  Documents <- Files
  PoolSize = 2
  MaxFaults = 1
\* The last client has its answer.
CHECK_DEADLOCK FALSE
INVARIANTS
  OutputNotBehind
  AnswerTellsEffect
  DecidedOnce
PROPERTY
  EveryRequestEnds
