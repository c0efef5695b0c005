SPECIFICATION Spec
CONSTANTS
  CandidateCount = 2
  PoolSize = 3
  WeightScore = 10
  WeightComments = 5
  WeightRecency = 3
  MaxTopicCandidates = 2
  PanelMin = 3
  PanelMax = 4
  VendorOf <- Vendors
  Timeouts <- ReadOnly
  RateLimit = 1
  MaxAttempts = 2
  MaxRevisions = 1
  Injections <- SomeInjections
  FeedFailures <- FeedErrors
  FeedLengths = {0, 3, 4}
  ItemAnswers <- Items
  Exceptions <- Raised
  Contents <- Answers
  PromptFiles <- Prompts
  Repositories = {TRUE, FALSE}
\* A workflow that is over has no task.
CHECK_DEADLOCK FALSE
INVARIANTS
  CollectionInFeedOrder
  RetriedIffTemporary
  NextStageAccepts
  AuditsMatchProgress
  SpansEnd
