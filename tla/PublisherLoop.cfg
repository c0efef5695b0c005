SPECIFICATION FairSpec
CONSTANTS
  MaxRows = 4
  WorkflowOf <- Alternating
  BatchSize = 2
  MaxAttempts = 2
  MaxFaults = 3
\* A stopped thread with no more rows to come has nothing to do.
CHECK_DEADLOCK FALSE
INVARIANTS
  TypeOK
  PublishedInStream
  OneCopyPerFault
  InOrder
PROPERTY PublishedWhileAlive
