--------------------------- MODULE MCWorkerProcess ---------------------------
\* A worker process at a small size: a message of another producer may lack
\* its task type.
EXTENDS WorkerProcess

NoTaskType == {{"task_type"}}
==============================================================================
