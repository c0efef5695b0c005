--------------------------- MODULE MCWorkerPipeline --------------------------
(* WorkerPipeline with interchangeable threads. *)
EXTENDS WorkerPipeline, TLC

SlotSymmetry == Permutations(Slot)

\* Every task has one attempt, or the review a second one.
NoRetries == [t \in TaskType |-> 1]
RetryReview == [NoRetries EXCEPT !["REVIEW_SCENARIO"] = 2]
==============================================================================
