--------------------------- MODULE MCWorkflowEngine --------------------------
(* WorkflowEngine with two or three interchangeable callers. *)
EXTENDS WorkflowEngine, TLC

CallerSymmetry == Permutations(Caller)
==============================================================================
