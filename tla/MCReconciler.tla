----------------------------- MODULE MCReconciler ----------------------------
(* Reconciler beside interchangeable worker threads. *)
EXTENDS Reconciler, TLC

SlotSymmetry == Permutations(Slot)

\* Every task has one attempt.
NoRetries == [t \in TaskType |-> 1]
==============================================================================
