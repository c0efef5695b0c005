----------------------------- MODULE MCTaskLease -----------------------------
(* TaskLease with interchangeable tasks and lease ids. *)
EXTENDS TaskLease, TLC

LeaseSymmetry == Permutations(Task) \cup Permutations(LeaseId)
==============================================================================
