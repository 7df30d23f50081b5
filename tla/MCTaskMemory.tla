---------------------------- MODULE MCTaskMemory ----------------------------
(* Small instances of TaskMemory for TLC. *)
EXTENDS TaskMemory, TLC

TaskSymmetry == Permutations(Task) \cup Permutations(Stopper)
=============================================================================
