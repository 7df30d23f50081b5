--------------------------- MODULE MCTaskRegistry ---------------------------
(* Small instances of TaskRegistry for TLC. *)
EXTENDS TaskRegistry, TLC

TaskSymmetry == Permutations(Task) \cup Permutations(Instance)
=============================================================================
