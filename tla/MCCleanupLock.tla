---------------------------- MODULE MCCleanupLock ---------------------------
(* Small instances of CleanupLock for TLC. *)
EXTENDS CleanupLock, TLC

NodeSymmetry == Permutations(Node)
UsageDelays == {1, 2}
=============================================================================
