---------------------------- MODULE MCSessionPool ---------------------------
(* Small instances of SessionPool for TLC. *)
EXTENDS SessionPool, TLC

PoolSymmetry == Permutations(Node) \cup Permutations(Sid)
NoDelays == {0}
=============================================================================
