----------------------------- MODULE MCUsagePool ----------------------------
(* Small instances of UsagePool for TLC. *)
EXTENDS UsagePool, TLC

CONSTANTS n1, n2, s1, s2

\* One socket on each instance: two on one never interleave.
OneEach == s1 :> n1 @@ s2 :> n2
=============================================================================
