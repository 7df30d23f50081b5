------------------------------ MODULE MCSharing ------------------------------
(* Small instances of Sharing for TLC. *)
EXTENDS Sharing, TLC

CONSTANTS m1, m2, u1, g1, a, b

Open == {<<Anyone, "read">>}
ToGroup == {<<g1, "read">>}
MCLists == {ToGroup}
MCSyncs == {<<<<m1, Open \cup {<<u1, "write">>}>>, <<m2, {}>>>>, <<>>}
MCClaims == {{a, b}, {a}}
Symmetry == Permutations(Nodes)
=============================================================================
