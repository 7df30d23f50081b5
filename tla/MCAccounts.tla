----------------------------- MODULE MCAccounts -----------------------------
(* Instances of Accounts for TLC: two calls, each with its own email. *)
EXTENDS Accounts

CONSTANT k1

MCValues == BOOLEAN
MCEnv == [k \in Settings |-> TRUE]
MCEmail == [c \in Calls |-> c]
Symmetry == Permutations(Nodes) \cup Permutations(Calls)
MCForms == {<<<<k1, FALSE>>>>, <<<<SIGNUP, TRUE>>>>}
MCImports == {[k \in Settings |-> IF k = SIGNUP THEN TRUE ELSE Unset]}
=============================================================================
