---------------------------- MODULE MCAppConfig ----------------------------
(* Instances of AppConfig for TLC: one setting of a form, one by itself. *)
EXTENDS AppConfig, TLC

MCValues == {"v", "w"}
MCEnv == [k \in Settings |-> "v"]
MCForms == {<<<<k, "w">>>> : k \in Settings}
MCImports == {[k \in Settings |-> "v"]}
=============================================================================
