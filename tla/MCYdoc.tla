-------------------------------- MODULE MCYdoc ------------------------------
(* Small instances of Ydoc for TLC. *)
EXTENDS Ydoc, TLC

YdocSymmetry == Permutations(Sid) \cup Permutations(Update)
=============================================================================
