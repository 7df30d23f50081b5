---------------------------- MODULE MCChatHistory ---------------------------
(* Small instances of ChatHistory for TLC. *)
EXTENDS ChatHistory, TLC

ChatSymmetry == Permutations(Message) \cup Permutations(Content)
                \cup Permutations(Loop)
=============================================================================
