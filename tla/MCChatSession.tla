--------------------------- MODULE MCChatSession ---------------------------
(* Small instances of ChatSession. *)
EXTENDS ChatSession, TLC

AllKinds == {"stream", "sync", "order", "append"}
StreamOnly == {"stream"}
RequestSymmetry == Permutations(Request)
=============================================================================
