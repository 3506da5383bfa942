--------------------------- MODULE MCChatSessions ---------------------------
(***************************************************************************)
(* ChatSessions for TLC.  Turns are interchangeable, so are deletes.       *)
(***************************************************************************)
EXTENDS ChatSessions, TLC

RequestSymmetry == Permutations(Turns) \union Permutations(Deletes)
=============================================================================
