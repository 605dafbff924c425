------------------------------- MODULE MCChatTurn -------------------------------
(* ChatTurn for TLC.  Chats are interchangeable. *)
EXTENDS ChatTurn, TLC

Symmetry == Permutations(Chats)
===============================================================================
