------------------------------ MODULE MCChatView ------------------------------
(* ChatView on small sets, for TLC. *)
EXTENDS ChatView
===============================================================================
