----------------------------- MODULE MCChatStore -----------------------------
(* Small instances of ChatStore: the values of the constants are in the cfg files. *)
EXTENDS ChatStore, TLC

Symmetry == Permutations(Ops) \union Permutations(Pods) \union Permutations(Users)
            \union Permutations(Chats)
==============================================================================
