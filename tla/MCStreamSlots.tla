---------------------------- MODULE MCStreamSlots ----------------------------
(* Small instances of StreamSlots: the values of the constants are in the cfg files. *)
EXTENDS StreamSlots, TLC

StreamSymmetry == Permutations(Streams)
Symmetry == Permutations(Streams) \union Permutations(Pods)
==============================================================================
