---------------------------- MODULE MCDurability ----------------------------
(***************************************************************************)
(* Two processes, two memories, three commands, one power failure.         *)
(***************************************************************************)
EXTENDS Durability, TLC

Symmetry == Permutations(Procs) \cup Permutations(Ids)
=============================================================================
