---------------------------- MODULE MCSelfUpdate ----------------------------
(***************************************************************************)
(* Small instances of SelfUpdate for TLC.                                  *)
(***************************************************************************)
EXTENDS SelfUpdate, TLC

CONSTANTS p1, p2

Symmetry == Permutations(Updaters)
=============================================================================
