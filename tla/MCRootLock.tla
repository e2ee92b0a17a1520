----------------------------- MODULE MCRootLock -----------------------------
(***************************************************************************)
(* Small instances of RootLock for TLC.                                    *)
(***************************************************************************)
EXTENDS RootLock

CONSTANTS p1, p2, p3
=============================================================================
