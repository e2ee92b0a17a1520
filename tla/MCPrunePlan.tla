---------------------------- MODULE MCPrunePlan ----------------------------
(***************************************************************************)
(* Every canon of at most three records, in one workspace and the global   *)
(* scope, that say one of two things, with or without a provenance, with   *)
(* strong or weak evidence, superseding one another or not.  Three records *)
(* make a chain of duplicates that is not transitive, and a cycle.         *)
(***************************************************************************)
EXTENDS PrunePlan

Says(word)  == [kind |-> "workflow", words |-> <<word>>, details |-> FALSE,
                evidence |-> <<"strong">>, marks |-> {}]
Ranked(e)   == [evidence |-> e, durability |-> 4, retain |-> 90]

MCIds     == 1 .. 3
MCScopes  == {"w", Global}
MCNotes   == {Says("a"), Says("b")}
MCScores  == {Ranked(1), Ranked(4)}
MCStamps  == {1}
MCSources == {9}
=============================================================================
