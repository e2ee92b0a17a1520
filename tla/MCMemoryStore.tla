--------------------------- MODULE MCMemoryStore ---------------------------
(***************************************************************************)
(* Small instances of MemoryStore for TLC.                                 *)
(***************************************************************************)
EXTENDS MemoryStore, TLC

CONSTANTS w1, w2, p1, p2

Says(kind, words, source, marks) ==
  [kind |-> kind, words |-> words, details |-> FALSE,
   evidence |-> <<source>>, marks |-> marks]

(* A workflow the user vouches for, acceptable and promotable. *)
Workflow  == Says("workflow", <<"run", "tests", "before", "push", "to", "main">>, "strong", {})
(* The same words in another order: a near duplicate of Workflow. *)
Rephrased == Says("workflow", <<"before", "push", "to", "main", "run", "tests">>, "strong", {})
(* A fact that can be retained but neither auto-accepted nor promoted. *)
Fact      == Says("fact", <<"the", "parser", "caches", "tokens">>, "strong", {})
(* A guess no evidence supports, and a secret. *)
Guess     == Says("workflow", <<"maybe", "run", "lint", "first">>, "agent", {"guess"})
Secret    == Says("workflow", <<"the", "token", "is", "hidden">>, "strong", {"secret"})

MCWords == UNION {ValuesIn(n.words) : n \in {Workflow, Rephrased, Fact, Guess, Secret}}

OneNote  == {Workflow}
TwoNotes == {Workflow, Rephrased}
AllNotes == {Workflow, Rephrased, Fact, Guess, Secret}

Default  == [profile |-> "balanced", nonAgent |-> TRUE,
             kinds |-> {"workflow", "constraint", "warning", "decision"}]
ByHand   == [Default EXCEPT !.profile = "manual"]

OnlyDefault == {Default}
TwoPolicies == {Default, ByHand}

Records == File(inbox) \cup File(canon) \cup File(archive)
Known   == Cardinality({r.id : r \in Records})

(* Bound: three memories are of the notes that can duplicate each other;    *)
(* any others come in pairs.                                                *)
Sparing == {r.note : r \in Records} \subseteq TwoNotes \/ Known <= 2

(* Bounds: what comes after a lapse or an overlap of prunes is followed     *)
(* with two memories, and once the clock has moved as well with one; on a   *)
(* clock that has moved two are followed as far as accepts by hand go.      *)
Brief ==
  LET calm   == lapsed = {} /\ overlapped = {}
      byHand == audit = {} /\ \A r \in Records : r.scope # Global
  IN  /\ now > 1 \/ ~ calm            => Known <= 2
      /\ now > 1 /\ ~(calm /\ byHand) => Known <= 1

Symmetry == Permutations(Procs) \cup Permutations(Workspaces)
=============================================================================
