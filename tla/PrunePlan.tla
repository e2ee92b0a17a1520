----------------------------- MODULE PrunePlan -----------------------------
(***************************************************************************)
(* How prune decides which canon records to archive (plan_prune): records  *)
(* another one supersedes, and then, in a loop over the rest, the strong   *)
(* duplicates of the best record left.                                     *)
(*                                                                         *)
(* A record is one of Dedupe with, besides, the id it supersedes, or NoId. *)
(* No command writes a "supersedes": it comes from records a user has      *)
(* edited or imported, so it may name any id, in cycles too.               *)
(***************************************************************************)
EXTENDS Dedupe, FiniteSetsExt

CONSTANTS
  Ids,      \* record ids
  Scopes,   \* the scopes one prune selects: a workspace, Global or both
  Notes,    \* what records may say
  Scores,   \* the scores records may have
  Stamps,   \* when records may have been updated
  Sources   \* the ids promoted records may come from

ASSUME PlanIdsAssumption     == Ids \subseteq Nat \ {NoId}
ASSUME PlanScoresAssumption  == /\ Stamps \subseteq Nat
                                /\ Scores \subseteq [evidence : 0 .. 4, durability : 0 .. 4,
                                                     retain : Nat]
ASSUME PlanSourcesAssumption == Sources \subseteq Nat \ {NoId}

Record == [id : Ids, scope : Scopes, note : Notes, score : Scores, at : Stamps,
           source : Sources \cup {NoId}, supersedes : Ids \cup {NoId}]

VARIABLES
  snapshot,   \* what the prune has read
  step,       \* "supersedes" or "duplicates"
  remaining,  \* records the loop has still to look at
  kept,       \* records that have won
  actions     \* planned archivals: a record, the reason, and whose id it names

vars == <<snapshot, step, remaining, kept, actions>>

Action == [record : Record, reason : {"superseded-by", "strong-duplicate-of"}, by : Ids]

(* The types, and that a record is in one place only.                       *)
TypeOK ==
  /\ snapshot \subseteq Record
  /\ \A r, s \in snapshot : r.id = s.id => r = s
  /\ step \in {"supersedes", "duplicates"}
  /\ remaining \subseteq snapshot
  /\ kept \subseteq snapshot \ remaining
  /\ actions \subseteq Action
  /\ \A a \in actions : a.record \in snapshot \ (remaining \cup kept)

(* Any records may be in canon, finitely many; only promoted ones, which    *)
(* are global, have a source.                                               *)
Init ==
  /\ \E I \in SUBSET Ids :
       \E scope \in [I -> Scopes], note \in [I -> Notes], score \in [I -> Scores],
          at \in [I -> Stamps], source \in [I -> Sources \cup {NoId}],
          supersedes \in [I -> Ids \cup {NoId}] :
         /\ \A i \in I : source[i] # NoId => scope[i] = Global
         /\ snapshot = {[id |-> i, scope |-> scope[i], note |-> note[i],
                         score |-> score[i], at |-> at[i], source |-> source[i],
                         supersedes |-> supersedes[i]] : i \in I}
  /\ IsFiniteSet(snapshot)
  /\ step = "supersedes"
  /\ remaining = snapshot
  /\ kept = {}
  /\ actions = {}

(* Mutant: a record may supersede itself. *)
SupersedesSelf(r, target) == target.id = r.supersedes /\ target.scope = r.scope

(* resolve_supersedes                                                       *)
Supersedes(r, target) ==
  target.id # r.id /\ target.id = r.supersedes /\ target.scope = r.scope

Successors(t) == {r.id : r \in {s \in snapshot : Supersedes(s, t)}}
Superseded(S) == {t \in S : \E r \in S : Supersedes(r, t)}

(* _plan_supersede_actions: the reason names the smallest successor         *)
PlanSupersedes ==
  /\ step = "supersedes"
  /\ step' = "duplicates"
  /\ actions' = {[record |-> t, reason |-> "superseded-by", by |-> Min(Successors(t))] :
                   t \in Superseded(snapshot)}
  /\ remaining' = snapshot \ Superseded(snapshot)
  /\ UNCHANGED <<snapshot, kept>>

(* Mutant: losers are not taken out of the loop. *)
PlanDuplicatesAgain(w) ==
  LET losers == {r \in remaining \ {w} : StrongDuplicate(w, r)}
  IN  /\ step = "duplicates"
      /\ \A r \in remaining \ {w} : Better(w, r)
      /\ kept' = kept \cup {w}
      /\ remaining' = remaining \ {w}
      /\ actions' = actions \cup
           {[record |-> r, reason |-> "strong-duplicate-of", by |-> w.id] : r \in losers}
      /\ UNCHANGED <<snapshot, step>>

(* Mutant: the winner is any record left. *)
PlanDuplicatesAnyWinner(w) ==
  LET losers == {r \in remaining \ {w} : StrongDuplicate(w, r)}
  IN  /\ step = "duplicates"
      /\ kept' = kept \cup {w}
      /\ remaining' = remaining \ ({w} \cup losers)
      /\ actions' = actions \cup
           {[record |-> r, reason |-> "strong-duplicate-of", by |-> w.id] : r \in losers}
      /\ UNCHANGED <<snapshot, step>>

(* Mutant: what duplicates a loser of the winner goes with it. *)
PlanDuplicatesClosed(w) ==
  LET direct == {r \in remaining \ {w} : StrongDuplicate(w, r)}
      losers == {r \in remaining \ {w} : \E s \in direct \cup {w} : StrongDuplicate(s, r)}
  IN  /\ step = "duplicates"
      /\ \A r \in remaining \ {w} : Better(w, r)
      /\ kept' = kept \cup {w}
      /\ remaining' = remaining \ ({w} \cup losers)
      /\ actions' = actions \cup
           {[record |-> r, reason |-> "strong-duplicate-of", by |-> w.id] : r \in losers}
      /\ UNCHANGED <<snapshot, step>>

(* Mutant: the winner is not taken out of the loop. *)
PlanDuplicatesStuck(w) ==
  LET losers == {r \in remaining \ {w} : StrongDuplicate(w, r)}
  IN  /\ step = "duplicates"
      /\ \A r \in remaining \ {w} : Better(w, r)
      /\ kept' = kept \cup {w}
      /\ remaining' = remaining \ losers
      /\ actions' = actions \cup
           {[record |-> r, reason |-> "strong-duplicate-of", by |-> w.id] : r \in losers}
      /\ UNCHANGED <<snapshot, step>>

(* One round of the loop of _plan_duplicate_actions, with winner w          *)
PlanDuplicates(w) ==
  LET losers == {r \in remaining \ {w} : StrongDuplicate(w, r)}
  IN  /\ step = "duplicates"
      /\ \A r \in remaining \ {w} : Better(w, r)
      /\ kept' = kept \cup {w}
      /\ remaining' = remaining \ ({w} \cup losers)
      /\ actions' = actions \cup
           {[record |-> r, reason |-> "strong-duplicate-of", by |-> w.id] : r \in losers}
      /\ UNCHANGED <<snapshot, step>>

Planned == step = "duplicates" /\ remaining = {}

(* The plan is made: only so may the loop stop.                             *)
Terminated == Planned /\ UNCHANGED vars

Next ==
  \/ PlanSupersedes
  \/ \E w \in remaining : PlanDuplicates(w)
  \/ Terminated

Spec == Init /\ [][Next]_vars

(* The loop runs until its plan is made.                                    *)
FairSpec == Spec /\ WF_vars(Next)

-----------------------------------------------------------------------------
(* Properties                                                               *)

(* The loop comes to an end on every set of records.                        *)
Terminates == <>Planned

(* No two records a prune leaves in canon are strong duplicates, whether    *)
(* duplication is transitive among them or not.                             *)
KeptDistinct == \A r, s \in kept : r # s => ~ StrongDuplicate(r, s)

(* A duplicate is archived only for a better record that duplicates it      *)
(* directly and stays in canon itself.                                      *)
LosersJustified ==
  \A a \in actions : a.reason = "strong-duplicate-of" =>
    \E w \in kept : /\ w.id = a.by
                    /\ StrongDuplicate(w, a.record) /\ Better(w, a.record)

(* The reason of r's archival names the id of s. *)
StandsFor(s, r) == \E a \in actions : a.record = r /\ a.by = s.id

SupersedesCycle ==
  \E C \in (SUBSET snapshot) \ {{}} :
    \A t \in C : \E r \in C \ {t} : r.supersedes = t.id /\ r.scope = t.scope

(* Nothing goes without a replacement: the reason of every archival names a *)
(* record, and reasons lead, through records archived in the same run, to   *)
(* one that stays in canon.  Only where records supersede each other in a   *)
(* cycle may they lead in circles, and all its members be archived.         *)
Grounded ==
  Planned =>
    /\ \A r \in snapshot \ kept : \E s \in snapshot \ {r} : StandsFor(s, r)
    /\ \A C \in (SUBSET (snapshot \ kept)) \ {{}} :
         (\A r \in C : \E s \in C : StandsFor(s, r)) => SupersedesCycle

(* The loop computes what MemoryStore takes a prune to archive: all but the *)
(* survivors of what is not superseded.                                     *)
KeepsSurvivors == Planned => kept = Survivors(snapshot \ Superseded(snapshot))
=============================================================================
