------------------------------- MODULE Dedupe -------------------------------
(***************************************************************************)
(* Duplicates among memories (dedupe.py) and what a prune archives because *)
(* of them (pruning.py), as pure operators on records.                     *)
(*                                                                         *)
(* A record has an id, a scope (its scope_key: a workspace or Global), a   *)
(* note, a score, the stamp "at" of its last update and, when it was       *)
(* promoted, the id of its source.                                         *)
(***************************************************************************)
EXTENDS Integers, Sequences, FiniteSets, Scoring

Global == "global"
NoId   == 0

SameProvenance(l, r) == l.source # NoId /\ l.source = r.source

StrongDuplicate(l, r) ==
  \/ l.scope = Global /\ r.scope = Global /\ SameProvenance(l, r)
  \/ /\ l.scope = r.scope
     /\ l.note.kind = r.note.kind
     /\ l.note.words = r.note.words

(* At least 0.85 of the words of the two summaries are in both.             *)
NearDuplicate(l, r) ==
  LET left  == ValuesIn(l.note.words)
      right == ValuesIn(r.note.words)
  IN  /\ l.scope = r.scope
      /\ l.note.kind = r.note.kind
      /\ ~ StrongDuplicate(l, r)
      /\ left # {} /\ right # {}
      /\ 100 * Cardinality(left \cap right) >= 85 * Cardinality(left \cup right)

(* Mutant: a record is compared with the records that precede it only. *)
HasStrongEarlier(r, canon) == \E c \in canon : c.id < r.id /\ StrongDuplicate(r, c)

(* duplicate_flags: a record is compared with every canon record but itself *)
HasStrong(r, canon) == \E c \in canon : c.id # r.id /\ StrongDuplicate(r, c)
HasNear(r, canon)   == \E c \in canon : c.id # r.id /\ NearDuplicate(r, c)

-----------------------------------------------------------------------------

WinnerKey(r) ==
  <<r.score.evidence, r.score.durability, r.score.retain, r.at, - r.id>>

(* a sorts before b under _winner_key                                       *)
Better(a, b) ==
  \E k \in 1 .. 5 : /\ WinnerKey(a)[k] > WinnerKey(b)[k]
                    /\ \A j \in 1 .. k - 1 : WinnerKey(a)[j] = WinnerKey(b)[j]

(* What the loop of _plan_duplicate_actions keeps: a record is lost exactly *)
(* when a better record that is kept duplicates it.  Strong duplication is  *)
(* not transitive among global records, so this is more than "the best of   *)
(* each class".  PrunePlan runs the loop itself and is checked against it.  *)
Survivors(R) ==
  CHOOSE K \in SUBSET R :
    \A r \in R : r \in K <=> ~ \E k \in K : Better(k, r) /\ StrongDuplicate(k, r)
=============================================================================
