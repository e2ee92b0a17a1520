-------------------------- MODULE PrunePlanProofs --------------------------
(***************************************************************************)
(* Theorems about PrunePlan, for every canon, of any size and content.     *)
(***************************************************************************)
EXTENDS PrunePlan, DedupeProofs

(* Strong duplication is symmetric (it is not transitive). *)
LEMMA StrongDuplicateSymmetric ==
  ASSUME NEW l, NEW r
  PROVE  StrongDuplicate(l, r) <=> StrongDuplicate(r, l)
BY DEF StrongDuplicate, SameProvenance

(* No winner duplicates another one or a record the loop has still to see,  *)
(* and there are no winners before the loop.                                *)
KeptApart ==
  /\ step = "supersedes" => kept = {}
  /\ \A k \in kept : \A r \in kept \cup remaining : r # k => ~ StrongDuplicate(k, r)

(* No two records that a prune leaves in canon are strong duplicates,       *)
(* although it compares each loser with one winner only: a winner takes     *)
(* every duplicate that is left, and those that went before it were no      *)
(* duplicates of earlier winners.                                           *)
THEOREM KeptAreDistinct == Spec => []KeptDistinct
<1>1. Init => KeptApart
  BY DEF Init, KeptApart
<1>2. KeptApart /\ [Next]_vars => KeptApart'
  <2>. SUFFICES ASSUME KeptApart, [Next]_vars
                PROVE  KeptApart'
    OBVIOUS
  <2>1. CASE PlanSupersedes
    BY <2>1 DEF PlanSupersedes, KeptApart
  <2>2. ASSUME NEW w \in remaining, PlanDuplicates(w)
        PROVE  KeptApart'
    <3>1. /\ kept' = kept \cup {w} /\ remaining' \subseteq remaining
          /\ step' # "supersedes"
      BY <2>2 DEF PlanDuplicates
    <3>2. \A r \in remaining' : ~ StrongDuplicate(w, r)
      BY <2>2 DEF PlanDuplicates
    <3>3. \A k \in kept : k # w => ~ StrongDuplicate(w, k)
      BY StrongDuplicateSymmetric DEF KeptApart
    <3>4. QED
      BY <3>1, <3>2, <3>3 DEF KeptApart
  <2>3. CASE UNCHANGED vars
    BY <2>3 DEF vars, KeptApart
  <2>4. QED
    BY <2>1, <2>2, <2>3 DEF Next, Terminated
<1>3. KeptApart => KeptDistinct
  BY DEF KeptApart, KeptDistinct
<1>4. QED
  BY <1>1, <1>2, <1>3, PTL DEF Spec

(* A duplicate is archived only for a better record that duplicates it      *)
(* directly and that no later round archives.                               *)
THEOREM LosersAreJustified == Spec => []LosersJustified
<1>1. Init => LosersJustified
  BY DEF Init, LosersJustified
<1>2. LosersJustified /\ [Next]_vars => LosersJustified'
  <2>. SUFFICES ASSUME LosersJustified, [Next]_vars
                PROVE  LosersJustified'
    OBVIOUS
  <2>1. CASE PlanSupersedes
    BY <2>1 DEF PlanSupersedes, LosersJustified
  <2>2. ASSUME NEW w \in remaining, PlanDuplicates(w)
        PROVE  LosersJustified'
    <3>1. kept' = kept \cup {w}
      BY <2>2 DEF PlanDuplicates
    <3>2. ASSUME NEW a \in actions' \ actions
          PROVE  w.id = a.by /\ StrongDuplicate(w, a.record) /\ Better(w, a.record)
      BY <2>2, <3>2 DEF PlanDuplicates
    <3>3. QED
      BY <3>1, <3>2 DEF LosersJustified
  <2>3. CASE UNCHANGED vars
    BY <2>3 DEF vars, LosersJustified
  <2>4. QED
    BY <2>1, <2>2, <2>3 DEF Next, Terminated
<1>3. QED
  BY <1>1, <1>2, PTL DEF Spec
-----------------------------------------------------------------------------
(* Type correctness, and where the records of the snapshot are.             *)

(* A nonempty set of ids has a smallest one. *)
LEMMA MinIsMember ==
  ASSUME NEW S \in SUBSET Nat, S # {}
  PROVE  Min(S) \in S
<1>1. IsWellFoundedOn(OpToRel(<, Nat), Nat)
  BY NatLessThanWellFounded
<1>2. PICK m \in S : \A y \in S : <<y, m>> \notin OpToRel(<, Nat)
  BY <1>1, WFMin
<1>3. \A y \in S : ~ (y < m)
  BY <1>2 DEF OpToRel
<1>4. \E x \in S : \A y \in S : x <= y
  BY <1>3
<1>5. QED
  BY <1>4 DEF Min

(* The records a prune reads can be ranked.                                 *)
LEMMA RecordsAreRanked ==
  ASSUME NEW R \in SUBSET Record
  PROVE  Rankable(R)
<1>1. \A r \in R : /\ r.score \in [evidence : 0 .. 4, durability : 0 .. 4, retain : Nat]
                   /\ r.at \in Nat /\ r.id \in Nat
  BY PlanIdsAssumption, PlanScoresAssumption DEF Record
<1>2. QED
  BY <1>1 DEF Rankable

(* The smallest successor of a superseded record is another record.         *)
LEMMA SuccessorIsRecord ==
  ASSUME TypeOK, NEW t \in Superseded(snapshot)
  PROVE  \E s \in snapshot : s.id = Min(Successors(t)) /\ Supersedes(s, t)
<1>1. Successors(t) # {} /\ Successors(t) \subseteq Nat
  <2>1. \A r \in snapshot : r.id \in Nat
    BY PlanIdsAssumption DEF TypeOK, Record
  <2>2. PICK r \in snapshot : Supersedes(r, t)
    BY DEF Superseded
  <2>3. r.id \in Successors(t)
    BY <2>2 DEF Successors
  <2>4. QED
    BY <2>1, <2>3 DEF Successors
<1>2. Min(Successors(t)) \in Successors(t)
  BY <1>1, MinIsMember
<1>3. QED
  BY <1>2 DEF Successors

(* The planner keeps its types: a record is left, kept or archived, and in  *)
(* one of these only.                                                       *)
THEOREM PlanTypeCorrect == Spec => []TypeOK
<1>. DEFINE IInv == TypeOK /\ (step = "supersedes" => kept = {})
<1>1. Init => IInv
  <2>. SUFFICES ASSUME Init
                PROVE  IInv
    OBVIOUS
  <2>1. /\ step = "supersedes" /\ remaining = snapshot /\ kept = {} /\ actions = {}
    BY DEF Init
  <2>2. /\ snapshot \subseteq Record
        /\ \A r, s \in snapshot : r.id = s.id => r = s
    <3>1. PICK I \in SUBSET Ids : \E scope \in [I -> Scopes], note \in [I -> Notes],
                 score \in [I -> Scores], at \in [I -> Stamps],
                 source \in [I -> Sources \cup {NoId}], supersedes \in [I -> Ids \cup {NoId}] :
            snapshot = {[id |-> i, scope |-> scope[i], note |-> note[i],
                         score |-> score[i], at |-> at[i], source |-> source[i],
                         supersedes |-> supersedes[i]] : i \in I}
      BY DEF Init
    <3>2. PICK scope \in [I -> Scopes], note \in [I -> Notes],
               score \in [I -> Scores], at \in [I -> Stamps],
               source \in [I -> Sources \cup {NoId}], supersedes \in [I -> Ids \cup {NoId}] :
            snapshot = {[id |-> i, scope |-> scope[i], note |-> note[i],
                         score |-> score[i], at |-> at[i], source |-> source[i],
                         supersedes |-> supersedes[i]] : i \in I}
      BY <3>1
    <3>3. QED
      BY <3>2 DEF Record
  <2>3. QED
    BY <2>1, <2>2 DEF TypeOK
<1>2. IInv /\ [Next]_vars => IInv'
  <2>. SUFFICES ASSUME IInv, [Next]_vars
                PROVE  IInv'
    OBVIOUS
  <2>1. CASE PlanSupersedes
    <3>. DEFINE made == {[record |-> t, reason |-> "superseded-by", by |-> Min(Successors(t))] :
                           t \in Superseded(snapshot)}
    <3>1. /\ actions' = made /\ remaining' = snapshot \ Superseded(snapshot)
          /\ UNCHANGED <<snapshot, kept>> /\ step' = "duplicates" /\ step = "supersedes"
      BY <2>1 DEF PlanSupersedes
    <3>2. Superseded(snapshot) \subseteq snapshot /\ snapshot \subseteq Record
      BY DEF Superseded, TypeOK
    <3>3. \A t \in Superseded(snapshot) : Min(Successors(t)) \in Ids
      BY <3>2, SuccessorIsRecord DEF Record
    <3>4. made \subseteq Action
      BY <3>2, <3>3 DEF Action
    <3>5. \A a \in made : a.record \in Superseded(snapshot)
      OBVIOUS
    <3>. HIDE DEF made
    <3>6. kept = {}
      BY <3>1
    <3>7. QED
      BY <3>1, <3>2, <3>4, <3>5, <3>6 DEF TypeOK
  <2>2. ASSUME NEW w \in remaining, PlanDuplicates(w)
        PROVE  IInv'
    <3>. DEFINE losers == {r \in remaining \ {w} : StrongDuplicate(w, r)}
                made   == {[record |-> r, reason |-> "strong-duplicate-of", by |-> w.id] :
                             r \in losers}
    <3>1. /\ kept' = kept \cup {w} /\ remaining' = remaining \ ({w} \cup losers)
          /\ actions' = actions \cup made /\ UNCHANGED <<snapshot, step>>
      BY <2>2 DEF PlanDuplicates
    <3>2. losers \subseteq remaining \ {w} /\ w \in Record /\ losers \subseteq Record
      BY DEF TypeOK
    <3>3. made \subseteq Action
      BY <3>2 DEF Action, Record
    <3>4. \A a \in made : a.record \in losers
      OBVIOUS
    <3>. HIDE DEF losers, made
    <3>5. remaining' \subseteq snapshot' /\ kept' \subseteq snapshot' \ remaining'
      BY <3>1, <3>2 DEF TypeOK
    <3>6. \A a \in made : a.record \in snapshot' \ (remaining' \cup kept')
      BY <3>1, <3>2, <3>4 DEF TypeOK
    <3>7. \A a \in actions : a.record \in snapshot' \ (remaining' \cup kept')
      BY <3>1 DEF TypeOK
    <3>8. actions' \subseteq Action
      BY <3>1, <3>3 DEF TypeOK
    <3>9. step = "duplicates"
      BY <2>2 DEF PlanDuplicates
    <3>10. QED
      BY <3>1, <3>5, <3>6, <3>7, <3>8, <3>9 DEF TypeOK
  <2>3. CASE UNCHANGED vars
    BY <2>3 DEF vars, TypeOK
  <2>4. QED
    BY <2>1, <2>2, <2>3 DEF Next, Terminated
<1>3. IInv => TypeOK
  OBVIOUS
<1>4. QED
  BY <1>1, <1>2, <1>3, PTL DEF Spec
-----------------------------------------------------------------------------
(* What the loop computes. *)

(* The records that are no longer left have lost to a better duplicate that *)
(* is kept, and no kept record bars one that is left.                       *)
Sorted ==
  LET candidates == snapshot \ Superseded(snapshot)
  IN  /\ IsFiniteSet(snapshot)
      /\ step = "supersedes" => kept = {}
      /\ step = "duplicates" =>
           /\ kept \cup remaining \subseteq candidates
           /\ \A k \in kept, r \in remaining : Better(k, r)
           /\ \A r \in candidates \ (kept \cup remaining) :
                \E k \in kept : Better(k, r) /\ StrongDuplicate(k, r)

(* However the duplicates among the records lie, the loop keeps exactly the *)
(* survivors, which are all there is to MemoryStore's prune.                *)
THEOREM LoopKeepsSurvivors == Spec => []KeepsSurvivors
<1>1. Init => Sorted
  BY DEF Init, Sorted
<1>2. TypeOK /\ Sorted /\ [Next]_vars => Sorted'
  <2>. SUFFICES ASSUME TypeOK, Sorted, [Next]_vars
                PROVE  Sorted'
    OBVIOUS
  <2>1. CASE PlanSupersedes
    BY <2>1 DEF PlanSupersedes, Sorted, Superseded, Supersedes
  <2>2. ASSUME NEW w \in remaining, PlanDuplicates(w)
        PROVE  Sorted'
    <3>. DEFINE losers == {r \in remaining \ {w} : StrongDuplicate(w, r)}
    <3>1. /\ kept' = kept \cup {w} /\ remaining' = remaining \ ({w} \cup losers)
          /\ snapshot' = snapshot /\ step' = "duplicates" /\ step = "duplicates"
          /\ \A r \in remaining \ {w} : Better(w, r)
      BY <2>2 DEF PlanDuplicates
    <3>2. \A r \in losers : Better(w, r) /\ StrongDuplicate(w, r)
      BY <3>1
    <3>3. PICK candidates : candidates = snapshot \ Superseded(snapshot)
      OBVIOUS
    <3>4. (snapshot \ Superseded(snapshot))' = candidates
      BY <3>1, <3>3 DEF Superseded, Supersedes
    <3>5. /\ kept \cup remaining \subseteq candidates
          /\ \A k \in kept, r \in remaining : Better(k, r)
          /\ \A r \in candidates \ (kept \cup remaining) :
               \E k \in kept : Better(k, r) /\ StrongDuplicate(k, r)
      BY <3>1, <3>3 DEF Sorted
    <3>. HIDE DEF losers
    <3>6. \A k \in kept', r \in remaining' : Better(k, r)
      BY <3>1, <3>5
    <3>7. \A r \in candidates \ (kept' \cup remaining') :
            \E k \in kept' : Better(k, r) /\ StrongDuplicate(k, r)
      BY <3>1, <3>2, <3>5
    <3>8. IsFiniteSet(snapshot) /\ kept' \cup remaining' \subseteq candidates
      BY <3>1, <3>5 DEF Sorted
    <3>9. QED
      BY <3>1, <3>4, <3>6, <3>7, <3>8 DEF Sorted
  <2>3. CASE UNCHANGED vars
    BY <2>3 DEF vars, Sorted, Superseded, Supersedes
  <2>4. QED
    BY <2>1, <2>2, <2>3 DEF Next, Terminated
<1>3. TypeOK /\ Sorted /\ KeptDistinct => KeepsSurvivors
  <2>. SUFFICES ASSUME TypeOK, Sorted, KeptDistinct, Planned
                PROVE  kept = Survivors(snapshot \ Superseded(snapshot))
    BY DEF KeepsSurvivors
  <2>1. PICK R : R = snapshot \ Superseded(snapshot)
    OBVIOUS
  <2>2. IsFiniteSet(R) /\ R \in SUBSET Record
    BY <2>1, FS_Subset DEF Sorted, TypeOK
  <2>3. Rankable(R)
    BY <2>2, RecordsAreRanked
  <2>4. kept \subseteq R /\ \A r \in R \ kept : \E k \in kept : Better(k, r) /\ StrongDuplicate(k, r)
    BY <2>1 DEF Sorted, Planned
  <2>5. \A r \in kept : ~ Better(r, r)
    BY <2>3, <2>4, BetterIsStrict
  <2>6. Kernel(kept, R)
    BY <2>4, <2>5 DEF Kernel, KeptDistinct
  <2>7. QED
    BY <2>1, <2>2, <2>3, <2>6, SurvivorsDefined
<1>4. QED
  BY PlanTypeCorrect, KeptAreDistinct, <1>1, <1>2, <1>3, PTL DEF Spec

(* Every record that is gone has a reason, and every reason a record.       *)
Reasoned ==
  /\ step = "supersedes" => remaining = snapshot /\ actions = {}
  /\ \A r \in snapshot \ (kept \cup remaining) : \E s \in snapshot \ {r} : StandsFor(s, r)
  /\ \A a \in actions :
       \/ \E s \in snapshot : s.id = a.by /\ Supersedes(s, a.record)
       \/ \E w \in kept : w.id = a.by

(* The reasons of a prune lead to records that stay, but in a cycle of      *)
(* records that supersede one another: a duplicate is archived for a kept   *)
(* record, so only superseded records can lead in circles.                  *)
THEOREM NothingGoesForNothing == Spec => []Grounded
<1>1. Init => Reasoned
  BY DEF Init, Reasoned
<1>2. TypeOK /\ Reasoned /\ [Next]_vars => Reasoned'
  <2>. SUFFICES ASSUME TypeOK, Reasoned, [Next]_vars
                PROVE  Reasoned'
    OBVIOUS
  <2>1. CASE PlanSupersedes
    <3>1. /\ actions' = {[record |-> t, reason |-> "superseded-by", by |-> Min(Successors(t))] :
                           t \in Superseded(snapshot)}
          /\ remaining' = snapshot \ Superseded(snapshot)
          /\ UNCHANGED <<snapshot, kept>> /\ step' = "duplicates"
      BY <2>1 DEF PlanSupersedes
    <3>2. ASSUME NEW t \in Superseded(snapshot)
          PROVE  \E s \in snapshot \ {t} : /\ s.id = Min(Successors(t)) /\ Supersedes(s, t)
                                           /\ StandsFor(s, t)'
      <4>1. PICK s \in snapshot : s.id = Min(Successors(t)) /\ Supersedes(s, t)
        BY SuccessorIsRecord
      <4>2. s # t
        BY <4>1 DEF Supersedes
      <4>3. PICK a : a = [record |-> t, reason |-> "superseded-by", by |-> Min(Successors(t))]
        OBVIOUS
      <4>4. a \in actions' /\ a.record = t /\ a.by = s.id
        BY <3>1, <4>1, <4>3
      <4>5. StandsFor(s, t)'
        BY <4>4 DEF StandsFor
      <4>6. QED
        BY <4>1, <4>2, <4>5
    <3>3. \A r \in snapshot' \ (kept' \cup remaining') : \E s \in snapshot' \ {r} : StandsFor(s, r)'
      BY <3>1, <3>2
    <3>4. \A a \in actions' : \E s \in snapshot' : s.id = a.by /\ Supersedes(s, a.record)
      BY <3>1, <3>2
    <3>5. QED
      BY <3>1, <3>3, <3>4 DEF Reasoned, Supersedes
  <2>2. ASSUME NEW w \in remaining, PlanDuplicates(w)
        PROVE  Reasoned'
    <3>. DEFINE losers == {r \in remaining \ {w} : StrongDuplicate(w, r)}
                made   == {[record |-> r, reason |-> "strong-duplicate-of", by |-> w.id] :
                             r \in losers}
    <3>1. /\ kept' = kept \cup {w} /\ remaining' = remaining \ ({w} \cup losers)
          /\ actions' = actions \cup made /\ UNCHANGED <<snapshot, step>>
          /\ step = "duplicates"
      BY <2>2 DEF PlanDuplicates
    <3>2. w \in snapshot
      BY DEF TypeOK
    <3>3. ASSUME NEW r \in losers
          PROVE  \E s \in snapshot \ {r} : StandsFor(s, r)'
      <4>1. PICK a : a = [record |-> r, reason |-> "strong-duplicate-of", by |-> w.id]
        OBVIOUS
      <4>2. a \in actions' /\ a.record = r /\ a.by = w.id /\ r # w
        BY <3>1, <4>1
      <4>3. QED
        BY <3>2, <4>2 DEF StandsFor
    <3>4. \A r, s : StandsFor(s, r) => StandsFor(s, r)'
      BY <3>1 DEF StandsFor
    <3>5. \A a \in made : a.by = w.id
      OBVIOUS
    <3>. HIDE DEF losers, made
    <3>6. \A r \in snapshot' \ (kept' \cup remaining') : \E s \in snapshot' \ {r} : StandsFor(s, r)'
      BY <3>1, <3>3, <3>4 DEF Reasoned
    <3>7. \A a \in actions' : \/ \E s \in snapshot' : s.id = a.by /\ Supersedes(s, a.record)
                              \/ \E k \in kept' : k.id = a.by
      BY <3>1, <3>5 DEF Reasoned
    <3>8. QED
      BY <3>1, <3>6, <3>7 DEF Reasoned, Supersedes
  <2>3. CASE UNCHANGED vars
    BY <2>3 DEF vars, Reasoned, StandsFor, Supersedes
  <2>4. QED
    BY <2>1, <2>2, <2>3 DEF Next, Terminated
<1>3. TypeOK /\ Reasoned => Grounded
  <2>. SUFFICES ASSUME TypeOK, Reasoned, Planned
                PROVE  /\ \A r \in snapshot \ kept : \E s \in snapshot \ {r} : StandsFor(s, r)
                       /\ \A C \in (SUBSET (snapshot \ kept)) \ {{}} :
                            (\A r \in C : \E s \in C : StandsFor(s, r)) => SupersedesCycle
    BY DEF Grounded
  <2>1. \A r \in snapshot \ kept : \E s \in snapshot \ {r} : StandsFor(s, r)
    BY DEF Reasoned, Planned
  <2>2. ASSUME NEW C \in (SUBSET (snapshot \ kept)) \ {{}},
               \A r \in C : \E s \in C : StandsFor(s, r)
        PROVE  SupersedesCycle
    <3>1. ASSUME NEW t \in C
          PROVE  \E r \in C \ {t} : r.supersedes = t.id /\ r.scope = t.scope
      <4>1. PICK s \in C : StandsFor(s, t)
        BY <2>2
      <4>2. PICK a \in actions : a.record = t /\ a.by = s.id
        BY <4>1 DEF StandsFor
      <4>3. \A w \in kept : w.id # s.id
        BY DEF TypeOK
      <4>4. PICK r \in snapshot : r.id = s.id /\ Supersedes(r, t)
        BY <4>2, <4>3 DEF Reasoned
      <4>5. r = s
        BY <4>4 DEF TypeOK
      <4>6. QED
        BY <4>4, <4>5 DEF Supersedes
    <3>2. QED
      BY <3>1 DEF SupersedesCycle
  <2>3. QED
    BY <2>1, <2>2
<1>4. QED
  BY PlanTypeCorrect, <1>1, <1>2, <1>3, PTL DEF Spec
=============================================================================
