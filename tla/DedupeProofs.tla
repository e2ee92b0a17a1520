---------------------------- MODULE DedupeProofs ----------------------------
(***************************************************************************)
(* Theorems about Dedupe: the order that decides between duplicates is a   *)
(* strict one, and what a prune keeps of a finite set of records is well   *)
(* defined by it, although strong duplication is no equivalence.           *)
(***************************************************************************)
EXTENDS Dedupe, FiniteSetTheorems, TLAPS

(* The records _winner_key can rank. *)
Rankable(R) ==
  \A r \in R : /\ r.score.evidence \in Nat /\ r.score.durability \in Nat
               /\ r.score.retain \in Nat /\ r.at \in Nat /\ r.id \in Nat

(* No record sorts before itself, and what sorts before a record sorts      *)
(* before all that record sorts before.                                     *)
LEMMA BetterIsStrict ==
  ASSUME NEW R, Rankable(R), NEW a \in R, NEW b \in R, NEW c \in R
  PROVE  /\ ~ Better(a, a)
         /\ Better(a, b) /\ Better(b, c) => Better(a, c)
<1>1. \A r \in R : \A k \in 1 .. 5 : WinnerKey(r)[k] \in Int
  BY DEF Rankable, WinnerKey
<1>2. ~ Better(a, a)
  BY <1>1 DEF Better
<1>3. ASSUME Better(a, b), Better(b, c)
      PROVE  Better(a, c)
  <2>1. PICK u, v, w : u = WinnerKey(a) /\ v = WinnerKey(b) /\ w = WinnerKey(c)
    OBVIOUS
  <2>2. \A k \in 1 .. 5 : u[k] \in Int /\ v[k] \in Int /\ w[k] \in Int
    BY <1>1, <2>1
  <2>3. PICK k \in 1 .. 5 : u[k] > v[k] /\ \A j \in 1 .. k - 1 : u[j] = v[j]
    BY <1>3, <2>1 DEF Better
  <2>4. PICK l \in 1 .. 5 : v[l] > w[l] /\ \A j \in 1 .. l - 1 : v[j] = w[j]
    BY <1>3, <2>1 DEF Better
  <2>5. PICK m \in 1 .. 5 : /\ m = k \/ m = l
                            /\ m <= k /\ m <= l
    OBVIOUS
  <2>6. \A j \in 1 .. m - 1 : j \in 1 .. k - 1 /\ j \in 1 .. l - 1
    BY <2>5
  <2>7. \A j \in 1 .. m - 1 : u[j] = w[j]
    BY <2>3, <2>4, <2>6
  <2>8. u[m] > w[m]
    <3>1. u[m] >= v[m] /\ v[m] >= w[m] /\ (u[m] > v[m] \/ v[m] > w[m])
      <4>1. CASE m < k
        <5>1. m \in 1 .. k - 1 /\ m = l
          BY <2>5, <4>1
        <5>2. QED
          BY <2>2, <2>3, <2>4, <5>1
      <4>2. CASE m < l
        <5>1. m \in 1 .. l - 1 /\ m = k
          BY <2>5, <4>2
        <5>2. QED
          BY <2>2, <2>3, <2>4, <5>1
      <4>3. CASE m = k /\ m = l
        BY <2>2, <2>3, <2>4, <4>3
      <4>4. QED
        BY <2>5, <4>1, <4>2, <4>3
    <3>2. QED
      BY <2>2, <3>1
  <2>9. QED
    BY <2>1, <2>7, <2>8 DEF Better
<1>4. QED
  BY <1>2, <1>3

(* Of two records with different ids one sorts before the other: the id     *)
(* breaks the last tie.                                                     *)
LEMMA BetterIsTotal ==
  ASSUME NEW R, Rankable(R), NEW a \in R, NEW b \in R, a.id # b.id
  PROVE  Better(a, b) \/ Better(b, a)
<1>1. PICK u, v : u = WinnerKey(a) /\ v = WinnerKey(b)
  OBVIOUS
<1>2. \A k \in 1 .. 5 : u[k] \in Int /\ v[k] \in Int
  BY <1>1 DEF Rankable, WinnerKey
<1>3. u[5] # v[5]
  BY <1>1 DEF Rankable, WinnerKey
<1>4. PICK m \in 1 .. 5 : u[m] # v[m] /\ \A j \in 1 .. m - 1 : u[j] = v[j]
  <2>1. CASE u[1] # v[1]
    BY <2>1
  <2>2. CASE u[1] = v[1] /\ u[2] # v[2]
    <3>1. \A j \in 1 .. 2 - 1 : u[j] = v[j]
      BY <2>2
    <3>2. QED
      BY <2>2, <3>1
  <2>3. CASE u[1] = v[1] /\ u[2] = v[2] /\ u[3] # v[3]
    <3>1. \A j \in 1 .. 3 - 1 : u[j] = v[j]
      BY <2>3
    <3>2. QED
      BY <2>3, <3>1
  <2>4. CASE u[1] = v[1] /\ u[2] = v[2] /\ u[3] = v[3] /\ u[4] # v[4]
    <3>1. \A j \in 1 .. 4 - 1 : u[j] = v[j]
      BY <2>4
    <3>2. QED
      BY <2>4, <3>1
  <2>5. CASE u[1] = v[1] /\ u[2] = v[2] /\ u[3] = v[3] /\ u[4] = v[4]
    <3>1. \A j \in 1 .. 5 - 1 : u[j] = v[j]
      BY <2>5
    <3>2. QED
      BY <1>3, <3>1
  <2>6. QED
    BY <2>1, <2>2, <2>3, <2>4, <2>5
<1>5. u[m] > v[m] \/ v[m] > u[m]
  BY <1>2, <1>4
<1>6. QED
  BY <1>1, <1>4, <1>5 DEF Better

(* A smallest set among some subsets of a finite set.                       *)
LEMMA SmallestSubset ==
  ASSUME NEW S, IsFiniteSet(S), NEW T, T \subseteq SUBSET S, T # {}
  PROVE  \E m \in T : \A x \in m : m \ {x} \notin T
<1>1. \A s \in SUBSET S : IsFiniteSet(s)
  BY FS_Subset
<1>2. T \subseteq FiniteSubsetsOf(S)
  BY <1>1 DEF FiniteSubsetsOf
<1>3. IsWellFoundedOn(StrictSubsetOrdering(S), FiniteSubsetsOf(S))
  BY FS_StrictSubsetOrderingWellFounded
<1>4. PICK m \in T : \A y \in T : <<y, m>> \notin StrictSubsetOrdering(S)
  BY <1>2, <1>3, WFMin
<1>5. ASSUME NEW x \in m, m \ {x} \in T
      PROVE  FALSE
  <2>1. <<m \ {x}, m>> \in (SUBSET S) \X (SUBSET S)
    BY <1>5
  <2>2. m \ {x} \subseteq m /\ m \ {x} # m
    BY <1>5
  <2>3. <<m \ {x}, m>> \in StrictSubsetOrdering(S)
    BY <2>1, <2>2 DEF StrictSubsetOrdering
  <2>4. QED
    BY <1>4, <1>5, <2>3
<1>6. QED
  BY <1>5

(* A strict order has a smallest and a greatest element in a finite set.    *)
LEMMA OrderHasMinimum ==
  ASSUME NEW S, IsFiniteSet(S), S # {}, NEW O,
         \A x \in S : <<x, x>> \notin O,
         \A x, y, z \in S : <<x, y>> \in O /\ <<y, z>> \in O => <<x, z>> \in O
  PROVE  \E m \in S : \A x \in S : <<m, x>> \notin O
<1>. DEFINE Unbounded(s) == \A m \in s : \E x \in s : <<m, x>> \in O
            T == {s \in SUBSET S : s # {} /\ Unbounded(s)}
<1>1. SUFFICES ASSUME S \in T
               PROVE  FALSE
  OBVIOUS
<1>2. PICK s \in T : \A x \in s : s \ {x} \notin T
  BY <1>1, SmallestSubset
<1>3. PICK x : x \in s
  BY <1>2
<1>4. CASE s \ {x} = {}
  <2>1. PICK y \in s : <<x, y>> \in O
    BY <1>2, <1>3
  <2>2. y = x
    BY <1>4, <2>1
  <2>3. QED
    BY <1>2, <1>3, <2>1, <2>2
<1>5. CASE s \ {x} # {}
  <2>1. ~ Unbounded(s \ {x})
    BY <1>2, <1>3, <1>5
  <2>2. PICK m \in s \ {x} : \A y \in s \ {x} : <<m, y>> \notin O
    BY <2>1
  <2>3. <<m, x>> \in O
    BY <1>2, <2>2
  <2>4. PICK y \in s : <<x, y>> \in O
    BY <1>2, <1>3
  <2>5. y # x
    BY <1>2, <1>3, <2>4
  <2>6. <<m, y>> \in O
    BY <1>2, <1>3, <2>2, <2>3, <2>4
  <2>7. QED
    BY <2>2, <2>4, <2>5, <2>6
<1>6. QED
  BY <1>4, <1>5

(* What Survivors asks of a set K of kept records.                          *)
Kernel(K, R) ==
  /\ K \subseteq R
  /\ \A r \in R : r \in K <=> ~ \E k \in K : Better(k, r) /\ StrongDuplicate(k, r)

(* The best and the worst of some records.                                  *)
LEMMA BestAndWorst ==
  ASSUME NEW R, IsFiniteSet(R), R # {}, Rankable(R)
  PROVE  /\ \E m \in R : \A r \in R : ~ Better(m, r)
         /\ \E m \in R : \A r \in R : ~ Better(r, m)
<1>1. PICK O : O = {e \in R \X R : Better(e[1], e[2])}
  OBVIOUS
<1>2. PICK U : U = {e \in R \X R : Better(e[2], e[1])}
  OBVIOUS
<1>3. \A x, y \in R : (<<x, y>> \in O <=> Better(x, y)) /\ (<<x, y>> \in U <=> Better(y, x))
  BY <1>1, <1>2
<1>4. \A x \in R : <<x, x>> \notin O /\ <<x, x>> \notin U
  BY <1>3, BetterIsStrict
<1>5. \A x, y, z \in R : /\ <<x, y>> \in O /\ <<y, z>> \in O => <<x, z>> \in O
                         /\ <<x, y>> \in U /\ <<y, z>> \in U => <<x, z>> \in U
  BY <1>3, BetterIsStrict
<1>6. \E m \in R : \A r \in R : <<m, r>> \notin O
  BY <1>4, <1>5, OrderHasMinimum
<1>7. \E m \in R : \A r \in R : <<m, r>> \notin U
  BY <1>4, <1>5, OrderHasMinimum
<1>8. QED
  BY <1>3, <1>6, <1>7

(* Any finite set of records has a kernel: that of all but its worst, with  *)
(* the worst added unless one kept duplicates it.                           *)
LEMMA KernelExists ==
  ASSUME NEW R, IsFiniteSet(R), Rankable(R)
  PROVE  \E K : Kernel(K, R)
<1>. DEFINE T == {S \in SUBSET R : ~ \E K : Kernel(K, S)}
<1>1. SUFFICES ASSUME R \in T
               PROVE  FALSE
  OBVIOUS
<1>2. PICK S \in T : \A x \in S : S \ {x} \notin T
  BY <1>1, SmallestSubset
<1>3. S \subseteq R /\ ~ \E K : Kernel(K, S)
  BY <1>2
<1>4. S # {}
  <2>1. Kernel({}, {})
    BY DEF Kernel
  <2>2. QED
    BY <1>3, <2>1
<1>5. IsFiniteSet(S) /\ Rankable(S)
  BY <1>3, FS_Subset DEF Rankable
<1>6. PICK m \in S : \A r \in S : ~ Better(m, r)
  BY <1>4, <1>5, BestAndWorst
<1>7. PICK K : Kernel(K, S \ {m})
  BY <1>2, <1>3
<1>8. CASE \E k \in K : Better(k, m) /\ StrongDuplicate(k, m)
  <2>1. Kernel(K, S)
    BY <1>7, <1>8 DEF Kernel
  <2>2. QED
    BY <1>3, <2>1
<1>9. CASE ~ \E k \in K : Better(k, m) /\ StrongDuplicate(k, m)
  <2>1. Kernel(K \cup {m}, S)
    BY <1>6, <1>7, <1>9 DEF Kernel
  <2>2. QED
    BY <1>3, <2>1
<1>10. QED
  BY <1>8, <1>9

(* There is only one: two that differ would differ at a best record, kept   *)
(* by one and, for the sake of a better one, lost by the other.             *)
LEMMA KernelIsUnique ==
  ASSUME NEW R, IsFiniteSet(R), Rankable(R), NEW K, Kernel(K, R), NEW L, Kernel(L, R)
  PROVE  K = L
<1>1. PICK D : D = {r \in R : ~ (r \in K <=> r \in L)}
  OBVIOUS
<1>2. SUFFICES ASSUME D # {}
               PROVE  FALSE
  BY <1>1 DEF Kernel
<1>3. IsFiniteSet(D) /\ Rankable(D)
  BY <1>1, FS_Subset DEF Rankable
<1>4. PICK r \in D : \A k \in D : ~ Better(k, r)
  BY <1>2, <1>3, BestAndWorst
<1>5. CASE r \in K
  <2>1. PICK k \in L : Better(k, r) /\ StrongDuplicate(k, r)
    BY <1>1, <1>4, <1>5 DEF Kernel
  <2>2. k \in D
    BY <1>1, <1>4, <1>5, <2>1 DEF Kernel
  <2>3. QED
    BY <1>4, <2>1, <2>2
<1>6. CASE r \notin K
  <2>1. PICK k \in K : Better(k, r) /\ StrongDuplicate(k, r)
    BY <1>1, <1>4, <1>6 DEF Kernel
  <2>2. k \in D
    BY <1>1, <1>4, <1>6, <2>1 DEF Kernel
  <2>3. QED
    BY <1>4, <2>1, <2>2
<1>7. QED
  BY <1>5, <1>6

(* What a prune keeps of finitely many records is determined: a record is   *)
(* lost exactly when a better one that is kept duplicates it, and no other  *)
(* set of records has that property.                                        *)
THEOREM SurvivorsDefined ==
  ASSUME NEW R, IsFiniteSet(R), Rankable(R)
  PROVE  /\ Kernel(Survivors(R), R)
         /\ \A K : Kernel(K, R) => K = Survivors(R)
<1>1. \E K \in SUBSET R :
        \A r \in R : r \in K <=> ~ \E k \in K : Better(k, r) /\ StrongDuplicate(k, r)
  BY KernelExists DEF Kernel
<1>2. Kernel(Survivors(R), R)
  BY <1>1 DEF Survivors, Kernel
<1>3. QED
  BY <1>2, KernelIsUnique
=============================================================================
