----------------------------- MODULE YamlProofs -----------------------------
(***************************************************************************)
(* Theorems about YamlRoundTrip, for every document, text, width, key      *)
(* length and reach: what the scanner and the parser, which share a queue  *)
(* of tokens and nothing else, may rely on; that the parser and the        *)
(* composer are inside the same collections; and what the serializer and   *)
(* the emitter owe the reader: every node, anchors that name one node, and *)
(* no tag.                                                                 *)
(***************************************************************************)
EXTENDS YamlRoundTrip, FiniteSetTheorems, SequenceTheorems, TLAPS

-----------------------------------------------------------------------------
(* Sequences of anything: tokens, columns and states.                       *)

Sequence(q) == \E S : q \in Seq(S)

LEMMA LengthIs ==
  ASSUME NEW q, Sequence(q)
  PROVE  Len(q) \in Nat /\ (q = <<>> <=> Len(q) = 0)
<1>1. PICK S : q \in Seq(S)
  BY DEF Sequence
<1>2. QED
  BY <1>1, LenProperties, EmptySeq

(* Two sequences of anything are sequences over one set.                    *)
LEMMA CommonSet ==
  ASSUME NEW q, NEW r, Sequence(q), Sequence(r), NEW e
  PROVE  \E S : q \in Seq(S) /\ r \in Seq(S) /\ e \in S
<1>1. PICK T : q \in Seq(T)
  BY DEF Sequence
<1>2. PICK U : r \in Seq(U)
  BY DEF Sequence
<1>3. q \in Seq(T \cup U \cup {e}) /\ r \in Seq(T \cup U \cup {e})
  BY <1>1, <1>2, SeqMonotonic
<1>4. QED
  BY <1>3

LEMMA AppendIs ==
  ASSUME NEW q, Sequence(q), NEW e
  PROVE  /\ Sequence(Append(q, e))
         /\ Len(Append(q, e)) = Len(q) + 1
         /\ \A i \in 1..Len(q) : Append(q, e)[i] = q[i]
         /\ Append(q, e)[Len(q) + 1] = e
<1>1. PICK S : q \in Seq(S) /\ e \in S
  BY CommonSet
<1>2. QED
  BY <1>1, AppendProperties DEF Sequence

LEMMA ConcatIs ==
  ASSUME NEW q, NEW r, Sequence(q), Sequence(r)
  PROVE  /\ Sequence(q \o r)
         /\ Len(q \o r) = Len(q) + Len(r)
         /\ \A i \in 1..Len(q) : (q \o r)[i] = q[i]
         /\ \A i \in 1..Len(r) : (q \o r)[Len(q) + i] = r[i]
<1>1. PICK S : q \in Seq(S) /\ r \in Seq(S)
  BY CommonSet
<1>2. Len(q) \in Nat /\ Len(r) \in Nat
  BY LengthIs
<1>3. /\ q \o r \in Seq(S)
      /\ Len(q \o r) = Len(q) + Len(r)
      /\ \A i \in 1..Len(q) + Len(r) :
           (q \o r)[i] = IF i <= Len(q) THEN q[i] ELSE r[i - Len(q)]
  BY <1>1, ConcatProperties
<1>4. QED
  BY <1>2, <1>3 DEF Sequence

LEMMA PartIs ==
  ASSUME NEW q, Sequence(q), NEW m \in 1..(Len(q) + 1), NEW n \in (m - 1)..Len(q)
  PROVE  /\ Sequence(SubSeq(q, m, n))
         /\ Len(SubSeq(q, m, n)) = n - m + 1
         /\ \A i \in 1..(n - m + 1) : SubSeq(q, m, n)[i] = q[m + i - 1]
<1>1. PICK S : q \in Seq(S)
  BY DEF Sequence
<1>2. Len(q) \in Nat
  BY LengthIs
<1>3. \A i \in m..n : q[i] \in S
  BY <1>1, <1>2, ElementOfSeq
<1>4. /\ SubSeq(q, m, n) \in Seq(S)
      /\ Len(SubSeq(q, m, n)) = IF m <= n THEN n - m + 1 ELSE 0
      /\ \A i \in 1..(n - m + 1) : SubSeq(q, m, n)[i] = q[m + i - 1]
  BY <1>2, <1>3, SubSeqProperties
<1>5. QED
  BY <1>2, <1>4 DEF Sequence

LEMMA TailIs ==
  ASSUME NEW q, Sequence(q), q # <<>>
  PROVE  /\ Head(q) = q[1]
         /\ Sequence(Tail(q))
         /\ Len(q) - 1 \in Nat /\ Len(Tail(q)) = Len(q) - 1
         /\ \A i \in 1..(Len(q) - 1) : Tail(q)[i] = q[i + 1]
<1>1. PICK S : q \in Seq(S)
  BY DEF Sequence
<1>2. Len(q) \in Nat \ {0}
  BY LengthIs
<1>3. Tail(q) = SubSeq(q, 2, Len(q))
  BY <1>1, TailIsSubSeq
<1>4. /\ Sequence(SubSeq(q, 2, Len(q)))
      /\ Len(SubSeq(q, 2, Len(q))) = Len(q) - 2 + 1
      /\ \A i \in 1..(Len(q) - 2 + 1) : SubSeq(q, 2, Len(q))[i] = q[2 + i - 1]
  <2>1. 2 \in 1..(Len(q) + 1) /\ Len(q) \in (2 - 1)..Len(q)
    BY <1>2
  <2>2. QED
    BY <2>1, PartIs
<1>5. Len(q) - 2 + 1 = Len(q) - 1 /\ \A i \in 1..(Len(q) - 1) : 2 + i - 1 = i + 1
  BY <1>2
<1>6. Head(q) = q[1]
  BY <1>1, <1>2
<1>7. ASSUME NEW i \in 1..(Len(q) - 1)
      PROVE  Tail(q)[i] = q[i + 1]
  <2>1. i \in 1..(Len(q) - 2 + 1) /\ 2 + i - 1 = i + 1
    BY <1>5
  <2>2. SubSeq(q, 2, Len(q))[i] = q[2 + i - 1]
    BY <1>4, <2>1
  <2>3. QED
    BY <1>3, <2>1, <2>2
<1>8. Sequence(Tail(q)) /\ Len(Tail(q)) = Len(q) - 1
  BY <1>3, <1>4, <1>5
<1>9. QED
  BY <1>2, <1>6, <1>7, <1>8

LEMMA InsertAtIs ==
  ASSUME NEW q, Sequence(q), NEW at \in 1..(Len(q) + 1), NEW e
  PROVE  /\ Sequence(InsertAt(q, at, e))
         /\ Len(InsertAt(q, at, e)) = Len(q) + 1
         /\ \A i \in 1..(at - 1) : InsertAt(q, at, e)[i] = q[i]
         /\ InsertAt(q, at, e)[at] = e
         /\ \A i \in at..Len(q) : InsertAt(q, at, e)[i + 1] = q[i]
<1>. DEFINE before == SubSeq(q, 1, at - 1)
            behind == SubSeq(q, at, Len(q))
            front  == before \o <<e>>
<1>1. Len(q) \in Nat
  BY LengthIs
<1>2. /\ Sequence(before) /\ Len(before) = at - 1
      /\ \A i \in 1..(at - 1) : before[i] = q[i]
  <2>1. /\ Sequence(before) /\ Len(before) = (at - 1) - 1 + 1
        /\ \A i \in 1..((at - 1) - 1 + 1) : before[i] = q[1 + i - 1]
    BY <1>1, PartIs
  <2>2. QED
    BY <1>1, <2>1
<1>3. /\ Sequence(behind) /\ Len(behind) = Len(q) - at + 1
      /\ \A i \in 1..(Len(q) - at + 1) : behind[i] = q[at + i - 1]
  BY <1>1, PartIs
<1>4. Sequence(<<e>>) /\ Len(<<e>>) = 1 /\ <<e>>[1] = e
  <2>1. <<e>> \in Seq({e})
    OBVIOUS
  <2>2. QED
    BY <2>1 DEF Sequence
<1>. HIDE DEF before, behind
<1>5. /\ Sequence(front) /\ Len(front) = at
      /\ \A i \in 1..(at - 1) : front[i] = q[i]
      /\ front[at] = e
  <2>1. /\ Sequence(front) /\ Len(front) = Len(before) + 1
        /\ \A i \in 1..Len(before) : front[i] = before[i]
        /\ \A i \in 1..1 : front[Len(before) + i] = <<e>>[i]
    BY <1>2, <1>4, ConcatIs
  <2>2. QED
    BY <1>1, <1>2, <1>4, <2>1
<1>. HIDE DEF front
<1>6. /\ Sequence(front \o behind) /\ Len(front \o behind) = Len(front) + Len(behind)
      /\ \A i \in 1..Len(front) : (front \o behind)[i] = front[i]
      /\ \A i \in 1..Len(behind) : (front \o behind)[Len(front) + i] = behind[i]
  BY <1>3, <1>5, ConcatIs
<1>7. InsertAt(q, at, e) = front \o behind
  BY DEF InsertAt, front, before, behind
<1>8. ASSUME NEW i \in at..Len(q)
      PROVE  (front \o behind)[i + 1] = q[i]
  <2>1. i - at + 1 \in 1..Len(behind) /\ Len(front) + (i - at + 1) = i + 1
    BY <1>1, <1>3, <1>5
  <2>2. (front \o behind)[i + 1] = behind[i - at + 1]
    BY <1>6, <2>1
  <2>3. at + (i - at + 1) - 1 = i /\ i - at + 1 \in 1..(Len(q) - at + 1)
    BY <1>1
  <2>4. QED
    BY <1>3, <2>2, <2>3
<1>9. QED
  BY <1>1, <1>3, <1>5, <1>6, <1>7, <1>8

(* A pile of one thing.                                                     *)
LEMMA TimesIs ==
  ASSUME NEW n \in Nat, NEW e
  PROVE  /\ Sequence(Times(n, e)) /\ Len(Times(n, e)) = n
         /\ \A i \in 1..n : Times(n, e)[i] = e
<1>1. Times(n, e) \in [1..n -> {e}]
  BY DEF Times
<1>2. Times(n, e) \in Seq({e})
  BY <1>1, SeqDef
<1>3. Len(Times(n, e)) = n
  BY <1>1, <1>2, LenProperties
<1>4. QED
  BY <1>1, <1>2, <1>3 DEF Sequence, Times

-----------------------------------------------------------------------------
(* Counting.  A is where a sequence has what is counted, B where the        *)
(* sequence has it that one thing more was put into, at a place of its own. *)

LEMMA OneMore ==
  ASSUME NEW n \in Nat, NEW at \in 1..(n + 1),
         NEW A \in SUBSET (1..n), NEW B \in SUBSET (1..(n + 1)),
         \A i \in 1..(at - 1) : i \in A <=> i \in B,
         \A i \in at..n : i \in A <=> i + 1 \in B
  PROVE  /\ Cardinality(A) \in Nat
         /\ Cardinality(B) = Cardinality(A) + IF at \in B THEN 1 ELSE 0
<1>. DEFINE f == [i \in A |-> IF i < at THEN i ELSE i + 1]
            C == B \ {at}
<1>1. IsFiniteSet(A)
  <2>1. IsFiniteSet(1..n)
    BY FS_Interval
  <2>2. QED
    BY <2>1, FS_Subset
<1>2. f \in [A -> C]
  <2>1. ASSUME NEW i \in A
        PROVE  f[i] \in C
    <3>1. CASE i < at
      <4>1. i \in 1..(at - 1) /\ f[i] = i
        BY <3>1
      <4>2. QED
        BY <2>1, <4>1
    <3>2. CASE ~ (i < at)
      <4>1. i \in at..n /\ f[i] = i + 1
        BY <3>2
      <4>2. QED
        BY <2>1, <4>1
    <3>3. QED
      BY <3>1, <3>2
  <2>2. QED
    BY <2>1
<1>3. \A i, j \in A : f[i] = f[j] => i = j
  OBVIOUS
<1>4. ASSUME NEW j \in C
      PROVE  \E i \in A : f[i] = j
  <2>1. CASE j < at
    <3>1. j \in 1..(at - 1)
      BY <2>1
    <3>2. j \in A
      BY <1>4, <3>1
    <3>3. QED
      BY <2>1, <3>2
  <2>2. CASE ~ (j < at)
    <3>1. j - 1 \in at..n /\ (j - 1) + 1 = j
      BY <1>4, <2>2
    <3>2. j - 1 \in A
      BY <1>4, <3>1
    <3>3. f[j - 1] = j
      BY <3>1, <3>2
    <3>4. QED
      BY <3>2, <3>3
  <2>3. QED
    BY <2>1, <2>2
<1>5. f \in Bijection(A, C)
  <2>. HIDE DEF f
  <2>1. QED
    BY <1>2, <1>3, <1>4, Zenon DEF Bijection, Injection, Surjection, IsInjective
<1>6. IsFiniteSet(C) /\ Cardinality(C) = Cardinality(A)
  <2>1. ExistsBijection(A, C)
    BY <1>5 DEF ExistsBijection
  <2>2. QED
    BY <1>1, <2>1, FS_Bijection
<1>7. Cardinality(A) \in Nat
  BY <1>1, FS_CardinalityType
<1>8. CASE at \in B
  <2>1. B = C \cup {at} /\ at \notin C
    BY <1>8
  <2>. HIDE DEF C
  <2>2. Cardinality(C \cup {at}) = Cardinality(C) + 1
    BY <1>6, <2>1, FS_AddElement
  <2>3. QED
    BY <1>6, <1>7, <1>8, <2>1, <2>2
<1>9. CASE at \notin B
  <2>1. B = C
    BY <1>9
  <2>2. QED
    BY <1>6, <1>7, <1>9, <2>1
<1>10. QED
  BY <1>7, <1>8, <1>9

(* A pile of n more of them behind the end, all of which count.             *)
LEMMA ManyMore ==
  ASSUME NEW m \in Nat, NEW n \in Nat, NEW A \in SUBSET (1..m)
  PROVE  Cardinality(A \cup ((m + 1)..(m + n))) = Cardinality(A) + n
<1>. DEFINE P == (m + 1)..(m + n)
<1>1. IsFiniteSet(A) /\ Cardinality(A) \in Nat
  <2>1. IsFiniteSet(1..m)
    BY FS_Interval
  <2>2. QED
    BY <2>1, FS_Subset, FS_CardinalityType
<1>2. IsFiniteSet(P) /\ Cardinality(P) = n
  <2>1. m + 1 \in Int /\ m + n \in Int
    OBVIOUS
  <2>2. IsFiniteSet(P) /\ Cardinality(P) = IF m + 1 > m + n THEN 0 ELSE (m + n) - (m + 1) + 1
    BY <2>1, FS_Interval
  <2>3. QED
    BY <2>2
<1>3. A \cap P = {}
  OBVIOUS
<1>4. Cardinality({}) = 0
  BY FS_EmptySet
<1>. HIDE DEF P
<1>5. Cardinality(A \cup P) = Cardinality(A) + Cardinality(P) - Cardinality(A \cap P)
  BY <1>1, <1>2, FS_Union
<1>6. Cardinality(A \cap P) = 0
  BY <1>3, <1>4
<1>7. Cardinality(A \cup P) = Cardinality(A) + n
  BY <1>1, <1>2, <1>5, <1>6
<1>8. QED
  BY <1>7 DEF P

(* Count is Queued for any queue of tokens.                                 *)
Spots(q, ids) == {i \in 1..Len(q) : q[i].id \in ids}
Count(q, ids) == Cardinality(Spots(q, ids))

LEMMA CountInserted ==
  ASSUME NEW q, Sequence(q), NEW at \in 1..(Len(q) + 1), NEW token, NEW ids
  PROVE  /\ Count(q, ids) \in Nat
         /\ Count(InsertAt(q, at, token), ids) =
              Count(q, ids) + IF token.id \in ids THEN 1 ELSE 0
<1>. DEFINE r == InsertAt(q, at, token)
            A == Spots(q, ids)
            B == Spots(r, ids)
            n == Len(q)
<1>1. n \in Nat /\ at \in 1..(n + 1)
  BY LengthIs
<1>2. /\ Len(r) = n + 1
      /\ \A i \in 1..(at - 1) : r[i] = q[i]
      /\ r[at] = token
      /\ \A i \in at..n : r[i + 1] = q[i]
  BY InsertAtIs
<1>. HIDE DEF r
<1>3. A \in SUBSET (1..n) /\ B \in SUBSET (1..(n + 1))
  BY <1>2 DEF Spots
<1>4. \A i \in 1..(at - 1) : i \in A <=> i \in B
  BY <1>1, <1>2 DEF Spots
<1>5. \A i \in at..n : i \in A <=> i + 1 \in B
  BY <1>1, <1>2 DEF Spots
<1>6. at \in B <=> token.id \in ids
  BY <1>1, <1>2 DEF Spots
<1>. HIDE DEF A, B, n
<1>7. /\ Cardinality(A) \in Nat
      /\ Cardinality(B) = Cardinality(A) + IF at \in B THEN 1 ELSE 0
  <2>1. PICK k : k = at
    OBVIOUS
  <2>2. k \in 1..(n + 1)
    BY <1>1, <2>1
  <2>3. /\ \A i \in 1..(k - 1) : i \in A <=> i \in B
        /\ \A i \in k..n : i \in A <=> i + 1 \in B
    BY <1>4, <1>5, <2>1
  <2>4. /\ Cardinality(A) \in Nat
        /\ Cardinality(B) = Cardinality(A) + IF k \in B THEN 1 ELSE 0
    BY <1>1, <1>3, <2>2, <2>3, OneMore, SMTT(60)
  <2>5. QED
    BY <2>1, <2>4
<1>8. QED
  BY <1>6, <1>7 DEF Count, A, B, r

LEMMA CountAppended ==
  ASSUME NEW q, Sequence(q), NEW token, NEW ids
  PROVE  /\ Count(q, ids) \in Nat
         /\ Count(Append(q, token), ids) =
              Count(q, ids) + IF token.id \in ids THEN 1 ELSE 0
<1>. DEFINE r == Append(q, token)
            A == Spots(q, ids)
            B == Spots(r, ids)
            n == Len(q)
<1>1. n \in Nat /\ n + 1 \in 1..(n + 1)
  BY LengthIs
<1>2. /\ Len(r) = n + 1
      /\ \A i \in 1..n : r[i] = q[i]
      /\ r[n + 1] = token
  BY AppendIs
<1>. HIDE DEF r
<1>3. A \in SUBSET (1..n) /\ B \in SUBSET (1..(n + 1))
  BY <1>2 DEF Spots
<1>4. \A i \in 1..((n + 1) - 1) : i \in A <=> i \in B
  BY <1>1, <1>2 DEF Spots
<1>5. \A i \in (n + 1)..n : i \in A <=> i + 1 \in B
  BY <1>1
<1>6. n + 1 \in B <=> token.id \in ids
  BY <1>1, <1>2 DEF Spots
<1>. HIDE DEF A, B, n
<1>7. /\ Cardinality(A) \in Nat
      /\ Cardinality(B) = Cardinality(A) + IF n + 1 \in B THEN 1 ELSE 0
  BY <1>1, <1>3, <1>4, <1>5, OneMore
<1>8. QED
  BY <1>6, <1>7 DEF Count, A, B, r

LEMMA CountTaken ==
  ASSUME NEW q, Sequence(q), q # <<>>, NEW ids
  PROVE  /\ Count(q, ids) \in Nat
         /\ Count(Tail(q), ids) \in Nat
         /\ Count(q, ids) =
              Count(Tail(q), ids) + IF Head(q).id \in ids THEN 1 ELSE 0
<1>. DEFINE r == Tail(q)
            A == Spots(r, ids)
            B == Spots(q, ids)
            n == Len(q) - 1
<1>1. /\ Head(q) = q[1] /\ n \in Nat /\ Len(r) = n /\ Len(q) = n + 1
      /\ \A i \in 1..n : r[i] = q[i + 1]
  <2>1. /\ Head(q) = q[1] /\ n \in Nat /\ Len(r) = n
        /\ \A i \in 1..n : r[i] = q[i + 1]
    BY TailIs
  <2>2. Len(q) \in Nat
    BY LengthIs
  <2>3. QED
    BY <2>1, <2>2
<1>. HIDE DEF r, n
<1>2. A \in SUBSET (1..n) /\ B \in SUBSET (1..(n + 1))
  BY <1>1 DEF Spots
<1>3. \A i \in 1..(1 - 1) : i \in A <=> i \in B
  OBVIOUS
<1>4. \A i \in 1..n : i \in A <=> i + 1 \in B
  BY <1>1 DEF Spots
<1>5. 1 \in B <=> Head(q).id \in ids
  BY <1>1 DEF Spots
<1>. HIDE DEF A, B
<1>6. /\ Cardinality(A) \in Nat
      /\ Cardinality(B) = Cardinality(A) + IF 1 \in B THEN 1 ELSE 0
  <2>1. PICK at : at = 1
    OBVIOUS
  <2>2. n \in Nat /\ at \in 1..(n + 1)
    BY <1>1, <2>1
  <2>3. /\ \A i \in 1..(at - 1) : i \in A <=> i \in B
        /\ \A i \in at..n : i \in A <=> i + 1 \in B
    BY <1>3, <1>4, <2>1
  <2>4. QED
    BY <1>2, <2>1, <2>2, <2>3, OneMore
<1>7. QED
  BY <1>5, <1>6 DEF Count, A, B, r

LEMMA CountPiled ==
  ASSUME NEW q, Sequence(q), NEW n \in Nat, NEW token, NEW ids
  PROVE  Count(q \o Times(n, token), ids) =
           Count(q, ids) + IF token.id \in ids THEN n ELSE 0
<1>. DEFINE r == q \o Times(n, token)
            A == Spots(q, ids)
            B == Spots(r, ids)
            m == Len(q)
<1>1. m \in Nat
  BY LengthIs
<1>2. /\ Len(r) = m + n
      /\ \A i \in 1..m : r[i] = q[i]
      /\ \A i \in 1..n : r[m + i] = token
  BY ConcatIs, TimesIs
<1>. HIDE DEF r
<1>3. \A i \in (m + 1)..(m + n) : r[i] = token
  <2>1. \A i \in (m + 1)..(m + n) : i - m \in 1..n /\ m + (i - m) = i
    BY <1>1
  <2>2. QED
    BY <1>2, <2>1
<1>4. A \in SUBSET (1..m) /\ Cardinality(A) \in Nat
  BY CountAppended DEF Count, Spots
<1>5. CASE token.id \in ids
  <2>1. B = A \cup ((m + 1)..(m + n))
    BY <1>1, <1>2, <1>3, <1>5 DEF Spots
  <2>2. QED
    BY <1>1, <1>4, <1>5, <2>1, ManyMore DEF Count, r
<1>6. CASE token.id \notin ids
  <2>1. B = A
    BY <1>1, <1>2, <1>3, <1>6 DEF Spots
  <2>2. QED
    BY <1>4, <1>6, <2>1 DEF Count, r
<1>7. QED
  BY <1>5, <1>6

-----------------------------------------------------------------------------
(* The scanner.  Its methods work on one record, in which each of them      *)
(* keeps the keys in the queue and the indents in step with the tokens that *)
(* tell the parser of them.                                                 *)

Fields == {"index", "done", "flow", "tokens", "taken", "indents", "allow",
           "keys", "ready", "error"}

Waiting(s) == \A k \in s.keys : k.token \in s.taken..(s.taken + Len(s.tokens))

Scanner(s) ==
  /\ DOMAIN s = Fields
  /\ Sequence(s.tokens)
  /\ Sequence(s.indents) /\ Len(s.indents) # 0
  /\ s.taken \in Nat
  /\ Waiting(s)

OpenIds == {"BLOCK-SEQUENCE-START", "BLOCK-MAPPING-START"}
CloseIds == {"BLOCK-END"}
Neutral(id) == id \notin OpenIds /\ id \notin CloseIds

(* The blocks the parser is in, as the indents and the queue have it.       *)
Balance(s) == Len(s.indents) - Count(s.tokens, OpenIds) + Count(s.tokens, CloseIds)

(* What every method does to the record.                                    *)
Keeps(s, t) ==
  /\ Scanner(t)
  /\ Balance(t) = Balance(s)
  /\ t.taken = s.taken /\ t.done = s.done

LEMMA BalanceIs ==
  ASSUME NEW s, Scanner(s)
  PROVE  /\ Len(s.indents) \in Nat /\ Len(s.indents) >= 1 /\ Len(s.tokens) \in Nat
         /\ \A ids : Count(s.tokens, ids) \in Nat
         /\ Balance(s) \in Int
<1>1. Len(s.indents) \in Nat /\ Len(s.tokens) \in Nat
  BY LengthIs DEF Scanner
<1>2. \A ids : Count(s.tokens, ids) \in Nat
  BY CountAppended DEF Scanner
<1>3. QED
  BY <1>1, <1>2 DEF Scanner, Balance

LEMMA KeepsIsTransitive ==
  ASSUME NEW s, NEW t, NEW u, Keeps(s, t), Keeps(t, u)
  PROVE  Keeps(s, u)
BY DEF Keeps

(* What leaves tokens and indents alone, and adds no key.                   *)
LEMMA QuietStep ==
  ASSUME NEW s, Scanner(s), NEW t,
         DOMAIN t = Fields, t.tokens = s.tokens, t.indents = s.indents,
         t.taken = s.taken, t.done = s.done, t.keys \subseteq s.keys
  PROVE  Keeps(s, t)
BY DEF Keeps, Scanner, Waiting, Balance

LEMMA RaiseKeeps ==
  ASSUME NEW s, Scanner(s), NEW bad
  PROVE  Keeps(s, Raise(s, bad)) /\ Raise(s, bad).keys = s.keys
<1>. DEFINE t == Raise(s, bad)
<1>1. /\ DOMAIN t = Fields /\ t.tokens = s.tokens /\ t.indents = s.indents
      /\ t.taken = s.taken /\ t.done = s.done /\ t.keys = s.keys
  BY DEF Raise, Scanner, Fields
<1>. HIDE DEF t
<1>2. Keeps(s, t)
  BY <1>1, QuietStep
<1>3. QED
  BY <1>1, <1>2 DEF t

LEMMA AllowKeeps ==
  ASSUME NEW s, Scanner(s), NEW b
  PROVE  Keeps(s, Allow(s, b))
<1>. DEFINE t == Allow(s, b)
<1>1. /\ DOMAIN t = Fields /\ t.tokens = s.tokens /\ t.indents = s.indents
      /\ t.taken = s.taken /\ t.done = s.done /\ t.keys = s.keys
  BY DEF Allow, Scanner, Fields
<1>. HIDE DEF t
<1>2. Keeps(s, t)
  BY <1>1, QuietStep
<1>3. QED
  BY <1>2 DEF t

LEMMA FewerKeysKeeps ==
  ASSUME NEW s, Scanner(s), NEW gone
  PROVE  Keeps(s, [s EXCEPT !.keys = @ \ gone])
<1>. DEFINE t == [s EXCEPT !.keys = @ \ gone]
<1>1. /\ DOMAIN t = Fields /\ t.tokens = s.tokens /\ t.indents = s.indents
      /\ t.taken = s.taken /\ t.done = s.done /\ t.keys = s.keys \ gone
  BY DEF Scanner, Fields
<1>. HIDE DEF t
<1>2. Keeps(s, t)
  BY <1>1, QuietStep
<1>3. QED
  BY <1>2 DEF t

LEMMA DropStaleKeysKeeps ==
  ASSUME NEW s, Scanner(s)
  PROVE  Keeps(s, DropStaleKeys(s))
<1>. DEFINE t == [s EXCEPT !.keys = @ \ StaleKeys(s)]
            bad == \E k \in StaleKeys(s) : k.required
<1>1. Keeps(s, t)
  BY FewerKeysKeeps
<1>2. DropStaleKeys(s) = Raise(t, bad)
  BY DEF DropStaleKeys
<1>. HIDE DEF t, bad
<1>3. Scanner(t)
  BY <1>1 DEF Keeps
<1>4. Keeps(t, Raise(t, bad))
  BY <1>3, RaiseKeeps
<1>5. QED
  BY <1>1, <1>2, <1>4, KeepsIsTransitive

LEMMA RemoveSimpleKeyKeeps ==
  ASSUME NEW s, Scanner(s)
  PROVE  Keeps(s, RemoveSimpleKey(s))
<1>. DEFINE t == [s EXCEPT !.keys = @ \ KeysHere(s)]
            bad == \E k \in KeysHere(s) : k.required
<1>1. Keeps(s, t)
  BY FewerKeysKeeps
<1>2. RemoveSimpleKey(s) = Raise(t, bad)
  BY DEF RemoveSimpleKey
<1>. HIDE DEF t, bad
<1>3. Scanner(t)
  BY <1>1 DEF Keeps
<1>4. Keeps(t, Raise(t, bad))
  BY <1>3, RaiseKeeps
<1>5. QED
  BY <1>1, <1>2, <1>4, KeepsIsTransitive

(* A new key stands where the next token will.                              *)
LEMMA SaveSimpleKeyKeeps ==
  ASSUME NEW s, Scanner(s)
  PROVE  Keeps(s, SaveSimpleKey(s))
<1>1. CASE ~ s.allow
  <2>1. SaveSimpleKey(s) = s
    BY <1>1 DEF SaveSimpleKey
  <2>2. QED
    BY <2>1 DEF Keeps
<1>2. CASE s.allow
  <2>. DEFINE key == [level |-> s.flow, token |-> s.taken + Len(s.tokens), index |-> s.index,
                      required |-> ~InFlow(s) /\ Last(s.indents) = ColumnOf(text, s.index)]
              r == RemoveSimpleKey(s)
              t == [r EXCEPT !.keys = @ \cup {key}]
  <2>1. SaveSimpleKey(s) = t
    BY <1>2 DEF SaveSimpleKey
  <2>2. key.token = s.taken + Len(s.tokens)
    OBVIOUS
  <2>. HIDE DEF key, r
  <2>3. Keeps(s, r) /\ r.tokens = s.tokens
    BY RemoveSimpleKeyKeeps DEF r, RemoveSimpleKey, Raise, Scanner, Fields
  <2>4. /\ DOMAIN t = Fields /\ t.tokens = r.tokens /\ t.indents = r.indents
        /\ t.taken = r.taken /\ t.done = r.done /\ t.keys = r.keys \cup {key}
    BY <2>3 DEF Keeps, Scanner, Fields
  <2>. HIDE DEF t
  <2>5. Waiting(t)
    <3>1. s.taken \in Nat /\ Len(s.tokens) \in Nat
      BY BalanceIs DEF Scanner
    <3>2. key.token \in t.taken..(t.taken + Len(t.tokens))
      BY <2>2, <2>3, <2>4, <3>1 DEF Keeps
    <3>3. QED
      BY <2>3, <2>4, <3>2 DEF Waiting, Keeps, Scanner
  <2>6. QED
    BY <2>1, <2>3, <2>4, <2>5 DEF Keeps, Scanner, Balance
<1>3. QED
  BY <1>1, <1>2

(* A token that opens and closes nothing, at the end of the queue           *)
LEMMA AppendStep ==
  ASSUME NEW s, Scanner(s), NEW t, NEW token, Neutral(token.id),
         DOMAIN t = Fields, t.tokens = Append(s.tokens, token), t.indents = s.indents,
         t.taken = s.taken, t.done = s.done, t.keys \subseteq s.keys
  PROVE  Keeps(s, t)
<1>1. /\ Sequence(t.tokens) /\ Len(t.tokens) = Len(s.tokens) + 1
  BY AppendIs DEF Scanner
<1>2. /\ Count(t.tokens, OpenIds) = Count(s.tokens, OpenIds)
      /\ Count(t.tokens, CloseIds) = Count(s.tokens, CloseIds)
  BY CountAppended DEF Scanner, Neutral
<1>3. Waiting(t)
  BY <1>1, BalanceIs DEF Scanner, Waiting
<1>4. QED
  BY <1>1, <1>2, <1>3 DEF Keeps, Scanner, Balance

(* and where a key stands.                                                  *)
LEMMA InsertStep ==
  ASSUME NEW s, Scanner(s), NEW t, NEW token, Neutral(token.id),
         NEW at \in 1..(Len(s.tokens) + 1),
         DOMAIN t = Fields, t.tokens = InsertAt(s.tokens, at, token),
         t.indents = s.indents,
         t.taken = s.taken, t.done = s.done, t.keys \subseteq s.keys
  PROVE  Keeps(s, t)
<1>1. /\ Sequence(t.tokens) /\ Len(t.tokens) = Len(s.tokens) + 1
  BY InsertAtIs DEF Scanner
<1>2. /\ Count(t.tokens, OpenIds) = Count(s.tokens, OpenIds)
      /\ Count(t.tokens, CloseIds) = Count(s.tokens, CloseIds)
  BY CountInserted DEF Scanner, Neutral
<1>3. Waiting(t)
  BY <1>1, BalanceIs DEF Scanner, Waiting
<1>4. QED
  BY <1>1, <1>2, <1>3 DEF Keeps, Scanner, Balance

(* An indent comes with the token that opens its collection.                *)
LEMMA AddIndentKeeps ==
  ASSUME NEW s, Scanner(s), NEW column, NEW at \in 1..(Len(s.tokens) + 1),
         NEW start \in OpenIds
  PROVE  Keeps(s, AddIndent(s, column, at, start))
<1>1. CASE InFlow(s) \/ Last(s.indents) >= column
  <2>1. AddIndent(s, column, at, start) = s
    BY <1>1 DEF AddIndent
  <2>2. QED
    BY <2>1 DEF Keeps
<1>2. CASE ~ (InFlow(s) \/ Last(s.indents) >= column)
  <2>. DEFINE token == Token(start)
              t == [s EXCEPT !.indents = Append(@, column),
                             !.tokens = InsertAt(@, at, token)]
  <2>1. AddIndent(s, column, at, start) = t
    BY <1>2 DEF AddIndent
  <2>2. token.id = start /\ start \in OpenIds /\ start \notin CloseIds
    BY DEF Token, OpenIds, CloseIds
  <2>. HIDE DEF token
  <2>3. /\ DOMAIN t = Fields /\ t.tokens = InsertAt(s.tokens, at, token)
        /\ t.indents = Append(s.indents, column)
        /\ t.taken = s.taken /\ t.done = s.done /\ t.keys = s.keys
    BY DEF Scanner, Fields
  <2>. HIDE DEF t
  <2>4. /\ Sequence(t.tokens) /\ Len(t.tokens) = Len(s.tokens) + 1
    <3>. DEFINE longer == InsertAt(s.tokens, at, token)
    <3>1. Sequence(s.tokens)
      BY DEF Scanner
    <3>2. Sequence(longer) /\ Len(longer) = Len(s.tokens) + 1
      <4>1. PICK place : place = at
        OBVIOUS
      <4>2. PICK q : q = s.tokens
        OBVIOUS
      <4>3. Sequence(q) /\ place \in 1..(Len(q) + 1)
        BY <3>1, <4>1, <4>2
      <4>4. Sequence(InsertAt(q, place, token)) /\ Len(InsertAt(q, place, token)) = Len(q) + 1
        BY <4>3, InsertAtIs
      <4>5. QED
        BY <4>1, <4>2, <4>4
    <3>. HIDE DEF longer
    <3>3. t.tokens = longer
      BY <2>3 DEF longer
    <3>4. QED
      BY <3>2, <3>3
  <2>5. /\ Sequence(t.indents) /\ Len(t.indents) = Len(s.indents) + 1
    BY <2>3, AppendIs DEF Scanner
  <2>6. /\ Count(t.tokens, OpenIds) = Count(s.tokens, OpenIds) + 1
        /\ Count(t.tokens, CloseIds) = Count(s.tokens, CloseIds)
    BY <2>2, <2>3, CountInserted, BalanceIs DEF Scanner
  <2>7. Waiting(t)
    BY <2>3, <2>4, BalanceIs DEF Scanner, Waiting
  <2>8. Len(t.indents) # 0 /\ Balance(t) = Balance(s)
    <3>1. /\ Len(s.indents) \in Nat
          /\ Count(s.tokens, OpenIds) \in Nat /\ Count(s.tokens, CloseIds) \in Nat
      BY BalanceIs
    <3>2. QED
      BY <2>5, <2>6, <3>1 DEF Balance
  <2>9. QED
    BY <2>1, <2>3, <2>4, <2>5, <2>7, <2>8 DEF Keeps, Scanner
<1>3. QED
  BY <1>1, <1>2

(* A set of positions in a sequence has a first.                            *)
LEMMA FirstIs ==
  ASSUME NEW n \in Nat, NEW P \in SUBSET (1..n), P # {}
  PROVE  Min(P) \in P /\ \A i \in P : Min(P) <= i
<1>1. \E m \in P : \A i \in P : m <= i
  <2>. DEFINE R == StrictSubsetOrdering(1..n)
              T == {s \in SUBSET (1..n) : \E m \in P : s = 1..m}
  <2>1. IsFiniteSet(1..n)
    BY FS_Interval
  <2>2. \A s \in SUBSET (1..n) : IsFiniteSet(s)
    BY <2>1, FS_Subset
  <2>3. T \subseteq FiniteSubsetsOf(1..n)
    BY <2>2 DEF FiniteSubsetsOf
  <2>4. IsWellFoundedOn(R, FiniteSubsetsOf(1..n))
    BY <2>1, FS_StrictSubsetOrderingWellFounded
  <2>5. T # {}
    <3>1. PICK m \in P : TRUE
      OBVIOUS
    <3>2. 1..m \in T
      BY <3>1
    <3>3. QED
      BY <3>2
  <2>6. PICK t \in T : \A y \in T : <<y, t>> \notin R
    <3>. HIDE DEF R, T
    <3>1. QED
      BY <2>3, <2>4, <2>5, WFMin
  <2>7. PICK m \in P : t = 1..m
    BY <2>6
  <2>8. ASSUME NEW i \in P, i < m
        PROVE  FALSE
    <3>1. 1..i \in T
      OBVIOUS
    <3>2. 1..i \subseteq 1..m /\ m \in 1..m /\ m \notin 1..i
      BY <2>8
    <3>3. <<1..i, 1..m>> \in (SUBSET (1..n)) \X (SUBSET (1..n))
      BY <3>2
    <3>4. <<1..i, 1..m>> \in R
      BY <3>2, <3>3 DEF StrictSubsetOrdering
    <3>5. QED
      BY <2>6, <2>7, <3>1, <3>4
  <2>9. \A i \in P : m <= i
    BY <2>8
  <2>10. QED
    BY <2>9
<1>2. QED
  BY <1>1 DEF Min

(* Each indent that is unwound ends a block.                                *)
LEMMA UnwindIndentKeeps ==
  ASSUME NEW s, Scanner(s), NEW column
  PROVE  Keeps(s, UnwindIndent(s, column))
<1>1. CASE InFlow(s)
  <2>1. UnwindIndent(s, column) = s
    BY <1>1 DEF UnwindIndent
  <2>2. QED
    BY <2>1 DEF Keeps
<1>2. CASE ~ InFlow(s)
  <2>. DEFINE n == Len(s.indents)
              P == {m \in 1..n : \A i \in (m + 1)..n : s.indents[i] > column}
              kept == Min(P)
              token == Token("BLOCK-END")
              t == [s EXCEPT !.indents = SubSeq(@, 1, kept),
                             !.tokens = @ \o Times(n - kept, token)]
  <2>1. UnwindIndent(s, column) = t
    BY <1>2 DEF UnwindIndent
  <2>2. n \in Nat /\ n >= 1
    BY BalanceIs
  <2>3. kept \in 1..n
    <3>1. n \in P
      BY <2>2
    <3>2. P \in SUBSET (1..n) /\ P # {}
      BY <3>1
    <3>. HIDE DEF P, n
    <3>3. Min(P) \in P
      BY <2>2, <3>2, FirstIs
    <3>4. QED
      BY <3>2, <3>3
  <2>4. token.id \in CloseIds /\ token.id \notin OpenIds
    BY DEF Token, OpenIds, CloseIds
  <2>. HIDE DEF token, kept
  <2>5. /\ DOMAIN t = Fields /\ t.tokens = s.tokens \o Times(n - kept, token)
        /\ t.indents = SubSeq(s.indents, 1, kept)
        /\ t.taken = s.taken /\ t.done = s.done /\ t.keys = s.keys
    BY DEF Scanner, Fields
  <2>. HIDE DEF t
  <2>6. n - kept \in Nat
    BY <2>2, <2>3
  <2>7. Sequence(t.tokens) /\ Len(t.tokens) = Len(s.tokens) + (n - kept)
    <3>. DEFINE pile == Times(n - kept, token)
    <3>1. Sequence(pile) /\ Len(pile) = n - kept
      BY <2>6, TimesIs
    <3>2. Sequence(s.tokens) /\ t.tokens = s.tokens \o pile
      BY <2>5 DEF Scanner
    <3>. HIDE DEF pile
    <3>3. Sequence(s.tokens \o pile) /\ Len(s.tokens \o pile) = Len(s.tokens) + Len(pile)
      BY <3>1, <3>2, ConcatIs
    <3>4. QED
      BY <3>1, <3>2, <3>3, Zenon
  <2>8. /\ Count(t.tokens, OpenIds) = Count(s.tokens, OpenIds)
        /\ Count(t.tokens, CloseIds) = Count(s.tokens, CloseIds) + (n - kept)
    <3>1. \A ids : Count(s.tokens, ids) \in Nat
      BY BalanceIs
    <3>2. \A ids : Count(t.tokens, ids) =
                     Count(s.tokens, ids) + IF token.id \in ids THEN n - kept ELSE 0
      BY <2>5, <2>6, CountPiled DEF Scanner
    <3>3. QED
      BY <2>4, <3>1, <3>2
  <2>9. Sequence(t.indents) /\ Len(t.indents) = kept
    <3>1. 1 \in 1..(n + 1) /\ kept \in (1 - 1)..n
      BY <2>2, <2>3
    <3>2. Sequence(t.indents) /\ Len(t.indents) = kept - 1 + 1
      BY <2>5, <3>1, PartIs DEF Scanner
    <3>3. QED
      BY <2>3, <3>2
  <2>10. Waiting(t)
    <3>1. Len(s.tokens) \in Nat /\ s.taken \in Nat
      BY BalanceIs DEF Scanner
    <3>2. Len(t.tokens) \in Nat /\ Len(t.tokens) >= Len(s.tokens)
      BY <2>6, <2>7, <3>1
    <3>3. ASSUME NEW k \in s.keys
          PROVE  k.token \in s.taken..(s.taken + Len(t.tokens))
      <4>1. k.token \in s.taken..(s.taken + Len(s.tokens))
        BY DEF Scanner, Waiting
      <4>2. QED
        BY <3>1, <3>2, <4>1
    <3>4. QED
      BY <2>5, <3>3 DEF Waiting
  <2>11. Len(t.indents) # 0 /\ Balance(t) = Balance(s)
    <3>1. Count(s.tokens, OpenIds) \in Nat /\ Count(s.tokens, CloseIds) \in Nat
      BY BalanceIs
    <3>2. QED
      BY <2>2, <2>3, <2>8, <2>9, <3>1 DEF Balance
  <2>12. QED
    BY <2>1, <2>5, <2>7, <2>9, <2>10, <2>11 DEF Keeps, Scanner
<1>3. QED
  BY <1>1, <1>2

-----------------------------------------------------------------------------
(* The fetchers, each of which is a chain of these methods.                 *)

LEMMA AddKeeps ==
  ASSUME NEW s, Scanner(s), NEW id, Neutral(id), NEW n
  PROVE  Keeps(s, Add(s, id, n))
<1>. DEFINE t == Add(s, id, n)
            token == Token(id)
<1>1. token.id = id
  BY DEF Token
<1>. HIDE DEF token
<1>2. /\ DOMAIN t = Fields /\ t.tokens = Append(s.tokens, token) /\ t.indents = s.indents
      /\ t.taken = s.taken /\ t.done = s.done /\ t.keys = s.keys
  BY DEF Add, Scanner, Fields, token
<1>. HIDE DEF t
<1>3. Keeps(s, t)
  BY <1>1, <1>2, AppendStep
<1>4. QED
  BY <1>3 DEF t

LEMMA AddScalarKeeps ==
  ASSUME NEW s, Scanner(s), NEW r, NEW plain
  PROVE  Keeps(s, AddScalar(s, r, plain))
<1>. DEFINE t == AddScalar(s, r, plain)
            token == [id |-> "SCALAR", value |-> r.value, plain |-> plain]
<1>1. Neutral(token.id)
  BY DEF Neutral, OpenIds, CloseIds
<1>. HIDE DEF token
<1>2. /\ DOMAIN t = Fields /\ t.tokens = Append(s.tokens, token) /\ t.indents = s.indents
      /\ t.taken = s.taken /\ t.done = s.done /\ t.keys = s.keys
  BY DEF AddScalar, Scanner, Fields, token
<1>. HIDE DEF t
<1>3. Keeps(s, t)
  BY <1>1, <1>2, AppendStep
<1>4. QED
  BY <1>3 DEF t

(* The fields that fetching and giving tokens do not read.                  *)
LEMMA SettingKeeps ==
  ASSUME NEW s, Scanner(s), NEW x
  PROVE  /\ Keeps(s, [s EXCEPT !.index = x])
         /\ Keeps(s, [s EXCEPT !.flow = x])
         /\ Keeps(s, [s EXCEPT !.allow = x])
         /\ Keeps(s, [s EXCEPT !.ready = x])
<1>1. ASSUME NEW f \in {"index", "flow", "allow", "ready"}
      PROVE  Keeps(s, [s EXCEPT ![f] = x])
  <2>. DEFINE t == [s EXCEPT ![f] = x]
  <2>1. /\ DOMAIN t = Fields /\ t.tokens = s.tokens /\ t.indents = s.indents
        /\ t.taken = s.taken /\ t.done = s.done /\ t.keys = s.keys
    BY DEF Scanner, Fields
  <2>. HIDE DEF t
  <2>2. Keeps(s, t)
    BY <2>1, QuietStep
  <2>3. QED
    BY <2>2 DEF t
<1>2. QED
  BY <1>1

(* All of this, for a method called on what others have left of z.          *)
LEMMA Methods ==
  ASSUME NEW z, NEW s, Keeps(z, s)
  PROVE  /\ \A bad : Keeps(z, Raise(s, bad))
         /\ \A b : Keeps(z, Allow(s, b))
         /\ Keeps(z, DropStaleKeys(s))
         /\ Keeps(z, RemoveSimpleKey(s))
         /\ Keeps(z, SaveSimpleKey(s))
         /\ \A column : Keeps(z, UnwindIndent(s, column))
         /\ \A id, n : Neutral(id) => Keeps(z, Add(s, id, n))
         /\ \A r, plain : Keeps(z, AddScalar(s, r, plain))
         /\ \A x : Keeps(z, [s EXCEPT !.flow = x]) /\ Keeps(z, [s EXCEPT !.ready = x])
         /\ \A start \in OpenIds : Keeps(z, Begin(s, start))
<1>1. Scanner(s)
  BY DEF Keeps
<1>2. \A t : Keeps(s, t) => Keeps(z, t)
  BY KeepsIsTransitive
<1>3. ASSUME NEW start \in OpenIds
      PROVE  Keeps(s, Begin(s, start))
  <2>. DEFINE t == Raise(s, ~InFlow(s) /\ ~s.allow)
  <2>1. Keeps(s, t) /\ Scanner(t) /\ t.tokens = s.tokens
    BY <1>1, RaiseKeeps DEF Keeps, Raise, Scanner, Fields
  <2>2. Begin(s, start) = AddIndent(t, ColumnOf(text, s.index), Len(s.tokens) + 1, start)
    BY DEF Begin
  <2>. HIDE DEF t
  <2>3. Len(s.tokens) + 1 \in 1..(Len(t.tokens) + 1)
    BY <1>1, <2>1, BalanceIs
  <2>4. Keeps(t, Begin(s, start))
    BY <2>1, <2>2, <2>3, AddIndentKeeps
  <2>5. QED
    BY <2>1, <2>4, KeepsIsTransitive
<1>4. /\ \A bad : Keeps(s, Raise(s, bad))
      /\ \A b : Keeps(s, Allow(s, b))
      /\ Keeps(s, DropStaleKeys(s))
      /\ Keeps(s, RemoveSimpleKey(s))
      /\ Keeps(s, SaveSimpleKey(s))
      /\ \A column : Keeps(s, UnwindIndent(s, column))
      /\ \A id, n : Neutral(id) => Keeps(s, Add(s, id, n))
      /\ \A r, plain : Keeps(s, AddScalar(s, r, plain))
      /\ \A x : Keeps(s, [s EXCEPT !.flow = x]) /\ Keeps(s, [s EXCEPT !.ready = x])
  <2>1. /\ \A bad : Keeps(s, Raise(s, bad))
        /\ \A b : Keeps(s, Allow(s, b))
        /\ Keeps(s, DropStaleKeys(s))
        /\ Keeps(s, RemoveSimpleKey(s))
        /\ Keeps(s, SaveSimpleKey(s))
    BY <1>1, RaiseKeeps, AllowKeeps, DropStaleKeysKeeps, RemoveSimpleKeyKeeps,
       SaveSimpleKeyKeeps, Zenon
  <2>2. /\ \A column : Keeps(s, UnwindIndent(s, column))
        /\ \A id, n : Neutral(id) => Keeps(s, Add(s, id, n))
        /\ \A r, plain : Keeps(s, AddScalar(s, r, plain))
    BY <1>1, UnwindIndentKeeps, AddKeeps, AddScalarKeeps, Zenon
  <2>3. \A x : Keeps(s, [s EXCEPT !.flow = x]) /\ Keeps(s, [s EXCEPT !.ready = x])
    BY <1>1, SettingKeeps, Zenon
  <2>4. QED
    BY <2>1, <2>2, <2>3
<1>5. QED
  BY <1>2, <1>3, <1>4, Zenon

(* The ':' behind a simple key finds the place of that key in the queue.    *)
LEMMA SimpleKeyValueKeeps ==
  ASSUME NEW s, Scanner(s), KeysHere(s) # {}
  PROVE  Keeps(s, SimpleKeyValue(s))
<1>. DEFINE k == CHOOSE x \in KeysHere(s) : TRUE
            at == k.token - s.taken + 1
            token == Token("KEY")
            keyed == [s EXCEPT !.keys = @ \ {k}, !.tokens = InsertAt(@, at, token)]
            t == AddIndent(keyed, ColumnOf(text, k.index), at, "BLOCK-MAPPING-START")
<1>1. k \in s.keys
  BY DEF KeysHere
<1>2. SimpleKeyValue(s) = Allow(t, FALSE)
  BY DEF SimpleKeyValue
<1>3. Neutral(token.id)
  BY DEF Token, Neutral, OpenIds, CloseIds
<1>4. at \in 1..(Len(s.tokens) + 1)
  <2>1. /\ k.token \in s.taken..(s.taken + Len(s.tokens))
        /\ s.taken \in Nat /\ Len(s.tokens) \in Nat
    BY <1>1, BalanceIs DEF Scanner, Waiting
  <2>. HIDE DEF k
  <2>2. QED
    BY <2>1
<1>. HIDE DEF k, at, token
<1>5. /\ DOMAIN keyed = Fields /\ keyed.tokens = InsertAt(s.tokens, at, token)
      /\ keyed.indents = s.indents /\ keyed.taken = s.taken
      /\ keyed.done = s.done /\ keyed.keys = s.keys \ {k}
  BY DEF Scanner, Fields
<1>. HIDE DEF keyed
<1>6. Keeps(s, keyed)
  BY <1>3, <1>4, <1>5, InsertStep
<1>7. at \in 1..(Len(keyed.tokens) + 1)
  <2>1. Len(keyed.tokens) = Len(s.tokens) + 1 /\ Len(s.tokens) \in Nat
    BY <1>4, <1>5, InsertAtIs, BalanceIs DEF Scanner
  <2>2. QED
    BY <1>4, <2>1
<1>8. Keeps(keyed, t)
  <2>1. "BLOCK-MAPPING-START" \in OpenIds
    BY DEF OpenIds
  <2>2. Scanner(keyed)
    BY <1>6 DEF Keeps
  <2>3. QED
    BY <1>7, <2>1, <2>2, AddIndentKeeps
<1>. HIDE DEF t
<1>9. Keeps(s, t)
  BY <1>6, <1>8, KeepsIsTransitive
<1>10. Keeps(s, Allow(t, FALSE))
  BY <1>9, Methods, Zenon
<1>11. QED
  BY <1>2, <1>10 DEF t

(* A fetcher that has kept the scanner sound gives it back, not ready.      *)
LEMMA FetchGives ==
  ASSUME NEW kind, NEW s, Fetch(kind, s), Keeps(sc, s)
  PROVE  Keeps(sc, sc') /\ ~ sc'.ready /\ sc'.tokens = s.tokens /\ sc'.keys = s.keys
<1>1. sc' = [s EXCEPT !.ready = FALSE]
  BY DEF Fetch
<1>2. Keeps(sc, [s EXCEPT !.ready = FALSE])
  BY Methods, Zenon
<1>3. DOMAIN s = Fields
  BY DEF Keeps, Scanner
<1>4. QED
  BY <1>1, <1>2, <1>3 DEF Fields

LEMMA FetchKeeps ==
  ASSUME Scanner(sc), FetchMoreTokens, ~ FetchStreamEnd
  PROVE  Keeps(sc, sc')
<1>1. Keeps(sc, sc)
  BY DEF Keeps
<1>2. CASE ScanToNextToken
  <2>. DEFINE p == NextToken(text, sc.index)
              crossed == LineStart(text, p) # LineStart(text, sc.index)
              t == [sc EXCEPT !.index = p, !.allow = @ \/ (crossed /\ ~InFlow(sc)),
                              !.ready = TRUE]
  <2>1. Keeps(sc, t)
    <3>1. /\ DOMAIN t = Fields /\ t.tokens = sc.tokens /\ t.indents = sc.indents
          /\ t.taken = sc.taken /\ t.done = sc.done /\ t.keys = sc.keys
      BY DEF Scanner, Fields
    <3>. HIDE DEF t
    <3>2. QED
      BY <3>1, QuietStep
  <2>2. sc' = UnwindIndent(DropStaleKeys(t), ColumnOf(text, p))
    BY <1>2 DEF ScanToNextToken, AtToken
  <2>. HIDE DEF t
  <2>3. QED
    BY <2>1, <2>2, Methods, Zenon
<1>3. CASE FetchDocumentIndicator
  <2>. DEFINE id == IF At(text, sc.index) = "-" THEN "DOCUMENT-START" ELSE "DOCUMENT-END"
              t == Allow(RemoveSimpleKey(UnwindIndent(sc, -1)), FALSE)
  <2>1. Neutral(id)
    BY DEF Neutral, OpenIds, CloseIds
  <2>2. Keeps(sc, t)
    BY <1>1, Methods, Zenon
  <2>. HIDE DEF id, t
  <2>3. Keeps(sc, Add(t, id, 3))
    BY <2>1, <2>2, Methods, Zenon
  <2>4. Fetch("document_indicator", Add(t, id, 3))
    BY <1>3 DEF FetchDocumentIndicator, id, t
  <2>5. QED
    BY <2>3, <2>4, FetchGives
<1>4. CASE FetchFlowStart
  <2>. DEFINE id == IF At(text, sc.index) = "[" THEN "FLOW-SEQUENCE-START"
                    ELSE "FLOW-MAPPING-START"
              t == Add(Allow(SaveSimpleKey(sc), TRUE), id, 1)
  <2>1. Neutral(id)
    BY DEF Neutral, OpenIds, CloseIds
  <2>2. Fetch("flow_start", [t EXCEPT !.flow = t.flow + 1])
    BY <1>4 DEF FetchFlowStart
  <2>. HIDE DEF id
  <2>3. Keeps(sc, t)
    BY <1>1, <2>1, Methods, Zenon
  <2>. HIDE DEF t
  <2>4. Keeps(sc, [t EXCEPT !.flow = t.flow + 1])
    BY <2>3, Methods, Zenon
  <2>5. QED
    BY <2>2, <2>4, FetchGives
<1>5. CASE FetchFlowEnd
  <2>. DEFINE id == IF At(text, sc.index) = "]" THEN "FLOW-SEQUENCE-END"
                    ELSE "FLOW-MAPPING-END"
              t == Add(Allow(RemoveSimpleKey(sc), FALSE), id, 1)
  <2>1. Neutral(id)
    BY DEF Neutral, OpenIds, CloseIds
  <2>2. Fetch("flow_end", [t EXCEPT !.flow = t.flow - 1])
    BY <1>5 DEF FetchFlowEnd
  <2>. HIDE DEF id
  <2>3. Keeps(sc, t)
    BY <1>1, <2>1, Methods, Zenon
  <2>. HIDE DEF t
  <2>4. Keeps(sc, [t EXCEPT !.flow = t.flow - 1])
    BY <2>3, Methods, Zenon
  <2>5. QED
    BY <2>2, <2>4, FetchGives
<1>6. CASE FetchFlowEntry
  <2>1. Neutral("FLOW-ENTRY")
    BY DEF Neutral, OpenIds, CloseIds
  <2>2. Keeps(sc, Add(RemoveSimpleKey(Allow(sc, TRUE)), "FLOW-ENTRY", 1))
    BY <1>1, <2>1, Methods, Zenon
  <2>3. QED
    BY <1>6, <2>2, FetchGives DEF FetchFlowEntry
<1>7. CASE FetchBlockEntry
  <2>1. Neutral("BLOCK-ENTRY") /\ "BLOCK-SEQUENCE-START" \in OpenIds
    BY DEF Neutral, OpenIds, CloseIds
  <2>2. Keeps(sc, Add(RemoveSimpleKey(Allow(Begin(sc, "BLOCK-SEQUENCE-START"), TRUE)),
                      "BLOCK-ENTRY", 1))
    BY <1>1, <2>1, Methods, Zenon
  <2>3. QED
    BY <1>7, <2>2, FetchGives DEF FetchBlockEntry
<1>8. CASE FetchKey
  <2>1. Neutral("KEY") /\ "BLOCK-MAPPING-START" \in OpenIds
    BY DEF Neutral, OpenIds, CloseIds
  <2>2. Keeps(sc, Add(RemoveSimpleKey(Allow(Begin(sc, "BLOCK-MAPPING-START"), ~InFlow(sc))),
                      "KEY", 1))
    BY <1>1, <2>1, Methods, Zenon
  <2>3. QED
    BY <1>8, <2>2, FetchGives DEF FetchKey
<1>9. CASE FetchValue
  <2>. DEFINE t == IF KeysHere(sc) # {} THEN SimpleKeyValue(sc) ELSE ComplexValue(sc)
  <2>1. Keeps(sc, t)
    <3>1. CASE KeysHere(sc) # {}
      BY <3>1, SimpleKeyValueKeeps
    <3>2. CASE KeysHere(sc) = {}
      <4>1. "BLOCK-MAPPING-START" \in OpenIds
        BY DEF OpenIds
      <4>2. Keeps(sc, RemoveSimpleKey(Allow(Begin(sc, "BLOCK-MAPPING-START"), ~InFlow(sc))))
        BY <1>1, <4>1, Methods, Zenon
      <4>3. QED
        BY <3>2, <4>2 DEF ComplexValue
    <3>3. QED
      BY <3>1, <3>2
  <2>2. Neutral("VALUE")
    BY DEF Neutral, OpenIds, CloseIds
  <2>3. Fetch("value", Add(t, "VALUE", 1))
    BY <1>9 DEF FetchValue
  <2>. HIDE DEF t
  <2>4. Keeps(sc, Add(t, "VALUE", 1))
    BY <2>1, <2>2, Methods, Zenon
  <2>5. QED
    BY <2>3, <2>4, FetchGives
<1>10. CASE FetchAnchor
  <2>. DEFINE p == sc.index + 1
              end == Min({q \in p..(Len(text) + 1) : At(text, q) \notin {"a", "1", "-"}})
              id == IF At(text, sc.index) = "*" THEN "ALIAS" ELSE "ANCHOR"
              token == [id |-> id, value |-> SubSeq(text, p, end - 1), plain |-> TRUE]
              s == Allow(SaveSimpleKey(sc), FALSE)
              t == [s EXCEPT !.index = end, !.tokens = Append(@, token)]
              bad == end = p \/ At(text, end) \notin Blank \cup {"?", ":", ",", "]", "}", "%", "@"}
  <2>1. Neutral(token.id)
    BY DEF Neutral, OpenIds, CloseIds
  <2>2. Keeps(sc, s)
    BY <1>1, Methods, Zenon
  <2>3. Fetch("anchor", Raise(t, bad))
    BY <1>10 DEF FetchAnchor
  <2>. HIDE DEF end, token, s, bad
  <2>4. /\ DOMAIN t = Fields /\ t.tokens = Append(s.tokens, token) /\ t.indents = s.indents
        /\ t.taken = s.taken /\ t.done = s.done /\ t.keys = s.keys
    BY <2>2 DEF Keeps, Scanner, Fields
  <2>. HIDE DEF t
  <2>5. Keeps(s, t)
    BY <2>1, <2>2, <2>4, AppendStep DEF Keeps
  <2>6. Keeps(sc, Raise(t, bad))
    <3>1. Keeps(sc, t)
      BY <2>2, <2>5, KeepsIsTransitive
    <3>2. QED
      BY <3>1, Methods, Zenon
  <2>7. QED
    BY <2>3, <2>6, FetchGives
<1>11. CASE FetchFlowScalar
  <2>. DEFINE s == Allow(SaveSimpleKey(sc), FALSE)
              r == ScanFlowScalar(text, s.index + 1, At(text, s.index))
  <2>1. Fetch("flow_scalar", Raise(AddScalar(s, r, FALSE), ~r.ok))
    BY <1>11 DEF FetchFlowScalar
  <2>2. Keeps(sc, s)
    BY <1>1, Methods, Zenon
  <2>. HIDE DEF r, s
  <2>3. Keeps(sc, Raise(AddScalar(s, r, FALSE), ~r.ok))
    BY <2>2, Methods, Zenon
  <2>4. QED
    BY <2>1, <2>3, FetchGives
<1>12. CASE FetchPlain
  <2>. DEFINE s == SaveSimpleKey(sc)
              r == ScanPlain(text, s.index, Last(s.indents) + 1, InFlow(s))
  <2>1. Fetch("plain", Allow(AddScalar(s, r, TRUE), r.broken))
    BY <1>12 DEF FetchPlain
  <2>2. Keeps(sc, s)
    BY <1>1, Methods, Zenon
  <2>. HIDE DEF r, s
  <2>3. Keeps(sc, Allow(AddScalar(s, r, TRUE), r.broken))
    BY <2>2, Methods, Zenon
  <2>4. QED
    BY <2>1, <2>3, FetchGives
<1>13. CASE FetchError
  <2>1. sc' = [sc EXCEPT !.error = TRUE]
    BY <1>13 DEF FetchError
  <2>2. /\ DOMAIN sc' = Fields /\ sc'.tokens = sc.tokens /\ sc'.indents = sc.indents
        /\ sc'.taken = sc.taken /\ sc'.done = sc.done /\ sc'.keys = sc.keys
    BY <2>1 DEF Scanner, Fields
  <2>3. QED
    BY <2>2, QuietStep
<1>14. QED
  BY <1>2, <1>3, <1>4, <1>5, <1>6, <1>7, <1>8, <1>9, <1>10, <1>11, <1>12, <1>13
     DEF FetchMoreTokens

(* The end of the text: every block ends, no key is left, and STREAM-END is *)
(* the last token there will be.                                            *)
LEMMA StreamEndKeeps ==
  ASSUME Scanner(sc), FetchStreamEnd
  PROVE  /\ Scanner(sc') /\ Balance(sc') = Balance(sc) /\ sc'.taken = sc.taken
         /\ sc'.done /\ sc'.keys = {} /\ ~ sc'.ready
         /\ sc'.tokens # <<>> /\ sc'.tokens[Len(sc'.tokens)].id = "STREAM-END"
<1>. DEFINE u == Allow(RemoveSimpleKey(UnwindIndent(sc, -1)), FALSE)
            t == Add(u, "STREAM-END", 0)
            token == Token("STREAM-END")
<1>1. Keeps(sc, u)
  <2>1. Keeps(sc, sc)
    BY DEF Keeps
  <2>2. QED
    BY <2>1, Methods, Zenon
<1>2. sc' = [[t EXCEPT !.keys = {}, !.done = TRUE] EXCEPT !.ready = FALSE]
  BY DEF FetchStreamEnd, Fetch
<1>3. token.id = "STREAM-END" /\ Neutral("STREAM-END")
  BY DEF Token, Neutral, OpenIds, CloseIds
<1>. HIDE DEF u
<1>4. Keeps(u, t)
  BY <1>1, <1>3, AddKeeps DEF Keeps
<1>5. t.tokens = Append(u.tokens, token)
  BY <1>1 DEF Keeps, Scanner, Fields, Add
<1>. HIDE DEF t, token
<1>6. /\ DOMAIN sc' = Fields /\ sc'.tokens = t.tokens /\ sc'.indents = t.indents
      /\ sc'.taken = t.taken /\ sc'.done = TRUE /\ sc'.keys = {} /\ sc'.ready = FALSE
  BY <1>2, <1>4 DEF Keeps, Scanner, Fields
<1>7. Scanner(sc') /\ Balance(sc') = Balance(t)
  BY <1>4, <1>6 DEF Keeps, Scanner, Waiting, Balance
<1>8. sc'.tokens # <<>> /\ sc'.tokens[Len(sc'.tokens)] = token
  <2>1. /\ Sequence(sc'.tokens) /\ Len(sc'.tokens) = Len(u.tokens) + 1
        /\ sc'.tokens[Len(u.tokens) + 1] = token
    BY <1>1, <1>5, <1>6, AppendIs DEF Keeps, Scanner
  <2>2. Len(u.tokens) \in Nat
    BY <1>1, LengthIs DEF Keeps, Scanner
  <2>3. Len(sc'.tokens) # 0
    BY <2>1, <2>2
  <2>4. QED
    BY <2>1, <2>3, LengthIs
<1>9. QED
  BY <1>1, <1>3, <1>4, <1>6, <1>7, <1>8 DEF Keeps

(* The parser takes the first token, which is the start of no key: what the *)
(* queue then says of the blocks changes by what that token says.           *)
LEMMA TakeTokenKeeps ==
  ASSUME Scanner(sc), TakeToken, sc.tokens # <<>>, ~ sc.ready, ~ NeedMoreTokens,
         sc.done => sc.keys = {}
  PROVE  /\ Scanner(sc')
         /\ Balance(sc') = Balance(sc) + (IF Peek \in OpenIds THEN 1 ELSE 0)
                                       - (IF Peek \in CloseIds THEN 1 ELSE 0)
         /\ sc'.done = sc.done /\ sc'.ready = sc.ready /\ sc'.keys \subseteq sc.keys
         /\ sc'.tokens = Tail(sc.tokens)
<1>. DEFINE s == DropStaleKeys(sc)
<1>1. /\ Keeps(sc, s) /\ s.tokens = sc.tokens /\ s.indents = sc.indents
      /\ s.keys \subseteq sc.keys /\ s.ready = sc.ready
  BY DropStaleKeysKeeps DEF DropStaleKeys, Raise, Scanner, Fields
<1>2. \A k \in s.keys : k.token # s.taken
  <2>1. CASE sc.done
    BY <1>1, <2>1
  <2>2. CASE ~ sc.done
    <3>. DEFINE T == {k.token : k \in s.keys}
    <3>1. s.keys = {} \/ Min(T) # s.taken
      BY <2>2 DEF NeedMoreTokens
    <3>2. ASSUME NEW k \in s.keys, k.token = s.taken
          PROVE  FALSE
      <4>1. s.taken \in T
        BY <3>2
      <4>2. \A j \in s.keys : j.token \in s.taken..(s.taken + Len(s.tokens))
        BY <1>1 DEF Keeps, Scanner, Waiting
      <4>3. s.taken \in Nat /\ Len(s.tokens) \in Nat
        BY <1>1, BalanceIs DEF Keeps, Scanner
      <4>4. \A x \in T : x \in Int /\ s.taken <= x
        <5>. HIDE DEF s
        <5>1. QED
          BY <4>2, <4>3
      <4>. HIDE DEF T, s
      <4>5. Min(T) \in T /\ \A y \in T : Min(T) <= y
        BY <4>1, <4>4 DEF Min
      <4>6. Min(T) = s.taken
        BY <4>1, <4>3, <4>4, <4>5
      <4>7. QED
        BY <3>1, <3>2, <4>6
    <3>3. QED
      BY <3>2
  <2>3. QED
    BY <2>1, <2>2
<1>3. sc' = [s EXCEPT !.tokens = Tail(s.tokens), !.taken = s.taken + 1]
  BY DEF TakeToken
<1>. HIDE DEF s
<1>4. /\ DOMAIN sc' = Fields /\ sc'.tokens = Tail(sc.tokens) /\ sc'.indents = s.indents
      /\ sc'.taken = s.taken + 1 /\ sc'.done = s.done /\ sc'.keys = s.keys
      /\ sc'.ready = s.ready
  BY <1>1, <1>3 DEF Keeps, Scanner, Fields
<1>5. /\ Sequence(sc'.tokens) /\ Len(sc.tokens) \in Nat
      /\ Len(sc.tokens) - 1 \in Nat /\ Len(sc'.tokens) = Len(sc.tokens) - 1
  BY <1>4, TailIs, BalanceIs DEF Scanner
<1>6. Waiting(sc')
  <2>1. ASSUME NEW k \in s.keys
        PROVE  k.token \in (s.taken + 1)..((s.taken + 1) + (Len(sc.tokens) - 1))
    <3>1. k.token \in s.taken..(s.taken + Len(sc.tokens)) /\ s.taken \in Nat
      BY <1>1 DEF Keeps, Scanner, Waiting
    <3>2. k.token # s.taken
      BY <1>2
    <3>3. QED
      BY <1>5, <3>1, <3>2
  <2>2. QED
    BY <1>4, <1>5, <2>1 DEF Waiting
<1>7. Scanner(sc')
  BY <1>1, <1>4, <1>5, <1>6 DEF Keeps, Scanner
<1>8. Balance(sc') = Balance(sc) + (IF Peek \in OpenIds THEN 1 ELSE 0)
                                 - (IF Peek \in CloseIds THEN 1 ELSE 0)
  <2>1. \A ids : /\ Count(sc.tokens, ids) \in Nat /\ Count(sc'.tokens, ids) \in Nat
                 /\ Count(sc.tokens, ids) =
                      Count(sc'.tokens, ids) + IF Peek \in ids THEN 1 ELSE 0
    BY <1>4, CountTaken DEF Scanner, Peek
  <2>2. Len(sc'.indents) = Len(sc.indents) /\ Len(sc.indents) \in Nat
    BY <1>1, <1>4, BalanceIs
  <2>3. /\ Count(sc.tokens, OpenIds) \in Nat /\ Count(sc'.tokens, OpenIds) \in Nat
        /\ Count(sc.tokens, OpenIds) =
             Count(sc'.tokens, OpenIds) + IF Peek \in OpenIds THEN 1 ELSE 0
    BY <2>1, Zenon
  <2>4. /\ Count(sc.tokens, CloseIds) \in Nat /\ Count(sc'.tokens, CloseIds) \in Nat
        /\ Count(sc.tokens, CloseIds) =
             Count(sc'.tokens, CloseIds) + IF Peek \in CloseIds THEN 1 ELSE 0
    BY <2>1, Zenon
  <2>5. ASSUME NEW a \in Nat, NEW x \in Nat, NEW y \in Nat, NEW o \in Nat, NEW c \in Nat
        PROVE  a - x + y = (a - (x + o) + (y + c)) + o - c
    OBVIOUS
  <2>6. PICK o, c : /\ o = (IF Peek \in OpenIds THEN 1 ELSE 0)
                    /\ c = (IF Peek \in CloseIds THEN 1 ELSE 0)
    OBVIOUS
  <2>7. o \in Nat /\ c \in Nat
    BY <2>6
  <2>8. /\ Balance(sc') = Len(sc.indents) - Count(sc'.tokens, OpenIds)
                             + Count(sc'.tokens, CloseIds)
        /\ Balance(sc) = Len(sc.indents) - (Count(sc'.tokens, OpenIds) + o)
                            + (Count(sc'.tokens, CloseIds) + c)
    BY <2>2, <2>3, <2>4, <2>6 DEF Balance
  <2>9. Balance(sc') = Balance(sc) + o - c
    BY <2>2, <2>3, <2>4, <2>5, <2>7, <2>8
  <2>10. QED
    BY <2>6, <2>9
<1>9. QED
  BY <1>1, <1>4, <1>7, <1>8 DEF Keeps

-----------------------------------------------------------------------------
(* The parser's states.  Between documents its stack is empty; in one, it   *)
(* holds what follows each collection still open, under document_end.       *)

ParserFields == {"state", "states", "marks", "anchor", "opened", "first", "event", "error"}

Outside == {"stream_start", "implicit_document_start", "document_start", "document_end",
            "end"}
Inside == NodeStates \cup DOMAIN Items \cup
          {"flow_sequence_item", "flow_sequence_entry", "flow_mapping_key",
           "flow_mapping_item", "flow_mapping_empty_value", "flow_pair_end"}

Parser(p) ==
  /\ DOMAIN p = ParserFields
  /\ Sequence(p.states)
  /\ \/ p.state \in Outside /\ p.states = <<>>
     \/ /\ p.state \in Inside /\ p.states # <<>> /\ p.states[1] = "document_end"
        /\ \A i \in 2..Len(p.states) : p.states[i] \in Inside

(* The block collections on a stack, and those the parser is in.            *)
BlocksOn(q) == Cardinality({i \in 1..Len(q) : q[i] \in BlockStates})
Depth(p) == BlocksOn(p.states) + IF p.state \in BlockStates /\ ~ p.first THEN 1 ELSE 0

LEMMA BlocksAppended ==
  ASSUME NEW q, Sequence(q), NEW e
  PROVE  /\ BlocksOn(q) \in Nat
         /\ BlocksOn(Append(q, e)) = BlocksOn(q) + IF e \in BlockStates THEN 1 ELSE 0
<1>. DEFINE r == Append(q, e)
            A == {i \in 1..Len(q) : q[i] \in BlockStates}
            B == {i \in 1..Len(r) : r[i] \in BlockStates}
            n == Len(q)
<1>1. n \in Nat /\ n + 1 \in 1..(n + 1)
  BY LengthIs
<1>2. /\ Len(r) = n + 1
      /\ \A i \in 1..n : r[i] = q[i]
      /\ r[n + 1] = e
  BY AppendIs
<1>. HIDE DEF r
<1>3. A \in SUBSET (1..n) /\ B \in SUBSET (1..(n + 1))
  BY <1>2
<1>4. \A i \in 1..((n + 1) - 1) : i \in A <=> i \in B
  BY <1>1, <1>2
<1>5. \A i \in (n + 1)..n : i \in A <=> i + 1 \in B
  BY <1>1
<1>6. n + 1 \in B <=> e \in BlockStates
  BY <1>1, <1>2
<1>. HIDE DEF A, B, n
<1>7. /\ Cardinality(A) \in Nat
      /\ Cardinality(B) = Cardinality(A) + IF n + 1 \in B THEN 1 ELSE 0
  BY <1>1, <1>3, <1>4, <1>5, OneMore
<1>8. QED
  BY <1>6, <1>7 DEF BlocksOn, A, B, r

LEMMA BlocksPopped ==
  ASSUME NEW q, Sequence(q), q # <<>>
  PROVE  /\ Sequence(Front(q)) /\ BlocksOn(Front(q)) \in Nat
         /\ Len(q) \in Nat /\ Len(Front(q)) = Len(q) - 1 /\ Last(q) = q[Len(q)]
         /\ \A i \in 1..(Len(q) - 1) : Front(q)[i] = q[i]
         /\ BlocksOn(q) =
              BlocksOn(Front(q)) + IF Last(q) \in BlockStates THEN 1 ELSE 0
<1>. DEFINE f == Front(q)
            e == Last(q)
            n == Len(q) - 1
<1>1. Len(q) \in Nat /\ Len(q) >= 1 /\ n \in Nat /\ n + 1 = Len(q)
  BY LengthIs
<1>2. e = q[n + 1] /\ f = SubSeq(q, 1, n)
  BY <1>1 DEF Front, Last
<1>. HIDE DEF f, e, n
<1>3. /\ Sequence(f) /\ Len(f) = n
      /\ \A i \in 1..n : f[i] = q[i]
  <2>1. 1 \in 1..(Len(q) + 1) /\ n \in (1 - 1)..Len(q)
    BY <1>1
  <2>2. /\ Sequence(f) /\ Len(f) = n - 1 + 1
        /\ \A i \in 1..(n - 1 + 1) : f[i] = q[1 + i - 1]
    BY <1>2, <2>1, PartIs
  <2>3. QED
    BY <1>1, <2>2
<1>4. Append(f, e) = q
  <2>1. /\ Sequence(Append(f, e)) /\ Len(Append(f, e)) = n + 1
        /\ \A i \in 1..n : Append(f, e)[i] = f[i]
        /\ Append(f, e)[n + 1] = e
    BY <1>3, AppendIs
  <2>2. \A i \in 1..(n + 1) : Append(f, e)[i] = q[i]
    <3>1. ASSUME NEW i \in 1..(n + 1)
          PROVE  Append(f, e)[i] = q[i]
      <4>1. i \in 1..n \/ i = n + 1
        BY <1>1
      <4>2. QED
        BY <1>2, <1>3, <2>1, <4>1
    <3>2. QED
      BY <3>1
  <2>3. PICK S : Append(f, e) \in Seq(S) /\ q \in Seq(S)
    BY <2>1, CommonSet
  <2>4. QED
    BY <1>1, <2>1, <2>2, <2>3, SeqEqual
<1>5. /\ BlocksOn(f) \in Nat
      /\ BlocksOn(Append(f, e)) = BlocksOn(f) + IF e \in BlockStates THEN 1 ELSE 0
  BY <1>3, BlocksAppended
<1>6. QED
  BY <1>1, <1>2, <1>3, <1>4, <1>5 DEF f, e, n

LEMMA DepthIs ==
  ASSUME NEW p, Parser(p)
  PROVE  Depth(p) \in Int
BY BlocksAppended DEF Parser, Depth

LEMMA Apart == Outside \cap Inside = {} /\ BlockStates \subseteq Inside
BY DEF Outside, Inside, BlockStates, NodeStates, Items, BlockItems, FlowItems

(* From a state to one that is in a block like it.                          *)
LEMMA Goes ==
  ASSUME NEW p, Parser(p), NEW t, DOMAIN t = ParserFields, t.states = p.states,
         ~ p.first, ~ t.first,
         \/ t.state = p.state
         \/ p.state \in Outside /\ t.state \in Outside
         \/ p.state \in Inside /\ t.state \in Inside,
         t.state \in BlockStates <=> p.state \in BlockStates
  PROVE  Parser(t) /\ Depth(t) = Depth(p)
<1>1. Parser(t)
  BY Apart DEF Parser
<1>2. QED
  BY <1>1 DEF Depth

(* Back to the state below.                                                 *)
LEMMA Pops ==
  ASSUME NEW p, Parser(p), NEW t, DOMAIN t = ParserFields,
         t.state = Last(p.states), t.states = Front(p.states),
         p.state \in Inside, ~ p.first, ~ t.first
  PROVE  /\ Parser(t) /\ t.state # "stream_start"
         /\ Depth(t) = Depth(p) - IF p.state \in BlockStates THEN 1 ELSE 0
<1>. DEFINE n == Len(p.states)
<1>1. /\ p.states # <<>> /\ p.states[1] = "document_end"
      /\ \A i \in 2..n : p.states[i] \in Inside
      /\ Sequence(p.states)
  BY Apart DEF Parser
<1>2. /\ Sequence(t.states) /\ BlocksOn(t.states) \in Nat
      /\ n \in Nat /\ Len(t.states) = n - 1 /\ t.state = p.states[n]
      /\ \A i \in 1..(n - 1) : t.states[i] = p.states[i]
      /\ BlocksOn(p.states) =
           BlocksOn(t.states) + IF t.state \in BlockStates THEN 1 ELSE 0
  BY <1>1, BlocksPopped
<1>3. n # 0
  BY <1>1, LengthIs
<1>. HIDE DEF n
<1>4. CASE n = 1
  <2>1. t.states = <<>>
    BY <1>2, <1>4, LengthIs
  <2>2. t.state = "document_end"
    BY <1>1, <1>2, <1>4
  <2>3. QED
    BY <1>2, <2>1, <2>2 DEF Parser, Outside, Depth
<1>5. CASE n >= 2
  <2>1. t.states # <<>>
    BY <1>2, <1>5, LengthIs
  <2>2. t.states[1] = "document_end" /\ t.state \in Inside
    BY <1>1, <1>2, <1>5
  <2>3. \A i \in 2..Len(t.states) : t.states[i] \in Inside
    BY <1>1, <1>2, <1>5
  <2>4. t.state # "stream_start"
    BY <2>2, Apart DEF Outside
  <2>5. QED
    BY <1>2, <2>1, <2>2, <2>3, <2>4 DEF Parser, Depth
<1>6. QED
  BY <1>2, <1>3, <1>4, <1>5

(* Into a node, with what follows it left on the stack.                     *)
LEMMA Pushes ==
  ASSUME NEW p, Parser(p), NEW t, DOMAIN t = ParserFields, NEW after,
         t.states = Append(p.states, after),
         t.state \in Inside, t.state \notin BlockStates, ~ p.first, ~ t.first,
         \/ p.state \in Inside /\ after \in Inside
         \/ p.state \in Outside /\ after = "document_end",
         after \in BlockStates <=> p.state \in BlockStates
  PROVE  /\ Parser(t) /\ t.state # "stream_start"
         /\ Depth(t) = Depth(p)
<1>. DEFINE n == Len(p.states)
<1>1. /\ Sequence(t.states) /\ Len(t.states) = n + 1
      /\ \A i \in 1..n : t.states[i] = p.states[i]
      /\ t.states[n + 1] = after
  BY AppendIs DEF Parser
<1>2. n \in Nat /\ (p.states = <<>> <=> n = 0)
  BY LengthIs DEF Parser
<1>3. /\ BlocksOn(p.states) \in Nat
      /\ BlocksOn(t.states) = BlocksOn(p.states) + IF after \in BlockStates THEN 1 ELSE 0
  BY BlocksAppended DEF Parser
<1>. HIDE DEF n
<1>4. t.states # <<>>
  BY <1>1, <1>2, LengthIs
<1>5. t.states[1] = "document_end" /\ \A i \in 2..Len(t.states) : t.states[i] \in Inside
  <2>1. CASE p.state \in Inside
    <3>1. /\ n # 0 /\ p.states[1] = "document_end" /\ after \in Inside
          /\ \A i \in 2..n : p.states[i] \in Inside
      BY <1>2, <2>1, Apart DEF Parser, n
    <3>2. QED
      BY <1>1, <1>2, <3>1
  <2>2. CASE p.state \in Outside
    <3>1. n = 0 /\ after = "document_end"
      BY <1>2, <2>2, Apart DEF Parser
    <3>2. QED
      BY <1>1, <3>1
  <2>3. QED
    BY <2>1, <2>2
<1>6. Parser(t) /\ t.state # "stream_start"
  BY <1>1, <1>4, <1>5, Apart DEF Parser, Outside
<1>7. QED
  BY <1>3, <1>6 DEF Depth

-----------------------------------------------------------------------------
(* What the scanner and the parser keep true of each other, through the     *)
(* queue: the blocks they count, a last token that the parser cannot pass,  *)
(* and, where the parser has announced a collection and not yet taken its   *)
(* first token, that token in front.                                        *)
Linked ==
  /\ Scanner(sc) /\ Parser(ps)
  /\ Balance(sc) = 1 + Depth(ps)
  /\ sc.done => sc.keys = {} /\ ~ sc.ready
  /\ sc.done /\ ps.state # "end" =>
       sc.tokens # <<>> /\ sc.tokens[Len(sc.tokens)].id = "STREAM-END"
  /\ ps.state = "stream_start" =>
       /\ sc.tokens = <<Token("STREAM-START")>> /\ sc.keys = {}
       /\ ~ sc.ready /\ ~ sc.done
  /\ ps.first =>
       /\ ~ sc.ready /\ ~ NeedMoreTokens
       /\ \E o \in Openings : ps.state = o.state /\ Peek = o.token

(* The parser has what it may go on with.                                   *)
Served == ~ sc.ready /\ ~ NeedMoreTokens /\ ps.state # "end" /\ UNCHANGED text

(* What every handler of the parser does.                                   *)
Turn ==
  /\ Parser(ps') /\ ps'.state # "stream_start"
  /\ \/ /\ sc' = sc /\ Depth(ps') = Depth(ps)
        /\ ps'.first => \E o \in Openings : ps'.state = o.state /\ Peek = o.token
     \/ /\ TakeToken /\ ~ ps'.first
        /\ Peek = "STREAM-END" => ps'.state = "end"
        /\ Depth(ps') = Depth(ps) + (IF Peek \in OpenIds THEN 1 ELSE 0)
                                  - (IF Peek \in CloseIds THEN 1 ELSE 0)

LEMMA SameNeed ==
  ASSUME sc' = sc, text' = text
  PROVE  NeedMoreTokens' = NeedMoreTokens
BY DEF NeedMoreTokens, DropStaleKeys, StaleKeys, Raise

(* The parser never looks at a queue that has no token.                     *)
LEMMA TokenThere ==
  ASSUME Linked, Served
  PROVE  sc.tokens # <<>>
BY DEF Linked, Served, NeedMoreTokens

LEMMA TurnKeeps ==
  ASSUME Linked, Served, Turn
  PROVE  Linked'
<1>1. Scanner(sc) /\ Parser(ps) /\ Depth(ps) \in Int /\ Depth(ps') \in Int
  BY DepthIs DEF Linked, Turn
<1>2. sc.tokens # <<>>
  BY TokenThere
<1>3. CASE /\ sc' = sc /\ Depth(ps') = Depth(ps)
           /\ ps'.first => \E o \in Openings : ps'.state = o.state /\ Peek = o.token
  <2>1. NeedMoreTokens' = NeedMoreTokens
    BY <1>3, SameNeed DEF Served
  <2>2. Peek' = Peek
    BY <1>3 DEF Peek
  <2>. HIDE DEF Openings
  <2>3. ps'.first => /\ ~ sc'.ready /\ ~ NeedMoreTokens'
                     /\ \E o \in Openings : ps'.state = o.state /\ Peek' = o.token
    BY <1>3, <2>1, <2>2 DEF Served
  <2>4. QED
    BY <1>1, <1>3, <2>3 DEF Linked, Served, Turn
<1>4. CASE /\ TakeToken /\ ~ ps'.first
           /\ Peek = "STREAM-END" => ps'.state = "end"
           /\ Depth(ps') = Depth(ps) + (IF Peek \in OpenIds THEN 1 ELSE 0)
                                     - (IF Peek \in CloseIds THEN 1 ELSE 0)
  <2>1. /\ Scanner(sc')
        /\ Balance(sc') = Balance(sc) + (IF Peek \in OpenIds THEN 1 ELSE 0)
                                      - (IF Peek \in CloseIds THEN 1 ELSE 0)
        /\ sc'.done = sc.done /\ sc'.ready = sc.ready /\ sc'.keys \subseteq sc.keys
        /\ sc'.tokens = Tail(sc.tokens)
    BY <1>1, <1>2, <1>4, TakeTokenKeeps DEF Linked, Served
  <2>2. Balance(sc') = 1 + Depth(ps')
    <3>1. Balance(sc) = 1 + Depth(ps)
      BY DEF Linked
    <3>2. CASE Peek \in OpenIds
      BY <1>1, <1>4, <2>1, <3>1, <3>2
    <3>3. CASE Peek \notin OpenIds
      BY <1>1, <1>4, <2>1, <3>1, <3>3
    <3>4. QED
      BY <3>2, <3>3
  <2>3. ASSUME sc'.done, ps'.state # "end"
        PROVE  sc'.tokens # <<>> /\ sc'.tokens[Len(sc'.tokens)].id = "STREAM-END"
    <3>1. sc.tokens[Len(sc.tokens)].id = "STREAM-END" /\ Peek # "STREAM-END"
      BY <1>4, <2>1, <2>3 DEF Linked, Served
    <3>2. /\ Head(sc.tokens) = sc.tokens[1]
          /\ Sequence(Tail(sc.tokens)) /\ Len(Tail(sc.tokens)) = Len(sc.tokens) - 1
          /\ \A i \in 1..(Len(sc.tokens) - 1) : Tail(sc.tokens)[i] = sc.tokens[i + 1]
          /\ Len(sc.tokens) \in Nat
      BY <1>1, <1>2, TailIs, LengthIs DEF Scanner
    <3>3. Len(sc.tokens) # 1 /\ Len(sc.tokens) # 0
      BY <1>1, <1>2, <3>1, <3>2, LengthIs DEF Peek, Scanner
    <3>4. Len(Tail(sc.tokens)) \in 1..(Len(sc.tokens) - 1)
      <4>1. PICK n : n = Len(sc.tokens)
        OBVIOUS
      <4>2. n \in Nat /\ n # 0 /\ n # 1
        BY <3>2, <3>3, <4>1
      <4>3. n - 1 \in 1..(n - 1)
        BY <4>2
      <4>4. QED
        BY <3>2, <4>1, <4>3
    <3>5. Tail(sc.tokens) # <<>>
      BY <3>2, <3>4, LengthIs
    <3>6. Tail(sc.tokens)[Len(Tail(sc.tokens))] = sc.tokens[Len(sc.tokens)]
      BY <3>2, <3>4
    <3>7. QED
      BY <2>1, <3>1, <3>5, <3>6
  <2>4. QED
    BY <1>4, <2>1, <2>2, <2>3 DEF Linked, Turn, Served
<1>5. QED
  BY <1>3, <1>4 DEF Turn

(* The updates that the handlers are made of.                               *)
LEMMA Updates ==
  ASSUME NEW q, DOMAIN q = ParserFields
  PROVE  /\ \A event : /\ DOMAIN Holding(q, event) = ParserFields
                       /\ Holding(q, event).state = q.state
                       /\ Holding(q, event).states = q.states
                       /\ Holding(q, event).first = q.first
         /\ /\ DOMAIN PopState(q) = ParserFields
            /\ PopState(q).state = Last(q.states)
            /\ PopState(q).states = Front(q.states)
            /\ PopState(q).first = q.first
         /\ \A after : /\ DOMAIN PushState(q, after) = ParserFields
                       /\ PushState(q, after).state = q.state
                       /\ PushState(q, after).states = Append(q.states, after)
                       /\ PushState(q, after).first = q.first
BY DEF Holding, PopState, PushState, ParserFields

LEMMA Enters ==
  ASSUME Parser(ps)
  PROVE  \A x : /\ DOMAIN Enter(x) = ParserFields
                /\ Enter(x).state = x /\ Enter(x).states = ps.states
                /\ Enter(x).first = ps.first
BY DEF Enter, Parser, ParserFields

(* A collection that the parser has only announced is at its first item.    *)
LEMMA NotFirst ==
  ASSUME Linked, ps.state \notin {o.state : o \in Openings}
  PROVE  ~ ps.first
BY DEF Linked

(* The four kinds of turn that leave first as it is: to stay, to go on, to  *)
(* come back to the state below, and to go into a node.                     *)
PassOn(x) == TakeToken /\ Neutral(Peek) /\ (Peek = "STREAM-END" => x = "end")

LEMMA StayTurn ==
  ASSUME Linked, ~ ps.first, ps.state # "stream_start", DOMAIN ps' = ParserFields,
         ps'.state = ps.state, ps'.states = ps.states, ps'.first = ps.first,
         sc' = sc \/ PassOn(ps.state)
  PROVE  Turn
<1>1. Parser(ps') /\ Depth(ps') = Depth(ps)
  BY Goes DEF Linked
<1>2. Depth(ps) \in Int
  BY DepthIs DEF Linked
<1>3. QED
  BY <1>1, <1>2 DEF Turn, PassOn, Neutral

LEMMA GoTurn ==
  ASSUME Linked, ~ ps.first, NEW x, x # "stream_start",
         ps' = Enter(x) \/ \E event : ps' = Holding(Enter(x), event),
         (ps.state \in Outside /\ x \in Outside) \/ (ps.state \in Inside /\ x \in Inside),
         x \in BlockStates <=> ps.state \in BlockStates,
         sc' = sc \/ PassOn(x)
  PROVE  Turn
<1>1. Parser(ps)
  BY DEF Linked
<1>2. DOMAIN ps' = ParserFields /\ ps'.state = x /\ ps'.states = ps.states /\ ~ ps'.first
  BY <1>1, Enters, Updates
<1>3. Parser(ps') /\ Depth(ps') = Depth(ps)
  BY <1>1, <1>2, Goes
<1>4. Depth(ps) \in Int
  BY <1>1, DepthIs
<1>5. QED
  BY <1>2, <1>3, <1>4 DEF Turn, PassOn, Neutral

LEMMA PushTurn ==
  ASSUME Linked, ~ ps.first, NEW x \in NodeStates, NEW after,
         \/ ps' = PushState(Enter(x), after)
         \/ \E event : ps' = Holding(PushState(Enter(x), after), event),
         \/ ps.state \in Inside /\ after \in Inside
         \/ ps.state \in Outside /\ after = "document_end",
         after \in BlockStates <=> ps.state \in BlockStates,
         sc' = sc \/ PassOn(x), x # "end"
  PROVE  Turn
<1>1. Parser(ps)
  BY DEF Linked
<1>2. /\ DOMAIN ps' = ParserFields /\ ps'.state = x /\ ps'.states = Append(ps.states, after)
      /\ ~ ps'.first
  BY <1>1, Enters, Updates
<1>3. x \in Inside /\ x \notin BlockStates
  BY DEF Inside, NodeStates, BlockStates
<1>4. Parser(ps') /\ Depth(ps') = Depth(ps) /\ ps'.state # "stream_start"
  BY <1>1, <1>2, <1>3, Pushes
<1>5. Depth(ps) \in Int
  BY <1>1, DepthIs
<1>6. QED
  BY <1>2, <1>4, <1>5 DEF Turn, PassOn, Neutral

LEMMA PopTurn ==
  ASSUME Linked, ~ ps.first, ps.state \in Inside, DOMAIN ps' = ParserFields,
         ps'.state = Last(ps.states), ps'.states = Front(ps.states), ps'.first = ps.first,
         \/ sc' = sc /\ ps.state \notin BlockStates
         \/ /\ TakeToken /\ Peek # "STREAM-END" /\ Peek \notin OpenIds
            /\ Peek \in CloseIds <=> ps.state \in BlockStates
  PROVE  Turn
<1>1. Parser(ps)
  BY DEF Linked
<1>2. /\ Parser(ps') /\ ps'.state # "stream_start"
      /\ Depth(ps') = Depth(ps) - IF ps.state \in BlockStates THEN 1 ELSE 0
  BY <1>1, Pops
<1>3. Depth(ps) \in Int
  BY <1>1, DepthIs
<1>4. CASE ps.state \in BlockStates
  BY <1>2, <1>3, <1>4 DEF Turn
<1>5. CASE ps.state \notin BlockStates
  BY <1>2, <1>3, <1>5 DEF Turn
<1>6. QED
  BY <1>4, <1>5

(* The tables of the collections                                            *)
LEMMA ItemsAre ==
  /\ \A state \in DOMAIN Items :
       /\ state \in Inside /\ Neutral(Items[state].lead) /\ Items[state].lead # "STREAM-END"
       /\ Items[state].next \in Inside /\ Items[state].node \in NodeStates
       /\ Items[state].next \in BlockStates <=> state \in BlockStates
  /\ \A state \in DOMAIN Commas :
       /\ state \in Inside /\ Commas[state] \in Inside
       /\ state \notin BlockStates /\ Commas[state] \notin BlockStates
       /\ Commas[state] # "stream_start"
  /\ \A c \in Closings :
       /\ c[1] \in Inside /\ c[2] # "STREAM-END" /\ c[2] \notin OpenIds
       /\ c[2] \in CloseIds <=> c[1] \in BlockStates
  /\ \A o \in Openings :
       /\ o.state \in Inside /\ o.state \notin NodeStates /\ o.state # "stream_start"
       /\ o.token \in OpenIds <=> o.state \in BlockStates
       /\ o.token \notin CloseIds /\ o.token # "STREAM-END"
<1>1. DOMAIN Items = {"block_sequence_entry", "indentless_sequence_entry",
                      "block_mapping_key", "block_mapping_value", "flow_mapping_item",
                      "flow_mapping_value", "flow_pair_key", "flow_pair_value"}
  BY DEF Items, BlockItems, FlowItems
<1>2. ASSUME NEW state \in DOMAIN Items
      PROVE  /\ state \in Inside
             /\ Neutral(Items[state].lead) /\ Items[state].lead # "STREAM-END"
             /\ Items[state].next \in Inside /\ Items[state].node \in NodeStates
             /\ Items[state].next \in BlockStates <=> state \in BlockStates
  <2>1. CASE state \in DOMAIN BlockItems
    <3>1. Items[state] = BlockItems[state]
      BY <1>2, <2>1 DEF Items
    <3>2. QED
      BY <1>1, <2>1, <3>1
         DEF BlockItems, Item, Inside, Neutral, OpenIds, CloseIds, NodeStates, BlockStates
  <2>2. CASE state \notin DOMAIN BlockItems
    <3>1. Items[state] = FlowItems[state] /\ state \in DOMAIN FlowItems
      BY <1>2, <2>2 DEF Items
    <3>2. QED
      BY <1>1, <3>1
         DEF FlowItems, Item, Inside, Neutral, OpenIds, CloseIds, NodeStates, BlockStates
  <2>3. QED
    BY <2>1, <2>2
<1>3. \A state \in DOMAIN Commas :
        /\ state \in Inside /\ Commas[state] \in Inside
        /\ state \notin BlockStates /\ Commas[state] \notin BlockStates
        /\ Commas[state] # "stream_start"
  BY DEF Commas, Inside, BlockStates
<1>4. \A c \in Closings :
        /\ c[1] \in Inside /\ c[2] # "STREAM-END" /\ c[2] \notin OpenIds
        /\ c[2] \in CloseIds <=> c[1] \in BlockStates
  BY <1>1 DEF Closings, Inside, BlockStates, OpenIds, CloseIds
<1>5. \A o \in Openings :
        /\ o.state \in Inside /\ o.state \notin NodeStates /\ o.state # "stream_start"
        /\ o.token \in OpenIds <=> o.state \in BlockStates
        /\ o.token \notin CloseIds /\ o.token # "STREAM-END"
  BY <1>1 DEF Openings, Inside, BlockStates, NodeStates, OpenIds, CloseIds
<1>6. QED
  BY <1>2, <1>3, <1>4, <1>5

LEMMA NodesAre ==
  ASSUME Linked, ps.state \in NodeStates
  PROVE  ~ ps.first /\ ps.state \in Inside /\ ps.state \notin BlockStates
<1>1. ps.state \notin {o.state : o \in Openings}
  BY ItemsAre
<1>2. QED
  BY <1>1, NotFirst DEF Inside, NodeStates, BlockStates

(* The handlers outside the collections                                     *)
LEMMA StreamTurns ==
  ASSUME Linked,
         \/ ParseStreamStart \/ ParseImplicitDocumentStart \/ SkipDocumentEnd
         \/ ParseDocumentStart \/ ParseStreamEnd \/ ParseDocumentEnd
  PROVE  Served /\ Turn
<1>. DEFINE here == {"stream_start", "implicit_document_start", "document_start",
                     "document_end"}
<1>1. ps.state \in here /\ Served
  BY DEF ParseStreamStart, ParseImplicitDocumentStart, SkipDocumentEnd,
         ParseDocumentStart, ParseStreamEnd, ParseDocumentEnd, Parse, Served
<1>2. ps.state \in Outside /\ ps.state \notin BlockStates
  BY <1>1 DEF Outside, BlockStates
<1>3. ~ ps.first /\ DOMAIN ps = ParserFields
  <2>1. ps.state \notin {o.state : o \in Openings}
    BY <1>2, ItemsAre, Apart
  <2>2. QED
    BY <2>1, NotFirst DEF Linked, Parser
<1>4. {"implicit_document_start", "document_start", "end"} \subseteq Outside
  BY DEF Outside
<1>5. {"implicit_document_start", "document_start", "end", "document_end"}
        \cap BlockStates = {}
  BY DEF BlockStates
<1>6. {"block_node", "document_content"} \subseteq NodeStates
  BY DEF NodeStates
<1>7. /\ Neutral("STREAM-START") /\ Neutral("DOCUMENT-START") /\ Neutral("DOCUMENT-END")
      /\ Neutral("STREAM-END")
  BY DEF Neutral, OpenIds, CloseIds
<1>8. ASSUME NEW x \in {"implicit_document_start", "document_start", "end"},
              \E event : ps' = Holding(Enter(x), event), sc' = sc \/ PassOn(x)
       PROVE  Turn
  <2>1. /\ x # "stream_start" /\ x \in Outside
        /\ x \in BlockStates <=> ps.state \in BlockStates
    BY <1>2, <1>4, <1>5
  <2>2. /\ ps' = Enter(x) \/ \E event : ps' = Holding(Enter(x), event)
        /\ (ps.state \in Outside /\ x \in Outside) \/ (ps.state \in Inside /\ x \in Inside)
    BY <1>2, <1>8, <2>1
  <2>3. QED
    BY <1>3, <1>8, <2>1, <2>2, GoTurn, Zenon
<1>9. CASE ParseStreamStart
  <2>1. Peek = "STREAM-START"
    BY <1>9 DEF ParseStreamStart, Parse, Linked, Peek, Token
  <2>2. TakeToken /\ \E event : ps' = Holding(Enter("implicit_document_start"), event)
    BY <1>9 DEF ParseStreamStart, Become
  <2>3. PassOn("implicit_document_start")
    BY <1>7, <2>1, <2>2 DEF PassOn
  <2>4. QED
    BY <1>1, <1>8, <2>2, <2>3
<1>10. CASE ParseImplicitDocumentStart
  <2>1. \E event : ps' = Holding(PushState(Enter("block_node"), "document_end"), event)
    BY <1>10 DEF ParseImplicitDocumentStart, Become
  <2>2. sc' = sc
    BY <1>10 DEF ParseImplicitDocumentStart
  <2>3. QED
    BY <1>1, <1>2, <1>3, <1>5, <1>6, <2>1, <2>2, PushTurn
<1>11. CASE SkipDocumentEnd
  <2>1. ps' = ps /\ PassOn(ps.state) /\ ps.state = "document_start"
    BY <1>7, <1>11 DEF SkipDocumentEnd, PassOn, Parse
  <2>2. QED
    BY <1>1, <1>3, <2>1, StayTurn
<1>12. CASE ParseDocumentStart
  <2>1. \E event : ps' = Holding(PushState(Enter("document_content"), "document_end"), event)
    BY <1>12 DEF ParseDocumentStart, Become
  <2>2. PassOn("document_content")
    BY <1>7, <1>12 DEF ParseDocumentStart, PassOn
  <2>3. QED
    BY <1>1, <1>2, <1>3, <1>5, <1>6, <2>1, <2>2, PushTurn
<1>13. CASE ParseStreamEnd
  <2>1. \E event : ps' = Holding(Enter("end"), event)
    BY <1>13 DEF ParseStreamEnd, Become
  <2>2. PassOn("end")
    BY <1>7, <1>13 DEF ParseStreamEnd, PassOn
  <2>3. QED
    BY <1>1, <1>8, <2>1, <2>2
<1>14. CASE ParseDocumentEnd
  <2>1. \E event : ps' = Holding(Enter("document_start"), event)
    BY <1>14 DEF ParseDocumentEnd, Become
  <2>2. sc' = sc \/ PassOn("document_start")
    BY <1>7, <1>14 DEF ParseDocumentEnd, PassOn
  <2>3. QED
    BY <1>1, <1>8, <2>1, <2>2
<1>15. QED
  BY <1>9, <1>10, <1>11, <1>12, <1>13, <1>14

(* parse_document_content and parse_node                                    *)
LEMMA NodeTurns ==
  ASSUME Linked,
         \/ ParseEmptyDocument \/ ParseAlias \/ ParseAnchor \/ ParseScalar
         \/ ParseCollectionStart \/ ParseIndentlessStart \/ ParseAnchoredEmpty
  PROVE  Served /\ Turn
<1>1. ps.state \in NodeStates /\ Served
  BY DEF ParseEmptyDocument, ParseAlias, ParseAnchor, ParseScalar, ParseCollectionStart,
         ParseIndentlessStart, ParseAnchoredEmpty, AtNode, Parse, Served, NodeStates
<1>2. /\ ~ ps.first /\ ps.state \in Inside /\ ps.state \notin BlockStates
      /\ ps.state # "stream_start"
  BY <1>1, NodesAre DEF NodeStates
<1>3. Parser(ps) /\ DOMAIN ps = ParserFields
  BY DEF Linked, Parser
<1>4. Neutral("ALIAS") /\ Neutral("ANCHOR") /\ Neutral("SCALAR")
  BY DEF Neutral, OpenIds, CloseIds
<1>5. CASE ParseEmptyDocument \/ ParseAlias \/ ParseScalar \/ ParseAnchoredEmpty
  <2>1. \E event : ps' = Holding(PopState(ps), event)
    BY <1>5 DEF ParseEmptyDocument, ParseAlias, ParseScalar, ParseAnchoredEmpty, Become
  <2>2. \/ sc' = sc
        \/ TakeToken /\ Peek \in {"ALIAS", "SCALAR"}
    BY <1>5 DEF ParseEmptyDocument, ParseAlias, ParseScalar, ParseAnchoredEmpty
  <2>3. /\ DOMAIN ps' = ParserFields
        /\ ps'.state = Last(ps.states) /\ ps'.states = Front(ps.states)
        /\ ps'.first = ps.first
    BY <1>3, <2>1, Updates
  <2>4. \/ sc' = sc /\ ps.state \notin BlockStates
        \/ /\ TakeToken /\ Peek # "STREAM-END" /\ Peek \notin OpenIds
           /\ Peek \in CloseIds <=> ps.state \in BlockStates
    BY <1>2, <1>4, <2>2 DEF Neutral
  <2>5. QED
    BY <1>1, <1>2, <2>3, <2>4, PopTurn
<1>6. CASE ParseAnchor
  <2>1. /\ DOMAIN ps' = ParserFields /\ ps'.states = ps.states /\ ps'.first = ps.first
        /\ ps'.state \in NodeStates
    BY <1>1, <1>3, <1>6 DEF ParseAnchor, Become, ParserFields, NodeStates
  <2>2. TakeToken /\ Neutral(Peek) /\ Peek # "STREAM-END"
    BY <1>4, <1>6 DEF ParseAnchor
  <2>3. /\ ps'.state \in Inside /\ ps'.state \notin BlockStates
        /\ ps'.state # "stream_start"
    BY <2>1 DEF Inside, NodeStates, BlockStates
  <2>4. Parser(ps') /\ Depth(ps') = Depth(ps)
    BY <1>2, <1>3, <2>1, <2>3, Goes
  <2>5. Depth(ps) \in Int
    BY <1>3, DepthIs
  <2>6. QED
    BY <1>1, <1>2, <2>1, <2>2, <2>3, <2>4, <2>5 DEF Turn, Neutral
<1>7. CASE ParseCollectionStart
  <2>1. PICK o \in Openings : /\ o.token = Peek
                              /\ ps' = Holding([ps EXCEPT !.state = o.state, !.first = TRUE],
                                               NodeEvent(o.event, ps.anchor))
    BY <1>7 DEF ParseCollectionStart, MayOpen, Become
  <2>2. sc' = sc
    BY <1>7 DEF ParseCollectionStart
  <2>3. o.state \in Inside /\ o.state # "stream_start"
    BY ItemsAre
  <2>4. /\ DOMAIN ps' = ParserFields /\ ps'.states = ps.states /\ ps'.first = TRUE
        /\ ps'.state = o.state
    BY <1>3, <2>1 DEF Holding, ParserFields
  <2>5. Parser(ps')
    BY <1>2, <1>3, <2>3, <2>4, Apart DEF Parser
  <2>6. Depth(ps') = Depth(ps)
    BY <1>2, <2>4 DEF Depth
  <2>7. QED
    BY <1>1, <2>1, <2>2, <2>3, <2>4, <2>5, <2>6 DEF Turn
<1>8. CASE ParseIndentlessStart
  <2>1. /\ \E event : ps' = Holding(Enter("indentless_sequence_entry"), event)
        /\ sc' = sc
    BY <1>8 DEF ParseIndentlessStart, Become
  <2>2. /\ "indentless_sequence_entry" \in Inside
        /\ "indentless_sequence_entry" \notin BlockStates
    BY DEF Inside, BlockStates, Items, BlockItems
  <2>3. QED
    BY <1>1, <1>2, <2>1, <2>2, GoTurn
<1>9. QED
  BY <1>5, <1>6, <1>7, <1>8

(* The handlers of the collections' states                                  *)
LEMMA CollectionTurns ==
  ASSUME Linked,
         \/ ParseFirst \/ ParseLead \/ ParseEmptyItem \/ ParseItem \/ ParseComma
         \/ ParseCollectionEnd \/ ParseIndentlessEnd
  PROVE  Served /\ Turn
<1>1. Parser(ps) /\ DOMAIN ps = ParserFields /\ Depth(ps) \in Int
  BY DepthIs DEF Linked, Parser
<1>2. CASE ParseFirst
  <2>1. /\ Served /\ TakeToken /\ ps.first
        /\ ps' = [ps EXCEPT !.first = FALSE, !.marks = @ + 1]
    BY <1>2, ItemsAre, Apart DEF ParseFirst, Become, Parse, Served, Outside
  <2>2. PICK o \in Openings : ps.state = o.state /\ Peek = o.token
    BY <2>1 DEF Linked
  <2>3. /\ DOMAIN ps' = ParserFields /\ ps'.states = ps.states /\ ps'.state = ps.state
        /\ ~ ps'.first
    BY <1>1, <2>1 DEF ParserFields
  <2>4. /\ o.state # "stream_start" /\ (o.token \in OpenIds <=> o.state \in BlockStates)
        /\ o.token \notin CloseIds /\ o.token # "STREAM-END"
    BY ItemsAre
  <2>5. Parser(ps')
    BY <1>1, <2>3 DEF Parser
  <2>6. Depth(ps') = Depth(ps) + (IF Peek \in OpenIds THEN 1 ELSE 0)
                               - (IF Peek \in CloseIds THEN 1 ELSE 0)
    <3>1. BlocksOn(ps.states) \in Nat
      BY <1>1, BlocksAppended DEF Parser
    <3>2. QED
      BY <2>1, <2>2, <2>3, <2>4, <3>1 DEF Depth
  <2>7. QED
    BY <2>1, <2>2, <2>3, <2>4, <2>5, <2>6 DEF Turn
<1>3. CASE ParseLead
  <2>1. /\ Served /\ TakeToken /\ ~ ps.first /\ ps.state \in DOMAIN Items
        /\ Peek = Items[ps.state].lead
        /\ ps' = [ps EXCEPT !.opened = TRUE]
    BY <1>3, ItemsAre, Apart DEF ParseLead, Become, InCollection, Parse, Served, Outside
  <2>2. /\ DOMAIN ps' = ParserFields /\ ps'.states = ps.states /\ ps'.state = ps.state
        /\ ps'.first = ps.first
    BY <1>1, <2>1 DEF ParserFields
  <2>3. PassOn(ps.state) /\ ps.state # "stream_start"
    BY <2>1, ItemsAre, Apart DEF PassOn, Outside
  <2>4. QED
    BY <2>1, <2>2, <2>3, StayTurn
<1>4. CASE ParseEmptyItem
  <2>1. /\ Served /\ ~ ps.first /\ ps.state \in DOMAIN Items /\ sc' = sc
        /\ \E event : ps' = Holding(Enter(Items[ps.state].next), event)
    BY <1>4, ItemsAre, Apart DEF ParseEmptyItem, Become, InCollection, Parse, Served, Outside
  <2>. DEFINE x == Items[ps.state].next
  <2>2. /\ ps.state \in Inside /\ x \in Inside /\ x # "stream_start"
        /\ x \in BlockStates <=> ps.state \in BlockStates
    BY <2>1, ItemsAre, Apart DEF Outside
  <2>. HIDE DEF x
  <2>3. ps' = Enter(x) \/ \E event : ps' = Holding(Enter(x), event)
    BY <2>1 DEF x
  <2>4. QED
    BY <2>1, <2>2, <2>3, GoTurn
<1>5. CASE ParseItem
  <2>. DEFINE x == Items[ps.state].node
              after == Items[ps.state].next
  <2>1. /\ Served /\ ~ ps.first /\ ps.state \in DOMAIN Items /\ sc' = sc
        /\ ps' = PushState(Enter(x), after)
    BY <1>5, ItemsAre, Apart DEF ParseItem, Become, InCollection, Parse, Served, Outside
  <2>2. /\ ps.state \in Inside /\ x \in NodeStates /\ after \in Inside
        /\ after \in BlockStates <=> ps.state \in BlockStates
    BY <2>1, ItemsAre
  <2>3. x # "end"
    BY <2>2 DEF NodeStates
  <2>. HIDE DEF x, after
  <2>4. QED
    BY <2>1, <2>2, <2>3, PushTurn
<1>6. CASE ParseComma
  <2>1. /\ Served /\ ~ ps.first /\ ps.state \in DOMAIN Commas
        /\ TakeToken /\ Peek = "FLOW-ENTRY" /\ ps' = Enter(Commas[ps.state])
    BY <1>6, ItemsAre, Apart DEF ParseComma, Become, InCollection, Parse, Served, Outside
  <2>. DEFINE x == Commas[ps.state]
  <2>2. /\ ps.state \in Inside /\ x \in Inside /\ x # "stream_start"
        /\ x \in BlockStates <=> ps.state \in BlockStates
    BY <2>1, ItemsAre
  <2>3. PassOn(x)
    BY <2>1 DEF PassOn, Neutral, OpenIds, CloseIds
  <2>. HIDE DEF x
  <2>4. ps' = Enter(x) \/ \E event : ps' = Holding(Enter(x), event)
    BY <2>1 DEF x
  <2>5. QED
    BY <2>1, <2>2, <2>3, <2>4, GoTurn
<1>7. CASE ParseCollectionEnd
  <2>1. TakeToken /\ \E c \in Closings :
          /\ InCollection({c[1]}) /\ ~ ps.opened /\ Peek = c[2]
          /\ Become(Holding([PopState(ps) EXCEPT !.marks = @ - 1], NodeEvent(c[3], <<>>)))
    BY <1>7 DEF ParseCollectionEnd
  <2>2. PICK c \in Closings :
          /\ InCollection({c[1]}) /\ Peek = c[2]
          /\ Become(Holding([PopState(ps) EXCEPT !.marks = @ - 1], NodeEvent(c[3], <<>>)))
    BY <2>1
  <2>3. /\ ps.state = c[1] /\ ~ ps.first
        /\ ~ sc.ready /\ ~ NeedMoreTokens /\ UNCHANGED text
    BY <2>2 DEF InCollection, Parse
  <2>4. /\ c[1] \in Inside /\ c[2] # "STREAM-END" /\ c[2] \notin OpenIds
        /\ c[2] \in CloseIds <=> c[1] \in BlockStates
    BY ItemsAre
  <2>5. ps' = Holding([PopState(ps) EXCEPT !.marks = @ - 1], NodeEvent(c[3], <<>>))
    BY <2>2 DEF Become
  <2>6. /\ DOMAIN ps' = ParserFields
        /\ ps'.state = Last(ps.states) /\ ps'.states = Front(ps.states)
        /\ ps'.first = ps.first
    BY <1>1, <2>5 DEF Holding, PopState, ParserFields
  <2>7. Served
    BY <2>3, <2>4, Apart DEF Served, Outside
  <2>8. Turn
    BY <2>1, <2>2, <2>3, <2>4, <2>6, PopTurn
  <2>9. QED
    BY <2>7, <2>8
<1>8. CASE ParseIndentlessEnd
  <2>1. /\ Served /\ ~ ps.first /\ ps.state = "indentless_sequence_entry" /\ sc' = sc
        /\ \E event : ps' = Holding(PopState(ps), event)
    BY <1>8 DEF ParseIndentlessEnd, Become, InCollection, Parse, Served
  <2>2. ps.state \in Inside /\ ps.state \notin BlockStates
    BY <2>1 DEF Inside, BlockStates, Items, BlockItems
  <2>3. /\ DOMAIN ps' = ParserFields
        /\ ps'.state = Last(ps.states) /\ ps'.states = Front(ps.states)
        /\ ps'.first = ps.first
    BY <1>1, <2>1, Updates
  <2>4. QED
    BY <2>1, <2>2, <2>3, PopTurn
<1>9. QED
  BY <1>2, <1>3, <1>4, <1>5, <1>6, <1>7, <1>8

LEMMA OtherTurns ==
  ASSUME Linked,
         \/ ParseMissingValue \/ ParseFlowEmptyValue \/ ParseFlowPairStart
         \/ ParseFlowPairEnd \/ ParseFlowEntry \/ ParseFlowKey \/ ParseError
  PROVE  Served /\ Turn
<1>1. Parser(ps) /\ DOMAIN ps = ParserFields /\ sc' = sc /\ ~ ps.first
  BY DEF Linked, Parser, ParseMissingValue, ParseFlowEmptyValue, ParseFlowPairStart,
         ParseFlowPairEnd, ParseFlowEntry, ParseFlowKey, ParseError, InCollection
<1>2. CASE ParseError
  <2>1. Served /\ Unexpected /\ ps' = [ps EXCEPT !.error = TRUE]
    BY <1>2 DEF ParseError, Become, Parse, Served
  <2>2. ps.state # "stream_start"
    BY <2>1 DEF Unexpected, NodeStates
  <2>3. /\ DOMAIN ps' = ParserFields /\ ps'.states = ps.states /\ ps'.state = ps.state
        /\ ps'.first = ps.first
    BY <1>1, <2>1 DEF ParserFields
  <2>4. QED
    BY <1>1, <2>1, <2>2, <2>3, StayTurn
<1>3. CASE \/ ParseMissingValue \/ ParseFlowEmptyValue \/ ParseFlowPairStart
           \/ ParseFlowPairEnd
  <2>1. \E x : /\ x \in Inside /\ ps.state \in Inside
               /\ x \in BlockStates <=> ps.state \in BlockStates
               /\ \E event : ps' = Holding(Enter(x), event)
               /\ Served
    <3>1. CASE ParseMissingValue
      <4>. DEFINE x == Items[ps.state].next
      <4>1. /\ ps.state \in {"block_mapping_value", "flow_mapping_value", "flow_pair_value"}
            /\ Served /\ \E event : ps' = Holding(Enter(x), event)
        BY <3>1 DEF ParseMissingValue, Become, InCollection, Parse, Served
      <4>2. ps.state \in DOMAIN Items
        BY <4>1 DEF Items, BlockItems, FlowItems
      <4>3. /\ x \in Inside /\ ps.state \in Inside
            /\ x \in BlockStates <=> ps.state \in BlockStates
        BY <4>2, ItemsAre
      <4>. HIDE DEF x
      <4>4. QED
        BY <4>1, <4>3
    <3>2. CASE ParseFlowEmptyValue
      <4>1. /\ ps.state = "flow_mapping_empty_value" /\ Served
            /\ \E event : ps' = Holding(Enter("flow_mapping_key"), event)
        BY <3>2 DEF ParseFlowEmptyValue, Become, InCollection, Parse, Served
      <4>2. QED
        BY <4>1 DEF Inside, BlockStates
    <3>3. CASE ParseFlowPairStart
      <4>1. /\ ps.state = "flow_sequence_item" /\ Served
            /\ \E event : ps' = Holding(Enter("flow_pair_key"), event)
        BY <3>3 DEF ParseFlowPairStart, Become, InCollection, Parse, Served
      <4>2. "flow_pair_key" \in Inside
        BY DEF Inside, Items, FlowItems
      <4>3. QED
        BY <4>1, <4>2 DEF Inside, BlockStates
    <3>4. CASE ParseFlowPairEnd
      <4>1. /\ ps.state = "flow_pair_end" /\ Served
            /\ \E event : ps' = Holding(Enter("flow_sequence_entry"), event)
        BY <3>4 DEF ParseFlowPairEnd, Become, InCollection, Parse, Served
      <4>2. QED
        BY <4>1 DEF Inside, BlockStates
    <3>5. QED
      BY <1>3, <3>1, <3>2, <3>3, <3>4
  <2>2. PICK x : /\ x \in Inside /\ ps.state \in Inside
                 /\ x \in BlockStates <=> ps.state \in BlockStates
                 /\ \E event : ps' = Holding(Enter(x), event)
    BY <2>1
  <2>3. x # "stream_start"
    BY <2>2, Apart DEF Outside
  <2>4. QED
    BY <1>1, <2>1, <2>2, <2>3, GoTurn
<1>4. CASE ParseFlowEntry \/ ParseFlowKey
  <2>1. \E after \in {"flow_sequence_entry", "flow_mapping_empty_value"} :
          ps' = PushState(Enter("flow_node"), after)
    BY <1>4 DEF ParseFlowEntry, ParseFlowKey, Become
  <2>2. ps.state \in {"flow_sequence_item", "flow_mapping_item"} /\ Served
    BY <1>4 DEF ParseFlowEntry, ParseFlowKey, InCollection, Parse, Served
  <2>3. PICK after \in {"flow_sequence_entry", "flow_mapping_empty_value"} :
          ps' = PushState(Enter("flow_node"), after)
    BY <2>1
  <2>4. /\ ps.state \in Inside /\ after \in Inside
        /\ after \notin BlockStates /\ ps.state \notin BlockStates
        /\ "flow_node" \in NodeStates
    BY <2>2, <2>3 DEF Inside, BlockStates, NodeStates
  <2>5. Turn
    BY <1>1, <2>3, <2>4, PushTurn
  <2>6. QED
    BY <2>2, <2>5
<1>5. QED
  BY <1>2, <1>3, <1>4

LEMMA ParseKeeps ==
  ASSUME Linked, ParseEvent
  PROVE  Linked' /\ sc.tokens # <<>>
<1>1. Served /\ Turn
  BY StreamTurns, NodeTurns, CollectionTurns, OtherTurns DEF ParseEvent
<1>2. QED
  BY <1>1, TurnKeeps, TokenThere

-----------------------------------------------------------------------------
(* The whole load: it starts linked, and every step leaves it so.           *)

NewLoad == ps = NewParser /\ \E t : sc = ScannerOf(t)

LEMMA NewIsLinked == NewLoad => Linked
<1>. SUFFICES ASSUME NEW t, sc = ScannerOf(t), ps = NewParser
              PROVE  Linked
  BY DEF NewLoad
<1>1. /\ DOMAIN sc = Fields /\ sc.tokens = <<Token("STREAM-START")>>
      /\ sc.indents = <<-1>> /\ sc.taken = 0 /\ sc.keys = {}
      /\ sc.ready = FALSE /\ sc.done = FALSE
  BY DEF ScannerOf, NewScanner, Fields
<1>2. /\ DOMAIN ps = ParserFields /\ ps.state = "stream_start" /\ ps.states = <<>>
      /\ ps.first = FALSE
  BY DEF NewParser, ParserFields
<1>3. Sequence(sc.tokens) /\ Len(sc.tokens) = 1 /\ sc.tokens[1].id = "STREAM-START"
  <2>1. PICK token : token = Token("STREAM-START")
    OBVIOUS
  <2>2. sc.tokens = <<token>> /\ token.id = "STREAM-START"
    BY <1>1, <2>1 DEF Token
  <2>3. sc.tokens \in Seq({token}) /\ Len(sc.tokens) = 1 /\ sc.tokens[1] = token
    BY <2>2
  <2>4. QED
    BY <2>2, <2>3 DEF Sequence
<1>4. Sequence(sc.indents) /\ Len(sc.indents) = 1
  <2>1. sc.indents \in Seq({-1})
    BY <1>1
  <2>2. QED
    BY <1>1, <2>1 DEF Sequence
<1>5. Scanner(sc)
  BY <1>1, <1>3, <1>4 DEF Scanner, Waiting
<1>6. Sequence(<<>>)
  <2>1. <<>> \in Seq({})
    OBVIOUS
  <2>2. QED
    BY <2>1 DEF Sequence
<1>7. Parser(ps)
  BY <1>2, <1>6 DEF Parser, Outside
<1>8. Cardinality({}) = 0
  BY FS_EmptySet
<1>9. Balance(sc) = 1
  <2>1. Spots(sc.tokens, OpenIds) = {} /\ Spots(sc.tokens, CloseIds) = {}
    BY <1>3 DEF Spots, OpenIds, CloseIds
  <2>2. QED
    BY <1>4, <1>8, <2>1 DEF Balance, Count
<1>10. Depth(ps) = 0
  <2>1. {i \in 1..Len(ps.states) : ps.states[i] \in BlockStates} = {}
    BY <1>2
  <2>2. BlocksOn(ps.states) = 0
    BY <1>8, <2>1, Zenon DEF BlocksOn
  <2>3. QED
    BY <1>2, <2>2 DEF Depth, BlockStates
<1>11. QED
  BY <1>1, <1>2, <1>5, <1>7, <1>9, <1>10 DEF Linked

(* No token is fetched before the first one is taken, nor while a           *)
(* collection is only announced, nor after the last one.                    *)
LEMMA FetchKeepsLinked ==
  ASSUME Linked, FetchMoreTokens
  PROVE  Linked'
<1>1. ~ Failed /\ ps' = ps /\ (sc.ready \/ NeedMoreTokens)
  BY DEF FetchMoreTokens, ScanToNextToken, FetchStreamEnd, FetchDocumentIndicator,
         FetchFlowStart, FetchFlowEnd, FetchFlowEntry, FetchBlockEntry, FetchKey,
         FetchValue, FetchAnchor, FetchFlowScalar, FetchPlain, FetchError, Fetch
<1>2. ~ sc.done
  BY <1>1 DEF Linked, NeedMoreTokens
<1>3. ~ ps.first
  BY <1>1 DEF Linked
<1>4. ps.state # "stream_start"
  <2>1. SUFFICES ASSUME ps.state = "stream_start"
                 PROVE  ~ NeedMoreTokens /\ ~ sc.ready
    BY <1>1
  <2>2. /\ sc.tokens = <<Token("STREAM-START")>> /\ sc.keys = {} /\ ~ sc.ready
        /\ DOMAIN sc = Fields
    BY <2>1 DEF Linked, Scanner
  <2>3. StaleKeys(sc) = {}
    BY <2>2 DEF StaleKeys
  <2>. DEFINE s == DropStaleKeys(sc)
  <2>4. s.keys = {} /\ (s.error => sc.error)
    BY <2>2, <2>3 DEF DropStaleKeys, Raise, Fields
  <2>. HIDE DEF s
  <2>5. ~ sc.error
    BY <1>1 DEF Failed
  <2>6. sc.tokens # <<>>
    BY <2>2
  <2>7. QED
    BY <2>2, <2>4, <2>5, <2>6 DEF NeedMoreTokens, s
<1>5. Scanner(sc') /\ Balance(sc') = Balance(sc)
      /\ (sc'.done => /\ sc'.keys = {} /\ ~ sc'.ready /\ sc'.tokens # <<>>
                      /\ sc'.tokens[Len(sc'.tokens)].id = "STREAM-END")
  <2>1. CASE FetchStreamEnd
    BY <2>1, StreamEndKeeps DEF Linked
  <2>2. CASE ~ FetchStreamEnd
    BY <1>2, <2>2, FetchKeeps DEF Linked, Keeps
  <2>3. QED
    BY <2>1, <2>2
<1>6. Parser(ps') /\ Depth(ps') = Depth(ps)
  BY <1>1 DEF Linked
<1>7. QED
  BY <1>1, <1>3, <1>4, <1>5, <1>6 DEF Linked

(* The composer takes the parser's event and no more.                       *)
LEMMA ComposeKeepsLinked ==
  ASSUME Linked, ComposeEvent
  PROVE  Linked'
<1>1. ps' = [ps EXCEPT !.event = NoEvent] /\ sc' = sc /\ text' = text
  BY DEF ComposeEvent, ComposeMark, ComposeDocument, ComposeDocumentEnd, ComposeAlias,
         ComposeScalar, ComposeCollection, ComposeCollectionEnd, Compose
<1>2. /\ DOMAIN ps' = ParserFields /\ ps'.state = ps.state /\ ps'.states = ps.states
      /\ ps'.first = ps.first
  BY <1>1 DEF Linked, Parser, ParserFields
<1>3. Parser(ps') /\ Depth(ps') = Depth(ps)
  BY <1>2 DEF Linked, Parser, Depth
<1>4. NeedMoreTokens' = NeedMoreTokens /\ Peek' = Peek
  BY <1>1, SameNeed DEF Peek
<1>5. QED
  BY <1>1, <1>2, <1>3, <1>4 DEF Linked

IInv == Linked /\ (phase = "dump" => ps = NewParser)

LEMMA InitLinked ==
  ASSUME Init
  PROVE  IInv
<1>1. NewLoad
  BY DEF Init, LoadInit, NewLoad
<1>2. QED
  BY <1>1, NewIsLinked DEF IInv, NewLoad

LEMMA UnchangedLinked ==
  ASSUME Linked, UNCHANGED <<text, sc, ps>>
  PROVE  Linked'
<1>1. NeedMoreTokens' = NeedMoreTokens /\ Peek' = Peek
  BY SameNeed DEF Peek
<1>2. QED
  BY <1>1 DEF Linked

LEMMA NextLinked ==
  ASSUME IInv, [Next]_vars
  PROVE  IInv'
<1>1. CASE phase = "dump" /\ DumpNext /\ UNCHANGED <<loadVars, phase>>
  BY <1>1, UnchangedLinked DEF IInv, loadVars
<1>2. CASE Reread
  <2>1. NewLoad' /\ phase' = "load"
    BY <1>2 DEF Reread, IInv, NewLoad
  <2>2. NewLoad' => Linked'
    BY NewIsLinked, PTL
  <2>3. QED
    BY <2>1, <2>2 DEF IInv
<1>3. CASE phase = "load" /\ LoadNext /\ UNCHANGED <<dumpVars, phase>>
  <2>1. Linked /\ phase' = "load"
    BY <1>3 DEF IInv
  <2>2. CASE Finish
    BY <2>1, <2>2, UnchangedLinked DEF Finish, IInv
  <2>3. QED
    BY <1>3, <2>1, <2>2, FetchKeepsLinked, ParseKeeps, ComposeKeepsLinked
       DEF LoadNext, IInv
<1>4. CASE UNCHANGED vars
  BY <1>4, UnchangedLinked DEF IInv, vars, loadVars
<1>5. QED
  BY <1>1, <1>2, <1>3, <1>4 DEF Next, Terminated

LEMMA AlwaysLinked == Spec => []IInv
BY InitLinked, NextLinked, PTL DEF Spec

(* A possible simple key still stands in the queue, so the KEY and the      *)
(* BLOCK-MAPPING-START of a later ':' come before the tokens of that key:   *)
(* fetch_value inserts at key.token_number - tokens_taken, which is never   *)
(* negative and never past the end.  Whatever the text, also one that       *)
(* raises an error.                                                         *)
THEOREM KeysStayInQueue == Spec => []KeysWait
<1>1. IInv => KeysWait
  BY DEF IInv, Linked, Scanner, Waiting, KeysWait
<1>2. QED
  BY <1>1, AlwaysLinked, PTL

(* The scanner's indents and the parser's stack agree on the block          *)
(* collections that are open, through nothing but the tokens in between:    *)
(* no BLOCK-END is given out twice, none is forgotten, and no text leaves   *)
(* the parser in a block that the scanner has unwound.                      *)
THEOREM IndentsAgree == Spec => []IndentsMatch
<1>1. IInv => IndentsMatch
  <2>1. SUFFICES ASSUME Linked
                 PROVE  IndentsMatch
    BY DEF IInv
  <2>2. Scanner(sc) /\ Sequence(ps.states) /\ Balance(sc) = 1 + Depth(ps)
    BY <2>1 DEF Linked, Parser
  <2>3. /\ Queued({"BLOCK-SEQUENCE-START", "BLOCK-MAPPING-START"}) = Count(sc.tokens, OpenIds)
        /\ Queued({"BLOCK-END"}) = Count(sc.tokens, CloseIds)
    BY DEF Queued, Count, Spots, OpenIds, CloseIds
  <2>4. InBlocks = Depth(ps)
    <3>. DEFINE stack == Append(ps.states, ps.state)
    <3>1. InBlocks = BlocksOn(stack)
                       - (IF ps.first /\ ps.state \in BlockStates THEN 1 ELSE 0)
      BY DEF InBlocks, BlocksOn
    <3>2. /\ BlocksOn(ps.states) \in Nat
          /\ BlocksOn(stack) =
               BlocksOn(ps.states) + IF ps.state \in BlockStates THEN 1 ELSE 0
      BY <2>2, BlocksAppended
    <3>. HIDE DEF stack
    <3>3. CASE ps.state \in BlockStates
      BY <3>1, <3>2, <3>3 DEF Depth
    <3>4. CASE ps.state \notin BlockStates
      BY <3>1, <3>2, <3>4 DEF Depth
    <3>5. QED
      BY <3>3, <3>4
  <2>5. /\ Len(sc.indents) \in Nat /\ Depth(ps) \in Int
        /\ Count(sc.tokens, OpenIds) \in Nat /\ Count(sc.tokens, CloseIds) \in Nat
    BY <2>1, <2>2, BalanceIs, DepthIs DEF Linked
  <2>6. QED
    BY <2>2, <2>3, <2>4, <2>5 DEF IndentsMatch, Balance
<1>2. QED
  BY <1>1, AlwaysLinked, PTL

(* No handler of the parser looks at an empty queue: peek_token and         *)
(* get_token, which would give it None, are only called when the scanner    *)
(* has a token, up to the STREAM-END that ends the last document.           *)
THEOREM ParserHasAToken == Spec => [][ParseEvent => sc.tokens # <<>>]_vars
<1>1. IInv /\ [Next]_vars => [ParseEvent => sc.tokens # <<>>]_vars
  BY ParseKeeps DEF IInv
<1>2. QED
  BY <1>1, AlwaysLinked, PTL DEF Spec

(* parse_block_mapping_first_key and its like drop the token in front       *)
(* without looking at it.  It is the start of the collection that the       *)
(* parser announced an event ago, whatever was composed in between.         *)
THEOREM FirstTokenStays ==
  Spec => [](ps.first => \E o \in Openings : ps.state = o.state /\ Peek = o.token)
<1>1. IInv => (ps.first => \E o \in Openings : ps.state = o.state /\ Peek = o.token)
  BY DEF IInv, Linked
<1>2. QED
  BY <1>1, AlwaysLinked, PTL

-----------------------------------------------------------------------------
(* The parser and the composer.  The composer's stack holds the nodes still *)
(* open, from the outermost; the parser's holds where it goes on in each    *)
(* of them.  They share only the events: each collection that the parser is *)
(* in has its node, of its kind, at its place of the composer's stack.      *)

SeqStates == {"block_sequence_entry", "indentless_sequence_entry", "flow_sequence_item",
              "flow_sequence_entry"}
MapStates == {"block_mapping_key", "block_mapping_value", "flow_mapping_key",
              "flow_mapping_item", "flow_mapping_value", "flow_mapping_empty_value"}
(* in a mapping of one pair, which is an entry of a sequence                *)
PairStates == {"flow_pair_key", "flow_pair_value", "flow_pair_end"}

Weight(state) == IF state \in SeqStates \cup MapStates THEN 1
                 ELSE IF state \in PairStates THEN 2 ELSE 0

(* What the kinds of the open nodes are, when state is in the m-th          *)
Right(state, kinds, m) ==
  /\ state \in SeqStates => kinds[m] = "seq"
  /\ state \in MapStates => kinds[m] = "map"
  /\ state \in PairStates => kinds[m] = "map" /\ kinds[m - 1] = "seq"

Alike(x, y) == /\ x \in SeqStates <=> y \in SeqStates
               /\ x \in MapStates <=> y \in MapStates
               /\ x \in PairStates <=> y \in PairStates

(* d[i] nodes are open below the i-th state of the stack.                   *)
Climbs(states, kinds, d) ==
  /\ Sequence(d) /\ Len(d) = Len(states) + 1 /\ d[1] = 0
  /\ \A i \in 1..Len(d) : d[i] \in Nat
  /\ \A i, j \in 1..Len(d) : i <= j => d[i] <= d[j]
  /\ \A i \in 1..Len(states) :
       d[i + 1] = d[i] + Weight(states[i]) /\ Right(states[i], kinds, d[i + 1])

Aligned(states, state, kinds) ==
  /\ Sequence(states) /\ Sequence(kinds)
  /\ Right(state, kinds, Len(kinds))
  /\ \E d : Climbs(states, kinds, d) /\ Len(kinds) = d[Len(states) + 1] + Weight(state)

LEMMA WeightIs ==
  ASSUME NEW state
  PROVE  /\ Weight(state) \in Nat
         /\ state \in SeqStates \cup MapStates => Weight(state) = 1
         /\ state \in PairStates => Weight(state) = 2
         /\ ~ (state \in SeqStates /\ state \in MapStates)
         /\ ~ (state \in SeqStates \cup MapStates /\ state \in PairStates)
BY DEF Weight, SeqStates, MapStates, PairStates

LEMMA AlikeIs ==
  ASSUME NEW x, NEW y, Alike(x, y)
  PROVE  Weight(x) = Weight(y) /\ \A kinds, m : Right(x, kinds, m) <=> Right(y, kinds, m)
BY DEF Alike, Weight, Right

(* More kinds on top, or fewer, do not matter to the states below.          *)
LEMMA ClimbsStill ==
  ASSUME NEW states, NEW kinds, NEW more, NEW d, Climbs(states, kinds, d),
         Sequence(states),
         \A m \in 1..d[Len(states) + 1] : more[m] = kinds[m]
  PROVE  Climbs(states, more, d)
<1>1. Len(states) \in Nat
  BY LengthIs
<1>2. ASSUME NEW i \in 1..Len(states)
      PROVE  Right(states[i], more, d[i + 1])
  <2>. DEFINE m == d[i + 1]
  <2>1. /\ i \in 1..Len(d) /\ i + 1 \in 1..Len(d) /\ Len(states) + 1 \in 1..Len(d)
        /\ i + 1 <= Len(states) + 1
    BY <1>1 DEF Climbs
  <2>2. /\ d[i] \in Nat /\ m \in Nat /\ d[Len(states) + 1] \in Nat
        /\ m <= d[Len(states) + 1]
        /\ m = d[i] + Weight(states[i]) /\ Right(states[i], kinds, m)
    BY <2>1 DEF Climbs
  <2>. HIDE DEF m
  <2>3. CASE states[i] \in SeqStates \cup MapStates
    <3>1. m \in 1..d[Len(states) + 1] /\ states[i] \notin PairStates
      BY <2>2, <2>3, WeightIs
    <3>2. QED
      BY <2>2, <3>1 DEF Right, m
  <2>4. CASE states[i] \in PairStates
    <3>1. /\ m \in 1..d[Len(states) + 1] /\ m - 1 \in 1..d[Len(states) + 1]
          /\ states[i] \notin SeqStates \cup MapStates
      BY <2>2, <2>4, WeightIs
    <3>2. QED
      BY <2>2, <3>1 DEF Right, m
  <2>5. QED
    BY <2>3, <2>4 DEF Right
<1>3. QED
  BY <1>2 DEF Climbs

(* From a state to one like it.                                             *)
LEMMA AlignedGo ==
  ASSUME NEW states, NEW x, NEW y, NEW kinds, Aligned(states, x, kinds), Alike(x, y)
  PROVE  Aligned(states, y, kinds)
BY AlikeIs DEF Aligned

(* Into a node                                                              *)
LEMMA AlignedPush ==
  ASSUME NEW states, NEW x, NEW after, NEW y, NEW kinds, Aligned(states, x, kinds),
         Alike(x, after), Weight(y) = 0
  PROVE  Aligned(Append(states, after), y, kinds)
<1>. DEFINE n == Len(states)
            q == Append(states, after)
<1>1. PICK d : Climbs(states, kinds, d) /\ Len(kinds) = d[n + 1] + Weight(x)
  BY DEF Aligned
<1>2. n \in Nat /\ Sequence(states) /\ Sequence(kinds) /\ Len(kinds) \in Nat
  BY LengthIs DEF Aligned
<1>3. /\ Sequence(q) /\ Len(q) = n + 1
      /\ \A i \in 1..n : q[i] = states[i]
      /\ q[n + 1] = after
  BY <1>2, AppendIs
<1>. DEFINE e == Append(d, Len(kinds))
<1>4. /\ Sequence(e) /\ Len(e) = n + 2
      /\ \A i \in 1..(n + 1) : e[i] = d[i]
      /\ e[n + 2] = Len(kinds)
  <2>1. Sequence(d) /\ Len(d) = n + 1
    BY <1>1 DEF Climbs
  <2>2. /\ Sequence(e) /\ Len(e) = Len(d) + 1
        /\ \A i \in 1..Len(d) : e[i] = d[i]
        /\ e[Len(d) + 1] = Len(kinds)
    BY <2>1, AppendIs
  <2>3. QED
    BY <1>2, <2>1, <2>2
<1>. HIDE DEF n, q, e
<1>5. /\ d[1] = 0 /\ \A i \in 1..(n + 1) : d[i] \in Nat
      /\ \A i, j \in 1..(n + 1) : i <= j => d[i] <= d[j]
      /\ \A i \in 1..n :
           d[i + 1] = d[i] + Weight(states[i]) /\ Right(states[i], kinds, d[i + 1])
  BY <1>1, <1>2 DEF Climbs, n
<1>6. Weight(after) = Weight(x) /\ Weight(x) \in Nat /\ Right(after, kinds, Len(kinds))
  BY AlikeIs, WeightIs DEF Aligned
<1>7. d[n + 1] <= Len(kinds) /\ d[n + 1] \in Nat
  BY <1>1, <1>2, <1>5, <1>6 DEF n
<1>8. \A i \in 1..(n + 2) : e[i] \in Nat
  BY <1>2, <1>4, <1>5
<1>9. ASSUME NEW i \in 1..(n + 2), NEW j \in 1..(n + 2), i <= j
      PROVE  e[i] <= e[j]
  <2>1. CASE j \in 1..(n + 1)
    BY <1>2, <1>4, <1>5, <1>9, <2>1
  <2>2. CASE j = n + 2 /\ i \in 1..(n + 1)
    <3>1. d[i] <= d[n + 1] /\ d[i] \in Nat
      BY <1>2, <1>5, <2>2
    <3>2. e[i] = d[i] /\ e[j] = Len(kinds)
      BY <1>4, <2>2
    <3>3. QED
      BY <1>2, <1>7, <3>1, <3>2
  <2>3. CASE j = n + 2 /\ i = n + 2
    BY <1>2, <1>4, <2>3
  <2>4. QED
    BY <1>2, <2>1, <2>2, <2>3
<1>10. ASSUME NEW i \in 1..(n + 1)
       PROVE  e[i + 1] = e[i] + Weight(q[i]) /\ Right(q[i], kinds, e[i + 1])
  <2>1. CASE i \in 1..n
    BY <1>2, <1>3, <1>4, <1>5, <2>1
  <2>2. CASE i = n + 1
    <3>1. e[i + 1] = Len(kinds) /\ e[i] = d[n + 1] /\ q[i] = after
      BY <1>2, <1>3, <1>4, <2>2
    <3>2. QED
      BY <1>1, <1>6, <3>1 DEF n
  <2>3. QED
    BY <1>2, <2>1, <2>2
<1>11. Climbs(q, kinds, e)
  <2>1. e[1] = 0 /\ Len(e) = Len(q) + 1
    BY <1>2, <1>3, <1>4, <1>5
  <2>2. QED
    BY <1>3, <1>4, <1>8, <1>9, <1>10, <2>1 DEF Climbs
<1>12. Len(kinds) = e[Len(q) + 1] + Weight(y)
  BY <1>2, <1>3, <1>4
<1>13. Right(y, kinds, Len(kinds))
  <2>1. y \notin SeqStates /\ y \notin MapStates /\ y \notin PairStates
    BY WeightIs
  <2>2. QED
    BY <2>1 DEF Right
<1>14. QED
  BY <1>2, <1>3, <1>11, <1>12, <1>13 DEF Aligned, q

(* Back to the state below, and out of what x was in                        *)
LEMMA AlignedPop ==
  ASSUME NEW states, NEW x, NEW kinds, Aligned(states, x, kinds), states # <<>>,
         NEW fewer, Sequence(fewer), Len(fewer) = Len(kinds) - Weight(x),
         \A m \in 1..Len(fewer) : fewer[m] = kinds[m]
  PROVE  Aligned(Front(states), Last(states), fewer)
<1>. DEFINE n == Len(states)
            q == Front(states)
<1>1. PICK d : Climbs(states, kinds, d) /\ Len(kinds) = d[n + 1] + Weight(x)
  BY DEF Aligned
<1>2. /\ Sequence(states) /\ n \in Nat /\ n >= 1 /\ n + 1 \in 1..(n + 1)
      /\ Len(kinds) \in Nat /\ Len(fewer) \in Nat
  BY LengthIs DEF Aligned
<1>3. /\ Sequence(q) /\ Len(q) = n - 1 /\ Last(states) = states[n]
      /\ \A i \in 1..(n - 1) : q[i] = states[i]
  BY <1>2, BlocksPopped
<1>4. /\ Sequence(d) /\ Len(d) = n + 1 /\ d[1] = 0
      /\ \A i \in 1..(n + 1) : d[i] \in Nat
      /\ \A i, j \in 1..(n + 1) : i <= j => d[i] <= d[j]
  BY <1>1, <1>2 DEF Climbs
<1>5. Len(fewer) = d[n + 1]
  <2>1. d[n + 1] \in Nat /\ Weight(x) \in Nat
    BY <1>2, <1>4, WeightIs
  <2>2. QED
    BY <1>1, <2>1
<1>6. Climbs(states, fewer, d)
  <2>1. \A m \in 1..d[n + 1] : fewer[m] = kinds[m]
    BY <1>5
  <2>2. QED
    BY <1>1, <1>2, <2>1, ClimbsStill
<1>7. \A i \in 1..n : d[i + 1] = d[i] + Weight(states[i]) /\ Right(states[i], fewer, d[i + 1])
  BY <1>6 DEF Climbs
<1>. DEFINE e == Front(d)
<1>8. /\ Sequence(e) /\ Len(e) = n
      /\ \A i \in 1..n : e[i] = d[i]
  <2>1. d # <<>>
    BY <1>2, <1>4, LengthIs
  <2>2. /\ Sequence(e) /\ Len(e) = Len(d) - 1
        /\ \A i \in 1..(Len(d) - 1) : e[i] = d[i]
    BY <1>4, <2>1, BlocksPopped
  <2>3. QED
    BY <1>2, <1>4, <2>2
<1>. HIDE DEF n, q, e
<1>9. Climbs(q, fewer, e)
  <2>1. e[1] = 0 /\ Len(e) = Len(q) + 1
    BY <1>2, <1>3, <1>4, <1>8
  <2>2. /\ \A i \in 1..n : e[i] \in Nat
        /\ \A i, j \in 1..n : i <= j => e[i] <= e[j]
    BY <1>2, <1>4, <1>8
  <2>3. ASSUME NEW i \in 1..(n - 1)
        PROVE  e[i + 1] = e[i] + Weight(q[i]) /\ Right(q[i], fewer, e[i + 1])
    <3>1. i \in 1..n /\ i + 1 \in 1..n
      BY <1>2
    <3>2. QED
      BY <1>3, <1>7, <1>8, <3>1
  <2>4. QED
    BY <1>3, <1>8, <2>1, <2>2, <2>3 DEF Climbs
<1>10. /\ Len(fewer) = e[Len(q) + 1] + Weight(Last(states))
       /\ Right(Last(states), fewer, Len(fewer))
  <2>1. n \in 1..n /\ Len(q) + 1 = n
    BY <1>2, <1>3
  <2>2. QED
    BY <1>3, <1>5, <1>7, <1>8, <2>1
<1>11. QED
  BY <1>3, <1>9, <1>10 DEF Aligned, q

(* Into a collection, or out of one, whose state follows at the same place  *)
LEMMA AlignedGrow ==
  ASSUME NEW states, NEW x, NEW y, NEW kinds, NEW kind, Aligned(states, x, kinds),
         Weight(y) = Weight(x) + 1,
         Right(y, Append(kinds, kind), Len(kinds) + 1)
  PROVE  Aligned(states, y, Append(kinds, kind))
<1>. DEFINE more == Append(kinds, kind)
<1>1. PICK d : Climbs(states, kinds, d) /\ Len(kinds) = d[Len(states) + 1] + Weight(x)
  BY DEF Aligned
<1>2. /\ Sequence(more) /\ Len(more) = Len(kinds) + 1 /\ Len(kinds) \in Nat
      /\ \A m \in 1..Len(kinds) : more[m] = kinds[m]
  BY AppendIs, LengthIs DEF Aligned
<1>3. d[Len(states) + 1] \in Nat /\ Sequence(states)
  <2>1. Len(states) \in Nat /\ Sequence(states)
    BY LengthIs DEF Aligned
  <2>2. QED
    BY <1>1, <2>1 DEF Climbs
<1>4. Weight(x) \in Nat
  BY WeightIs
<1>. HIDE DEF more
<1>5. Climbs(states, more, d)
  <2>1. \A m \in 1..d[Len(states) + 1] : more[m] = kinds[m]
    BY <1>1, <1>2, <1>3, <1>4
  <2>2. QED
    BY <1>1, <1>3, <2>1, ClimbsStill
<1>6. Len(more) = d[Len(states) + 1] + Weight(y)
  <2>1. PICK v : v = d[Len(states) + 1]
    OBVIOUS
  <2>2. v \in Nat /\ Len(kinds) = v + Weight(x)
    BY <1>1, <1>3, <2>1
  <2>3. Len(more) = v + Weight(y)
    BY <1>2, <1>4, <2>2
  <2>4. QED
    BY <2>1, <2>3
<1>7. QED
  BY <1>2, <1>3, <1>5, <1>6 DEF Aligned, more

LEMMA AlignedShrink ==
  ASSUME NEW states, NEW x, NEW y, NEW kinds, NEW fewer, Aligned(states, x, kinds),
         Sequence(fewer), Weight(x) = Weight(y) + 1, Len(kinds) = Len(fewer) + 1,
         \A m \in 1..Len(fewer) : fewer[m] = kinds[m],
         Right(y, fewer, Len(fewer))
  PROVE  Aligned(states, y, fewer)
<1>1. PICK d : Climbs(states, kinds, d) /\ Len(kinds) = d[Len(states) + 1] + Weight(x)
  BY DEF Aligned
<1>2. d[Len(states) + 1] \in Nat /\ Sequence(states)
  <2>1. Len(states) \in Nat /\ Sequence(states)
    BY LengthIs DEF Aligned
  <2>2. QED
    BY <1>1, <2>1 DEF Climbs
<1>3. Weight(y) \in Nat /\ Len(fewer) \in Nat
  BY WeightIs, LengthIs
<1>4. Len(fewer) = d[Len(states) + 1] + Weight(y)
  BY <1>1, <1>2, <1>3
<1>5. Climbs(states, fewer, d)
  <2>1. \A m \in 1..d[Len(states) + 1] : fewer[m] = kinds[m]
    BY <1>2, <1>3, <1>4
  <2>2. QED
    BY <1>1, <1>2, <2>1, ClimbsStill
<1>6. QED
  BY <1>2, <1>4, <1>5 DEF Aligned

(* The nodes the composer has so far: whatever refers to one refers to one  *)
(* of them.                                                                 *)
NodeFields == {"kind", "tag", "value", "kids"}
Graph(c) ==
  /\ DOMAIN c = {"stack", "nodes", "anchors", "error"}
  /\ Sequence(c.stack) /\ Sequence(c.nodes)
  /\ \A j \in 1..Len(c.stack) : c.stack[j] \in 1..Len(c.nodes)
  /\ \A a \in c.anchors : a[2] \in 1..Len(c.nodes)
  /\ \A n \in 1..Len(c.nodes) :
       /\ DOMAIN c.nodes[n] = NodeFields
       /\ Sequence(c.nodes[n].kids)
       /\ \A k \in 1..Len(c.nodes[n].kids) : c.nodes[n].kids[k] \in 1..Len(c.nodes)

(* What a step of the composer that adds at most a node leaves as it is     *)
Extends(c, e) ==
  /\ Graph(e) /\ e.stack = c.stack
  /\ Len(e.nodes) \in Nat /\ Len(c.nodes) <= Len(e.nodes)
  /\ \A n \in 1..Len(c.nodes) : e.nodes[n].kind = c.nodes[n].kind

LEMMA GraphIs ==
  ASSUME NEW c, Graph(c)
  PROVE  Len(c.stack) \in Nat /\ Len(c.nodes) \in Nat
BY LengthIs DEF Graph

LEMMA AddChildIs ==
  ASSUME NEW c, Graph(c), NEW i \in 1..Len(c.nodes)
  PROVE  /\ Extends(c, AddChild(c, i)) /\ Len(AddChild(c, i).nodes) = Len(c.nodes)
         /\ AddChild(c, i).anchors = c.anchors
<1>1. Len(c.stack) \in Nat /\ Len(c.nodes) \in Nat
  BY GraphIs
<1>2. CASE c.stack = <<>>
  <2>1. AddChild(c, i) = c
    BY <1>2 DEF AddChild
  <2>2. QED
    BY <1>1, <2>1 DEF Extends
<1>3. CASE c.stack # <<>>
  <2>. DEFINE p == Last(c.stack)
              kids == Append(c.nodes[p].kids, i)
              nodes == [c.nodes EXCEPT ![p] = [c.nodes[p] EXCEPT !.kids = kids]]
              e == AddChild(c, i)
  <2>1. p \in 1..Len(c.nodes)
    <3>1. Len(c.stack) # 0
      BY <1>3, LengthIs DEF Graph
    <3>2. p = c.stack[Len(c.stack)] /\ Len(c.stack) \in 1..Len(c.stack)
      BY <1>1, <3>1 DEF Last
    <3>. HIDE DEF p
    <3>3. QED
      BY <3>2 DEF Graph
  <2>2. e = [c EXCEPT !.nodes = nodes]
    BY <1>3 DEF AddChild
  <2>3. /\ DOMAIN e = {"stack", "nodes", "anchors", "error"}
        /\ e.nodes = nodes /\ e.stack = c.stack /\ e.anchors = c.anchors
    BY <2>2 DEF Graph
  <2>4. /\ Sequence(c.nodes[p].kids) /\ DOMAIN c.nodes[p] = NodeFields
        /\ \A k \in 1..Len(c.nodes[p].kids) : c.nodes[p].kids[k] \in 1..Len(c.nodes)
    BY <2>1 DEF Graph
  <2>5. /\ Sequence(kids) /\ Len(kids) = Len(c.nodes[p].kids) + 1
        /\ \A k \in 1..Len(c.nodes[p].kids) : kids[k] = c.nodes[p].kids[k]
        /\ kids[Len(c.nodes[p].kids) + 1] = i
    BY <2>4, AppendIs
  <2>6. Len(c.nodes[p].kids) \in Nat
    BY <2>4, LengthIs
  <2>. HIDE DEF p, kids
  <2>7. ASSUME NEW k \in 1..Len(kids)
        PROVE  kids[k] \in 1..Len(c.nodes)
    <3>1. k \in 1..Len(c.nodes[p].kids) \/ k = Len(c.nodes[p].kids) + 1
      BY <2>5, <2>6
    <3>2. QED
      BY <2>4, <2>5, <3>1
  <2>8. /\ Sequence(nodes) /\ Len(nodes) = Len(c.nodes)
        /\ \A n \in 1..Len(c.nodes) :
             nodes[n] = IF n = p THEN [c.nodes[p] EXCEPT !.kids = kids] ELSE c.nodes[n]
    <3>1. PICK S : c.nodes \in Seq(S)
      BY DEF Graph, Sequence
    <3>2. DOMAIN c.nodes = 1..Len(c.nodes)
      BY <3>1
    <3>3. c.nodes \in [1..Len(c.nodes) -> S]
      BY <3>1
    <3>4. nodes \in [1..Len(c.nodes) -> S \cup {[c.nodes[p] EXCEPT !.kids = kids]}]
      BY <3>3
    <3>5. nodes \in Seq(S \cup {[c.nodes[p] EXCEPT !.kids = kids]})
      BY <1>1, <3>4, SeqDef
    <3>6. Len(nodes) = Len(c.nodes)
      <4>1. DOMAIN nodes = 1..Len(c.nodes)
        BY <3>4
      <4>2. QED
        BY <1>1, <3>5, <4>1, LenProperties
    <3>7. \A n \in 1..Len(c.nodes) :
            nodes[n] = IF n = p THEN [c.nodes[p] EXCEPT !.kids = kids] ELSE c.nodes[n]
      BY <3>2
    <3>8. QED
      BY <3>5, <3>6, <3>7 DEF Sequence
  <2>. HIDE DEF nodes
  <2>9. ASSUME NEW n \in 1..Len(c.nodes)
        PROVE  /\ DOMAIN nodes[n] = NodeFields /\ nodes[n].kind = c.nodes[n].kind
               /\ Sequence(nodes[n].kids)
               /\ \A k \in 1..Len(nodes[n].kids) : nodes[n].kids[k] \in 1..Len(c.nodes)
    <3>1. CASE n = p
      <4>1. nodes[n] = [c.nodes[p] EXCEPT !.kids = kids]
        BY <2>8, <3>1
      <4>2. /\ DOMAIN nodes[n] = NodeFields /\ nodes[n].kind = c.nodes[p].kind
            /\ nodes[n].kids = kids
        BY <2>4, <4>1 DEF NodeFields
      <4>3. QED
        BY <2>5, <2>7, <3>1, <4>2
    <3>2. CASE n # p
      <4>1. nodes[n] = c.nodes[n]
        BY <2>8, <3>2
      <4>2. QED
        BY <4>1 DEF Graph
    <3>3. QED
      BY <3>1, <3>2
  <2>10. Graph(e)
    BY <2>3, <2>8, <2>9 DEF Graph
  <2>11. QED
    BY <1>1, <2>3, <2>8, <2>9, <2>10 DEF Extends
<1>4. QED
  BY <1>2, <1>3

LEMMA AddNodeIs ==
  ASSUME NEW c, Graph(c), NEW node, NEW anchor,
         DOMAIN node = NodeFields, node.kids = <<>>
  PROVE  /\ Extends(c, AddNode(c, node, anchor))
         /\ Len(AddNode(c, node, anchor).nodes) = Len(c.nodes) + 1
         /\ AddNode(c, node, anchor).nodes[Len(c.nodes) + 1].kind = node.kind
<1>. DEFINE i == Len(c.nodes) + 1
            g == [c EXCEPT !.nodes = Append(@, node)]
            grown == AddChild(g, i)
            e == AddNode(c, node, anchor)
<1>1. Len(c.stack) \in Nat /\ Len(c.nodes) \in Nat
  BY GraphIs
<1>2. /\ Sequence(Append(c.nodes, node)) /\ Len(Append(c.nodes, node)) = i
      /\ \A n \in 1..Len(c.nodes) : Append(c.nodes, node)[n] = c.nodes[n]
      /\ Append(c.nodes, node)[i] = node
  BY AppendIs DEF Graph
<1>3. /\ DOMAIN g = {"stack", "nodes", "anchors", "error"}
      /\ g.nodes = Append(c.nodes, node) /\ g.stack = c.stack /\ g.anchors = c.anchors
  BY DEF Graph
<1>4. Sequence(<<>>) /\ Len(<<>>) = 0
  <2>1. <<>> \in Seq({})
    OBVIOUS
  <2>2. QED
    BY <2>1 DEF Sequence
<1>. HIDE DEF g
<1>5. ASSUME NEW n \in 1..i
      PROVE  /\ DOMAIN g.nodes[n] = NodeFields /\ Sequence(g.nodes[n].kids)
             /\ \A k \in 1..Len(g.nodes[n].kids) : g.nodes[n].kids[k] \in 1..i
             /\ n \in 1..Len(c.nodes) => g.nodes[n].kind = c.nodes[n].kind
  <2>1. CASE n \in 1..Len(c.nodes)
    BY <1>1, <1>2, <1>3, <2>1 DEF Graph
  <2>2. CASE n = i
    <3>1. g.nodes[n] = node /\ n \notin 1..Len(c.nodes)
      BY <1>1, <1>2, <1>3, <2>2
    <3>2. QED
      BY <1>4, <3>1
  <2>3. QED
    BY <1>1, <2>1, <2>2
<1>6. Graph(g) /\ Len(g.nodes) = i /\ i \in 1..Len(g.nodes) /\ g.nodes[i].kind = node.kind
  <2>1. Len(g.nodes) = i /\ i \in 1..i /\ g.nodes[i] = node
    BY <1>1, <1>2, <1>3
  <2>2. /\ \A j \in 1..Len(c.stack) : g.stack[j] \in 1..i
        /\ \A a \in g.anchors : a[2] \in 1..i
    BY <1>1, <1>3 DEF Graph
  <2>3. QED
    BY <1>2, <1>3, <1>5, <2>1, <2>2 DEF Graph
<1>7. /\ Extends(g, grown) /\ Len(grown.nodes) = i /\ grown.anchors = c.anchors
  BY <1>3, <1>6, AddChildIs
<1>. HIDE DEF grown
<1>8. Graph(grown) /\ grown.stack = c.stack /\ grown.nodes[i].kind = node.kind
      /\ \A n \in 1..Len(c.nodes) : grown.nodes[n].kind = c.nodes[n].kind
  BY <1>1, <1>3, <1>5, <1>6, <1>7 DEF Extends
<1>9. CASE anchor = <<>>
  <2>1. e = grown
    BY <1>9 DEF AddNode, grown, g
  <2>2. QED
    BY <1>1, <1>7, <1>8, <2>1 DEF Extends
<1>10. CASE anchor # <<>>
  <2>. DEFINE known == \E a \in c.anchors : a[1] = anchor
  <2>1. e = [grown EXCEPT !.anchors = @ \cup {<<anchor, i>>}, !.error = known]
    BY <1>10 DEF AddNode, grown, g
  <2>. HIDE DEF known
  <2>2. /\ DOMAIN e = {"stack", "nodes", "anchors", "error"}
        /\ e.nodes = grown.nodes /\ e.stack = grown.stack
        /\ e.anchors = grown.anchors \cup {<<anchor, i>>}
    BY <1>8, <2>1 DEF Graph
  <2>3. \A a \in e.anchors : a[2] \in 1..Len(e.nodes)
    BY <1>1, <1>7, <1>8, <2>2 DEF Graph
  <2>. HIDE DEF e
  <2>4. Graph(e)
    BY <1>8, <2>2, <2>3 DEF Graph
  <2>5. Extends(c, e)
    BY <1>1, <1>7, <1>8, <2>2, <2>4 DEF Extends
  <2>6. QED
    BY <1>7, <1>8, <2>2, <2>5 DEF e
<1>11. QED
  BY <1>9, <1>10

(* The kinds of the collections the composer is in, and what they will be   *)
(* once it has taken the event that the parser holds out.                   *)
Kinds(c) == [j \in 1..Len(c.stack) |-> c.nodes[c.stack[j]].kind]

EndIds == {"SequenceEnd", "MappingEnd"}
KindOf(id) == IF id \in {"SequenceStart", "SequenceEnd"} THEN "seq" ELSE "map"
Opened(id, had, kinds) ==
  /\ id \in {"SequenceStart", "MappingStart"} => kinds = Append(had, KindOf(id))
  /\ id \in EndIds => had # <<>> /\ Last(had) = KindOf(id) /\ kinds = Front(had)
  /\ id \notin {"SequenceStart", "MappingStart"} \cup EndIds => kinds = had

InStep ==
  /\ Graph(co)
  /\ \E kinds : /\ Opened(ps.event.id, Kinds(co), kinds)
                /\ Aligned(ps.states, ps.state, kinds)

LEMMA KindsAre ==
  ASSUME NEW c, Graph(c)
  PROVE  /\ Sequence(Kinds(c)) /\ Len(Kinds(c)) = Len(c.stack)
         /\ \A j \in 1..Len(c.stack) : Kinds(c)[j] = c.nodes[c.stack[j]].kind
<1>. DEFINE S == {c.nodes[c.stack[j]].kind : j \in 1..Len(c.stack)}
<1>1. Len(c.stack) \in Nat
  BY GraphIs
<1>2. Kinds(c) \in [1..Len(c.stack) -> S]
  BY DEF Kinds
<1>3. Kinds(c) \in Seq(S)
  BY <1>1, <1>2, SeqDef
<1>4. Len(Kinds(c)) = Len(c.stack)
  <2>1. DOMAIN Kinds(c) = 1..Len(c.stack)
    BY DEF Kinds
  <2>2. QED
    BY <1>1, <1>3, <2>1, LenProperties
<1>5. QED
  BY <1>3, <1>4 DEF Kinds, Sequence

(* Two composers whose open nodes are of the same kinds                     *)
LEMMA SameKinds ==
  ASSUME NEW c, NEW e, Graph(c), Graph(e), e.stack = c.stack,
         \A n \in 1..Len(c.nodes) : e.nodes[n].kind = c.nodes[n].kind
  PROVE  Kinds(e) = Kinds(c)
<1>1. \A j \in 1..Len(c.stack) : e.nodes[e.stack[j]].kind = c.nodes[c.stack[j]].kind
  BY DEF Graph
<1>2. QED
  BY <1>1 DEF Kinds

(* The parser is asked for an event when the composer has taken the last.   *)
Asked == ps.event = NoEvent /\ co' = co
Plain(id) == id \notin {"SequenceStart", "MappingStart"} \cup EndIds

LEMMA KindsNow ==
  ASSUME InStep, ps.event = NoEvent
  PROVE  /\ Aligned(ps.states, ps.state, Kinds(co))
         /\ Sequence(Kinds(co)) /\ Len(Kinds(co)) \in Nat
<1>1. ps.event.id = "none"
  BY DEF NoEvent
<1>2. QED
  BY <1>1, KindsAre, LengthIs DEF InStep, Opened, EndIds

LEMMA StillInStep ==
  ASSUME InStep, Asked, NEW kinds, Opened(ps'.event.id, Kinds(co), kinds),
         Aligned(ps'.states, ps'.state, kinds)
  PROVE  InStep'
BY DEF InStep, Asked

LEMMA GoInStep ==
  ASSUME InStep, Asked, Plain(ps'.event.id), ps'.states = ps.states,
         Alike(ps.state, ps'.state)
  PROVE  InStep'
<1>1. Aligned(ps'.states, ps'.state, Kinds(co))
  BY KindsNow, AlignedGo DEF Asked
<1>2. Opened(ps'.event.id, Kinds(co), Kinds(co))
  BY DEF Opened, Plain
<1>3. QED
  BY <1>1, <1>2, StillInStep

LEMMA NodesWeigh ==
  ASSUME NEW x \in NodeStates \cup Outside
  PROVE  Weight(x) = 0 /\ x \notin SeqStates /\ x \notin MapStates /\ x \notin PairStates
BY DEF NodeStates, Outside, Weight, SeqStates, MapStates, PairStates

LEMMA PushInStep ==
  ASSUME InStep, Asked, Plain(ps'.event.id), NEW after, ps'.states = Append(ps.states, after),
         Alike(ps.state, after), ps'.state \in NodeStates
  PROVE  InStep'
<1>1. Aligned(ps'.states, ps'.state, Kinds(co))
  BY KindsNow, AlignedPush, NodesWeigh DEF Asked
<1>2. Opened(ps'.event.id, Kinds(co), Kinds(co))
  BY DEF Opened, Plain
<1>3. QED
  BY <1>1, <1>2, StillInStep

LEMMA PopInStep ==
  ASSUME InStep, Asked, Plain(ps'.event.id), ps.states # <<>>, ps.state \in NodeStates,
         ps'.state = Last(ps.states), ps'.states = Front(ps.states)
  PROVE  InStep'
<1>1. /\ Aligned(ps.states, ps.state, Kinds(co))
      /\ Sequence(Kinds(co)) /\ Len(Kinds(co)) \in Nat
  BY KindsNow DEF Asked
<1>2. Len(Kinds(co)) = Len(Kinds(co)) - Weight(ps.state)
  BY <1>1, NodesWeigh
<1>3. Aligned(ps'.states, ps'.state, Kinds(co))
  BY <1>1, <1>2, AlignedPop
<1>4. Opened(ps'.event.id, Kinds(co), Kinds(co))
  BY DEF Opened, Plain
<1>5. QED
  BY <1>3, <1>4, StillInStep

(* The innermost collection is the one that the state is in.                *)
LEMMA InnermostIs ==
  ASSUME NEW states, NEW x, NEW kinds, Aligned(states, x, kinds),
         x \in SeqStates \cup MapStates \cup PairStates
  PROVE  /\ Sequence(kinds) /\ kinds # <<>> /\ Len(kinds) \in Nat
         /\ Last(kinds) = IF x \in SeqStates THEN "seq" ELSE "map"
<1>1. PICK d : Climbs(states, kinds, d) /\ Len(kinds) = d[Len(states) + 1] + Weight(x)
  BY DEF Aligned
<1>2. Sequence(states) /\ Sequence(kinds) /\ Len(states) \in Nat /\ Len(kinds) \in Nat
  BY LengthIs DEF Aligned
<1>3. PICK v : v = d[Len(states) + 1]
  OBVIOUS
<1>4. v \in Nat /\ Len(kinds) = v + Weight(x)
  BY <1>1, <1>2, <1>3 DEF Climbs
<1>5. Weight(x) \in {1, 2}
  BY WeightIs
<1>6. Len(kinds) # 0
  BY <1>4, <1>5
<1>7. kinds # <<>>
  BY <1>2, <1>6, LengthIs
<1>8. Last(kinds) = kinds[Len(kinds)]
  BY <1>2, <1>7, BlocksPopped
<1>9. QED
  BY <1>2, <1>7, <1>8, WeightIs DEF Aligned, Right

LEMMA CloseInStep ==
  ASSUME InStep, Asked, ps.states # <<>>,
         ps'.state = Last(ps.states), ps'.states = Front(ps.states),
         \/ ps.state \in SeqStates /\ ps'.event.id = "SequenceEnd"
         \/ ps.state \in MapStates /\ ps'.event.id = "MappingEnd"
  PROVE  InStep'
<1>. DEFINE fewer == Front(Kinds(co))
<1>1. Aligned(ps.states, ps.state, Kinds(co))
  BY KindsNow DEF Asked
<1>2. /\ Sequence(Kinds(co)) /\ Kinds(co) # <<>>
      /\ Last(Kinds(co)) = IF ps.state \in SeqStates THEN "seq" ELSE "map"
  BY <1>1, InnermostIs
<1>3. /\ Sequence(fewer) /\ Len(Kinds(co)) \in Nat /\ Len(fewer) = Len(Kinds(co)) - 1
      /\ \A m \in 1..(Len(Kinds(co)) - 1) : fewer[m] = Kinds(co)[m]
  BY <1>2, BlocksPopped
<1>. HIDE DEF fewer
<1>4. Len(fewer) = Len(Kinds(co)) - Weight(ps.state)
  BY <1>3, WeightIs
<1>5. \A m \in 1..Len(fewer) : fewer[m] = Kinds(co)[m]
  BY <1>3
<1>6. Aligned(ps'.states, ps'.state, fewer)
  BY <1>1, <1>3, <1>4, <1>5, AlignedPop
<1>7. Opened(ps'.event.id, Kinds(co), fewer)
  <2>1. ps'.event.id \in EndIds /\ Last(Kinds(co)) = KindOf(ps'.event.id)
    BY <1>2, WeightIs DEF EndIds, KindOf
  <2>2. QED
    BY <1>2, <2>1 DEF Opened, EndIds, fewer
<1>8. QED
  BY <1>6, <1>7, StillInStep

LEMMA OpenInStep ==
  ASSUME InStep, Asked, ps'.states = ps.states,
         \/ /\ ps.state \in NodeStates
            /\ \/ ps'.state \in SeqStates /\ ps'.event.id = "SequenceStart"
               \/ ps'.state \in MapStates /\ ps'.event.id = "MappingStart"
         \/ /\ ps.state = "flow_sequence_item" /\ ps'.state = "flow_pair_key"
            /\ ps'.event.id = "MappingStart"
  PROVE  InStep'
<1>. DEFINE kind == KindOf(ps'.event.id)
            more == Append(Kinds(co), kind)
            n == Len(Kinds(co))
<1>1. /\ Aligned(ps.states, ps.state, Kinds(co))
      /\ Sequence(Kinds(co)) /\ n \in Nat
  BY KindsNow DEF Asked
<1>2. /\ more[n + 1] = kind
      /\ \A m \in 1..n : more[m] = Kinds(co)[m]
  BY <1>1, AppendIs
<1>3. Opened(ps'.event.id, Kinds(co), more)
  BY DEF Opened, EndIds
<1>. HIDE DEF more, n
<1>4. CASE ps.state \in NodeStates
  <2>1. ps'.state \in SeqStates \cup MapStates /\ ps'.state \notin PairStates
    BY <1>4, NodesWeigh, WeightIs DEF NodeStates
  <2>2. Weight(ps'.state) = Weight(ps.state) + 1
    BY <1>4, <2>1, NodesWeigh, WeightIs
  <2>3. Right(ps'.state, more, n + 1)
    <3>1. /\ ps'.state \in SeqStates => kind = "seq"
          /\ ps'.state \in MapStates => kind = "map"
      BY <1>4, WeightIs DEF KindOf, NodeStates
    <3>2. QED
      BY <1>2, <2>1, <3>1 DEF Right
  <2>4. Aligned(ps.states, ps'.state, more)
    BY <1>1, <2>2, <2>3, AlignedGrow DEF more, n
  <2>5. QED
    BY <1>3, <2>4, StillInStep
<1>5. CASE ps.state = "flow_sequence_item"
  <2>1. ps'.state = "flow_pair_key" /\ ps'.event.id = "MappingStart" /\ kind = "map"
    BY <1>5 DEF NodeStates, KindOf
  <2>2. Weight(ps.state) = 1 /\ Weight(ps'.state) = 2
    BY <1>5, <2>1 DEF Weight, SeqStates, MapStates, PairStates
  <2>3. n # 0 /\ Kinds(co)[n] = "seq"
    <3>1. /\ Kinds(co) # <<>> /\ Last(Kinds(co)) = "seq"
      BY <1>1, <1>5, InnermostIs DEF SeqStates
    <3>2. QED
      BY <1>1, <3>1, LengthIs, BlocksPopped DEF n
  <2>4. Right(ps'.state, more, n + 1)
    <3>1. n \in 1..n
      BY <1>1, <2>3
    <3>2. more[n + 1] = "map" /\ more[n] = "seq"
      BY <1>2, <2>1, <2>3, <3>1
    <3>3. ps'.state \notin SeqStates
      BY <2>1 DEF SeqStates
    <3>4. PICK m : m = n + 1
      OBVIOUS
    <3>5. more[m] = "map" /\ more[m - 1] = "seq"
      <4>1. m - 1 = n
        BY <1>1, <3>4
      <4>2. QED
        BY <3>2, <3>4, <4>1
    <3>6. Right(ps'.state, more, m)
      BY <3>3, <3>5 DEF Right
    <3>7. QED
      BY <3>4, <3>6
  <2>5. Aligned(ps.states, ps'.state, more)
    BY <1>1, <2>2, <2>4, AlignedGrow DEF more, n
  <2>6. QED
    BY <1>3, <2>5, StillInStep
<1>6. QED
  BY <1>4, <1>5

(* The end of a mapping of one pair                                         *)
LEMMA PairEndInStep ==
  ASSUME InStep, Asked, ps'.states = ps.states, ps.state = "flow_pair_end",
         ps'.state = "flow_sequence_entry", ps'.event.id = "MappingEnd"
  PROVE  InStep'
<1>. DEFINE had == Kinds(co)
            fewer == Front(had)
<1>1. Aligned(ps.states, ps.state, had)
  BY KindsNow DEF Asked
<1>2. Sequence(had) /\ had # <<>> /\ Last(had) = "map" /\ Len(had) \in Nat
  <2>1. ps.state \in PairStates /\ ps.state \notin SeqStates
    BY DEF PairStates, SeqStates
  <2>2. QED
    BY <1>1, <2>1, InnermostIs
<1>3. /\ Sequence(fewer) /\ Len(fewer) = Len(had) - 1
      /\ \A m \in 1..(Len(had) - 1) : fewer[m] = had[m]
  BY <1>2, BlocksPopped
<1>4. Opened(ps'.event.id, had, fewer)
  BY <1>2 DEF Opened, EndIds, KindOf
<1>. HIDE DEF fewer, had
<1>5. Weight(ps.state) = 2 /\ Weight(ps'.state) = 1
  BY DEF Weight, SeqStates, MapStates, PairStates
<1>6. Len(had) >= 2 /\ had[Len(had) - 1] = "seq"
  <2>1. PICK d : Climbs(ps.states, had, d) /\ Len(had) = d[Len(ps.states) + 1] + Weight(ps.state)
    BY <1>1 DEF Aligned
  <2>2. d[Len(ps.states) + 1] \in Nat
    <3>1. Len(ps.states) \in Nat
      BY <1>1, LengthIs DEF Aligned
    <3>2. QED
      BY <2>1, <3>1 DEF Climbs
  <2>3. PICK v : v = d[Len(ps.states) + 1]
    OBVIOUS
  <2>4. QED
    BY <1>1, <1>5, <2>1, <2>2, <2>3 DEF Aligned, Right, PairStates
<1>7. Right(ps'.state, fewer, Len(fewer))
  <2>1. Len(fewer) = Len(had) - 1 /\ Len(had) - 1 \in 1..(Len(had) - 1)
    BY <1>2, <1>3, <1>6
  <2>2. fewer[Len(fewer)] = "seq"
    BY <1>3, <1>6, <2>1
  <2>3. QED
    BY <2>2 DEF Right, MapStates, PairStates
<1>8. /\ Len(had) = Len(fewer) + 1
      /\ \A m \in 1..Len(fewer) : fewer[m] = had[m]
  BY <1>2, <1>3
<1>9. Aligned(ps'.states, ps'.state, fewer)
  BY <1>1, <1>3, <1>5, <1>7, <1>8, AlignedShrink
<1>10. QED
  BY <1>4, <1>9, StillInStep DEF had

LEMMA TablesAre ==
  /\ \A state \in DOMAIN Items : Alike(state, Items[state].next)
  /\ \A state \in DOMAIN Commas : Alike(state, Commas[state])
  /\ \A c \in Closings : \/ c[1] \in SeqStates /\ c[3] = "SequenceEnd"
                         \/ c[1] \in MapStates /\ c[3] = "MappingEnd"
  /\ \A o \in Openings : \/ o.state \in SeqStates /\ o.event = "SequenceStart"
                         \/ o.state \in MapStates /\ o.event = "MappingStart"
<1>1. DOMAIN Items = {"block_sequence_entry", "indentless_sequence_entry",
                      "block_mapping_key", "block_mapping_value", "flow_mapping_item",
                      "flow_mapping_value", "flow_pair_key", "flow_pair_value"}
  BY DEF Items, BlockItems, FlowItems
<1>2. ASSUME NEW state \in DOMAIN Items
      PROVE  Alike(state, Items[state].next)
  <2>1. CASE state \in DOMAIN BlockItems
    <3>1. Items[state] = BlockItems[state]
      BY <1>2, <2>1 DEF Items
    <3>2. QED
      BY <1>1, <2>1, <3>1 DEF BlockItems, Item, Alike, SeqStates, MapStates, PairStates
  <2>2. CASE state \notin DOMAIN BlockItems
    <3>1. Items[state] = FlowItems[state] /\ state \in DOMAIN FlowItems
      BY <1>2, <2>2 DEF Items
    <3>2. QED
      BY <1>1, <3>1 DEF FlowItems, Item, Alike, SeqStates, MapStates, PairStates
  <2>3. QED
    BY <2>1, <2>2
<1>3. \A state \in DOMAIN Commas : Alike(state, Commas[state])
  BY DEF Commas, Alike, SeqStates, MapStates, PairStates
<1>4. \A c \in Closings : \/ c[1] \in SeqStates /\ c[3] = "SequenceEnd"
                          \/ c[1] \in MapStates /\ c[3] = "MappingEnd"
  BY DEF Closings, SeqStates, MapStates
<1>5. \A o \in Openings : \/ o.state \in SeqStates /\ o.event = "SequenceStart"
                          \/ o.state \in MapStates /\ o.event = "MappingStart"
  BY DEF Openings, SeqStates, MapStates
<1>6. QED
  BY <1>2, <1>3, <1>4, <1>5

(* What the updates do to the event                                         *)
LEMMA EventsAre ==
  ASSUME NEW q, DOMAIN q = ParserFields
  PROVE  /\ \A event : Holding(q, event).event = event
         /\ PopState(q).event = q.event
         /\ \A after : PushState(q, after).event = q.event
BY DEF Holding, PopState, PushState, ParserFields

LEMMA PlainEvents ==
  /\ Plain(NoEvent.id) /\ Plain(EmptyScalar.id)
  /\ \A anchor, value, plain : Plain(ScalarEvent(anchor, value, plain).id)
  /\ \A anchor : Plain(NodeEvent("Alias", anchor).id)
  /\ \A id, anchor : NodeEvent(id, anchor).id = id
BY DEF Plain, NoEvent, EmptyScalar, ScalarEvent, NodeEvent, EndIds

LEMMA StreamInStep ==
  ASSUME Linked, InStep,
         \/ ParseStreamStart \/ ParseImplicitDocumentStart \/ SkipDocumentEnd
         \/ ParseDocumentStart \/ ParseStreamEnd \/ ParseDocumentEnd
  PROVE  InStep'
<1>1. /\ Asked
      /\ ps.state \in {"stream_start", "implicit_document_start", "document_start",
                       "document_end"}
  BY DEF ParseStreamStart, ParseImplicitDocumentStart, SkipDocumentEnd,
         ParseDocumentStart, ParseStreamEnd, ParseDocumentEnd, Parse, Asked
<1>2. Parser(ps) /\ DOMAIN ps = ParserFields /\ ps.state \in Outside
  BY <1>1 DEF Linked, Parser, Outside
<1>3. \A x : DOMAIN Enter(x) = ParserFields /\ Enter(x).state = x /\ Enter(x).states = ps.states
  BY <1>2, Enters
<1>4. \A x, y : x \in Outside /\ y \in Outside => Alike(x, y)
  BY NodesWeigh DEF Alike
<1>5. CASE ParseStreamStart \/ ParseStreamEnd \/ ParseDocumentEnd
  <2>1. \E x \in Outside, id \in {"StreamStart", "StreamEnd", "DocumentEnd"} :
          ps' = Holding(Enter(x), NodeEvent(id, <<>>))
    BY <1>5 DEF ParseStreamStart, ParseStreamEnd, ParseDocumentEnd, Become, Outside
  <2>2. PICK x \in Outside, id \in {"StreamStart", "StreamEnd", "DocumentEnd"} :
          ps' = Holding(Enter(x), NodeEvent(id, <<>>))
    BY <2>1
  <2>3. ps'.states = ps.states /\ ps'.state = x /\ ps'.event.id = id
    BY <1>3, <2>2, Updates, EventsAre, PlainEvents
  <2>4. Plain(id)
    BY DEF Plain, EndIds
  <2>5. QED
    BY <1>1, <1>2, <1>4, <2>3, <2>4, GoInStep
<1>6. CASE SkipDocumentEnd
  <2>1. ps' = ps /\ Plain(ps'.event.id)
    BY <1>1, <1>6, PlainEvents DEF SkipDocumentEnd, Asked
  <2>2. QED
    BY <1>1, <1>2, <1>4, <2>1, GoInStep
<1>7. CASE ParseImplicitDocumentStart \/ ParseDocumentStart
  <2>1. \E x \in NodeStates :
          ps' = Holding(PushState(Enter(x), "document_end"), NodeEvent("DocumentStart", <<>>))
    BY <1>7 DEF ParseImplicitDocumentStart, ParseDocumentStart, Become, NodeStates
  <2>2. PICK x \in NodeStates :
          ps' = Holding(PushState(Enter(x), "document_end"), NodeEvent("DocumentStart", <<>>))
    BY <2>1
  <2>3. /\ ps'.states = Append(ps.states, "document_end") /\ ps'.state = x
        /\ ps'.event.id = "DocumentStart"
    BY <1>3, <2>2, Updates, EventsAre, PlainEvents
  <2>4. Plain("DocumentStart") /\ "document_end" \in Outside
    BY DEF Plain, EndIds, Outside
  <2>5. QED
    BY <1>1, <1>2, <1>4, <2>3, <2>4, PushInStep
<1>8. QED
  BY <1>5, <1>6, <1>7

LEMMA NodeInStep ==
  ASSUME Linked, InStep,
         \/ ParseEmptyDocument \/ ParseAlias \/ ParseAnchor \/ ParseScalar
         \/ ParseCollectionStart \/ ParseIndentlessStart \/ ParseAnchoredEmpty
  PROVE  InStep'
<1>1. Asked /\ ps.state \in NodeStates
  BY DEF ParseEmptyDocument, ParseAlias, ParseAnchor, ParseScalar, ParseCollectionStart,
         ParseIndentlessStart, ParseAnchoredEmpty, AtNode, Parse, NodeStates, Asked
<1>2. Parser(ps) /\ DOMAIN ps = ParserFields /\ ps.states # <<>>
  BY <1>1, NodesAre, Apart DEF Linked, Parser
<1>3. CASE ParseEmptyDocument \/ ParseAlias \/ ParseScalar \/ ParseAnchoredEmpty
  <2>1. \E event : ps' = Holding(PopState(ps), event) /\ Plain(event.id)
    <3>1. CASE ParseEmptyDocument
      BY <3>1, PlainEvents DEF ParseEmptyDocument, Become
    <3>2. CASE ParseAlias
      BY <3>2, PlainEvents DEF ParseAlias, Become
    <3>3. CASE ParseScalar
      BY <3>3, PlainEvents DEF ParseScalar, Become
    <3>4. CASE ParseAnchoredEmpty
      BY <3>4, PlainEvents DEF ParseAnchoredEmpty, Become
    <3>5. QED
      BY <1>3, <3>1, <3>2, <3>3, <3>4
  <2>2. PICK event : ps' = Holding(PopState(ps), event) /\ Plain(event.id)
    BY <2>1
  <2>3. /\ ps'.state = Last(ps.states) /\ ps'.states = Front(ps.states)
        /\ ps'.event = event
    BY <1>2, <2>2, Updates, EventsAre
  <2>4. QED
    BY <1>1, <1>2, <2>2, <2>3, PopInStep
<1>4. CASE ParseAnchor
  <2>1. /\ ps'.states = ps.states /\ ps'.event = ps.event /\ ps'.state \in NodeStates
    BY <1>1, <1>2, <1>4 DEF ParseAnchor, Become, ParserFields, NodeStates
  <2>2. Alike(ps.state, ps'.state) /\ Plain(ps'.event.id)
    BY <1>1, <2>1, NodesWeigh, PlainEvents DEF Alike, Asked
  <2>3. QED
    BY <1>1, <2>1, <2>2, GoInStep
<1>5. CASE ParseCollectionStart
  <2>1. PICK o \in Openings : ps' = Holding([ps EXCEPT !.state = o.state, !.first = TRUE],
                                            NodeEvent(o.event, ps.anchor))
    BY <1>5 DEF ParseCollectionStart, MayOpen, Become
  <2>2. ps'.states = ps.states /\ ps'.state = o.state /\ ps'.event = NodeEvent(o.event, ps.anchor)
    BY <1>2, <2>1 DEF Holding, ParserFields
  <2>3. ps'.event.id = o.event
    BY <2>2, PlainEvents
  <2>4. QED
    BY <1>1, <2>2, <2>3, TablesAre, OpenInStep
<1>6. CASE ParseIndentlessStart
  <2>1. ps' = Holding(Enter("indentless_sequence_entry"),
                      NodeEvent("SequenceStart", ps.anchor))
    BY <1>6 DEF ParseIndentlessStart, Become
  <2>2. /\ ps'.states = ps.states /\ ps'.state = "indentless_sequence_entry"
        /\ ps'.event = NodeEvent("SequenceStart", ps.anchor)
    BY <1>2, <2>1, Enters, Updates, EventsAre
  <2>3. ps'.event.id = "SequenceStart"
    BY <2>2, PlainEvents
  <2>4. QED
    BY <1>1, <2>2, <2>3, OpenInStep DEF SeqStates
<1>7. QED
  BY <1>3, <1>4, <1>5, <1>6

LEMMA CollectionInStep ==
  ASSUME Linked, InStep,
         \/ ParseFirst \/ ParseLead \/ ParseEmptyItem \/ ParseItem \/ ParseComma
         \/ ParseCollectionEnd \/ ParseIndentlessEnd
  PROVE  InStep'
<1>1. Asked
  BY DEF ParseFirst, ParseLead, ParseEmptyItem, ParseItem, ParseComma,
         ParseCollectionEnd, ParseIndentlessEnd, InCollection, Parse, Asked
<1>2. Parser(ps) /\ DOMAIN ps = ParserFields
  BY DEF Linked, Parser
<1>3. Plain(ps.event.id)
  BY <1>1, PlainEvents DEF Asked
<1>4. /\ \A x : /\ DOMAIN Enter(x) = ParserFields /\ Enter(x).state = x
                /\ Enter(x).states = ps.states /\ Enter(x).event = ps.event
  BY <1>2, Enters DEF Enter, ParserFields
<1>5. CASE ParseFirst \/ ParseLead
  <2>1. ps'.states = ps.states /\ ps'.state = ps.state /\ ps'.event = ps.event
    BY <1>2, <1>5 DEF ParseFirst, ParseLead, Become, ParserFields
  <2>2. QED
    BY <1>1, <1>3, <2>1, GoInStep DEF Alike
<1>6. CASE ParseEmptyItem
  <2>1. /\ ps.state \in DOMAIN Items
        /\ ps' = Holding(Enter(Items[ps.state].next), EmptyScalar)
    BY <1>6 DEF ParseEmptyItem, Become, InCollection, Parse
  <2>2. /\ ps'.states = ps.states /\ ps'.state = Items[ps.state].next
        /\ ps'.event = EmptyScalar
    BY <1>4, <2>1, Updates, EventsAre
  <2>3. Plain(ps'.event.id) /\ Alike(ps.state, ps'.state)
    BY <2>1, <2>2, PlainEvents, TablesAre
  <2>4. QED
    BY <1>1, <2>2, <2>3, GoInStep
<1>7. CASE ParseItem
  <2>. DEFINE x == Items[ps.state].node
              after == Items[ps.state].next
  <2>1. ps.state \in DOMAIN Items /\ ps' = PushState(Enter(x), after)
    BY <1>7 DEF ParseItem, Become, InCollection, Parse
  <2>2. x \in NodeStates /\ Alike(ps.state, after)
    BY <2>1, ItemsAre, TablesAre
  <2>. HIDE DEF x, after
  <2>3. ps'.states = Append(ps.states, after) /\ ps'.state = x /\ ps'.event = ps.event
    BY <1>4, <2>1, Updates, EventsAre
  <2>4. QED
    BY <1>1, <1>3, <2>2, <2>3, PushInStep
<1>8. CASE ParseComma
  <2>1. ps.state \in DOMAIN Commas /\ ps' = Enter(Commas[ps.state])
    BY <1>8 DEF ParseComma, Become, InCollection, Parse
  <2>2. QED
    BY <1>1, <1>3, <1>4, <2>1, TablesAre, GoInStep
<1>9. CASE ParseCollectionEnd
  <2>1. PICK c \in Closings :
          /\ InCollection({c[1]})
          /\ Become(Holding([PopState(ps) EXCEPT !.marks = @ - 1], NodeEvent(c[3], <<>>)))
    BY <1>9 DEF ParseCollectionEnd
  <2>2. ps.state = c[1]
    BY <2>1 DEF InCollection, Parse
  <2>3. ps' = Holding([PopState(ps) EXCEPT !.marks = @ - 1], NodeEvent(c[3], <<>>))
    BY <2>1 DEF Become
  <2>4. /\ ps'.state = Last(ps.states) /\ ps'.states = Front(ps.states)
        /\ ps'.event = NodeEvent(c[3], <<>>)
    BY <1>2, <2>3 DEF Holding, PopState, ParserFields
  <2>5. ps'.event.id = c[3] /\ ps.states # <<>>
    BY <1>2, <2>2, <2>4, PlainEvents, ItemsAre, Apart DEF Parser
  <2>6. QED
    BY <1>1, <2>2, <2>4, <2>5, TablesAre, CloseInStep
<1>10. CASE ParseIndentlessEnd
  <2>1. /\ ps.state = "indentless_sequence_entry"
        /\ ps' = Holding(PopState(ps), NodeEvent("SequenceEnd", <<>>))
    BY <1>10 DEF ParseIndentlessEnd, Become, InCollection, Parse
  <2>2. /\ ps'.state = Last(ps.states) /\ ps'.states = Front(ps.states)
        /\ ps'.event.id = "SequenceEnd"
    BY <1>2, <2>1, Updates, EventsAre, PlainEvents
  <2>3. ps.state \in SeqStates /\ ps.states # <<>>
    <3>1. ps.state \notin Outside
      BY <2>1 DEF Outside
    <3>2. QED
      BY <1>2, <2>1, <3>1 DEF SeqStates, Parser
  <2>4. QED
    BY <1>1, <2>2, <2>3, CloseInStep
<1>11. QED
  BY <1>5, <1>6, <1>7, <1>8, <1>9, <1>10

LEMMA OtherInStep ==
  ASSUME Linked, InStep,
         \/ ParseMissingValue \/ ParseFlowEmptyValue \/ ParseFlowPairStart
         \/ ParseFlowPairEnd \/ ParseFlowEntry \/ ParseFlowKey \/ ParseError
  PROVE  InStep'
<1>1. Asked
  BY DEF ParseMissingValue, ParseFlowEmptyValue, ParseFlowPairStart,
         ParseFlowPairEnd, ParseFlowEntry, ParseFlowKey, ParseError, InCollection,
         Parse, Asked
<1>2. Parser(ps) /\ DOMAIN ps = ParserFields
  BY DEF Linked, Parser
<1>3. Plain(ps.event.id)
  BY <1>1, PlainEvents DEF Asked
<1>4. /\ \A x : /\ DOMAIN Enter(x) = ParserFields /\ Enter(x).state = x
                /\ Enter(x).states = ps.states /\ Enter(x).event = ps.event
  BY <1>2, Enters DEF Enter, ParserFields
<1>5. CASE ParseError
  <2>1. ps'.states = ps.states /\ ps'.state = ps.state /\ ps'.event = ps.event
    BY <1>2, <1>5 DEF ParseError, Become, ParserFields
  <2>2. QED
    BY <1>1, <1>3, <2>1, GoInStep DEF Alike
<1>6. CASE ParseMissingValue
  <2>1. /\ ps.state \in {"block_mapping_value", "flow_mapping_value", "flow_pair_value"}
        /\ ps' = Holding(Enter(Items[ps.state].next), EmptyScalar)
    BY <1>6 DEF ParseMissingValue, Become, InCollection, Parse
  <2>2. ps.state \in DOMAIN Items
    BY <2>1 DEF Items, BlockItems, FlowItems
  <2>3. /\ ps'.states = ps.states /\ ps'.state = Items[ps.state].next
        /\ ps'.event = EmptyScalar
    BY <1>4, <2>1, Updates, EventsAre
  <2>4. Plain(ps'.event.id) /\ Alike(ps.state, ps'.state)
    BY <2>2, <2>3, PlainEvents, TablesAre
  <2>5. QED
    BY <1>1, <2>3, <2>4, GoInStep
<1>7. CASE ParseFlowEmptyValue
  <2>1. /\ ps.state = "flow_mapping_empty_value"
        /\ ps' = Holding(Enter("flow_mapping_key"), EmptyScalar)
    BY <1>7 DEF ParseFlowEmptyValue, Become, InCollection, Parse
  <2>2. /\ ps'.states = ps.states /\ ps'.state = "flow_mapping_key"
        /\ ps'.event = EmptyScalar
    BY <1>4, <2>1, Updates, EventsAre
  <2>3. Plain(ps'.event.id) /\ Alike(ps.state, ps'.state)
    BY <2>1, <2>2, PlainEvents DEF Alike, SeqStates, MapStates, PairStates
  <2>4. QED
    BY <1>1, <2>2, <2>3, GoInStep
<1>8. CASE ParseFlowPairStart
  <2>1. /\ ps.state = "flow_sequence_item"
        /\ ps' = Holding(Enter("flow_pair_key"), NodeEvent("MappingStart", <<>>))
    BY <1>8 DEF ParseFlowPairStart, Become, InCollection, Parse
  <2>2. /\ ps'.states = ps.states /\ ps'.state = "flow_pair_key"
        /\ ps'.event.id = "MappingStart"
    BY <1>4, <2>1, Updates, EventsAre, PlainEvents
  <2>3. QED
    BY <1>1, <2>1, <2>2, OpenInStep
<1>9. CASE ParseFlowPairEnd
  <2>1. /\ ps.state = "flow_pair_end"
        /\ ps' = Holding(Enter("flow_sequence_entry"), NodeEvent("MappingEnd", <<>>))
    BY <1>9 DEF ParseFlowPairEnd, Become, InCollection, Parse
  <2>2. /\ ps'.states = ps.states /\ ps'.state = "flow_sequence_entry"
        /\ ps'.event.id = "MappingEnd"
    BY <1>4, <2>1, Updates, EventsAre, PlainEvents
  <2>3. QED
    BY <1>1, <2>1, <2>2, PairEndInStep
<1>10. CASE ParseFlowEntry \/ ParseFlowKey
  <2>1. \E after : /\ ps' = PushState(Enter("flow_node"), after)
                   /\ Alike(ps.state, after)
    BY <1>10 DEF ParseFlowEntry, ParseFlowKey, Become, InCollection, Parse,
                 Alike, SeqStates, MapStates, PairStates
  <2>2. PICK after : /\ ps' = PushState(Enter("flow_node"), after)
                     /\ Alike(ps.state, after)
    BY <2>1
  <2>3. /\ ps'.states = Append(ps.states, after) /\ ps'.state = "flow_node"
        /\ ps'.event = ps.event
    BY <1>4, <2>2, Updates, EventsAre
  <2>4. QED
    BY <1>1, <1>3, <2>2, <2>3, PushInStep DEF NodeStates
<1>11. QED
  BY <1>5, <1>6, <1>7, <1>8, <1>9, <1>10

LEMMA ParseInStep ==
  ASSUME Linked, InStep, ParseEvent
  PROVE  InStep'
BY StreamInStep, NodeInStep, CollectionInStep, OtherInStep DEF ParseEvent

-----------------------------------------------------------------------------
(* The composer takes the event: its open nodes become what the parser is   *)
(* in already.                                                              *)
LEMMA TakenInStep ==
  ASSUME InStep, DOMAIN ps = ParserFields, ps' = [ps EXCEPT !.event = NoEvent],
         Graph(co'), Opened(ps.event.id, Kinds(co), Kinds(co'))
  PROVE  InStep'
<1>1. ps'.state = ps.state /\ ps'.states = ps.states /\ ps'.event.id = "none"
  BY DEF ParserFields, NoEvent
<1>2. PICK kinds : /\ Opened(ps.event.id, Kinds(co), kinds)
                   /\ Aligned(ps.states, ps.state, kinds)
  BY DEF InStep
<1>3. kinds = Kinds(co')
  BY <1>2 DEF Opened
<1>4. Opened(ps'.event.id, Kinds(co'), Kinds(co'))
  BY <1>1 DEF Opened, EndIds
<1>5. QED
  BY <1>1, <1>2, <1>3, <1>4 DEF InStep

LEMMA ComposeInStep ==
  ASSUME Linked, InStep, ComposeEvent
  PROVE  InStep'
<1>1. Graph(co) /\ DOMAIN ps = ParserFields
  BY DEF InStep, Linked, Parser
<1>2. Len(co.stack) \in Nat /\ Len(co.nodes) \in Nat
  BY <1>1, GraphIs
<1>3. ps' = [ps EXCEPT !.event = NoEvent]
  BY DEF ComposeEvent, ComposeMark, ComposeDocument, ComposeDocumentEnd, ComposeAlias,
         ComposeScalar, ComposeCollection, ComposeCollectionEnd, Compose
<1>4. ASSUME Plain(ps.event.id), Graph(co'), co'.stack = co.stack,
             \A n \in 1..Len(co.nodes) : co'.nodes[n].kind = co.nodes[n].kind
      PROVE  InStep'
  <2>1. Kinds(co') = Kinds(co)
    BY <1>1, <1>4, SameKinds
  <2>2. Opened(ps.event.id, Kinds(co), Kinds(co'))
    BY <1>4, <2>1 DEF Opened, Plain
  <2>3. QED
    BY <1>1, <1>3, <1>4, <2>2, TakenInStep
<1>5. CASE ComposeMark \/ ComposeDocument \/ ComposeDocumentEnd
  <2>1. /\ ps.event.id \in {"StreamStart", "StreamEnd", "DocumentStart", "DocumentEnd"}
        /\ \/ co' = co
           \/ \E b : co' = [co EXCEPT !.error = b]
           \/ co' = [co EXCEPT !.anchors = {}]
    BY <1>5 DEF ComposeMark, ComposeDocument, ComposeDocumentEnd, Compose
  <2>2. Graph(co') /\ co'.stack = co.stack /\ co'.nodes = co.nodes
    BY <1>1, <2>1 DEF Graph
  <2>3. Plain(ps.event.id)
    BY <2>1 DEF Plain, EndIds
  <2>4. QED
    BY <1>4, <2>2, <2>3
<1>6. CASE ComposeAlias
  <2>. DEFINE known == {a \in co.anchors : a[1] = ps.event.anchor}
              one == CHOOSE a \in known : TRUE
  <2>1. /\ ps.event.id = "Alias"
        /\ co' = IF known = {} THEN [co EXCEPT !.error = TRUE] ELSE AddChild(co, one[2])
    BY <1>6 DEF ComposeAlias, Compose
  <2>2. Plain(ps.event.id)
    BY <2>1 DEF Plain, EndIds
  <2>3. CASE known = {}
    <3>1. co' = [co EXCEPT !.error = TRUE]
      BY <2>1, <2>3
    <3>2. Graph(co') /\ co'.stack = co.stack /\ co'.nodes = co.nodes
      BY <1>1, <3>1 DEF Graph
    <3>3. QED
      BY <1>4, <2>2, <3>2
  <2>4. CASE known # {}
    <3>1. one \in known
      BY <2>4
    <3>2. one[2] \in 1..Len(co.nodes)
      BY <1>1, <3>1 DEF Graph
    <3>. HIDE DEF one, known
    <3>3. Extends(co, co')
      BY <1>1, <2>1, <2>4, <3>2, AddChildIs
    <3>4. QED
      BY <1>4, <2>2, <3>3 DEF Extends
  <2>5. QED
    BY <2>3, <2>4
<1>7. CASE ComposeScalar
  <2>. DEFINE node == [kind |-> "scalar", tag |-> Resolve(ps.event.value, ps.event.plain),
                       value |-> ps.event.value, kids |-> <<>>]
  <2>1. ps.event.id = "Scalar" /\ co' = AddNode(co, node, ps.event.anchor)
    BY <1>7 DEF ComposeScalar, Compose
  <2>2. DOMAIN node = NodeFields /\ node.kids = <<>>
    BY DEF NodeFields
  <2>. HIDE DEF node
  <2>3. Extends(co, co')
    BY <1>1, <2>1, <2>2, AddNodeIs
  <2>4. Plain(ps.event.id)
    BY <2>1 DEF Plain, EndIds
  <2>5. QED
    BY <1>4, <2>3, <2>4 DEF Extends
<1>8. CASE ComposeCollection
  <2>. DEFINE kind == KindOf(ps.event.id)
              node == [kind |-> kind, tag |-> kind, value |-> <<>>, kids |-> <<>>]
              e == AddNode(co, node, ps.event.anchor)
              i == Len(co.nodes) + 1
  <2>1. /\ ps.event.id \in {"SequenceStart", "MappingStart"}
        /\ co' = [e EXCEPT !.stack = Append(@, i)]
    BY <1>8 DEF ComposeCollection, Compose, KindOf
  <2>2. DOMAIN node = NodeFields /\ node.kids = <<>> /\ node.kind = kind
    BY DEF NodeFields
  <2>. HIDE DEF node, kind
  <2>3. Extends(co, e) /\ Len(e.nodes) = i /\ e.nodes[i].kind = kind
    BY <1>1, <2>2, AddNodeIs
  <2>. HIDE DEF e
  <2>4. Graph(e) /\ e.stack = co.stack
        /\ \A n \in 1..Len(co.nodes) : e.nodes[n].kind = co.nodes[n].kind
    BY <2>3 DEF Extends
  <2>5. /\ DOMAIN co' = {"stack", "nodes", "anchors", "error"}
        /\ co'.stack = Append(co.stack, i) /\ co'.nodes = e.nodes /\ co'.anchors = e.anchors
    BY <2>1, <2>4 DEF Graph
  <2>6. /\ Sequence(co'.stack) /\ Len(co'.stack) = Len(co.stack) + 1
        /\ \A j \in 1..Len(co.stack) : co'.stack[j] = co.stack[j]
        /\ co'.stack[Len(co.stack) + 1] = i
    BY <1>1, <2>5, AppendIs DEF Graph
  <2>7. \A j \in 1..Len(co'.stack) : co'.stack[j] \in 1..Len(co'.nodes)
    <3>1. ASSUME NEW j \in 1..Len(co'.stack)
          PROVE  co'.stack[j] \in 1..Len(co'.nodes)
      <4>1. CASE j \in 1..Len(co.stack)
        BY <2>4, <2>5, <2>6, <4>1 DEF Graph
      <4>2. CASE j = Len(co.stack) + 1
        BY <1>2, <2>3, <2>5, <2>6, <4>2
      <4>3. QED
        BY <1>2, <2>6, <3>1, <4>1, <4>2
    <3>2. QED
      BY <3>1
  <2>8. Graph(co')
    BY <2>4, <2>5, <2>6, <2>7 DEF Graph
  <2>9. Kinds(co') = Append(Kinds(co), kind)
    <3>1. /\ Sequence(Kinds(co)) /\ Len(Kinds(co)) = Len(co.stack)
          /\ \A j \in 1..Len(co.stack) : Kinds(co)[j] = co.nodes[co.stack[j]].kind
      BY <1>1, KindsAre
    <3>2. /\ Sequence(Kinds(co')) /\ Len(Kinds(co')) = Len(co.stack) + 1
          /\ \A j \in 1..(Len(co.stack) + 1) : Kinds(co')[j] = co'.nodes[co'.stack[j]].kind
      BY <2>6, <2>8, KindsAre
    <3>. DEFINE more == Append(Kinds(co), kind)
    <3>3. /\ Sequence(more) /\ Len(more) = Len(co.stack) + 1
          /\ \A j \in 1..Len(co.stack) : more[j] = Kinds(co)[j]
          /\ more[Len(co.stack) + 1] = kind
      BY <3>1, AppendIs
    <3>. HIDE DEF more
    <3>4. ASSUME NEW j \in 1..(Len(co.stack) + 1)
          PROVE  Kinds(co')[j] = more[j]
      <4>1. CASE j \in 1..Len(co.stack)
        <5>1. co.stack[j] \in 1..Len(co.nodes)
          BY <1>1, <4>1 DEF Graph
        <5>2. QED
          BY <2>4, <2>5, <2>6, <3>1, <3>2, <3>3, <4>1, <5>1
      <4>2. CASE j = Len(co.stack) + 1
        BY <2>3, <2>5, <2>6, <3>2, <3>3, <4>2
      <4>3. QED
        BY <1>2, <4>1, <4>2
    <3>5. PICK S : Kinds(co') \in Seq(S) /\ more \in Seq(S)
      BY <3>2, <3>3, CommonSet
    <3>6. Kinds(co') = more
      BY <3>2, <3>3, <3>4, <3>5, SeqEqual
    <3>7. QED
      BY <3>6 DEF more
  <2>10. Opened(ps.event.id, Kinds(co), Kinds(co'))
    BY <2>1, <2>9 DEF Opened, EndIds, kind
  <2>11. QED
    BY <1>1, <1>3, <2>8, <2>10, TakenInStep
<1>9. CASE ComposeCollectionEnd
  <2>1. ps.event.id \in EndIds /\ co' = [co EXCEPT !.stack = Front(@)]
    BY <1>9 DEF ComposeCollectionEnd, Compose, EndIds
  <2>2. PICK kinds : Opened(ps.event.id, Kinds(co), kinds)
    BY DEF InStep
  <2>3. Kinds(co) # <<>> /\ Last(Kinds(co)) = KindOf(ps.event.id)
    BY <2>1, <2>2 DEF Opened
  <2>4. /\ Sequence(Kinds(co)) /\ Len(Kinds(co)) = Len(co.stack)
        /\ \A j \in 1..Len(co.stack) : Kinds(co)[j] = co.nodes[co.stack[j]].kind
    BY <1>1, KindsAre
  <2>5. Len(co.stack) # 0 /\ co.stack # <<>>
    BY <1>1, <2>3, <2>4, LengthIs DEF Graph
  <2>6. /\ DOMAIN co' = {"stack", "nodes", "anchors", "error"}
        /\ co'.stack = Front(co.stack) /\ co'.nodes = co.nodes /\ co'.anchors = co.anchors
    BY <1>1, <2>1 DEF Graph
  <2>7. /\ Sequence(co'.stack) /\ Len(co'.stack) = Len(co.stack) - 1
        /\ \A j \in 1..(Len(co.stack) - 1) : co'.stack[j] = co.stack[j]
    BY <1>1, <2>5, <2>6, BlocksPopped DEF Graph
  <2>8. Graph(co')
    BY <1>1, <1>2, <2>6, <2>7 DEF Graph
  <2>9. Kinds(co') = Front(Kinds(co))
    <3>1. /\ Sequence(Kinds(co')) /\ Len(Kinds(co')) = Len(co.stack) - 1
          /\ \A j \in 1..(Len(co.stack) - 1) : Kinds(co')[j] = co'.nodes[co'.stack[j]].kind
      BY <2>7, <2>8, KindsAre
    <3>. DEFINE fewer == Front(Kinds(co))
    <3>2. /\ Sequence(fewer) /\ Len(fewer) = Len(co.stack) - 1
          /\ \A j \in 1..(Len(co.stack) - 1) : fewer[j] = Kinds(co)[j]
      BY <2>3, <2>4, BlocksPopped
    <3>. HIDE DEF fewer
    <3>3. \A j \in 1..(Len(co.stack) - 1) : Kinds(co')[j] = fewer[j]
      BY <1>2, <2>4, <2>6, <2>7, <3>1, <3>2
    <3>4. PICK S : Kinds(co') \in Seq(S) /\ fewer \in Seq(S)
      BY <3>1, <3>2, CommonSet
    <3>5. Kinds(co') = fewer
      BY <3>1, <3>2, <3>3, <3>4, SeqEqual
    <3>6. QED
      BY <3>5 DEF fewer
  <2>10. Opened(ps.event.id, Kinds(co), Kinds(co'))
    BY <2>1, <2>3, <2>9 DEF Opened, EndIds
  <2>11. QED
    BY <1>1, <1>3, <2>8, <2>10, TakenInStep
<1>10. QED
  BY <1>5, <1>6, <1>7, <1>8, <1>9 DEF ComposeEvent

-----------------------------------------------------------------------------
LEMMA InitInStep ==
  ASSUME Init
  PROVE  InStep
<1>1. co = NewComposer /\ ps = NewParser
  BY DEF Init, LoadInit
<1>2. /\ DOMAIN co = {"stack", "nodes", "anchors", "error"}
      /\ co.stack = <<>> /\ co.nodes = <<>> /\ co.anchors = {}
      /\ ps.state = "stream_start" /\ ps.states = <<>> /\ ps.event.id = "none"
  BY <1>1 DEF NewComposer, NewParser, NoEvent
<1>3. Sequence(<<>>) /\ Len(<<>>) = 0
  <2>1. <<>> \in Seq({})
    OBVIOUS
  <2>2. QED
    BY <2>1 DEF Sequence
<1>4. Graph(co)
  BY <1>2, <1>3 DEF Graph
<1>5. Sequence(Kinds(co)) /\ Len(Kinds(co)) = 0
  BY <1>2, <1>3, <1>4, KindsAre
<1>6. Aligned(ps.states, ps.state, Kinds(co))
  <2>. DEFINE d == <<0>>
  <2>1. Sequence(d) /\ Len(d) = 1 /\ d[1] = 0
    <3>1. d \in Seq({0})
      OBVIOUS
    <3>2. QED
      BY <3>1 DEF Sequence
  <2>. HIDE DEF d
  <2>2. Climbs(<<>>, Kinds(co), d)
    BY <1>3, <2>1 DEF Climbs
  <2>3. /\ Weight("stream_start") = 0 /\ "stream_start" \notin SeqStates
        /\ "stream_start" \notin MapStates /\ "stream_start" \notin PairStates
    BY NodesWeigh DEF Outside
  <2>4. Right("stream_start", Kinds(co), Len(Kinds(co)))
    BY <2>3 DEF Right
  <2>5. Len(Kinds(co)) = d[Len(<<>>) + 1] + Weight("stream_start")
    BY <1>3, <1>5, <2>1, <2>3
  <2>6. QED
    BY <1>2, <1>3, <1>5, <2>2, <2>4, <2>5 DEF Aligned
<1>7. Opened(ps.event.id, Kinds(co), Kinds(co))
  BY <1>2 DEF Opened, EndIds
<1>8. QED
  BY <1>4, <1>6, <1>7 DEF InStep

LEMMA NextInStep ==
  ASSUME IInv, InStep, [Next]_vars
  PROVE  InStep'
<1>1. CASE UNCHANGED <<ps, co>>
  BY <1>1 DEF InStep
<1>2. CASE phase = "load" /\ LoadNext
  <2>1. CASE FetchMoreTokens
    <3>1. UNCHANGED <<ps, co>>
      BY <2>1 DEF FetchMoreTokens, ScanToNextToken, FetchStreamEnd, FetchDocumentIndicator,
         FetchFlowStart, FetchFlowEnd, FetchFlowEntry, FetchBlockEntry, FetchKey,
         FetchValue, FetchAnchor, FetchFlowScalar, FetchPlain, FetchError, Fetch
    <3>2. QED
      BY <1>1, <3>1
  <2>2. CASE ParseEvent
    BY <2>2, ParseInStep DEF IInv
  <2>3. CASE ComposeEvent
    BY <2>3, ComposeInStep DEF IInv
  <2>4. CASE Finish
    BY <1>1, <2>4 DEF Finish
  <2>5. QED
    BY <1>2, <2>1, <2>2, <2>3, <2>4 DEF LoadNext
<1>3. QED
  BY <1>1, <1>2 DEF Next, Reread, Terminated, vars, loadVars

LEMMA AlwaysInStep == Spec => [](IInv /\ InStep)
<1>1. Init => InStep
  BY InitInStep
<1>2. IInv /\ InStep /\ [Next]_vars => InStep'
  BY NextInStep
<1>3. QED
  BY <1>1, <1>2, AlwaysLinked, PTL DEF Spec

(* compose_node has no branch for an event that ends a collection: one that *)
(* came when no collection was open, or when the innermost was of the other *)
(* kind, would leave it without a node.  The parser never gives out such an *)
(* end, whatever the text.                                                  *)
THEOREM EndsMatch ==
  Spec => [][ComposeCollectionEnd =>
               /\ co.stack # <<>>
               /\ co.nodes[Last(co.stack)].kind = KindOf(ps.event.id)]_vars
<1>1. ASSUME InStep, ComposeCollectionEnd
      PROVE  co.stack # <<>> /\ co.nodes[Last(co.stack)].kind = KindOf(ps.event.id)
  <2>1. ps.event.id \in EndIds
    BY <1>1 DEF ComposeCollectionEnd, Compose, EndIds
  <2>2. PICK kinds : Opened(ps.event.id, Kinds(co), kinds)
    BY <1>1 DEF InStep
  <2>3. Kinds(co) # <<>> /\ Last(Kinds(co)) = KindOf(ps.event.id)
    BY <2>1, <2>2 DEF Opened
  <2>4. /\ Sequence(Kinds(co)) /\ Len(Kinds(co)) = Len(co.stack) /\ Sequence(co.stack)
        /\ \A j \in 1..Len(co.stack) : Kinds(co)[j] = co.nodes[co.stack[j]].kind
    BY <1>1, KindsAre DEF InStep, Graph
  <2>5. Len(co.stack) # 0 /\ co.stack # <<>> /\ Len(co.stack) \in Nat
    BY <2>3, <2>4, LengthIs
  <2>6. /\ Last(co.stack) = co.stack[Len(co.stack)]
        /\ Last(Kinds(co)) = Kinds(co)[Len(co.stack)]
    BY <2>3, <2>4, <2>5, BlocksPopped
  <2>7. QED
    BY <2>3, <2>4, <2>5, <2>6
<1>2. IInv /\ InStep /\ [Next]_vars =>
        [ComposeCollectionEnd =>
           /\ co.stack # <<>>
           /\ co.nodes[Last(co.stack)].kind = KindOf(ps.event.id)]_vars
  BY <1>1
<1>3. QED
  BY <1>2, AlwaysInStep, PTL DEF Spec

(* The graph of nodes is whole: what an alias, a child or an open           *)
(* collection refers to has been composed, and the constructor follows no   *)
(* reference to nothing.                                                    *)
THEOREM GraphIsWhole ==
  Spec => [](/\ \A j \in 1..Len(co.stack) : co.stack[j] \in 1..Len(co.nodes)
             /\ \A a \in co.anchors : a[2] \in 1..Len(co.nodes)
             /\ \A n \in 1..Len(co.nodes) : \A k \in 1..Len(co.nodes[n].kids) :
                  co.nodes[n].kids[k] \in 1..Len(co.nodes))
<1>1. InStep =>
        /\ \A j \in 1..Len(co.stack) : co.stack[j] \in 1..Len(co.nodes)
        /\ \A a \in co.anchors : a[2] \in 1..Len(co.nodes)
        /\ \A n \in 1..Len(co.nodes) : \A k \in 1..Len(co.nodes[n].kids) :
             co.nodes[n].kids[k] \in 1..Len(co.nodes)
  BY DEF InStep, Graph
<1>2. QED
  BY <1>1, AlwaysInStep, PTL

(* Where the parser is between documents, or at the end, and its events are *)
(* taken, no collection is left open: get_single_node never returns from    *)
(* the middle of a node.                                                    *)
THEOREM NothingLeftOpen ==
  Spec => [](ps.states = <<>> /\ ps.event = NoEvent => co.stack = <<>>)
<1>1. ASSUME IInv, InStep, ps.states = <<>>, ps.event = NoEvent
      PROVE  co.stack = <<>>
  <2>1. ps.state \in Outside
    BY <1>1 DEF IInv, Linked, Parser
  <2>2. Weight(ps.state) = 0 /\ Len(<<>>) = 0
    BY <2>1, NodesWeigh
  <2>3. Aligned(<<>>, ps.state, Kinds(co))
    BY <1>1, KindsNow
  <2>4. PICK d : Climbs(<<>>, Kinds(co), d) /\ Len(Kinds(co)) = d[Len(<<>>) + 1] + Weight(ps.state)
    BY <2>3 DEF Aligned
  <2>5. d[1] = 0
    BY <2>4 DEF Climbs
  <2>6. Len(Kinds(co)) = 0
    BY <2>2, <2>4, <2>5
  <2>7. Sequence(co.stack) /\ Len(co.stack) = 0
    BY <1>1, <2>6, KindsAre DEF InStep, Graph
  <2>8. QED
    BY <2>7, LengthIs
<1>2. IInv /\ InStep => (ps.states = <<>> /\ ps.event = NoEvent => co.stack = <<>>)
  BY <1>1
<1>3. QED
  BY <1>2, AlwaysInStep, PTL

-----------------------------------------------------------------------------
(* The dump.  A node is in the list of the serializer's tasks no more often *)
(* than a collection that was serialized lists it, and one time less once   *)
(* it was serialized itself.                                                *)

LEMMA DocIs ==
  ASSUME doc \in Docs \/ doc = <<>>
  PROVE  /\ Len(doc) \in Nat
         /\ \A n \in 1..Len(doc) :
              /\ Sequence(doc[n].kids)
              /\ \A k \in 1..Len(doc[n].kids) : doc[n].kids[k] \in 1..Len(doc)
              /\ doc[n].kind \in {"scalar", "seq", "map"}
              /\ doc[n].kind = "scalar" => doc[n].kids = <<>>
              /\ doc[n].kind = "scalar" /\ doc[n].tag # "str" =>
                   /\ doc[n].tag = Resolve(doc[n].value, TRUE)
                   /\ doc[n].value # <<>> /\ Analyze(doc[n].value).blockPlain
<1>1. CASE doc = <<>>
  <2>1. Len(<<>>) = 0
    OBVIOUS
  <2>2. QED
    BY <1>1, <2>1
<1>2. CASE doc \in Docs
  <2>. DEFINE T == [kind : {"scalar", "seq", "map"}, tag : STRING, value : Seq(STRING),
                    kids : Seq(Nat)]
  <2>1. doc \in Seq(T)
    BY <1>2, DocsAssumption
  <2>. HIDE DEF T
  <2>2. Len(doc) \in Nat /\ \A n \in 1..Len(doc) : doc[n] \in T
    BY <2>1, LenProperties, ElementOfSeq
  <2>3. \A n \in 1..Len(doc) : doc[n].kids \in Seq(Nat) /\ doc[n].kind \in {"scalar", "seq", "map"}
    BY <2>2 DEF T
  <2>4. \A n \in 1..Len(doc) :
              /\ \A k \in 1..Len(doc[n].kids) : doc[n].kids[k] \in 1..Len(doc)
              /\ doc[n].kind = "scalar" => doc[n].kids = <<>>
              /\ doc[n].kind = "scalar" /\ doc[n].tag # "str" =>
                   /\ doc[n].tag = Resolve(doc[n].value, TRUE)
                   /\ doc[n].value # <<>> /\ Analyze(doc[n].value).blockPlain
    BY <1>2, DocsAssumption
  <2>5. QED
    BY <2>2, <2>3, <2>4 DEF Sequence
<1>3. QED
  BY <1>1, <1>2

Tasks(q, i) == {j \in 1..Len(q) : q[j] = NodeTask(i)}

LEMMA TasksAre ==
  ASSUME NEW q, Sequence(q), NEW i
  PROVE  IsFiniteSet(Tasks(q, i)) /\ Cardinality(Tasks(q, i)) \in Nat
<1>1. Len(q) \in Nat
  BY LengthIs
<1>2. IsFiniteSet(1..Len(q))
  BY <1>1, FS_Interval
<1>3. QED
  BY <1>2, FS_Subset, FS_CardinalityType DEF Tasks

LEMMA TasksTail ==
  ASSUME NEW q, Sequence(q), q # <<>>, NEW i
  PROVE  Cardinality(Tasks(q, i)) =
           Cardinality(Tasks(Tail(q), i)) + IF Head(q) = NodeTask(i) THEN 1 ELSE 0
<1>. DEFINE n == Len(q) - 1
            A == Tasks(Tail(q), i)
            B == Tasks(q, i)
<1>1. /\ Head(q) = q[1] /\ n \in Nat /\ Len(Tail(q)) = n /\ Len(q) = n + 1
      /\ \A j \in 1..n : Tail(q)[j] = q[j + 1]
  BY TailIs, LengthIs
<1>. HIDE DEF n
<1>2. A \in SUBSET (1..n) /\ B \in SUBSET (1..(n + 1))
  BY <1>1 DEF Tasks
<1>3. \A j \in 1..n : j \in A <=> j + 1 \in B
  BY <1>1 DEF Tasks
<1>4. 1 \in B <=> Head(q) = NodeTask(i)
  BY <1>1 DEF Tasks
<1>. HIDE DEF A, B
<1>5. 1 \in 1..(n + 1) /\ \A j \in 1..(1 - 1) : j \in A <=> j \in B
  BY <1>1
<1>6. Cardinality(B) = Cardinality(A) + IF 1 \in B THEN 1 ELSE 0
  BY <1>1, <1>2, <1>3, <1>5, OneMore
<1>7. QED
  BY <1>4, <1>6 DEF A, B

LEMMA TasksConcat ==
  ASSUME NEW p, NEW r, Sequence(p), Sequence(r), NEW i
  PROVE  Cardinality(Tasks(p \o r, i)) = Cardinality(Tasks(p, i)) + Cardinality(Tasks(r, i))
<1>. DEFINE m == Len(p)
            q == p \o r
            A == Tasks(p, i)
            B == Tasks(r, i)
            C == {j \in (m + 1)..Len(q) : q[j] = NodeTask(i)}
            f == [j \in B |-> m + j]
<1>1. /\ m \in Nat /\ Len(r) \in Nat /\ Len(q) = m + Len(r)
      /\ \A j \in 1..m : q[j] = p[j]
      /\ \A j \in 1..Len(r) : q[m + j] = r[j]
  BY ConcatIs, LengthIs
<1>. HIDE DEF m, q
<1>2. Tasks(q, i) = A \cup C /\ A \cap C = {}
  BY <1>1 DEF Tasks, m
<1>3. f \in [B -> C]
  BY <1>1 DEF Tasks
<1>4. \A j, k \in B : f[j] = f[k] => j = k
  BY <1>1 DEF Tasks
<1>5. ASSUME NEW j \in C
      PROVE  \E k \in B : f[k] = j
  <2>1. j - m \in 1..Len(r) /\ m + (j - m) = j
    BY <1>1
  <2>2. j - m \in B
    BY <1>1, <2>1 DEF Tasks
  <2>3. f[j - m] = j
    BY <2>1, <2>2
  <2>4. QED
    BY <2>2, <2>3
<1>6. f \in Bijection(B, C)
  <2>. HIDE DEF f, B, C
  <2>1. QED
    BY <1>3, <1>4, <1>5, Zenon DEF Bijection, Injection, Surjection, IsInjective
<1>7. IsFiniteSet(C) /\ Cardinality(C) = Cardinality(B)
  <2>1. ExistsBijection(B, C)
    BY <1>6 DEF ExistsBijection
  <2>2. QED
    BY <2>1, TasksAre, FS_Bijection
<1>8. IsFiniteSet(A) /\ Cardinality(A) \in Nat /\ Cardinality(B) \in Nat
  BY TasksAre
<1>. HIDE DEF A, B, C
<1>9. Cardinality(A \cup C) = Cardinality(A) + Cardinality(C) - Cardinality(A \cap C)
  BY <1>7, <1>8, FS_Union
<1>10. Cardinality(A \cap C) = 0
  BY <1>2, FS_EmptySet
<1>11. QED
  BY <1>2, <1>7, <1>8, <1>9, <1>10 DEF A, B, q

(* Where node n of the document lists node i                                *)
From(n, i) == {<<n, k>> : k \in {j \in 1..Len(doc[n].kids) : doc[n].kids[j] = i}}
Met(i) == UNION {From(n, i) : n \in serialized}

LEMMA FromIs ==
  ASSUME doc \in Docs \/ doc = <<>>, NEW n \in 1..Len(doc), NEW i
  PROVE  /\ IsFiniteSet(From(n, i)) /\ Cardinality(From(n, i)) \in Nat
         /\ Cardinality(From(n, i)) =
              Cardinality({j \in 1..Len(doc[n].kids) : doc[n].kids[j] = i})
<1>. DEFINE S == {j \in 1..Len(doc[n].kids) : doc[n].kids[j] = i}
            f == [j \in S |-> <<n, j>>]
<1>1. IsFiniteSet(S) /\ Cardinality(S) \in Nat
  <2>1. Len(doc[n].kids) \in Nat
    BY DocIs, LengthIs
  <2>2. PICK m : m = Len(doc[n].kids)
    OBVIOUS
  <2>3. m \in Nat
    BY <2>1, <2>2
  <2>4. IsFiniteSet(1..m)
    BY <2>3, FS_Interval
  <2>5. QED
    BY <2>2, <2>4, FS_Subset, FS_CardinalityType
<1>2. From(n, i) = {<<n, j>> : j \in S}
  BY DEF From
<1>. HIDE DEF S
<1>3. f \in [S -> From(n, i)] /\ \A j \in From(n, i) : \E k \in S : f[k] = j
  BY <1>2
<1>4. \A j, k \in S : f[j] = f[k] => j = k
  OBVIOUS
<1>5. f \in Bijection(S, From(n, i))
  <2>. HIDE DEF f
  <2>1. QED
    BY <1>3, <1>4, Zenon DEF Bijection, Injection, Surjection, IsInjective
<1>6. ExistsBijection(S, From(n, i))
  BY <1>5 DEF ExistsBijection
<1>7. QED
  BY <1>1, <1>6, FS_Bijection DEF S

LEMMA ReferredIs ==
  ASSUME doc \in Docs \/ doc = <<>>, NEW i, serialized \subseteq 1..Len(doc)
  PROVE  /\ IsFiniteSet(Referred(i)) /\ IsFiniteSet(Met(i)) /\ Cardinality(Met(i)) \in Nat
         /\ Cardinality(Referred(i)) \in Nat /\ Cardinality(Met(i)) <= Cardinality(Referred(i))
<1>. DEFINE all == {From(n, i) : n \in 1..Len(doc)}
<1>1. Referred(i) = UNION all
  BY DEF Referred, From
<1>2. IsFiniteSet(all)
  <2>1. Len(doc) \in Nat
    BY DocIs
  <2>2. IsFiniteSet(1..Len(doc))
    BY <2>1, FS_Interval
  <2>. DEFINE f == [n \in 1..Len(doc) |-> From(n, i)]
  <2>3. f \in Surjection(1..Len(doc), all)
    BY DEF Surjection
  <2>. HIDE DEF f, all
  <2>4. QED
    BY <2>2, <2>3, FS_Surjection
<1>3. \A T \in all : IsFiniteSet(T)
  BY FromIs
<1>. HIDE DEF all
<1>4. IsFiniteSet(Referred(i))
  BY <1>1, <1>2, <1>3, FS_UNION
<1>5. Met(i) \subseteq Referred(i)
  BY <1>1 DEF Met, all
<1>6. QED
  BY <1>4, <1>5, FS_Subset, FS_CardinalityType

(* The marks that the serializer has among its tasks                        *)
MarkIds == {"StreamStart", "DocumentStart", "DocumentEnd", "StreamEnd"} \cup Ends

(* An event that can be written: a scalar that needs no tag, an alias of a  *)
(* node that has an anchor of its own                                       *)
Writable(ev) ==
  /\ ev.id = "Scalar" =>
       ev.quoted \/ (ev.plain /\ ev.value # <<>> /\ Analyze(ev.value).blockPlain)
  /\ ev.id = "Alias" => \E i \in serialized \cap Anchored : ev.anchor = AnchorOf(i)

(* The serializer, with the queue it fills                                  *)
Serializing ==
  /\ doc \in Docs \/ doc = <<>>
  /\ serialized \subseteq 1..Len(doc)
  /\ Sequence(todo) /\ Sequence(events)
  /\ \A j \in 1..Len(todo) : \/ \E i \in 1..Len(doc) : todo[j] = NodeTask(i)
                             \/ \E id \in MarkIds : todo[j] = Event(id)
  /\ \A i \in 1..Len(doc) :
       Cardinality(Tasks(todo, i)) + (IF i \in serialized THEN 1 ELSE 0)
         <= Cardinality(Met(i)) + (IF i = 1 THEN 1 ELSE 0)
  /\ \A j \in 1..Len(events) : Writable(events[j])

LEMMA TaskIsNode ==
  /\ \A i : IsNode(NodeTask(i)) /\ NodeTask(i).node = i
  /\ \A i, j : NodeTask(i) = NodeTask(j) => i = j
  /\ \A id : ~ IsNode(Event(id)) /\ Event(id).id = id
  /\ \A i, id : NodeTask(i) # Event(id)
<1>1. \A i : IsNode(NodeTask(i)) /\ NodeTask(i).node = i
  BY DEF IsNode, NodeTask
<1>2. \A id : ~ IsNode(Event(id)) /\ Event(id).id = id
  BY DEF IsNode, Event
<1>3. QED
  BY <1>1, <1>2

LEMMA MarksWrite ==
  ASSUME NEW id \in MarkIds \cup Starts \cup Ends
  PROVE  id # "Scalar" /\ id # "Alias"
BY DEF MarkIds, Starts, Ends, StartOf, EndOf

(* A node whose task comes again has been met twice, so it has an anchor.   *)
LEMMA MetAgain ==
  ASSUME Serializing, todo # <<>>, NEW i \in 1..Len(doc), Head(todo) = NodeTask(i),
         i \in serialized
  PROVE  i \in Anchored
<1>1. /\ Cardinality(Tasks(todo, i)) = Cardinality(Tasks(Tail(todo), i)) + 1
      /\ Cardinality(Tasks(Tail(todo), i)) \in Nat
  BY TasksTail, TasksAre, TailIs DEF Serializing
<1>2. /\ Cardinality(Met(i)) \in Nat /\ Cardinality(Referred(i)) \in Nat
      /\ Cardinality(Met(i)) <= Cardinality(Referred(i))
  BY ReferredIs DEF Serializing
<1>3. Cardinality(Tasks(todo, i)) + 1 <= Cardinality(Met(i)) + (IF i = 1 THEN 1 ELSE 0)
  BY DEF Serializing
<1>4. Cardinality(Referred(i)) + (IF i = 1 THEN 1 ELSE 0) > 1
  BY <1>1, <1>2, <1>3
<1>5. QED
  BY <1>4 DEF Anchored

LEMMA SameDoc ==
  ASSUME doc' = doc
  PROVE  Anchored' = Anchored /\ \A i : AnchorOf(i)' = AnchorOf(i)
BY DEF Anchored, AnchorOf, Referred

LEMMA WritableStill ==
  ASSUME doc' = doc, serialized \subseteq serialized', NEW ev, Writable(ev)
  PROVE  Writable(ev)'
BY SameDoc DEF Writable

(* What is emitted joins the queue.                                         *)
LEMMA QueueGrows ==
  ASSUME Serializing, doc' = doc, serialized \subseteq serialized', NEW ev,
         Writable(ev)', events' = Append(events, ev)
  PROVE  Sequence(events') /\ (\A j \in 1..Len(events) : Writable(events[j]))'
<1>1. /\ Sequence(events') /\ Len(events') = Len(events) + 1 /\ Len(events) \in Nat
      /\ \A j \in 1..Len(events) : events'[j] = events[j]
      /\ events'[Len(events) + 1] = ev
  BY AppendIs, LengthIs DEF Serializing
<1>2. ASSUME NEW j \in 1..Len(events')
      PROVE  Writable(events[j])'
  <2>1. CASE j \in 1..Len(events)
    <3>1. Writable(events[j])
      BY <2>1 DEF Serializing
    <3>2. PICK e : e = events[j]
      OBVIOUS
    <3>3. Writable(e)'
      BY <3>1, <3>2, WritableStill
    <3>4. events'[j] = e
      BY <1>1, <2>1, <3>2
    <3>5. QED
      BY <3>3, <3>4 DEF Writable
  <2>2. CASE j = Len(events) + 1
    <3>1. events'[j] = ev
      BY <1>1, <2>2
    <3>2. QED
      BY <3>1 DEF Writable
  <2>3. QED
    BY <1>1, <1>2, <2>1, <2>2
<1>3. QED
  BY <1>1, <1>2

LEMMA TodoShrinks ==
  ASSUME Serializing, todo # <<>>, doc' = doc, todo' = Tail(todo)
  PROVE  /\ Sequence(todo')
         /\ \A j \in 1..Len(todo') : \/ \E i \in 1..Len(doc) : todo'[j] = NodeTask(i)
                                     \/ \E id \in MarkIds : todo'[j] = Event(id)
<1>1. /\ Sequence(todo') /\ Len(todo') = Len(todo) - 1 /\ Len(todo) - 1 \in Nat
      /\ \A j \in 1..(Len(todo) - 1) : todo'[j] = todo[j + 1]
      /\ Len(todo) \in Nat
  BY TailIs, LengthIs DEF Serializing
<1>2. \A j \in 1..(Len(todo) - 1) : j + 1 \in 1..Len(todo)
  BY <1>1
<1>3. QED
  BY <1>1, <1>2 DEF Serializing

LEMMA MetGrows ==
  ASSUME Serializing, doc' = doc, NEW m \in 1..Len(doc), m \notin serialized,
         serialized' = serialized \cup {m}, NEW i
  PROVE  /\ Cardinality(Met(i)) \in Nat /\ Cardinality(From(m, i)) \in Nat
         /\ Cardinality(Met(i)') = Cardinality(Met(i)) + Cardinality(From(m, i))
<1>1. Met(i)' = Met(i) \cup From(m, i)
  BY DEF Met, From
<1>2. Met(i) \cap From(m, i) = {}
  BY DEF Met, From
<1>3. /\ IsFiniteSet(Met(i)) /\ Cardinality(Met(i)) \in Nat
      /\ IsFiniteSet(From(m, i)) /\ Cardinality(From(m, i)) \in Nat
  BY ReferredIs, FromIs DEF Serializing
<1>4. Cardinality(Met(i) \cap From(m, i)) = 0
  BY <1>2, FS_EmptySet
<1>5. Cardinality(Met(i) \cup From(m, i)) =
        Cardinality(Met(i)) + Cardinality(From(m, i)) - Cardinality(Met(i) \cap From(m, i))
  BY <1>3, FS_Union
<1>6. QED
  BY <1>1, <1>3, <1>4, <1>5

LEMMA HandleSerializing ==
  ASSUME Serializing, UNCHANGED <<doc, todo, serialized>>,
         \/ events' = events
         \/ events # <<>> /\ events' = Tail(events)
  PROVE  Serializing'
<1>1. \A i : Met(i)' = Met(i)
  BY DEF Met, From
<1>2. Sequence(events') /\ (\A j \in 1..Len(events) : Writable(events[j]))'
  <2>1. ASSUME events' = Tail(events), events # <<>>
        PROVE  Sequence(events') /\ (\A j \in 1..Len(events) : Writable(events[j]))'
    <3>1. /\ Sequence(events') /\ Len(events') = Len(events) - 1 /\ Len(events) \in Nat
          /\ \A j \in 1..(Len(events) - 1) : events'[j] = events[j + 1]
      BY <2>1, TailIs, LengthIs DEF Serializing
    <3>2. ASSUME NEW j \in 1..Len(events')
          PROVE  Writable(events[j])'
      <4>1. PICK e : e = events[j + 1]
        OBVIOUS
      <4>2. j + 1 \in 1..Len(events) /\ events'[j] = e
        BY <3>1, <3>2, <4>1
      <4>3. Writable(e)'
        BY <4>1, <4>2, WritableStill DEF Serializing
      <4>4. QED
        BY <4>2, <4>3 DEF Writable
    <3>3. QED
      BY <3>1, <3>2
  <2>2. ASSUME events' = events
        PROVE  Sequence(events') /\ (\A j \in 1..Len(events) : Writable(events[j]))'
    <3>1. ASSUME NEW j \in 1..Len(events')
          PROVE  Writable(events[j])'
      <4>1. PICK e : e = events[j]
        OBVIOUS
      <4>2. Writable(e)'
        BY <2>2, <3>1, <4>1, WritableStill DEF Serializing
      <4>3. QED
        BY <2>2, <4>1, <4>2 DEF Writable
    <3>2. QED
      BY <2>2, <3>1 DEF Serializing
  <2>3. QED
    BY <2>1, <2>2
<1>3. QED
  BY <1>1, <1>2 DEF Serializing

(* Put together again, where a node was serialized.                         *)
LEMMA PutTogether ==
  ASSUME Serializing, doc' = doc, NEW m \in 1..Len(doc), serialized' = serialized \cup {m},
         Sequence(todo'), Sequence(events'),
         (\A j \in 1..Len(events) : Writable(events[j]))',
         \A j \in 1..Len(todo') : \/ \E i \in 1..Len(doc) : todo'[j] = NodeTask(i)
                                  \/ \E id \in MarkIds : todo'[j] = Event(id),
         \A i \in 1..Len(doc) :
           Cardinality(Tasks(todo', i)) + (IF i \in serialized' THEN 1 ELSE 0)
             <= Cardinality(Met(i)') + (IF i = 1 THEN 1 ELSE 0)
  PROVE  Serializing'
<1>1. (\A i \in 1..Len(doc) :
         Cardinality(Tasks(todo, i)) + (IF i \in serialized THEN 1 ELSE 0)
           <= Cardinality(Met(i)) + (IF i = 1 THEN 1 ELSE 0))'
  BY DEF Tasks
<1>2. serialized' \subseteq 1..Len(doc)
  BY DEF Serializing
<1>3. QED
  BY <1>1, <1>2 DEF Serializing

LEMMA SerializeKeeps ==
  ASSUME Serializing, SerializeMark \/ SerializeAlias \/ SerializeNode
  PROVE  Serializing'
<1>1. doc' = doc /\ todo # <<>>
  BY DEF SerializeMark, SerializeAlias, SerializeNode, Emit
<1>2. \/ \E i \in 1..Len(doc) : Head(todo) = NodeTask(i)
      \/ \E id \in MarkIds : Head(todo) = Event(id)
  <2>1. Head(todo) = todo[1] /\ 1 \in 1..Len(todo)
    BY <1>1, TailIs, LengthIs DEF Serializing
  <2>2. QED
    BY <2>1 DEF Serializing
<1>3. /\ Len(doc) \in Nat
      /\ \A n \in 1..Len(doc) : /\ Sequence(doc[n].kids)
                                /\ doc[n].kind \in {"scalar", "seq", "map"}
                                /\ \A k \in 1..Len(doc[n].kids) : doc[n].kids[k] \in 1..Len(doc)
  BY DocIs DEF Serializing
<1>4. ASSUME NEW i \in 1..Len(doc)
      PROVE  /\ Cardinality(Tasks(todo, i)) =
                  Cardinality(Tasks(Tail(todo), i)) + IF Head(todo) = NodeTask(i) THEN 1 ELSE 0
             /\ Cardinality(Tasks(Tail(todo), i)) \in Nat /\ Cardinality(Met(i)) \in Nat
             /\ Cardinality(Tasks(todo, i)) + (IF i \in serialized THEN 1 ELSE 0)
                  <= Cardinality(Met(i)) + (IF i = 1 THEN 1 ELSE 0)
  BY <1>1, TasksTail, TasksAre, TailIs, ReferredIs DEF Serializing
<1>5. ASSUME serialized' = serialized, todo' = Tail(todo),
             NEW ev, Writable(ev), events' = Append(events, ev)
      PROVE  Serializing'
  <2>1. \A i : Met(i)' = Met(i)
    BY <1>1, <1>5 DEF Met, From
  <2>2. ASSUME NEW i \in 1..Len(doc)
        PROVE  Cardinality(Tasks(todo', i)) + (IF i \in serialized THEN 1 ELSE 0)
                 <= Cardinality(Met(i)) + (IF i = 1 THEN 1 ELSE 0)
    BY <1>4, <1>5, <2>2
  <2>3. Writable(ev)'
    BY <1>1, <1>5, WritableStill
  <2>4. Sequence(events') /\ (\A j \in 1..Len(events) : Writable(events[j]))'
    BY <1>1, <1>5, <2>3, QueueGrows
  <2>5. /\ Sequence(todo')
        /\ \A j \in 1..Len(todo') : \/ \E i \in 1..Len(doc) : todo'[j] = NodeTask(i)
                                    \/ \E id \in MarkIds : todo'[j] = Event(id)
    BY <1>1, <1>5, TodoShrinks
  <2>6. (\A i \in 1..Len(doc) :
           Cardinality(Tasks(todo, i)) + (IF i \in serialized THEN 1 ELSE 0)
             <= Cardinality(Met(i)) + (IF i = 1 THEN 1 ELSE 0))'
    BY <1>1, <1>5, <2>1, <2>2 DEF Tasks
  <2>7. QED
    BY <1>1, <1>5, <2>4, <2>5, <2>6 DEF Serializing
<1>6. CASE SerializeMark
  <2>1. PICK id \in MarkIds : Head(todo) = Event(id)
    BY <1>2, <1>6, TaskIsNode DEF SerializeMark
  <2>2. Writable(Event(id))
    BY TaskIsNode, MarksWrite DEF Writable
  <2>3. serialized' = serialized /\ todo' = Tail(todo) /\ events' = Append(events, Event(id))
    BY <1>6, <2>1 DEF SerializeMark, Emit
  <2>4. QED
    BY <1>5, <2>2, <2>3
<1>7. CASE SerializeAlias
  <2>1. PICK i \in 1..Len(doc) : Head(todo) = NodeTask(i)
    BY <1>2, <1>7, TaskIsNode DEF SerializeAlias
  <2>. DEFINE ev == [Event("Alias") EXCEPT !.anchor = AnchorOf(i)]
  <2>2. Head(todo).node = i
    BY <2>1, TaskIsNode
  <2>3. i \in serialized /\ i \in Anchored
    BY <1>1, <1>7, <2>1, <2>2, MetAgain DEF SerializeAlias
  <2>4. ev.id = "Alias" /\ ev.anchor = AnchorOf(i)
    BY DEF Event
  <2>. HIDE DEF ev
  <2>5. Writable(ev)
    BY <2>3, <2>4 DEF Writable
  <2>6. serialized' = serialized /\ todo' = Tail(todo) /\ events' = Append(events, ev)
    BY <1>7, <2>2 DEF SerializeAlias, Emit, ev
  <2>7. QED
    BY <1>5, <2>5, <2>6
<1>8. CASE SerializeNode
  <2>1. PICK m \in 1..Len(doc) : Head(todo) = NodeTask(m)
    BY <1>2, <1>8, TaskIsNode DEF SerializeNode
  <2>2. Head(todo).node = m /\ m \notin serialized /\ serialized' = serialized \cup {m}
    BY <1>8, <2>1, TaskIsNode DEF SerializeNode
  <2>3. ASSUME NEW i \in 1..Len(doc)
        PROVE  /\ Cardinality(Met(i)') = Cardinality(Met(i)) + Cardinality(From(m, i))
               /\ Cardinality(From(m, i)) \in Nat
               /\ Cardinality(Tasks(Tail(todo), i)) + (IF i \in serialized' THEN 1 ELSE 0)
                    <= Cardinality(Met(i)) + (IF i = 1 THEN 1 ELSE 0)
    <3>1. /\ Cardinality(Met(i)') = Cardinality(Met(i)) + Cardinality(From(m, i))
          /\ Cardinality(From(m, i)) \in Nat
      BY <1>1, <2>2, MetGrows
    <3>2. Head(todo) = NodeTask(i) <=> i = m
      BY <2>1, TaskIsNode
    <3>3. QED
      BY <1>4, <2>2, <3>1, <3>2
  <2>4. CASE doc[m].kind = "scalar"
    <3>. DEFINE ev == [id |-> "Scalar", anchor |-> AnchorOf(m), value |-> doc[m].value,
                       plain |-> doc[m].tag = Resolve(doc[m].value, TRUE),
                       quoted |-> doc[m].tag = Resolve(doc[m].value, FALSE)]
    <3>1. todo' = Tail(todo) /\ events' = Append(events, ev)
      BY <1>8, <2>2, <2>4 DEF SerializeNode, Emit
    <3>2. Resolve(doc[m].value, FALSE) = "str"
      BY DEF Resolve
    <3>3. /\ doc[m].tag # "str" =>
               /\ doc[m].tag = Resolve(doc[m].value, TRUE)
               /\ doc[m].value # <<>> /\ Analyze(doc[m].value).blockPlain
      BY <2>4, DocIs DEF Serializing
    <3>4. Writable(ev)
      <4>1. /\ ev.id = "Scalar" /\ ev.value = doc[m].value
            /\ ev.plain = (doc[m].tag = Resolve(doc[m].value, TRUE))
            /\ ev.quoted = (doc[m].tag = "str")
        BY <3>2
      <4>. HIDE DEF ev
      <4>2. ev.quoted \/ (ev.plain /\ ev.value # <<>> /\ Analyze(ev.value).blockPlain)
        BY <3>3, <4>1
      <4>3. QED
        BY <4>1, <4>2 DEF Writable
    <3>. HIDE DEF ev
    <3>5. PICK e : e = ev
      OBVIOUS
    <3>6. Writable(e) /\ events' = Append(events, e)
      BY <3>1, <3>4, <3>5
    <3>7. Writable(e)'
      BY <1>1, <2>2, <3>6, WritableStill
    <3>8. Sequence(events') /\ (\A j \in 1..Len(events) : Writable(events[j]))'
      BY <1>1, <2>2, <3>6, <3>7, QueueGrows
    <3>9. /\ Sequence(todo')
          /\ \A j \in 1..Len(todo') : \/ \E i \in 1..Len(doc) : todo'[j] = NodeTask(i)
                                      \/ \E id \in MarkIds : todo'[j] = Event(id)
      BY <1>1, <3>1, TodoShrinks
    <3>10. ASSUME NEW i \in 1..Len(doc)
           PROVE  Cardinality(Tasks(todo', i)) + (IF i \in serialized' THEN 1 ELSE 0)
                    <= Cardinality(Met(i)') + (IF i = 1 THEN 1 ELSE 0)
      BY <1>4, <2>3, <3>1
    <3>11. QED
      BY <1>1, <2>2, <3>8, <3>9, <3>10, PutTogether
  <2>5. CASE doc[m].kind # "scalar"
    <3>. DEFINE kids == doc[m].kids
                tasks == [k \in 1..Len(kids) |-> NodeTask(kids[k])]
                last == Event(EndOf[doc[m].kind])
                front == tasks \o <<last>>
                ev == [Event(StartOf[doc[m].kind]) EXCEPT !.anchor = AnchorOf(m)]
    <3>1. todo' = front \o Tail(todo) /\ events' = Append(events, ev)
      BY <1>8, <2>2, <2>5 DEF SerializeNode, Emit
    <3>2. doc[m].kind \in {"seq", "map"}
      BY <1>3, <2>5
    <3>3. EndOf[doc[m].kind] \in Ends /\ StartOf[doc[m].kind] \in Starts
      BY <3>2 DEF Ends, Starts, StartOf, EndOf
    <3>4. Writable(ev)
      <4>1. ev.id = StartOf[doc[m].kind]
        BY DEF Event
      <4>. HIDE DEF ev
      <4>2. QED
        BY <3>3, <4>1, MarksWrite DEF Writable
    <3>. HIDE DEF ev
    <3>5. PICK e : e = ev
      OBVIOUS
    <3>6. Writable(e) /\ events' = Append(events, e)
      BY <3>1, <3>4, <3>5
    <3>7. Writable(e)'
      BY <1>1, <2>2, <3>6, WritableStill
    <3>8. Sequence(events') /\ (\A j \in 1..Len(events) : Writable(events[j]))'
      BY <1>1, <2>2, <3>6, <3>7, QueueGrows
    <3>9. Sequence(kids) /\ Len(kids) \in Nat /\ \A k \in 1..Len(kids) : kids[k] \in 1..Len(doc)
      BY <1>3, LengthIs
    <3>. HIDE DEF kids
    <3>10. /\ Sequence(tasks) /\ Len(tasks) = Len(kids)
           /\ \A k \in 1..Len(kids) : tasks[k] = NodeTask(kids[k])
      <4>. DEFINE S == {NodeTask(kids[k]) : k \in 1..Len(kids)}
      <4>1. tasks \in [1..Len(kids) -> S]
        OBVIOUS
      <4>2. tasks \in Seq(S)
        BY <3>9, <4>1, SeqDef
      <4>3. DOMAIN tasks = 1..Len(kids)
        OBVIOUS
      <4>4. Len(tasks) = Len(kids)
        BY <3>9, <4>2, <4>3, LenProperties
      <4>5. QED
        BY <4>2, <4>4 DEF Sequence
    <3>. HIDE DEF tasks, last
    <3>11. Sequence(<<last>>) /\ Len(<<last>>) = 1 /\ <<last>>[1] = last
      <4>1. <<last>> \in Seq({last})
        OBVIOUS
      <4>2. QED
        BY <4>1 DEF Sequence
    <3>12. /\ Sequence(front) /\ Len(front) = Len(kids) + 1
           /\ \A k \in 1..Len(kids) : front[k] = NodeTask(kids[k])
           /\ front[Len(kids) + 1] = last
      <4>1. /\ Sequence(front) /\ Len(front) = Len(tasks) + Len(<<last>>)
            /\ \A k \in 1..Len(tasks) : front[k] = tasks[k]
            /\ \A k \in 1..Len(<<last>>) : front[Len(tasks) + k] = <<last>>[k]
        BY <3>10, <3>11, ConcatIs
      <4>2. 1 \in 1..Len(<<last>>)
        BY <3>11
      <4>. HIDE DEF front
      <4>3. QED
        BY <3>9, <3>10, <3>11, <4>1, <4>2
    <3>13. /\ Sequence(Tail(todo)) /\ Len(Tail(todo)) = Len(todo) - 1 /\ Len(todo) - 1 \in Nat
           /\ \A j \in 1..(Len(todo) - 1) : Tail(todo)[j] = todo[j + 1]
           /\ Len(todo) \in Nat
      BY <1>1, TailIs, LengthIs DEF Serializing
    <3>. HIDE DEF front
    <3>14. /\ Sequence(todo') /\ Len(todo') = Len(front) + Len(Tail(todo))
           /\ \A j \in 1..Len(front) : todo'[j] = front[j]
           /\ \A j \in 1..Len(Tail(todo)) : todo'[Len(front) + j] = Tail(todo)[j]
      <4>1. PICK p, q : p = front /\ q = Tail(todo)
        OBVIOUS
      <4>2. Sequence(p) /\ Sequence(q)
        BY <3>12, <3>13, <4>1
      <4>3. todo' = p \o q
        BY <3>1, <4>1
      <4>4. /\ Sequence(p \o q) /\ Len(p \o q) = Len(p) + Len(q)
            /\ \A j \in 1..Len(p) : (p \o q)[j] = p[j]
            /\ \A j \in 1..Len(q) : (p \o q)[Len(p) + j] = q[j]
        BY <4>2, ConcatIs
      <4>5. QED
        BY <4>1, <4>3, <4>4
    <3>15. ASSUME NEW j \in 1..Len(todo')
           PROVE  \/ \E i \in 1..Len(doc) : todo'[j] = NodeTask(i)
                  \/ \E id \in MarkIds : todo'[j] = Event(id)
      <4>1. PICK c, r : c = Len(kids) /\ r = Len(todo) - 1
        OBVIOUS
      <4>2. /\ c \in Nat /\ r \in Nat /\ Len(front) = c + 1 /\ Len(Tail(todo)) = r
            /\ Len(todo') = (c + 1) + r /\ j \in 1..((c + 1) + r)
        BY <3>9, <3>12, <3>13, <3>14, <3>15, <4>1
      <4>3. CASE j \in 1..c
        <5>1. j \in 1..Len(front) /\ j \in 1..Len(kids)
          BY <4>1, <4>2, <4>3
        <5>2. todo'[j] = NodeTask(kids[j]) /\ kids[j] \in 1..Len(doc)
          BY <3>9, <3>12, <3>14, <5>1
        <5>3. QED
          BY <5>2
      <4>4. CASE j = c + 1
        <5>1. j \in 1..Len(front) /\ front[j] = last
          BY <3>12, <4>1, <4>2, <4>4
        <5>2. todo'[j] = last
          BY <3>14, <5>1
        <5>3. QED
          BY <3>3, <5>2 DEF MarkIds, last
      <4>5. CASE j \in (c + 2)..((c + 1) + r)
        <5>1. PICK k : k = j - (c + 1)
          OBVIOUS
        <5>2. k \in 1..r /\ j = (c + 1) + k
          BY <4>2, <4>5, <5>1
        <5>3. todo'[j] = Tail(todo)[k]
          BY <3>14, <4>2, <5>2
        <5>4. todo'[j] = todo[k + 1] /\ k + 1 \in 1..Len(todo)
          BY <3>13, <4>1, <5>2, <5>3
        <5>5. QED
          BY <5>4 DEF Serializing
      <4>6. QED
        BY <4>2, <4>3, <4>4, <4>5
    <3>16. ASSUME NEW i \in 1..Len(doc)
           PROVE  Cardinality(Tasks(todo', i)) + (IF i \in serialized' THEN 1 ELSE 0)
                    <= Cardinality(Met(i)') + (IF i = 1 THEN 1 ELSE 0)
      <4>1. Tasks(front, i) = {k \in 1..Len(kids) : kids[k] = i}
        <5>1. last # NodeTask(i)
          BY TaskIsNode DEF last
        <5>2. \A k \in 1..Len(kids) : front[k] = NodeTask(i) <=> kids[k] = i
          BY <3>12, TaskIsNode
        <5>3. QED
          BY <3>9, <3>12, <5>1, <5>2 DEF Tasks
      <4>2. Cardinality(Tasks(front, i)) = Cardinality(From(m, i))
        BY <4>1, FromIs DEF Serializing, kids
      <4>3. Cardinality(Tasks(todo', i)) =
              Cardinality(Tasks(front, i)) + Cardinality(Tasks(Tail(todo), i))
        BY <3>1, <3>12, <3>13, TasksConcat
      <4>4. QED
        BY <1>4, <2>3, <4>2, <4>3
    <3>17. QED
      BY <1>1, <2>2, <3>8, <3>14, <3>15, <3>16, PutTogether
  <2>6. QED
    BY <2>4, <2>5
<1>9. QED
  BY <1>6, <1>7, <1>8

-----------------------------------------------------------------------------
(* The emitter's states.  Its stack is empty outside the document; inside   *)
(* it holds where to go on in each block collection, under document_end.  A *)
(* flow collection is written only when it is empty, so nothing is in one.  *)
EmitterFields == {"state", "states", "indents", "indent", "flow", "out", "context",
                  "tagged"}
EmitterOutside == {"stream_start", "first_document_start", "document_root", "document_end",
                   "document_start", "nothing"}
Resume == {"block_sequence_item", "block_mapping_key", "block_mapping_simple_value",
           "block_mapping_value"}
EmitterInside == Resume \cup {"node", "first_flow_item", "first_block_sequence_item",
                              "first_block_mapping_key"}

Emitter(e) ==
  /\ DOMAIN e = EmitterFields
  /\ Sequence(e.states)
  /\ \/ e.state \in EmitterOutside /\ e.states = <<>>
     \/ /\ e.state \in EmitterInside
        /\ e.states # <<>> /\ e.states[1] = "document_end"
        /\ \A i \in 2..Len(e.states) : e.states[i] \in Resume
  /\ e.flow = IF e.state = "first_flow_item" THEN 1 ELSE 0
  /\ ~ e.tagged

Dumping ==
  /\ Serializing /\ Emitter(em)
  /\ em.state = "first_flow_item" => events # <<>> /\ Head(events).id \in Ends

(* What is written does not move the emitter.                               *)
Still(e) ==
  /\ DOMAIN e = EmitterFields
  /\ e.state = em.state /\ e.states = em.states /\ e.flow = em.flow /\ e.tagged = em.tagged

LEMMA WritingStill ==
  ASSUME NEW e, Still(e)
  PROVE  /\ \A o : Still(Written(e, o))
         /\ Still(Indented(e)) /\ Still(PopIndent(e))
         /\ \A flow, indentless : Still(IncreaseIndent(e, flow, indentless))
<1>1. \A o : Still(Written(e, o))
  BY DEF Still, Written, EmitterFields
<1>2. Still(Indented(e))
  BY <1>1 DEF Indented
<1>3. Still(PopIndent(e))
  BY DEF Still, PopIndent, EmitterFields
<1>4. \A flow, indentless : Still(IncreaseIndent(e, flow, indentless))
  BY DEF Still, IncreaseIndent, EmitterFields
<1>5. QED
  BY <1>1, <1>2, <1>3, <1>4

LEMMA EmitterStill ==
  ASSUME Emitter(em)
  PROVE  Still(em) /\ Still(WithAnchor)
<1>1. Still(em)
  BY DEF Emitter, Still
<1>2. QED
  BY <1>1, WritingStill DEF WithAnchor

(* From one state outside the document to the next                          *)
LEMMA OutsideMoves ==
  ASSUME Emitter(em), em.state \in EmitterOutside, NEW e, Still(e),
         NEW x \in EmitterOutside, em' = [e EXCEPT !.state = x]
  PROVE  Emitter(em') /\ em'.state # "first_flow_item"
<1>1. /\ DOMAIN em' = EmitterFields /\ em'.state = x /\ em'.states = em.states
      /\ em'.flow = em.flow /\ em'.tagged = em.tagged
  BY DEF Still, EmitterFields
<1>2. /\ em.state # "first_flow_item" /\ x # "first_flow_item"
      /\ em.state \notin EmitterInside
  BY DEF EmitterOutside, EmitterInside, Resume
<1>3. QED
  BY <1>1, <1>2 DEF Emitter

(* From one state inside it to another, below which the same is left        *)
LEMMA InsideMoves ==
  ASSUME Emitter(em), em.state \in EmitterInside, DOMAIN em' = EmitterFields,
         em'.state \in EmitterInside, em'.states = em.states, em'.tagged = em.tagged,
         em'.flow = IF em'.state = "first_flow_item" THEN 1 ELSE 0
  PROVE  Emitter(em')
<1>1. em.state \notin EmitterOutside
  BY DEF EmitterOutside, EmitterInside, Resume
<1>2. QED
  BY <1>1 DEF Emitter

LEMMA EmitterPops ==
  ASSUME Emitter(em), em.state \in EmitterInside, DOMAIN em' = EmitterFields,
         em'.state = Last(em.states), em'.states = Front(em.states), ~ em'.tagged,
         em'.flow = 0
  PROVE  Emitter(em') /\ em'.state # "first_flow_item"
<1>1. em.state \notin EmitterOutside
  BY DEF EmitterOutside, EmitterInside, Resume
<1>2. /\ Sequence(em.states) /\ em.states # <<>> /\ em.states[1] = "document_end"
      /\ \A i \in 2..Len(em.states) : em.states[i] \in Resume
  BY <1>1 DEF Emitter
<1>3. /\ Sequence(em'.states) /\ Len(em.states) \in Nat
      /\ Len(em'.states) = Len(em.states) - 1
      /\ em'.state = em.states[Len(em.states)]
      /\ \A i \in 1..(Len(em.states) - 1) : em'.states[i] = em.states[i]
  BY <1>2, BlocksPopped
<1>4. Len(em.states) # 0
  BY <1>2, LengthIs
<1>5. CASE Len(em.states) = 1
  <2>1. em'.state = "document_end" /\ em'.states = <<>>
    BY <1>2, <1>3, <1>5, LengthIs
  <2>2. QED
    BY <1>3, <2>1 DEF Emitter, EmitterOutside
<1>6. CASE Len(em.states) # 1
  <2>1. PICK n : n = Len(em.states)
    OBVIOUS
  <2>2. n \in Nat /\ n \in 2..n /\ 1 \in 1..(n - 1) /\ Len(em'.states) = n - 1
    <3>1. n \in Nat /\ n # 0 /\ n # 1 /\ Len(em'.states) = n - 1
      BY <1>3, <1>4, <1>6, <2>1
    <3>2. QED
      BY <3>1
  <2>3. em'.state \in Resume /\ em'.states[1] = "document_end"
    BY <1>2, <1>3, <2>1, <2>2
  <2>4. \A i \in 2..Len(em'.states) : em'.states[i] \in Resume
    <3>1. ASSUME NEW i \in 2..(n - 1)
          PROVE  em'.states[i] \in Resume
      <4>1. i \in 1..(n - 1) /\ i \in 2..n
        BY <2>2
      <4>2. QED
        BY <1>2, <1>3, <2>1, <4>1
    <3>2. QED
      BY <2>2, <3>1
  <2>5. em'.states # <<>>
    BY <1>3, <2>2, LengthIs
  <2>6. em'.state \in EmitterInside /\ em'.state # "first_flow_item"
    BY <2>3 DEF EmitterInside, Resume
  <2>7. QED
    BY <1>3, <2>3, <2>4, <2>5, <2>6 DEF Emitter
<1>7. QED
  BY <1>5, <1>6

(* expect_node is called.                                                   *)
LEMMA ExpectMoves ==
  ASSUME Emitter(em), NEW e, Still(e), NEW next, NEW context,
         em' = [Push(e, next) EXCEPT !.state = "node", !.context = context],
         em.state # "first_flow_item",
         \/ em.state \in EmitterOutside /\ next = "document_end"
         \/ em.state \in EmitterInside /\ next \in Resume
  PROVE  Emitter(em') /\ em'.state # "first_flow_item"
<1>1. /\ DOMAIN em' = EmitterFields /\ em'.state = "node"
      /\ em'.states = Append(em.states, next)
      /\ em'.flow = em.flow /\ em'.tagged = em.tagged
  BY DEF Still, Push, EmitterFields
<1>2. EmitterOutside \cap EmitterInside = {} /\ "node" \in EmitterInside
  BY DEF EmitterOutside, EmitterInside, Resume
<1>3. /\ Sequence(em'.states) /\ Len(em'.states) = Len(em.states) + 1
      /\ \A i \in 1..Len(em.states) : em'.states[i] = em.states[i]
      /\ em'.states[Len(em.states) + 1] = next
      /\ Len(em.states) \in Nat
  <2>1. PICK q : q = em.states
    OBVIOUS
  <2>2. Sequence(q)
    BY <2>1 DEF Emitter
  <2>3. /\ Sequence(Append(q, next)) /\ Len(Append(q, next)) = Len(q) + 1
        /\ \A i \in 1..Len(q) : Append(q, next)[i] = q[i]
        /\ Append(q, next)[Len(q) + 1] = next
        /\ Len(q) \in Nat
    BY <2>2, AppendIs, LengthIs
  <2>4. QED
    BY <1>1, <2>1, <2>3
<1>4. em'.states # <<>>
  BY <1>3, LengthIs
<1>5. em'.states[1] = "document_end" /\ \A i \in 2..Len(em'.states) : em'.states[i] \in Resume
  <2>1. CASE em.state \in EmitterOutside
    <3>1. em.states = <<>> /\ next = "document_end"
      BY <1>2, <2>1 DEF Emitter
    <3>2. Len(em.states) = 0
      BY <3>1
    <3>3. QED
      BY <1>3, <3>1, <3>2
  <2>2. CASE em.state \in EmitterInside
    <3>1. /\ em.states # <<>> /\ em.states[1] = "document_end" /\ next \in Resume
          /\ \A i \in 2..Len(em.states) : em.states[i] \in Resume
      BY <1>2, <2>2 DEF Emitter
    <3>2. Len(em.states) # 0
      BY <3>1, LengthIs DEF Emitter
    <3>3. 1 \in 1..Len(em.states)
      BY <1>3, <3>2
    <3>4. ASSUME NEW i \in 2..Len(em'.states)
          PROVE  em'.states[i] \in Resume
      <4>1. (i \in 2..Len(em.states) /\ i \in 1..Len(em.states)) \/ i = Len(em.states) + 1
        BY <1>3, <3>4
      <4>2. QED
        BY <1>3, <3>1, <4>1
    <3>5. QED
      BY <1>3, <3>1, <3>3, <3>4
  <2>3. QED
    BY <2>1, <2>2
<1>6. QED
  BY <1>1, <1>2, <1>3, <1>4, <1>5 DEF Emitter

(* A style that can be read back without a tag: a plain scalar only where   *)
(* the plain text resolves to the tag.                                      *)
LEMMA StyleNeedsNoTag ==
  ASSUME NEW ev, Writable(ev), ev.id = "Scalar", NEW simple
  PROVE  ~ NeedsTag(ev, ChooseStyle(ev.value, ev.plain, FALSE, simple))
<1>. DEFINE style == ChooseStyle(ev.value, ev.plain, FALSE, simple)
            a == Analyze(ev.value)
<1>1. style = "plain" <=>
        /\ ev.plain /\ ~ (simple /\ (a.empty \/ a.multiline)) /\ a.blockPlain
  BY DEF ChooseStyle
<1>2. CASE ev.quoted
  BY <1>1, <1>2 DEF NeedsTag
<1>3. CASE ev.plain /\ ev.value # <<>> /\ a.blockPlain
  <2>1. ~ a.empty /\ ~ a.multiline
    BY <1>3 DEF Analyze
  <2>2. style = "plain"
    BY <1>1, <1>3, <2>1
  <2>3. QED
    BY <1>3, <2>2 DEF NeedsTag
<1>4. QED
  BY <1>2, <1>3 DEF Writable

(* The first event is still there.                                          *)
LEMMA HeadAppended ==
  ASSUME NEW q, Sequence(q), q # <<>>, NEW ev
  PROVE  Append(q, ev) # <<>> /\ Head(Append(q, ev)) = Head(q)
<1>1. Len(q) \in Nat /\ Len(q) # 0
  BY LengthIs
<1>2. /\ Sequence(Append(q, ev)) /\ Len(Append(q, ev)) = Len(q) + 1
      /\ \A i \in 1..Len(q) : Append(q, ev)[i] = q[i]
  BY AppendIs
<1>3. Append(q, ev) # <<>>
  BY <1>1, <1>2, LengthIs
<1>4. Head(Append(q, ev)) = Append(q, ev)[1] /\ Head(q) = q[1]
  BY <1>2, <1>3, TailIs
<1>5. 1 \in 1..Len(q)
  BY <1>1
<1>6. QED
  BY <1>2, <1>3, <1>4, <1>5

LEMMA DumpKeeps ==
  ASSUME Dumping, DumpNext
  PROVE  Dumping'
<1>1. Serializing /\ Emitter(em) /\ Still(em) /\ Still(WithAnchor)
  BY EmitterStill DEF Dumping
<1>2. CASE SerializeMark \/ SerializeAlias \/ SerializeNode
  <2>1. em' = em /\ \E ev : events' = Append(events, ev)
    BY <1>2 DEF SerializeMark, SerializeAlias, SerializeNode, Emit
  <2>2. Serializing'
    BY <1>1, <1>2, SerializeKeeps
  <2>3. em.state = "first_flow_item" => events' # <<>> /\ Head(events').id \in Ends
    BY <2>1, HeadAppended DEF Dumping, Serializing
  <2>4. QED
    BY <1>1, <2>1, <2>2, <2>3 DEF Dumping
<1>3. ASSUME NEW e, Handle(e)
      PROVE  Serializing' /\ em' = e /\ events # <<>> /\ events' = Tail(events)
  <2>1. events # <<>>
    BY <1>3 DEF Handle, NeedMoreEvents
  <2>2. QED
    BY <1>1, <1>3, <2>1, HandleSerializing DEF Handle
<1>4. ASSUME Serializing', Emitter(em'), em'.state # "first_flow_item"
      PROVE  Dumping'
  BY <1>4 DEF Dumping
<1>5. ASSUME NEW e, Still(e), NEW x \in EmitterOutside, em.state \in EmitterOutside,
             Handle([e EXCEPT !.state = x])
      PROVE  Dumping'
  <2>1. Serializing' /\ em' = [e EXCEPT !.state = x]
    BY <1>3, <1>5
  <2>2. QED
    BY <1>1, <1>4, <1>5, <2>1, OutsideMoves
<1>6. CASE ExpectStreamStart
  BY <1>1, <1>5, <1>6 DEF ExpectStreamStart, EmitterOutside
<1>7. CASE ExpectDocumentStart
  BY <1>1, <1>5, <1>7 DEF ExpectDocumentStart, EmitterOutside
<1>8. CASE ExpectStreamEnd
  <2>1. \E o : Handle([Written(em, o) EXCEPT !.state = "nothing"])
    BY <1>8 DEF ExpectStreamEnd
  <2>2. em.state \in EmitterOutside /\ "nothing" \in EmitterOutside
    BY <1>8 DEF ExpectStreamEnd, EmitterOutside
  <2>3. QED
    BY <1>1, <1>5, <2>1, <2>2, WritingStill
<1>9. CASE ExpectDocumentEnd
  <2>1. Handle([Indented(em) EXCEPT !.state = "document_start"])
    BY <1>9 DEF ExpectDocumentEnd
  <2>2. em.state \in EmitterOutside /\ "document_start" \in EmitterOutside
    BY <1>9 DEF ExpectDocumentEnd, EmitterOutside
  <2>3. QED
    BY <1>1, <1>5, <2>1, <2>2, WritingStill
<1>10. ASSUME NEW e, Still(e), NEW next, NEW context, Expect(e, next, context),
              em.state # "first_flow_item",
              \/ em.state \in EmitterOutside /\ next = "document_end"
              \/ em.state \in EmitterInside /\ next \in Resume
       PROVE  Dumping'
  <2>1. /\ em' = [Push(e, next) EXCEPT !.state = "node", !.context = context]
        /\ UNCHANGED <<doc, todo, serialized, events>>
    BY <1>10 DEF Expect
  <2>2. Serializing'
    BY <1>1, <2>1, HandleSerializing
  <2>3. Emitter(em') /\ em'.state # "first_flow_item"
    BY <1>1, <1>10, <2>1, ExpectMoves
  <2>4. QED
    BY <1>4, <2>2, <2>3
<1>11. CASE ExpectDocumentRoot
  BY <1>1, <1>10, <1>11 DEF ExpectDocumentRoot, EmitterOutside
<1>12. CASE ExpectBlockSequenceItem
  <2>1. \E o : Expect(Written(Indented(em), o), "block_sequence_item", "sequence")
    BY <1>12 DEF ExpectBlockSequenceItem
  <2>2. /\ em.state \in EmitterInside /\ em.state # "first_flow_item"
        /\ "block_sequence_item" \in Resume
    BY <1>12 DEF ExpectBlockSequenceItem, EmitterInside, Resume
  <2>3. \A o : Still(Written(Indented(em), o))
    BY <1>1, WritingStill
  <2>4. QED
    BY <1>10, <2>1, <2>2, <2>3
<1>13. CASE ExpectBlockMappingKey
  <2>1. \/ Expect(Indented(em), "block_mapping_simple_value", "simple_key")
        \/ \E o : Expect(Written(Indented(em), o), "block_mapping_value", "mapping")
    BY <1>13 DEF ExpectBlockMappingKey
  <2>2. /\ em.state \in EmitterInside /\ em.state # "first_flow_item"
        /\ "block_mapping_simple_value" \in Resume /\ "block_mapping_value" \in Resume
    BY <1>13 DEF ExpectBlockMappingKey, EmitterInside, Resume
  <2>3. Still(Indented(em)) /\ \A o : Still(Written(Indented(em), o))
    BY <1>1, WritingStill
  <2>4. QED
    BY <1>10, <2>1, <2>2, <2>3
<1>14. CASE ExpectBlockMappingValue
  <2>1. \E o : \/ Expect(Written(em, o), "block_mapping_key", "mapping")
               \/ Expect(Written(Indented(em), o), "block_mapping_key", "mapping")
    BY <1>14 DEF ExpectBlockMappingValue
  <2>2. /\ em.state \in EmitterInside /\ em.state # "first_flow_item"
        /\ "block_mapping_key" \in Resume
    BY <1>14 DEF ExpectBlockMappingValue, EmitterInside, Resume
  <2>3. \A o : Still(Written(em, o)) /\ Still(Written(Indented(em), o))
    BY <1>1, WritingStill
  <2>4. QED
    BY <1>10, <2>1, <2>2, <2>3
<1>15. ASSUME NEW e, em.state \in EmitterInside, Handle(e), DOMAIN e = EmitterFields,
              e.state = Last(em.states), e.states = Front(em.states), ~ e.tagged, e.flow = 0
       PROVE  Dumping'
  <2>1. Serializing' /\ em' = e
    BY <1>3, <1>15
  <2>2. Emitter(em') /\ em'.state # "first_flow_item"
    BY <1>1, <1>15, <2>1, EmitterPops
  <2>3. QED
    BY <1>4, <2>1, <2>2
<1>16. CASE EndFlowCollection
  <2>1. PICK o : Handle([Pop(Written(PopIndent(em), o)) EXCEPT !.flow = @ - 1])
    BY <1>16 DEF EndFlowCollection
  <2>. DEFINE w == Written(PopIndent(em), o)
              e == [Pop(w) EXCEPT !.flow = @ - 1]
  <2>2. em.state = "first_flow_item" /\ em.state \in EmitterInside
    BY <1>16 DEF EndFlowCollection, EmitterInside
  <2>3. em.flow = 1 /\ ~ em.tagged
    BY <1>1, <2>2 DEF Emitter
  <2>4. Still(w)
    BY <1>1, WritingStill
  <2>. HIDE DEF w
  <2>5. /\ DOMAIN e = EmitterFields /\ e.state = Last(em.states)
        /\ e.states = Front(em.states) /\ e.tagged = em.tagged /\ e.flow = em.flow - 1
    BY <2>4 DEF Still, Pop, EmitterFields
  <2>6. Handle(e)
    BY <2>1 DEF w
  <2>. HIDE DEF e
  <2>7. QED
    BY <1>15, <2>2, <2>3, <2>5, <2>6
<1>17. ASSUME NEW e, Still(e), em.state \in EmitterInside, em.state # "first_flow_item",
              Handle(Pop(e))
       PROVE  Dumping'
  <2>1. /\ DOMAIN Pop(e) = EmitterFields /\ Pop(e).state = Last(em.states)
        /\ Pop(e).states = Front(em.states) /\ Pop(e).tagged = em.tagged
        /\ Pop(e).flow = em.flow
    BY <1>17 DEF Still, Pop, EmitterFields
  <2>2. em.flow = 0 /\ ~ em.tagged
    BY <1>1, <1>17 DEF Emitter
  <2>3. QED
    BY <1>15, <1>17, <2>1, <2>2
<1>18. CASE EndBlockCollection
  <2>1. Handle(Pop(PopIndent(em))) /\ Still(PopIndent(em))
    BY <1>1, <1>18, WritingStill DEF EndBlockCollection
  <2>2. em.state \in EmitterInside /\ em.state # "first_flow_item"
    BY <1>18 DEF EndBlockCollection, EmitterInside, Resume
  <2>3. QED
    BY <1>17, <2>1, <2>2
<1>19. CASE ExpectAlias
  <2>1. Handle(Pop(WithAnchor)) /\ em.state = "node"
    BY <1>19 DEF ExpectAlias, Node
  <2>2. em.state \in EmitterInside /\ em.state # "first_flow_item"
    BY <2>1 DEF EmitterInside
  <2>3. QED
    BY <1>1, <1>17, <2>1, <2>2
<1>20. CASE ExpectScalar
  <2>. DEFINE ev == Head(events)
              simple == em.context = "simple_key"
              style == ChooseStyle(ev.value, ev.plain, em.flow > 0, simple)
              o == WriteScalar(WithAnchor.out, ev.value, style,
                               IncreaseIndent(em, TRUE, FALSE).indent,
                               simple, em.context = "root")
              e == [Pop(Written(em, o)) EXCEPT !.tagged = @ \/ NeedsTag(ev, style)]
  <2>1. em.state = "node" /\ events # <<>> /\ ev.id = "Scalar" /\ Handle(e)
    BY <1>20 DEF ExpectScalar, Node
  <2>2. em.state \in EmitterInside
    BY <2>1 DEF EmitterInside
  <2>3. em.flow = 0 /\ ~ em.tagged
    BY <1>1, <2>1 DEF Emitter
  <2>4. Writable(ev)
    <3>1. ev = events[1] /\ 1 \in 1..Len(events)
      <4>1. Len(events) \in Nat /\ Len(events) # 0 /\ ev = events[1]
        BY <1>1, <2>1, TailIs, LengthIs DEF Serializing
      <4>2. QED
        BY <4>1
    <3>2. QED
      BY <1>1, <3>1 DEF Serializing
  <2>5. ~ NeedsTag(ev, style)
    <3>1. (em.flow > 0) = FALSE
      BY <2>3
    <3>2. style = ChooseStyle(ev.value, ev.plain, FALSE, simple)
      BY <3>1
    <3>3. QED
      BY <2>1, <2>4, <3>2, StyleNeedsNoTag
  <2>6. Still(Written(em, o))
    BY <1>1, WritingStill
  <2>. HIDE DEF o, style, simple, ev
  <2>7. /\ DOMAIN e = EmitterFields /\ e.state = Last(em.states)
        /\ e.states = Front(em.states) /\ e.flow = em.flow
        /\ e.tagged = (em.tagged \/ NeedsTag(ev, style))
    BY <2>6 DEF Still, Pop, EmitterFields
  <2>. HIDE DEF e
  <2>8. QED
    BY <1>15, <2>1, <2>2, <2>3, <2>5, <2>7
<1>21. CASE ExpectFlowCollection
  <2>1. PICK o : Handle([IncreaseIndent(Written(em, o), TRUE, FALSE) EXCEPT
                           !.flow = @ + 1, !.state = "first_flow_item"])
    BY <1>21 DEF ExpectFlowCollection
  <2>. DEFINE w == IncreaseIndent(Written(em, o), TRUE, FALSE)
              e == [w EXCEPT !.flow = @ + 1, !.state = "first_flow_item"]
  <2>2. em.state = "node" /\ InFlowStyle
    BY <1>21 DEF ExpectFlowCollection, Node
  <2>3. em.flow = 0 /\ ~ em.tagged
    BY <1>1, <2>2 DEF Emitter
  <2>4. Tail(events) # <<>> /\ Head(Tail(events)).id \in Ends
    BY <2>2, <2>3 DEF InFlowStyle, CheckEmpty, Ends, StartOf, EndOf
  <2>5. Still(w)
    BY <1>1, WritingStill
  <2>6. Serializing' /\ em' = e /\ events' = Tail(events)
    BY <1>3, <2>1
  <2>. HIDE DEF w
  <2>7. /\ DOMAIN e = EmitterFields /\ e.state = "first_flow_item"
        /\ e.states = em.states /\ e.tagged = em.tagged /\ e.flow = em.flow + 1
    BY <2>5 DEF Still, EmitterFields
  <2>. HIDE DEF e
  <2>8. em.state \in EmitterInside /\ e.state \in EmitterInside /\ e.flow = 1
    BY <2>2, <2>3, <2>7 DEF EmitterInside
  <2>9. Emitter(em')
    BY <1>1, <2>6, <2>7, <2>8, InsideMoves
  <2>10. QED
    BY <2>4, <2>6, <2>9 DEF Dumping
<1>22. CASE ExpectBlockCollection
  <2>1. PICK w, x : /\ Still(w) /\ x \in EmitterInside /\ x # "first_flow_item"
                    /\ Handle([w EXCEPT !.state = x])
    <3>1. \/ \E b : Handle([IncreaseIndent(WithAnchor, FALSE, b) EXCEPT
                             !.state = "first_block_sequence_item"])
          \/ Handle([IncreaseIndent(WithAnchor, FALSE, FALSE) EXCEPT
                       !.state = "first_block_mapping_key"])
      BY <1>22 DEF ExpectBlockCollection
    <3>2. /\ \A b : Still(IncreaseIndent(WithAnchor, FALSE, b))
          /\ "first_block_sequence_item" \in EmitterInside
          /\ "first_block_mapping_key" \in EmitterInside
      BY <1>1, WritingStill DEF EmitterInside
    <3>3. QED
      BY <3>1, <3>2
  <2>2. em.state = "node" /\ em.state \in EmitterInside /\ em.state # "first_flow_item"
    BY <1>22 DEF ExpectBlockCollection, Node, EmitterInside
  <2>3. Serializing' /\ em' = [w EXCEPT !.state = x]
    BY <1>3, <2>1
  <2>4. /\ DOMAIN em' = EmitterFields /\ em'.state = x /\ em'.states = em.states
        /\ em'.tagged = em.tagged /\ em'.flow = em.flow
    BY <2>1, <2>3 DEF Still, EmitterFields
  <2>5. em.flow = 0
    BY <1>1, <2>2 DEF Emitter
  <2>6. Emitter(em')
    BY <1>1, <2>1, <2>2, <2>4, <2>5, InsideMoves
  <2>7. QED
    BY <1>4, <2>1, <2>3, <2>4, <2>6
<1>23. QED
  BY <1>2, <1>6, <1>7, <1>8, <1>9, <1>11, <1>12, <1>13, <1>14, <1>16, <1>18, <1>19,
     <1>20, <1>21, <1>22 DEF DumpNext

LEMMA InitDumping ==
  Init => Dumping
<1>. DEFINE marks == <<Event("StreamStart"), Event("DocumentStart"), NodeTask(1),
                       Event("DocumentEnd"), Event("StreamEnd")>>
<1>1. /\ Sequence(<<>>) /\ Len(<<>>) = 0 /\ Sequence(marks) /\ Len(marks) = 5
      /\ marks[1] = Event("StreamStart") /\ marks[2] = Event("DocumentStart")
      /\ marks[3] = NodeTask(1)
      /\ marks[4] = Event("DocumentEnd") /\ marks[5] = Event("StreamEnd")
  <2>1. ASSUME NEW a, NEW b, NEW c, NEW d, NEW e
        PROVE  /\ Sequence(<<a, b, c, d, e>>) /\ Len(<<a, b, c, d, e>>) = 5
               /\ <<a, b, c, d, e>>[1] = a /\ <<a, b, c, d, e>>[2] = b
               /\ <<a, b, c, d, e>>[3] = c /\ <<a, b, c, d, e>>[4] = d
               /\ <<a, b, c, d, e>>[5] = e
    <3>1. <<a, b, c, d, e>> \in Seq({a, b, c, d, e})
      OBVIOUS
    <3>2. QED
      BY <3>1 DEF Sequence
  <2>2. Sequence(<<>>) /\ Len(<<>>) = 0
    BY DEF Sequence
  <2>3. QED
    BY <2>1, <2>2
<1>2. Emitter(NewEmitter) /\ NewEmitter.state # "first_flow_item"
  BY <1>1 DEF Emitter, NewEmitter, EmitterFields, EmitterOutside
<1>3. ASSUME serialized = {}, NEW i
      PROVE  Met(i) = {} /\ Cardinality(Met(i)) = 0
  BY <1>3, FS_EmptySet DEF Met
<1>4. ASSUME doc = <<>>, todo = <<>>, serialized = {}, events = <<>>
      PROVE  Serializing
  BY <1>1, <1>4 DEF Serializing
<1>5. ASSUME NEW d \in Docs, doc = d, todo = marks, serialized = {}, events = <<>>
      PROVE  Serializing
  <2>1. Len(doc) \in Nat /\ 1 \in 1..Len(doc)
    <3>1. doc # <<>> /\ Len(doc) \in Nat
      BY <1>5, DocIs, DocsAssumption
    <3>2. Len(doc) # 0
      BY <1>5, <3>1, DocsAssumption, EmptySeq
    <3>3. QED
      BY <3>1, <3>2
  <2>2. ASSUME NEW j \in 1..5
        PROVE  \/ \E i \in 1..Len(doc) : marks[j] = NodeTask(i)
               \/ \E id \in MarkIds : marks[j] = Event(id)
    BY <1>1, <2>1 DEF MarkIds
  <2>3. ASSUME NEW i \in 1..Len(doc)
        PROVE  Cardinality(Tasks(marks, i)) <= IF i = 1 THEN 1 ELSE 0
    <3>1. \A j \in 1..5 : marks[j] = NodeTask(i) <=> (j = 3 /\ i = 1)
      BY <1>1, TaskIsNode
    <3>. HIDE DEF marks
    <3>2. Tasks(marks, i) = IF i = 1 THEN {3} ELSE {}
      BY <1>1, <3>1 DEF Tasks
    <3>3. Cardinality({3}) = 1 /\ Cardinality({}) = 0
      BY FS_EmptySet, FS_Singleton
    <3>4. QED
      BY <3>2, <3>3
  <2>. HIDE DEF marks
  <2>4. \A i \in 1..Len(doc) :
          Cardinality(Tasks(todo, i)) + (IF i \in serialized THEN 1 ELSE 0)
            <= Cardinality(Met(i)) + (IF i = 1 THEN 1 ELSE 0)
    <3>1. ASSUME NEW i \in 1..Len(doc)
          PROVE  Cardinality(Tasks(marks, i)) + 0 <= 0 + (IF i = 1 THEN 1 ELSE 0)
      BY <1>1, <2>3, TasksAre
    <3>2. QED
      BY <1>3, <1>5, <3>1
  <2>5. /\ \A j \in 1..Len(todo) : \/ \E i \in 1..Len(doc) : todo[j] = NodeTask(i)
                                  \/ \E id \in MarkIds : todo[j] = Event(id)
        /\ Sequence(todo)
    BY <1>1, <1>5, <2>2 DEF marks
  <2>6. /\ Sequence(events) /\ serialized \subseteq 1..Len(doc)
        /\ \A j \in 1..Len(events) : Writable(events[j])
    BY <1>1, <1>5
  <2>7. QED
    BY <1>5, <2>4, <2>5, <2>6 DEF Serializing
<1>6. QED
  BY <1>2, <1>4, <1>5 DEF Init, DumpInit, Dumping

LEMMA NextDumping ==
  Dumping /\ [Next]_vars => Dumping'
<1>. SUFFICES ASSUME Dumping, [Next]_vars
              PROVE  Dumping'
  OBVIOUS
<1>1. CASE UNCHANGED dumpVars
  <2>1. Serializing'
    BY <1>1, HandleSerializing DEF dumpVars, Dumping
  <2>2. QED
    BY <1>1, <2>1 DEF dumpVars, Dumping
<1>2. CASE DumpNext
  BY <1>2, DumpKeeps
<1>3. QED
  BY <1>1, <1>2 DEF Next, Reread, Terminated, vars

LEMMA AlwaysDumping ==
  Spec => []Dumping
<1>1. QED
  BY InitDumping, NextDumping, PTL DEF Spec

(* No tag is ever written: a string that a reader would take for a number,  *)
(* a boolean or nothing is quoted, and what is none is not.                 *)
THEOREM NoTagWritten ==
  Spec => [](~ em.tagged)
<1>1. Dumping => ~ em.tagged
  BY DEF Dumping, Emitter
<1>2. QED
  BY <1>1, AlwaysDumping, PTL

(* generate_anchor gives no two nodes the same name, and no node an empty   *)
(* one.                                                                     *)
LEMMA AnchorsDiffer ==
  ASSUME doc \in Docs \/ doc = <<>>, NEW i \in Anchored
  PROVE  /\ AnchorOf(i) # <<>>
         /\ \A j \in Anchored : AnchorOf(i) = AnchorOf(j) => i = j
<1>. DEFINE Upto(k) == {n \in Anchored : n <= k}
<1>1. Anchored \subseteq 1..Len(doc) /\ IsFiniteSet(1..Len(doc)) /\ Anchored \subseteq Nat
  <2>1. Len(doc) \in Nat
    BY DocIs
  <2>2. IsFiniteSet(1..Len(doc)) /\ 1..Len(doc) \subseteq Nat
    BY <2>1, FS_Interval
  <2>3. QED
    BY <2>2 DEF Anchored
<1>2. ASSUME NEW k \in Anchored
      PROVE  /\ IsFiniteSet(Upto(k)) /\ Cardinality(Upto(k)) \in Nat
             /\ k \in Upto(k)
             /\ Len(AnchorOf(k)) = Cardinality(Upto(k))
  <2>1. IsFiniteSet(Upto(k)) /\ Cardinality(Upto(k)) \in Nat
    BY <1>1, FS_Subset, FS_CardinalityType
  <2>2. k \in Upto(k)
    BY <1>1, <1>2
  <2>3. AnchorOf(k) = Times(Cardinality(Upto(k)), "a")
    BY <1>2 DEF AnchorOf
  <2>. HIDE DEF Upto
  <2>4. QED
    BY <2>1, <2>2, <2>3, TimesIs
<1>3. ASSUME NEW j \in Anchored, NEW k \in Anchored, j < k
      PROVE  Len(AnchorOf(j)) # Len(AnchorOf(k))
  <2>1. Upto(j) \subseteq Upto(k) /\ k \notin Upto(j)
    <3>1. j \in Nat /\ k \in Nat
      BY <1>1
    <3>2. ASSUME NEW n \in Upto(j)
          PROVE  n \in Upto(k)
      <4>1. n \in Anchored /\ n \in Nat /\ n <= j
        BY <1>1
      <4>2. QED
        BY <1>3, <3>1, <4>1
    <3>3. ~ (k <= j)
      BY <1>3, <3>1
    <3>4. QED
      BY <3>2, <3>3
  <2>2. k \in Upto(k) /\ IsFiniteSet(Upto(k))
    BY <1>2
  <2>. HIDE DEF Upto
  <2>3. Cardinality(Upto(k)) # Cardinality(Upto(j))
    BY <2>1, <2>2, FS_Subset
  <2>4. QED
    BY <1>2, <2>3
<1>4. AnchorOf(i) # <<>>
  <2>1. Upto(i) # {} /\ IsFiniteSet(Upto(i))
    BY <1>2
  <2>. HIDE DEF Upto
  <2>2. Cardinality(Upto(i)) # 0
    BY <2>1, FS_EmptySet
  <2>3. Len(AnchorOf(i)) # 0
    BY <1>2, <2>2
  <2>4. QED
    BY <2>3
<1>5. ASSUME NEW j \in Anchored, AnchorOf(i) = AnchorOf(j)
      PROVE  i = j
  <2>1. i \in Nat /\ j \in Nat
    BY <1>1
  <2>2. ~ (i < j) /\ ~ (j < i)
    BY <1>3, <1>5
  <2>3. QED
    BY <2>1, <2>2
<1>6. QED
  BY <1>4, <1>5

(* An alias the emitter is given names, and by a name that is its own, a    *)
(* node that was written before: process_anchor's "anchor is not specified  *)
(* for alias" is never raised, and the reader is led to the one node meant. *)
THEOREM AliasesNameAnchors ==
  Spec => [](\A j \in 1..Len(events) :
               events[j].id = "Alias" =>
                 \E i \in serialized :
                   /\ events[j].anchor = AnchorOf(i) /\ AnchorOf(i) # <<>>
                   /\ \A n \in Anchored : AnchorOf(n) = AnchorOf(i) => n = i)
<1>. DEFINE Named(a) ==
       \E i \in serialized :
         /\ a = AnchorOf(i) /\ AnchorOf(i) # <<>>
         /\ \A n \in Anchored : AnchorOf(n) = AnchorOf(i) => n = i
<1>1. Dumping => \A j \in 1..Len(events) : events[j].id = "Alias" => Named(events[j].anchor)
  <2>1. SUFFICES ASSUME Dumping, NEW j \in 1..Len(events), events[j].id = "Alias"
                 PROVE  Named(events[j].anchor)
    OBVIOUS
  <2>2. PICK i \in serialized \cap Anchored : events[j].anchor = AnchorOf(i)
    BY <2>1 DEF Dumping, Serializing, Writable
  <2>3. /\ AnchorOf(i) # <<>>
        /\ \A n \in Anchored : AnchorOf(i) = AnchorOf(n) => i = n
    BY <2>1, <2>2, AnchorsDiffer DEF Dumping, Serializing
  <2>4. QED
    BY <2>2, <2>3
<1>2. QED
  BY <1>1, AlwaysDumping, PTL

(* In block style a flow collection is begun only when it is empty: after   *)
(* its start, its end is the next event, and expect_first_flow_sequence_item *)
(* and expect_first_flow_mapping_key find nothing else.                     *)
THEOREM FlowIsEmpty ==
  Spec => [](em.state = "first_flow_item" =>
               events # <<>> /\ Head(events).id \in Ends)
<1>1. Dumping => (em.state = "first_flow_item" =>
                    events # <<>> /\ Head(events).id \in Ends)
  BY DEF Dumping
<1>2. QED
  BY <1>1, AlwaysDumping, PTL

(* What is listed by a node that was serialized, and the root, is serialized *)
(* too or still to be.                                                       *)
Owed(i) == i = 1 \/ \E n \in serialized : \E k \in 1..Len(doc[n].kids) : doc[n].kids[k] = i
Paid(i) == i \in serialized \/ \E j \in 1..Len(todo) : todo[j] = NodeTask(i)
AllPaid == \A i \in 1..Len(doc) : Owed(i) => Paid(i)

LEMMA StillPaid ==
  ASSUME Serializing, todo # <<>>, NEW i, Paid(i), serialized \subseteq serialized',
         Head(todo) = NodeTask(i) => i \in serialized',
         NEW f, Sequence(f), todo' = f \o Tail(todo)
  PROVE  Paid(i)'
<1>1. CASE i \in serialized'
  BY <1>1 DEF Paid
<1>2. CASE i \notin serialized'
  <2>1. PICK j \in 1..Len(todo) : todo[j] = NodeTask(i)
    BY <1>2 DEF Paid
  <2>2. /\ Head(todo) = todo[1] /\ Sequence(Tail(todo)) /\ Len(todo) \in Nat
        /\ Len(Tail(todo)) = Len(todo) - 1
        /\ \A k \in 1..(Len(todo) - 1) : Tail(todo)[k] = todo[k + 1]
    BY TailIs, LengthIs DEF Serializing
  <2>3. j # 1
    BY <1>2, <2>1, <2>2
  <2>4. PICK q : q = Tail(todo)
    OBVIOUS
  <2>5. PICK l \in 1..Len(q) : q[l] = NodeTask(i)
    <3>1. j - 1 \in 1..(Len(todo) - 1) /\ (j - 1) + 1 = j
      BY <2>2, <2>3
    <3>2. QED
      BY <2>1, <2>2, <2>4, <3>1
  <2>6. /\ Len(todo') = Len(f) + Len(q) /\ Len(f) \in Nat /\ Len(q) \in Nat
        /\ \A k \in 1..Len(q) : todo'[Len(f) + k] = q[k]
    BY <2>2, <2>4, ConcatIs, LengthIs
  <2>7. Len(f) + l \in 1..Len(todo') /\ todo'[Len(f) + l] = NodeTask(i)
    BY <2>5, <2>6
  <2>8. QED
    BY <2>7 DEF Paid
<1>3. QED
  BY <1>1, <1>2

LEMMA PaidKeeps ==
  ASSUME Serializing, AllPaid, SerializeMark \/ SerializeAlias \/ SerializeNode
  PROVE  AllPaid'
<1>1. doc' = doc /\ todo # <<>>
  BY DEF SerializeMark, SerializeAlias, SerializeNode, Emit
<1>2. Sequence(<<>>) /\ Sequence(Tail(todo)) /\ <<>> \o Tail(todo) = Tail(todo)
  <2>1. Sequence(Tail(todo))
    BY <1>1, TailIs DEF Serializing
  <2>2. PICK S : Tail(todo) \in Seq(S)
    BY <2>1 DEF Sequence
  <2>3. <<>> \o Tail(todo) = Tail(todo)
    BY <2>2
  <2>4. QED
    BY <2>1, <2>3 DEF Sequence
<1>3. ASSUME serialized' = serialized, todo' = Tail(todo),
             IsNode(Head(todo)) => Head(todo).node \in serialized
      PROVE  AllPaid'
  <2>1. ASSUME NEW i \in 1..Len(doc), Owed(i)'
        PROVE  Paid(i)'
    <3>1. Owed(i)
      BY <1>1, <1>3, <2>1 DEF Owed
    <3>2. Paid(i)
      BY <3>1 DEF AllPaid
    <3>3. Head(todo) = NodeTask(i) => i \in serialized'
      BY <1>3, TaskIsNode
    <3>4. todo' = <<>> \o Tail(todo)
      BY <1>2, <1>3
    <3>5. QED
      BY <1>1, <1>2, <1>3, <3>2, <3>3, <3>4, StillPaid
  <2>2. QED
    BY <1>1, <2>1 DEF AllPaid
<1>4. CASE SerializeMark
  BY <1>3, <1>4 DEF SerializeMark, Emit
<1>5. CASE SerializeAlias
  BY <1>3, <1>5 DEF SerializeAlias, Emit
<1>6. CASE SerializeNode
  <2>. DEFINE m == Head(todo).node
              kids == doc[m].kids
  <2>1. m \notin serialized /\ serialized' = serialized \cup {m} /\ IsNode(Head(todo))
    BY <1>6 DEF SerializeNode
  <2>2. /\ m \in 1..Len(doc) /\ Sequence(kids) /\ Len(kids) \in Nat
        /\ doc[m].kind = "scalar" => Len(kids) = 0
    <3>1. Head(todo) = todo[1] /\ 1 \in 1..Len(todo)
      BY <1>1, TailIs, LengthIs DEF Serializing
    <3>2. \E i \in 1..Len(doc) : Head(todo) = NodeTask(i)
      BY <2>1, <3>1, TaskIsNode DEF Serializing
    <3>3. m \in 1..Len(doc)
      BY <3>2, TaskIsNode
    <3>4. Sequence(kids) /\ (doc[m].kind = "scalar" => kids = <<>>)
      BY <3>3, DocIs DEF Serializing
    <3>5. QED
      BY <3>3, <3>4, LengthIs
  <2>3. PICK f : /\ Sequence(f) /\ todo' = f \o Tail(todo)
                 /\ \A k \in 1..Len(kids) : \E j \in 1..Len(f) : f[j] = NodeTask(kids[k])
    <3>1. CASE doc[m].kind = "scalar"
      <4>1. todo' = Tail(todo)
        BY <1>6, <3>1 DEF SerializeNode, Emit
      <4>. HIDE DEF kids
      <4>2. \A k \in 1..Len(kids) : FALSE
        BY <2>2, <3>1
      <4>3. QED
        BY <1>2, <4>1, <4>2
    <3>2. CASE doc[m].kind # "scalar"
      <4>. DEFINE tasks == [k \in 1..Len(kids) |-> NodeTask(kids[k])]
                  last == Event(EndOf[doc[m].kind])
      <4>1. todo' = (tasks \o <<last>>) \o Tail(todo)
        BY <1>6, <3>2 DEF SerializeNode, Emit
      <4>. HIDE DEF kids
      <4>2. /\ Sequence(tasks) /\ Len(tasks) = Len(kids)
            /\ \A k \in 1..Len(kids) : tasks[k] = NodeTask(kids[k])
        <5>. DEFINE S == {NodeTask(kids[k]) : k \in 1..Len(kids)}
        <5>1. tasks \in [1..Len(kids) -> S]
          OBVIOUS
        <5>2. tasks \in Seq(S)
          BY <2>2, <5>1, SeqDef
        <5>3. DOMAIN tasks = 1..Len(kids)
          OBVIOUS
        <5>4. Len(tasks) = Len(kids)
          BY <2>2, <5>2, <5>3, LenProperties
        <5>5. QED
          BY <5>2, <5>4 DEF Sequence
      <4>. HIDE DEF tasks, last
      <4>3. Sequence(<<last>>)
        <5>1. <<last>> \in Seq({last})
          OBVIOUS
        <5>2. QED
          BY <5>1 DEF Sequence
      <4>4. PICK p, r : p = tasks /\ r = <<last>>
        OBVIOUS
      <4>5. /\ Sequence(p \o r) /\ Len(p \o r) = Len(p) + Len(r) /\ Len(r) \in Nat
            /\ \A j \in 1..Len(p) : (p \o r)[j] = p[j]
        BY <4>2, <4>3, <4>4, ConcatIs, LengthIs
      <4>6. \A k \in 1..Len(kids) : \E j \in 1..Len(p \o r) : (p \o r)[j] = NodeTask(kids[k])
        <5>1. ASSUME NEW k \in 1..Len(kids)
              PROVE  k \in 1..Len(p \o r) /\ (p \o r)[k] = NodeTask(kids[k])
          BY <2>2, <4>2, <4>4, <4>5
        <5>2. QED
          BY <5>1
      <4>7. QED
        BY <4>1, <4>4, <4>5, <4>6
    <3>3. QED
      BY <3>1, <3>2
  <2>4. ASSUME NEW i \in 1..Len(doc), Owed(i)'
        PROVE  Paid(i)'
    <3>1. CASE Owed(i)
      <4>1. Paid(i)
        BY <3>1 DEF AllPaid
      <4>2. Head(todo) = NodeTask(i) => i \in serialized'
        BY <2>1, TaskIsNode
      <4>3. QED
        BY <1>1, <2>1, <2>3, <4>1, <4>2, StillPaid
    <3>2. CASE ~ Owed(i)
      <4>1. PICK k \in 1..Len(kids) : kids[k] = i
        BY <1>1, <2>1, <2>4, <3>2 DEF Owed
      <4>. HIDE DEF kids
      <4>2. PICK j \in 1..Len(f) : f[j] = NodeTask(i)
        BY <2>3, <4>1
      <4>3. PICK q : q = Tail(todo)
        OBVIOUS
      <4>4. /\ Len(todo') = Len(f) + Len(q) /\ Len(f) \in Nat /\ Len(q) \in Nat
            /\ \A l \in 1..Len(f) : todo'[l] = f[l]
        BY <1>2, <2>3, <4>3, ConcatIs, LengthIs
      <4>5. j \in 1..Len(todo') /\ todo'[j] = NodeTask(i)
        BY <4>2, <4>4
      <4>6. QED
        BY <4>5 DEF Paid
    <3>3. QED
      BY <3>1, <3>2
  <2>5. QED
    BY <1>1, <2>4 DEF AllPaid
<1>7. QED
  BY <1>4, <1>5, <1>6

LEMMA AlwaysPaid ==
  Spec => []AllPaid
<1>1. ASSUME Init
      PROVE  AllPaid
  <2>1. CASE doc = <<>>
    <3>1. Len(<<>>) = 0
      OBVIOUS
    <3>2. QED
      BY <2>1, <3>1 DEF AllPaid
  <2>2. CASE todo = <<Event("StreamStart"), Event("DocumentStart"), NodeTask(1),
                      Event("DocumentEnd"), Event("StreamEnd")>> /\ serialized = {}
    <3>1. ASSUME NEW a, NEW b, NEW c, NEW d, NEW e
          PROVE  3 \in 1..Len(<<a, b, c, d, e>>) /\ <<a, b, c, d, e>>[3] = c
      OBVIOUS
    <3>2. Paid(1)
      BY <2>2, <3>1 DEF Paid
    <3>3. QED
      BY <2>2, <3>2 DEF AllPaid, Owed
  <2>3. QED
    BY <1>1, <2>1, <2>2 DEF Init, DumpInit
<1>2. ASSUME AllPaid, UNCHANGED <<doc, todo, serialized>>
      PROVE  AllPaid'
  BY <1>2 DEF AllPaid, Owed, Paid
<1>3. ASSUME Dumping, AllPaid, [Next]_vars
      PROVE  AllPaid'
  <2>1. \/ SerializeMark \/ SerializeAlias \/ SerializeNode
        \/ UNCHANGED <<doc, todo, serialized>>
    <3>1. CASE DumpNext
      BY <3>1 DEF DumpNext, Handle, Expect, ExpectStreamStart, ExpectDocumentStart,
                  ExpectStreamEnd, ExpectDocumentRoot, ExpectDocumentEnd,
                  EndFlowCollection, EndBlockCollection, ExpectBlockSequenceItem,
                  ExpectBlockMappingKey, ExpectBlockMappingValue, ExpectAlias,
                  ExpectScalar, ExpectFlowCollection, ExpectBlockCollection
    <3>2. CASE UNCHANGED dumpVars
      BY <3>2 DEF dumpVars
    <3>3. QED
      BY <1>3, <3>1, <3>2 DEF Next, Reread, Terminated, vars
  <2>2. QED
    BY <1>2, <1>3, <2>1, PaidKeeps DEF Dumping
<1>4. QED
  BY <1>1, <1>3, AlwaysDumping, PTL DEF Spec

(* Nothing of the record is left out: once the serializer has nothing left  *)
(* to do, the root was serialized, and everything that a serialized node    *)
(* lists; by SerializeNode's guard each of them once.                       *)
THEOREM EverythingWritten ==
  Spec => [](doc # <<>> /\ todo = <<>> =>
               /\ 1 \in serialized
               /\ \A n \in serialized : \A k \in 1..Len(doc[n].kids) :
                    doc[n].kids[k] \in serialized)
<1>. DEFINE Whole ==
       doc # <<>> /\ todo = <<>> =>
         /\ 1 \in serialized
         /\ \A n \in serialized : \A k \in 1..Len(doc[n].kids) :
              doc[n].kids[k] \in serialized
<1>1. Dumping /\ AllPaid => Whole
  <2>1. SUFFICES ASSUME Dumping, AllPaid, doc # <<>>, todo = <<>>
                 PROVE  /\ 1 \in serialized
                        /\ \A n \in serialized : \A k \in 1..Len(doc[n].kids) :
                             doc[n].kids[k] \in serialized
    OBVIOUS
  <2>2. Len(todo) = 0
    BY <2>1
  <2>3. ASSUME NEW i \in 1..Len(doc), Owed(i)
        PROVE  i \in serialized
    BY <2>1, <2>2, <2>3 DEF AllPaid, Paid
  <2>4. 1 \in 1..Len(doc)
    <3>1. doc \in Docs
      BY <2>1 DEF Dumping, Serializing
    <3>2. PICK S : doc \in Seq(S)
      BY <3>1, DocsAssumption
    <3>3. Len(doc) \in Nat /\ Len(doc) # 0
      BY <2>1, <3>2, LenProperties, EmptySeq
    <3>4. QED
      BY <3>3
  <2>5. ASSUME NEW n \in serialized, NEW k \in 1..Len(doc[n].kids)
        PROVE  doc[n].kids[k] \in serialized
    <3>1. doc[n].kids[k] \in 1..Len(doc)
      BY <2>1, DocIs DEF Dumping, Serializing
    <3>2. Owed(doc[n].kids[k])
      BY DEF Owed
    <3>3. QED
      BY <2>3, <3>1, <3>2
  <2>6. QED
    BY <2>3, <2>4, <2>5 DEF Owed
<1>2. QED
  BY <1>1, AlwaysDumping, AlwaysPaid, PTL
=============================================================================
