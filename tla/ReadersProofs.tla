--------------------------- MODULE ReadersProofs ---------------------------
(***************************************************************************)
(* Theorems about Readers, for any files to begin with, any number of      *)
(* readers and of commands that move files meanwhile.                      *)
(***************************************************************************)
EXTENDS Readers, DedupeProofs

(* Directories and their files.                                             *)
LEMMA DirectoriesAre ==
  /\ Home \in Roots /\ Global \in Roots /\ Home # Global
  /\ Inbox \in Dirs
  /\ \A r \in Roots : Canon(r) \in Dirs /\ Archive(r) \in Dirs
  /\ \A d \in Dirs : /\ d = Inbox \/ \E r \in Roots : d = Canon(r) \/ d = Archive(r)
                     /\ d[1] \in Roots
  /\ \A d \in Dirs, n \in Names : <<d, n>> \in Paths
  /\ \A q \in Paths : q = <<q[1], q[2]>> /\ q[1] \in Dirs /\ q[2] \in Names
  /\ \A r, q \in Roots : /\ Canon(r) = Canon(q) => r = q
                         /\ Archive(r) = Archive(q) => r = q
                         /\ Canon(r) # Archive(q) /\ Canon(r) # Inbox /\ Archive(r) # Inbox
                         /\ Canon(r)[1] = r /\ Archive(r)[1] = r
                         /\ StatusIn(Canon(r)) = "accepted" /\ StatusIn(Archive(r)) = "archived"
  /\ Inbox[1] = Home /\ StatusIn(Inbox) = "captured"
BY ReaderScopesAssumption DEF Roots, Dirs, Paths, Inbox, Canon, Archive, StatusIn

(* A file is there, and reading one that is not is reading one that cannot  *)
(* be read.                                                                 *)
LEMMA FilesAreThere ==
  /\ NoFile \notin File
  /\ \A r \in Record : [form |-> "record", record |-> r] \in [form : {"record"}, record : Record]
  /\ [form : {"record"}, record : Record] \subseteq File
  /\ \A x \in [form : {"record"}, record : Record] : x # NoFile /\ x.form = "record" /\ x.record \in Record
  /\ [form |-> "unreadable"] \in File
  /\ \A x \in File : x.form = "record" => x \in [form : {"record"}, record : Record]
<1>1. \A x \in File : x.form # "none"
  BY DEF File, Undecodable, Malformed
<1>2. NoFile.form = "none"
  BY DEF NoFile
<1>3. NoFile \notin File
  BY <1>1, <1>2
<1>4. [form : {"record"}, record : Record] \subseteq File
  BY DEF File
<1>5. [form |-> "unreadable"] \in File
  BY DEF File, Undecodable
<1>6. \A x \in File : x.form = "record" => x \in [form : {"record"}, record : Record]
  BY DEF File, Undecodable, Malformed
<1>7. \A x \in [form : {"record"}, record : Record] : x.form = "record" /\ x.record \in Record
  OBVIOUS
<1>8. QED
  BY <1>3, <1>4, <1>5, <1>6, <1>7

(* A nonempty set of names has a smallest one. *)
LEMMA SmallestName ==
  ASSUME NEW S \in SUBSET Names, S # {}
  PROVE  Min(S) \in S
<1>1. S \subseteq Nat
  BY ReaderNamesAssumption
<1>2. IsWellFoundedOn(OpToRel(<, Nat), Nat)
  BY NatLessThanWellFounded
<1>3. PICK m \in S : \A y \in S : <<y, m>> \notin OpToRel(<, Nat)
  BY <1>1, <1>2, WFMin
<1>4. \A y \in S : ~ (y < m)
  BY <1>1, <1>3 DEF OpToRel
<1>5. \E x \in S : \A y \in S : x <= y
  BY <1>1, <1>4
<1>6. QED
  BY <1>5 DEF Min
-----------------------------------------------------------------------------
(* The steps of a command.                                                  *)

Left(s)     == {s[k] : k \in 1 .. Len(s)}
Later(s, k) == {s[l] : l \in (k + 1) .. Len(s)}

(* Where a memory in a directory may have gone when it is no longer there.  *)
After(d) == CASE d[2] = "inbox"   -> {Canon(d[1]), Archive(d[1])}
              [] d[2] = "canon"   -> {Archive(d[1])}
              [] d[2] = "archive" -> {}

Inventories == {"lint", "doctor", "status"}
Planners    == {"compile", "context"}

(* What comes after an operation of an inventory: the directories to which  *)
(* memories move from the one listed.                                       *)
Pursues(op, L) == op[1] = "list" => \A d \in After(op[2]) : <<"list", d>> \in L

(* The operations of a planner on a root, and what comes after one of them: *)
(* its canon is listed, read and planned once and in this order.            *)
Touches(op, r) ==
  op \in {<<"list", Canon(r)>>, <<"read", Canon(r)>>, <<"plan", r>>, <<"publish", r>>, <<"text", r>>}

Plans(op, r, L) ==
  /\ op = <<"list", Canon(r)>> => <<"read", Canon(r)>> \in L
  /\ op = <<"read", Canon(r)>> => <<"plan", r>> \in L
  /\ <<"plan", r>> \in L =>
       op \in {<<"list", Canon(r)>>, <<"read", Canon(r)>>} \/ ~ Touches(op, r)
  /\ <<"read", Canon(r)>> \in L => op = <<"list", Canon(r)>> \/ ~ Touches(op, r)
  /\ <<"list", Canon(r)>> \in L => ~ Touches(op, r)
  /\ op \in {<<"publish", r>>, <<"text", r>>} => op \notin L

Orderly(c, s) ==
  /\ c.name \in Inventories => \A k \in 1 .. Len(s) : Pursues(s[k], Later(s, k))
  /\ c.name \in Planners => \A k \in 1 .. Len(s) :
       /\ \E r \in c.scopes : Touches(s[k], r)
       /\ \A r \in c.scopes : Plans(s[k], r, Later(s, k))
  /\ c.name \notin Planners => \A k \in 1 .. Len(s) : s[k][1] \in {"list", "read"}

(* What is left after a step.                                               *)
LEMMA StepsGoOn ==
  ASSUME NEW c, NEW s \in Seq(Operations), s # <<>>, Orderly(c, s)
  PROVE  /\ Head(s) = s[1] /\ Head(s) \in Operations
         /\ Tail(s) \in Seq(Operations) /\ Orderly(c, Tail(s))
         /\ Left(s) = {Head(s)} \cup Left(Tail(s)) /\ Left(Tail(s)) = Later(s, 1)
         /\ 1 \in 1 .. Len(s)
         /\ Len(s) = 1 <=> Tail(s) = <<>>
<1>1. PICK n \in Nat \ {0} : n = Len(s)
  OBVIOUS
<1>2. /\ Tail(s) \in Seq(Operations) /\ Len(Tail(s)) = n - 1
      /\ \A k \in 1 .. (n - 1) : Tail(s)[k] = s[k + 1]
      /\ Head(s) = s[1] /\ s[1] \in Operations
  BY <1>1
<1>3. \A k \in 1 .. (n - 1) : Later(Tail(s), k) = Later(s, k + 1)
  <2>1. ASSUME NEW k \in 1 .. (n - 1)
        PROVE  Later(Tail(s), k) = Later(s, k + 1)
    <3>1. \A l \in (k + 1) .. (n - 1) : Tail(s)[l] = s[l + 1] /\ l + 1 \in (k + 2) .. n
      BY <1>2
    <3>2. \A l \in (k + 2) .. n : s[l] = Tail(s)[l - 1] /\ l - 1 \in (k + 1) .. (n - 1)
      BY <1>2
    <3>3. QED
      BY <1>1, <1>2, <3>1, <3>2 DEF Later
  <2>2. QED
    BY <2>1
<1>4. Left(Tail(s)) = Later(s, 1)
  <2>1. \A l \in 1 .. (n - 1) : Tail(s)[l] = s[l + 1] /\ l + 1 \in 2 .. n
    BY <1>2
  <2>2. \A l \in 2 .. n : s[l] = Tail(s)[l - 1] /\ l - 1 \in 1 .. (n - 1)
    BY <1>2
  <2>3. QED
    BY <1>1, <1>2, <2>1, <2>2 DEF Left, Later
<1>5. Left(s) = {Head(s)} \cup Later(s, 1)
  BY <1>1, <1>2 DEF Left, Later
<1>6. Orderly(c, Tail(s))
  <2>1. \A k \in 1 .. Len(Tail(s)) : /\ k + 1 \in 1 .. Len(s) /\ Tail(s)[k] = s[k + 1]
                                     /\ Later(Tail(s), k) = Later(s, k + 1)
    BY <1>1, <1>2, <1>3
  <2>2. QED
    BY <2>1 DEF Orderly
<1>7. QED
  BY <1>1, <1>2, <1>4, <1>5, <1>6

(* Concatenation, element by element. *)
LEMMA ConcatIs ==
  ASSUME NEW S, NEW s \in Seq(S), NEW t \in Seq(S)
  PROVE  /\ s \o t \in Seq(S)
         /\ Len(s \o t) = Len(s) + Len(t)
         /\ \A k \in 1 .. Len(s) : (s \o t)[k] = s[k]
         /\ \A k \in 1 .. Len(t) : (s \o t)[Len(s) + k] = t[k]
OBVIOUS

LEMMA Joined ==
  ASSUME NEW S, NEW s \in Seq(S), NEW t \in Seq(S), NEW u, u = s \o t
  PROVE  /\ u \in Seq(S) /\ Len(u) = Len(s) + Len(t)
         /\ \A k \in 1 .. Len(u) : u[k] = IF k <= Len(s) THEN s[k] ELSE t[k - Len(s)]
OBVIOUS

(* Directories in the order of moves, and sequences of them.                *)
Downstream(t) == \A j \in 1 .. Len(t) : \A d \in After(t[j]) : \E i \in (j + 1) .. Len(t) : t[i] = d

LEMMA ConcatDownstream ==
  ASSUME NEW s \in Seq(Dirs), NEW t \in Seq(Dirs), Downstream(s), Downstream(t)
  PROVE  s \o t \in Seq(Dirs) /\ Downstream(s \o t)
<1>1. PICK m \in Nat, n \in Nat : m = Len(s) /\ n = Len(t)
  OBVIOUS
<1>2. /\ s \o t \in Seq(Dirs) /\ Len(s \o t) = Len(s) + Len(t)
      /\ \A k \in 1 .. Len(s) : (s \o t)[k] = s[k]
      /\ \A k \in 1 .. Len(t) : (s \o t)[Len(s) + k] = t[k]
  BY ConcatIs
<1>. DEFINE u == s \o t
<1>. HIDE DEF u
<1>4. /\ u \in Seq(Dirs) /\ Len(u) = m + n
      /\ \A k \in 1 .. m : u[k] = s[k]
      /\ \A k \in 1 .. n : u[m + k] = t[k]
  BY <1>1, <1>2 DEF u
<1>3. ASSUME NEW j \in 1 .. (m + n), NEW d \in After(u[j])
      PROVE  \E i \in (j + 1) .. (m + n) : u[i] = d
  <2>1. CASE j <= m
    <3>1. j \in 1 .. m /\ u[j] = s[j]
      BY <1>4, <2>1
    <3>2. PICK i \in (j + 1) .. m : s[i] = d
      BY <1>1, <1>3, <3>1 DEF Downstream
    <3>3. i \in (j + 1) .. (m + n) /\ u[i] = d
      BY <1>4, <3>2
    <3>4. QED
      BY <3>3
  <2>2. CASE j > m
    <3>1. PICK k \in 1 .. n : j = m + k
      BY <2>2
    <3>2. u[j] = t[k]
      BY <1>4, <3>1
    <3>3. PICK i \in (k + 1) .. n : t[i] = d
      BY <1>1, <1>3, <3>2 DEF Downstream
    <3>4. m + i \in (j + 1) .. (m + n) /\ u[m + i] = d
      BY <1>4, <3>1, <3>3
    <3>5. QED
      BY <3>4
  <2>3. QED
    BY <2>1, <2>2
<1>5. Downstream(u)
  BY <1>3, <1>4 DEF Downstream
<1>6. QED
  BY <1>4, <1>5 DEF u

(* The trees that lint, doctor and status go through.                       *)
LEMMA TreesDownstream ==
  /\ \A scopes : LintTrees(scopes) \in Seq(Dirs) /\ Downstream(LintTrees(scopes))
  /\ LET t == GlobalTrees \o <<Canon(Home), Archive(Home)>> IN t \in Seq(Dirs) /\ Downstream(t)
  /\ LET t == HomeTrees \o GlobalTrees IN t \in Seq(Dirs) /\ Downstream(t)
<1>1. /\ After(Inbox) = {Canon(Home), Archive(Home)}
      /\ \A r \in Roots : After(Canon(r)) = {Archive(r)} /\ After(Archive(r)) = {}
  BY DEF After, Inbox, Canon, Archive
<1>2. HomeTrees \in Seq(Dirs) /\ Downstream(HomeTrees)
  BY <1>1, DirectoriesAre DEF HomeTrees, Downstream
<1>3. \A r \in Roots : <<Canon(r), Archive(r)>> \in Seq(Dirs) /\ Downstream(<<Canon(r), Archive(r)>>)
  BY <1>1, DirectoriesAre DEF Downstream
<1>4. GlobalTrees \in Seq(Dirs) /\ Downstream(GlobalTrees)
  BY <1>3, DirectoriesAre DEF GlobalTrees
<1>5. <<>> \in Seq(Dirs) /\ Downstream(<<>>)
  BY DEF Downstream
<1>6. ASSUME NEW scopes
      PROVE  LintTrees(scopes) \in Seq(Dirs) /\ Downstream(LintTrees(scopes))
  <2>1. PICK s : s = If(Home \in scopes, HomeTrees)
    OBVIOUS
  <2>2. PICK t : t = If(Global \in scopes, GlobalTrees)
    OBVIOUS
  <2>3. s \in Seq(Dirs) /\ Downstream(s) /\ t \in Seq(Dirs) /\ Downstream(t)
    BY <1>2, <1>4, <1>5, <2>1, <2>2 DEF If
  <2>4. QED
    BY <2>1, <2>2, <2>3, ConcatDownstream DEF LintTrees
<1>7. QED
  BY <1>2, <1>3, <1>4, <1>6, ConcatDownstream, DirectoriesAre

LEMMA SweepIs ==
  ASSUME NEW t \in Seq(Dirs)
  PROVE  /\ Sweep(t) \in Seq(Operations) /\ Len(Sweep(t)) = 2 * Len(t)
         /\ \A j \in 1 .. Len(t) : /\ Sweep(t)[2 * j - 1] = <<"list", t[j]>>
                                   /\ Sweep(t)[2 * j] = <<"read", t[j]>>
         /\ \A k \in 1 .. (2 * Len(t)) : /\ \E j \in 1 .. Len(t) : k = 2 * j - 1 \/ k = 2 * j
                                        /\ Sweep(t)[k][1] \in {"list", "read"}
<1>1. PICK n \in Nat : n = Len(t)
  OBVIOUS
<1>2. \A k \in 1 .. (2 * n) : \E j \in 1 .. n : k = 2 * j - 1 \/ k = 2 * j
  <2>1. ASSUME NEW k \in 1 .. (2 * n)
        PROVE  \E j \in 1 .. n : k = 2 * j - 1 \/ k = 2 * j
    <3>1. PICK j : j = (k + 1) \div 2
      OBVIOUS
    <3>2. j \in 1 .. n /\ (k = 2 * j - 1 \/ k = 2 * j)
      BY <3>1
    <3>3. QED
      BY <3>2
  <2>2. QED
    BY <2>1
<1>3. \A j \in 1 .. n : /\ 2 * j - 1 \in 1 .. (2 * n) /\ (2 * j - 1) % 2 = 1 /\ (2 * j - 1 + 1) \div 2 = j
                        /\ 2 * j \in 1 .. (2 * n) /\ (2 * j) % 2 # 1 /\ (2 * j) \div 2 = j
  OBVIOUS
<1>4. DOMAIN Sweep(t) = 1 .. (2 * n)
  BY <1>1 DEF Sweep
<1>5. \A j \in 1 .. n : Sweep(t)[2 * j - 1] = <<"list", t[j]>> /\ Sweep(t)[2 * j] = <<"read", t[j]>>
  BY <1>1, <1>3 DEF Sweep
<1>6. \A j \in 1 .. n : <<"list", t[j]>> \in Operations /\ <<"read", t[j]>> \in Operations
  BY <1>1 DEF Operations
<1>7. \A k \in 1 .. (2 * n) : Sweep(t)[k] \in Operations
  BY <1>2, <1>5, <1>6
<1>8. Sweep(t) = [k \in 1 .. (2 * n) |-> Sweep(t)[k]]
  BY <1>1 DEF Sweep
<1>9. Sweep(t) \in Seq(Operations) /\ Len(Sweep(t)) = 2 * n
  BY <1>7, <1>8
<1>10. \A k \in 1 .. (2 * n) : Sweep(t)[k][1] \in {"list", "read"}
  <2>1. ASSUME NEW j \in 1 .. n
        PROVE  Sweep(t)[2 * j - 1][1] = "list" /\ Sweep(t)[2 * j][1] = "read"
    <3>1. Sweep(t)[2 * j - 1] = <<"list", t[j]>> /\ Sweep(t)[2 * j] = <<"read", t[j]>>
      BY <1>5
    <3>2. QED
      BY <3>1
  <2>2. QED
    BY <1>2, <2>1
<1>11. QED
  BY <1>1, <1>2, <1>5, <1>9, <1>10

(* An inventory of directories in the order of moves pursues what it lists. *)
LEMMA SweepPursues ==
  ASSUME NEW t \in Seq(Dirs), Downstream(t), NEW k \in 1 .. Len(Sweep(t))
  PROVE  Pursues(Sweep(t)[k], Later(Sweep(t), k))
<1>1. PICK n \in Nat : n = Len(t)
  OBVIOUS
<1>2. PICK s \in Seq(Operations) : s = Sweep(t)
  BY SweepIs
<1>3. /\ Len(s) = 2 * n /\ k \in 1 .. (2 * n)
      /\ \A j \in 1 .. n : s[2 * j - 1] = <<"list", t[j]>> /\ s[2 * j] = <<"read", t[j]>>
      /\ \A i \in 1 .. (2 * n) : \E j \in 1 .. n : i = 2 * j - 1 \/ i = 2 * j
  BY <1>1, <1>2, SweepIs
<1>4. PICK j \in 1 .. n : k = 2 * j - 1 \/ k = 2 * j
  BY <1>3
<1>5. ASSUME k = 2 * j - 1, NEW d \in After(t[j])
      PROVE  <<"list", d>> \in Later(s, k)
  <2>1. PICK i \in (j + 1) .. n : t[i] = d
    BY <1>1, <1>5 DEF Downstream
  <2>2. 2 * i - 1 \in (k + 1) .. (2 * n) /\ s[2 * i - 1] = <<"list", d>>
    BY <1>3, <1>5, <2>1
  <2>3. QED
    BY <1>3, <2>2 DEF Later
<1>6. CASE k = 2 * j - 1
  <2>1. s[k][1] = "list" /\ s[k][2] = t[j]
    BY <1>3, <1>6
  <2>2. Pursues(s[k], Later(s, k))
    BY <1>5, <1>6, <2>1 DEF Pursues
  <2>3. QED
    BY <1>2, <2>2
<1>7. CASE k = 2 * j
  <2>1. s[k][1] = "read"
    BY <1>3, <1>7
  <2>2. Pursues(s[k], Later(s, k))
    BY <2>1 DEF Pursues
  <2>3. QED
    BY <1>2, <2>2
<1>8. QED
  BY <1>4, <1>6, <1>7

(* status lists all directories first. *)
LEMMA StatusPursues ==
  LET s == Each("list", HomeTrees \o GlobalTrees) \o Each("read", <<Inbox, Canon(Home), Canon(Global)>>)
  IN  /\ s \in Seq(Operations)
      /\ \A k \in 1 .. Len(s) : Pursues(s[k], Later(s, k)) /\ s[k][1] \in {"list", "read"}
<1>1. PICK t \in Seq(Dirs) : t = HomeTrees \o GlobalTrees /\ Downstream(t)
  BY TreesDownstream
<1>. PICK n \in Nat : n = Len(t)
  OBVIOUS
<1>2. PICK a : a = Each("list", t)
  OBVIOUS
<1>3. a \in Seq(Operations) /\ Len(a) = n /\ \A k \in 1 .. n : a[k] = <<"list", t[k]>>
  <2>1. \A k \in 1 .. n : <<"list", t[k]>> \in Operations
    BY <1>1 DEF Operations
  <2>2. a = [k \in 1 .. n |-> <<"list", t[k]>>]
    BY <1>1, <1>2 DEF Each
  <2>3. QED
    BY <2>1, <2>2
<1>4. PICK b : b = Each("read", <<Inbox, Canon(Home), Canon(Global)>>)
  OBVIOUS
<1>5. b \in Seq(Operations) /\ Len(b) = 3 /\ \A k \in 1 .. 3 : b[k][1] = "read"
  <2>1. \A d \in Dirs : <<"read", d>> \in Operations
    BY DEF Operations
  <2>2. /\ b = [k \in 1 .. 3 |-> <<"read", <<Inbox, Canon(Home), Canon(Global)>>[k]>>]
        /\ \A k \in 1 .. 3 : <<Inbox, Canon(Home), Canon(Global)>>[k] \in Dirs
    BY <1>4, DirectoriesAre DEF Each
  <2>3. QED
    BY <2>1, <2>2
<1>6. PICK s : s = a \o b
  OBVIOUS
<1>7. /\ s \in Seq(Operations) /\ Len(s) = n + 3
      /\ \A k \in 1 .. n : s[k] = <<"list", t[k]>>
      /\ \A k \in 1 .. 3 : s[n + k][1] = "read"
  <2>1. /\ a \o b \in Seq(Operations) /\ Len(a \o b) = Len(a) + Len(b)
        /\ \A k \in 1 .. Len(a) : (a \o b)[k] = a[k]
        /\ \A k \in 1 .. Len(b) : (a \o b)[Len(a) + k] = b[k]
    <3>1. a \in Seq(Operations) /\ b \in Seq(Operations)
      BY <1>3, <1>5
    <3>2. QED
      BY <3>1, ConcatIs
  <2>2. /\ s \in Seq(Operations) /\ Len(s) = n + 3
        /\ \A k \in 1 .. n : s[k] = a[k]
        /\ \A k \in 1 .. 3 : s[n + k] = b[k]
    BY <1>3, <1>5, <1>6, <2>1
  <2>3. QED
    BY <1>3, <1>5, <2>2
<1>8. ASSUME NEW k \in 1 .. (n + 3)
      PROVE  Pursues(s[k], Later(s, k)) /\ s[k][1] \in {"list", "read"}
  <2>1. CASE k <= n
    <3>1. k \in 1 .. n /\ s[k] = <<"list", t[k]>>
      BY <1>7, <2>1
    <3>2. ASSUME NEW d \in After(t[k])
          PROVE  <<"list", d>> \in Later(s, k)
      <4>1. PICK i \in (k + 1) .. n : t[i] = d
        BY <1>1, <3>1 DEF Downstream
      <4>2. i \in (k + 1) .. (n + 3) /\ s[i] = <<"list", d>>
        BY <1>7, <4>1
      <4>3. QED
        BY <1>7, <4>2 DEF Later
    <3>3. s[k][1] = "list" /\ s[k][2] = t[k]
      BY <3>1
    <3>4. QED
      BY <3>2, <3>3 DEF Pursues
  <2>2. CASE k > n
    <3>1. PICK i \in 1 .. 3 : k = n + i
      BY <2>2
    <3>2. QED
      BY <1>7, <3>1 DEF Pursues
  <2>3. QED
    BY <2>1, <2>2
<1>9. QED
  BY <1>1, <1>2, <1>4, <1>6, <1>7, <1>8

(* From its k-th step on, s plans the root r. *)
Block(s, k, r) ==
  s[k] = <<"list", Canon(r)>> /\ s[k + 1] = <<"read", Canon(r)>> /\ s[k + 2] = <<"plan", r>>

(* A planner lists, reads and plans a root, then the next one.              *)
LEMMA PlanningIs ==
  ASSUME NEW scopes \in SUBSET Roots, NEW op \in {"publish", "text"}
  PROVE  \E s \in Seq(Operations) :
           /\ s = Planning(scopes) \o Each(op, InOrder(scopes))
           /\ \/ scopes = {} /\ Len(s) = 0
              \/ \E r \in Roots : scopes = {r} /\ Len(s) = 4 /\ Block(s, 1, r) /\ s[4] = <<op, r>>
              \/ /\ scopes = {Home, Global} /\ Len(s) = 8
                 /\ Block(s, 1, Home) /\ Block(s, 4, Global)
                 /\ s[7] = <<op, Home>> /\ s[8] = <<op, Global>>
<1>. DEFINE planning(r) == Sweep(<<Canon(r)>>) \o <<<<"plan", r>>>>
<1>1. ASSUME NEW r \in Roots
      PROVE  planning(r) \in Seq(Operations) /\ Len(planning(r)) = 3 /\ Block(planning(r), 1, r)
  <2>1. PICK t : t = <<Canon(r)>>
    OBVIOUS
  <2>2. Canon(r) \in Dirs
    BY DirectoriesAre
  <2>. t \in Seq(Dirs) /\ Len(t) = 1 /\ t[1] = Canon(r)
    BY <2>1, <2>2
  <2>. PICK a \in Seq(Operations) : a = Sweep(t)
    BY SweepIs
  <2>3. /\ Len(a) = 2 * Len(t)
        /\ \A j \in 1 .. Len(t) : a[2 * j - 1] = <<"list", t[j]>> /\ a[2 * j] = <<"read", t[j]>>
    BY SweepIs
  <2>4. Len(a) = 2 /\ a[1] = <<"list", Canon(r)>> /\ a[2] = <<"read", Canon(r)>>
    <3>1. 1 \in 1 .. Len(t) /\ 2 * 1 - 1 = 1 /\ 2 * 1 = 2
      OBVIOUS
    <3>2. a[2 * 1 - 1] = <<"list", t[1]>> /\ a[2 * 1] = <<"read", t[1]>>
      BY <2>3, <3>1, Zenon
    <3>3. QED
      BY <2>3, <3>1, <3>2
  <2>5. <<"plan", r>> \in Operations
    BY DEF Operations
  <2>6. PICK b : b = <<<<"plan", r>>>>
    OBVIOUS
  <2>7. b \in Seq(Operations) /\ Len(b) = 1 /\ b[1] = <<"plan", r>>
    BY <2>5, <2>6
  <2>8. PICK u : u = a \o b
    OBVIOUS
  <2>9. /\ u \in Seq(Operations) /\ Len(u) = Len(a) + Len(b)
        /\ \A k \in 1 .. Len(u) : u[k] = IF k <= Len(a) THEN a[k] ELSE b[k - Len(a)]
    <3>1. b \in Seq(Operations)
      BY <2>7
    <3>2. QED
      BY <2>8, <3>1, Joined
  <2>10. Len(u) = 3 /\ u[1] = a[1] /\ u[2] = a[2] /\ u[3] = b[1]
    BY <2>4, <2>7, <2>9
  <2>11. planning(r) = u
    BY <2>1, <2>6, <2>8
  <2>12. Block(u, 1, r)
    BY <2>4, <2>7, <2>10 DEF Block
  <2>13. QED
    BY <2>9, <2>10, <2>11, <2>12
<1>. HIDE DEF planning
<1>2. PICK h, g, o, e : /\ h = If(Home \in scopes, planning(Home))
                        /\ g = If(Global \in scopes, planning(Global))
                        /\ o = InOrder(scopes) /\ e = Each(op, o)
  OBVIOUS
<1>3. PICK s, f : s = f \o e /\ f = h \o g
  OBVIOUS
<1>4. <<>> \in Seq(Operations) /\ Len(<<>>) = 0
  OBVIOUS
<1>5. /\ h \in Seq(Operations)
      /\ Home \notin scopes => Len(h) = 0
      /\ Home \in scopes => Len(h) = 3 /\ Block(h, 1, Home)
  BY <1>1, <1>2, <1>4, DirectoriesAre DEF If
<1>6. /\ g \in Seq(Operations)
      /\ Global \notin scopes => Len(g) = 0
      /\ Global \in scopes => Len(g) = 3 /\ Block(g, 1, Global)
  BY <1>1, <1>2, <1>4, DirectoriesAre DEF If
<1>7. /\ f \in Seq(Operations) /\ Len(f) = Len(h) + Len(g)
      /\ \A k \in 1 .. Len(f) : f[k] = IF k <= Len(h) THEN h[k] ELSE g[k - Len(h)]
  BY <1>3, <1>5, <1>6, Joined
<1>8. /\ o \in Seq(Roots)
      /\ scopes = {} => Len(o) = 0
      /\ \A r \in Roots : scopes = {r} => Len(o) = 1 /\ o[1] = r
      /\ scopes = {Home, Global} => Len(o) = 2 /\ o[1] = Home /\ o[2] = Global
  <2>1. PICK a, b : a = If(Home \in scopes, <<Home>>) /\ b = If(Global \in scopes, <<Global>>)
    OBVIOUS
  <2>2. /\ a \in Seq(Roots) /\ b \in Seq(Roots)
        /\ IF Home \in scopes THEN Len(a) = 1 /\ a[1] = Home ELSE Len(a) = 0
        /\ IF Global \in scopes THEN Len(b) = 1 /\ b[1] = Global ELSE Len(b) = 0
    BY <2>1, DirectoriesAre DEF If
  <2>3. /\ a \o b \in Seq(Roots) /\ Len(a \o b) = Len(a) + Len(b)
        /\ \A k \in 1 .. Len(a) : (a \o b)[k] = a[k]
        /\ \A k \in 1 .. Len(b) : (a \o b)[Len(a) + k] = b[k]
    BY <2>2, ConcatIs
  <2>4. o = a \o b
    BY <1>2, <2>1 DEF InOrder
  <2>5. \A r \in Roots : r = Home \/ r = Global
    BY DEF Roots
  <2>6. QED
    BY <2>2, <2>3, <2>4, <2>5, DirectoriesAre
<1>9. e \in Seq(Operations) /\ Len(e) = Len(o) /\ \A k \in 1 .. Len(o) : e[k] = <<op, o[k]>>
  <2>1. PICK n \in Nat : n = Len(o)
    BY <1>8
  <2>2. \A k \in 1 .. n : o[k] \in Roots
    BY <1>8, <2>1
  <2>3. \A k \in 1 .. n : <<op, o[k]>> \in Operations
    BY <2>2 DEF Operations
  <2>4. e = [k \in 1 .. n |-> <<op, o[k]>>]
    BY <1>2, <1>8, <2>1 DEF Each
  <2>5. QED
    BY <2>1, <2>3, <2>4
<1>10. /\ s \in Seq(Operations) /\ Len(s) = Len(f) + Len(e)
       /\ \A k \in 1 .. Len(s) : s[k] = IF k <= Len(f) THEN f[k] ELSE e[k - Len(f)]
  <2>1. s = f \o e
    BY <1>3
  <2>2. f \in Seq(Operations) /\ e \in Seq(Operations)
    BY <1>7, <1>9
  <2>3. QED
    BY <2>1, <2>2, Joined
<1>11. ASSUME scopes = {} PROVE Len(s) = 0
  BY <1>5, <1>6, <1>8, <1>9, <1>10, <1>11, <1>7
<1>12. ASSUME scopes = {Home} PROVE Len(s) = 4 /\ Block(s, 1, Home) /\ s[4] = <<op, Home>>
  <2>1. Len(h) = 3 /\ Len(g) = 0 /\ Len(e) = 1 /\ e[1] = <<op, Home>> /\ Block(h, 1, Home)
    BY <1>5, <1>6, <1>8, <1>9, <1>12, DirectoriesAre
  <2>2. Len(f) = 3 /\ \A k \in 1 .. 3 : f[k] = h[k]
    <3>1. Len(f) = 3
      BY <1>7, <2>1
    <3>2. Len(h) = 3
      BY <2>1
    <3>3. \A k \in 1 .. 3 : f[k] = h[k]
      BY <1>7, <3>1, <3>2
    <3>4. QED
      BY <3>1, <3>3
  <2>3. Len(s) = 4 /\ \A k \in 1 .. 3 : s[k] = f[k]
    <3>1. Len(s) = 4
      BY <1>10, <2>1, <2>2
    <3>2. \A k \in 1 .. 3 : s[k] = f[k]
      BY <1>10, <2>2, <3>1
    <3>3. QED
      BY <3>1, <3>2
  <2>4. s[4] = e[1]
    BY <1>10, <2>1, <2>2, <2>3
  <2>5. Block(s, 1, Home)
    BY <2>1, <2>2, <2>3 DEF Block
  <2>6. QED
    BY <2>1, <2>3, <2>4, <2>5
<1>13. ASSUME scopes = {Global} PROVE Len(s) = 4 /\ Block(s, 1, Global) /\ s[4] = <<op, Global>>
  <2>1. Len(h) = 0 /\ Len(g) = 3 /\ Len(e) = 1 /\ e[1] = <<op, Global>> /\ Block(g, 1, Global)
    BY <1>5, <1>6, <1>8, <1>9, <1>13, DirectoriesAre
  <2>2. Len(f) = 3 /\ \A k \in 1 .. 3 : f[k] = g[k]
    <3>1. Len(f) = 3
      BY <1>7, <2>1
    <3>2. Len(h) = 0 /\ \A k \in 1 .. 3 : k - 0 = k /\ ~ (k <= 0)
      BY <2>1
    <3>3. \A k \in 1 .. 3 : f[k] = g[k]
      BY <1>7, <3>1, <3>2
    <3>4. QED
      BY <3>1, <3>3
  <2>3. Len(s) = 4 /\ \A k \in 1 .. 3 : s[k] = f[k]
    <3>1. Len(s) = 4
      BY <1>10, <2>1, <2>2
    <3>2. \A k \in 1 .. 3 : s[k] = f[k]
      BY <1>10, <2>2, <3>1
    <3>3. QED
      BY <3>1, <3>2
  <2>4. s[4] = e[1]
    BY <1>10, <2>1, <2>2, <2>3
  <2>5. Block(s, 1, Global)
    BY <2>1, <2>2, <2>3 DEF Block
  <2>6. QED
    BY <2>1, <2>3, <2>4, <2>5
<1>14. ASSUME scopes = {Home, Global}
       PROVE  /\ Len(s) = 8 /\ Block(s, 1, Home) /\ Block(s, 4, Global)
              /\ s[7] = <<op, Home>> /\ s[8] = <<op, Global>>
  <2>1. Home \in scopes /\ Global \in scopes
    BY <1>14
  <2>2. Len(h) = 3 /\ Block(h, 1, Home) /\ Len(g) = 3 /\ Block(g, 1, Global)
    BY <1>5, <1>6, <2>1
  <2>3. Len(e) = 2 /\ e[1] = <<op, Home>> /\ e[2] = <<op, Global>>
    BY <1>8, <1>9, <1>14
  <2>4. Len(f) = 6 /\ \A k \in 1 .. 3 : f[k] = h[k]
    BY <1>7, <2>2
  <2>5. f[4] = g[1] /\ f[5] = g[2] /\ f[6] = g[3]
    BY <1>7, <2>2, <2>4
  <2>6. Len(s) = 8 /\ \A k \in 1 .. 6 : s[k] = f[k]
    <3>1. Len(s) = 8
      BY <1>10, <2>3, <2>4
    <3>2. \A k \in 1 .. 6 : s[k] = f[k]
      BY <1>10, <2>4, <3>1
    <3>3. QED
      BY <3>1, <3>2
  <2>7. s[7] = e[1] /\ s[8] = e[2]
    <3>1. \A k \in 1 .. 8 : s[k] = IF k <= 6 THEN f[k] ELSE e[k - 6]
      BY <1>10, <2>4, <2>6
    <3>2. 7 \in 1 .. 8 /\ ~ (7 <= 6) /\ 7 - 6 = 1 /\ 8 \in 1 .. 8 /\ ~ (8 <= 6) /\ 8 - 6 = 2
      OBVIOUS
    <3>3. QED
      BY <3>1, <3>2
  <2>8. Block(s, 1, Home)
    BY <2>2, <2>4, <2>6 DEF Block
  <2>9. Block(s, 4, Global)
    <3>1. s[4] = g[1] /\ s[5] = g[1 + 1] /\ s[6] = g[1 + 2]
      BY <2>5, <2>6
    <3>2. QED
      BY <2>2, <3>1 DEF Block
  <2>10. QED
    BY <2>3, <2>6, <2>7, <2>8, <2>9
<1>15. scopes = {} \/ scopes = {Home} \/ scopes = {Global} \/ scopes = {Home, Global}
  BY DEF Roots
<1>16. s = Planning(scopes) \o Each(op, InOrder(scopes))
  BY <1>2, <1>3 DEF Planning, planning
<1>17. QED
  BY <1>10, <1>11, <1>12, <1>13, <1>14, <1>15, <1>16

(* Of the same root, what a planner does is in order.                       *)
LEMMA PlannersAreOrderly ==
  ASSUME NEW c, c.name \in Planners, c.scopes \in SUBSET Roots
  PROVE  /\ Steps(c) \in Seq(Operations) /\ Orderly(c, Steps(c))
         /\ \A r \in c.scopes : <<"list", Canon(r)>> \in Left(Steps(c))
<1>1. PICK op \in {"publish", "text"} :
        Steps(c) = Planning(c.scopes) \o Each(op, InOrder(c.scopes))
  BY DEF Steps, Planners
<1>2. PICK s \in Seq(Operations) :
        /\ s = Planning(c.scopes) \o Each(op, InOrder(c.scopes))
        /\ \/ c.scopes = {} /\ Len(s) = 0
           \/ \E r \in Roots : c.scopes = {r} /\ Len(s) = 4 /\ Block(s, 1, r) /\ s[4] = <<op, r>>
           \/ /\ c.scopes = {Home, Global} /\ Len(s) = 8
              /\ Block(s, 1, Home) /\ Block(s, 4, Global)
              /\ s[7] = <<op, Home>> /\ s[8] = <<op, Global>>
  BY PlanningIs
<1>3. c.name \notin Inventories
  BY DEF Planners, Inventories
<1>4. \A r, q \in Roots : Canon(r) = Canon(q) => r = q
  BY DirectoriesAre
<1>5. ASSUME Len(s) = 0
      PROVE  Orderly(c, s)
  <2>1. 1 .. Len(s) = {}
    BY <1>5
  <2>2. Orderly(c, s)
    BY <1>3, <2>1 DEF Orderly
  <2>3. QED
    BY <2>2
<1>6. ASSUME NEW r \in Roots, c.scopes = {r}, Len(s) = 4, Block(s, 1, r), s[4] = <<op, r>>
      PROVE  Orderly(c, s)
  <2>1. s[1] = <<"list", Canon(r)>> /\ s[2] = <<"read", Canon(r)>> /\ s[3] = <<"plan", r>>
    BY <1>6 DEF Block
  <2>2. \A k \in 1 .. 4 : Later(s, k) = {s[l] : l \in (k + 1) .. 4}
    BY <1>6 DEF Later
  <2>3. /\ Later(s, 1) = {s[2], s[3], s[4]} /\ Later(s, 2) = {s[3], s[4]}
        /\ Later(s, 3) = {s[4]} /\ Later(s, 4) = {}
    BY <2>2
  <2>. DEFINE planned(k) == Touches(s[k], r) /\ Plans(s[k], r, Later(s, k))
  <2>4. planned(1) /\ planned(2)
    BY <1>6, <2>1, <2>3 DEF Touches, Plans
  <2>5. planned(3) /\ planned(4)
    BY <1>6, <2>1, <2>3 DEF Touches, Plans
  <2>6. \A k \in 1 .. 4 : planned(k)
    BY <2>4, <2>5
  <2>7. QED
    BY <1>3, <1>6, <2>6 DEF Orderly
<1>7. ASSUME c.scopes = {Home, Global}, Len(s) = 8, Block(s, 1, Home), Block(s, 4, Global),
             s[7] = <<op, Home>>, s[8] = <<op, Global>>
      PROVE  Orderly(c, s)
  <2>1. /\ s[1] = <<"list", Canon(Home)>> /\ s[2] = <<"read", Canon(Home)>> /\ s[3] = <<"plan", Home>>
        /\ s[4] = <<"list", Canon(Global)>> /\ s[5] = <<"read", Canon(Global)>>
        /\ s[6] = <<"plan", Global>>
    BY <1>7 DEF Block
  <2>2. \A k \in 1 .. 8 : Later(s, k) = {s[l] : l \in (k + 1) .. 8}
    BY <1>7 DEF Later
  <2>3. /\ Later(s, 8) = {} /\ Later(s, 7) = {s[8]} /\ Later(s, 6) = {s[7], s[8]}
        /\ Later(s, 5) = {s[6], s[7], s[8]} /\ Later(s, 4) = {s[5], s[6], s[7], s[8]}
    BY <2>2
  <2>4. /\ Later(s, 3) = {s[4], s[5], s[6], s[7], s[8]}
        /\ Later(s, 2) = {s[3], s[4], s[5], s[6], s[7], s[8]}
        /\ Later(s, 1) = {s[2], s[3], s[4], s[5], s[6], s[7], s[8]}
    BY <2>2
  <2>. DEFINE planned(k) == /\ Touches(s[k], Home) \/ Touches(s[k], Global)
                            /\ \A r \in {Home, Global} : Plans(s[k], r, Later(s, k))
  <2>5. Home # Global /\ Canon(Home) # Canon(Global)
    BY DirectoriesAre
  <2>6. planned(1) /\ planned(2)
    BY <1>7, <2>1, <2>4, <2>5 DEF Touches, Plans
  <2>7. planned(3) /\ planned(4)
    BY <1>7, <2>1, <2>3, <2>4, <2>5 DEF Touches, Plans
  <2>8. planned(5) /\ planned(6)
    BY <1>7, <2>1, <2>3, <2>5 DEF Touches, Plans
  <2>9. planned(7) /\ planned(8)
    BY <1>7, <2>1, <2>3, <2>5 DEF Touches, Plans
  <2>10. \A k \in 1 .. 8 : planned(k)
    BY <2>6, <2>7, <2>8, <2>9
  <2>11. QED
    BY <1>3, <1>7, <2>10 DEF Orderly
<1>8. Orderly(c, s)
  BY <1>2, <1>5, <1>6, <1>7
<1>9. \A r \in c.scopes : \E k \in 1 .. Len(s) : s[k] = <<"list", Canon(r)>>
  <2>1. CASE \E r \in Roots : c.scopes = {r} /\ Len(s) = 4 /\ Block(s, 1, r)
    BY <2>1 DEF Block
  <2>2. ASSUME c.scopes = {Home, Global}, Len(s) = 8, Block(s, 1, Home), Block(s, 4, Global)
        PROVE  \A r \in c.scopes : \E k \in 1 .. Len(s) : s[k] = <<"list", Canon(r)>>
    <3>1. s[1] = <<"list", Canon(Home)>> /\ s[4] = <<"list", Canon(Global)>>
      BY <2>2 DEF Block
    <3>2. QED
      BY <2>2, <3>1
  <2>3. QED
    BY <1>2, <2>1, <2>2
<1>10. QED
  BY <1>1, <1>2, <1>8, <1>9 DEF Left

(* Every command goes through its steps in order.                           *)
LEMMA StepsAreOrderly ==
  ASSUME NEW c \in Commands
  PROVE  /\ Steps(c) \in Seq(Operations) /\ Orderly(c, Steps(c))
         /\ c.name \in Planners => \A r \in c.scopes : <<"list", Canon(r)>> \in Left(Steps(c))
<1>1. /\ c.name \in {"lint", "doctor", "status", "search", "get", "compile", "context"}
      /\ c.scopes \in SUBSET Roots
  BY ReaderCommandsAssumption
<1>2. ASSUME NEW t \in Seq(Dirs), Downstream(t), Steps(c) = Sweep(t), c.name \notin Planners
      PROVE  Steps(c) \in Seq(Operations) /\ Orderly(c, Steps(c))
  BY <1>2, SweepIs, SweepPursues DEF Orderly
<1>3. CASE c.name = "lint"
  BY <1>2, <1>3, TreesDownstream DEF Steps, Planners
<1>4. CASE c.name = "doctor"
  BY <1>2, <1>4, TreesDownstream DEF Steps, Planners
<1>5. CASE c.name = "status"
  BY <1>5, StatusPursues DEF Steps, Planners, Orderly
<1>6. CASE c.name \in {"search", "get"}
  <2>1. PICK t : t = CanonTrees(c.scopes)
    OBVIOUS
  <2>2. t \in Seq(Dirs)
    <3>1. PICK o : o = InOrder(c.scopes)
      OBVIOUS
    <3>2. o \in Seq(Roots)
      BY <3>1, DirectoriesAre DEF InOrder, If
    <3>3. PICK n \in Nat : n = Len(o)
      BY <3>2
    <3>4. \A k \in 1 .. n : Canon(o[k]) \in Dirs
      BY <3>2, <3>3, DirectoriesAre
    <3>5. t = [k \in 1 .. n |-> Canon(o[k])]
      BY <2>1, <3>1, <3>2, <3>3 DEF CanonTrees
    <3>6. QED
      BY <3>4, <3>5
  <2>3. Steps(c) = Sweep(t)
    BY <1>6, <2>1 DEF Steps
  <2>4. QED
    BY <1>6, <2>2, <2>3, SweepIs DEF Orderly, Inventories, Planners
<1>7. CASE c.name \in {"compile", "context"}
  BY <1>1, <1>7, PlannersAreOrderly DEF Planners
<1>8. QED
  BY <1>1, <1>3, <1>4, <1>5, <1>6, <1>7
-----------------------------------------------------------------------------
(* Types.                                                                   *)

Ordered == \A p \in Procs : Orderly(cmd[p], todo[p])

(* The head of what is left, and what a step makes of it. *)
LEMMA NextStepIs ==
  ASSUME TypeOK, Ordered, NEW p \in Procs, todo[p] # <<>>
  PROVE  /\ NextStep(p) \in Operations /\ NextStep(p) = todo[p][1] /\ 1 \in 1 .. Len(todo[p])
         /\ NextStep(p)[1] \in {"list", "read"} => NextStep(p)[2] \in Dirs
         /\ NextStep(p)[1] \in {"plan", "publish", "text"} => NextStep(p)[2] \in Roots
         /\ Tail(todo[p]) \in Seq(Operations) /\ Orderly(cmd[p], Tail(todo[p]))
         /\ Left(todo[p]) = {NextStep(p)} \cup Left(Tail(todo[p]))
         /\ Left(Tail(todo[p])) = Later(todo[p], 1)
         /\ Len(todo[p]) = 1 <=> Tail(todo[p]) = <<>>
<1>1. todo[p] \in Seq(Operations) /\ Orderly(cmd[p], todo[p])
  BY DEF TypeOK, Ordered
<1>2. \A op \in Operations : /\ op[1] \in {"list", "read"} => op[2] \in Dirs
                             /\ op[1] \in {"plan", "publish", "text"} => op[2] \in Roots
  BY DEF Operations
<1>3. QED
  BY <1>1, <1>2, StepsGoOn DEF NextStep

(* A step of the list, the last one of a command or not.                    *)
LEMMA ContinueIs ==
  ASSUME TypeOK, Ordered, NEW p \in Procs, todo[p] # <<>>, Continue(p) \/ Stop(p, "reported") \/ Stop(p, "raised"),
         UNCHANGED cmd
  PROVE  /\ todo' \in [Procs -> Seq(Operations)] /\ Ordered'
         /\ result' \in [Procs -> {"none", "ok", "reported", "raised"}]
<1>1. Orderly(cmd[p], <<>>)
  BY DEF Orderly
<1>2. \E t \in Seq(Operations) : todo' = [todo EXCEPT ![p] = t] /\ Orderly(cmd[p], t)
  <2>1. Tail(todo[p]) \in Seq(Operations) /\ Orderly(cmd[p], Tail(todo[p])) /\ <<>> \in Seq(Operations)
    BY NextStepIs
  <2>2. \/ todo' = [todo EXCEPT ![p] = Tail(todo[p])]
        \/ todo' = [todo EXCEPT ![p] = <<>>]
    BY DEF Continue, Stop
  <2>3. QED
    BY <1>1, <2>1, <2>2, Zenon
<1>3. todo' \in [Procs -> Seq(Operations)] /\ Ordered'
  BY <1>2 DEF TypeOK, Ordered
<1>4. result' \in [Procs -> {"none", "ok", "reported", "raised"}]
  BY DEF Continue, Stop, TypeOK
<1>5. QED
  BY <1>3, <1>4

(* What a reader reads is a file.                                           *)
LEMMA ReadIsFile ==
  ASSUME TypeOK, NEW q \in Paths
  PROVE  ReadFile(q) \in File
BY FilesAreThere DEF TypeOK, ReadFile

LEMMA StartTypes ==
  ASSUME TypeOK, Ordered, NEW p \in Procs, NEW c \in Commands, Start(p, c)
  PROVE  TypeOK' /\ Ordered'
<1>1. Steps(c) \in Seq(Operations) /\ Orderly(c, Steps(c))
  BY StepsAreOrderly
<1>2. \A Ds : Stored(Ds) \subseteq Memories
  BY DirectoriesAre DEF Stored, Memories
<1>3. UNCHANGED <<store, digest, compiled>> /\ runs' = runs - 1 /\ runs > 0
  BY DEF Start
<1>4. taken' \in [Procs -> SUBSET Memories]
  BY DEF Start, TypeOK
<1>5. Ordered'
  BY <1>1 DEF Start, TypeOK, Ordered
<1>6. begun'[p] = [edition |-> edition, files |-> files, stored |-> Stored(DirsOf(c)), noted |-> {}, current |-> {}]
  BY DEF Start, TypeOK
<1>7. begun'[p] \in [edition : [Roots -> Nat \ {0}], files : [Paths -> File \cup {NoFile}],
                     stored : SUBSET Memories, noted : SUBSET Memories, current : SUBSET Roots]
  BY <1>2, <1>6 DEF TypeOK
<1>8. begun' = [begun EXCEPT ![p] = begun'[p]]
  BY <1>6 DEF Start, TypeOK
<1>9. plans' = [plans EXCEPT ![p] = [r \in Roots |-> NoPlan]] /\ text' = [text EXCEPT ![p] = [r \in Roots |-> <<>>]]
  BY DEF Start
<1>10. /\ Over(Procs, plans') /\ Over(Procs, text')
       /\ \A q \in Procs : Over(Roots, plans'[q]) /\ Over(Roots, text'[q])
  BY <1>9 DEF TypeOK, Over
<1>11. /\ cmd' \in [Procs -> Commands \cup {[name |-> "lint", scopes |-> {}]}]
       /\ todo' \in [Procs -> Seq(Operations)]
       /\ listed' \in [Procs -> [Dirs -> SUBSET Names]]
       /\ got' \in [Procs -> SUBSET [path : Paths, file : File]] /\ cut' \in [Procs -> Nat]
       /\ result' \in [Procs -> {"none", "ok", "reported", "raised"}]
  BY <1>1 DEF Start, TypeOK
<1>12. begun' \in [Procs -> [edition : [Roots -> Nat \ {0}], files : [Paths -> File \cup {NoFile}],
                             stored : SUBSET Memories, noted : SUBSET Memories, current : SUBSET Roots]]
  BY <1>7, <1>8 DEF TypeOK
<1>13. QED
  BY <1>3, <1>4, <1>5, <1>10, <1>11, <1>12 DEF TypeOK, store

LEMMA ListTypes ==
  ASSUME TypeOK, Ordered, NEW p \in Procs, ListDirectory(p)
  PROVE  TypeOK' /\ Ordered'
<1>1. PICK d \in Dirs : d = NextStep(p)[2] /\ todo[p] # <<>> /\ d[1] \in Roots
  BY NextStepIs, DirectoriesAre DEF ListDirectory, At
<1>2. PICK names \in SUBSET Names : names = {n \in Names : files[<<d, n>>] # NoFile}
  OBVIOUS
<1>3. /\ listed' = [listed EXCEPT ![p][d] = names]
      /\ begun' = [begun EXCEPT ![p].noted = @ \cup {<<d[1], n>> : n \in names}]
      /\ Continue(p) /\ UNCHANGED <<store, taken, digest, compiled, runs, cmd, got, cut, plans, text>>
  BY <1>1, <1>2 DEF ListDirectory
<1>4. /\ todo' \in [Procs -> Seq(Operations)] /\ Ordered'
      /\ result' \in [Procs -> {"none", "ok", "reported", "raised"}]
  BY <1>1, <1>3, ContinueIs
<1>5. listed' \in [Procs -> [Dirs -> SUBSET Names]]
  BY <1>2, <1>3 DEF TypeOK
<1>6. {<<d[1], n>> : n \in names} \subseteq Memories
  <2>1. \A n \in names : <<d[1], n>> \in Memories
    BY <1>1 DEF Memories
  <2>2. QED
    BY <2>1
<1>7. begun' \in [Procs -> [edition : [Roots -> Nat \ {0}], files : [Paths -> File \cup {NoFile}],
                            stored : SUBSET Memories, noted : SUBSET Memories, current : SUBSET Roots]]
  BY <1>3, <1>6 DEF TypeOK
<1>8. QED
  BY <1>3, <1>4, <1>5, <1>7 DEF TypeOK, store, Over

LEMMA ReadTypes ==
  ASSUME TypeOK, Ordered, NEW p \in Procs, ReadNothing(p) \/ ReadNext(p)
  PROVE  TypeOK' /\ Ordered'
<1>1. PICK d \in Dirs : d = NextStep(p)[2] /\ todo[p] # <<>>
  BY NextStepIs DEF ReadNothing, ReadNext, At
<1>2. CASE ReadNothing(p)
  <2>1. Continue(p) /\ UNCHANGED <<store, taken, digest, compiled, runs, cmd, working, begun>>
    BY <1>2 DEF ReadNothing
  <2>2. /\ todo' \in [Procs -> Seq(Operations)] /\ Ordered'
        /\ result' \in [Procs -> {"none", "ok", "reported", "raised"}]
    BY <1>1, <2>1, ContinueIs
  <2>3. QED
    BY <2>1, <2>2 DEF TypeOK, store, working
<1>3. CASE ReadNext(p)
  <2>1. PICK q : q = <<d, Min(listed[p][d])>>
    OBVIOUS
  <2>2. listed[p][d] \in SUBSET Names /\ listed[p][d] # {}
    BY <1>1, <1>3 DEF ReadNext, TypeOK
  <2>3. q \in Paths /\ ReadFile(q) \in File /\ q[2] \in listed[p][d]
    BY <2>1, <2>2, SmallestName, ReadIsFile, DirectoriesAre
  <2>4. /\ listed' = [listed EXCEPT ![p][d] = @ \ {q[2]}]
        /\ got' = [got EXCEPT ![p] = @ \cup {[path |-> q, file |-> ReadFile(q)]}]
        /\ UNCHANGED <<store, taken, digest, compiled, runs, cmd, cut, plans, text, begun>>
    BY <1>1, <1>3, <2>1 DEF ReadNext
  <2>5. \/ Continue(p) \/ Stop(p, "reported") \/ Stop(p, "raised")
        \/ UNCHANGED <<todo, result>>
    <3>1. PICK how : how = Load(cmd[p].name, q, ReadFile(q))
      OBVIOUS
    <3>2. /\ how # "ok" => Stop(p, how)
          /\ how = "ok" => Continue(p) \/ UNCHANGED <<todo, result>>
      BY <1>1, <1>3, <2>1, <3>1 DEF ReadNext
    <3>3. cmd[p].name \in {"lint", "doctor", "status", "search", "get", "compile", "context"}
      BY ReaderCommandsAssumption DEF TypeOK
    <3>4. how \in {"ok", "reported", "raised"}
      BY <3>1, <3>3 DEF Load, LoadForDigest, LoadForRetrieval, LoadForStatus, Reported
    <3>5. QED
      BY <3>2, <3>4
  <2>6. /\ todo' \in [Procs -> Seq(Operations)] /\ Ordered'
        /\ result' \in [Procs -> {"none", "ok", "reported", "raised"}]
    BY <1>1, <2>4, <2>5, ContinueIs DEF TypeOK, Ordered
  <2>7. listed' \in [Procs -> [Dirs -> SUBSET Names]]
    BY <2>4 DEF TypeOK
  <2>8. got' \in [Procs -> SUBSET [path : Paths, file : File]]
    BY <2>3, <2>4 DEF TypeOK
  <2>9. QED
    BY <2>4, <2>6, <2>7, <2>8 DEF TypeOK, store, Over
<1>4. QED
  BY <1>2, <1>3

LEMMA ShrinkTypes ==
  ASSUME TypeOK, Ordered, NEW p \in Procs, Shrink(p)
  PROVE  TypeOK' /\ Ordered'
BY DEF Shrink, TypeOK, Ordered, store, Over

LEMMA PlanTypes ==
  ASSUME TypeOK, Ordered, NEW p \in Procs, MakePlan(p)
  PROVE  TypeOK' /\ Ordered'
<1>1. PICK r \in Roots : r = NextStep(p)[2] /\ todo[p] # <<>>
  BY NextStepIs DEF MakePlan, At
<1>2. PICK x : plans' = [plans EXCEPT ![p][r] = x]
  BY <1>1 DEF MakePlan
<1>3. /\ Continue(p) /\ cut' = [cut EXCEPT ![p] = 0]
      /\ UNCHANGED <<store, taken, digest, compiled, runs, cmd, listed, got, text, begun>>
  BY DEF MakePlan
<1>4. /\ todo' \in [Procs -> Seq(Operations)] /\ Ordered'
      /\ result' \in [Procs -> {"none", "ok", "reported", "raised"}]
  BY <1>1, <1>3, ContinueIs
<1>5. Over(Procs, plans') /\ \A q \in Procs : Over(Roots, plans'[q])
  <2>1. Over(Procs, plans) /\ \A q \in Procs : Over(Roots, plans[q])
    BY DEF TypeOK
  <2>2. Over(Procs, plans') /\ \A q \in Procs \ {p} : plans'[q] = plans[q]
    BY <1>2, <2>1 DEF Over
  <2>3. plans'[p] = [plans[p] EXCEPT ![r] = x]
    BY <1>2, <2>1 DEF Over
  <2>4. Over(Roots, plans'[p])
    BY <2>1, <2>3 DEF Over
  <2>5. QED
    BY <2>1, <2>2, <2>4
<1>6. QED
  BY <1>3, <1>4, <1>5 DEF TypeOK, store

LEMMA PublishTypes ==
  ASSUME TypeOK, Ordered, NEW p \in Procs, Publish(p)
  PROVE  TypeOK' /\ Ordered'
<1>1. PICK r \in Roots : r = NextStep(p)[2] /\ todo[p] # <<>>
  BY NextStepIs DEF Publish, At
<1>2. /\ digest' = [digest EXCEPT ![r] = plans[p][r].ids]
      /\ compiled' = [compiled EXCEPT ![r] = begun[p].edition[r]]
      /\ Continue(p) /\ UNCHANGED <<store, taken, runs, cmd, working, begun>>
  BY <1>1 DEF Publish
<1>3. /\ todo' \in [Procs -> Seq(Operations)] /\ Ordered'
      /\ result' \in [Procs -> {"none", "ok", "reported", "raised"}]
  BY <1>1, <1>2, ContinueIs
<1>4. Over(Roots, digest') /\ compiled' \in [Roots -> Nat]
  BY <1>2 DEF TypeOK, Over
<1>5. QED
  BY <1>2, <1>3, <1>4 DEF TypeOK, store, working

LEMMA TextTypes ==
  ASSUME TypeOK, Ordered, NEW p \in Procs, PrintText(p)
  PROVE  TypeOK' /\ Ordered'
<1>1. PICK r \in Roots : r = NextStep(p)[2] /\ todo[p] # <<>>
  BY NextStepIs DEF PrintText, At
<1>2. PICK x : text' = [text EXCEPT ![p][r] = x]
  BY <1>1 DEF PrintText
<1>3. \/ begun' = [begun EXCEPT ![p].current = @ \cup {r}]
      \/ begun' = [begun EXCEPT ![p].current = @]
  BY <1>1 DEF PrintText
<1>4. Continue(p) /\ UNCHANGED <<store, taken, digest, compiled, runs, cmd, listed, got, cut, plans>>
  BY DEF PrintText
<1>5. /\ todo' \in [Procs -> Seq(Operations)] /\ Ordered'
      /\ result' \in [Procs -> {"none", "ok", "reported", "raised"}]
  BY <1>1, <1>4, ContinueIs
<1>6. Over(Procs, text') /\ \A q \in Procs : Over(Roots, text'[q])
  <2>1. Over(Procs, text) /\ \A q \in Procs : Over(Roots, text[q])
    BY DEF TypeOK
  <2>2. Over(Procs, text') /\ \A q \in Procs \ {p} : text'[q] = text[q]
    BY <1>2, <2>1 DEF Over
  <2>3. text'[p] = [text[p] EXCEPT ![r] = x]
    BY <1>2, <2>1 DEF Over
  <2>4. Over(Roots, text'[p])
    BY <2>1, <2>3 DEF Over
  <2>5. QED
    BY <2>1, <2>2, <2>4
<1>7. begun' \in [Procs -> [edition : [Roots -> Nat \ {0}], files : [Paths -> File \cup {NoFile}],
                            stored : SUBSET Memories, noted : SUBSET Memories, current : SUBSET Roots]]
  <2>1. PICK C \in SUBSET Roots : begun' = [begun EXCEPT ![p].current = C]
    <3>1. begun[p].current \in SUBSET Roots /\ begun[p].current \cup {r} \in SUBSET Roots
      BY DEF TypeOK
    <3>2. QED
      BY <1>3, <3>1
  <2>2. QED
    BY <2>1 DEF TypeOK
<1>8. QED
  BY <1>4, <1>5, <1>6, <1>7 DEF TypeOK, store

(* What other commands write is a record, where they write it.              *)
LEMMA RecordsAreWritten ==
  ASSUME TypeOK
  PROVE  /\ \A q \in Paths : \A s : IsRecord(q, s) =>
              files[q] \in [form : {"record"}, record : Record] /\ files[q].record \in Record
         /\ \A r \in Record, s \in {"accepted", "archived"} : Moved(r, s) \in Record
<1>1. \A q \in Paths : \A s : IsRecord(q, s) => files[q] \in [form : {"record"}, record : Record]
  <2>1. ASSUME NEW q \in Paths, NEW s, IsRecord(q, s)
        PROVE  files[q] \in [form : {"record"}, record : Record]
    <3>1. files[q].form = "record" /\ files[q] \in File \cup {NoFile}
      BY <2>1 DEF IsRecord, TypeOK
    <3>2. NoFile.form # "record"
      BY DEF NoFile
    <3>3. QED
      BY <3>1, <3>2, FilesAreThere
  <2>2. QED
    BY <2>1
<1>2. \A r \in Record, s \in {"accepted", "archived"} : Moved(r, s) \in Record
  <2>1. ASSUME NEW r \in Record, NEW s \in {"accepted", "archived"}
        PROVE  [r EXCEPT !.status = s, !.at = r.at + 1] \in Record
    <3>1. s \in {"captured", "accepted", "archived"} /\ r.at + 1 \in Nat
      BY DEF Record
    <3>2. PICK t \in {"captured", "accepted", "archived"}, k \in Nat : t = s /\ k = r.at + 1
      BY <3>1
    <3>3. [[r EXCEPT !.status = t] EXCEPT !.at = k] \in Record
      BY DEF Record
    <3>4. [r EXCEPT !.status = t, !.at = k] = [[r EXCEPT !.status = t] EXCEPT !.at = k]
      OBVIOUS
    <3>5. QED
      BY <3>2, <3>3, <3>4
  <2>2. QED
    BY <2>1 DEF Moved
<1>3. QED
  BY <1>1, <1>2, FilesAreThere

LEMMA MovesType ==
  ASSUME TypeOK, Ordered, Moving
  PROVE  TypeOK' /\ Ordered'
<1>1. UNCHANGED Unmoved
  BY DEF Moving, AcceptRead, AcceptWrite, AcceptUnlink, Promote, ArchiveWrite, ArchiveUnlink, Elsewhere
<1>2. Ordered'
  BY <1>1 DEF Unmoved, Ordered
<1>. DEFINE stored == /\ files' \in [Paths -> File \cup {NoFile}]
                      /\ judged' \in [Names -> [form : {"record"}, record : Record] \cup {NoFile}]
                      /\ accepted' \subseteq Names /\ archiving' \subseteq Memories
                      /\ moves' \in Nat /\ edition' \in [Roots -> Nat \ {0}]
                      /\ taken' \in [Procs -> SUBSET Memories]
<1>3. ASSUME NEW n \in Names, AcceptRead(n)
      PROVE  stored
  <2>1. <<Inbox, n>> \in Paths
    BY DirectoriesAre
  <2>2. files[<<Inbox, n>>] \in [form : {"record"}, record : Record]
    BY <1>3, <2>1, RecordsAreWritten DEF AcceptRead
  <2>3. QED
    BY <1>3, <2>2 DEF AcceptRead, Elsewhere, TypeOK
<1>4. ASSUME NEW n \in Names, AcceptWrite(n)
      PROVE  stored
  <2>1. judged[n].record \in Record
    BY <1>4 DEF AcceptWrite, TypeOK
  <2>2. [form |-> "record", record |-> Moved(judged[n].record, "accepted")] \in File
    BY <2>1, FilesAreThere, RecordsAreWritten
  <2>3. QED
    BY <1>4, <2>2, DirectoriesAre DEF AcceptWrite, Put, Edited, Elsewhere, TypeOK
<1>5. ASSUME NEW n \in Names, AcceptUnlink(n)
      PROVE  stored
  BY <1>5 DEF AcceptUnlink, Remove, Elsewhere, TypeOK
<1>6. ASSUME NEW m \in Names, NEW n \in Names, Promote(m, n)
      PROVE  stored
  <2>1. PICK r \in Record : r = Moved(files[<<Canon(Home), m>>].record, "accepted")
    BY <1>6, DirectoriesAre, RecordsAreWritten DEF Promote
  <2>2. PICK g : g = [r EXCEPT !.id = n, !.scope = Global, !.source = m, !.supersedes = NoId]
    OBVIOUS
  <2>3. g \in Record
    BY <2>1, <2>2, ReaderNamesAssumption, ReaderScopesAssumption DEF Record, NoId
  <2>4. Put(<<Canon(Global), n>>, g) /\ Edited(Global) /\ moves > 0 /\ moves' = moves - 1
        /\ UNCHANGED <<judged, accepted, archiving, taken>>
    BY <1>6, <2>1, <2>2 DEF Promote, Elsewhere
  <2>5. [form |-> "record", record |-> g] \in File
    BY <2>3, FilesAreThere
  <2>6. QED
    BY <2>4, <2>5, DirectoriesAre DEF Put, Edited, TypeOK
<1>8. ASSUME NEW r \in Roots, NEW n \in Names, ArchiveWrite(r, n)
      PROVE  stored
  <2>1. [form |-> "record", record |-> Moved(files[<<Canon(r), n>>].record, "archived")] \in File
    BY <1>8, DirectoriesAre, FilesAreThere, RecordsAreWritten DEF ArchiveWrite
  <2>2. QED
    BY <1>8, <2>1, DirectoriesAre DEF ArchiveWrite, Put, Memories, Elsewhere, TypeOK
<1>9. ASSUME NEW r \in Roots, NEW n \in Names, ArchiveUnlink(r, n)
      PROVE  stored
  <2>1. files' \in [Paths -> File \cup {NoFile}]
    BY <1>9 DEF ArchiveUnlink, Remove, TypeOK
  <2>2. edition' \in [Roots -> Nat \ {0}]
    BY <1>9 DEF ArchiveUnlink, Edited, TypeOK
  <2>3. taken' \in [Procs -> SUBSET Memories]
    <3>1. <<r, n>> \in Memories
      BY DEF Memories
    <3>2. \A p \in Procs : taken[p] \subseteq Memories
      BY DEF TypeOK
    <3>3. \A p \in Procs : taken[p] \cup {<<r, n>>} \subseteq Memories
      BY <3>1, <3>2
    <3>4. QED
      BY <1>9, <3>2, <3>3 DEF ArchiveUnlink, Taken
  <2>4. QED
    BY <1>9, <2>1, <2>2, <2>3 DEF ArchiveUnlink, TypeOK
<1>10. stored
  BY <1>3, <1>4, <1>5, <1>6, <1>8, <1>9 DEF Moving
<1>11. QED
  BY <1>1, <1>2, <1>10 DEF Unmoved, working, TypeOK

LEMMA StepsType ==
  ASSUME TypeOK, Ordered, [Next]_vars
  PROVE  TypeOK' /\ Ordered'
<1>1. ASSUME NEW p \in Procs, Reading(p)
      PROVE  TypeOK' /\ Ordered'
  BY <1>1, StartTypes, ListTypes, ReadTypes, ShrinkTypes, PlanTypes, PublishTypes, TextTypes DEF Reading
<1>2. CASE UNCHANGED vars
  BY <1>2 DEF vars, store, working, TypeOK, Ordered
<1>3. QED
  BY <1>1, <1>2, MovesType DEF Next

LEMMA StepsStayOrdered == Spec => [](TypeOK /\ Ordered)
<1>1. Init => TypeOK /\ Ordered
  <2>. SUFFICES ASSUME Init PROVE TypeOK /\ Ordered
    OBVIOUS
  <2>1. PICK s \in Starts : files = s.files /\ digest = s.digest /\ moves = s.moves /\ runs = s.runs
    BY DEF Init
  <2>2. /\ files \in [Paths -> File \cup {NoFile}] /\ Over(Roots, digest)
        /\ moves \in Nat /\ runs \in Nat
    BY <2>1, ReaderStartsAssumption DEF Over
  <2>3. begun \in [Procs -> [edition : [Roots -> Nat \ {0}], files : [Paths -> File \cup {NoFile}],
                             stored : SUBSET Memories, noted : SUBSET Memories, current : SUBSET Roots]]
    BY DEF Init, Nothing, NotBegun
  <2>4. /\ Over(Procs, plans) /\ Over(Procs, text)
        /\ \A p \in Procs : Over(Roots, plans[p]) /\ Over(Roots, text[p])
    BY DEF Init, Nothing, Over
  <2>5. todo \in [Procs -> Seq(Operations)] /\ \A p \in Procs : todo[p] = <<>>
    BY DEF Init, Nothing
  <2>6. Ordered
    BY <2>5 DEF Ordered, Orderly
  <2>7. /\ taken \in [Procs -> SUBSET Memories] /\ accepted \subseteq Names /\ archiving \subseteq Memories
        /\ judged \in [Names -> [form : {"record"}, record : Record] \cup {NoFile}]
        /\ edition \in [Roots -> Nat \ {0}] /\ compiled \in [Roots -> Nat]
    BY DEF Init, Nothing
  <2>8. /\ cmd \in [Procs -> Commands \cup {[name |-> "lint", scopes |-> {}]}]
        /\ todo \in [Procs -> Seq(Operations)]
        /\ listed \in [Procs -> [Dirs -> SUBSET Names]]
        /\ got \in [Procs -> SUBSET [path : Paths, file : File]]
        /\ cut \in [Procs -> Nat]
        /\ result \in [Procs -> {"none", "ok", "reported", "raised"}]
    BY DEF Init, Nothing
  <2>9. QED
    BY <2>2, <2>3, <2>4, <2>6, <2>7, <2>8 DEF TypeOK
<1>2. QED
  BY <1>1, StepsType, PTL DEF Spec

(* The files, what commands hold and what readers have seen keep their      *)
(* types.                                                                   *)
THEOREM ReadersTypeCorrect == Spec => []TypeOK
BY StepsStayOrdered, PTL
-----------------------------------------------------------------------------
(* Who changes what.                                                        *)

LEMMA ScopesAreRoots ==
  ASSUME TypeOK, NEW p \in Procs
  PROVE  cmd[p].scopes \subseteq Roots
<1>1. cmd[p] \in Commands \cup {[name |-> "lint", scopes |-> {}]}
  BY DEF TypeOK
<1>2. \A c \in Commands : c.scopes \subseteq Roots
  BY ReaderCommandsAssumption
<1>3. QED
  BY <1>1, <1>2

(* A reader changes no file, and nothing of another reader.                 *)
LEMMA ReadersKeepApart ==
  ASSUME TypeOK, Ordered, NEW q \in Procs, Reading(q)
  PROVE  /\ UNCHANGED store
         /\ \A p \in Procs \ {q} :
              /\ cmd'[p] = cmd[p] /\ todo'[p] = todo[p] /\ listed'[p] = listed[p] /\ got'[p] = got[p]
              /\ cut'[p] = cut[p] /\ plans'[p] = plans[p] /\ text'[p] = text[p]
              /\ result'[p] = result[p] /\ begun'[p] = begun[p] /\ taken'[p] = taken[p]
<1>. USE DEF TypeOK, working, Continue, Stop
<1>1. ASSUME NEW c \in Commands, Start(q, c)
      PROVE  /\ UNCHANGED store
             /\ \A p \in Procs \ {q} :
                  /\ cmd'[p] = cmd[p] /\ todo'[p] = todo[p] /\ listed'[p] = listed[p] /\ got'[p] = got[p]
                  /\ cut'[p] = cut[p] /\ plans'[p] = plans[p] /\ text'[p] = text[p]
                  /\ result'[p] = result[p] /\ begun'[p] = begun[p] /\ taken'[p] = taken[p]
  BY <1>1 DEF Start, Over
<1>2. CASE ListDirectory(q)
  BY <1>2 DEF ListDirectory
<1>3. CASE ReadNothing(q)
  BY <1>3 DEF ReadNothing
<1>4. CASE ReadNext(q)
  <2>1. \/ Continue(q) \/ UNCHANGED <<todo, result>>
        \/ \E how : Stop(q, how)
    BY <1>4 DEF ReadNext
  <2>2. /\ \A p \in Procs \ {q} : /\ todo'[p] = todo[p] /\ result'[p] = result[p]
    BY <2>1
  <2>3. UNCHANGED <<store, taken, cmd, cut, plans, text, begun>>
    BY <1>4 DEF ReadNext
  <2>4. \A p \in Procs \ {q} : listed'[p] = listed[p] /\ got'[p] = got[p]
    BY <1>4 DEF ReadNext
  <2>5. QED
    BY <2>2, <2>3, <2>4
<1>5. CASE Shrink(q)
  BY <1>5 DEF Shrink
<1>6. CASE MakePlan(q)
  <2>1. PICK x : plans' = [plans EXCEPT ![q][NextStep(q)[2]] = x]
    BY <1>6 DEF MakePlan
  <2>2. \A p \in Procs \ {q} : plans'[p] = plans[p]
    BY <2>1 DEF Over
  <2>3. QED
    BY <1>6, <2>2 DEF MakePlan
<1>7. CASE Publish(q)
  BY <1>7 DEF Publish
<1>8. CASE PrintText(q)
  <2>1. PICK x : text' = [text EXCEPT ![q][NextStep(q)[2]] = x]
    BY <1>8 DEF PrintText
  <2>2. \A p \in Procs \ {q} : text'[p] = text[p]
    BY <2>1 DEF Over
  <2>3. QED
    BY <1>8, <2>2 DEF PrintText
<1>9. QED
  BY <1>1, <1>2, <1>3, <1>4, <1>5, <1>6, <1>7, <1>8 DEF Reading

(* What other commands do leaves readers as they are.                       *)
LEMMA MovesKeepReaders ==
  ASSUME TypeOK, Moving
  PROVE  /\ UNCHANGED <<Unmoved, digest, compiled, runs, cmd, todo, listed, got, cut, plans, text, result, begun>>
         /\ \A p \in Procs : taken[p] \subseteq taken'[p]
<1>1. UNCHANGED Unmoved
  BY DEF Moving, AcceptRead, AcceptWrite, AcceptUnlink, Promote, ArchiveWrite, ArchiveUnlink, Elsewhere
<1>2. \A p \in Procs : taken[p] \subseteq taken'[p]
  BY DEF Moving, AcceptRead, AcceptWrite, AcceptUnlink, Promote, ArchiveWrite, ArchiveUnlink, Elsewhere, Taken
<1>3. QED
  BY <1>1, <1>2 DEF Unmoved, working
-----------------------------------------------------------------------------
(* compile.                                                                 *)

(* A candidate that an accept holds may be written to canon. *)
Screened ==
  \A n \in Names : judged[n] # NoFile =>
    judged[n].record.scope = Home /\ ~ SecretLike(judged[n].record.note)

(* The compile has begun with a file that it cannot read. *)
Spoilt(p) ==
  \E r \in cmd[p].scopes, n \in Names :
    /\ begun[p].files[<<Canon(r), n>>] # NoFile
    /\ LoadForDigest(<<Canon(r), n>>, begun[p].files[<<Canon(r), n>>]) # "ok"

Robbed(p) == \E r \in cmd[p].scopes, n \in Names : <<r, n>> \in taken[p]

(* What a compile will read loads, if it is still there.                    *)
Undisturbed(p) ==
  cmd[p].name = "compile" /\ todo[p] # <<>> =>
    \/ Spoilt(p)
    \/ \A r \in cmd[p].scopes, n \in Names :
         /\ files[<<Canon(r), n>>] # NoFile =>
              LoadForDigest(<<Canon(r), n>>, files[<<Canon(r), n>>]) = "ok"
         /\ n \in listed[p][Canon(r)] => files[<<Canon(r), n>>] # NoFile \/ <<r, n>> \in taken[p]

Failed(p) == cmd[p].name = "compile" /\ result[p] \in {"reported", "raised"}

Compiling ==
  /\ Screened
  /\ \A p \in Procs : Undisturbed(p)
  /\ CompileUndisturbed

LEMMA ExcusesFailures ==
  CompileUndisturbed <=> \A p \in Procs : Failed(p) => Spoilt(p) \/ Robbed(p)
BY DEF CompileUndisturbed, Failed, Spoilt, Robbed

(* What is written to canon loads, and what a prune removes from it has     *)
(* been taken from those that had listed it.                                *)
LEMMA CanonLoads ==
  ASSUME TypeOK, Compiling, Moving, NEW r \in Roots, NEW n \in Names
  PROVE  LET q == <<Canon(r), n>>
         IN  \/ files'[q] = files[q]
             \/ files'[q] # NoFile /\ LoadForDigest(q, files'[q]) = "ok"
             \/ /\ files'[q] = NoFile
                /\ \A p \in Procs : todo[p] # <<>> /\ n \in listed[p][Canon(r)] => <<r, n>> \in taken'[p]
<1>. DEFINE q == <<Canon(r), n>>
            Gone == /\ files'[q] = NoFile
                    /\ \A p \in Procs : todo[p] # <<>> /\ n \in listed[p][Canon(r)] => <<r, n>> \in taken'[p]
<1>2. ASSUME NEW x \in Record, x.status = "accepted", x.scope = r, ~ SecretLike(x.note)
      PROVE  LET f == [form |-> "record", record |-> x]
             IN  f # NoFile /\ LoadForDigest(q, f) = "ok"
  BY <1>2, DirectoriesAre DEF LoadForDigest, Reported, Misplaced, NoFile
<1>3. ASSUME NEW m \in Names, AcceptWrite(m)
      PROVE  \/ files'[q] = files[q]
             \/ files'[q] # NoFile /\ LoadForDigest(q, files'[q]) = "ok"
  <2>1. PICK x : x = Moved(judged[m].record, "accepted")
    OBVIOUS
  <2>2. judged[m].record \in Record /\ judged[m] # NoFile
    BY <1>3 DEF AcceptWrite, TypeOK
  <2>3. /\ x \in Record /\ x.status = "accepted" /\ x.scope = judged[m].record.scope
        /\ x.note = judged[m].record.note
    BY <2>1, <2>2, RecordsAreWritten DEF Moved, Record
  <2>4. judged[m].record.scope = Home /\ ~ SecretLike(judged[m].record.note)
    BY <2>2 DEF Compiling, Screened
  <2>5. files' = [files EXCEPT ![<<Canon(Home), m>>] = [form |-> "record", record |-> x]]
    BY <1>3, <2>1 DEF AcceptWrite, Put
  <2>6. CASE q = <<Canon(Home), m>>
    <3>1. r = Home /\ q \in Paths
      BY <2>6, DirectoriesAre
    <3>2. files'[q] = [form |-> "record", record |-> x]
      BY <2>5, <2>6, <3>1 DEF TypeOK
    <3>3. QED
      BY <1>2, <2>3, <2>4, <3>1, <3>2
  <2>7. CASE q # <<Canon(Home), m>>
    BY <2>5, <2>7, DirectoriesAre DEF TypeOK
  <2>8. QED
    BY <2>6, <2>7
<1>4. ASSUME NEW m \in Names, AcceptRead(m) \/ AcceptUnlink(m)
      PROVE  files'[q] = files[q]
  BY <1>4, DirectoriesAre DEF AcceptRead, AcceptUnlink, Remove, TypeOK
<1>5. ASSUME NEW m \in Names, NEW g \in Names, Promote(m, g)
      PROVE  \/ files'[q] = files[q]
             \/ files'[q] # NoFile /\ LoadForDigest(q, files'[q]) = "ok"
  <2>1. PICK s \in Record : s = files[<<Canon(Home), m>>].record /\ ~ SecretLike(s.note)
    BY <1>5, DirectoriesAre, RecordsAreWritten DEF Promote
  <2>2. PICK y \in Record : y = Moved(s, "accepted")
    BY <2>1, RecordsAreWritten
  <2>3. y.status = "accepted" /\ y.note = s.note
    BY <2>2 DEF Moved, Record
  <2>4. PICK x : x = [y EXCEPT !.id = g, !.scope = Global, !.source = m, !.supersedes = NoId]
    OBVIOUS
  <2>5. /\ x \in Record /\ x.status = "accepted" /\ x.scope = Global /\ ~ SecretLike(x.note)
    BY <2>1, <2>3, <2>4, ReaderNamesAssumption, ReaderScopesAssumption DEF Record, NoId
  <2>6. files' = [files EXCEPT ![<<Canon(Global), g>>] = [form |-> "record", record |-> x]]
    BY <1>5, <2>1, <2>2, <2>4 DEF Promote, Put
  <2>7. CASE q = <<Canon(Global), g>>
    <3>1. r = Global /\ q \in Paths
      BY <2>7, DirectoriesAre
    <3>2. files'[q] = [form |-> "record", record |-> x]
      BY <2>6, <2>7, <3>1 DEF TypeOK
    <3>3. QED
      BY <1>2, <2>5, <3>1, <3>2
  <2>8. CASE q # <<Canon(Global), g>>
    BY <2>6, <2>8, DirectoriesAre DEF TypeOK
  <2>9. QED
    BY <2>7, <2>8
<1>6. ASSUME NEW a \in Roots, NEW m \in Names, ArchiveWrite(a, m)
      PROVE  files'[q] = files[q]
  BY <1>6, DirectoriesAre DEF ArchiveWrite, Put, TypeOK
<1>7. ASSUME NEW a \in Roots, NEW m \in Names, ArchiveUnlink(a, m)
      PROVE  files'[q] = files[q] \/ Gone
  <2>1. files' = [files EXCEPT ![<<Canon(a), m>>] = NoFile] /\ Taken(a, m)
    BY <1>7 DEF ArchiveUnlink, Remove
  <2>2. CASE a = r /\ m = n
    BY <2>1, <2>2, DirectoriesAre DEF Taken, Awaits, TypeOK
  <2>3. CASE a # r \/ m # n
    BY <2>1, <2>3, DirectoriesAre DEF TypeOK
  <2>4. QED
    BY <2>2, <2>3
<1>8. QED
  BY <1>3, <1>4, <1>5, <1>6, <1>7 DEF Moving

LEMMA MovesLeaveCompiles ==
  ASSUME TypeOK, Compiling, Moving
  PROVE  Compiling'
<1>1. /\ UNCHANGED <<cmd, todo, listed, result, begun>>
      /\ \A p \in Procs : taken[p] \subseteq taken'[p]
  BY MovesKeepReaders
<1>2. Screened'
  <2>1. ASSUME NEW n \in Names, AcceptRead(n)
        PROVE  Screened'
    <3>1. /\ files[<<Inbox, n>>].record.scope = Home
          /\ ~ SecretLike(files[<<Inbox, n>>].record.note)
      BY <2>1, DirectoriesAre DEF AcceptRead, IsRecord, Misplaced
    <3>2. judged' = [judged EXCEPT ![n] = files[<<Inbox, n>>]]
      BY <2>1 DEF AcceptRead
    <3>3. QED
      BY <3>1, <3>2 DEF Compiling, Screened, TypeOK
  <2>2. ASSUME NEW n \in Names, AcceptWrite(n)
        PROVE  Screened'
    BY <2>2 DEF AcceptWrite, Compiling, Screened, TypeOK
  <2>3. CASE UNCHANGED judged
    BY <2>3 DEF Compiling, Screened
  <2>4. QED
    BY <2>1, <2>2, <2>3 DEF Moving, AcceptUnlink, Promote, ArchiveWrite, ArchiveUnlink
<1>3. ASSUME NEW p \in Procs
      PROVE  /\ Spoilt(p)' <=> Spoilt(p)
             /\ Robbed(p) => Robbed(p)'
             /\ Failed(p)' <=> Failed(p)
  BY <1>1 DEF Spoilt, Robbed, Failed
<1>4. ASSUME NEW p \in Procs
      PROVE  Undisturbed(p)'
  <2>. SUFFICES ASSUME cmd[p].name = "compile", todo[p] # <<>>, ~ Spoilt(p)
                PROVE  Undisturbed(p)'
    BY <1>1, <1>3 DEF Undisturbed
  <2>1. ASSUME NEW r \in cmd[p].scopes, NEW n \in Names
        PROVE  /\ files'[<<Canon(r), n>>] # NoFile =>
                    LoadForDigest(<<Canon(r), n>>, files'[<<Canon(r), n>>]) = "ok"
               /\ n \in listed[p][Canon(r)] => files'[<<Canon(r), n>>] # NoFile \/ <<r, n>> \in taken'[p]
    <3>1. r \in Roots
      BY ScopesAreRoots
    <3>2. /\ files[<<Canon(r), n>>] # NoFile =>
               LoadForDigest(<<Canon(r), n>>, files[<<Canon(r), n>>]) = "ok"
          /\ n \in listed[p][Canon(r)] => files[<<Canon(r), n>>] # NoFile \/ <<r, n>> \in taken[p]
      BY DEF Compiling, Undisturbed
    <3>3. \/ files'[<<Canon(r), n>>] = files[<<Canon(r), n>>]
          \/ /\ files'[<<Canon(r), n>>] # NoFile
             /\ LoadForDigest(<<Canon(r), n>>, files'[<<Canon(r), n>>]) = "ok"
          \/ /\ files'[<<Canon(r), n>>] = NoFile
             /\ n \in listed[p][Canon(r)] => <<r, n>> \in taken'[p]
      BY <3>1, CanonLoads
    <3>4. QED
      BY <1>1, <3>2, <3>3
  <2>2. QED
    BY <1>1, <2>1 DEF Undisturbed
<1>5. CompileUndisturbed'
  <2>1. (\A p \in Procs : Failed(p) => Spoilt(p) \/ Robbed(p))'
    BY <1>3, ExcusesFailures DEF Compiling
  <2>2. QED
    BY <2>1 DEF CompileUndisturbed, Failed, Spoilt, Robbed
<1>6. QED
  BY <1>2, <1>4, <1>5 DEF Compiling

(* The other readers have the files and their own state as before.          *)
LEMMA OthersAreLeft ==
  ASSUME TypeOK, Ordered, Compiling, NEW q \in Procs, Reading(q)
  PROVE  /\ Screened'
         /\ \A p \in Procs \ {q} :
              Undisturbed(p)' /\ (Failed(p)' => Spoilt(p)' \/ Robbed(p)')
<1>1. files' = files /\ judged' = judged
  BY ReadersKeepApart DEF store
<1>2. ASSUME NEW p \in Procs \ {q}
      PROVE  Undisturbed(p)' /\ (Failed(p)' => Spoilt(p)' \/ Robbed(p)')
  <2>1. /\ cmd'[p] = cmd[p] /\ todo'[p] = todo[p] /\ listed'[p] = listed[p]
        /\ result'[p] = result[p] /\ begun'[p] = begun[p] /\ taken'[p] = taken[p]
    BY ReadersKeepApart
  <2>2. (Spoilt(p)' <=> Spoilt(p)) /\ (Robbed(p)' <=> Robbed(p)) /\ (Failed(p)' <=> Failed(p))
    BY <2>1 DEF Spoilt, Robbed, Failed
  <2>3. Undisturbed(p)
    BY DEF Compiling
  <2>4. Undisturbed(p)'
    BY <1>1, <2>1, <2>2, <2>3 DEF Undisturbed
  <2>5. QED
    BY <2>2, <2>4, ExcusesFailures DEF Compiling
<1>3. QED
  BY <1>1, <1>2 DEF Compiling, Screened

(* The reader that takes the step.                                          *)
LEMMA StartsUndisturbed ==
  ASSUME TypeOK, Ordered, NEW p \in Procs, NEW c \in Commands, Start(p, c)
  PROVE  Undisturbed(p)' /\ result'[p] = "none"
<1>1. result'[p] = "none" /\ cmd'[p] = c /\ files' = files
  BY DEF Start, TypeOK, store
<1>2. listed'[p] = [d \in Dirs |-> {}]
  BY DEF Start, TypeOK
<1>3. begun'[p].files = files
  BY DEF Start, TypeOK
<1>4. c.scopes \subseteq Roots
  BY ReaderCommandsAssumption
<1>5. \A r \in c.scopes, n \in Names : n \notin listed'[p][Canon(r)]
  BY <1>2, <1>4, DirectoriesAre
<1>6. Spoilt(p)' <=>
        \E r \in c.scopes, n \in Names :
          /\ files[<<Canon(r), n>>] # NoFile
          /\ LoadForDigest(<<Canon(r), n>>, files[<<Canon(r), n>>]) # "ok"
  BY <1>1, <1>3 DEF Spoilt
<1>7. Undisturbed(p)'
  BY <1>1, <1>5, <1>6 DEF Undisturbed
<1>8. QED
  BY <1>1, <1>7

LEMMA StepsUndisturbed ==
  ASSUME TypeOK, Ordered, Compiling, NEW p \in Procs,
         \/ ListDirectory(p) \/ ReadNothing(p) \/ ReadNext(p)
         \/ Shrink(p) \/ MakePlan(p) \/ Publish(p) \/ PrintText(p),
         cmd[p].name = "compile"
  PROVE  Undisturbed(p)' /\ (Failed(p)' => Spoilt(p)' \/ Robbed(p)')
<1>1. todo[p] # <<>>
  BY DEF ListDirectory, ReadNothing, ReadNext, Shrink, MakePlan, Publish, PrintText, At
<1>2. /\ files' = files /\ cmd' = cmd /\ taken' = taken
  BY DEF ListDirectory, ReadNothing, ReadNext, Shrink, MakePlan, Publish, PrintText, store
<1>3. begun'[p].files = begun[p].files
  <2>1. ASSUME ListDirectory(p)
        PROVE  \E x : begun' = [begun EXCEPT ![p].noted = x]
    BY <2>1 DEF ListDirectory
  <2>2. ASSUME PrintText(p)
        PROVE  \E x : begun' = [begun EXCEPT ![p].current = x]
    BY <2>2 DEF PrintText
  <2>3. ASSUME ReadNothing(p) \/ ReadNext(p) \/ Shrink(p) \/ MakePlan(p) \/ Publish(p)
        PROVE  begun' = begun
    BY <2>3 DEF ReadNothing, ReadNext, Shrink, MakePlan, Publish, working
  <2>4. QED
    BY <2>1, <2>2, <2>3 DEF TypeOK
<1>4. (Spoilt(p)' <=> Spoilt(p)) /\ (Robbed(p)' <=> Robbed(p))
  BY <1>2, <1>3 DEF Spoilt, Robbed
<1>5. CASE Spoilt(p)
  BY <1>4, <1>5 DEF Undisturbed
<1>6. CASE ~ Spoilt(p)
  <2>1. /\ result[p] \in {"reported", "raised"} => Robbed(p)
        /\ \A r \in cmd[p].scopes, n \in Names :
             /\ files[<<Canon(r), n>>] # NoFile =>
                  LoadForDigest(<<Canon(r), n>>, files[<<Canon(r), n>>]) = "ok"
             /\ n \in listed[p][Canon(r)] => files[<<Canon(r), n>>] # NoFile \/ <<r, n>> \in taken[p]
    BY <1>1, <1>6, ExcusesFailures DEF Compiling, Undisturbed, Failed
  <2>2. PICK r \in cmd[p].scopes : Touches(NextStep(p), r)
    BY <1>1, NextStepIs DEF Ordered, Orderly, Planners
  <2>3. r \in Roots /\ cmd[p].scopes \subseteq Roots
    BY ScopesAreRoots
  <2>4. NextStep(p)[1] \in {"list", "read"} => NextStep(p)[2] = Canon(r)
    BY <2>2 DEF Touches
  <2>5. /\ Robbed(p) \/ Continue(p) \/ UNCHANGED <<todo, result>>
        /\ \A s \in cmd[p].scopes, n \in Names :
             n \in listed'[p][Canon(s)] => files[<<Canon(s), n>>] # NoFile \/ <<s, n>> \in taken[p]
    <3>1. CASE ListDirectory(p)
      <4>1. listed' = [listed EXCEPT ![p][Canon(r)] = {n \in Names : files[<<Canon(r), n>>] # NoFile}]
        BY <2>4, <3>1 DEF ListDirectory, At
      <4>2. \A s \in Roots : s # r => listed'[p][Canon(s)] = listed[p][Canon(s)]
        BY <2>3, <4>1, DirectoriesAre DEF TypeOK
      <4>3. listed'[p][Canon(r)] = {n \in Names : files[<<Canon(r), n>>] # NoFile}
        BY <2>3, <4>1, DirectoriesAre DEF TypeOK
      <4>4. Continue(p)
        BY <3>1 DEF ListDirectory
      <4>5. QED
        BY <2>1, <2>3, <4>2, <4>3, <4>4
    <3>2. CASE ReadNext(p)
      <4>1. PICK q : q = <<Canon(r), Min(listed[p][Canon(r)])>>
        OBVIOUS
      <4>2. listed[p][Canon(r)] \in SUBSET Names /\ listed[p][Canon(r)] # {}
        BY <2>3, <2>4, <3>2, DirectoriesAre DEF ReadNext, At, TypeOK
      <4>3. q[2] \in listed[p][Canon(r)] /\ q = <<Canon(r), q[2]>> /\ q[2] \in Names
        BY <4>1, <4>2, SmallestName
      <4>4. listed' = [listed EXCEPT ![p][Canon(r)] = @ \ {q[2]}]
        BY <2>4, <3>2, <4>1 DEF ReadNext, At
      <4>5. \A s \in Roots : listed'[p][Canon(s)] \subseteq listed[p][Canon(s)]
        BY <4>4, DirectoriesAre DEF TypeOK
      <4>6. CASE files[q] # NoFile
        <5>1. LoadForDigest(q, files[q]) = "ok"
          BY <2>1, <4>3, <4>6
        <5>2. Load(cmd[p].name, q, ReadFile(q)) = "ok"
          BY <4>6, <5>1 DEF Load, ReadFile
        <5>3. Continue(p) \/ UNCHANGED <<todo, result>>
          BY <2>4, <3>2, <4>1, <5>2 DEF ReadNext, At
        <5>4. QED
          BY <2>1, <2>3, <4>5, <5>3
      <4>7. CASE files[q] = NoFile
        <5>1. <<r, q[2]>> \in taken[p]
          BY <2>1, <4>3, <4>7
        <5>2. Robbed(p)
          BY <4>3, <5>1 DEF Robbed
        <5>3. QED
          BY <2>1, <2>3, <4>5, <5>2
      <4>8. QED
        BY <4>6, <4>7
    <3>3. CASE ReadNothing(p) \/ Shrink(p) \/ MakePlan(p) \/ Publish(p) \/ PrintText(p)
      <4>1. listed' = listed
        BY <3>3 DEF ReadNothing, Shrink, MakePlan, Publish, PrintText, working
      <4>2. Continue(p) \/ UNCHANGED <<todo, result>>
        BY <3>3 DEF ReadNothing, Shrink, MakePlan, Publish, PrintText
      <4>3. QED
        BY <2>1, <4>1, <4>2
    <3>4. QED
      BY <3>1, <3>2, <3>3
  <2>6. Undisturbed(p)'
    BY <1>2, <2>1, <2>5 DEF Undisturbed
  <2>7. result'[p] \in {"reported", "raised"} => Robbed(p)
    <3>1. Continue(p) => result'[p] \in {"ok", result[p]}
      BY DEF Continue, TypeOK
    <3>2. QED
      BY <2>1, <2>5, <3>1
  <2>8. QED
    BY <1>4, <2>6, <2>7 DEF Failed
<1>7. QED
  BY <1>5, <1>6

LEMMA ReadingLeavesCompiles ==
  ASSUME TypeOK, Ordered, Compiling, NEW p \in Procs, Reading(p)
  PROVE  Compiling'
<1>1. /\ Screened'
      /\ \A q \in Procs \ {p} :
           Undisturbed(q)' /\ (Failed(q)' => Spoilt(q)' \/ Robbed(q)')
  BY OthersAreLeft
<1>2. Undisturbed(p)' /\ (Failed(p)' => Spoilt(p)' \/ Robbed(p)')
  <2>1. ASSUME NEW c \in Commands, Start(p, c)
        PROVE  Undisturbed(p)' /\ (Failed(p)' => Spoilt(p)' \/ Robbed(p)')
    BY <2>1, StartsUndisturbed DEF Failed
  <2>2. CASE \/ ListDirectory(p) \/ ReadNothing(p) \/ ReadNext(p)
             \/ Shrink(p) \/ MakePlan(p) \/ Publish(p) \/ PrintText(p)
    <3>1. cmd' = cmd
      BY <2>2 DEF ListDirectory, ReadNothing, ReadNext, Shrink, MakePlan, Publish, PrintText
    <3>2. CASE cmd[p].name = "compile"
      BY <2>2, <3>2, StepsUndisturbed
    <3>3. CASE cmd[p].name # "compile"
      BY <3>1, <3>3 DEF Undisturbed, Failed
    <3>4. QED
      BY <3>2, <3>3
  <2>3. QED
    BY <2>1, <2>2 DEF Reading
<1>3. CompileUndisturbed'
  <2>1. (\A q \in Procs : Failed(q) => Spoilt(q) \/ Robbed(q))'
    BY <1>1, <1>2
  <2>2. QED
    BY <2>1 DEF CompileUndisturbed, Failed, Spoilt, Robbed
<1>4. QED
  BY <1>1, <1>2, <1>3 DEF Compiling

(* A compile that starts on files it can read fails only when a prune takes *)
(* one from canon after the compile has listed it: whatever other commands  *)
(* write to canon meanwhile has been looked through.                        *)
THEOREM CompilesAreUndisturbed == Spec => []CompileUndisturbed
<1>1. Init => Compiling
  BY DEF Init, Nothing, Compiling, Screened, Undisturbed, CompileUndisturbed
<1>2. TypeOK /\ Ordered /\ Compiling /\ [Next]_vars => Compiling'
  <2>. SUFFICES ASSUME TypeOK, Ordered, Compiling, [Next]_vars
                PROVE  Compiling'
    OBVIOUS
  <2>1. CASE UNCHANGED vars
    BY <2>1 DEF vars, store, working, Compiling, Screened, Undisturbed, Spoilt, CompileUndisturbed
  <2>2. QED
    BY <2>1, MovesLeaveCompiles, ReadingLeavesCompiles DEF Next
<1>3. Compiling => CompileUndisturbed
  BY DEF Compiling
<1>4. QED
  BY <1>1, <1>2, <1>3, StepsStayOrdered, PTL DEF Spec
-----------------------------------------------------------------------------
(* Inventories: lint, doctor and status.                                    *)

(* What is unlinked has been written to where it goes, and stays there or   *)
(* goes on.                                                                 *)
Written ==
  /\ \A n \in accepted : \E d \in After(Inbox) : files[<<d, n>>] # NoFile
  /\ \A m \in archiving : files[<<Archive(m[1]), m[2]>>] # NoFile

StillAhead(p, m) ==
  \E d \in Dirs : /\ d[1] = m[1] /\ files[<<d, m[2]>>] # NoFile
                  /\ <<"list", d>> \in Left(todo[p])

(* A memory that is not seen so far is in a directory still to be listed.   *)
Followed(p) ==
  /\ result[p] = "ok" => todo[p] = <<>>
  /\ cmd[p].name \in Inventories /\ (todo[p] # <<>> \/ result[p] = "ok") =>
       \A m \in begun[p].stored \ begun[p].noted : StillAhead(p, m)

Following == Written /\ \A p \in Procs : Followed(p)

LEMMA AfterIs ==
  /\ After(Inbox) = {Canon(Home), Archive(Home)}
  /\ \A r \in Roots : After(Canon(r)) = {Archive(r)} /\ After(Archive(r)) = {}
  /\ \A d \in Dirs : \A e \in After(d) : e \in Dirs /\ e[1] = d[1]
<1>1. /\ After(Inbox) = {Canon(Home), Archive(Home)}
      /\ \A r \in Roots : After(Canon(r)) = {Archive(r)} /\ After(Archive(r)) = {}
  BY DEF After, Inbox, Canon, Archive
<1>2. QED
  BY <1>1, DirectoriesAre

LEMMA DirectoriesAhead ==
  ASSUME TypeOK, Ordered, NEW p \in Procs, cmd[p].name \in Inventories,
         NEW d \in Dirs, <<"list", d>> \in Left(todo[p]), NEW e \in After(d)
  PROVE  <<"list", e>> \in Left(todo[p])
<1>1. PICK k \in 1 .. Len(todo[p]) : todo[p][k] = <<"list", d>>
  BY DEF Left
<1>2. Pursues(todo[p][k], Later(todo[p], k))
  BY DEF Ordered, Orderly
<1>3. <<"list", e>> \in Later(todo[p], k)
  BY <1>1, <1>2 DEF Pursues
<1>4. todo[p] \in Seq(Operations)
  BY DEF TypeOK
<1>5. \A l \in (k + 1) .. Len(todo[p]) : l \in 1 .. Len(todo[p])
  BY <1>4
<1>6. QED
  BY <1>3, <1>5 DEF Left, Later

(* A file that is removed is somewhere after it.                            *)
LEMMA FilesGoOn ==
  ASSUME TypeOK, Written, Moving
  PROVE  /\ Written'
         /\ \A d \in Dirs, n \in Names : files[<<d, n>>] # NoFile =>
              \E e \in {d} \cup After(d) : files'[<<e, n>>] # NoFile
<1>. DEFINE Kept == \A q \in Paths : files[q] # NoFile => files'[q] # NoFile
            Gone == \A d \in Dirs, n \in Names : files[<<d, n>>] # NoFile =>
                      \E e \in {d} \cup After(d) : files'[<<e, n>>] # NoFile
<1>1. Kept => Gone
  BY DirectoriesAre
<1>2. ASSUME Kept, accepted' \subseteq accepted, archiving' \subseteq archiving
      PROVE  Written'
  <2>1. \A n \in accepted' : \E d \in After(Inbox) : files'[<<d, n>>] # NoFile
    BY <1>2, AfterIs, DirectoriesAre DEF Written, TypeOK
  <2>2. ASSUME NEW m \in archiving'
        PROVE  files'[<<Archive(m[1]), m[2]>>] # NoFile
    <3>1. <<Archive(m[1]), m[2]>> \in Paths
      BY <1>2, DirectoriesAre DEF TypeOK, Memories
    <3>2. QED
      BY <1>2, <3>1 DEF Written
  <2>3. QED
    BY <2>1, <2>2 DEF Written
<1>3. ASSUME NEW n \in Names, AcceptRead(n)
      PROVE  Written' /\ Gone
  BY <1>1, <1>2, <1>3 DEF AcceptRead
<1>4. ASSUME NEW n \in Names, AcceptWrite(n)
      PROVE  Written' /\ Gone
  <2>1. PICK x : files' = [files EXCEPT ![<<Canon(Home), n>>] = [form |-> "record", record |-> x]]
    BY <1>4 DEF AcceptWrite, Put
  <2>2. [form |-> "record", record |-> x] # NoFile
    BY DEF NoFile
  <2>3. Kept /\ files'[<<Canon(Home), n>>] # NoFile
    BY <2>1, <2>2, DirectoriesAre DEF TypeOK
  <2>4. accepted' = accepted \cup {n} /\ archiving' = archiving
    BY <1>4 DEF AcceptWrite
  <2>5. \A m \in accepted : \E d \in After(Inbox) : files'[<<d, m>>] # NoFile
    BY <2>3, AfterIs, DirectoriesAre DEF Written, TypeOK
  <2>6. \A m \in accepted' : \E d \in After(Inbox) : files'[<<d, m>>] # NoFile
    BY <2>3, <2>4, <2>5, AfterIs
  <2>7. \A m \in archiving : <<Archive(m[1]), m[2]>> \in Paths
    BY DirectoriesAre DEF TypeOK, Memories
  <2>8. \A m \in archiving' : files'[<<Archive(m[1]), m[2]>>] # NoFile
    BY <2>3, <2>4, <2>7 DEF Written
  <2>9. QED
    BY <1>1, <2>3, <2>6, <2>8 DEF Written
<1>5. ASSUME NEW n \in Names, AcceptUnlink(n)
      PROVE  Written' /\ Gone
  <2>1. /\ files' = [files EXCEPT ![<<Inbox, n>>] = NoFile]
        /\ n \in accepted /\ accepted' = accepted \ {n} /\ archiving' = archiving
    BY <1>5 DEF AcceptUnlink, Remove
  <2>2. \A q \in Paths : q # <<Inbox, n>> => files'[q] = files[q]
    BY <2>1 DEF TypeOK
  <2>3. \A d \in Dirs, m \in Names : d # Inbox => files'[<<d, m>>] = files[<<d, m>>]
    BY <2>2, DirectoriesAre
  <2>4. \A d \in After(Inbox) : d \in Dirs /\ d # Inbox
    BY AfterIs, DirectoriesAre
  <2>5. \A m \in accepted : \E d \in After(Inbox) : files'[<<d, m>>] # NoFile
    BY <2>3, <2>4 DEF Written, TypeOK
  <2>6. \A m \in archiving : m[2] \in Names /\ Archive(m[1]) \in Dirs /\ Archive(m[1]) # Inbox
    BY DirectoriesAre DEF TypeOK, Memories
  <2>7. \A m \in archiving' : files'[<<Archive(m[1]), m[2]>>] # NoFile
    BY <2>1, <2>3, <2>6 DEF Written
  <2>8. Written'
    BY <2>1, <2>5, <2>7 DEF Written
  <2>9. Gone
    <3>1. ASSUME NEW d \in Dirs, NEW m \in Names, files[<<d, m>>] # NoFile
          PROVE  \E e \in {d} \cup After(d) : files'[<<e, m>>] # NoFile
      <4>1. CASE d = Inbox /\ m = n
        BY <2>1, <2>5, <4>1
      <4>2. CASE d # Inbox \/ m # n
        BY <2>2, <3>1, <4>2, DirectoriesAre
      <4>3. QED
        BY <4>1, <4>2
    <3>2. QED
      BY <3>1
  <2>10. QED
    BY <2>8, <2>9
<1>6. ASSUME NEW m \in Names, NEW n \in Names, Promote(m, n)
      PROVE  Written' /\ Gone
  <2>1. PICK x : files' = [files EXCEPT ![<<Canon(Global), n>>] = [form |-> "record", record |-> x]]
    BY <1>6 DEF Promote, Put
  <2>2. [form |-> "record", record |-> x] # NoFile
    BY DEF NoFile
  <2>3. Kept
    BY <2>1, <2>2, DirectoriesAre DEF TypeOK
  <2>4. QED
    BY <1>1, <1>2, <1>6, <2>3 DEF Promote
<1>8. ASSUME NEW r \in Roots, NEW n \in Names, ArchiveWrite(r, n)
      PROVE  Written' /\ Gone
  <2>1. PICK x : files' = [files EXCEPT ![<<Archive(r), n>>] = [form |-> "record", record |-> x]]
    BY <1>8 DEF ArchiveWrite, Put
  <2>2. [form |-> "record", record |-> x] # NoFile
    BY DEF NoFile
  <2>3. Kept /\ files'[<<Archive(r), n>>] # NoFile
    BY <2>1, <2>2, DirectoriesAre DEF TypeOK
  <2>4. accepted' = accepted /\ archiving' = archiving \cup {<<r, n>>}
    BY <1>8 DEF ArchiveWrite
  <2>5. \A m \in accepted' : \E d \in After(Inbox) : files'[<<d, m>>] # NoFile
    BY <2>3, <2>4, AfterIs, DirectoriesAre DEF Written, TypeOK
  <2>6. \A m \in archiving : <<Archive(m[1]), m[2]>> \in Paths
    BY DirectoriesAre DEF TypeOK, Memories
  <2>7. \A m \in archiving' : files'[<<Archive(m[1]), m[2]>>] # NoFile
    BY <2>3, <2>4, <2>6 DEF Written
  <2>8. Written'
    BY <2>5, <2>7 DEF Written
  <2>9. QED
    BY <1>1, <2>3, <2>8
<1>9. ASSUME NEW r \in Roots, NEW n \in Names, ArchiveUnlink(r, n)
      PROVE  Written' /\ Gone
  <2>1. /\ files' = [files EXCEPT ![<<Canon(r), n>>] = NoFile]
        /\ <<r, n>> \in archiving /\ accepted' = accepted /\ archiving' \subseteq archiving
    BY <1>9 DEF ArchiveUnlink, Remove
  <2>2. \A q \in Paths : q # <<Canon(r), n>> => files'[q] = files[q]
    BY <2>1 DEF TypeOK
  <2>3. files[<<Archive(r), n>>] # NoFile
    BY <2>1 DEF Written
  <2>4. files'[<<Archive(r), n>>] # NoFile
    BY <2>2, <2>3, DirectoriesAre
  <2>5. Gone
    <3>1. ASSUME NEW d \in Dirs, NEW m \in Names, files[<<d, m>>] # NoFile
          PROVE  \E e \in {d} \cup After(d) : files'[<<e, m>>] # NoFile
      <4>1. CASE d = Canon(r) /\ m = n
        BY <2>4, <4>1, AfterIs
      <4>2. CASE d # Canon(r) \/ m # n
        BY <2>2, <3>1, <4>2, DirectoriesAre
      <4>3. QED
        BY <4>1, <4>2
    <3>2. QED
      BY <3>1
  <2>6. ASSUME NEW m \in accepted
        PROVE  \E d \in After(Inbox) : files'[<<d, m>>] # NoFile
    <3>1. PICK d \in After(Inbox) : files[<<d, m>>] # NoFile
      BY DEF Written
    <3>2. m \in Names /\ d \in Dirs
      BY <3>1, AfterIs, DirectoriesAre DEF TypeOK
    <3>3. PICK e \in {d} \cup After(d) : files'[<<e, m>>] # NoFile
      BY <2>5, <3>1, <3>2
    <3>4. e \in After(Inbox)
      BY <3>1, <3>3, AfterIs, DirectoriesAre
    <3>5. QED
      BY <3>3, <3>4
  <2>7. \A m \in archiving : Archive(m[1]) # Canon(r) /\ <<Archive(m[1]), m[2]>> \in Paths
    BY DirectoriesAre DEF TypeOK, Memories
  <2>8. \A m \in archiving' : files'[<<Archive(m[1]), m[2]>>] # NoFile
    BY <2>1, <2>2, <2>7 DEF Written
  <2>9. Written'
    BY <2>1, <2>6, <2>8 DEF Written
  <2>10. QED
    BY <2>5, <2>9
<1>10. QED
  BY <1>3, <1>4, <1>5, <1>6, <1>8, <1>9 DEF Moving

LEMMA MovesAreFollowed ==
  ASSUME TypeOK, Ordered, Following, Moving
  PROVE  Following'
<1>1. /\ Written'
      /\ \A d \in Dirs, n \in Names : files[<<d, n>>] # NoFile =>
           \E e \in {d} \cup After(d) : files'[<<e, n>>] # NoFile
  BY FilesGoOn DEF Following
<1>2. UNCHANGED <<cmd, todo, result, begun>>
  BY MovesKeepReaders
<1>3. ASSUME NEW p \in Procs
      PROVE  Followed(p)'
  <2>. SUFFICES ASSUME cmd[p].name \in Inventories, todo[p] # <<>> \/ result[p] = "ok",
                       NEW m \in begun[p].stored \ begun[p].noted
                PROVE  StillAhead(p, m)'
    BY <1>2 DEF Following, Followed
  <2>1. PICK d \in Dirs : d[1] = m[1] /\ files[<<d, m[2]>>] # NoFile /\ <<"list", d>> \in Left(todo[p])
    BY DEF Following, Followed, StillAhead
  <2>2. m[2] \in Names
    BY DEF TypeOK, Memories
  <2>3. PICK e \in {d} \cup After(d) : files'[<<e, m[2]>>] # NoFile
    BY <1>1, <2>1, <2>2
  <2>4. e \in Dirs /\ e[1] = m[1]
    BY <2>1, <2>3, AfterIs
  <2>5. <<"list", e>> \in Left(todo[p])
    BY <2>1, <2>3, DirectoriesAhead
  <2>6. QED
    BY <1>2, <2>3, <2>4, <2>5 DEF StillAhead
<1>4. QED
  BY <1>1, <1>3 DEF Following

LEMMA StartsFollow ==
  ASSUME TypeOK, Ordered, NEW p \in Procs, NEW c \in Commands, Start(p, c)
  PROVE  Followed(p)'
<1>1. files' = files /\ todo'[p] = Steps(c) /\ result'[p] = "none"
  BY DEF Start, TypeOK, store
<1>2. begun'[p].stored = Stored(DirsOf(c))
  BY DEF Start, TypeOK
<1>3. Steps(c) \in Seq(Operations)
  BY StepsAreOrderly
<1>4. ASSUME NEW m \in Stored(DirsOf(c))
      PROVE  StillAhead(p, m)'
  <2>1. PICK q \in Paths : q[1] \in DirsOf(c) /\ files[q] # NoFile /\ m = <<q[1][1], q[2]>>
    BY DEF Stored
  <2>2. PICK k \in 1 .. Len(Steps(c)) : Steps(c)[k][1] = "list" /\ q[1] = Steps(c)[k][2]
    BY <1>3, <2>1 DEF DirsOf
  <2>3. Steps(c)[k] = <<"list", q[1]>>
    <3>1. Steps(c)[k] \in Operations
      BY <1>3, <2>2
    <3>2. \A op \in Operations : op = <<op[1], op[2]>>
      BY DEF Operations
    <3>3. QED
      BY <2>2, <3>1, <3>2
  <2>4. <<"list", q[1]>> \in Left(Steps(c))
    BY <2>2, <2>3 DEF Left
  <2>5. q = <<q[1], q[2]>> /\ q[1] \in Dirs
    BY <2>1, DirectoriesAre
  <2>6. QED
    BY <1>1, <2>1, <2>4, <2>5 DEF StillAhead
<1>5. QED
  BY <1>1, <1>2, <1>4 DEF Followed

LEMMA StepsFollow ==
  ASSUME TypeOK, Ordered, Following, NEW p \in Procs,
         \/ ListDirectory(p) \/ ReadNothing(p) \/ ReadNext(p)
         \/ Shrink(p) \/ MakePlan(p) \/ Publish(p) \/ PrintText(p)
  PROVE  Followed(p)'
<1>1. todo[p] # <<>>
  BY DEF ListDirectory, ReadNothing, ReadNext, Shrink, MakePlan, Publish, PrintText, At
<1>2. files' = files /\ cmd' = cmd
  BY DEF ListDirectory, ReadNothing, ReadNext, Shrink, MakePlan, Publish, PrintText, store
<1>3. \/ Continue(p) \/ UNCHANGED <<todo, result>> \/ \E how : how # "ok" /\ Stop(p, how)
  BY DEF ListDirectory, ReadNothing, ReadNext, Shrink, MakePlan, Publish, PrintText
<1>4. ASSUME NEW how, how # "ok", Stop(p, how)
      PROVE  Followed(p)'
  BY <1>4 DEF Stop, Followed, TypeOK
<1>5. ASSUME cmd[p].name \in Inventories, Continue(p) \/ UNCHANGED todo,
             NEW m \in begun'[p].stored \ begun'[p].noted
      PROVE  StillAhead(p, m)'
  <2>1. /\ begun'[p].stored = begun[p].stored /\ begun[p].noted \subseteq begun'[p].noted
        /\ NextStep(p)[1] = "list" =>
             \A n \in Names : files[<<NextStep(p)[2], n>>] # NoFile =>
               <<NextStep(p)[2][1], n>> \in begun'[p].noted
    <3>1. CASE ListDirectory(p)
      <4>1. PICK d \in Dirs : d = NextStep(p)[2]
        BY <1>1, <3>1, NextStepIs DEF ListDirectory, At
      <4>2. PICK N : N = {<<d[1], n>> : n \in {x \in Names : files[<<d, x>>] # NoFile}}
        OBVIOUS
      <4>3. begun' = [begun EXCEPT ![p].noted = @ \cup N]
        BY <3>1, <4>1, <4>2 DEF ListDirectory
      <4>4. begun'[p].stored = begun[p].stored /\ begun'[p].noted = begun[p].noted \cup N
        BY <4>3 DEF TypeOK
      <4>5. QED
        BY <4>1, <4>2, <4>4
    <3>2. CASE PrintText(p)
      <4>1. PICK x : begun' = [begun EXCEPT ![p].current = x]
        BY <3>2 DEF PrintText
      <4>2. NextStep(p)[1] # "list"
        BY <3>2 DEF PrintText, At
      <4>3. QED
        BY <4>1, <4>2 DEF TypeOK
    <3>3. CASE ReadNothing(p) \/ ReadNext(p) \/ Shrink(p) \/ MakePlan(p) \/ Publish(p)
      <4>1. begun' = begun
        BY <3>3 DEF ReadNothing, ReadNext, Shrink, MakePlan, Publish, working
      <4>2. NextStep(p)[1] # "list"
        BY <3>3 DEF ReadNothing, ReadNext, Shrink, MakePlan, Publish, At
      <4>3. QED
        BY <4>1, <4>2
    <3>4. QED
      BY <3>1, <3>2, <3>3
  <2>2. PICK d \in Dirs : d[1] = m[1] /\ files[<<d, m[2]>>] # NoFile /\ <<"list", d>> \in Left(todo[p])
    BY <1>1, <1>5, <2>1 DEF Following, Followed, StillAhead
  <2>3. m \in Memories
    BY <1>5, <2>1 DEF TypeOK
  <2>4. m = <<m[1], m[2]>> /\ m[2] \in Names
    BY <2>3 DEF Memories
  <2>5. NextStep(p) # <<"list", d>>
    BY <1>5, <2>1, <2>2, <2>4
  <2>6. <<"list", d>> \in Left(todo'[p])
    <3>1. CASE Continue(p)
      BY <1>1, <2>2, <2>5, <3>1, NextStepIs DEF Continue, TypeOK
    <3>2. CASE UNCHANGED todo
      BY <2>2, <3>2
    <3>3. QED
      BY <1>5, <3>1, <3>2
  <2>7. QED
    BY <1>2, <2>2, <2>6 DEF StillAhead
<1>6. ASSUME Continue(p) \/ UNCHANGED <<todo, result>>
      PROVE  result'[p] = "ok" => todo'[p] = <<>>
  <2>1. result[p] # "ok"
    BY <1>1 DEF Following, Followed
  <2>2. Len(todo[p]) = 1 => Tail(todo[p]) = <<>>
    BY <1>1, NextStepIs
  <2>3. QED
    BY <1>6, <2>1, <2>2 DEF Continue, TypeOK
<1>7. QED
  BY <1>2, <1>3, <1>4, <1>5, <1>6 DEF Followed

LEMMA ReadingFollows ==
  ASSUME TypeOK, Ordered, Following, NEW p \in Procs, Reading(p)
  PROVE  Following'
<1>1. files' = files /\ accepted' = accepted /\ archiving' = archiving
  BY ReadersKeepApart DEF store
<1>2. Written'
  BY <1>1 DEF Following, Written
<1>3. ASSUME NEW q \in Procs \ {p}
      PROVE  Followed(q)'
  <2>1. /\ cmd'[q] = cmd[q] /\ todo'[q] = todo[q] /\ result'[q] = result[q] /\ begun'[q] = begun[q]
    BY ReadersKeepApart
  <2>2. QED
    BY <1>1, <2>1 DEF Following, Followed, StillAhead
<1>4. Followed(p)'
  BY StartsFollow, StepsFollow DEF Reading
<1>5. QED
  BY <1>2, <1>3, <1>4 DEF Following

LEMMA SeenStays == Spec => []Following
<1>1. Init => Following
  BY DEF Init, Nothing, Following, Written, Followed
<1>2. TypeOK /\ Ordered /\ Following /\ [Next]_vars => Following'
  <2>. SUFFICES ASSUME TypeOK, Ordered, Following, [Next]_vars
                PROVE  Following'
    OBVIOUS
  <2>1. CASE UNCHANGED vars
    BY <2>1 DEF vars, store, working, Following, Written, Followed, StillAhead
  <2>2. QED
    BY <2>1, MovesAreFollowed, ReadingFollows DEF Next
<1>3. QED
  BY <1>1, <1>2, StepsStayOrdered, PTL DEF Spec

(* A memory is never between two directories: a lint, a doctor or a status  *)
(* that gets to its end has seen each one that was there when it began,     *)
(* however many are moved meanwhile.                                        *)
THEOREM InventoriesMissNothing == Spec => []NothingMissed
<1>1. Following => NothingMissed
  <2>. SUFFICES ASSUME Following, NEW p \in Procs, cmd[p].name \in Inventories, result[p] = "ok"
                PROVE  begun[p].stored \subseteq begun[p].noted
    BY DEF NothingMissed, Ran, Inventories
  <2>1. Left(todo[p]) = {}
    BY DEF Following, Followed, Left
  <2>2. QED
    BY <2>1 DEF Following, Followed, StillAhead
<1>2. QED
  BY <1>1, SeenStays, PTL
-----------------------------------------------------------------------------
(* Plans, of compile and context.                                           *)

LEMMA AllowedIs ==
  ASSUME NEW S, IsFiniteSet(S), NEW r \in Roots
  PROVE  /\ Allowed(S, r) \in Nat /\ Cardinality(S) \in Nat
         /\ Allowed(S, r) <= Cardinality(S) /\ Allowed(S, r) <= MaxBullets[r]
         /\ Allowed(S, r) = Cardinality(S) \/ Allowed(S, r) = MaxBullets[r]
<1>1. Cardinality(S) \in Nat /\ MaxBullets[r] \in Nat
  BY FS_CardinalityType, ReaderBudgetAssumption
<1>2. PICK T : T = {Cardinality(S), MaxBullets[r]}
  OBVIOUS
<1>3. \E x \in T : \A y \in T : x <= y
  BY <1>1, <1>2
<1>4. Min(T) \in T /\ \A y \in T : Min(T) <= y
  BY <1>3 DEF Min
<1>5. QED
  BY <1>1, <1>2, <1>4 DEF Allowed

(* What a plan is of: as many of the best as the budget has room for.       *)
IsPlan(r, S, ids) ==
  \E k \in 0 .. Allowed(S, r) :
    /\ k = 0 \/ Fits(S, k, r)
    /\ \A j \in (k + 1) .. Allowed(S, r) : ~ Fits(S, j, r)
    /\ ids = [i \in 1 .. k |-> Ranked(S)[i].record.id]

LEMMA OnePlan ==
  ASSUME NEW S, IsFiniteSet(S), NEW r \in Roots, NEW a, NEW b, IsPlan(r, S, a), IsPlan(r, S, b)
  PROVE  a = b
<1>1. PICK m \in Nat : m = Allowed(S, r)
  BY AllowedIs
<1>2. PICK k \in 0 .. m : /\ k = 0 \/ Fits(S, k, r)
                          /\ \A j \in (k + 1) .. m : ~ Fits(S, j, r)
                          /\ a = [i \in 1 .. k |-> Ranked(S)[i].record.id]
  BY <1>1 DEF IsPlan
<1>3. PICK l \in 0 .. m : /\ l = 0 \/ Fits(S, l, r)
                          /\ \A j \in (l + 1) .. m : ~ Fits(S, j, r)
                          /\ b = [i \in 1 .. l |-> Ranked(S)[i].record.id]
  BY <1>1 DEF IsPlan
<1>4. ~ (k < l)
  BY <1>2, <1>3
<1>5. ~ (l < k)
  BY <1>2, <1>3
<1>6. k = l
  BY <1>4, <1>5
<1>7. QED
  BY <1>2, <1>3, <1>6

(* What reading the canon of a root gives, and has given so far.            *)
Filed(r)    == {[path |-> q, file |-> files[q]] : q \in {x \in Paths : x[1] = Canon(r) /\ Stands(x)}}
GotOf(p, r) == {g \in got[p] : g.path[1] = Canon(r)}

LEMMA ItemsAre ==
  ASSUME NEW r \in Roots
  PROVE  /\ CanonItems(r) = Items(Filed(r), {Canon(r)})
         /\ \A p \in Procs : Candidates(p, r) = Items(GotOf(p, r), {Canon(r)})
<1>1. CanonItems(r) = Items(Filed(r), {Canon(r)})
  <2>1. PICK G : G = {[path |-> q, file |-> files[q]] : q \in {x \in Paths : Stands(x)}}
    OBVIOUS
  <2>2. \A g : g \in G /\ g.path[1] = Canon(r) <=> g \in Filed(r)
    BY <2>1 DEF Filed
  <2>3. Items(G, {Canon(r)}) = Items(Filed(r), {Canon(r)})
    BY <2>2 DEF Items
  <2>4. QED
    BY <2>1, <2>3 DEF CanonItems
<1>2. \A p \in Procs : Candidates(p, r) = Items(GotOf(p, r), {Canon(r)})
  BY DEF Candidates, Items, GotOf
<1>3. QED
  BY <1>1, <1>2

LEMMA CanonItemsFinite ==
  ASSUME NEW r \in Roots
  PROVE  IsFiniteSet(CanonItems(r))
<1>1. PICK S : S = CanonItems(r)
  OBVIOUS
<1>2. ASSUME NEW x \in S
      PROVE  \E n \in Names : x = Item(<<Canon(r), n>>, files[<<Canon(r), n>>].record)
  <2>1. PICK g \in Filed(r) : x = Item(g.path, g.file.record)
    <3>1. CanonItems(r) = Items(Filed(r), {Canon(r)})
      BY ItemsAre
    <3>2. x \in Items(Filed(r), {Canon(r)})
      BY <1>1, <1>2, <3>1
    <3>3. QED
      BY <3>2 DEF Items
  <2>2. PICK q \in Paths : q[1] = Canon(r) /\ g = [path |-> q, file |-> files[q]]
    BY <2>1 DEF Filed
  <2>3. q = <<Canon(r), q[2]>> /\ q[2] \in Names
    BY <2>2, DirectoriesAre
  <2>4. QED
    BY <2>1, <2>2, <2>3
<1>3. PICK f : f = [x \in S |-> x.path[2]]
  OBVIOUS
<1>4. \A x \in S : x.path[2] \in Names
                   /\ x = Item(<<Canon(r), x.path[2]>>, files[<<Canon(r), x.path[2]>>].record)
  <2>1. ASSUME NEW x \in S
        PROVE  /\ x.path[2] \in Names
               /\ x = Item(<<Canon(r), x.path[2]>>, files[<<Canon(r), x.path[2]>>].record)
    <3>1. PICK n \in Names : x = Item(<<Canon(r), n>>, files[<<Canon(r), n>>].record)
      BY <1>2
    <3>2. x.path[2] = n
      BY <3>1 DEF Item
    <3>3. QED
      BY <3>1, <3>2
  <2>2. QED
    BY <2>1
<1>5. f \in Injection(S, Names)
  <2>1. \A x \in S : f[x] = x.path[2]
    BY <1>3
  <2>2. \A x, y \in S : f[x] = f[y] => x = y
    BY <1>4, <2>1
  <2>3. f \in [S -> Names]
    BY <1>3, <1>4
  <2>4. QED
    BY <2>2, <2>3 DEF Injection, IsInjective
<1>6. QED
  BY <1>1, <1>5, FS_Injection, ReaderNamesAssumption

(* How far a planner is with a root: what is left to be done, and what has  *)
(* been done on the files that are there.                                   *)
Ahead(p, r, ops) == \E op \in ops : <<op, IF op = "plan" THEN r ELSE Canon(r)>> \in Left(todo[p])

Progress(p, r) ==
  /\ Ahead(p, r, {"list"}) => GotOf(p, r) = {}
  /\ ~ Ahead(p, r, {"list"}) /\ Ahead(p, r, {"read", "plan"}) =>
       /\ \A n \in listed[p][Canon(r)] : Stands(<<Canon(r), n>>)
       /\ GotOf(p, r) = {g \in Filed(r) : g.path[2] \notin listed[p][Canon(r)]}
       /\ ~ Ahead(p, r, {"read"}) => listed[p][Canon(r)] = {}
  /\ ~ Ahead(p, r, {"list", "read", "plan"}) => IsPlan(r, CanonItems(r), plans[p][r].ids)

Shrunk(p, r) ==
  NextStep(p) = <<"plan", r>> /\ todo[p] # <<>> =>
    LET S == CanonItems(r)
    IN  /\ cut[p] <= Allowed(S, r)
        /\ \A k \in (Allowed(S, r) - cut[p] + 1) .. Allowed(S, r) : ~ Fits(S, k, r)

(* Its root has not been changed since it began, and it has not failed.     *)
Fresh(p, r) ==
  /\ cmd[p].name \in Planners /\ r \in cmd[p].scopes
  /\ result[p] \in {"none", "ok"} /\ begun[p].edition[r] = edition[r]

Planned(p) ==
  /\ todo[p] # <<>> => result[p] = "none"
  /\ (todo[p] # <<>> => NextStep(p)[1] # "plan") => cut[p] = 0
  /\ \A r \in Roots : begun[p].edition[r] <= edition[r]
  /\ \A r \in Roots : Fresh(p, r) => Progress(p, r) /\ Shrunk(p, r)
  /\ cmd[p].name \in Planners => \A r \in begun[p].current :
       /\ <<"plan", r>> \notin Left(todo[p]) /\ <<"text", r>> \notin Left(todo[p])
       /\ text[p][r] = plans[p][r].ids

(* The digest of a root that is up to date is a plan of what is there.      *)
UpToDate ==
  \A r \in Roots : /\ compiled[r] <= edition[r]
                   /\ compiled[r] = edition[r] => IsPlan(r, CanonItems(r), digest[r])

(* Where a planner is with a root, by its next step.                        *)
LEMMA HeadIs ==
  ASSUME TypeOK, Ordered, NEW p \in Procs, todo[p] # <<>>, cmd[p].name \in Planners,
         NEW r \in cmd[p].scopes
  PROVE  LET left == Left(todo[p])
             rest == Left(Tail(todo[p]))
             op   == NextStep(p)
         IN  /\ left = {op} \cup rest
             /\ op = <<"list", Canon(r)>> => <<"read", Canon(r)>> \in rest /\ <<"list", Canon(r)>> \notin rest
             /\ op = <<"read", Canon(r)>> => /\ <<"plan", r>> \in rest /\ <<"read", Canon(r)>> \notin rest
                                             /\ <<"list", Canon(r)>> \notin left
             /\ op = <<"plan", r>> => /\ <<"plan", r>> \notin rest /\ <<"read", Canon(r)>> \notin left
                                      /\ <<"list", Canon(r)>> \notin left
             /\ op \in {<<"publish", r>>, <<"text", r>>} =>
                  /\ op \notin rest /\ <<"plan", r>> \notin left
                  /\ <<"read", Canon(r)>> \notin left /\ <<"list", Canon(r)>> \notin left
<1>1. PICK left, rest, op : left = Left(todo[p]) /\ rest = Left(Tail(todo[p])) /\ op = NextStep(p)
  OBVIOUS
<1>2. left = {op} \cup rest /\ op = todo[p][1] /\ rest = Later(todo[p], 1) /\ 1 \in 1 .. Len(todo[p])
  BY <1>1, NextStepIs
<1>3. Plans(op, r, rest)
  BY <1>2 DEF Ordered, Orderly
<1>4. QED
  BY <1>1, <1>2, <1>3 DEF Plans, Touches

(* The root that a planner's step is on is one of its roots.                *)
LEMMA RootIs ==
  ASSUME TypeOK, Ordered, NEW p \in Procs, todo[p] # <<>>, NextStep(p)[1] \in {"plan", "publish", "text"}
  PROVE  /\ cmd[p].name \in Planners /\ NextStep(p)[2] \in cmd[p].scopes
         /\ NextStep(p) = <<NextStep(p)[1], NextStep(p)[2]>>
<1>1. NextStep(p) = todo[p][1] /\ 1 \in 1 .. Len(todo[p])
  BY NextStepIs
<1>2. cmd[p].name \in Planners
  BY <1>1 DEF Ordered, Orderly
<1>3. PICK r \in cmd[p].scopes : Touches(NextStep(p), r)
  BY <1>1, <1>2 DEF Ordered, Orderly
<1>4. QED
  BY <1>2, <1>3 DEF Touches

(* Other commands change a canon in a new edition of it.                    *)
LEMMA EditionsGoOn ==
  ASSUME TypeOK, Moving, NEW r \in Roots
  PROVE  /\ edition'[r] >= edition[r]
         /\ edition'[r] = edition[r] =>
              \A n \in Names : files'[<<Canon(r), n>>] = files[<<Canon(r), n>>]
<1>. DEFINE Kept == \A n \in Names : files'[<<Canon(r), n>>] = files[<<Canon(r), n>>]
            Goal == edition'[r] >= edition[r] /\ (edition'[r] = edition[r] => Kept)
<1>1. edition[r] \in Nat
  BY DEF TypeOK
<1>2. ASSUME NEW h \in Roots, Edited(h), NEW m, NEW x, files' = [files EXCEPT ![<<Canon(h), m>>] = x]
      PROVE  Goal
  <2>1. CASE h = r
    BY <1>1, <1>2, <2>1 DEF Edited, TypeOK
  <2>2. CASE h # r
    <3>1. edition'[r] = edition[r]
      BY <1>2, <2>2 DEF Edited, TypeOK
    <3>2. Kept
      BY <1>2, <2>2, DirectoriesAre DEF TypeOK
    <3>3. QED
      BY <1>1, <3>1, <3>2
  <2>3. QED
    BY <2>1, <2>2
<1>3. ASSUME NEW d \in Dirs, \A h \in Roots : d # Canon(h), UNCHANGED edition, NEW m, NEW x,
             files' = [files EXCEPT ![<<d, m>>] = x]
      PROVE  Goal
  BY <1>1, <1>3, DirectoriesAre DEF TypeOK
<1>4. ASSUME NEW n \in Names, AcceptRead(n) \/ AcceptWrite(n) \/ AcceptUnlink(n)
      PROVE  Goal
  <2>1. CASE AcceptRead(n)
    BY <1>1, <2>1 DEF AcceptRead
  <2>2. CASE AcceptWrite(n)
    BY <1>2, <2>2, DirectoriesAre DEF AcceptWrite, Put
  <2>3. CASE AcceptUnlink(n)
    BY <1>3, <2>3, DirectoriesAre DEF AcceptUnlink, Remove
  <2>4. QED
    BY <1>4, <2>1, <2>2, <2>3
<1>5. ASSUME NEW m \in Names, NEW n \in Names, Promote(m, n)
      PROVE  Goal
  BY <1>2, <1>5, DirectoriesAre DEF Promote, Put
<1>7. ASSUME NEW h \in Roots, NEW n \in Names, ArchiveWrite(h, n)
      PROVE  Goal
  BY <1>3, <1>7, DirectoriesAre DEF ArchiveWrite, Put
<1>8. ASSUME NEW h \in Roots, NEW n \in Names, ArchiveUnlink(h, n)
      PROVE  Goal
  BY <1>2, <1>8 DEF ArchiveUnlink, Remove
<1>9. QED
  BY <1>4, <1>5, <1>7, <1>8 DEF Moving

LEMMA FiledIsKept ==
  ASSUME NEW r \in Roots, \A n \in Names : files'[<<Canon(r), n>>] = files[<<Canon(r), n>>]
  PROVE  Filed(r)' = Filed(r) /\ CanonItems(r)' = CanonItems(r)
<1>1. \A q \in Paths : q[1] = Canon(r) => files'[q] = files[q]
  BY DirectoriesAre
<1>2. Filed(r)' = Filed(r)
  <2>1. {x \in Paths : x[1] = Canon(r) /\ files'[x] # NoFile} = {x \in Paths : x[1] = Canon(r) /\ files[x] # NoFile}
    BY <1>1
  <2>2. QED
    BY <1>1, <2>1 DEF Filed, Stands
<1>3. CanonItems(r) = Items(Filed(r), {Canon(r)})
  BY ItemsAre
<1>4. CanonItems(r)' = Items(Filed(r)', {Canon(r)})
  <2>1. PICK G : G = {[path |-> q, file |-> files'[q]] : q \in {x \in Paths : files'[x] # NoFile}}
    OBVIOUS
  <2>2. \A g : g \in G /\ g.path[1] = Canon(r) <=> g \in Filed(r)'
    BY <2>1 DEF Filed, Stands
  <2>3. Items(G, {Canon(r)}) = Items(Filed(r)', {Canon(r)})
    BY <2>2 DEF Items
  <2>4. QED
    BY <2>1, <2>3 DEF CanonItems, Stands
<1>5. QED
  BY <1>2, <1>3, <1>4

LEMMA MovesLeavePlans ==
  ASSUME TypeOK, Ordered, UpToDate, \A p \in Procs : Planned(p), Moving
  PROVE  UpToDate' /\ \A p \in Procs : Planned(p)'
<1>1. UNCHANGED <<digest, compiled, cmd, todo, listed, got, cut, plans, text, result, begun>>
  BY MovesKeepReaders
<1>2. \A r \in Roots : /\ edition[r] \in Nat /\ edition'[r] \in Nat /\ compiled[r] \in Nat
                       /\ \A p \in Procs : begun[p].edition[r] \in Nat
  <2>1. edition' \in [Roots -> Nat]
    BY MovesType DEF TypeOK
  <2>2. QED
    BY <2>1 DEF TypeOK
<1>3. UpToDate'
  <2>1. ASSUME NEW r \in Roots
        PROVE  compiled[r] <= edition'[r] /\ (compiled[r] = edition'[r] => IsPlan(r, CanonItems(r)', digest[r]))
    <3>1. compiled[r] <= edition[r] /\ edition[r] <= edition'[r]
      BY <1>2, EditionsGoOn DEF UpToDate
    <3>2. ASSUME compiled[r] = edition'[r]
          PROVE  CanonItems(r)' = CanonItems(r) /\ compiled[r] = edition[r]
      BY <1>2, <3>1, <3>2, EditionsGoOn, FiledIsKept
    <3>3. QED
      BY <1>2, <3>1, <3>2 DEF UpToDate
  <2>2. QED
    BY <1>1, <2>1 DEF UpToDate
<1>4. ASSUME NEW p \in Procs
      PROVE  Planned(p)'
  <2>1. Planned(p)
    OBVIOUS
  <2>2. \A r \in Roots : begun[p].edition[r] <= edition[r] /\ edition[r] <= edition'[r]
    BY <1>2, <2>1, EditionsGoOn DEF Planned
  <2>3. ASSUME NEW r \in Roots, Fresh(p, r)'
        PROVE  Progress(p, r)' /\ Shrunk(p, r)'
    <3>1. begun[p].edition[r] = edition'[r]
      BY <1>1, <2>3 DEF Fresh
    <3>2. edition'[r] = edition[r]
      BY <1>2, <2>2, <3>1
    <3>3. Fresh(p, r)
      BY <1>1, <2>3, <3>2 DEF Fresh
    <3>4. /\ Filed(r)' = Filed(r) /\ CanonItems(r)' = CanonItems(r)
          /\ \A n \in Names : files'[<<Canon(r), n>>] = files[<<Canon(r), n>>]
      BY <3>2, EditionsGoOn, FiledIsKept
    <3>5. GotOf(p, r)' = GotOf(p, r) /\ \A ops : Ahead(p, r, ops)' <=> Ahead(p, r, ops)
      BY <1>1 DEF GotOf, Ahead
    <3>6. Progress(p, r) /\ Shrunk(p, r)
      BY <2>1, <3>3 DEF Planned
    <3>7. listed[p][Canon(r)] \subseteq Names
      BY DirectoriesAre DEF TypeOK
    <3>8. Progress(p, r)'
      BY <1>1, <3>4, <3>5, <3>6, <3>7 DEF Progress, Stands
    <3>9. Shrunk(p, r)'
      BY <1>1, <3>4, <3>6 DEF Shrunk, NextStep
    <3>10. QED
      BY <3>8, <3>9
  <2>4. \A r \in Roots : begun[p].edition[r] <= edition'[r]
    BY <1>2, <2>2
  <2>5. QED
    BY <1>1, <2>1, <2>3, <2>4 DEF Planned, NextStep
<1>5. QED
  BY <1>3, <1>4

(* The other readers.                                                       *)
LEMMA OthersArePlanned ==
  ASSUME TypeOK, Ordered, NEW q \in Procs, Reading(q), NEW p \in Procs \ {q}, Planned(p)
  PROVE  Planned(p)'
<1>1. /\ files' = files /\ edition' = edition
      /\ cmd'[p] = cmd[p] /\ todo'[p] = todo[p] /\ listed'[p] = listed[p] /\ got'[p] = got[p]
      /\ cut'[p] = cut[p] /\ plans'[p] = plans[p] /\ text'[p] = text[p]
      /\ result'[p] = result[p] /\ begun'[p] = begun[p]
  BY ReadersKeepApart DEF store
<1>2. NextStep(p)' = NextStep(p)
  BY <1>1 DEF NextStep
<1>3. ASSUME NEW r \in Roots
      PROVE  /\ Fresh(p, r)' <=> Fresh(p, r)
             /\ Progress(p, r)' <=> Progress(p, r)
             /\ Shrunk(p, r)' <=> Shrunk(p, r)
  <2>1. Filed(r)' = Filed(r) /\ CanonItems(r)' = CanonItems(r)
    BY <1>1, FiledIsKept
  <2>2. GotOf(p, r)' = GotOf(p, r) /\ \A ops : Ahead(p, r, ops)' <=> Ahead(p, r, ops)
    BY <1>1 DEF GotOf, Ahead
  <2>3. \A x : Stands(x)' <=> Stands(x)
    BY <1>1 DEF Stands
  <2>4. Progress(p, r)' <=> Progress(p, r)
    BY <1>1, <2>1, <2>2, <2>3 DEF Progress
  <2>5. Shrunk(p, r)' <=> Shrunk(p, r)
    BY <1>1, <1>2, <2>1 DEF Shrunk
  <2>6. QED
    BY <1>1, <2>4, <2>5 DEF Fresh
<1>4. QED
  BY <1>1, <1>2, <1>3 DEF Planned

(* The reader that takes the step.                                          *)
LEMMA StartsPlanned ==
  ASSUME TypeOK, NEW p \in Procs, NEW c \in Commands, Start(p, c)
  PROVE  Planned(p)'
<1>1. /\ files' = files /\ edition' = edition /\ cmd'[p] = c /\ todo'[p] = Steps(c)
      /\ got'[p] = {} /\ cut'[p] = 0 /\ result'[p] = "none"
  BY DEF Start, TypeOK, store
<1>2. begun'[p].edition = edition /\ begun'[p].current = {}
  BY DEF Start, TypeOK
<1>3. \A r \in Roots : edition[r] \in Nat
  BY DEF TypeOK
<1>4. ASSUME NEW r \in Roots, Fresh(p, r)'
      PROVE  Progress(p, r)' /\ Shrunk(p, r)'
  <2>1. <<"list", Canon(r)>> \in Left(todo'[p])
    BY <1>1, <1>4, StepsAreOrderly DEF Fresh
  <2>2. Ahead(p, r, {"list"})' /\ Ahead(p, r, {"list", "read", "plan"})'
    BY <2>1 DEF Ahead
  <2>3. GotOf(p, r)' = {}
    BY <1>1 DEF GotOf
  <2>4. Progress(p, r)'
    BY <2>2, <2>3 DEF Progress
  <2>5. CanonItems(r)' = CanonItems(r)
    BY <1>1, FiledIsKept
  <2>6. Allowed(CanonItems(r), r) \in Nat
    BY CanonItemsFinite, AllowedIs
  <2>7. Shrunk(p, r)'
    BY <1>1, <2>5, <2>6 DEF Shrunk
  <2>8. QED
    BY <2>4, <2>7
<1>5. QED
  BY <1>1, <1>2, <1>3, <1>4 DEF Planned

(* What a step on something else leaves of the progress with a root.        *)
LEMMA StepsElsewhere ==
  ASSUME TypeOK, Ordered, NEW p \in Procs, NEW r \in Roots, Progress(p, r), todo[p] # <<>>,
         NextStep(p) \notin {<<"list", Canon(r)>>, <<"read", Canon(r)>>, <<"plan", r>>},
         todo'[p] \in {todo[p], Tail(todo[p])}, files' = files, GotOf(p, r)' = GotOf(p, r),
         listed'[p][Canon(r)] = listed[p][Canon(r)], plans'[p][r] = plans[p][r]
  PROVE  Progress(p, r)'
<1>1. Left(todo[p]) = {NextStep(p)} \cup Left(Tail(todo[p]))
  BY NextStepIs
<1>2. \A x \in {<<"list", Canon(r)>>, <<"read", Canon(r)>>, <<"plan", r>>} :
        x \in Left(todo'[p]) <=> x \in Left(todo[p])
  BY <1>1
<1>3. \A ops \in SUBSET {"list", "read", "plan"} : Ahead(p, r, ops)' <=> Ahead(p, r, ops)
  BY <1>2 DEF Ahead
<1>4. Filed(r)' = Filed(r) /\ CanonItems(r)' = CanonItems(r) /\ \A x : Stands(x)' <=> Stands(x)
  BY FiledIsKept DEF Stands
<1>5. QED
  BY <1>3, <1>4 DEF Progress

(* Before a plan is made nothing is cut from it.                            *)
LEMMA NothingIsCut ==
  ASSUME NEW p \in Procs, cut'[p] = 0, files' = files
  PROVE  \A r \in Roots : Shrunk(p, r)'
<1>1. ASSUME NEW r \in Roots
      PROVE  Shrunk(p, r)'
  <2>1. CanonItems(r)' = CanonItems(r)
    BY FiledIsKept
  <2>2. Allowed(CanonItems(r), r) \in Nat
    BY CanonItemsFinite, AllowedIs
  <2>3. QED
    BY <2>1, <2>2 DEF Shrunk
<1>2. QED
  BY <1>1

LEMMA ListingProgresses ==
  ASSUME TypeOK, Ordered, NEW p \in Procs, NEW r \in Roots, r \in cmd[p].scopes,
         cmd[p].name \in Planners, Progress(p, r), ListDirectory(p)
  PROVE  Progress(p, r)'
<1>1. PICK d \in Dirs : NextStep(p) = <<"list", d>> /\ d = NextStep(p)[2] /\ todo[p] # <<>>
  <2>1. NextStep(p) \in Operations /\ NextStep(p)[1] = "list" /\ todo[p] # <<>> /\ NextStep(p)[2] \in Dirs
    BY NextStepIs DEF ListDirectory, At
  <2>2. QED
    BY <2>1 DEF Operations
<1>2. /\ listed' = [listed EXCEPT ![p][d] = {n \in Names : files[<<d, n>>] # NoFile}]
      /\ Continue(p) /\ files' = files /\ got' = got /\ plans' = plans
  BY <1>1 DEF ListDirectory, store
<1>3. todo'[p] = Tail(todo[p])
  BY <1>2 DEF Continue, TypeOK
<1>4. GotOf(p, r)' = GotOf(p, r) /\ Filed(r)' = Filed(r) /\ \A x : Stands(x)' <=> Stands(x)
  BY <1>2, FiledIsKept DEF GotOf, Stands
<1>5. CASE d = Canon(r)
  <2>1. /\ <<"read", Canon(r)>> \in Left(Tail(todo[p])) /\ <<"list", Canon(r)>> \notin Left(Tail(todo[p]))
        /\ <<"list", Canon(r)>> \in Left(todo[p])
    BY <1>1, <1>5, HeadIs
  <2>2. Ahead(p, r, {"list"})
    BY <2>1 DEF Ahead
  <2>3. ~ Ahead(p, r, {"list"})' /\ Ahead(p, r, {"read"})' /\ Ahead(p, r, {"list", "read", "plan"})'
    BY <1>3, <2>1 DEF Ahead
  <2>4. listed'[p][Canon(r)] = {n \in Names : Stands(<<Canon(r), n>>)}
    BY <1>2, <1>5, DirectoriesAre DEF TypeOK, Stands
  <2>5. \A g \in Filed(r) : g.path[2] \in listed'[p][Canon(r)]
    <3>1. ASSUME NEW g \in Filed(r)
          PROVE  g.path[2] \in listed'[p][Canon(r)]
      <4>1. PICK q \in Paths : q[1] = Canon(r) /\ Stands(q) /\ g = [path |-> q, file |-> files[q]]
        BY DEF Filed
      <4>2. q = <<Canon(r), q[2]>> /\ q[2] \in Names /\ g.path = q
        BY <4>1, DirectoriesAre
      <4>3. QED
        BY <2>4, <4>1, <4>2
    <3>2. QED
      BY <3>1
  <2>6. GotOf(p, r) = {}
    BY <2>2 DEF Progress
  <2>7. QED
    BY <1>4, <2>3, <2>4, <2>5, <2>6 DEF Progress
<1>6. CASE d # Canon(r)
  <2>1. listed'[p][Canon(r)] = listed[p][Canon(r)]
    BY <1>2, <1>6, DirectoriesAre DEF TypeOK
  <2>2. NextStep(p) \notin {<<"list", Canon(r)>>, <<"read", Canon(r)>>, <<"plan", r>>}
    BY <1>1, <1>6
  <2>3. QED
    BY <1>1, <1>2, <1>3, <1>4, <2>1, <2>2, StepsElsewhere
<1>7. QED
  BY <1>5, <1>6

LEMMA ReadingProgresses ==
  ASSUME TypeOK, Ordered, NEW p \in Procs, NEW r \in Roots, r \in cmd[p].scopes,
         cmd[p].name \in Planners, Progress(p, r), ReadNothing(p) \/ ReadNext(p),
         result'[p] \in {"none", "ok"}
  PROVE  Progress(p, r)'
<1>1. PICK d \in Dirs : NextStep(p) = <<"read", d>> /\ d = NextStep(p)[2] /\ todo[p] # <<>>
  <2>1. NextStep(p) \in Operations /\ NextStep(p)[1] = "read" /\ todo[p] # <<>> /\ NextStep(p)[2] \in Dirs
    BY NextStepIs DEF ReadNothing, ReadNext, At
  <2>2. QED
    BY <2>1 DEF Operations
<1>2. files' = files /\ plans' = plans
  BY DEF ReadNothing, ReadNext, store, working
<1>3. Filed(r)' = Filed(r) /\ \A x : Stands(x)' <=> Stands(x)
  BY <1>2, FiledIsKept DEF Stands
<1>4. Canon(r) \in Dirs
  BY DirectoriesAre
<1>5. ASSUME d = Canon(r)
      PROVE  /\ <<"plan", r>> \in Left(Tail(todo[p])) /\ <<"plan", r>> \in Left(todo[p])
             /\ <<"read", Canon(r)>> \notin Left(Tail(todo[p])) /\ <<"read", Canon(r)>> \in Left(todo[p])
             /\ <<"list", Canon(r)>> \notin Left(todo[p]) /\ <<"list", Canon(r)>> \notin Left(Tail(todo[p]))
  BY <1>1, <1>5, HeadIs
<1>6. ASSUME d = Canon(r)
      PROVE  /\ \A n \in listed[p][Canon(r)] : Stands(<<Canon(r), n>>)
             /\ GotOf(p, r) = {g \in Filed(r) : g.path[2] \notin listed[p][Canon(r)]}
  <2>1. ~ Ahead(p, r, {"list"}) /\ Ahead(p, r, {"read", "plan"})
    BY <1>5, <1>6 DEF Ahead
  <2>2. QED
    BY <2>1 DEF Progress
<1>7. ASSUME d # Canon(r)
      PROVE  NextStep(p) \notin {<<"list", Canon(r)>>, <<"read", Canon(r)>>, <<"plan", r>>}
  BY <1>1, <1>7
<1>8. CASE ReadNothing(p)
  <2>1. listed' = listed /\ got' = got /\ Continue(p) /\ listed[p][d] = {}
    BY <1>1, <1>8 DEF ReadNothing, working
  <2>2. GotOf(p, r)' = GotOf(p, r) /\ todo'[p] = Tail(todo[p])
    BY <2>1 DEF GotOf, Continue, TypeOK
  <2>3. CASE d = Canon(r)
    <3>1. /\ ~ Ahead(p, r, {"list"})' /\ ~ Ahead(p, r, {"read"})'
          /\ Ahead(p, r, {"list", "read", "plan"})'
      BY <1>5, <2>2, <2>3 DEF Ahead
    <3>2. QED
      BY <1>3, <1>6, <2>1, <2>2, <2>3, <3>1 DEF Progress
  <2>4. CASE d # Canon(r)
    BY <1>1, <1>2, <1>7, <2>1, <2>2, <2>4, StepsElsewhere
  <2>5. QED
    BY <2>3, <2>4
<1>9. CASE ReadNext(p)
  <2>1. PICK q : q = <<d, Min(listed[p][d])>>
    OBVIOUS
  <2>2. listed[p][d] \in SUBSET Names /\ listed[p][d] # {}
    BY <1>1, <1>9 DEF ReadNext, TypeOK
  <2>3. q \in Paths /\ q[1] = d /\ q = <<d, q[2]>> /\ q[2] \in listed[p][d]
    BY <2>1, <2>2, SmallestName, DirectoriesAre
  <2>4. /\ listed' = [listed EXCEPT ![p][d] = @ \ {q[2]}]
        /\ got' = [got EXCEPT ![p] = @ \cup {[path |-> q, file |-> ReadFile(q)]}]
    BY <1>1, <1>9, <2>1 DEF ReadNext
  <2>5. /\ listed'[p][d] = listed[p][d] \ {q[2]}
        /\ \A e \in Dirs : e # d => listed'[p][e] = listed[p][e]
        /\ got'[p] = got[p] \cup {[path |-> q, file |-> ReadFile(q)]}
    BY <2>4 DEF TypeOK
  <2>6. \/ Continue(p) /\ listed'[p][d] = {}
        \/ UNCHANGED todo
    <3>1. PICK how : how = Load(cmd[p].name, q, ReadFile(q))
      OBVIOUS
    <3>2. /\ how # "ok" => Stop(p, how)
          /\ how = "ok" /\ listed'[p][d] = {} => Continue(p)
          /\ how = "ok" /\ listed'[p][d] # {} => UNCHANGED todo
      BY <1>1, <1>9, <2>1, <3>1 DEF ReadNext
    <3>3. how \in {"ok", "reported"}
      BY <3>1 DEF Planners, Load, LoadForDigest, Reported
    <3>4. how = "ok"
      BY <3>2, <3>3 DEF Stop, TypeOK
    <3>5. QED
      BY <3>2, <3>4
  <2>7. todo'[p] \in {todo[p], Tail(todo[p])} /\ (listed'[p][d] # {} => todo'[p] = todo[p])
    BY <2>6 DEF Continue, TypeOK
  <2>8. CASE d = Canon(r)
    <3>1. Stands(q) /\ ReadFile(q) = files[q]
      BY <1>6, <2>3, <2>8 DEF Stands, ReadFile
    <3>2. GotOf(p, r)' = GotOf(p, r) \cup {[path |-> q, file |-> files[q]]}
      BY <2>3, <2>5, <2>8, <3>1 DEF GotOf
    <3>3. [path |-> q, file |-> files[q]] \in Filed(r)
      BY <2>3, <2>8, <3>1 DEF Filed
    <3>4. \A g \in Filed(r) : g.path[2] = q[2] => g = [path |-> q, file |-> files[q]]
      <4>1. ASSUME NEW g \in Filed(r), g.path[2] = q[2]
            PROVE  g = [path |-> q, file |-> files[q]]
        <5>1. PICK x \in Paths : x[1] = Canon(r) /\ g = [path |-> x, file |-> files[x]]
          BY DEF Filed
        <5>2. x = <<Canon(r), x[2]>> /\ x[2] = q[2]
          BY <4>1, <5>1, DirectoriesAre
        <5>3. x = q
          BY <2>3, <2>8, <5>2
        <5>4. QED
          BY <5>1, <5>3
      <4>2. QED
        BY <4>1
    <3>5. GotOf(p, r)' = {g \in Filed(r) : g.path[2] \notin listed'[p][Canon(r)]}
      <4>1. GotOf(p, r) = {g \in Filed(r) : g.path[2] \notin listed[p][Canon(r)]}
        BY <1>6, <2>8
      <4>2. listed'[p][Canon(r)] = listed[p][Canon(r)] \ {q[2]}
        BY <2>5, <2>8
      <4>3. QED
        BY <3>2, <3>3, <3>4, <4>1, <4>2
    <3>6. \A n \in listed'[p][Canon(r)] : Stands(<<Canon(r), n>>)
      BY <1>6, <2>5, <2>8
    <3>7. ~ Ahead(p, r, {"list"})' /\ Ahead(p, r, {"list", "read", "plan"})'
      BY <1>5, <2>7, <2>8 DEF Ahead
    <3>8. ~ Ahead(p, r, {"read"})' => listed'[p][Canon(r)] = {}
      BY <1>5, <2>7, <2>8 DEF Ahead
    <3>9. QED
      BY <1>3, <3>5, <3>6, <3>7, <3>8 DEF Progress
  <2>9. CASE d # Canon(r)
    <3>1. GotOf(p, r)' = GotOf(p, r)
      BY <2>3, <2>5, <2>9 DEF GotOf
    <3>2. listed'[p][Canon(r)] = listed[p][Canon(r)]
      BY <1>4, <2>5, <2>9
    <3>3. QED
      BY <1>1, <1>2, <1>7, <2>7, <2>9, <3>1, <3>2, StepsElsewhere
  <2>10. QED
    BY <2>8, <2>9
<1>10. QED
  BY <1>8, <1>9

(* What the plan of a root is being made of.                                *)
LEMMA PlanningOf ==
  ASSUME TypeOK, Ordered, NEW p \in Procs, todo[p] # <<>>, NextStep(p)[1] = "plan",
         NEW r, r = NextStep(p)[2], Fresh(p, r), Progress(p, r), Shrunk(p, r)
  PROVE  /\ r \in Roots /\ Candidates(p, r) = CanonItems(r)
         /\ cut[p] \in Nat /\ cut[p] <= Allowed(CanonItems(r), r) /\ Allowed(CanonItems(r), r) \in Nat
         /\ \A k \in (Allowed(CanonItems(r), r) - cut[p] + 1) .. Allowed(CanonItems(r), r) :
              ~ Fits(CanonItems(r), k, r)
<1>1. r \in Roots /\ NextStep(p) = <<"plan", r>> /\ r \in cmd[p].scopes /\ cmd[p].name \in Planners
  BY NextStepIs, RootIs
<1>2. /\ <<"read", Canon(r)>> \notin Left(todo[p]) /\ <<"list", Canon(r)>> \notin Left(todo[p])
      /\ <<"plan", r>> \in Left(todo[p])
  BY <1>1, HeadIs
<1>3. ~ Ahead(p, r, {"list"}) /\ ~ Ahead(p, r, {"read"}) /\ Ahead(p, r, {"read", "plan"})
  BY <1>2 DEF Ahead
<1>4. GotOf(p, r) = Filed(r)
  BY <1>3 DEF Progress
<1>5. Candidates(p, r) = CanonItems(r)
  BY <1>1, <1>4, ItemsAre
<1>6. Allowed(CanonItems(r), r) \in Nat
  BY <1>1, CanonItemsFinite, AllowedIs
<1>7. QED
  BY <1>1, <1>5, <1>6 DEF Shrunk, TypeOK

LEMMA ShrinksPlanned ==
  ASSUME TypeOK, Ordered, NEW p \in Procs, Planned(p), Shrink(p)
  PROVE  Planned(p)'
<1>1. /\ todo[p] # <<>> /\ NextStep(p)[1] = "plan"
      /\ UNCHANGED <<files, edition, cmd, todo, listed, got, plans, text, result, begun>>
      /\ cut'[p] = cut[p] + 1
  BY DEF Shrink, At, TypeOK, store
<1>2. ASSUME NEW r \in Roots, Fresh(p, r)'
      PROVE  Progress(p, r)' /\ Shrunk(p, r)'
  <2>1. Fresh(p, r) /\ Progress(p, r) /\ Shrunk(p, r)
    BY <1>1, <1>2 DEF Fresh, Planned
  <2>2. CanonItems(r)' = CanonItems(r) /\ Filed(r)' = Filed(r) /\ \A x : Stands(x)' <=> Stands(x)
    BY <1>1, FiledIsKept DEF Stands
  <2>3. GotOf(p, r)' = GotOf(p, r) /\ \A ops : Ahead(p, r, ops)' <=> Ahead(p, r, ops)
    BY <1>1 DEF GotOf, Ahead
  <2>4. Progress(p, r)'
    BY <1>1, <2>1, <2>2, <2>3 DEF Progress
  <2>5. CASE NextStep(p) = <<"plan", r>>
    <3>1. PICK S : S = CanonItems(r)
      OBVIOUS
    <3>2. PICK m, c \in Nat : m = Allowed(S, r) /\ c = cut[p]
      BY <1>1, <2>1, <2>5, <3>1, PlanningOf
    <3>3. /\ Candidates(p, r) = S /\ c <= m
          /\ \A k \in (m - c + 1) .. m : ~ Fits(S, k, r)
      BY <1>1, <2>1, <2>5, <3>1, <3>2, PlanningOf
    <3>4. m - c > 0 /\ ~ Fits(S, m - c, r)
      BY <2>5, <3>1, <3>2, <3>3 DEF Shrink, Included
    <3>5. cut'[p] = c + 1 /\ c + 1 <= m
      BY <1>1, <3>2, <3>4
    <3>6. \A k \in (m - (c + 1) + 1) .. m : k = m - c \/ k \in (m - c + 1) .. m
      BY <3>2
    <3>7. \A k \in (m - (c + 1) + 1) .. m : ~ Fits(S, k, r)
      BY <3>3, <3>4, <3>6
    <3>8. QED
      BY <2>2, <2>4, <3>1, <3>2, <3>5, <3>7 DEF Shrunk
  <2>6. CASE NextStep(p) # <<"plan", r>>
    BY <1>1, <2>4, <2>6 DEF Shrunk, NextStep
  <2>7. QED
    BY <2>5, <2>6
<1>3. QED
  BY <1>1, <1>2 DEF Planned, NextStep

(* A step that is not the last one, and the last one.                       *)
LEMMA StepsPlanned ==
  ASSUME TypeOK, Ordered, NEW p \in Procs, Planned(p), todo[p] # <<>>, cut'[p] = 0,
         UNCHANGED <<files, edition, cmd>>,
         \/ Continue(p) \/ UNCHANGED <<todo, result>>
         \/ \E how : how \notin {"none", "ok"} /\ Stop(p, how),
         begun'[p].edition = begun[p].edition,
         \A r \in Roots : Fresh(p, r) /\ result'[p] \in {"none", "ok"} /\ Progress(p, r) => Progress(p, r)',
         cmd[p].name \in Planners => \A r \in begun'[p].current :
           /\ <<"plan", r>> \notin Left(todo'[p]) /\ <<"text", r>> \notin Left(todo'[p])
           /\ text'[p][r] = plans'[p][r].ids
  PROVE  Planned(p)'
<1>1. result[p] = "none"
  BY DEF Planned
<1>2. todo'[p] # <<>> => result'[p] = "none"
  <2>1. Len(todo[p]) = 1 <=> Tail(todo[p]) = <<>>
    BY NextStepIs
  <2>2. ASSUME Continue(p)
        PROVE  todo'[p] # <<>> => result'[p] = "none"
    BY <1>1, <2>1, <2>2 DEF Continue, TypeOK
  <2>3. ASSUME NEW how, Stop(p, how)
        PROVE  todo'[p] = <<>>
    BY <2>3 DEF Stop, TypeOK
  <2>4. QED
    BY <1>1, <2>2, <2>3
<1>3. \A r \in Roots : begun'[p].edition[r] <= edition'[r]
  BY DEF Planned
<1>4. ASSUME NEW r \in Roots, Fresh(p, r)'
      PROVE  Progress(p, r)' /\ Shrunk(p, r)'
  <2>1. Fresh(p, r) /\ result'[p] \in {"none", "ok"}
    BY <1>1, <1>4 DEF Fresh
  <2>2. Progress(p, r)
    BY <2>1 DEF Planned
  <2>3. QED
    BY <2>1, <2>2, NothingIsCut
<1>5. QED
  BY <1>2, <1>3, <1>4 DEF Planned

(* What is left of a command is no more than there was.                     *)
LEMMA LessIsLeft ==
  ASSUME TypeOK, Ordered, NEW p \in Procs, todo[p] # <<>>,
         \/ Continue(p) \/ UNCHANGED <<todo, result>> \/ \E how : Stop(p, how)
  PROVE  Left(todo'[p]) \subseteq Left(todo[p])
<1>1. Left(Tail(todo[p])) \subseteq Left(todo[p])
  BY NextStepIs
<1>2. Left(<<>>) = {}
  BY DEF Left
<1>3. todo'[p] = Tail(todo[p]) \/ todo'[p] = <<>> \/ todo'[p] = todo[p]
  BY DEF Continue, Stop, TypeOK
<1>4. QED
  BY <1>1, <1>2, <1>3

LEMMA LookingPlanned ==
  ASSUME TypeOK, Ordered, NEW p \in Procs, Planned(p), ListDirectory(p) \/ ReadNothing(p) \/ ReadNext(p)
  PROVE  Planned(p)'
<1>1. todo[p] # <<>> /\ NextStep(p)[1] # "plan" /\ UNCHANGED <<files, edition, cmd, cut, plans, text>>
  BY DEF ListDirectory, ReadNothing, ReadNext, At, store, working
<1>2. cut'[p] = 0
  BY <1>1 DEF Planned
<1>3. \/ Continue(p) \/ UNCHANGED <<todo, result>>
      \/ \E how : how \notin {"none", "ok"} /\ Stop(p, how)
  <2>1. CASE ReadNext(p)
    <3>1. PICK how, q : how = Load(cmd[p].name, q, ReadFile(q)) /\ q = <<NextStep(p)[2], Min(listed[p][NextStep(p)[2]])>>
      OBVIOUS
    <3>2. /\ how # "ok" => Stop(p, how)
          /\ how = "ok" => Continue(p) \/ UNCHANGED <<todo, result>>
      BY <2>1, <3>1 DEF ReadNext
    <3>3. cmd[p].name \in {"lint", "doctor", "status", "search", "get", "compile", "context"}
      BY ReaderCommandsAssumption DEF TypeOK
    <3>4. how \in {"ok", "reported", "raised"}
      BY <3>1, <3>3 DEF Load, LoadForDigest, LoadForRetrieval, LoadForStatus, Reported
    <3>5. QED
      BY <3>2, <3>4
  <2>2. CASE ListDirectory(p) \/ ReadNothing(p)
    BY <2>2 DEF ListDirectory, ReadNothing
  <2>3. QED
    BY <2>1, <2>2
<1>4. begun'[p].edition = begun[p].edition /\ begun'[p].current = begun[p].current
  <2>1. CASE ListDirectory(p)
    <3>1. PICK x : begun' = [begun EXCEPT ![p].noted = x]
      BY <2>1 DEF ListDirectory
    <3>2. QED
      BY <3>1 DEF TypeOK
  <2>2. CASE ReadNothing(p) \/ ReadNext(p)
    BY <2>2 DEF ReadNothing, ReadNext
  <2>3. QED
    BY <2>1, <2>2
<1>5. ASSUME NEW r \in Roots, Fresh(p, r), result'[p] \in {"none", "ok"}, Progress(p, r)
      PROVE  Progress(p, r)'
  BY <1>5, ListingProgresses, ReadingProgresses DEF Fresh
<1>6. Left(todo'[p]) \subseteq Left(todo[p])
  BY <1>1, <1>3, LessIsLeft
<1>7. cmd[p].name \in Planners => \A r \in begun'[p].current :
        /\ <<"plan", r>> \notin Left(todo'[p]) /\ <<"text", r>> \notin Left(todo'[p])
        /\ text'[p][r] = plans'[p][r].ids
  BY <1>1, <1>4, <1>6 DEF Planned
<1>8. QED
  BY <1>1, <1>2, <1>3, <1>4, <1>5, <1>7, StepsPlanned

LEMMA PlansPlanned ==
  ASSUME TypeOK, Ordered, NEW p \in Procs, Planned(p), MakePlan(p)
  PROVE  Planned(p)'
<1>1. PICK h \in Roots : /\ h = NextStep(p)[2] /\ NextStep(p)[1] = "plan" /\ NextStep(p) = <<"plan", h>>
                        /\ todo[p] # <<>>
  BY NextStepIs, RootIs DEF MakePlan, At
<1>2. /\ Continue(p) /\ cut'[p] = 0
      /\ UNCHANGED <<files, edition, cmd, listed, got, text, begun>>
  BY DEF MakePlan, store, TypeOK
<1>3. todo'[p] = Tail(todo[p])
  BY <1>2 DEF Continue, TypeOK
<1>4. cmd[p].name \in Planners /\ h \in cmd[p].scopes
  BY <1>1, RootIs
<1>5. PICK ids, omitted : /\ ids = [i \in 1 .. Included(p, h) |-> Ranked(Candidates(p, h))[i].record.id]
                          /\ plans' = [plans EXCEPT ![p][h] = [ids |-> ids, omitted |-> omitted]]
  BY <1>1 DEF MakePlan
<1>6. plans'[p][h].ids = ids /\ \A r \in Roots : r # h => plans'[p][r] = plans[p][r]
  <2>1. Over(Procs, plans) /\ Over(Roots, plans[p])
    BY DEF TypeOK
  <2>2. plans'[p] = [plans[p] EXCEPT ![h] = [ids |-> ids, omitted |-> omitted]]
    BY <1>5, <2>1 DEF Over
  <2>3. QED
    BY <2>1, <2>2 DEF Over
<1>7. ASSUME NEW r \in Roots, Fresh(p, r), result'[p] \in {"none", "ok"}, Progress(p, r)
      PROVE  Progress(p, r)'
  <2>1. CASE r = h
    <3>1. PICK S : S = CanonItems(r)
      OBVIOUS
    <3>2. Shrunk(p, r)
      BY <1>7 DEF Planned
    <3>3. PICK m, c \in Nat : m = Allowed(S, r) /\ c = cut[p]
      BY <1>1, <1>7, <2>1, <3>1, <3>2, PlanningOf
    <3>4. /\ Candidates(p, r) = S /\ c <= m
          /\ \A k \in (m - c + 1) .. m : ~ Fits(S, k, r)
      BY <1>1, <1>7, <2>1, <3>1, <3>2, <3>3, PlanningOf
    <3>5. PICK k \in 0 .. m : k = m - c
      BY <3>3, <3>4
    <3>6. Included(p, r) = k
      BY <3>3, <3>4, <3>5 DEF Included
    <3>7. k = 0 \/ Fits(S, k, r)
      BY <1>1, <2>1, <3>4, <3>6 DEF MakePlan
    <3>8. IsPlan(r, S, ids)
      <4>1. ids = [i \in 1 .. k |-> Ranked(S)[i].record.id]
        BY <1>5, <2>1, <3>4, <3>6
      <4>2. \A j \in (k + 1) .. m : ~ Fits(S, j, r)
        BY <3>4, <3>5
      <4>3. QED
        BY <3>3, <3>7, <4>1, <4>2 DEF IsPlan
    <3>9. CanonItems(r)' = S
      BY <1>2, <3>1, FiledIsKept
    <3>10. /\ <<"plan", r>> \notin Left(todo'[p]) /\ <<"read", Canon(r)>> \notin Left(todo'[p])
           /\ <<"list", Canon(r)>> \notin Left(todo'[p])
      BY <1>1, <1>3, <1>4, <2>1, HeadIs
    <3>11. ~ Ahead(p, r, {"list"})' /\ ~ Ahead(p, r, {"read", "plan"})'
      BY <3>10 DEF Ahead
    <3>12. QED
      BY <1>6, <2>1, <3>8, <3>9, <3>11 DEF Progress
  <2>2. CASE r # h
    <3>1. NextStep(p) \notin {<<"list", Canon(r)>>, <<"read", Canon(r)>>, <<"plan", r>>}
      BY <1>1, <2>2
    <3>2. GotOf(p, r)' = GotOf(p, r)
      BY <1>2 DEF GotOf
    <3>3. QED
      BY <1>1, <1>2, <1>3, <1>6, <1>7, <2>2, <3>1, <3>2, StepsElsewhere
  <2>3. QED
    BY <2>1, <2>2
<1>8. cmd[p].name \in Planners => \A r \in begun'[p].current :
        /\ <<"plan", r>> \notin Left(todo'[p]) /\ <<"text", r>> \notin Left(todo'[p])
        /\ text'[p][r] = plans'[p][r].ids
  <2>1. ASSUME NEW r \in begun[p].current
        PROVE  /\ <<"plan", r>> \notin Left(todo[p]) /\ <<"text", r>> \notin Left(todo[p])
               /\ text[p][r] = plans[p][r].ids /\ r \in Roots
    BY <1>4 DEF Planned, TypeOK
  <2>2. Left(todo'[p]) \subseteq Left(todo[p]) /\ <<"plan", h>> \in Left(todo[p])
    BY <1>1, <1>2, LessIsLeft, NextStepIs
  <2>3. QED
    BY <1>2, <1>6, <2>1, <2>2
<1>9. QED
  BY <1>1, <1>2, <1>7, <1>8, StepsPlanned

(* A root that a planner writes out has been planned.                       *)
LEMMA WritingOf ==
  ASSUME TypeOK, Ordered, NEW p \in Procs, Planned(p), At(p, "publish") \/ At(p, "text")
  PROVE  LET h == NextStep(p)[2]
         IN  /\ h \in Roots /\ cmd[p].name \in Planners /\ h \in cmd[p].scopes
             /\ NextStep(p) = <<NextStep(p)[1], h>> /\ cut[p] = 0
             /\ <<"plan", h>> \notin Left(todo[p]) /\ NextStep(p) \notin Left(Tail(todo[p]))
             /\ begun[p].edition[h] <= edition[h]
             /\ begun[p].edition[h] = edition[h] => IsPlan(h, CanonItems(h), plans[p][h].ids)
<1>1. PICK h : h = NextStep(p)[2]
  OBVIOUS
<1>2. /\ h \in Roots /\ cmd[p].name \in Planners /\ h \in cmd[p].scopes
      /\ NextStep(p) = <<NextStep(p)[1], h>> /\ NextStep(p) \in {<<"publish", h>>, <<"text", h>>}
      /\ todo[p] # <<>>
  BY <1>1, RootIs, NextStepIs DEF At
<1>3. cut[p] = 0 /\ result[p] = "none" /\ begun[p].edition[h] <= edition[h]
  BY <1>2 DEF Planned, At
<1>4. /\ NextStep(p) \notin Left(Tail(todo[p])) /\ <<"plan", h>> \notin Left(todo[p])
      /\ <<"read", Canon(h)>> \notin Left(todo[p]) /\ <<"list", Canon(h)>> \notin Left(todo[p])
  BY <1>2, HeadIs
<1>5. ASSUME begun[p].edition[h] = edition[h]
      PROVE  IsPlan(h, CanonItems(h), plans[p][h].ids)
  <2>1. Fresh(p, h)
    BY <1>2, <1>3, <1>5 DEF Fresh
  <2>2. ~ Ahead(p, h, {"list", "read", "plan"})
    BY <1>4 DEF Ahead
  <2>3. QED
    BY <1>2, <2>1, <2>2 DEF Planned, Progress
<1>6. QED
  BY <1>1, <1>2, <1>3, <1>4, <1>5

LEMMA WritingProgresses ==
  ASSUME TypeOK, Ordered, NEW p \in Procs, NEW r \in Roots, Progress(p, r),
         At(p, "publish") \/ At(p, "text"), Continue(p), UNCHANGED <<files, listed, got, plans>>
  PROVE  Progress(p, r)'
<1>1. /\ NextStep(p) \notin {<<"list", Canon(r)>>, <<"read", Canon(r)>>, <<"plan", r>>}
      /\ todo[p] # <<>>
  BY DEF At
<1>2. todo'[p] = Tail(todo[p]) /\ GotOf(p, r)' = GotOf(p, r)
  BY DEF Continue, TypeOK, GotOf
<1>3. QED
  BY <1>1, <1>2, StepsElsewhere

LEMMA PublishingPlanned ==
  ASSUME TypeOK, Ordered, NEW p \in Procs, Planned(p), UpToDate, Publish(p)
  PROVE  Planned(p)' /\ UpToDate'
<1>1. PICK h \in Roots : h = NextStep(p)[2]
  BY WritingOf DEF Publish
<1>2. /\ digest' = [digest EXCEPT ![h] = plans[p][h].ids]
      /\ compiled' = [compiled EXCEPT ![h] = begun[p].edition[h]]
      /\ Continue(p) /\ At(p, "publish") /\ todo[p] # <<>>
      /\ UNCHANGED <<files, edition, cmd, listed, got, cut, plans, text, begun>>
  BY <1>1 DEF Publish, At, store, working
<1>3. /\ cut[p] = 0 /\ begun[p].edition[h] <= edition[h]
      /\ begun[p].edition[h] = edition[h] => IsPlan(h, CanonItems(h), plans[p][h].ids)
  BY <1>1, <1>2, WritingOf
<1>4. UpToDate'
  <2>1. \A r \in Roots : CanonItems(r)' = CanonItems(r)
    BY <1>2, FiledIsKept
  <2>2. digest'[h] = plans[p][h].ids /\ compiled'[h] = begun[p].edition[h]
    BY <1>2 DEF TypeOK, Over
  <2>3. \A r \in Roots : r # h => digest'[r] = digest[r] /\ compiled'[r] = compiled[r]
    BY <1>2 DEF TypeOK, Over
  <2>4. ASSUME NEW r \in Roots
        PROVE  /\ compiled'[r] <= edition[r]
               /\ compiled'[r] = edition[r] => IsPlan(r, CanonItems(r), digest'[r])
    <3>1. CASE r = h
      BY <1>3, <2>2, <3>1
    <3>2. CASE r # h
      BY <2>3, <3>2 DEF UpToDate
    <3>3. QED
      BY <3>1, <3>2
  <2>5. QED
    BY <1>2, <2>1, <2>4 DEF UpToDate
<1>5. \A r \in Roots : Progress(p, r) => Progress(p, r)'
  BY <1>2, WritingProgresses
<1>6. Left(todo'[p]) \subseteq Left(todo[p])
  BY <1>2, LessIsLeft
<1>7. cmd[p].name \in Planners => \A r \in begun'[p].current :
        /\ <<"plan", r>> \notin Left(todo'[p]) /\ <<"text", r>> \notin Left(todo'[p])
        /\ text'[p][r] = plans'[p][r].ids
  BY <1>2, <1>6 DEF Planned
<1>8. Planned(p)'
  BY <1>2, <1>3, <1>5, <1>7, StepsPlanned
<1>9. QED
  BY <1>4, <1>8

LEMMA PrintingPlanned ==
  ASSUME TypeOK, Ordered, NEW p \in Procs, Planned(p), UpToDate, PrintText(p)
  PROVE  Planned(p)'
<1>1. PICK h \in Roots : h = NextStep(p)[2]
  BY WritingOf DEF PrintText
<1>2. PICK t : t = IF digest[h] = NoDigest THEN plans[p][h].ids ELSE digest[h]
  OBVIOUS
<1>3. PICK C : C = IF Current(p, h) THEN begun[p].current \cup {h} ELSE begun[p].current
  OBVIOUS
<1>4. /\ text' = [text EXCEPT ![p][h] = t]
      /\ begun' = [begun EXCEPT ![p].current = C]
      /\ Continue(p) /\ At(p, "text") /\ todo[p] # <<>>
      /\ UNCHANGED <<files, edition, cmd, listed, got, cut, plans>>
  BY <1>1, <1>2, <1>3 DEF PrintText, At, store
<1>5. /\ cut[p] = 0 /\ cmd[p].name \in Planners /\ NextStep(p) = <<"text", h>>
      /\ <<"plan", h>> \notin Left(todo[p]) /\ <<"text", h>> \notin Left(Tail(todo[p]))
      /\ begun[p].edition[h] = edition[h] => IsPlan(h, CanonItems(h), plans[p][h].ids)
  <2>1. NextStep(p)[1] = "text"
    BY <1>4 DEF At
  <2>2. QED
    BY <1>1, <1>4, <2>1, WritingOf
<1>6. begun'[p].edition = begun[p].edition /\ begun'[p].current = C
  BY <1>4 DEF TypeOK
<1>7. text'[p][h] = t /\ \A r \in Roots : r # h => text'[p][r] = text[p][r]
  <2>1. Over(Procs, text) /\ Over(Roots, text[p])
    BY DEF TypeOK
  <2>2. text'[p] = [text[p] EXCEPT ![h] = t]
    BY <1>4, <2>1 DEF Over
  <2>3. QED
    BY <2>1, <2>2 DEF Over
<1>8. Current(p, h) => t = plans[p][h].ids
  <2>1. ASSUME Current(p, h), digest[h] # NoDigest
        PROVE  digest[h] = plans[p][h].ids
    <3>1. begun[p].edition[h] = edition[h] /\ compiled[h] = edition[h]
      BY <2>1 DEF Current
    <3>2. IsPlan(h, CanonItems(h), plans[p][h].ids) /\ IsPlan(h, CanonItems(h), digest[h])
      BY <1>5, <3>1 DEF UpToDate
    <3>3. QED
      BY <3>2, CanonItemsFinite, OnePlan
  <2>2. QED
    BY <1>2, <2>1
<1>9. Left(todo'[p]) \subseteq Left(todo[p]) /\ todo'[p] = Tail(todo[p])
  BY <1>4, LessIsLeft DEF Continue, TypeOK
<1>10. ASSUME NEW r \in C
       PROVE  /\ <<"plan", r>> \notin Left(todo'[p]) /\ <<"text", r>> \notin Left(todo'[p])
              /\ text'[p][r] = plans'[p][r].ids
  <2>1. CASE r = h
    <3>1. <<"text", h>> \in Left(todo[p])
      BY <1>4, <1>5, NextStepIs
    <3>2. h \notin begun[p].current
      BY <1>5, <3>1 DEF Planned
    <3>3. Current(p, h)
      BY <1>3, <1>10, <2>1, <3>2
    <3>4. QED
      BY <1>4, <1>5, <1>7, <1>8, <1>9, <2>1, <3>3
  <2>2. CASE r # h
    <3>1. r \in begun[p].current /\ r \in Roots
      BY <1>3, <1>10, <2>2 DEF TypeOK
    <3>2. QED
      BY <1>4, <1>5, <1>7, <1>9, <2>2, <3>1 DEF Planned
  <2>3. QED
    BY <2>1, <2>2
<1>11. \A r \in Roots : Progress(p, r) => Progress(p, r)'
  BY <1>4, WritingProgresses
<1>12. QED
  BY <1>4, <1>5, <1>6, <1>10, <1>11, StepsPlanned

LEMMA ReadingLeavesPlans ==
  ASSUME TypeOK, Ordered, UpToDate, \A p \in Procs : Planned(p), NEW q \in Procs, Reading(q)
  PROVE  UpToDate' /\ \A p \in Procs : Planned(p)'
<1>1. \A p \in Procs \ {q} : Planned(p)'
  BY OthersArePlanned
<1>2. Planned(q)'
  BY StartsPlanned, LookingPlanned, ShrinksPlanned, PlansPlanned, PublishingPlanned, PrintingPlanned
  DEF Reading
<1>3. files' = files /\ edition' = edition
  BY ReadersKeepApart DEF store
<1>4. CASE Publish(q)
  BY <1>1, <1>2, <1>4, PublishingPlanned
<1>5. CASE ~ Publish(q)
  <2>1. digest' = digest /\ compiled' = compiled
    BY <1>5 DEF Reading, Start, ListDirectory, ReadNothing, ReadNext, Shrink, MakePlan, PrintText
  <2>2. \A r \in Roots : CanonItems(r)' = CanonItems(r)
    BY <1>3, FiledIsKept
  <2>3. UpToDate'
    BY <1>3, <2>1, <2>2 DEF UpToDate
  <2>4. QED
    BY <1>1, <1>2, <2>3
<1>6. QED
  BY <1>4, <1>5

LEMMA PlansStay == Spec => [](UpToDate /\ \A p \in Procs : Planned(p))
<1>. DEFINE I == UpToDate /\ \A p \in Procs : Planned(p)
<1>1. Init => I
  <2>. SUFFICES ASSUME Init PROVE I
    OBVIOUS
  <2>1. UpToDate
    BY DEF Init, UpToDate
  <2>2. ASSUME NEW p \in Procs
        PROVE  Planned(p)
    <3>1. todo[p] = <<>> /\ cut[p] = 0 /\ begun[p] = NotBegun /\ cmd[p].name = "lint"
      BY DEF Init, Nothing
    <3>2. \A r \in Roots : begun[p].edition[r] = 1 /\ edition[r] = 1
      BY <3>1 DEF NotBegun, Init
    <3>3. QED
      BY <3>1, <3>2 DEF Planned, Fresh, Planners
  <2>3. QED
    BY <2>1, <2>2
<1>2. TypeOK /\ Ordered /\ I /\ [Next]_vars => I'
  <2>. SUFFICES ASSUME TypeOK, Ordered, I, [Next]_vars
                PROVE  I'
    OBVIOUS
  <2>1. CASE UNCHANGED vars
    <3>1. \A r \in Roots : CanonItems(r)' = CanonItems(r) /\ Filed(r)' = Filed(r)
      BY <2>1, FiledIsKept DEF vars, store
    <3>2. UpToDate'
      BY <2>1, <3>1 DEF vars, store, UpToDate
    <3>3. ASSUME NEW p \in Procs
          PROVE  Planned(p)'
      <4>1. UNCHANGED <<files, edition, cmd, todo, listed, got, cut, plans, text, result, begun>>
        BY <2>1 DEF vars, store, working
      <4>2. Planned(p)
        OBVIOUS
      <4>3. \A r \in Roots : /\ Fresh(p, r)' <=> Fresh(p, r)
                             /\ Progress(p, r)' <=> Progress(p, r)
                             /\ Shrunk(p, r)' <=> Shrunk(p, r)
        BY <3>1, <4>1 DEF Fresh, Progress, Shrunk, GotOf, Ahead, Stands, NextStep
      <4>4. QED
        BY <4>1, <4>2, <4>3 DEF Planned, NextStep
    <3>4. QED
      BY <3>2, <3>3
  <2>2. QED
    BY <2>1, MovesLeavePlans, ReadingLeavesPlans DEF Next
<1>3. QED
  BY <1>1, <1>2, StepsStayOrdered, PTL DEF Spec

(* A digest that is up to date and the plan of a context that is up to date *)
(* are both the one plan of the canon as it is: the same memories.          *)
THEOREM ContextsAgree == Spec => []ContextAgrees
<1>1. (\A p \in Procs : Planned(p)) => ContextAgrees
  BY DEF Planned, Planners, ContextAgrees, Ran
<1>2. QED
  BY <1>1, PlansStay, PTL
-----------------------------------------------------------------------------
(* The best records, of finitely many of different places in a directory.   *)

Placed(S) ==
  /\ IsFiniteSet(S)
  /\ \A x \in S : \A k \in 1 .. 4 : Key(x)[k] \in Int
  /\ \A x, y \in S : x # y => Key(x)[4] # Key(y)[4]

LEMMA RanksAreStrict ==
  ASSUME NEW S, Placed(S), NEW x \in S, NEW y \in S, NEW z \in S
  PROVE  /\ ~ RanksBefore(x, x)
         /\ RanksBefore(x, y) /\ RanksBefore(y, z) => RanksBefore(x, z)
         /\ x # y => RanksBefore(x, y) \/ RanksBefore(y, x)
<1>1. PICK u, v, w : u = Key(x) /\ v = Key(y) /\ w = Key(z)
  OBVIOUS
<1>2. /\ u[1] \in Int /\ u[2] \in Int /\ u[3] \in Int /\ u[4] \in Int
      /\ v[1] \in Int /\ v[2] \in Int /\ v[3] \in Int /\ v[4] \in Int
      /\ w[1] \in Int /\ w[2] \in Int /\ w[3] \in Int /\ w[4] \in Int
  BY <1>1 DEF Placed
<1>. DEFINE Above(a, b) == \E k \in 1 .. 4 : a[k] > b[k] /\ \A j \in 1 .. (k - 1) : a[j] = b[j]
<1>3. /\ RanksBefore(x, x) <=> Above(u, u)
      /\ RanksBefore(x, y) <=> Above(u, v)
      /\ RanksBefore(y, x) <=> Above(v, u)
      /\ RanksBefore(y, z) <=> Above(v, w)
      /\ RanksBefore(x, z) <=> Above(u, w)
  BY <1>1 DEF RanksBefore
<1>4. ~ Above(u, u)
  BY <1>2
<1>5. ASSUME Above(u, v), Above(v, w)
      PROVE  Above(u, w)
  <2>1. PICK k \in 1 .. 4 : u[k] > v[k] /\ \A j \in 1 .. (k - 1) : u[j] = v[j]
    BY <1>5
  <2>2. PICK l \in 1 .. 4 : v[l] > w[l] /\ \A j \in 1 .. (l - 1) : v[j] = w[j]
    BY <1>5
  <2>3. PICK m \in 1 .. 4 : m = IF k < l THEN k ELSE l
    OBVIOUS
  <2>4. u[m] > w[m]
    BY <1>2, <2>1, <2>2, <2>3
  <2>5. \A j \in 1 .. (m - 1) : u[j] = w[j]
    BY <2>1, <2>2, <2>3
  <2>6. QED
    BY <2>4, <2>5
<1>6. ASSUME x # y
      PROVE  Above(u, v) \/ Above(v, u)
  <2>1. u[4] # v[4]
    BY <1>1, <1>6 DEF Placed
  <2>2. \A k \in 1 .. 4 : k = 1 \/ k = 2 \/ k = 3 \/ k = 4
    OBVIOUS
  <2>3. CASE u[1] # v[1]
    BY <1>2, <2>3
  <2>4. CASE u[1] = v[1] /\ u[2] # v[2]
    BY <1>2, <2>4
  <2>5. CASE u[1] = v[1] /\ u[2] = v[2] /\ u[3] # v[3]
    BY <1>2, <2>5
  <2>6. CASE u[1] = v[1] /\ u[2] = v[2] /\ u[3] = v[3]
    BY <1>2, <2>1, <2>6
  <2>7. QED
    BY <2>3, <2>4, <2>5, <2>6
<1>7. QED
  BY <1>3, <1>4, <1>5, <1>6

(* How many are better.                                                     *)
RankOf(S, x) == Cardinality({y \in S : RanksBefore(y, x)})

LEMMA RanksAre ==
  ASSUME NEW S, Placed(S), NEW n \in Nat, n = Cardinality(S)
  PROVE  /\ \A x \in S : RankOf(S, x) \in 0 .. (n - 1)
         /\ \A x, y \in S : RankOf(S, x) < RankOf(S, y) <=> RanksBefore(x, y)
         /\ \A k \in 1 .. n : \E x \in S : RankOf(S, x) = k - 1
         /\ \A x, y \in S : RankOf(S, x) = RankOf(S, y) => x = y
<1>1. IsFiniteSet(S)
  BY DEF Placed
<1>2. ASSUME NEW x \in S
      PROVE  RankOf(S, x) \in 0 .. (n - 1)
  <2>1. PICK B \in SUBSET S : B = {y \in S : RanksBefore(y, x)}
    OBVIOUS
  <2>2. x \notin B
    BY <2>1, RanksAreStrict
  <2>3. IsFiniteSet(B) /\ Cardinality(B) <= n /\ Cardinality(B) # n /\ Cardinality(B) \in Nat
    BY <1>1, <2>2, FS_Subset, FS_CardinalityType
  <2>4. QED
    BY <2>1, <2>3 DEF RankOf
<1>3. ASSUME NEW x \in S, NEW y \in S, RanksBefore(x, y)
      PROVE  RankOf(S, x) < RankOf(S, y)
  <2>1. PICK A, B : A = {z \in S : RanksBefore(z, x)} /\ B = {z \in S : RanksBefore(z, y)}
    OBVIOUS
  <2>2. A \subseteq B
    BY <1>3, <2>1, RanksAreStrict
  <2>3. x \in B /\ x \notin A
    BY <1>3, <2>1, RanksAreStrict
  <2>4. IsFiniteSet(A) /\ IsFiniteSet(B)
    BY <1>1, <2>1, FS_Subset
  <2>5. Cardinality(A) <= Cardinality(B) /\ Cardinality(A) # Cardinality(B)
    BY <2>2, <2>3, <2>4, FS_Subset
  <2>6. Cardinality(A) \in Nat /\ Cardinality(B) \in Nat
    BY <2>4, FS_CardinalityType
  <2>7. QED
    BY <2>1, <2>5, <2>6 DEF RankOf
<1>4. \A x, y \in S : RankOf(S, x) < RankOf(S, y) <=> RanksBefore(x, y)
  <2>1. ASSUME NEW x \in S, NEW y \in S, RankOf(S, x) < RankOf(S, y)
        PROVE  RanksBefore(x, y)
    <3>1. x # y
      BY <1>2, <2>1
    <3>2. ~ RanksBefore(y, x)
      BY <1>2, <1>3, <2>1
    <3>3. QED
      BY <3>1, <3>2, RanksAreStrict
  <2>2. QED
    BY <1>3, <2>1
<1>5. \A x, y \in S : RankOf(S, x) = RankOf(S, y) => x = y
  <2>1. ASSUME NEW x \in S, NEW y \in S, x # y
        PROVE  RankOf(S, x) # RankOf(S, y)
    <3>1. RanksBefore(x, y) \/ RanksBefore(y, x)
      BY <2>1, RanksAreStrict
    <3>2. QED
      BY <1>2, <1>3, <3>1
  <2>2. QED
    BY <2>1
<1>6. \A k \in 1 .. n : \E x \in S : RankOf(S, x) = k - 1
  <2>1. PICK f : f = [x \in S |-> RankOf(S, x) + 1]
    OBVIOUS
  <2>2. \A x \in S : f[x] = RankOf(S, x) + 1 /\ f[x] \in 1 .. n
    BY <1>2, <2>1
  <2>3. f \in [S -> 1 .. n]
    BY <2>1, <2>2
  <2>4. \A x, y \in S : f[x] = f[y] => x = y
    BY <1>2, <1>5, <2>2
  <2>5. f \in Injection(S, 1 .. n)
    BY <2>3, <2>4 DEF Injection, IsInjective
  <2>6. IsFiniteSet(1 .. n) /\ Cardinality(1 .. n) = n
    BY FS_Interval
  <2>7. f \in Surjection(S, 1 .. n)
    BY <2>5, <2>6, FS_Injection
  <2>8. \A k \in 1 .. n : \E x \in S : f[x] = k
    BY <2>7 DEF Surjection
  <2>9. QED
    BY <1>2, <2>2, <2>8
<1>7. QED
  BY <1>2, <1>4, <1>5, <1>6

(* Ranked takes them in this order.                                         *)
LEMMA RankedIs ==
  ASSUME NEW S, Placed(S), NEW n \in Nat, n = Cardinality(S), NEW k \in 1 .. n
  PROVE  Ranked(S)[k] \in S /\ RankOf(S, Ranked(S)[k]) = k - 1
<1>1. \E x \in S : Cardinality({y \in S : RanksBefore(y, x)}) = k - 1
  <2>1. PICK x \in S : RankOf(S, x) = k - 1
    BY RanksAre
  <2>2. QED
    BY <2>1 DEF RankOf
<1>2. Ranked(S)[k] = CHOOSE x \in S : Cardinality({y \in S : RanksBefore(y, x)}) = k - 1
  BY DEF Ranked
<1>3. QED
  BY <1>1, <1>2 DEF RankOf

LEMMA BestIs ==
  ASSUME NEW S, Placed(S), NEW n \in Nat, n = Cardinality(S), NEW k \in 0 .. n
  PROVE  /\ Best(S, k) = {x \in S : RankOf(S, x) < k}
         /\ Cardinality(Best(S, k)) = k
<1>1. \A i \in 1 .. n : Ranked(S)[i] \in S /\ RankOf(S, Ranked(S)[i]) = i - 1
  BY RankedIs
<1>2. \A x \in S : RankOf(S, x) \in 0 .. (n - 1)
  BY RanksAre
<1>3. \A x \in S : x = Ranked(S)[RankOf(S, x) + 1]
  <2>1. ASSUME NEW x \in S
        PROVE  x = Ranked(S)[RankOf(S, x) + 1]
    <3>1. PICK i \in 1 .. n : i = RankOf(S, x) + 1
      BY <1>2
    <3>2. Ranked(S)[i] \in S /\ RankOf(S, Ranked(S)[i]) = RankOf(S, x)
      BY <1>1, <1>2, <3>1
    <3>3. QED
      BY <3>1, <3>2, RanksAre
  <2>2. QED
    BY <2>1
<1>4. Best(S, k) = {x \in S : RankOf(S, x) < k}
  <2>1. \A i \in 1 .. k : Ranked(S)[i] \in S /\ RankOf(S, Ranked(S)[i]) < k
    BY <1>1
  <2>2. \A x \in S : RankOf(S, x) < k => RankOf(S, x) + 1 \in 1 .. k
    BY <1>2
  <2>3. QED
    BY <1>3, <2>1, <2>2 DEF Best
<1>5. PICK X : X = {x \in S : RankOf(S, x) < k}
  OBVIOUS
<1>6. PICK f : f = [x \in X |-> RankOf(S, x) + 1]
  OBVIOUS
<1>7. \A x \in X : x \in S /\ f[x] = RankOf(S, x) + 1 /\ f[x] \in 1 .. k
  BY <1>2, <1>5, <1>6
<1>8. f \in [X -> 1 .. k]
  BY <1>6, <1>7
<1>9. \A x, y \in X : f[x] = f[y] => x = y
  <2>1. ASSUME NEW x \in X, NEW y \in X, f[x] = f[y]
        PROVE  x = y
    <3>1. RankOf(S, x) = RankOf(S, y)
      BY <1>2, <1>7, <2>1
    <3>2. QED
      BY <1>7, <3>1, RanksAre
  <2>2. QED
    BY <2>1
<1>10. f \in Injection(X, 1 .. k)
  BY <1>8, <1>9 DEF Injection, IsInjective
<1>11. \A i \in 1 .. k : \E x \in X : f[x] = i
  <2>1. ASSUME NEW i \in 1 .. k
        PROVE  \E x \in X : f[x] = i
    <3>1. Ranked(S)[i] \in S /\ RankOf(S, Ranked(S)[i]) = i - 1
      BY <1>1
    <3>2. Ranked(S)[i] \in X
      BY <1>5, <3>1
    <3>3. f[Ranked(S)[i]] = i
      BY <1>7, <3>1, <3>2
    <3>4. QED
      BY <3>2, <3>3
  <2>2. QED
    BY <2>1
<1>12. f \in Surjection(X, 1 .. k)
  BY <1>8, <1>11 DEF Surjection
<1>13. IsFiniteSet(1 .. k) /\ Cardinality(1 .. k) = k
  BY FS_Interval
<1>14. Cardinality(X) = k
  BY <1>10, <1>12, <1>13, FS_Injection
<1>15. QED
  BY <1>4, <1>5, <1>14

(* What BestFit says of the ids of a plan made from the candidates S. *)
ChosenBest(r, S, ids) ==
  LET k == Len(ids)
  IN  \E X \in SUBSET S :
        /\ Cardinality(X) = k /\ {x.record.id : x \in X} = {ids[i] : i \in 1 .. k}
        /\ \A x \in X, y \in S \ X : RanksBefore(x, y)
        /\ k <= MaxBullets[r] /\ (k > 0 => SizeOf(X) <= MaxBytes[r])
        /\ \A y \in S \ X :
             (\A z \in S \ X : z = y \/ RanksBefore(y, z)) =>
               k = MaxBullets[r] \/ ~ SizeOf(X \cup {y}) <= MaxBytes[r]

(* A plan is what BestFit says.                                             *)
LEMMA PlansAreBest ==
  ASSUME NEW S, Placed(S), NEW r \in Roots, NEW ids, IsPlan(r, S, ids)
  PROVE  ChosenBest(r, S, ids)
<1>1. IsFiniteSet(S)
  BY DEF Placed
<1>2. PICK n, m \in Nat : n = Cardinality(S) /\ m = Allowed(S, r)
  BY <1>1, AllowedIs
<1>3. m <= n /\ m <= MaxBullets[r] /\ (m = n \/ m = MaxBullets[r]) /\ MaxBullets[r] \in Nat
  BY <1>1, <1>2, AllowedIs, ReaderBudgetAssumption
<1>4. PICK k \in 0 .. m : /\ k = 0 \/ Fits(S, k, r)
                          /\ \A j \in (k + 1) .. m : ~ Fits(S, j, r)
                          /\ ids = [i \in 1 .. k |-> Ranked(S)[i].record.id]
  BY <1>2 DEF IsPlan
<1>5. Len(ids) = k /\ \A i \in 1 .. k : ids[i] = Ranked(S)[i].record.id
  BY <1>4
<1>6. k \in 0 .. n
  BY <1>3
<1>7. PICK X : X = Best(S, k)
  OBVIOUS
<1>8. X = {x \in S : RankOf(S, x) < k} /\ Cardinality(X) = k
  BY <1>2, <1>6, <1>7, BestIs
<1>9. {x.record.id : x \in X} = {ids[i] : i \in 1 .. k}
  BY <1>5, <1>7 DEF Best
<1>10. ASSUME NEW x \in X, NEW y \in S \ X
       PROVE  RanksBefore(x, y)
  <2>1. RankOf(S, x) \in Int /\ RankOf(S, y) \in Int
    BY <1>2, <1>8, RanksAre
  <2>2. RankOf(S, x) < RankOf(S, y)
    BY <1>8, <2>1
  <2>3. QED
    BY <1>2, <1>8, <2>2, RanksAre
<1>11. k > 0 => SizeOf(X) <= MaxBytes[r]
  BY <1>4, <1>7 DEF Fits
<1>12. ASSUME NEW y \in S \ X, \A z \in S \ X : z = y \/ RanksBefore(y, z), k # MaxBullets[r]
       PROVE  ~ SizeOf(X \cup {y}) <= MaxBytes[r]
  <2>1. RankOf(S, y) \in 0 .. (n - 1) /\ RankOf(S, y) >= k
    BY <1>2, <1>8, RanksAre
  <2>2. k + 1 \in 1 .. n /\ k + 1 \in 0 .. n
    BY <2>1
  <2>3. k + 1 \in (k + 1) .. m
    BY <1>3, <1>12, <2>2
  <2>4. PICK z \in S : RankOf(S, z) = k
    <3>1. PICK z \in S : RankOf(S, z) = (k + 1) - 1
      BY <1>2, <2>2, RanksAre
    <3>2. QED
      BY <3>1
  <2>5. z \in S \ X
    BY <1>8, <2>4
  <2>6. ~ RanksBefore(y, z)
    <3>1. ~ (RankOf(S, y) < RankOf(S, z))
      BY <2>1, <2>4
    <3>2. QED
      BY <1>2, <3>1, RanksAre
  <2>7. z = y
    BY <1>12, <2>5, <2>6
  <2>8. Best(S, k + 1) = {x \in S : RankOf(S, x) < k + 1}
    BY <1>2, <2>2, BestIs
  <2>9. \A x \in S : RankOf(S, x) < k + 1 <=> RankOf(S, x) < k \/ x = y
    <3>1. ASSUME NEW x \in S
          PROVE  RankOf(S, x) < k + 1 <=> RankOf(S, x) < k \/ x = y
      <4>1. RankOf(S, x) \in Int
        BY <1>2, RanksAre
      <4>2. RankOf(S, x) = k => x = y
        BY <1>2, <2>4, <2>7, RanksAre
      <4>3. QED
        BY <2>4, <2>7, <4>1, <4>2
    <3>2. QED
      BY <3>1
  <2>10. Best(S, k + 1) = X \cup {y}
    BY <1>8, <2>8, <2>9
  <2>11. ~ Fits(S, k + 1, r)
    BY <1>4, <2>3
  <2>12. QED
    BY <2>10, <2>11 DEF Fits
<1>13. X \in SUBSET S /\ k <= MaxBullets[r]
  BY <1>3, <1>8
<1>14. QED
  BY <1>5, <1>8, <1>9, <1>10, <1>11, <1>12, <1>13 DEF ChosenBest
-----------------------------------------------------------------------------
(* What a plan is made of, whatever happens to the files meanwhile.         *)

(* Of a root that is not planned yet nothing is read twice.                 *)
Told(p, r) ==
  LET S == Candidates(p, r)
  IN  /\ Ahead(p, r, {"list"}) => GotOf(p, r) = {}
      /\ \A g, h \in GotOf(p, r) : g.path = h.path => g = h
      /\ \A g \in GotOf(p, r) : g.path[2] \notin listed[p][Canon(r)]
      /\ NextStep(p) = <<"plan", r>> /\ todo[p] # <<>> =>
           /\ cut[p] <= Allowed(S, r)
           /\ \A k \in (Allowed(S, r) - cut[p] + 1) .. Allowed(S, r) : ~ Fits(S, k, r)
      /\ ~ Ahead(p, r, {"list", "read", "plan"}) =>
           /\ IsPlan(r, S, plans[p][r].ids)
           /\ plans[p][r].omitted = Cardinality(S) - Len(plans[p][r].ids)

Choosing(p) ==
  cmd[p].name \in Planners /\ result[p] \in {"none", "ok"} => \A r \in cmd[p].scopes : Told(p, r)

(* The records in the files of a directory can be ranked.                   *)
LEMMA ItemsArePlaced ==
  ASSUME NEW r \in Roots, NEW G \in SUBSET [path : Paths, file : File],
         \A g \in G : g.path[1] = Canon(r), \A g, h \in G : g.path = h.path => g = h
  PROVE  Placed(Items(G, {Canon(r)}))
<1>1. PICK S : S = Items(G, {Canon(r)})
  OBVIOUS
<1>2. ASSUME NEW x \in S
      PROVE  \E g \in G :
               /\ g.path = <<Canon(r), g.path[2]>> /\ g.path[2] \in Names
               /\ g.file.record \in Record /\ x = Item(g.path, g.file.record)
  <2>1. PICK g \in G : g.file.form = "record" /\ x = Item(g.path, g.file.record)
    BY <1>1, <1>2 DEF Items
  <2>2. g.path \in Paths /\ g.file \in File /\ g.path[1] = Canon(r)
    OBVIOUS
  <2>3. QED
    BY <2>1, <2>2, DirectoriesAre, FilesAreThere
<1>3. \A x, y \in S : x.path[2] = y.path[2] => x = y
  <2>1. ASSUME NEW x \in S, NEW y \in S, x.path[2] = y.path[2]
        PROVE  x = y
    <3>1. PICK g \in G : g.path = <<Canon(r), g.path[2]>> /\ x = Item(g.path, g.file.record)
      BY <1>2
    <3>2. PICK h \in G : h.path = <<Canon(r), h.path[2]>> /\ y = Item(h.path, h.file.record)
      BY <1>2
    <3>3. x.path = g.path /\ y.path = h.path
      BY <3>1, <3>2 DEF Item
    <3>4. g.path = h.path
      BY <2>1, <3>1, <3>2, <3>3
    <3>5. g = h
      BY <3>4
    <3>6. QED
      BY <3>1, <3>2, <3>5
  <2>2. QED
    BY <2>1
<1>4. ASSUME NEW x \in S
      PROVE  /\ x.path[2] \in Names
             /\ Key(x)[1] \in Int /\ Key(x)[2] \in Int /\ Key(x)[3] \in Int
             /\ Key(x)[4] \in Int /\ Key(x)[4] = - x.path[2]
  <2>1. PICK g \in G :
               /\ g.path[2] \in Names
               /\ g.file.record \in Record /\ x = Item(g.path, g.file.record)
    BY <1>2
  <2>2. x.path = g.path /\ x.record = g.file.record
    BY <2>1 DEF Item
  <2>3. x.record \in Record /\ x.path[2] \in Names
    BY <2>1, <2>2
  <2>4. x.record.at \in Nat /\ x.record.id \in Names /\ x.record.score \in Scores
    BY <2>3 DEF Record
  <2>5. x.record.score.retain \in Nat
    BY <2>4, ReaderScoresAssumption
  <2>6. x.record.id \in Nat /\ x.path[2] \in Nat
    BY <2>3, <2>4, ReaderNamesAssumption
  <2>7. QED
    BY <2>3, <2>4, <2>5, <2>6 DEF Key
<1>5. IsFiniteSet(S)
  <2>1. PICK f : f = [x \in S |-> x.path[2]]
    OBVIOUS
  <2>2. \A x \in S : f[x] = x.path[2] /\ f[x] \in Names
    BY <1>4, <2>1
  <2>3. f \in [S -> Names] /\ \A x, y \in S : f[x] = f[y] => x = y
    BY <1>3, <2>1, <2>2
  <2>4. f \in Injection(S, Names)
    BY <2>3 DEF Injection, IsInjective
  <2>5. QED
    BY <2>4, FS_Injection, ReaderNamesAssumption
<1>6. \A x \in S : \A k \in 1 .. 4 : Key(x)[k] \in Int
  <2>1. \A k \in 1 .. 4 : k = 1 \/ k = 2 \/ k = 3 \/ k = 4
    OBVIOUS
  <2>2. QED
    BY <1>4, <2>1
<1>7. \A x, y \in S : x # y => Key(x)[4] # Key(y)[4]
  <2>1. ASSUME NEW x \in S, NEW y \in S, x # y
        PROVE  Key(x)[4] # Key(y)[4]
    <3>1. x.path[2] # y.path[2]
      BY <1>3, <2>1
    <3>2. PICK a, b \in Nat : a = x.path[2] /\ b = y.path[2]
      BY <1>4, ReaderNamesAssumption
    <3>3. Key(x)[4] = - a /\ Key(y)[4] = - b /\ a # b
      BY <1>4, <3>1, <3>2
    <3>4. QED
      BY <3>2, <3>3
  <2>2. QED
    BY <2>1
<1>8. QED
  BY <1>1, <1>5, <1>6, <1>7 DEF Placed

LEMMA CandidatesArePlaced ==
  ASSUME TypeOK, NEW p \in Procs, NEW r \in Roots,
         \A g, h \in GotOf(p, r) : g.path = h.path => g = h
  PROVE  Placed(Candidates(p, r))
<1>1. PICK G : G = GotOf(p, r)
  OBVIOUS
<1>2. G \in SUBSET [path : Paths, file : File] /\ \A g \in G : g.path[1] = Canon(r)
  BY <1>1 DEF GotOf, TypeOK
<1>3. Placed(Items(G, {Canon(r)}))
  BY <1>1, <1>2, ItemsArePlaced
<1>4. QED
  BY <1>1, <1>3, ItemsAre

(* A step that leaves a root alone, and cuts nothing.                       *)
LEMMA ToldElsewhere ==
  ASSUME TypeOK, Ordered, NEW p \in Procs, NEW r \in Roots, Told(p, r), todo[p] # <<>>,
         NextStep(p) \notin {<<"list", Canon(r)>>, <<"read", Canon(r)>>, <<"plan", r>>},
         todo'[p] \in {todo[p], Tail(todo[p])}, GotOf(p, r)' = GotOf(p, r), cut'[p] = 0,
         listed'[p][Canon(r)] = listed[p][Canon(r)], plans'[p][r] = plans[p][r]
  PROVE  Told(p, r)'
<1>1. Left(todo[p]) = {NextStep(p)} \cup Left(Tail(todo[p]))
  BY NextStepIs
<1>2. \A x \in {<<"list", Canon(r)>>, <<"read", Canon(r)>>, <<"plan", r>>} :
        x \in Left(todo'[p]) <=> x \in Left(todo[p])
  BY <1>1
<1>3. \A ops \in SUBSET {"list", "read", "plan"} : Ahead(p, r, ops)' <=> Ahead(p, r, ops)
  BY <1>2 DEF Ahead
<1>4. Candidates(p, r) = Items(GotOf(p, r), {Canon(r)})
  BY ItemsAre
<1>5. Candidates(p, r)' = Candidates(p, r)
  <2>1. Candidates(p, r)' = Items(GotOf(p, r)', {Canon(r)})
    BY DEF Candidates, Items, GotOf
  <2>2. QED
    BY <1>4, <2>1
<1>6. Allowed(Candidates(p, r), r) \in Nat
  <2>1. Placed(Candidates(p, r))
    BY CandidatesArePlaced DEF Told
  <2>2. QED
    BY <2>1, AllowedIs DEF Placed
<1>7. QED
  BY <1>3, <1>5, <1>6 DEF Told

LEMMA StartsTold ==
  ASSUME TypeOK, NEW p \in Procs, NEW c \in Commands, Start(p, c)
  PROVE  Choosing(p)'
<1>1. /\ cmd'[p] = c /\ todo'[p] = Steps(c) /\ got'[p] = {} /\ cut'[p] = 0
  BY DEF Start, TypeOK
<1>2. c.scopes \subseteq Roots
  BY ReaderCommandsAssumption
<1>3. ASSUME NEW r \in c.scopes, c.name \in Planners
      PROVE  Told(p, r)'
  <2>1. <<"list", Canon(r)>> \in Left(todo'[p])
    BY <1>1, <1>3, StepsAreOrderly
  <2>2. Ahead(p, r, {"list", "read", "plan"})'
    BY <2>1 DEF Ahead
  <2>3. GotOf(p, r)' = {}
    BY <1>1 DEF GotOf
  <2>4. Candidates(p, r)' = {}
    <3>1. Candidates(p, r)' = Items({}, {Canon(r)})
      BY <1>1 DEF Candidates
    <3>2. QED
      BY <3>1 DEF Items
  <2>5. Allowed({}, r) \in Nat
    BY <1>2, <1>3, FS_EmptySet, AllowedIs
  <2>6. QED
    BY <1>1, <2>2, <2>3, <2>4, <2>5 DEF Told
<1>4. QED
  BY <1>1, <1>3 DEF Choosing

LEMMA ListingTold ==
  ASSUME TypeOK, Ordered, NEW p \in Procs, Planned(p), NEW r \in Roots, r \in cmd[p].scopes,
         cmd[p].name \in Planners, Told(p, r), ListDirectory(p)
  PROVE  Told(p, r)'
<1>1. PICK d \in Dirs : NextStep(p) = <<"list", d>> /\ d = NextStep(p)[2] /\ todo[p] # <<>>
  <2>1. NextStep(p) \in Operations /\ NextStep(p)[1] = "list" /\ todo[p] # <<>> /\ NextStep(p)[2] \in Dirs
    BY NextStepIs DEF ListDirectory, At
  <2>2. QED
    BY <2>1 DEF Operations
<1>2. /\ listed' = [listed EXCEPT ![p][d] = {n \in Names : files[<<d, n>>] # NoFile}]
      /\ Continue(p) /\ got' = got /\ plans' = plans /\ cut' = cut
  BY <1>1 DEF ListDirectory
<1>3. todo'[p] = Tail(todo[p]) /\ cut'[p] = 0
  BY <1>1, <1>2 DEF Continue, TypeOK, Planned
<1>4. GotOf(p, r)' = GotOf(p, r)
  BY <1>2 DEF GotOf
<1>5. CASE d = Canon(r)
  <2>1. /\ <<"read", Canon(r)>> \in Left(Tail(todo[p])) /\ <<"list", Canon(r)>> \in Left(todo[p])
    BY <1>1, <1>5, HeadIs
  <2>2. Ahead(p, r, {"list"}) /\ Ahead(p, r, {"list", "read", "plan"})'
    BY <1>3, <2>1 DEF Ahead
  <2>3. GotOf(p, r)' = {}
    BY <1>4, <2>2 DEF Told
  <2>4. Candidates(p, r)' = {}
    <3>1. Candidates(p, r)' = Items(GotOf(p, r)', {Canon(r)})
      BY DEF Candidates, Items, GotOf
    <3>2. QED
      BY <2>3, <3>1 DEF Items
  <2>5. Allowed({}, r) \in Nat
    BY FS_EmptySet, AllowedIs
  <2>6. QED
    BY <1>3, <2>2, <2>3, <2>4, <2>5 DEF Told
<1>6. CASE d # Canon(r)
  <2>1. listed'[p][Canon(r)] = listed[p][Canon(r)]
    BY <1>2, <1>6, DirectoriesAre DEF TypeOK
  <2>2. NextStep(p) \notin {<<"list", Canon(r)>>, <<"read", Canon(r)>>, <<"plan", r>>}
    BY <1>1, <1>6
  <2>3. QED
    BY <1>1, <1>2, <1>3, <1>4, <2>1, <2>2, ToldElsewhere
<1>7. QED
  BY <1>5, <1>6

LEMMA ReadingTold ==
  ASSUME TypeOK, Ordered, NEW p \in Procs, Planned(p), NEW r \in Roots, r \in cmd[p].scopes,
         cmd[p].name \in Planners, Told(p, r), ReadNothing(p) \/ ReadNext(p),
         result'[p] \in {"none", "ok"}
  PROVE  Told(p, r)'
<1>1. PICK d \in Dirs : /\ NextStep(p) = <<"read", d>> /\ d = NextStep(p)[2] /\ NextStep(p)[1] # "plan"
                       /\ todo[p] # <<>>
  <2>1. NextStep(p) \in Operations /\ NextStep(p)[1] = "read" /\ todo[p] # <<>> /\ NextStep(p)[2] \in Dirs
    BY NextStepIs DEF ReadNothing, ReadNext, At
  <2>2. QED
    BY <2>1 DEF Operations
<1>2. plans' = plans /\ cut'[p] = 0
  <2>1. plans' = plans /\ cut' = cut
    BY DEF ReadNothing, ReadNext, working
  <2>2. QED
    BY <1>1, <2>1 DEF Planned
<1>3. Canon(r) \in Dirs
  BY DirectoriesAre
<1>4. ASSUME d = Canon(r), todo'[p] \in {todo[p], Tail(todo[p])}
      PROVE  ~ Ahead(p, r, {"list"})' /\ Ahead(p, r, {"list", "read", "plan"})'
  <2>1. /\ <<"plan", r>> \in Left(Tail(todo[p])) /\ <<"plan", r>> \in Left(todo[p])
        /\ <<"list", Canon(r)>> \notin Left(todo[p]) /\ <<"list", Canon(r)>> \notin Left(Tail(todo[p]))
    BY <1>1, <1>4, HeadIs
  <2>2. QED
    BY <1>4, <2>1 DEF Ahead
<1>5. ASSUME d # Canon(r)
      PROVE  NextStep(p) \notin {<<"list", Canon(r)>>, <<"read", Canon(r)>>, <<"plan", r>>}
  BY <1>1, <1>5
<1>6. ASSUME d = Canon(r), todo'[p] \in {todo[p], Tail(todo[p])}, TypeOK',
             \A g, h \in GotOf(p, r)' : g.path = h.path => g = h,
             \A g \in GotOf(p, r)' : g.path[2] \notin listed'[p][Canon(r)]
      PROVE  Told(p, r)'
  <2>1. Placed(Candidates(p, r)')
    <3>1. PICK G : G = GotOf(p, r)'
      OBVIOUS
    <3>2. G \in SUBSET [path : Paths, file : File] /\ \A g \in G : g.path[1] = Canon(r)
      BY <1>6, <3>1 DEF GotOf, TypeOK
    <3>3. Placed(Items(G, {Canon(r)}))
      BY <1>6, <3>1, <3>2, ItemsArePlaced
    <3>4. Candidates(p, r)' = Items(G, {Canon(r)})
      BY <3>1 DEF Candidates, Items, GotOf
    <3>5. QED
      BY <3>3, <3>4
  <2>2. Allowed(Candidates(p, r)', r) \in Nat
    BY <2>1, AllowedIs DEF Placed
  <2>3. QED
    BY <1>2, <1>4, <1>6, <2>2 DEF Told
<1>7. CASE ReadNothing(p)
  <2>1. listed' = listed /\ got' = got /\ Continue(p)
    BY <1>7 DEF ReadNothing, working
  <2>2. GotOf(p, r)' = GotOf(p, r) /\ todo'[p] = Tail(todo[p])
    BY <2>1 DEF GotOf, Continue, TypeOK
  <2>3. CASE d = Canon(r)
    BY <1>6, <1>7, <2>1, <2>2, <2>3, ReadTypes DEF Told
  <2>4. CASE d # Canon(r)
    BY <1>1, <1>2, <1>5, <2>1, <2>2, <2>4, ToldElsewhere
  <2>5. QED
    BY <2>3, <2>4
<1>8. CASE ReadNext(p)
  <2>1. PICK q : q = <<d, Min(listed[p][d])>>
    OBVIOUS
  <2>2. listed[p][d] \in SUBSET Names /\ listed[p][d] # {}
    BY <1>1, <1>8 DEF ReadNext, TypeOK
  <2>3. q \in Paths /\ q[1] = d /\ q = <<d, q[2]>> /\ q[2] \in listed[p][d]
    BY <2>1, <2>2, SmallestName, DirectoriesAre
  <2>4. /\ listed' = [listed EXCEPT ![p][d] = @ \ {q[2]}]
        /\ got' = [got EXCEPT ![p] = @ \cup {[path |-> q, file |-> ReadFile(q)]}]
    BY <1>1, <1>8, <2>1 DEF ReadNext
  <2>5. /\ listed'[p][d] = listed[p][d] \ {q[2]}
        /\ \A e \in Dirs : e # d => listed'[p][e] = listed[p][e]
        /\ got'[p] = got[p] \cup {[path |-> q, file |-> ReadFile(q)]}
    BY <2>4 DEF TypeOK
  <2>6. Continue(p) \/ UNCHANGED todo
    <3>1. PICK how : how = Load(cmd[p].name, q, ReadFile(q))
      OBVIOUS
    <3>2. /\ how # "ok" => Stop(p, how)
          /\ how = "ok" => Continue(p) \/ UNCHANGED todo
      BY <1>1, <1>8, <2>1, <3>1 DEF ReadNext
    <3>3. how \in {"ok", "reported"}
      BY <3>1 DEF Planners, Load, LoadForDigest, Reported
    <3>4. how = "ok"
      BY <3>2, <3>3 DEF Stop, TypeOK
    <3>5. QED
      BY <3>2, <3>4
  <2>7. todo'[p] \in {todo[p], Tail(todo[p])}
    BY <2>6 DEF Continue, TypeOK
  <2>8. CASE d = Canon(r)
    <3>1. PICK g : g = [path |-> q, file |-> ReadFile(q)]
      OBVIOUS
    <3>2. g.path = q /\ GotOf(p, r)' = GotOf(p, r) \cup {g}
      BY <2>3, <2>5, <2>8, <3>1 DEF GotOf
    <3>3. \A h \in GotOf(p, r) : h.path[2] \notin listed[p][Canon(r)] /\ h.path # q
      BY <2>3, <2>8 DEF Told
    <3>4. \A h, i \in GotOf(p, r)' : h.path = i.path => h = i
      BY <3>2, <3>3 DEF Told
    <3>5. \A h \in GotOf(p, r)' : h.path[2] \notin listed'[p][Canon(r)]
      BY <2>5, <2>8, <3>2, <3>3
    <3>6. TypeOK'
      BY <1>8, ReadTypes
    <3>7. QED
      BY <1>6, <2>7, <2>8, <3>4, <3>5, <3>6
  <2>9. CASE d # Canon(r)
    <3>1. GotOf(p, r)' = GotOf(p, r)
      BY <2>3, <2>5, <2>9 DEF GotOf
    <3>2. listed'[p][Canon(r)] = listed[p][Canon(r)]
      BY <1>3, <2>5, <2>9
    <3>3. QED
      BY <1>1, <1>2, <1>5, <2>7, <2>9, <3>1, <3>2, ToldElsewhere
  <2>10. QED
    BY <2>8, <2>9
<1>9. QED
  BY <1>7, <1>8

LEMMA ShrinkingTold ==
  ASSUME TypeOK, Ordered, NEW p \in Procs, NEW r \in Roots, Told(p, r), Shrink(p)
  PROVE  Told(p, r)'
<1>1. /\ todo[p] # <<>> /\ NextStep(p)[1] = "plan"
      /\ UNCHANGED <<todo, listed, got, plans>> /\ cut'[p] = cut[p] + 1
  BY DEF Shrink, At, TypeOK
<1>2. PICK S : S = Candidates(p, r)
  OBVIOUS
<1>3. Candidates(p, r)' = S /\ GotOf(p, r)' = GotOf(p, r)
  BY <1>1, <1>2 DEF Candidates, GotOf
<1>4. \A ops : Ahead(p, r, ops)' <=> Ahead(p, r, ops)
  BY <1>1 DEF Ahead
<1>5. NextStep(p)' = NextStep(p)
  BY <1>1 DEF NextStep
<1>6. ASSUME NextStep(p) = <<"plan", r>>
      PROVE  /\ cut'[p] <= Allowed(S, r)
             /\ \A k \in (Allowed(S, r) - cut'[p] + 1) .. Allowed(S, r) : ~ Fits(S, k, r)
  <2>1. Placed(S)
    BY <1>2, CandidatesArePlaced DEF Told
  <2>2. PICK m, c \in Nat : m = Allowed(S, r) /\ c = cut[p]
    BY <2>1, AllowedIs DEF Placed, TypeOK
  <2>3. c <= m /\ \A k \in (m - c + 1) .. m : ~ Fits(S, k, r)
    BY <1>1, <1>2, <1>6, <2>2 DEF Told
  <2>4. NextStep(p)[2] = r
    BY <1>6
  <2>5. m - c > 0 /\ ~ Fits(S, m - c, r)
    BY <1>2, <2>2, <2>4 DEF Shrink, Included
  <2>6. cut'[p] = c + 1 /\ c + 1 <= m
    BY <1>1, <2>2, <2>5
  <2>7. \A k \in (m - (c + 1) + 1) .. m : k = m - c \/ k \in (m - c + 1) .. m
    BY <2>2
  <2>8. \A k \in (m - (c + 1) + 1) .. m : ~ Fits(S, k, r)
    BY <2>3, <2>5, <2>7
  <2>9. QED
    BY <2>2, <2>6, <2>8
<1>7. QED
  BY <1>1, <1>2, <1>3, <1>4, <1>5, <1>6 DEF Told

LEMMA PlansTold ==
  ASSUME TypeOK, Ordered, NEW p \in Procs, NEW r \in Roots, Told(p, r), MakePlan(p)
  PROVE  Told(p, r)'
<1>1. PICK h \in Roots : h = NextStep(p)[2] /\ NextStep(p) = <<"plan", h>> /\ todo[p] # <<>>
  BY NextStepIs, RootIs DEF MakePlan, At
<1>2. /\ Continue(p) /\ cut'[p] = 0 /\ UNCHANGED <<listed, got>>
  BY DEF MakePlan, TypeOK
<1>3. todo'[p] = Tail(todo[p])
  BY <1>2 DEF Continue, TypeOK
<1>4. PICK ids, omitted :
        /\ ids = [i \in 1 .. Included(p, h) |-> Ranked(Candidates(p, h))[i].record.id]
        /\ omitted = Cardinality(Candidates(p, h)) - Included(p, h)
        /\ plans' = [plans EXCEPT ![p][h] = [ids |-> ids, omitted |-> omitted]]
  BY <1>1 DEF MakePlan
<1>5. /\ plans'[p][h].ids = ids /\ plans'[p][h].omitted = omitted
      /\ \A q \in Roots : q # h => plans'[p][q] = plans[p][q]
  <2>1. Over(Procs, plans) /\ Over(Roots, plans[p])
    BY DEF TypeOK
  <2>2. plans'[p] = [plans[p] EXCEPT ![h] = [ids |-> ids, omitted |-> omitted]]
    BY <1>4, <2>1 DEF Over
  <2>3. QED
    BY <2>1, <2>2 DEF Over
<1>6. PICK S : S = Candidates(p, r)
  OBVIOUS
<1>7. Candidates(p, r)' = S /\ GotOf(p, r)' = GotOf(p, r)
  BY <1>2, <1>6 DEF Candidates, GotOf
<1>8. CASE r = h
  <2>1. Placed(S)
    BY <1>6, CandidatesArePlaced DEF Told
  <2>2. PICK m, c \in Nat : m = Allowed(S, r) /\ c = cut[p]
    BY <2>1, AllowedIs DEF Placed, TypeOK
  <2>3. c <= m /\ \A k \in (m - c + 1) .. m : ~ Fits(S, k, r)
    BY <1>1, <1>6, <1>8, <2>2 DEF Told
  <2>4. PICK k \in 0 .. m : k = m - c
    BY <2>2, <2>3
  <2>5. Included(p, r) = k
    BY <1>6, <2>2, <2>3, <2>4 DEF Included
  <2>6. k = 0 \/ Fits(S, k, r)
    BY <1>1, <1>6, <1>8, <2>5 DEF MakePlan
  <2>7. ids = [i \in 1 .. k |-> Ranked(S)[i].record.id] /\ omitted = Cardinality(S) - k
    BY <1>4, <1>6, <1>8, <2>5
  <2>8. Len(ids) = k
    BY <2>7
  <2>9. \A j \in (k + 1) .. m : ~ Fits(S, j, r)
    BY <2>3, <2>4
  <2>10. IsPlan(r, S, ids)
    BY <2>2, <2>6, <2>7, <2>9 DEF IsPlan
  <2>11. /\ <<"plan", r>> \notin Left(todo'[p]) /\ <<"read", Canon(r)>> \notin Left(todo'[p])
         /\ <<"list", Canon(r)>> \notin Left(todo'[p])
    <3>1. NextStep(p)[1] = "plan"
      BY <1>1
    <3>2. cmd[p].name \in Planners /\ r \in cmd[p].scopes
      BY <1>1, <1>8, <3>1, RootIs
    <3>3. QED
      BY <1>1, <1>3, <1>8, <3>2, HeadIs
  <2>12. ~ Ahead(p, r, {"list"})'
    BY <2>11 DEF Ahead
  <2>13. QED
    BY <1>2, <1>5, <1>7, <1>8, <2>2, <2>7, <2>8, <2>10, <2>12 DEF Told
<1>9. CASE r # h
  <2>1. NextStep(p) \notin {<<"list", Canon(r)>>, <<"read", Canon(r)>>, <<"plan", r>>}
    BY <1>1, <1>9
  <2>2. QED
    BY <1>1, <1>2, <1>3, <1>5, <1>7, <1>9, <2>1, ToldElsewhere
<1>10. QED
  BY <1>8, <1>9

LEMMA WritingTold ==
  ASSUME TypeOK, Ordered, NEW p \in Procs, Planned(p), NEW r \in Roots, Told(p, r),
         Publish(p) \/ PrintText(p)
  PROVE  Told(p, r)'
<1>1. /\ NextStep(p) \notin {<<"list", Canon(r)>>, <<"read", Canon(r)>>, <<"plan", r>>}
      /\ todo[p] # <<>> /\ Continue(p) /\ UNCHANGED <<listed, got, plans, cut>>
  BY DEF Publish, PrintText, At, working
<1>2. cut'[p] = 0
  BY <1>1, WritingOf DEF Publish, PrintText
<1>3. todo'[p] = Tail(todo[p]) /\ GotOf(p, r)' = GotOf(p, r)
  BY <1>1 DEF Continue, TypeOK, GotOf
<1>4. QED
  BY <1>1, <1>2, <1>3, ToldElsewhere

LEMMA ReadingChooses ==
  ASSUME TypeOK, Ordered, NEW q \in Procs, Reading(q), NEW p \in Procs, Planned(p), Choosing(p)
  PROVE  Choosing(p)'
<1>1. CASE p # q
  <2>1. /\ cmd'[p] = cmd[p] /\ todo'[p] = todo[p] /\ listed'[p] = listed[p] /\ got'[p] = got[p]
        /\ cut'[p] = cut[p] /\ plans'[p] = plans[p] /\ result'[p] = result[p]
    BY <1>1, ReadersKeepApart
  <2>2. NextStep(p)' = NextStep(p)
    BY <2>1 DEF NextStep
  <2>3. ASSUME NEW r \in Roots
        PROVE  Told(p, r)' <=> Told(p, r)
    <3>1. Candidates(p, r)' = Candidates(p, r) /\ GotOf(p, r)' = GotOf(p, r)
      BY <2>1 DEF Candidates, GotOf
    <3>2. \A ops : Ahead(p, r, ops)' <=> Ahead(p, r, ops)
      BY <2>1 DEF Ahead
    <3>3. QED
      BY <2>1, <2>2, <3>1, <3>2 DEF Told
  <2>4. cmd[p].scopes \subseteq Roots
    BY ScopesAreRoots
  <2>5. QED
    BY <2>1, <2>3, <2>4 DEF Choosing
<1>2. CASE p = q
  <2>1. ASSUME NEW c \in Commands, Start(p, c)
        PROVE  Choosing(p)'
    BY <2>1, StartsTold
  <2>2. ASSUME \/ ListDirectory(p) \/ ReadNothing(p) \/ ReadNext(p)
               \/ Shrink(p) \/ MakePlan(p) \/ Publish(p) \/ PrintText(p),
               cmd[p].name \in Planners, result'[p] \in {"none", "ok"}, NEW r \in cmd[p].scopes
        PROVE  Told(p, r)' /\ cmd' = cmd
    <3>1. todo[p] # <<>> /\ cmd' = cmd
      BY <2>2 DEF ListDirectory, ReadNothing, ReadNext, Shrink, MakePlan, Publish, PrintText, At
    <3>2. result[p] = "none"
      BY <3>1 DEF Planned
    <3>3. r \in Roots /\ Told(p, r)
      BY <2>2, <3>2, ScopesAreRoots DEF Choosing
    <3>4. Told(p, r)'
      BY <2>2, <3>3, ListingTold, ReadingTold, ShrinkingTold, PlansTold, WritingTold
    <3>5. QED
      BY <3>1, <3>4
  <2>3. ASSUME \/ ListDirectory(p) \/ ReadNothing(p) \/ ReadNext(p)
               \/ Shrink(p) \/ MakePlan(p) \/ Publish(p) \/ PrintText(p)
        PROVE  Choosing(p)'
    <3>1. cmd' = cmd
      BY <2>3 DEF ListDirectory, ReadNothing, ReadNext, Shrink, MakePlan, Publish, PrintText
    <3>2. QED
      BY <2>2, <2>3, <3>1 DEF Choosing
  <2>4. QED
    BY <1>2, <2>1, <2>3 DEF Reading
<1>3. QED
  BY <1>1, <1>2

(* A compile or a context that gets to its end has chosen, of what it read, *)
(* the best records in the order of _record_sort_key and one more would be  *)
(* too many or too long.                                                    *)
THEOREM PlansFitBest == Spec => []BestFit
<1>. DEFINE J == \A p \in Procs : Choosing(p)
<1>1. Init => J
  BY DEF Init, Nothing, Choosing, Planners
<1>. DEFINE P == UpToDate /\ \A p \in Procs : Planned(p)
<1>2. TypeOK /\ Ordered /\ P /\ J /\ [Next]_vars => J'
  <2>. SUFFICES ASSUME TypeOK, Ordered, P, J, [Next]_vars
                PROVE  J'
    OBVIOUS
  <2>1. CASE UNCHANGED <<cmd, todo, listed, got, cut, plans, result>>
    <3>1. ASSUME NEW p \in Procs
          PROVE  Choosing(p)'
      <4>1. NextStep(p)' = NextStep(p)
        BY <2>1 DEF NextStep
      <4>2. \A r \in Roots : Candidates(p, r)' = Candidates(p, r) /\ GotOf(p, r)' = GotOf(p, r)
        BY <2>1 DEF Candidates, GotOf
      <4>3. \A r \in Roots : \A ops : Ahead(p, r, ops)' <=> Ahead(p, r, ops)
        BY <2>1 DEF Ahead
      <4>4. \A r \in Roots : Told(p, r)' <=> Told(p, r)
        BY <2>1, <4>1, <4>2, <4>3 DEF Told
      <4>5. cmd[p].scopes \subseteq Roots
        BY ScopesAreRoots
      <4>6. QED
        BY <2>1, <4>4, <4>5 DEF Choosing
    <3>2. QED
      BY <3>1
  <2>2. Moving => UNCHANGED <<cmd, todo, listed, got, cut, plans, result>>
    BY MovesKeepReaders
  <2>3. UNCHANGED vars => UNCHANGED <<cmd, todo, listed, got, cut, plans, result>>
    BY DEF vars, working
  <2>4. ASSUME NEW q \in Procs, Reading(q)
        PROVE  J'
    BY <2>4, ReadingChooses
  <2>5. QED
    BY <2>1, <2>2, <2>3, <2>4 DEF Next
<1>3. TypeOK /\ Following /\ J => BestFit
  <2>. SUFFICES ASSUME TypeOK, Following, J, NEW p \in Procs,
                       Ran(p, "compile") \/ Ran(p, "context"), NEW r \in cmd[p].scopes
                PROVE  /\ plans[p][r].omitted
                            = Cardinality(Candidates(p, r)) - Len(plans[p][r].ids)
                       /\ ChosenBest(r, Candidates(p, r), plans[p][r].ids)
    BY DEF BestFit, ChosenBest
  <2>1. r \in Roots
    BY ScopesAreRoots
  <2>2. Left(todo[p]) = {}
    BY DEF Following, Followed, Left, Ran
  <2>3. Told(p, r) /\ ~ Ahead(p, r, {"list", "read", "plan"})
    BY <2>2 DEF Choosing, Ran, Planners, Ahead
  <2>4. Placed(Candidates(p, r))
    BY <2>1, <2>3, CandidatesArePlaced DEF Told
  <2>5. /\ IsPlan(r, Candidates(p, r), plans[p][r].ids)
        /\ plans[p][r].omitted = Cardinality(Candidates(p, r)) - Len(plans[p][r].ids)
    BY <2>3 DEF Told
  <2>6. QED
    BY <2>1, <2>4, <2>5, PlansAreBest
<1>4. QED
  <2>1. Spec => []P
    BY PlansStay
  <2>. HIDE DEF P, J
  <2>2. QED
    BY <1>1, <1>2, <1>3, <2>1, StepsStayOrdered, SeenStays, PTL DEF Spec
-----------------------------------------------------------------------------
(* The rounds in which lint looks for duplicates.                           *)

(* Induction, for sets. *)
LEMMA Naturals ==
  ASSUME NEW T, 0 \in T, \A k \in Nat : k \in T => k + 1 \in T
  PROVE  Nat \subseteq T
<1>1. SUFFICES ASSUME Nat \ T # {}
               PROVE  FALSE
  OBVIOUS
<1>2. IsWellFoundedOn(OpToRel(<, Nat), Nat)
  BY NatLessThanWellFounded
<1>3. PICK m \in Nat \ T : \A y \in Nat \ T : <<y, m>> \notin OpToRel(<, Nat)
  BY <1>1, <1>2, WFMin
<1>4. \A y \in Nat \ T : ~ (y < m)
  BY <1>3 DEF OpToRel
<1>5. m \in Nat /\ m \notin T /\ m # 0
  BY <1>3, Zenon
<1>6. m - 1 \in Nat /\ m - 1 < m /\ (m - 1) + 1 = m
  BY <1>5
<1>7. QED
  BY <1>4, <1>5, <1>6

(* The rounds are well defined: they are those of ever longer beginnings.   *)
LEMMA RoundsExist ==
  ASSUME NEW b
  PROVE  \E f : f = [k \in Nat |-> IF k = 0 THEN b ELSE AfterRound(f[k - 1])]
<1>. DEFINE Trace(n, g) == g[0] = b /\ \A k \in 1 .. n : g[k] = AfterRound(g[k - 1])
<1>1. \A n \in Nat : \E g : Trace(n, g)
  <2>. DEFINE T == {n \in Nat : \E g : Trace(n, g)}
  <2>1. 0 \in T
    <3>1. PICK g : g = [k \in {0} |-> b]
      OBVIOUS
    <3>2. Trace(0, g)
      BY <3>1
    <3>3. QED
      BY <3>2
  <2>2. ASSUME NEW n \in Nat, n \in T
        PROVE  n + 1 \in T
    <3>1. PICK g : Trace(n, g)
      BY <2>2
    <3>2. PICK h : h = [k \in 0 .. (n + 1) |-> IF k = n + 1 THEN AfterRound(g[n]) ELSE g[k]]
      OBVIOUS
    <3>3. h[0] = b
      BY <3>1, <3>2
    <3>4. ASSUME NEW k \in 1 .. (n + 1)
          PROVE  h[k] = AfterRound(h[k - 1])
      <4>1. CASE k = n + 1
        BY <3>2, <4>1
      <4>2. CASE k # n + 1
        <5>1. k \in 1 .. n /\ k \in 0 .. (n + 1) /\ k - 1 \in 0 .. (n + 1) /\ k - 1 # n + 1
          BY <4>2
        <5>2. h[k] = g[k] /\ h[k - 1] = g[k - 1]
          BY <3>2, <4>2, <5>1
        <5>3. QED
          BY <3>1, <5>1, <5>2
      <4>3. QED
        BY <4>1, <4>2
    <3>5. Trace(n + 1, h)
      BY <3>3, <3>4
    <3>6. QED
      BY <2>2, <3>5
  <2>. HIDE DEF T
  <2>3. Nat \subseteq T
    BY <2>1, <2>2, Naturals
  <2>4. QED
    BY <2>3 DEF T
<1>2. ASSUME NEW n \in Nat, NEW m \in Nat, NEW g, Trace(n, g), NEW h, Trace(m, h),
             NEW k \in Nat, k <= n, k <= m
      PROVE  g[k] = h[k]
  <2>. DEFINE T == {i \in Nat : i <= n /\ i <= m => g[i] = h[i]}
  <2>1. 0 \in T
    BY <1>2
  <2>2. ASSUME NEW i \in Nat, i \in T
        PROVE  i + 1 \in T
    <3>1. SUFFICES ASSUME i + 1 <= n, i + 1 <= m
                   PROVE  g[i + 1] = h[i + 1]
      BY <2>2
    <3>2. i + 1 \in 1 .. n /\ i + 1 \in 1 .. m /\ (i + 1) - 1 = i
      BY <3>1
    <3>3. g[i] = h[i]
      BY <2>2, <3>1
    <3>4. g[i + 1] = AfterRound(g[i]) /\ h[i + 1] = AfterRound(h[i])
      BY <1>2, <3>2
    <3>5. QED
      BY <3>3, <3>4
  <2>. HIDE DEF T
  <2>3. Nat \subseteq T
    BY <2>1, <2>2, Naturals
  <2>4. QED
    BY <1>2, <2>3 DEF T
<1>3. PICK G : G = [n \in Nat |-> CHOOSE g : Trace(n, g)]
  OBVIOUS
<1>4. \A n \in Nat : Trace(n, G[n])
  BY <1>1, <1>3
<1>5. PICK f : f = [k \in Nat |-> G[k][k]]
  OBVIOUS
<1>6. f[0] = b
  BY <1>4, <1>5
<1>7. ASSUME NEW k \in Nat \ {0}
      PROVE  f[k] = AfterRound(f[k - 1])
  <2>1. k - 1 \in Nat /\ k \in 1 .. k /\ k - 1 <= k
    OBVIOUS
  <2>2. G[k][k] = AfterRound(G[k][k - 1])
    BY <1>4, <2>1
  <2>3. G[k][k - 1] = G[k - 1][k - 1]
    <3>1. Trace(k, G[k]) /\ Trace(k - 1, G[k - 1])
      BY <1>4, <2>1
    <3>. HIDE DEF Trace
    <3>2. QED
      BY <1>2, <2>1, <3>1
  <2>4. QED
    BY <1>5, <2>1, <2>2, <2>3
<1>8. f = [k \in Nat |-> IF k = 0 THEN b ELSE AfterRound(f[k - 1])]
  <2>1. \A k \in Nat : f[k] = IF k = 0 THEN b ELSE AfterRound(f[k - 1])
    BY <1>6, <1>7
  <2>2. QED
    BY <1>5, <2>1
<1>9. QED
  BY <1>8

LEMMA RoundsAre ==
  ASSUME NEW S
  PROVE  \E f : /\ DuplicateItems(S) = f[Cardinality(S)].lost
                /\ f[0] = [left |-> S, lost |-> {}]
                /\ \A k \in Nat : f[k + 1] = AfterRound(f[k])
<1>. DEFINE b == [left |-> S, lost |-> {}]
<1>1. PICK f : f = CHOOSE g : g = [k \in Nat |-> IF k = 0 THEN b ELSE AfterRound(g[k - 1])]
  OBVIOUS
<1>2. f = [k \in Nat |-> IF k = 0 THEN b ELSE AfterRound(f[k - 1])]
  BY <1>1, RoundsExist
<1>3. f[0] = b
  BY <1>2
<1>4. ASSUME NEW k \in Nat
      PROVE  f[k + 1] = AfterRound(f[k])
  <2>1. k + 1 \in Nat /\ k + 1 # 0 /\ (k + 1) - 1 = k
    OBVIOUS
  <2>2. QED
    BY <1>2, <2>1
<1>5. DuplicateItems(S) = f[Cardinality(S)].lost
  BY <1>1 DEF DuplicateItems
<1>6. QED
  BY <1>3, <1>4, <1>5

(* Items that can be ranked, and of which no two are of the same id.        *)
Separate(S) ==
  /\ IsFiniteSet(S)
  /\ Rankable({x.record : x \in S})
  /\ \A x \in S : x.path[2] \in Nat
  /\ \A x, y \in S : x.record.id = y.record.id => x = y

LEMMA WinnerIsOne ==
  ASSUME NEW S, Separate(S), NEW R \in SUBSET S, R # {}
  PROVE  WinnerItem(R) \in R
<1>1. PICK M : M = {x.record : x \in R}
  OBVIOUS
<1>2. IsFiniteSet(M) /\ M # {}
  <2>1. IsFiniteSet(R)
    BY FS_Subset DEF Separate
  <2>2. PICK f : f = [x \in R |-> x.record]
    OBVIOUS
  <2>3. f \in Surjection(R, M)
    BY <1>1, <2>2 DEF Surjection
  <2>4. QED
    BY <1>1, <2>1, <2>3, FS_Surjection
<1>3. Rankable(M)
  BY <1>1 DEF Separate, Rankable
<1>4. \E x \in R : ~ \E y \in R : Better(y.record, x.record)
  <2>1. PICK m \in M : \A r \in M : ~ Better(r, m)
    BY <1>2, <1>3, BestAndWorst
  <2>2. QED
    BY <1>1, <2>1
<1>5. PICK w \in R : w = CHOOSE x \in R : ~ \E y \in R : Better(y.record, x.record)
  BY <1>4
<1>6. {x \in R : x.record.id = w.record.id} = {w}
  BY <1>5 DEF Separate
<1>7. w.path[2] <= w.path[2]
  BY <1>5 DEF Separate
<1>8. PICK same : same = {x \in R : x.record.id = w.record.id}
  OBVIOUS
<1>9. WinnerItem(R) = CHOOSE x \in same : \A y \in same : x.path[2] <= y.path[2]
  BY <1>5, <1>8 DEF WinnerItem
<1>10. WinnerItem(R) \in same
  BY <1>6, <1>7, <1>8, <1>9
<1>11. QED
  BY <1>5, <1>6, <1>8, <1>10

(* The rounds that find no duplicates find that there are none: the winner  *)
(* of each is compared with all that is left.                               *)
LEMMA NoneIsDuplicate ==
  ASSUME NEW S, Separate(S), DuplicateItems(S) = {}, NEW x \in S, NEW y \in S, x # y
  PROVE  ~ StrongDuplicate(x.record, y.record)
<1>1. PICK n \in Nat : n = Cardinality(S)
  BY FS_CardinalityType DEF Separate
<1>2. PICK f : /\ f[n].lost = {}
               /\ f[0] = [left |-> S, lost |-> {}]
               /\ \A k \in Nat : f[k + 1] = AfterRound(f[k])
  BY <1>1, RoundsAre
<1>3. \A k \in 0 .. n : f[k].lost = {}
  <2>. DEFINE T == {j \in Nat : j <= n => f[n - j].lost = {}}
  <2>1. 0 \in T
    BY <1>2
  <2>2. ASSUME NEW j \in Nat, j \in T
        PROVE  j + 1 \in T
    <3>1. SUFFICES ASSUME j + 1 <= n
                   PROVE  f[n - (j + 1)].lost = {}
      BY <2>2
    <3>2. PICK k \in Nat : k = n - (j + 1) /\ k + 1 = n - j
      BY <3>1
    <3>3. f[k + 1].lost = {}
      BY <2>2, <3>1, <3>2
    <3>4. f[k + 1] = AfterRound(f[k])
      BY <1>2
    <3>5. f[k].lost \subseteq f[k + 1].lost
      BY <3>4 DEF AfterRound
    <3>6. QED
      BY <3>2, <3>3, <3>5
  <2>. HIDE DEF T
  <2>3. Nat \subseteq T
    BY <2>1, <2>2, Naturals
  <2>4. ASSUME NEW k \in 0 .. n
        PROVE  f[k].lost = {}
    <3>1. n - k \in Nat /\ n - k <= n /\ n - (n - k) = k
      OBVIOUS
    <3>2. QED
      BY <2>3, <3>1 DEF T
  <2>5. QED
    BY <2>4
<1>. DEFINE Sifted(R) ==
       \A u \in S \ R, v \in S : u # v => ~ StrongDuplicate(u.record, v.record)
<1>4. \A u, v : StrongDuplicate(u, v) => StrongDuplicate(v, u)
  BY DEF StrongDuplicate, SameProvenance
<1>5. \A k \in 0 .. n : f[k].left \subseteq S /\ Cardinality(f[k].left) = n - k /\ Sifted(f[k].left)
  <2>. DEFINE I(k) == f[k].left \subseteq S /\ Cardinality(f[k].left) = n - k /\ Sifted(f[k].left)
              T    == {k \in Nat : k <= n => I(k)}
  <2>1. 0 \in T
    BY <1>1, <1>2
  <2>2. ASSUME NEW k \in Nat, k \in T
        PROVE  k + 1 \in T
    <3>1. SUFFICES ASSUME k + 1 <= n
                   PROVE  I(k + 1)
      BY <2>2
    <3>2. PICK R : R = f[k].left
      OBVIOUS
    <3>3. R \subseteq S /\ Cardinality(R) = n - k /\ Sifted(R)
      BY <2>2, <3>1, <3>2
    <3>4. IsFiniteSet(R) /\ R # {}
      <4>1. IsFiniteSet(R)
        BY <3>3, FS_Subset DEF Separate
      <4>2. Cardinality(R) # 0
        BY <3>1, <3>3
      <4>3. QED
        BY <4>1, <4>2, FS_EmptySet
    <3>5. PICK w \in R : w = WinnerItem(R)
      BY <3>3, <3>4, WinnerIsOne
    <3>6. PICK losers : losers = {u \in R \ {w} : StrongDuplicate(w.record, u.record)}
      OBVIOUS
    <3>7. f[k + 1] = [left |-> R \ ({w} \cup losers), lost |-> f[k].lost \cup losers]
      BY <1>2, <3>2, <3>4, <3>5, <3>6 DEF AfterRound
    <3>8. losers = {}
      <4>1. k + 1 \in 0 .. n
        BY <3>1
      <4>2. f[k + 1].lost = {}
        BY <1>3, <4>1
      <4>3. QED
        BY <3>7, <4>2
    <3>9. f[k + 1].left = R \ {w}
      BY <3>7, <3>8
    <3>10. Cardinality(R \ {w}) = n - (k + 1)
      <4>1. Cardinality(R \ {w}) = Cardinality(R) - 1
        BY <3>4, <3>5, FS_RemoveElement
      <4>2. QED
        BY <3>3, <4>1
    <3>11. Sifted(R \ {w})
      <4>1. ASSUME NEW u \in S \ (R \ {w}), NEW v \in S, u # v
            PROVE  ~ StrongDuplicate(u.record, v.record)
        <5>1. CASE u \notin R
          BY <3>3, <4>1, <5>1
        <5>2. CASE u = w /\ v \notin R
          <6>1. ~ StrongDuplicate(v.record, u.record)
            BY <3>3, <4>1, <5>2
          <6>2. QED
            BY <1>4, <6>1
        <5>3. CASE u = w /\ v \in R
          BY <3>6, <3>8, <4>1, <5>3
        <5>4. QED
          BY <4>1, <5>1, <5>2, <5>3
      <4>2. QED
        BY <4>1
    <3>12. QED
      BY <3>3, <3>9, <3>10, <3>11
  <2>. HIDE DEF T
  <2>3. Nat \subseteq T
    BY <2>1, <2>2, Naturals
  <2>4. QED
    BY <2>3 DEF T
<1>6. f[n].left \subseteq S /\ Cardinality(f[n].left) = 0 /\ Sifted(f[n].left)
  BY <1>5
<1>7. f[n].left = {}
  <2>1. IsFiniteSet(f[n].left)
    BY <1>6, FS_Subset DEF Separate
  <2>2. QED
    BY <1>6, <2>1, FS_EmptySet
<1>8. QED
  BY <1>6, <1>7
-----------------------------------------------------------------------------
(* What a clean lint says of the files, if it has read all that is there.   *)

Everything == {[path |-> q, file |-> files[q]] : q \in {x \in Paths : Stands(x)}}

LEMMA FindingsAre ==
  ASSUME NEW G
  PROVE  /\ \A g \in G : \A code \in LintFile(g.path, g.file) :
              Finding(g.path, code) \in LintFindings(G)
         /\ \A r \in Roots :
              /\ \A x \in DuplicateItems(InPlace(Items(G, {Canon(r)}))) :
                   Finding(x.path, "duplicate-conflict") \in LintFindings(G)
              /\ \A x \in Unresolved(InPlace(Items(G, {Canon(r), Archive(r)}))) :
                   Finding(x.path, "supersedes-invalid") \in LintFindings(G)
<1>. DEFINE Found(g) == {Finding(g.path, code) : code \in LintFile(g.path, g.file)}
            Double(r) == {Finding(x.path, "duplicate-conflict") :
                            x \in DuplicateItems(InPlace(Items(G, {Canon(r)})))}
            Loose(r)  == {Finding(x.path, "supersedes-invalid") :
                            x \in Unresolved(InPlace(Items(G, {Canon(r), Archive(r)})))}
<1>1. LintFindings(G) = (UNION {Found(g) : g \in G}) \cup (UNION {Double(r) \cup Loose(r) : r \in Roots})
  BY DEF LintFindings
<1>. HIDE DEF Found, Double, Loose
<1>2. /\ \A g \in G : Found(g) \subseteq LintFindings(G)
      /\ \A r \in Roots : Double(r) \subseteq LintFindings(G) /\ Loose(r) \subseteq LintFindings(G)
  <2>1. PICK L : L = LintFindings(G)
    OBVIOUS
  <2>2. PICK X, Y : /\ X = {Found(g) : g \in G} /\ Y = {Double(r) \cup Loose(r) : r \in Roots}
                    /\ L = (UNION X) \cup (UNION Y)
    BY <1>1, <2>1
  <2>3. \A g \in G : Found(g) \in X
    BY <2>2
  <2>4. \A r \in Roots : Double(r) \cup Loose(r) \in Y
    BY <2>2
  <2>5. \A Z : (Z \in X \/ Z \in Y) => Z \subseteq L
    <3>1. L = (UNION X) \cup (UNION Y)
      BY <2>2
    <3>2. ASSUME NEW Z, Z \in X \/ Z \in Y, NEW z \in Z
          PROVE  z \in L
      <4>1. z \in UNION X \/ z \in UNION Y
        BY <3>2
      <4>2. QED
        BY <3>1, <4>1
    <3>3. QED
      BY <3>2
  <2>6. QED
    BY <2>1, <2>3, <2>4, <2>5
<1>3. \A g \in G : \A code \in LintFile(g.path, g.file) : Finding(g.path, code) \in LintFindings(G)
  BY <1>2 DEF Found
<1>4. \A r \in Roots : \A x \in DuplicateItems(InPlace(Items(G, {Canon(r)}))) :
        Finding(x.path, "duplicate-conflict") \in LintFindings(G)
  BY <1>2 DEF Double
<1>5. \A r \in Roots : \A x \in Unresolved(InPlace(Items(G, {Canon(r), Archive(r)}))) :
        Finding(x.path, "supersedes-invalid") \in LintFindings(G)
  BY <1>2 DEF Loose
<1>6. QED
  BY <1>3, <1>4, <1>5

(* What is found in a file by itself.                                       *)
LEMMA CleanFiles ==
  ASSUME TypeOK, LintFindings(Everything) = {}, NEW q \in Paths, Stands(q)
  PROVE  /\ files[q].form = "record" /\ files[q].record \in Record
         /\ files[q].record.id = q[2] /\ ~ Misplaced(files[q].record, q[1])
         /\ ~ SecretLike(files[q].record.note)
<1>1. files[q] \in File
  BY DEF TypeOK, Stands
<1>2. LintFile(q, files[q]) = {}
  <2>1. PICK g : g = [path |-> q, file |-> files[q]]
    OBVIOUS
  <2>2. g \in Everything
    BY <2>1 DEF Everything
  <2>3. \A code \in LintFile(g.path, g.file) : Finding(g.path, code) \in LintFindings(Everything)
    BY <2>2, FindingsAre
  <2>4. QED
    BY <2>1, <2>3
<1>3. files[q].form \notin Undecodable /\ files[q].form \notin Malformed
  BY <1>2 DEF LintFile
<1>4. files[q].form = "record"
  BY <1>1, <1>3 DEF File
<1>5. files[q].record \in Record
  BY <1>1, <1>4, FilesAreThere
<1>6. {code \in {"record-path-mismatch", "record-invalid", "secret-like-content"} :
         CASE code = "record-path-mismatch" -> q[2] # files[q].record.id
           [] code = "record-invalid" -> Misplaced(files[q].record, q[1])
           [] code = "secret-like-content" -> SecretLike(files[q].record.note)} = {}
  BY <1>2, <1>3 DEF LintFile
<1>7. /\ ~ (q[2] # files[q].record.id) /\ ~ Misplaced(files[q].record, q[1])
      /\ ~ SecretLike(files[q].record.note)
  BY <1>6
<1>8. QED
  BY <1>4, <1>5, <1>7

(* The items of some directories.                                           *)
LEMMA CleanItems ==
  ASSUME TypeOK, LintFindings(Everything) = {}, NEW Ds \in SUBSET Dirs,
         NEW x \in Items(Everything, Ds)
  PROVE  /\ \E d \in Ds, n \in Names : /\ Stands(<<d, n>>) /\ <<d, n>> \in Paths
                                       /\ x = Item(<<d, n>>, files[<<d, n>>].record)
         /\ x.record \in Record /\ x.record.id = x.path[2] /\ x.path[1] \in Ds
         /\ x.path = <<x.path[1], x.path[2]>>
         /\ ~ Misplaced(x.record, x.path[1])
<1>1. PICK g \in Everything : g.path[1] \in Ds /\ x = Item(g.path, g.file.record)
  BY DEF Items
<1>2. PICK q \in Paths : Stands(q) /\ g = [path |-> q, file |-> files[q]]
  BY <1>1 DEF Everything
<1>3. x.path = q /\ x.record = files[q].record /\ x = Item(q, files[q].record) /\ q[1] \in Ds
  BY <1>1, <1>2 DEF Item
<1>4. q = <<q[1], q[2]>> /\ q[2] \in Names
  BY DirectoriesAre
<1>5. /\ files[q].record \in Record /\ files[q].record.id = q[2]
      /\ ~ Misplaced(files[q].record, q[1])
  BY <1>2, CleanFiles
<1>6. \E d \in Ds, n \in Names : /\ Stands(<<d, n>>) /\ <<d, n>> \in Paths
                                 /\ x = Item(<<d, n>>, files[<<d, n>>].record)
  BY <1>2, <1>3, <1>4, Zenon
<1>7. QED
  BY <1>3, <1>4, <1>5, <1>6

LEMMA StandingItems ==
  ASSUME TypeOK, LintFindings(Everything) = {}, NEW Ds \in SUBSET Dirs, NEW q \in Paths,
         Stands(q), q[1] \in Ds
  PROVE  Item(q, files[q].record) \in Items(Everything, Ds)
<1>1. PICK g : g = [path |-> q, file |-> files[q]]
  OBVIOUS
<1>2. g \in Everything
  BY <1>1 DEF Everything
<1>3. files[q].form = "record"
  BY CleanFiles
<1>4. g \in {h \in Everything : h.file.form = "record" /\ h.path[1] \in Ds}
  BY <1>1, <1>2, <1>3
<1>5. g.path = q /\ g.file = files[q]
  BY <1>1
<1>6. QED
  BY <1>4, <1>5 DEF Items

LEMMA CleanCanon ==
  ASSUME TypeOK, LintFindings(Everything) = {}, NEW r \in Roots
  PROVE  /\ Separate(CanonItems(r))
         /\ InPlace(CanonItems(r)) = CanonItems(r)
         /\ \A x \in CanonItems(r) : x.record \in Record /\ x.path = <<Canon(r), x.record.id>>
<1>1. PICK S : S = CanonItems(r)
  OBVIOUS
<1>2. S = Items(Everything, {Canon(r)}) /\ {Canon(r)} \in SUBSET Dirs
  BY <1>1, DirectoriesAre DEF CanonItems, Everything
<1>3. \A x \in S : /\ x.record \in Record /\ x.record.id = x.path[2] /\ x.path[1] = Canon(r)
                   /\ x.path = <<x.path[1], x.path[2]>> /\ ~ Misplaced(x.record, x.path[1])
  BY <1>2, CleanItems
<1>4. \A x, y \in S : x.record.id = y.record.id => x = y
  <2>1. ASSUME NEW x \in S, NEW y \in S, x.record.id = y.record.id
        PROVE  x = y
    <3>1. x.path = y.path
      BY <1>3, <2>1
    <3>2. PICK m \in Names : x = Item(<<Canon(r), m>>, files[<<Canon(r), m>>].record)
      BY <1>2, CleanItems
    <3>3. PICK n \in Names : y = Item(<<Canon(r), n>>, files[<<Canon(r), n>>].record)
      BY <1>2, CleanItems
    <3>4. x.path = <<Canon(r), m>> /\ y.path = <<Canon(r), n>>
      BY <3>2, <3>3 DEF Item
    <3>5. m = n
      <4>1. x.path[2] = m /\ y.path[2] = n
        BY <3>4
      <4>2. QED
        BY <3>1, <4>1
    <3>6. QED
      BY <3>2, <3>3, <3>5
  <2>2. QED
    BY <2>1
<1>5. IsFiniteSet(S)
  BY <1>1, CanonItemsFinite
<1>6. Rankable({x.record : x \in S})
  <2>1. ASSUME NEW t \in Record
        PROVE  /\ t.score.evidence \in Nat /\ t.score.durability \in Nat
               /\ t.score.retain \in Nat /\ t.at \in Nat /\ t.id \in Nat
    <3>1. t.score \in Scores /\ t.at \in Nat /\ t.id \in Names
      BY DEF Record
    <3>2. t.score \in [evidence : 0 .. 4, durability : 0 .. 4, retain : Nat]
      BY <3>1, ReaderScoresAssumption
    <3>3. t.id \in Nat
      BY <3>1, ReaderNamesAssumption
    <3>4. QED
      BY <3>1, <3>2, <3>3
  <2>2. QED
    BY <1>3, <2>1 DEF Rankable
<1>7. \A x \in S : x.path[2] \in Nat
  <2>1. \A x \in S : x.record.id \in Names
    BY <1>3 DEF Record
  <2>2. QED
    BY <1>3, <2>1, ReaderNamesAssumption
<1>8. InPlace(S) = S
  BY <1>3 DEF InPlace
<1>9. QED
  BY <1>1, <1>3, <1>4, <1>5, <1>6, <1>7, <1>8 DEF Separate

LEMMA CleanIsSound ==
  ASSUME TypeOK, LintFindings(Everything) = {}
  PROVE  Sound
<1>1. Loadable
  <2>1. SUFFICES ASSUME NEW q \in Paths, NEW c \in Commands, Stands(q)
                 PROVE  Load(c.name, q, files[q]) = "ok"
    BY DEF Loadable
  <2>2. /\ files[q].form = "record" /\ ~ Misplaced(files[q].record, q[1])
        /\ ~ SecretLike(files[q].record.note)
    BY <2>1, CleanFiles
  <2>3. /\ LoadForDigest(q, files[q]) = "ok" /\ LoadForRetrieval(q, files[q]) = "ok"
        /\ LoadForStatus(files[q]) = "ok"
    BY <2>2 DEF LoadForDigest, LoadForRetrieval, LoadForStatus, Reported
  <2>4. c.name \in {"lint", "doctor", "status", "search", "get", "compile", "context"}
    BY ReaderCommandsAssumption
  <2>5. QED
    BY <2>3, <2>4 DEF Load
<1>2. Unique
  <2>1. SUFFICES ASSUME NEW r \in Roots, NEW n \in Names
                 PROVE  Cardinality(Matches(CanonItems(r), n)) <= 1
    BY DEF Unique
  <2>2. PICK M : M = Matches(CanonItems(r), n)
    OBVIOUS
  <2>3. \A x, y \in M : x = y
    BY <2>2, CleanCanon DEF Matches, Separate
  <2>4. CASE M = {}
    BY <2>2, <2>4, FS_EmptySet
  <2>5. CASE M # {}
    <3>1. PICK x : M = {x}
      BY <2>3, <2>5
    <3>2. Cardinality(M) = 1
      BY <3>1, FS_Singleton
    <3>3. QED
      BY <2>2, <3>2
  <2>6. QED
    BY <2>4, <2>5
<1>3. NoneDuplicate
  <2>1. SUFFICES ASSUME NEW r \in Roots, NEW x \in CanonItems(r), NEW y \in CanonItems(r), x # y
                 PROVE  ~ StrongDuplicate(x.record, y.record)
    BY DEF NoneDuplicate
  <2>2. Separate(CanonItems(r)) /\ InPlace(CanonItems(r)) = CanonItems(r)
    BY CleanCanon
  <2>3. CanonItems(r) = Items(Everything, {Canon(r)})
    BY DEF CanonItems, Everything
  <2>4. PICK D : D = DuplicateItems(InPlace(Items(Everything, {Canon(r)})))
    OBVIOUS
  <2>5. \A z \in D : Finding(z.path, "duplicate-conflict") \in LintFindings(Everything)
    BY <2>4, FindingsAre
  <2>6. D = {}
    BY <2>5
  <2>7. DuplicateItems(CanonItems(r)) = {}
    BY <2>2, <2>3, <2>4, <2>6
  <2>8. QED
    BY <2>1, <2>2, <2>7, NoneIsDuplicate
<1>4. Resolved
  <2>1. SUFFICES ASSUME NEW r \in Roots, NEW x \in CanonItems(r), x.record.supersedes # NoId
                 PROVE  \E d \in {Canon(r), Archive(r)} : Stands(<<d, x.record.supersedes>>)
    BY DEF Resolved
  <2>2. PICK Ds : Ds = {Canon(r), Archive(r)}
    OBVIOUS
  <2>3. Ds \in SUBSET Dirs
    BY <2>2, DirectoriesAre
  <2>4. PICK S : S = Items(Everything, Ds)
    OBVIOUS
  <2>5. PICK U : U = Unresolved(InPlace(S))
    OBVIOUS
  <2>6. \A z \in U : Finding(z.path, "supersedes-invalid") \in LintFindings(Everything)
    BY <2>2, <2>4, <2>5, FindingsAre
  <2>7. U = {}
    BY <2>6
  <2>8. x \in InPlace(S)
    <3>1. x \in S
      BY <2>1, <2>2, <2>4 DEF CanonItems, Items, Everything
    <3>2. ~ Misplaced(x.record, x.path[1])
      BY <2>3, <2>4, <3>1, CleanItems
    <3>3. QED
      BY <3>1, <3>2 DEF InPlace
  <2>9. PICK c \in S : c.record.id = x.record.supersedes
    BY <2>1, <2>5, <2>7, <2>8 DEF Unresolved, InPlace
  <2>10. PICK d \in Ds, n \in Names : Stands(<<d, n>>) /\ c = Item(<<d, n>>, files[<<d, n>>].record)
    BY <2>3, <2>4, <2>9, CleanItems
  <2>11. c.path = <<d, n>>
    BY <2>10 DEF Item
  <2>12. c.record.id = n
    BY <2>3, <2>4, <2>9, <2>11, CleanItems
  <2>13. QED
    BY <2>2, <2>9, <2>10, <2>12
<1>5. Healthy
  <2>1. SUFFICES ASSUME NEW q \in Paths, Stands(q)
                 PROVE  DoctorFile(q, files[q]) = {}
    BY DEF Healthy
  <2>2. /\ files[q].form = "record" /\ files[q].record.id = q[2]
        /\ ~ Misplaced(files[q].record, q[1])
    BY <2>1, CleanFiles
  <2>3. "record" \notin Undecodable /\ "record" \notin Malformed
    BY DEF Undecodable, Malformed
  <2>4. QED
    BY <2>2, <2>3 DEF DoctorFile, Misplaced
<1>6. QED
  BY <1>1, <1>2, <1>3, <1>4, <1>5 DEF Sound
-----------------------------------------------------------------------------
(* A lint of everything.                                                    *)

(* What is listed is read later.                                            *)
Thorough(s) == \A k \in 1 .. Len(s) : s[k][1] = "list" => <<"read", s[k][2]>> \in Later(s, k)

LEMMA ThoroughGoOn ==
  ASSUME NEW s \in Seq(Operations), s # <<>>, Thorough(s)
  PROVE  /\ Thorough(Tail(s))
         /\ s[1][1] = "list" => <<"read", s[1][2]>> \in Left(Tail(s))
<1>1. PICK n \in Nat \ {0} : n = Len(s)
  OBVIOUS
<1>2. /\ Len(Tail(s)) = n - 1
      /\ \A k \in 1 .. (n - 1) : Tail(s)[k] = s[k + 1]
  BY <1>1
<1>3. ASSUME NEW k \in 1 .. (n - 1)
      PROVE  Later(Tail(s), k) = Later(s, k + 1)
  <2>1. \A l \in (k + 1) .. (n - 1) : Tail(s)[l] = s[l + 1] /\ l + 1 \in (k + 2) .. n
    BY <1>2
  <2>2. \A l \in (k + 2) .. n : s[l] = Tail(s)[l - 1] /\ l - 1 \in (k + 1) .. (n - 1)
    BY <1>2
  <2>3. QED
    BY <1>1, <1>2, <2>1, <2>2 DEF Later
<1>4. Thorough(Tail(s))
  <2>1. \A k \in 1 .. Len(Tail(s)) : /\ k + 1 \in 1 .. Len(s) /\ Tail(s)[k] = s[k + 1]
                                     /\ Later(Tail(s), k) = Later(s, k + 1)
    BY <1>1, <1>2, <1>3
  <2>2. QED
    BY <2>1 DEF Thorough
<1>5. s[1][1] = "list" => <<"read", s[1][2]>> \in Left(Tail(s))
  <2>1. Left(Tail(s)) = Later(s, 1)
    <3>1. \A l \in 1 .. (n - 1) : Tail(s)[l] = s[l + 1] /\ l + 1 \in 2 .. n
      BY <1>2
    <3>2. \A l \in 2 .. n : s[l] = Tail(s)[l - 1] /\ l - 1 \in 1 .. (n - 1)
      BY <1>2
    <3>3. QED
      BY <1>1, <1>2, <3>1, <3>2 DEF Left, Later
  <2>2. QED
    BY <1>1, <2>1 DEF Thorough
<1>6. QED
  BY <1>4, <1>5

LEMMA SweepIsThorough ==
  ASSUME NEW t \in Seq(Dirs)
  PROVE  /\ Thorough(Sweep(t))
         /\ \A j \in 1 .. Len(t) : <<"list", t[j]>> \in Left(Sweep(t))
<1>1. PICK n \in Nat : n = Len(t)
  OBVIOUS
<1>2. PICK s \in Seq(Operations) : s = Sweep(t)
  BY SweepIs
<1>3. /\ Len(s) = 2 * n
      /\ \A j \in 1 .. n : s[2 * j - 1] = <<"list", t[j]>> /\ s[2 * j] = <<"read", t[j]>>
      /\ \A k \in 1 .. (2 * n) : \E j \in 1 .. n : k = 2 * j - 1 \/ k = 2 * j
  BY <1>1, <1>2, SweepIs
<1>4. ASSUME NEW k \in 1 .. (2 * n), s[k][1] = "list"
      PROVE  <<"read", s[k][2]>> \in Later(s, k)
  <2>1. PICK j \in 1 .. n : k = 2 * j - 1 \/ k = 2 * j
    BY <1>3
  <2>2. s[2 * j][1] = "read"
    <3>1. s[2 * j] = <<"read", t[j]>>
      BY <1>3
    <3>2. QED
      BY <3>1
  <2>3. k = 2 * j - 1
    BY <1>4, <2>1, <2>2
  <2>4. s[k] = <<"list", t[j]>> /\ s[k + 1] = <<"read", t[j]>>
    <3>1. k + 1 = 2 * j
      BY <2>3
    <3>2. QED
      BY <1>3, <2>3, <3>1
  <2>5. s[k][2] = t[j]
    BY <2>4
  <2>6. k + 1 \in (k + 1) .. Len(s)
    BY <1>3, <2>1, <2>3
  <2>7. s[k + 1] \in Later(s, k)
    BY <2>6 DEF Later
  <2>8. QED
    BY <2>4, <2>5, <2>7
<1>5. ASSUME NEW j \in 1 .. n
      PROVE  <<"list", t[j]>> \in Left(s)
  <2>1. 2 * j - 1 \in 1 .. Len(s)
    BY <1>3
  <2>2. s[2 * j - 1] = <<"list", t[j]>>
    BY <1>3
  <2>3. QED
    BY <2>1, <2>2 DEF Left
<1>6. QED
  BY <1>1, <1>2, <1>3, <1>4, <1>5 DEF Thorough

LEMMA LintIsThorough ==
  ASSUME NEW c \in Commands, c.name = "lint", c.scopes = Roots
  PROVE  /\ Thorough(Steps(c))
         /\ \A d \in Dirs : <<"list", d>> \in Left(Steps(c))
<1>1. PICK t : t = LintTrees(c.scopes)
  OBVIOUS
<1>2. t \in Seq(Dirs) /\ Steps(c) = Sweep(t)
  BY <1>1, TreesDownstream DEF Steps
<1>3. /\ Len(t) = 5 /\ t[1] = Inbox /\ t[2] = Canon(Home) /\ t[3] = Archive(Home)
      /\ t[4] = Canon(Global) /\ t[5] = Archive(Global)
  <2>1. HomeTrees \in Seq(Dirs) /\ GlobalTrees \in Seq(Dirs)
    BY DirectoriesAre DEF HomeTrees, GlobalTrees
  <2>2. PICK u \in Seq(Dirs), v \in Seq(Dirs) : u = HomeTrees /\ v = GlobalTrees
    BY <2>1
  <2>3. Len(u) = 3 /\ u[1] = Inbox /\ u[2] = Canon(Home) /\ u[3] = Archive(Home)
    BY <2>2 DEF HomeTrees
  <2>4. Len(v) = 2 /\ v[1] = Canon(Global) /\ v[2] = Archive(Global)
    BY <2>2 DEF GlobalTrees
  <2>5. t = u \o v
    BY <1>1, <2>2, DirectoriesAre DEF LintTrees, If
  <2>6. /\ Len(t) = Len(u) + Len(v)
        /\ \A k \in 1 .. Len(t) : t[k] = IF k <= Len(u) THEN u[k] ELSE v[k - Len(u)]
    BY <2>5, Joined
  <2>7. Len(t) = 5 /\ \A k \in 1 .. 5 : t[k] = IF k <= 3 THEN u[k] ELSE v[k - 3]
    BY <2>3, <2>4, <2>6
  <2>8. t[1] = u[1] /\ t[2] = u[2] /\ t[3] = u[3] /\ t[4] = v[4 - 3] /\ t[5] = v[5 - 3]
    BY <2>7
  <2>9. QED
    BY <2>3, <2>4, <2>7, <2>8
<1>4. \A d \in Dirs : \E j \in 1 .. Len(t) : d = t[j]
  <2>1. Roots = {Home, Global}
    BY DEF Roots
  <2>2. \A d \in Dirs : \/ d = Inbox \/ d = Canon(Home) \/ d = Archive(Home)
                        \/ d = Canon(Global) \/ d = Archive(Global)
    BY <2>1, DirectoriesAre
  <2>3. 1 \in 1 .. Len(t) /\ 2 \in 1 .. Len(t) /\ 3 \in 1 .. Len(t) /\ 4 \in 1 .. Len(t) /\ 5 \in 1 .. Len(t)
    BY <1>3
  <2>4. QED
    BY <1>3, <2>2, <2>3
<1>5. QED
  BY <1>2, <1>4, SweepIsThorough

(* While no canon changes, a prune that has copied a record to an archive   *)
(* goes no further, and an accept can only unlink what it has written       *)
(* before: a file that has changed since a lint began is never again as it  *)
(* was then.                                                                *)
ArchivedAs(f) == [form |-> "record", record |-> Moved(f.record, "archived")]

Steady(p) ==
  /\ \A r \in Roots, n \in Names :
       /\ files[<<Canon(r), n>>] = begun[p].files[<<Canon(r), n>>]
       /\ \/ files[<<Archive(r), n>>] = begun[p].files[<<Archive(r), n>>]
          \/ /\ begun[p].files[<<Canon(r), n>>].form = "record"
             /\ files[<<Archive(r), n>>] = ArchivedAs(begun[p].files[<<Canon(r), n>>])
  /\ \A n \in Names : files[<<Inbox, n>>] \in {begun[p].files[<<Inbox, n>>], NoFile}

Intact(p, q) == files[q] = begun[p].files[q]

(* What a lint has listed and read of the files that are as they were when  *)
(* it began.                                                                *)
Looked(p) ==
  /\ Thorough(todo[p])
  /\ \A d \in Dirs : listed[p][d] # {} => <<"read", d>> \in Left(todo[p])
  /\ \A g \in got[p] : Intact(p, g.path) => g.file = files[g.path] /\ Stands(g.path)
  /\ \A q \in Paths : Intact(p, q) /\ q[2] \in listed[p][q[1]] => Stands(q)
  /\ \A q \in Paths : Intact(p, q) /\ Stands(q) /\ <<"list", q[1]>> \notin Left(todo[p]) =>
       q[2] \in listed[p][q[1]] \/ [path |-> q, file |-> files[q]] \in got[p]

Checking(p) ==
  /\ cmd[p].name = "lint" /\ cmd[p].scopes = Roots /\ result[p] \in {"none", "ok"}
  /\ begun[p].edition = edition
Linting(p) == Checking(p) => Steady(p) /\ Looked(p)

LEMMA MovesStaySteady ==
  ASSUME TypeOK, Ordered, NEW p \in Procs, Steady(p), Moving, edition' = edition
  PROVE  Steady(p)' /\ \A q \in Paths : Intact(p, q)' => files'[q] = files[q]
<1>1. begun' = begun
  BY MovesKeepReaders
<1>. DEFINE Goal == Steady(p)' /\ \A q \in Paths : Intact(p, q)' => files'[q] = files[q]
<1>2. ASSUME files' = files
      PROVE  Goal
  BY <1>1, <1>2 DEF Steady
<1>3. ASSUME NEW r \in Roots, Edited(r)
      PROVE  FALSE
  <2>1. edition[r] \in Nat /\ edition'[r] = edition[r] + 1
    BY <1>3 DEF Edited, TypeOK
  <2>2. QED
    BY <2>1
<1>4. ASSUME NEW n \in Names, AcceptRead(n) \/ AcceptWrite(n) \/ AcceptUnlink(n)
      PROVE  Goal
  <2>1. CASE AcceptRead(n)
    BY <1>2, <2>1 DEF AcceptRead
  <2>2. CASE AcceptWrite(n)
    BY <1>3, <2>2, DirectoriesAre DEF AcceptWrite
  <2>3. CASE AcceptUnlink(n)
    <3>1. files' = [files EXCEPT ![<<Inbox, n>>] = NoFile]
      BY <2>3 DEF AcceptUnlink, Remove
    <3>2. /\ files'[<<Inbox, n>>] = NoFile
          /\ \A q \in Paths : q # <<Inbox, n>> => files'[q] = files[q]
      BY <3>1, DirectoriesAre DEF TypeOK
    <3>3. \A r \in Roots, m \in Names : /\ files'[<<Canon(r), m>>] = files[<<Canon(r), m>>]
                                        /\ files'[<<Archive(r), m>>] = files[<<Archive(r), m>>]
      BY <3>2, DirectoriesAre
    <3>4. \A m \in Names : files'[<<Inbox, m>>] \in {files[<<Inbox, m>>], NoFile}
      BY <3>2, DirectoriesAre
    <3>5. Steady(p)'
      BY <1>1, <3>3, <3>4 DEF Steady
    <3>6. Intact(p, <<Inbox, n>>)' => files'[<<Inbox, n>>] = files[<<Inbox, n>>]
      BY <1>1, <3>2 DEF Intact, Steady
    <3>7. QED
      BY <3>2, <3>5, <3>6
  <2>4. QED
    BY <1>4, <2>1, <2>2, <2>3
<1>5. ASSUME NEW m \in Names, NEW n \in Names, Promote(m, n)
      PROVE  FALSE
  BY <1>3, <1>5, DirectoriesAre DEF Promote
<1>7. ASSUME NEW r \in Roots, NEW n \in Names, ArchiveWrite(r, n)
      PROVE  Goal
  <2>1. PICK x : x = ArchivedAs(files[<<Canon(r), n>>])
    OBVIOUS
  <2>2. files' = [files EXCEPT ![<<Archive(r), n>>] = x]
    BY <1>7, <2>1 DEF ArchiveWrite, Put, ArchivedAs
  <2>3. /\ files'[<<Archive(r), n>>] = x
        /\ \A q \in Paths : q # <<Archive(r), n>> => files'[q] = files[q]
    BY <2>2, DirectoriesAre DEF TypeOK
  <2>4. \A h \in Roots, m \in Names : files'[<<Canon(h), m>>] = files[<<Canon(h), m>>]
    BY <2>3, DirectoriesAre
  <2>5. \A m \in Names : files'[<<Inbox, m>>] = files[<<Inbox, m>>]
    BY <2>3, DirectoriesAre
  <2>6. \A h \in Roots, m \in Names : files'[<<Archive(h), m>>] = files[<<Archive(h), m>>] \/ (h = r /\ m = n)
    BY <2>3, DirectoriesAre
  <2>7. /\ begun[p].files[<<Canon(r), n>>].form = "record"
        /\ x = ArchivedAs(begun[p].files[<<Canon(r), n>>])
    BY <1>7, <2>1 DEF ArchiveWrite, IsRecord, Steady
  <2>8. Steady(p)'
    <3>1. \A h \in Roots, m \in Names :
            \/ files'[<<Archive(h), m>>] = begun[p].files[<<Archive(h), m>>]
            \/ /\ begun[p].files[<<Canon(h), m>>].form = "record"
               /\ files'[<<Archive(h), m>>] = ArchivedAs(begun[p].files[<<Canon(h), m>>])
      BY <2>3, <2>6, <2>7 DEF Steady
    <3>2. QED
      BY <1>1, <2>4, <2>5, <3>1 DEF Steady
  <2>9. Intact(p, <<Archive(r), n>>)' => files'[<<Archive(r), n>>] = files[<<Archive(r), n>>]
    <3>1. \/ files[<<Archive(r), n>>] = begun[p].files[<<Archive(r), n>>]
          \/ files[<<Archive(r), n>>] = x
      BY <2>7 DEF Steady
    <3>2. QED
      BY <1>1, <2>3, <3>1 DEF Intact
  <2>10. QED
    BY <2>3, <2>8, <2>9
<1>8. ASSUME NEW r \in Roots, NEW n \in Names, ArchiveUnlink(r, n)
      PROVE  FALSE
  BY <1>3, <1>8 DEF ArchiveUnlink
<1>9. QED
  BY <1>4, <1>5, <1>7, <1>8 DEF Moving

LEMMA MovesLeaveLints ==
  ASSUME TypeOK, Ordered, NEW p \in Procs, Planned(p), Linting(p), Moving
  PROVE  Linting(p)'
<1>. SUFFICES ASSUME Checking(p)'
              PROVE  Steady(p)' /\ Looked(p)'
  BY DEF Linting
<1>1. UNCHANGED <<cmd, todo, listed, got, result, begun>>
  BY MovesKeepReaders
<1>2. edition' = edition
  <2>1. edition' \in [Roots -> Nat] /\ edition \in [Roots -> Nat]
    BY MovesType DEF TypeOK
  <2>2. \A r \in Roots : edition'[r] = edition[r]
    <3>1. ASSUME NEW r \in Roots
          PROVE  edition'[r] = edition[r]
      <4>1. edition'[r] = begun[p].edition[r]
        BY <1>1 DEF Checking
      <4>2. begun[p].edition[r] <= edition[r] /\ edition[r] <= edition'[r]
        BY EditionsGoOn DEF Planned
      <4>3. edition'[r] \in Nat /\ edition[r] \in Nat
        BY <2>1
      <4>4. QED
        BY <4>1, <4>2, <4>3
    <3>2. QED
      BY <3>1
  <2>3. QED
    BY <2>1, <2>2
<1>3. Checking(p)
  BY <1>1, <1>2 DEF Checking
<1>4. Steady(p) /\ Looked(p)
  BY <1>3 DEF Linting
<1>5. Steady(p)' /\ \A q \in Paths : Intact(p, q)' => files'[q] = files[q]
  BY <1>2, <1>4, MovesStaySteady
<1>6. \A q \in Paths : Intact(p, q)' => Intact(p, q) /\ files'[q] = files[q] /\ (Stands(q)' <=> Stands(q))
  BY <1>1, <1>5 DEF Intact, Stands
<1>7. \A g \in got[p] : g.path \in Paths
  BY DEF TypeOK
<1>8. Looked(p)'
  BY <1>1, <1>4, <1>6, <1>7 DEF Looked
<1>9. QED
  BY <1>5, <1>8

LEMMA StartsLint ==
  ASSUME TypeOK, NEW p \in Procs, NEW c \in Commands, Start(p, c)
  PROVE  Linting(p)'
<1>. SUFFICES ASSUME Checking(p)'
              PROVE  Steady(p)' /\ Looked(p)'
  BY DEF Linting
<1>1. /\ files' = files /\ cmd'[p] = c /\ todo'[p] = Steps(c) /\ got'[p] = {}
      /\ listed'[p] = [d \in Dirs |-> {}]
  BY DEF Start, TypeOK, store
<1>2. begun'[p].files = files
  BY DEF Start, TypeOK
<1>3. c.name = "lint" /\ c.scopes = Roots
  BY <1>1 DEF Checking
<1>4. Thorough(todo'[p]) /\ \A d \in Dirs : <<"list", d>> \in Left(todo'[p])
  BY <1>1, <1>3, LintIsThorough
<1>5. Steady(p)'
  BY <1>1, <1>2 DEF Steady
<1>6. \A q \in Paths : <<"list", q[1]>> \in Left(todo'[p]) /\ listed'[p][q[1]] = {}
  BY <1>1, <1>4, DirectoriesAre
<1>7. \A d \in Dirs : listed'[p][d] = {}
  BY <1>1
<1>8. Looked(p)'
  BY <1>1, <1>4, <1>6, <1>7 DEF Looked
<1>9. QED
  BY <1>5, <1>8

LEMMA ListingLints ==
  ASSUME TypeOK, Ordered, NEW p \in Procs, Looked(p), ListDirectory(p)
  PROVE  Looked(p)'
<1>1. PICK d \in Dirs : NextStep(p) = <<"list", d>> /\ d = NextStep(p)[2] /\ todo[p] # <<>>
                        /\ NextStep(p)[1] = "list"
  <2>1. NextStep(p) \in Operations /\ NextStep(p)[1] = "list" /\ todo[p] # <<>> /\ NextStep(p)[2] \in Dirs
    BY NextStepIs DEF ListDirectory, At
  <2>2. QED
    BY <2>1 DEF Operations
<1>2. PICK names \in SUBSET Names : names = {n \in Names : files[<<d, n>>] # NoFile}
  OBVIOUS
<1>3. /\ listed' = [listed EXCEPT ![p][d] = names]
      /\ begun' = [begun EXCEPT ![p].noted = @ \cup {<<NextStep(p)[2][1], n>> : n \in names}]
      /\ Continue(p) /\ got' = got /\ files' = files
  BY <1>1, <1>2 DEF ListDirectory, store
<1>4. /\ todo'[p] = Tail(todo[p]) /\ begun'[p].files = begun[p].files
      /\ listed'[p][d] = names /\ \A e \in Dirs : e # d => listed'[p][e] = listed[p][e]
  BY <1>3 DEF Continue, TypeOK
<1>5. /\ Left(todo[p]) = {NextStep(p)} \cup Left(Tail(todo[p])) /\ todo[p] \in Seq(Operations)
      /\ NextStep(p) = todo[p][1]
  BY <1>1, NextStepIs DEF TypeOK
<1>6. Thorough(Tail(todo[p])) /\ <<"read", d>> \in Left(Tail(todo[p]))
  <2>1. Thorough(todo[p]) /\ todo[p][1][1] = "list" /\ todo[p][1][2] = d
    BY <1>1, <1>5 DEF Looked
  <2>2. QED
    BY <1>1, <1>5, <2>1, ThoroughGoOn
<1>7. \A q \in Paths : (Intact(p, q)' <=> Intact(p, q)) /\ (Stands(q)' <=> Stands(q))
  BY <1>3, <1>4 DEF Intact, Stands
<1>8. \A e \in Dirs : listed'[p][e] # {} => <<"read", e>> \in Left(todo'[p])
  <2>1. \A e \in Dirs : <<"read", e>> \in Left(todo[p]) => <<"read", e>> \in Left(Tail(todo[p]))
    BY <1>1, <1>5
  <2>2. \A e \in Dirs : listed[p][e] # {} => <<"read", e>> \in Left(todo[p])
    BY DEF Looked
  <2>3. QED
    BY <1>4, <1>6, <2>1, <2>2
<1>9. \A q \in Paths : q = <<q[1], q[2]>> /\ q[1] \in Dirs /\ q[2] \in Names
  BY DirectoriesAre
<1>10. \A q \in Paths : q[1] = d => (q[2] \in listed'[p][q[1]] <=> Stands(q))
  BY <1>2, <1>4, <1>9 DEF Stands
<1>11. \A q \in Paths : Intact(p, q) /\ q[2] \in listed'[p][q[1]] => Stands(q)
  BY <1>4, <1>9, <1>10 DEF Looked
<1>12. \A q \in Paths : Intact(p, q) /\ Stands(q) /\ <<"list", q[1]>> \notin Left(todo'[p]) =>
         q[2] \in listed'[p][q[1]] \/ [path |-> q, file |-> files[q]] \in got[p]
  <2>1. ASSUME NEW q \in Paths, Intact(p, q), Stands(q), <<"list", q[1]>> \notin Left(todo'[p]), q[1] # d
        PROVE  q[2] \in listed'[p][q[1]] \/ [path |-> q, file |-> files[q]] \in got[p]
    <3>1. <<"list", q[1]>> # NextStep(p)
      BY <1>1, <2>1
    <3>2. <<"list", q[1]>> \notin Left(todo[p])
      BY <1>4, <1>5, <2>1, <3>1
    <3>3. QED
      BY <1>4, <1>9, <2>1, <3>2 DEF Looked
  <2>2. QED
    BY <1>10, <2>1
<1>13. \A g \in got[p] : Intact(p, g.path)' => g.file = files'[g.path] /\ Stands(g.path)'
  <2>1. \A g \in got[p] : g.path \in Paths
    BY DEF TypeOK
  <2>2. QED
    BY <1>3, <1>7, <2>1 DEF Looked
<1>14. QED
  BY <1>3, <1>4, <1>6, <1>7, <1>8, <1>11, <1>12, <1>13 DEF Looked

LEMMA ReadingLints ==
  ASSUME TypeOK, Ordered, NEW p \in Procs, Looked(p), cmd[p].name = "lint",
         ReadNothing(p) \/ ReadNext(p)
  PROVE  Looked(p)'
<1>1. PICK d \in Dirs : NextStep(p) = <<"read", d>> /\ d = NextStep(p)[2] /\ todo[p] # <<>>
  <2>1. NextStep(p) \in Operations /\ NextStep(p)[1] = "read" /\ todo[p] # <<>> /\ NextStep(p)[2] \in Dirs
    BY NextStepIs DEF ReadNothing, ReadNext, At
  <2>2. QED
    BY <2>1 DEF Operations
<1>2. /\ Left(todo[p]) = {NextStep(p)} \cup Left(Tail(todo[p])) /\ todo[p] \in Seq(Operations)
  BY <1>1, NextStepIs DEF TypeOK
<1>3. /\ \A e \in Dirs : <<"list", e>> \in Left(Tail(todo[p])) <=> <<"list", e>> \in Left(todo[p])
      /\ \A e \in Dirs : e # d => (<<"read", e>> \in Left(todo[p]) => <<"read", e>> \in Left(Tail(todo[p])))
  BY <1>1, <1>2
<1>4. Thorough(todo[p]) /\ Thorough(Tail(todo[p]))
  BY <1>1, <1>2, ThoroughGoOn DEF Looked
<1>5. begun' = begun /\ files' = files
  BY DEF ReadNothing, ReadNext, store
<1>6. \A q \in Paths : (Intact(p, q)' <=> Intact(p, q)) /\ (Stands(q)' <=> Stands(q))
  BY <1>5 DEF Intact, Stands
<1>7. /\ \A g \in got[p] : g.path \in Paths
      /\ \A q \in Paths : q = <<q[1], q[2]>> /\ q[1] \in Dirs /\ q[2] \in Names
  BY DirectoriesAre DEF TypeOK
<1>8. CASE ReadNothing(p)
  <2>1. listed' = listed /\ got' = got /\ Continue(p) /\ listed[p][d] = {}
    BY <1>1, <1>8 DEF ReadNothing, working
  <2>2. todo'[p] = Tail(todo[p])
    BY <2>1 DEF Continue, TypeOK
  <2>3. \A e \in Dirs : listed'[p][e] # {} => <<"read", e>> \in Left(todo'[p])
    BY <1>3, <2>1, <2>2 DEF Looked
  <2>4. \A q \in Paths : Intact(p, q) /\ Stands(q) /\ <<"list", q[1]>> \notin Left(todo'[p]) =>
          q[2] \in listed'[p][q[1]] \/ [path |-> q, file |-> files[q]] \in got[p]
    BY <1>3, <1>7, <2>1, <2>2 DEF Looked
  <2>5. QED
    BY <1>4, <1>5, <1>6, <1>7, <2>1, <2>2, <2>3, <2>4 DEF Looked
<1>9. CASE ReadNext(p)
  <2>1. PICK q : q = <<d, Min(listed[p][d])>>
    OBVIOUS
  <2>2. listed[p][d] \in SUBSET Names /\ listed[p][d] # {}
    BY <1>1, <1>9 DEF ReadNext, TypeOK
  <2>3. q \in Paths /\ q[1] = d /\ q = <<d, q[2]>> /\ q[2] \in listed[p][d]
    BY <2>1, <2>2, SmallestName, DirectoriesAre
  <2>4. PICK g : g = [path |-> q, file |-> ReadFile(q)]
    OBVIOUS
  <2>5. /\ listed' = [listed EXCEPT ![p][d] = @ \ {q[2]}]
        /\ got' = [got EXCEPT ![p] = @ \cup {g}]
        /\ \/ Continue(p) /\ listed'[p][d] = {}
           \/ UNCHANGED todo
    <3>1. Load(cmd[p].name, q, ReadFile(q)) = "ok"
      BY DEF Load
    <3>2. QED
      BY <1>1, <1>9, <2>1, <2>4, <3>1 DEF ReadNext
  <2>6. /\ listed'[p][d] = listed[p][d] \ {q[2]}
        /\ \A e \in Dirs : e # d => listed'[p][e] = listed[p][e]
        /\ got'[p] = got[p] \cup {g}
    BY <2>5 DEF TypeOK
  <2>7. \/ todo'[p] = Tail(todo[p]) /\ listed'[p][d] = {}
        \/ todo'[p] = todo[p]
    BY <2>5 DEF Continue, TypeOK
  <2>8. Thorough(todo'[p])
    BY <1>4, <2>7
  <2>9. \A e \in Dirs : listed'[p][e] # {} => <<"read", e>> \in Left(todo'[p])
    <3>1. \A e \in Dirs : listed[p][e] # {} => <<"read", e>> \in Left(todo[p])
      BY DEF Looked
    <3>2. QED
      BY <1>3, <2>2, <2>6, <2>7, <3>1
  <2>10. \A e \in Dirs : <<"list", e>> \in Left(todo'[p]) <=> <<"list", e>> \in Left(todo[p])
    BY <1>3, <2>7
  <2>11. g.path = q /\ (Intact(p, q) => Stands(q) /\ g = [path |-> q, file |-> files[q]] /\ g.file = files[q])
    <3>1. Intact(p, q) => Stands(q)
      BY <2>3 DEF Looked
    <3>2. QED
      BY <2>4, <3>1 DEF Stands, ReadFile
  <2>12. \A h \in got'[p] : Intact(p, h.path)' => h.file = files'[h.path] /\ Stands(h.path)'
    <3>1. \A h \in got[p] : Intact(p, h.path) => h.file = files[h.path] /\ Stands(h.path)
      BY DEF Looked
    <3>2. \A h \in got'[p] : h = g \/ h \in got[p]
      BY <2>6
    <3>3. \A h \in got'[p] : h.path \in Paths
      BY <1>7, <2>3, <2>11, <3>2
    <3>4. \A h \in got'[p] : Intact(p, h.path) => h.file = files[h.path] /\ Stands(h.path)
      BY <2>11, <3>1, <3>2
    <3>5. QED
      BY <1>5, <1>6, <3>3, <3>4
  <2>13. \A x \in Paths : x[2] \in listed'[p][x[1]] => x[2] \in listed[p][x[1]]
    BY <1>7, <2>6
  <2>14. ASSUME NEW x \in Paths, Intact(p, x), Stands(x), <<"list", x[1]>> \notin Left(todo'[p])
         PROVE  x[2] \in listed'[p][x[1]] \/ [path |-> x, file |-> files[x]] \in got'[p]
    <3>1. x[1] \in Dirs /\ x = <<x[1], x[2]>>
      BY <1>7
    <3>2. <<"list", x[1]>> \notin Left(todo[p])
      BY <2>10, <2>14, <3>1
    <3>3. x[2] \in listed[p][x[1]] \/ [path |-> x, file |-> files[x]] \in got[p]
      BY <2>14, <3>2 DEF Looked
    <3>4. CASE x = q
      BY <2>6, <2>11, <2>14, <3>4
    <3>5. CASE x # q
      <4>1. x[2] \in listed[p][x[1]] => x[2] \in listed'[p][x[1]]
        BY <2>3, <2>6, <3>1, <3>5
      <4>2. QED
        BY <2>6, <3>3, <4>1
    <3>6. QED
      BY <3>4, <3>5
  <2>15. \A x \in Paths : Intact(p, x)' /\ x[2] \in listed'[p][x[1]] => Stands(x)'
    BY <1>6, <2>13 DEF Looked
  <2>16. QED
    BY <1>5, <1>6, <2>8, <2>9, <2>12, <2>14, <2>15 DEF Looked
<1>10. QED
  BY <1>8, <1>9

LEMMA ReadingLeavesLints ==
  ASSUME TypeOK, Ordered, NEW q \in Procs, Reading(q), NEW p \in Procs, Planned(p), Linting(p)
  PROVE  Linting(p)'
<1>1. files' = files /\ edition' = edition
  BY ReadersKeepApart DEF store
<1>2. CASE p # q
  <2>1. /\ cmd'[p] = cmd[p] /\ todo'[p] = todo[p] /\ listed'[p] = listed[p] /\ got'[p] = got[p]
        /\ result'[p] = result[p] /\ begun'[p] = begun[p]
    BY <1>2, ReadersKeepApart
  <2>2. QED
    BY <1>1, <2>1 DEF Linting, Checking, Steady, Looked, Intact, Stands
<1>3. CASE p = q
  <2>1. ASSUME NEW c \in Commands, Start(p, c)
        PROVE  Linting(p)'
    BY <2>1, StartsLint
  <2>2. ASSUME Checking(p)', \/ ListDirectory(p) \/ ReadNothing(p) \/ ReadNext(p)
                             \/ Shrink(p) \/ MakePlan(p) \/ Publish(p) \/ PrintText(p)
        PROVE  Steady(p)' /\ Looked(p)'
    <3>1. todo[p] # <<>> /\ cmd' = cmd
      BY <2>2 DEF ListDirectory, ReadNothing, ReadNext, Shrink, MakePlan, Publish, PrintText, At
    <3>2. result[p] = "none" /\ cmd[p].name = "lint" /\ cmd[p].scopes = Roots
      BY <2>2, <3>1 DEF Planned, Checking
    <3>3. NextStep(p)[1] \in {"list", "read"}
      <4>1. cmd[p].name \notin Planners
        BY <3>2 DEF Planners
      <4>2. NextStep(p) = todo[p][1] /\ 1 \in 1 .. Len(todo[p])
        BY <3>1, NextStepIs
      <4>3. QED
        BY <4>1, <4>2 DEF Ordered, Orderly
    <3>4. ListDirectory(p) \/ ReadNothing(p) \/ ReadNext(p)
      BY <2>2, <3>3 DEF Shrink, MakePlan, Publish, PrintText, At
    <3>5. begun'[p].edition = begun[p].edition /\ begun'[p].files = begun[p].files
      <4>1. CASE ListDirectory(p)
        <5>1. PICK N : begun' = [begun EXCEPT ![p].noted = N]
          BY <4>1 DEF ListDirectory
        <5>2. QED
          BY <5>1 DEF TypeOK
      <4>2. CASE ReadNothing(p) \/ ReadNext(p)
        BY <4>2 DEF ReadNothing, ReadNext
      <4>3. QED
        BY <3>4, <4>1, <4>2
    <3>6. Steady(p) /\ Looked(p)
      BY <1>1, <2>2, <3>2, <3>5 DEF Linting, Checking
    <3>7. Steady(p)'
      BY <1>1, <3>5, <3>6 DEF Steady
    <3>8. Looked(p)'
      BY <3>2, <3>4, <3>6, ListingLints, ReadingLints
    <3>9. QED
      BY <3>7, <3>8
  <2>3. QED
    BY <1>3, <2>1, <2>2 DEF Reading, Linting
<1>4. QED
  BY <1>2, <1>3

(* A lint of everything that finds nothing vouches for all that the other   *)
(* commands do with the files, if none has changed since it began: it has   *)
(* read them all as they are.                                               *)
THEOREM CleanLintSuffices == Spec => []LintSuffices
<1>. DEFINE J == \A p \in Procs : Linting(p)
            P == UpToDate /\ \A p \in Procs : Planned(p)
<1>1. Init => J
  <2>1. Init => \A p \in Procs : cmd[p] = [name |-> "lint", scopes |-> {}]
    BY DEF Init, Nothing
  <2>2. Roots # {}
    BY DEF Roots
  <2>3. QED
    BY <2>1, <2>2 DEF Linting, Checking
<1>2. TypeOK /\ Ordered /\ P /\ J /\ [Next]_vars => J'
  <2>. SUFFICES ASSUME TypeOK, Ordered, P, J, [Next]_vars, NEW p \in Procs
                PROVE  Linting(p)'
    OBVIOUS
  <2>1. CASE UNCHANGED vars
    <3>1. UNCHANGED <<files, edition, cmd, todo, listed, got, result, begun>>
      BY <2>1 DEF vars, store, working
    <3>2. QED
      BY <3>1 DEF Linting, Checking, Steady, Looked, Intact, Stands
  <2>2. CASE Moving
    BY <2>2, MovesLeaveLints
  <2>3. ASSUME NEW q \in Procs, Reading(q)
        PROVE  Linting(p)'
    BY <2>3, ReadingLeavesLints
  <2>4. QED
    BY <2>1, <2>2, <2>3 DEF Next
<1>3. TypeOK /\ Following /\ J => LintSuffices
  <2>. SUFFICES ASSUME TypeOK, Following, J, NEW p \in Procs,
                       Ran(p, "lint"), cmd[p].scopes = Roots, LintFindings(got[p]) = {},
                       files = begun[p].files, edition = begun[p].edition
                PROVE  Sound
    BY DEF LintSuffices
  <2>1. Left(todo[p]) = {}
    BY DEF Following, Followed, Left, Ran
  <2>2. Looked(p)
    BY DEF Linting, Checking, Ran
  <2>3. \A d \in Dirs : listed[p][d] = {}
    BY <2>1, <2>2 DEF Looked
  <2>4. \A g \in got[p] : g.path \in Paths /\ g = [path |-> g.path, file |-> g.file]
    BY DEF TypeOK
  <2>5. \A g \in got[p] : g \in Everything
    BY <2>2, <2>4 DEF Looked, Intact, Everything
  <2>6. \A q \in Paths : Stands(q) => [path |-> q, file |-> files[q]] \in got[p]
    BY <2>1, <2>2, <2>3, DirectoriesAre DEF Looked, Intact
  <2>7. \A g \in Everything : g \in got[p]
    BY <2>6 DEF Everything
  <2>8. got[p] = Everything
    BY <2>5, <2>7
  <2>9. QED
    BY <2>8, CleanIsSound
<1>4. QED
  <2>1. Spec => []P
    BY PlansStay
  <2>. HIDE DEF P, J
  <2>2. QED
    BY <1>1, <1>2, <1>3, <2>1, StepsStayOrdered, SeenStays, PTL DEF Spec
=============================================================================
