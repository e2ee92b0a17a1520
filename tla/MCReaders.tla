----------------------------- MODULE MCReaders -----------------------------
(***************************************************************************)
(* Stores of two kinds.  In the first one file is anything at all, beside  *)
(* a few others, and a command reads it undisturbed.  In the second all is *)
(* in order, and two reading processes meet accepts, promotions and prunes.*)
(***************************************************************************)
EXTENDS Readers, TLC

Says(kind, words, marks) ==
  [kind |-> kind, words |-> words, details |-> FALSE, evidence |-> <<"strong">>, marks |-> marks]
Short == Says("fact", <<"a">>, {})
Long  == Says("fact", <<"b", "c">>, {})
Other == Says("warning", <<"d">>, {})
Leak  == Says("fact", <<"e">>, {"secret"})
Points(retain) == [evidence |-> 4, durability |-> 3, retain |-> retain]

MCNames  == 1..3
MCScopes == {"home", "away", Global}
MCNotes  == {Short, Long, Other, Leak}
MCScores == {Points(60), Points(90)}

Written(n, dir, note, retain) ==
  [id |-> n, scope |-> dir[1], status |-> StatusIn(dir), note |-> note, score |-> Points(retain),
   at |-> 1, source |-> IF dir[1] = Global THEN 9 + n ELSE NoId, supersedes |-> NoId]
Holding(r) == [form |-> "record", record |-> r]

(* What the odd file may be.                                                *)
Odd(n, dir) ==
  LET r == Written(n, dir, Short, 60)
  IN  [form : Undecodable \cup Malformed] \cup
      {Holding(x) : x \in
        {r, [r EXCEPT !.id = 2], [r EXCEPT !.note = Leak], [r EXCEPT !.scope = "away"],
         [r EXCEPT !.scope = IF dir[1] = Global THEN "home" ELSE Global],
         [r EXCEPT !.status = IF @ = "accepted" THEN "captured" ELSE "accepted"],
         [r EXCEPT !.supersedes = n], [r EXCEPT !.supersedes = 2], [r EXCEPT !.supersedes = 3]}}

Empty == [q \in Paths |-> NoFile]
With(base, n, dir, note, retain) ==
  [base EXCEPT ![<<dir, n>>] = Holding(Written(n, dir, note, retain))]

Besides ==
  {Empty}
  \cup {With(Empty, 2, dir, Short, retain) : dir \in Dirs, retain \in {60, 90}}
  \cup {With(With(Empty, 2, Canon(root), Long, 60), 3, Canon(root), note, 90) :
         root \in Roots, note \in {Short, Other, Long}}

OddStores ==
  UNION {{[s EXCEPT ![<<dir, 1>>] = file] : s \in Besides, file \in Odd(1, dir)} : dir \in Dirs}

TwoFiles(d1, d2) == With(With(Empty, 1, d1, Short, 60), 2, d2, Long, 90)
GoodStores == {TwoFiles(d1, d2) : d1 \in {Inbox, Canon(Home)}, d2 \in {Canon(Home), Canon(Global)}}

NeverCompiled == [r \in Roots |-> NoDigest]
OldDigest     == [r \in Roots |-> IF r = Home THEN <<3>> ELSE NoDigest]
Beginning(stores, d, m, k) == [files : stores, digest : {d}, moves : {m}, runs : {k}]

MCStarts ==
  Beginning(OddStores, NeverCompiled, 0, 1)
  \cup Beginning(GoodStores, OldDigest, 3, 1)
  \cup Beginning({TwoFiles(Canon(Home), Canon(Global))}, OldDigest, 1, 2)
  \cup Beginning({With(Empty, 1, Inbox, Leak, 60)}, NeverCompiled, 1, 1)

MCCommands ==
  [name : {"lint", "context"}, scopes : {{Home}, Roots}]
  \cup [name : {"compile", "search"}, scopes : {{Global}, Roots}]
  \cup [name : {"get"}, scopes : {{Home}}] \cup [name : {"doctor", "status"}, scopes : {Roots}]

MCMaxBullets == [r \in Roots |-> IF r = Home THEN 3 ELSE 2]
MCMaxBytes   == [r \in Roots |-> IF r = Home THEN 6 ELSE 5]

Symmetry == Permutations(Procs)
=============================================================================
