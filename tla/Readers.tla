------------------------------ MODULE Readers ------------------------------
(***************************************************************************)
(* The commands that only look: lint, doctor, status, search, get, context *)
(* and the reading half of compile, over files that users have edited or   *)
(* imported and that other commands move meanwhile.                        *)
(*                                                                         *)
(* A reading command lists a directory in one step and reads what it has   *)
(* listed file by file.  All it knows in the end is "got".  Other commands *)
(* accept, promote and prune.  prune and compile take the root lock, but   *)
(* it does not always keep them apart (module RootLock): nothing here      *)
(* waits for it, and prunes and compiles go on as they come.               *)
(*                                                                         *)
(* A file that does not load has only a form, which tells which exception  *)
(* the loading raises.                                                     *)
(***************************************************************************)
EXTENDS Dedupe, FiniteSetsExt

CONSTANTS
  Procs,       \* reading processes
  Home,        \* the workspace selected
  Names,       \* stems of file names, which are ids
  Scopes,      \* scopes of records: Home, Global and other workspaces
  Notes, Scores,
  Commands,    \* what reading processes run: [name, scopes]
  Starts,      \* initial states: [files, digest, moves, runs]
  MaxBullets, MaxBytes,   \* the budget of a digest in each of Roots
  HeaderSize, HeadingSize \* of a digest, where a word of a summary has size 1

Roots == {Home, Global}
Dirs == ({Home} \X {"inbox", "canon", "archive"}) \cup ({Global} \X {"canon", "archive"})
Paths == Dirs \X Names

Record == [id : Names, scope : Scopes, status : {"captured", "accepted", "archived"},
           note : Notes, score : Scores, at : Nat, source : Nat, supersedes : Nat]

(* unreadable is an OSError, not_text a UnicodeError, not_yaml a YAMLError, *)
(* mistyped a TypeError or an AttributeError, invalid a ValueError.         *)
Undecodable == {"unreadable", "not_text", "not_yaml"}
Malformed == {"mistyped", "invalid"}
File == [form : Undecodable \cup Malformed] \cup [form : {"record"}, record : Record]
NoFile == [form |-> "none"]
NoDigest == <<NoId>>

ASSUME ReaderNamesAssumption  == Names \subseteq Nat \ {NoId} /\ IsFiniteSet(Names)
ASSUME ReaderScopesAssumption == Home \in Scopes /\ Global \in Scopes /\ Home # Global
ASSUME ReaderScoresAssumption ==
  Scores \subseteq [evidence : 0..4, durability : 0..4, retain : Nat]
ASSUME ReaderCommandsAssumption ==
  Commands \subseteq [name : {"lint", "doctor", "status", "search", "get", "compile", "context"},
                     scopes : SUBSET Roots]
ASSUME ReaderBudgetAssumption == MaxBullets \in [Roots -> Nat] /\ MaxBytes \in [Roots -> Nat]
ASSUME ReaderStartsAssumption ==
  Starts \subseteq [files : [Paths -> File \cup {NoFile}], digest : [Roots -> Seq(Names) \cup {NoDigest}],
                    moves : Nat, runs : Nat]

VARIABLES
  files,     \* the file at each path, or NoFile
  digest,    \* the ids in the published digest of each root, or NoDigest
  judged,    \* the candidate that an accept has read, by id, or NoFile
  accepted,  \* ids whose accept has the inbox file still to unlink
  archiving, \* what prunes have copied to an archive and have still to unlink
  moves,     \* commands that may still change files
  runs,      \* reading commands that may still start
  cmd,       \* what each process runs
  todo,      \* what is left of it
  listed,    \* names of the last listing of each directory that are still to be read
  got,       \* what was read: [path, file]
  cut,       \* bullets dropped from the plan being made
  plans,     \* the plan of each root: the ids included, best first, and how many are omitted
  text,      \* what context prints of each root
  result,    \* "none", "ok", "reported" (a message) or "raised" (a traceback)
  \* History:
  edition,   \* changes of the canon of each root
  compiled,  \* the edition that the published digest was begun at; an earlier one at 0
  begun,     \* what held when the command began, and what it has seen so far
  taken      \* what was removed from canon between its listing and its reading

store == <<files, judged, accepted, archiving, moves, edition>>
working == <<listed, got, cut, plans, text>>
vars == <<store, digest, compiled, runs, cmd, todo, working, result, begun, taken>>

Canon(root) == <<root, "canon">>
Archive(root) == <<root, "archive">>
Inbox == <<Home, "inbox">>

ReadFile(path) == IF files[path] = NoFile THEN [form |-> "unreadable"] ELSE files[path]

-----------------------------------------------------------------------------
(* What each command makes of a file it has read                            *)

StatusIn(dir) ==
  CASE dir[2] = "inbox" -> "captured" [] dir[2] = "canon" -> "accepted"
    [] dir[2] = "archive" -> "archived"

Misplaced(r, dir) == r.status # StatusIn(dir) \/ r.scope # dir[1]

(* Mutant: secrets are not looked for. *)
LintFileNoSecrets(path, file) ==
  IF file.form \in Undecodable THEN {"record-decode"}
  ELSE IF file.form \in Malformed THEN {"record-invalid"}
  ELSE {code \in {"record-path-mismatch", "record-invalid"} :
         CASE code = "record-path-mismatch" -> path[2] # file.record.id
           [] code = "record-invalid" -> Misplaced(file.record, path[1])}

(* The codes of the findings of lint on one file (_inspect_tree)            *)
LintFile(path, file) ==
  IF file.form \in Undecodable THEN {"record-decode"}
  ELSE IF file.form \in Malformed THEN {"record-invalid"}
  ELSE {code \in {"record-path-mismatch", "record-invalid", "secret-like-content"} :
         CASE code = "record-path-mismatch" -> path[2] # file.record.id
           [] code = "record-invalid" -> Misplaced(file.record, path[1])
           [] code = "secret-like-content" -> SecretLike(file.record.note)}

(* The same of doctor (_inspect_record_tree)                                *)
DoctorFile(path, file) ==
  CASE file.form \in Undecodable -> {"record-decode"}
    [] file.form \in Malformed -> {"record-invalid"}
    [] file.form = "record" ->
         (IF path[2] # file.record.id THEN {"record-path-mismatch"} ELSE {})
           \cup (IF file.record.status # StatusIn(path[1]) \/ file.record.scope # path[1][1]
                 THEN {"record-invalid"} ELSE {})

Reported(bad) == IF bad THEN "reported" ELSE "ok"

(* _load_canon_record of compiler.py catches what can be raised.            *)
LoadForDigest(path, file) ==
  Reported(\/ file.form # "record"
           \/ Misplaced(file.record, path[1])
           \/ SecretLike(file.record.note))

(* That of retrieval.py catches YAMLError and ValueError only.              *)
LoadForRetrieval(path, file) ==
  IF file.form \in {"unreadable", "mistyped"} THEN "raised"
  ELSE Reported(file.form # "record" \/ Misplaced(file.record, path[1]))

(* status catches nothing.                                                  *)
LoadForStatus(file) == IF file.form = "record" THEN "ok" ELSE "raised"

Load(name, path, file) ==
  CASE name \in {"compile", "context"} -> LoadForDigest(path, file)
    [] name \in {"search", "get"} -> LoadForRetrieval(path, file)
    [] name = "status" -> LoadForStatus(file)
    [] name \in {"lint", "doctor"} -> "ok"

-----------------------------------------------------------------------------
(* lint on what it has read as a whole                                      *)

Item(path, record) == [path |-> path, record |-> record]
Items(G, Ds) == {Item(g.path, g.file.record) : g \in {h \in G : h.file.form = "record"
                                                          /\ h.path[1] \in Ds}}
InPlace(S) == {x \in S : ~ Misplaced(x.record, x.path[1])}

(* _duplicate_findings: the winner's item is the first one of its id.       *)
WinnerItem(S) ==
  LET w == CHOOSE x \in S : ~ \E y \in S : Better(y.record, x.record)
      same == {x \in S : x.record.id = w.record.id}
  IN  CHOOSE x \in same : \A y \in same : x.path[2] <= y.path[2]

AfterRound(a) ==
  LET w      == WinnerItem(a.left)
      losers == {x \in a.left \ {w} : StrongDuplicate(w.record, x.record)}
  IN  IF a.left = {} THEN a
      ELSE [left |-> a.left \ ({w} \cup losers), lost |-> a.lost \cup losers]

DuplicateItems(S) ==
  LET round[k \in Nat] ==
        IF k = 0 THEN [left |-> S, lost |-> {}] ELSE AfterRound(round[k - 1])
  IN  round[Cardinality(S)].lost

(* _supersedes_findings, with resolve_supersedes                            *)
Unresolved(S) ==
  {x \in S : /\ x.record.supersedes # NoId
             /\ ~ \E c \in S : /\ c.record.id = x.record.supersedes
                               /\ c.record.id # x.record.id
                               /\ c.record.scope = x.record.scope}

(* What get finds: one record, none or, as an error, several.               *)
Matches(S, id) == {x \in S : x.record.id = id}

Finding(path, code) == [path |-> path, code |-> code]

LintFindings(G) ==
  (UNION {{Finding(g.path, code) : code \in LintFile(g.path, g.file)} : g \in G})
  \cup (UNION {
    {Finding(x.path, "duplicate-conflict") :
       x \in DuplicateItems(InPlace(Items(G, {Canon(root)})))}
    \cup {Finding(x.path, "supersedes-invalid") :
       x \in Unresolved(InPlace(Items(G, {Canon(root), Archive(root)})))} : root \in Roots})

-----------------------------------------------------------------------------
(* The selection for a digest (_record_sort_key, _select_records)           *)

Key(x) == <<x.record.score.retain, x.record.at, - x.record.id, - x.path[2]>>
RanksBefore(x, y) ==
  \E k \in 1..4 : Key(x)[k] > Key(y)[k] /\ \A j \in 1..(k - 1) : Key(x)[j] = Key(y)[j]
Ranked(S) ==
  [k \in 1..Cardinality(S) |->
     CHOOSE x \in S : Cardinality({y \in S : RanksBefore(y, x)}) = k - 1]

(* Headings are of the kinds that occur.                                    *)
SizeOf(X) ==
  HeaderSize + HeadingSize * Cardinality({x.record.note.kind : x \in X})
    + MapThenSumSet(LAMBDA x : Len(x.record.note.words), X)

Candidates(p, root) == Items(got[p], {Canon(root)})
Best(S, k) == {Ranked(S)[i] : i \in 1..k}
Fits(S, k, root) == SizeOf(Best(S, k)) <= MaxBytes[root]
Allowed(S, root) == Min({Cardinality(S), MaxBullets[root]})

-----------------------------------------------------------------------------
(* The steps of each command                                                *)

Sweep(dirs) ==
  [k \in 1..(2 * Len(dirs)) |->
     IF k % 2 = 1 THEN <<"list", dirs[(k + 1) \div 2]>> ELSE <<"read", dirs[k \div 2]>>]
Each(op, things) == [k \in DOMAIN things |-> <<op, things[k]>>]
If(b, s) == IF b THEN s ELSE <<>>
InOrder(scopes) == If(Home \in scopes, <<Home>>) \o If(Global \in scopes, <<Global>>)

HomeTrees == <<Inbox, Canon(Home), Archive(Home)>>
GlobalTrees == <<Canon(Global), Archive(Global)>>

(* Mutant: the archive is looked at first. *)
LintTreesBackwards(scopes) ==
  If(Home \in scopes, <<Archive(Home), Canon(Home), Inbox>>) \o If(Global \in scopes, GlobalTrees)
LintTrees(scopes) ==
  If(Home \in scopes, HomeTrees) \o If(Global \in scopes, GlobalTrees)

CanonTrees(scopes) == [k \in DOMAIN InOrder(scopes) |-> Canon(InOrder(scopes)[k])]

Planning(scopes) ==
  If(Home \in scopes, Sweep(<<Canon(Home)>>) \o <<<<"plan", Home>>>>)
    \o If(Global \in scopes, Sweep(<<Canon(Global)>>) \o <<<<"plan", Global>>>>)

(* status runs doctor besides, which is here by itself.                     *)
Steps(c) ==
  CASE c.name = "lint" -> Sweep(LintTrees(c.scopes))
    [] c.name = "doctor" -> Sweep(GlobalTrees \o <<Canon(Home), Archive(Home)>>)
    [] c.name = "status" ->
         Each("list", HomeTrees \o GlobalTrees)
           \o Each("read", <<Inbox, Canon(Home), Canon(Global)>>)
    [] c.name \in {"search", "get"} -> Sweep(CanonTrees(c.scopes))
    [] c.name = "compile" -> Planning(c.scopes) \o Each("publish", InOrder(c.scopes))
    [] c.name = "context" -> Planning(c.scopes) \o Each("text", InOrder(c.scopes))

DirsOf(c) == {Steps(c)[k][2] : k \in {j \in DOMAIN Steps(c) : Steps(c)[j][1] = "list"}}
Stored(Ds) == {<<path[1][1], path[2]>> : path \in {q \in Paths : q[1] \in Ds /\ files[q] # NoFile}}

NoPlan == [ids |-> <<>>, omitted |-> 0]

Start(p, c) ==
  /\ todo[p] = <<>> /\ runs > 0
  /\ runs' = runs - 1
  /\ cmd' = [cmd EXCEPT ![p] = c]
  /\ todo' = [todo EXCEPT ![p] = Steps(c)]
  /\ listed' = [listed EXCEPT ![p] = [d \in Dirs |-> {}]]
  /\ got' = [got EXCEPT ![p] = {}]
  /\ cut' = [cut EXCEPT ![p] = 0]
  /\ plans' = [plans EXCEPT ![p] = [r \in Roots |-> NoPlan]]
  /\ text' = [text EXCEPT ![p] = [r \in Roots |-> <<>>]]
  /\ result' = [result EXCEPT ![p] = "none"]
  /\ begun' = [begun EXCEPT ![p] =
       [edition |-> edition, files |-> files, stored |-> Stored(DirsOf(c)), noted |-> {},
        current |-> {}]]
  /\ taken' = [taken EXCEPT ![p] = {}]
  /\ UNCHANGED <<store, digest, compiled>>

NextStep(p) == Head(todo[p])
At(p, op) == todo[p] # <<>> /\ NextStep(p)[1] = op

(* What comes after the step: the command is over with the last one.        *)
Continue(p) ==
  /\ todo' = [todo EXCEPT ![p] = Tail(@)]
  /\ result' = [result EXCEPT ![p] = IF Len(todo[p]) = 1 THEN "ok" ELSE @]

Stop(p, how) ==
  /\ todo' = [todo EXCEPT ![p] = <<>>]
  /\ result' = [result EXCEPT ![p] = how]

ListDirectory(p) ==
  /\ At(p, "list")
  /\ LET names == {n \in Names : files[<<NextStep(p)[2], n>>] # NoFile}
     IN  /\ listed' = [listed EXCEPT ![p][NextStep(p)[2]] = names]
         /\ begun' = [begun EXCEPT ![p].noted = @ \cup {<<NextStep(p)[2][1], n>> : n \in names}]
  /\ Continue(p)
  /\ UNCHANGED <<store, taken, digest, compiled, runs, cmd, got, cut, plans, text>>

(* Nothing was listed.                                                      *)
ReadNothing(p) ==
  /\ At(p, "read") /\ listed[p][NextStep(p)[2]] = {}
  /\ Continue(p)
  /\ UNCHANGED <<store, taken, digest, compiled, runs, cmd, working, begun>>

ReadNext(p) ==
  /\ At(p, "read") /\ listed[p][NextStep(p)[2]] # {}
  /\ LET dir  == NextStep(p)[2]
         path == <<dir, Min(listed[p][dir])>>
         how  == Load(cmd[p].name, path, ReadFile(path))
     IN  /\ listed' = [listed EXCEPT ![p][dir] = @ \ {path[2]}]
         /\ got' = [got EXCEPT ![p] = @ \cup {[path |-> path, file |-> ReadFile(path)]}]
         /\ CASE how # "ok" -> Stop(p, how)
              [] how = "ok" /\ listed'[p][dir] = {} -> Continue(p)
              [] how = "ok" /\ listed'[p][dir] # {} -> UNCHANGED <<todo, result>>
  /\ UNCHANGED <<store, taken, digest, compiled, runs, cmd, cut, plans, text, begun>>

Included(p, root) == Allowed(Candidates(p, root), root) - cut[p]

(* Mutant: two bullets at a time. *)
ShrinkTwice(p) ==
  /\ At(p, "plan")
  /\ Included(p, NextStep(p)[2]) > 0
  /\ ~ Fits(Candidates(p, NextStep(p)[2]), Included(p, NextStep(p)[2]), NextStep(p)[2])
  /\ cut' = [cut EXCEPT ![p] = @ + Min({2, Included(p, NextStep(p)[2])})]
  /\ UNCHANGED <<store, taken, digest, compiled, runs, cmd, todo, listed, got, plans, text,
                 result, begun>>

Shrink(p) ==
  /\ At(p, "plan")
  /\ Included(p, NextStep(p)[2]) > 0
  /\ ~ Fits(Candidates(p, NextStep(p)[2]), Included(p, NextStep(p)[2]), NextStep(p)[2])
  /\ cut' = [cut EXCEPT ![p] = @ + 1]
  /\ UNCHANGED <<store, taken, digest, compiled, runs, cmd, todo, listed, got, plans, text,
                 result, begun>>

MakePlan(p) ==
  /\ At(p, "plan")
  /\ LET root == NextStep(p)[2]
         S    == Candidates(p, root)
         k    == Included(p, root)
     IN  /\ k = 0 \/ Fits(S, k, root)
         /\ plans' = [plans EXCEPT ![p][root] =
              [ids |-> [i \in 1..k |-> Ranked(S)[i].record.id], omitted |-> Cardinality(S) - k]]
  /\ cut' = [cut EXCEPT ![p] = 0]
  /\ Continue(p)
  /\ UNCHANGED <<store, taken, digest, compiled, runs, cmd, listed, got, text, begun>>

(* Mutant: a digest that is there stays. *)
PublishOnce(p) ==
  /\ At(p, "publish")
  /\ digest' = [digest EXCEPT ![NextStep(p)[2]] = IF @ = NoDigest THEN plans[p][NextStep(p)[2]].ids ELSE @]
  /\ compiled' = [compiled EXCEPT ![NextStep(p)[2]] = begun[p].edition[NextStep(p)[2]]]
  /\ Continue(p)
  /\ UNCHANGED <<store, taken, runs, cmd, working, begun>>

(* One replacement of _publish_digest_plans; DigestPublish has the rest.    *)
Publish(p) ==
  /\ At(p, "publish")
  /\ digest' = [digest EXCEPT ![NextStep(p)[2]] = plans[p][NextStep(p)[2]].ids]
  /\ compiled' = [compiled EXCEPT ![NextStep(p)[2]] = begun[p].edition[NextStep(p)[2]]]
  /\ Continue(p)
  /\ UNCHANGED <<store, taken, runs, cmd, working, begun>>

(* No canon change since the command and the compile of the digest began.   *)
Current(p, root) ==
  /\ begun[p].edition[root] = edition[root]
  /\ digest[root] = NoDigest \/ compiled[root] = edition[root]

(* _context_text_for_plan: the published digest if there is one             *)
PrintText(p) ==
  /\ At(p, "text")
  /\ LET root == NextStep(p)[2]
     IN  text' = [text EXCEPT ![p][root] =
           IF digest[root] = NoDigest THEN plans[p][root].ids ELSE digest[root]]
         /\ begun' = [begun EXCEPT ![p].current = IF Current(p, root) THEN @ \cup {root} ELSE @]
  /\ Continue(p)
  /\ UNCHANGED <<store, taken, digest, compiled, runs, cmd, listed, got, cut, plans>>
-----------------------------------------------------------------------------
(* The other commands, a step each for what a reader can tell apart         *)

IsRecord(path, status) ==
  /\ files[path].form = "record"
  /\ files[path].record.id = path[2] /\ ~ Misplaced(files[path].record, path[1])
  /\ files[path].record.status = status

Put(path, r) == files' = [files EXCEPT ![path] = [form |-> "record", record |-> r]]
Remove(path) == files' = [files EXCEPT ![path] = NoFile]
Edited(root) == edition' = [edition EXCEPT ![root] = @ + 1]
Moved(r, status) == [r EXCEPT !.status = status, !.at = @ + 1]
Unmoved == <<digest, compiled, runs, cmd, todo, working, result, begun>>
Elsewhere == <<Unmoved, taken>>

(* Mutant: the candidate is accepted whatever it says. *)
AcceptReadUnscreened(n) ==
  /\ moves > 0 /\ judged[n] = NoFile /\ n \notin accepted
  /\ IsRecord(<<Inbox, n>>, "captured")
  /\ judged' = [judged EXCEPT ![n] = files[<<Inbox, n>>]]
  /\ moves' = moves - 1
  /\ UNCHANGED <<files, accepted, archiving, edition, Elsewhere>>

(* accept: it holds what it has read, and others go on meanwhile.           *)
AcceptRead(n) ==
  /\ moves > 0 /\ judged[n] = NoFile /\ n \notin accepted
  /\ IsRecord(<<Inbox, n>>, "captured") /\ ~ SecretLike(files[<<Inbox, n>>].record.note)
  /\ judged' = [judged EXCEPT ![n] = files[<<Inbox, n>>]]
  /\ moves' = moves - 1
  /\ UNCHANGED <<files, accepted, archiving, edition, Elsewhere>>

AcceptWrite(n) ==
  /\ judged[n] # NoFile
  /\ Put(<<Canon(Home), n>>, Moved(judged[n].record, "accepted"))
  /\ judged' = [judged EXCEPT ![n] = NoFile]
  /\ accepted' = accepted \cup {n}
  /\ Edited(Home)
  /\ UNCHANGED <<archiving, moves, Elsewhere>>

AcceptUnlink(n) ==
  /\ n \in accepted
  /\ Remove(<<Inbox, n>>)
  /\ accepted' = accepted \ {n}
  /\ UNCHANGED <<judged, archiving, moves, edition, Elsewhere>>

(* promote, under a new id                                                  *)
Promote(m, n) ==
  /\ moves > 0
  /\ IsRecord(<<Canon(Home), m>>, "accepted")
  /\ ~ SecretLike(files[<<Canon(Home), m>>].record.note)
  /\ \A d \in Dirs : files[<<d, n>>] = NoFile
  /\ Put(<<Canon(Global), n>>,
         [Moved(files[<<Canon(Home), m>>].record, "accepted") EXCEPT
            !.id = n, !.scope = Global, !.source = m, !.supersedes = NoId])
  /\ moves' = moves - 1
  /\ Edited(Global)
  /\ UNCHANGED <<judged, accepted, archiving, Elsewhere>>

(* prune, one record after the other: which ones is up to PrunePlan.  Two   *)
(* prunes that have the same memory in hand count as one.                   *)
ArchiveWrite(root, n) ==
  /\ moves > 0 /\ <<root, n>> \notin archiving
  /\ IsRecord(<<Canon(root), n>>, "accepted")
  /\ Put(<<Archive(root), n>>, Moved(files[<<Canon(root), n>>].record, "archived"))
  /\ archiving' = archiving \cup {<<root, n>>}
  /\ moves' = moves - 1
  /\ UNCHANGED <<judged, accepted, edition, Elsewhere>>

(* Those that have listed it and not read it have it taken from them.       *)
Awaits(p, root, n) == todo[p] # <<>> /\ n \in listed[p][Canon(root)]
Taken(root, n) ==
  taken' = [p \in Procs |->
    IF Awaits(p, root, n) THEN taken[p] \cup {<<root, n>>} ELSE taken[p]]

ArchiveUnlink(root, n) ==
  /\ <<root, n>> \in archiving
  /\ Remove(<<Canon(root), n>>)
  /\ archiving' = archiving \ {<<root, n>>}
  /\ Edited(root) /\ Taken(root, n)
  /\ UNCHANGED <<judged, accepted, moves, Unmoved>>

-----------------------------------------------------------------------------

Nothing(x) == [p \in Procs |-> x]
NotBegun == [edition |-> [r \in Roots |-> 1], files |-> [q \in Paths |-> NoFile],
             stored |-> {}, noted |-> {}, current |-> {}]

Init ==
  /\ \E s \in Starts :
       files = s.files /\ digest = s.digest /\ moves = s.moves /\ runs = s.runs
  /\ compiled = [r \in Roots |-> 0]
  /\ judged = [n \in Names |-> NoFile] /\ accepted = {} /\ archiving = {}
  /\ edition = [r \in Roots |-> 1]
  /\ cmd = Nothing([name |-> "lint", scopes |-> {}])
  /\ todo = Nothing(<<>>) /\ listed = Nothing([d \in Dirs |-> {}]) /\ got = Nothing({})
  /\ cut = Nothing(0) /\ plans = Nothing([r \in Roots |-> NoPlan])
  /\ text = Nothing([r \in Roots |-> <<>>]) /\ result = Nothing("none")
  /\ begun = Nothing(NotBegun) /\ taken = Nothing({})

Reading(p) ==
  \/ \E c \in Commands : Start(p, c)
  \/ ListDirectory(p) \/ ReadNothing(p) \/ ReadNext(p)
  \/ Shrink(p) \/ MakePlan(p) \/ Publish(p) \/ PrintText(p)

Moving ==
  \/ \E n \in Names : AcceptRead(n) \/ AcceptWrite(n) \/ AcceptUnlink(n)
  \/ \E m, n \in Names : Promote(m, n)
  \/ \E root \in Roots, n \in Names : ArchiveWrite(root, n) \/ ArchiveUnlink(root, n)

Next == Moving \/ \E p \in Procs : Reading(p)

Spec == Init /\ [][Next]_vars

-----------------------------------------------------------------------------
(* Properties                                                               *)

Operations == ({"list", "read"} \X Dirs) \cup ({"plan", "publish", "text"} \X Roots)
Memories == Roots \X Names
Over(S, f) == f = [x \in S |-> f[x]]

(* Of digests, plans and texts it says only what they are about.            *)
TypeOK ==
  /\ files \in [Paths -> File \cup {NoFile}]
  /\ Over(Roots, digest)
  /\ judged \in [Names -> [form : {"record"}, record : Record] \cup {NoFile}]
  /\ accepted \subseteq Names /\ archiving \subseteq Memories
  /\ moves \in Nat /\ runs \in Nat
  /\ cmd \in [Procs -> Commands \cup {[name |-> "lint", scopes |-> {}]}]
  /\ todo \in [Procs -> Seq(Operations)]
  /\ listed \in [Procs -> [Dirs -> SUBSET Names]]
  /\ got \in [Procs -> SUBSET [path : Paths, file : File]]
  /\ cut \in [Procs -> Nat]
  /\ Over(Procs, plans) /\ Over(Procs, text)
  /\ \A p \in Procs : Over(Roots, plans[p]) /\ Over(Roots, text[p])
  /\ result \in [Procs -> {"none", "ok", "reported", "raised"}]
  /\ edition \in [Roots -> Nat \ {0}] /\ compiled \in [Roots -> Nat]
  /\ begun \in [Procs -> [edition : [Roots -> Nat \ {0}], files : [Paths -> File \cup {NoFile}],
                         stored : SUBSET Memories, noted : SUBSET Memories,
                         current : SUBSET Roots]]
  /\ taken \in [Procs -> SUBSET Memories]

Ran(p, name) == result[p] = "ok" /\ cmd[p].name = name

(* A clean lint of everything is worth something: while no file has changed *)
(* since it began (nor has a canon changed and changed back), no command    *)
(* fails on what is in the store, get finds one record in a root, a prune   *)
(* finds no duplicates, what a record supersedes is there, and doctor,      *)
(* which inspects the same files with code of its own, finds nothing in     *)
(* them.                                                                    *)
Stands(path) == files[path] # NoFile
Loadable ==
  \A path \in Paths, c \in Commands :
    path[1] \in DirsOf(c) /\ Stands(path) => Load(c.name, path, files[path]) = "ok"
CanonItems(root) ==
  Items({[path |-> q, file |-> files[q]] : q \in {x \in Paths : Stands(x)}}, {Canon(root)})
Unique == \A root \in Roots, n \in Names : Cardinality(Matches(CanonItems(root), n)) <= 1
NoneDuplicate ==
  \A root \in Roots : \A x, y \in CanonItems(root) :
    x # y => ~ StrongDuplicate(x.record, y.record)
Healthy == \A path \in Paths : Stands(path) => DoctorFile(path, files[path]) = {}
Resolved ==
  \A root \in Roots : \A x \in CanonItems(root) :
    x.record.supersedes # NoId =>
      \E d \in {Canon(root), Archive(root)} : Stands(<<d, x.record.supersedes>>)
Sound == Loadable /\ Unique /\ NoneDuplicate /\ Resolved /\ Healthy
LintSuffices ==
  \A p \in Procs :
    (/\ Ran(p, "lint") /\ cmd[p].scopes = Roots /\ LintFindings(got[p]) = {}
     /\ files = begun[p].files /\ edition = begun[p].edition) => Sound

(* Whatever is moved while lint, doctor or status goes through the          *)
(* directories, each memory that was in one of them at the start is found   *)
(* in one of them: the directories are gone through in the order in which   *)
(* memories move, and these are written before they are unlinked.           *)
NothingMissed ==
  \A p \in Procs :
    Ran(p, "lint") \/ Ran(p, "doctor") \/ Ran(p, "status") => begun[p].stored \subseteq begun[p].noted

(* A plan has the best records of the canon that was read, as many as the   *)
(* budget has room for.                                                     *)
BestFit ==
  \A p \in Procs :
    Ran(p, "compile") \/ Ran(p, "context") => \A root \in cmd[p].scopes :
      LET S == Candidates(p, root)
          k == Len(plans[p][root].ids)
      IN  /\ plans[p][root].omitted = Cardinality(S) - k
          /\ \E X \in SUBSET S :
               /\ Cardinality(X) = k /\ {x.record.id : x \in X} = {plans[p][root].ids[i] : i \in 1..k}
               /\ \A x \in X, y \in S \ X : RanksBefore(x, y)
               /\ k <= MaxBullets[root] /\ (k > 0 => SizeOf(X) <= MaxBytes[root])
               /\ \A y \in S \ X :
                    (\A z \in S \ X : z = y \/ RanksBefore(y, z)) =>
                      k = MaxBullets[root] \/ ~ SizeOf(X \cup {y}) <= MaxBytes[root]

(* The text of a context is the published digest, its ids are a plan of its *)
(* own: they are the same memories unless the canon has changed since the   *)
(* compile of the digest began.                                             *)
ContextAgrees ==
  \A p \in Procs :
    Ran(p, "context") => \A root \in begun[p].current : text[p][root] = plans[p][root].ids

(* A compile that starts on files it can read fails only when a prune has   *)
(* taken from canon one that it had listed and not read, which the lock is  *)
(* there for and does not always prevent: what other commands put into      *)
(* canon meanwhile, from what they read long ago, can be compiled.          *)
CompileUndisturbed ==
  \A p \in Procs :
    (/\ cmd[p].name = "compile" /\ result[p] \in {"reported", "raised"}) =>
      \E root \in cmd[p].scopes, n \in Names :
        LET file == begun[p].files[<<Canon(root), n>>]
        IN  \/ file # NoFile /\ LoadForDigest(<<Canon(root), n>>, file) # "ok"
            \/ <<root, n>> \in taken[p]
=============================================================================
