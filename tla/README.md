# memwiz in TLA+

`memwiz` keeps small YAML "memories" for coding agents in a directory tree, the memory root: a workspace has
an `inbox` of candidates, a `canon` of accepted memories and an `archive`; a global root has a `canon` and an
`archive`. There is no daemon. Every command is a short-lived process that reads and writes files, and agents
and people run them at the same time. What can go wrong is therefore in the file system: two commands whose
reads and writes interleave, a command that fails or is killed between two writes, a lock file that outlives
its owner. This project models that.

## Inventory

| Component | Source (`src/src/mem-wiz/memwiz/`) | State | Operations | What makes it correct |
|---|---|---|---|---|
| Memory store | `storage.py`, `serde.py`, `models.py` and the commands capture, score, accept, remember, promote, prune | one file per record in inbox, canon, archive | read a record, read a canon, write atomically, unlink | nothing is lost; copies agree; only what deserves it is in canon; archived only for a duplicate that stays |
| Scoring | `scoring.py`, `policy.py` | none | six factors, weighted sum, disqualifiers, thresholds | exact thresholds; secrets, filler, guesses never pass |
| Duplicates | `dedupe.py` | none | strong, near, winner, supersedes | a total order of winners; symmetric duplication |
| Prune planner | `pruning.py` | a local plan | supersedes pass, duplicates loop | terminates; keeps no duplicates; loses nothing without a replacement |
| Root lock | `fsops.py` | a lock file with a pid | create, inspect, reclaim, release | one holder; no lock left behind; a kill is recovered from |
| Digest publication | `commands/compile.py` | digests, staged files, backups | stage, back up, replace, roll back, clean | old or new at every moment; a failure is undone |
| Digest selection | `compiler.py`, `policy.py` | none | load a canon, rank, select under budgets | the best records, as many as fit; no secret; no failure because of a prune |
| Autonomy policy | `autonomy_policy.py` | `policy.yaml` | load, resolve | validated before use |
| Audit log | `auditlog.py` | one JSONL file per day | append, read with filters | one event per decision; an event that was reported stays; no event without its memory |
| Reports | `reporting.py` | none | status, context | consistent with the store and with the digest |
| Lint, doctor | `validation.py`, `doctoring.py` | none | inspect the trees and the lock | report what the commands reject; miss no memory that moves |
| Search, get | `retrieval.py` | none | rank, look up | every record loads, an id is found once |
| File writes | `fsops.py`, `storage.py` | temporary files, page cache and disk | write, fsync, replace, fsync the directory, unlink, append | a file is whole or not there; what was written outlives a power failure |
| YAML | `serde.py`, `_vendor/yaml` | events, tokens, indents, states and stacks of the two pipelines | dump a record, load a record | what is written is read back |
| Self-update | `updating.py` | the installed bundle, staging and backup directories beside it | check, download, verify, unpack, swap, roll back | a whole bundle is never lost, a failed swap is undone, updates that overlap do not mix |
| Shell | `config.py`, `cli.py`, `output.py`, `clock.py`, `commands/init.py` | none | parse, derive paths, print | |
| Release tooling | `src/scripts/` | none | build a zip | |

How they interact. Commands share nothing but files. capture and remember write the inbox; score rewrites it;
accept and remember move a record from inbox to canon (write, then unlink); promote copies a workspace canon
record to the global canon under a new id; prune moves canon records to the archive (write, then unlink).
accept, remember and promote read a whole canon first and judge duplicates on what they read. remember appends
to the audit log at its end. compile reads canon and publishes digests, which context reads back. **Only prune
and compile take the root lock**: it keeps them apart from no other command, and from each other not always
(`lock_exclusion` below).

What is hard to test here, with the lines where it bites, is the list `hazards` in `PROJECT.json`.

## Modules

| Module | Models | Composed with |
|---|---|---|
| `Scoring` | the scorer as operators on notes | |
| `Dedupe` | duplicates, the winner order, what survives | extends `Scoring` |
| `Lifecycle` | abstract: what the store promises of each memory | extends `Dedupe` |
| `MemoryStore` | the store and six commands as concurrent processes | extends `Dedupe`, instantiates `Lifecycle` |
| `PrunePlan` | the planner of prune, pass by pass and round by round | extends `Dedupe` |
| `Mutex` | abstract: what the root lock promises to the commands that take it | |
| `RootLock` | the lock file protocol | instantiates `Mutex` |
| `DigestPublish` | the publication of digests | |
| `SelfUpdate` | the swap of the installed bundle by updates that may overlap | |
| `AtomicFiles` | abstract: what a writer of files promises to readers and to whoever looks after a power failure | |
| `Durability` | system calls on files of memories and on the audit log, page cache and disk | instantiates `AtomicFiles` |
| `Readers` | lint, doctor, status, search, get, context and compile, while accept, promote and prune move the files | extends `Dedupe` |
| `YamlScalar` | texts: how a scalar is analyzed, written, scanned and resolved | |
| `YamlDump`, `YamlLoad` | serializer and emitter; scanner, parser, composer and constructor | extend `YamlScalar` |
| `YamlRoundTrip` | `dump_record`, then `load_record` | extends both |
| `MC...` | instances for TLC | |
| `DedupeProofs`, `MemoryStoreProofs`, `PrunePlanProofs`, `DigestPublishProofs`, `SelfUpdateProofs`, `ReadersProofs`, `FsopsProofs`, `YamlProofs` | theorems about the module named; `FsopsProofs` about `RootLock` and `Durability`, `YamlProofs` about `YamlRoundTrip` | extend it and `TLAPS`; those about the store, the planner and the readers also `DedupeProofs` |

**Scoring.** A note keeps what the scorer looks at: kind, words, details, evidence and the families of markers
found in the text (`SECRET_PATTERNS`, `FILLER_MARKERS` and so on are one mark each). Factors are in quarters,
weights in hundredths, so all arithmetic is exact; the comment at `Aggregate` says what becomes of rounding.

**MemoryStore.** `inbox`, `canon` and `archive` map an id to its file or `NoFile`. Ids are drawn afresh
(`_build_memory_id`), so one function per directory kind is enough; the scope of a record says under which
root it lies. A process has a program counter, a record in hand, an outcome and a plan. A step is one
operation on shared files with the local work after it: `AcceptRead` is everything in `accept.run` up to the
canon read, `AcceptJudge` reads the canon and decides, `AcceptWrite` and `AcceptUnlink` are lines 69 and 70.
The guards are the early returns: a captured status, no secrets, enough score. A file operation that raises
ends the command, and so does a kill (`Stop`). `write_text_atomic` is one step, since a reader sees the old
file or the new one and a failure unlinks the temporary file. Reading a canon directory is one step; a file
that vanishes while it is read fails the command, which is `Stop` with nothing written. There is no lock here:
it keeps two prunes apart only until a lock file in use is taken for a stale one (`RootLock`), so a prune may
start whatever else is at work, and the properties hold of a lock that fails too. Two variables are history.
`overlapped` are the prunes that met another one, and `Lives` lets what they have planned, and only that, go
without a duplicate that stays. `lapsed` are the memories whose remember was stopped between accepting them
and its event, or lost the candidate to an accept.

**Lifecycle.** A memory is captured, accepted, archived. `Spec` is what survives concurrency: a memory never
disappears, only retainable ones are accepted and promotable ones promoted, and a memory is archived only
while a strong duplicate stays, unless two prunes that are under way at once contest it (`ArchiveContested`).
An archived memory may be revived, by an accept that had read its candidate before. `StrictSpec` adds what
commands keep when they run one at a time: no duplicates, a source in canon, nothing revived. `Lives` and
`LivesStrictly` are refinements under the mapping `MemoryOf`: canon overrides archive, and both override
inbox.

**PrunePlan.** `MemoryStore` archives `Survivors`' complement in one definition; `PrunePlan` runs the two
passes of the code on any finite set of records and shows the definition to be what the loop computes
(`KeepsSurvivors`). It has `supersedes` as well, which no command writes but edited or imported records may
hold, in cycles too: the members of a cycle stand for each other, and `Grounded` excuses such circles and no
others. Records with one id in two scopes are left out.

**RootLock.** One action per step of `acquire_root_lock`: the exclusive create, reading the pid, probing it,
unlinking a stale file, the second create, writing the pid, releasing. Unlinks go by path. A kill can come at
any step, and pids may be given out again: `reused` are those of killed processes that were, which the code
cannot tell from the processes that were killed. `ImplementsMutex` is the refinement: who uses the file it has
created is inside, and a file that nobody uses has been left. `Mutex` promises nothing after a reclaim has
taken a file in use, and the code has that fault (below). So no other module builds on it: prunes and compiles
overlap there as they come, and what the lock was for is named where a property would need it (`overlapped` in
`MemoryStore`, `taken` in `Readers`).

**DigestPublish.** One action per file operation of `_publish_digest_plans` and the functions it calls, each
of which may raise. `causes` records what went wrong in a run, so that each property can say which failures
excuse it. A `KeyboardInterrupt`, which `except Exception` lets pass, skips the rollback and counts as a kill.

**SelfUpdate.** The pid of a command names its backup directory, and its staging directory is fresh each time.
An action is one step of `apply_update`: `Retire` and `Install` are the two renames, `Purge` and `Undo` the
handler of the second, `Discard` the handler of everything else. An `UpdateError` passes that handler, as in
the code. A rename needs its source and a target that is not there (or is an empty directory, which a backup
left by a kill may be). Unpacking and removing are not atomic: a failure or a kill leaves any part. A
directory is its version and whether every entry of it is there. Any version may become the latest at any
time: a release can be withdrawn, replaced or reissued, also between the two lookups of one update, of which
only the first is compared with the running version. `causes` is as in `DigestPublish`; "withdrawn" is that an
update was between its lookups when a version not newer than its own became the latest.

**Durability.** `MemoryStore` takes a write for one step; this module takes it apart. `seen` is what processes
find at a path and `kept` what the disk would give after a power failure, each with the data in the cache and
the data that are `safe`. A write is `MakeTemp`, `WriteTemp`, `SyncTemp`, `Replace` and `SyncDirectory`; an
append is `WriteLine`, `SyncLog` and `NameLog`; a command is the sequence of its writes, unlinks and appends.
Calls fail (`Fail`), a process is killed (`Kill`), also within a line (`CutLine`), the kernel writes back what
it likes when it likes (`WriteBack`), and power fails (`PowerLoss`). What reaches the disk is not damaged
there. A log is the sequence of pieces that appends have written. A piece that was cut short has no newline,
so the next one, whoever writes it, continues its line, and neither can be read (`OwnLine`); `glued` are the
events this has happened to. A log reaches the disk up to some piece, the last one possibly cut. No code
settles a directory it has just made in its parent, so until the kernel does (`rooted`) a power failure takes
everything: `uprooted` remembers that it did, and the properties excuse it. `FilesAtomic` is the refinement:
what a file holds for a reader, and what it holds on the disk, are always all of some write or nothing.

**Readers.** A reading command lists a directory in one step and then reads file by file, while other commands
go on. A file is a record, or one of the forms that make a loader raise: not readable, not text, not YAML, not
a mapping, a field missing or unknown, a field of the wrong type. `LoadForDigest`, `LoadForRetrieval`,
`LoadForStatus`, `LintFile` and `DoctorFile` are what five pieces of code make of the same file; they differ
in the exceptions they catch and in what they look at. `Shrink` and `MakePlan` are the loop that drops bullets
until a digest fits, `Publish` stands for `DigestPublish`, `PrintText` is the second half of context. The
movers are accept, promote and prune in the steps of `MemoryStore`. Nothing waits for the lock, so a prune may
come between the listing and the reading of a compile as of any other command. The sweep that status makes on
behalf of doctor is the sweep of doctor. A result is "reported", a message, or "raised", a traceback.
`edition`, `compiled`, `begun` and `taken`, the files that went from canon after a command had listed them and
before it read them, are history.

**YAML.** `memwiz` ships its own copy of PyYAML, and everything it stores goes through it. The modules model
the path that `dump_record` and `load_record` take: the serializer turns the document into events, the emitter
waits for as many events as it needs and writes text; the scanner turns the text into tokens, the parser
tokens into events, the composer events into nodes. Each component is a few actions with a queue between it
and the next, so the order in which they run is free. A document is a sequence of nodes in which a node may
occur twice; `to_dict` never makes one that does, but the library writes an anchor and an alias for it, and an
edited file may have them. A text is a sequence of characters from a small alphabet, in which each character
that the code treats specially stands for itself. `HEX2`, `HEX4` and `HEX8` are characters beyond ASCII, which
`allow_unicode=False` makes the emitter write as `\x`, `\u` or `\U` and two, four or eight digits; the scanner
reads as many digits back or refuses the text (`Hex`, `EscapeCodes`). `LooksInt` and `LooksFloat` are what the
resolver's patterns make of digits, signs, points and colons, sexagesimals among them; words such as `true` or
`null` and dates are left out, since a string that looks like one is quoted for the same reason as one that
looks like a number. The width at which lines fold (80) and the lengths of a key that the emitter writes (128)
and the scanner accepts (1024) are constants.

## Runs

| Run | Instance | Distinct states | Shows |
|---|---|---|---|
| `concurrent` | 2 processes, 3 ids, 1 note, clock to 2, failures and kills, within `Brief` | 1.8 M | `NeverLost`, `CopyBeforeUnlink`, `CopiesAgree`, `ProvenanceResolves`, `AuditTruthful`, `AuditComplete`, and `Lives`: the store implements `Lifecycle!Spec` |
| `sequential` | 1 process, 3 ids, 2 workspaces, 5 notes of which two nearly duplicate each other, 2 policies, failures and kills, within `Sparing` | 3.3 M | `NoDuplicates`, `CanonEarned`, `LivesStrictly` |
| `duplicates` | 2 processes, no faults | violation | `NoDuplicates` fails when accepts overlap |
| `unaudited` | 2 processes, no faults | violation | `AlwaysAudited` fails when an accept overlaps a remember |
| `lock` | 3 pids, failures, kills, pids reused | 63,258 | `NoOrphan`, `Recovers`, and `ImplementsMutex`: the protocol implements `Mutex` |
| `lock_exclusion` | 2 pids, no faults | violation | `MutualExclusion` fails: an empty lock file is taken for stale |
| `publish` | 2 digests, 3 runs, failures and kills | 2,935 | `OldOrNew`, `RolledBack`, `Published`, `NoStray` |
| `prune_plan` | every set of up to 3 records | 451,426 | `KeptDistinct`, `LosersJustified`, `Grounded`, `KeepsSurvivors`, `Terminates` |
| `update` | 2 pids, 3 releases, one of them broken, that come and go, failures and kills | 1.1 M | `OneSwap`, `WholeInstalled`, `Survives`, `Standing`, `Tidy`, `Upgrades` |
| `durability` | 2 processes, 2 memories, 3 commands, failures, kills, 1 power failure | 867,343 | `Durable`, `AuditedIsStored`, `Reported`, and `FilesAtomic`: files are written as `AtomicFiles` says |
| `readers` | 3 ids, 3 roots; stores with one odd file, read undisturbed; stores in order, with 1 reader and 3 moves or 2 readers and 1 move; a candidate with a secret and 1 of each | 508,559 | `LintSuffices`, `NothingMissed`, `BestFit`, `ContextAgrees`, `CompileUndisturbed` |
| `yaml` | 14,079 documents and texts | 420,102 | `RoundTrip`, `KeysWait`, `IndentsMatch`, and that no component waits for ever |

Why the bounds are enough. The races of the store are between two commands on one memory, or on two that
duplicate each other (the one known to need three is below, with the findings, and left to the proofs); a
third id leaves room for a promotion of one of them or for a newcomer. One note is the worst case of
duplication, and everything it says is that of the others. Two notes that nearly duplicate each other reach
the policy's review, and the five of `sequential` every verdict of the scorer that matters (accepted, only
retained, guessed, secret); `Sparing` has three memories of the first two only, the others in pairs. The clock
moves only in `concurrent`, where stamps decide which of two duplicates wins and whose copy is newer. `Brief`
lets it move beside two memories while all is accepted by hand and beside one otherwise, and follows what
comes after a lapse or an overlap of prunes with two memories. Three records make the smallest chain of
duplicates that is not transitive and the smallest proper cycle of successors. Three pids are a holder and two
reclaimers that race. Three runs of compile are one that creates a digest, one that replaces it and one whose
failure restores it. Two updates are a swap and whoever interferes; of three versions, the middle one broken,
the running one has an older and a newer beside it, and any of them may be offered at any time. Three commands
of two memories are a write, the move that follows it and one that overlaps both; what one power failure
leaves is where every later one starts. A reader goes wrong by a move between two of its steps: three moves
take one memory past it and leave one that meets it, and a third id is one the odd file may name or duplicate.
Three characters are one and its two neighbours, which is as far as an analysis of a scalar looks; longer
strings are of the characters at which lines are folded, with a width of 6 in place of 80, and of those that
numbers are made of. Keys are of ASCII characters, as memwiz's field names are: the emitter measures a key
before it escapes it (128) and the scanner after (1024), so 128 characters outside the basic plane would make
a key that is not read back. Symmetry is over processes, updates and workspaces, and over the memories of
`Durability`; never over ids elsewhere, whose order the code uses.

Deadlock. `MemoryStore` stops when its ids are used up, `DigestPublish` when its runs are, `Durability` and
`Readers` when their commands are: those configurations do not check for deadlock. The others do (in `update`
it says little, since releases come and go for ever): the planner may stop only when nothing remains, a load
only with a document or an error.

Fairness. `RootLock!LockFairSpec` has each running command take its next step: nothing in `acquire_root_lock`
waits, it succeeds or raises. Starting a command is up to a user and is never fair, so `Recovers` speaks of a
process that keeps trying, under a pid that is not that of a killed holder. `PrunePlan!FairSpec` has a loop
that runs go on. The properties of the store, of readers and of files are all safety; what could keep a dump
or a load in `yaml` from its end is looked for as a deadlock.

Every property has a mutant in `PROJECT.json`: a plausible bug in one mapped definition under which TLC finds
the property violated. Mutants stand before the definition they replace and are marked as such.

## What the runs found

1. **Two duplicates in canon** (`duplicates`). accept, remember and promote check for duplicates and then
   write without a lock (`commands/accept.py:54-69`).
2. **Two holders of the lock** (`lock_exclusion`). The lock file is created empty and its pid written later; a
   file without a pid is reclaimed at once (`fsops.py:141`).
3. **An acceptance without its event** (`unaudited`). An accept of the candidate that a remember has just
   accepted makes the unlink of `remembering.py:144` raise, and line 145 is never reached: `README.md:54-56`
   has remember "always writing an audit event". A failure or a kill there does the same. `AuditComplete` says
   that nothing else does.

Not a violation of anything a run shows against the documentation, but seen on the way and excused, where a
property is about it, in that property:
- Two prunes that got past the lock together can archive both of two duplicates: each plans on a canon of its
  own, and when a slow accept rewrites, with a later stamp, the one that the first is about to unlink
  (`commands/prune.py:33`), the second chooses the other. It takes two prunes and an accept at once, more than
  `concurrent` has; `Lifecycle!ArchiveContested` and the theorems allow for it.
- An append to the audit log that was cut short leaves a line without an end, to which the next event is added:
  `json.loads` (`auditlog.py:69`) then raises for every reader of that day, also about the events reported
  before. `Reported` is about what is in the log, and excuses the event that was added to such a line.
- The release of an update is looked up twice and compared once (`updating.py:136`): when the latest one is
  withdrawn or replaced in between, the update installs an older one. `Upgrades` says that nothing else has
  this effect on the bundle an update runs from.
- A directory fsync that raises comes after the replacement and before it is recorded for the rollback
  (`commands/compile.py:101-103`): the new digest stays although compile fails. A backup that cannot be
  written leaves the earlier backups behind (`compile.py:93`).
- When the second rename of an update fails, the staging directory is removed before the backup is renamed
  back (`updating.py:159-160`); if removing raises, the bundle is not restored. A release that lacks an entry
  leaves its staging directory behind (`updating.py:178`). Two updates that overlap may end with the older of
  their releases (`Upgrades` speaks of the bundle an update runs from).
- A stale accept revives an archived memory (`Lifecycle!Revive`).
- search and get end in a traceback when a file they have listed is gone, or has a field of an unknown name
  (`retrieval.py:204`); status raises on one file that does not load. A search shows secret-like canon
  records, which compile refuses. get blames two scopes for an id that two files of one scope share
  (`retrieval.py:116-118`).
- The text of a context and its ids differ from a change of canon to the next compile (`reporting.py:135`).
- A pid that an unrelated process has been given keeps a stale lock alive (`fsops.py:145`). The daily limit of
  automatic memories is enforced nowhere (`autonomy_policy.py:38`). A clock set back makes every rewrite of a
  newer record fail (`models.py:318`). Ids are 32 random bits per day, and a write replaces what is there
  (`commands/capture.py:68`).

## Theorems

Each holds for every value of the constants that the named assumptions admit. The assumptions say what a
constant is (ids are numbers, notes are notes); two say that a marker is not also a value of what it marks the
absence of (`NoFileAssumption`, `NoMemoryAssumption`).

`MemoryStoreProofs`, for any processes, ids, notes, policies, faults and clock bound:
- `TypeCorrect`: `Spec => []TypeOK`. One lemma per action. What a command holds at each step is part of
  `TypeOK` (`HoldsOK`), which makes it inductive.
- `UnlinksAreSafe`: `Spec => []CopyBeforeUnlink`. Not inductive by itself: a write of another process goes to
  the id of the record it holds, so `IInv` adds `FiledById`, that a file's name is its record's id. The step
  that matters is a prune's unlink, which must not take away what an accept counts on: the record is then in
  the archive, which nothing ever unlinks.
- `MemoriesKept`: `Spec => NeverLost`, from the same invariant: only three actions unlink, and each has its
  copy on disk.

- `ContentsSound`: what the files say. It is the invariant `Contents`. No property about files is inductive,
  since a command writes what it read long before. So the invariant speaks of `Everywhere`, the records in
  files and those in the hands of commands alike: those of one id agree (`Agreed`), a captured one is local
  and has no source (`Humble`), any other one has earned its place (`Merited`), the source of a global one is
  settled (`Sourced`), events are true (`Logged`). `Carried` says what a command relies on between two of its
  steps, such as that nobody else has the fresh id it is about to write. A step adds only a record that
  repeats or accepts one its process sees (`Descends`) or one with a fresh id (`Born`); each part is then kept
  by a lemma of its own.
- `CopiesNeverDiffer` (`CopiesAgree`), `ProvenanceKept` (`ProvenanceResolves`), `AuditTellsTruth`
  (`AuditTruthful`) and `CanonIsEarned` (`CanonEarned`) follow from it. The last one holds under concurrency
  although what was compared with may be gone: a duplicate only lowers a score (`DuplicatesOnlyLower`).
- `PrunesAreSafe`: a prune archives only what it planned, and what it has planned and not yet done is duplicated
  by a canon record outside its plan, unless it has met another prune. The proof takes nothing for granted of
  the lock: while one prune is at work nobody else takes a record from canon, and what it keeps of a canon
  duplicates all the rest (`SurvivorsDefined` below); that two are at work is noted when the second one begins
  (`Noted`).
- `StoreImplementsLifecycle`: `Spec => Lives`. Every step of the files is one of `Lifecycle!Next` or changes
  no memory (`MemorySteps`), from all of the invariants above; what a prune that met another one takes is
  `ArchiveContested`. That the source of a promotion is read before the promotion is written is why
  `Lifecycle` lets a source be archived.
- With one process (`OneProcess`, the case that `sequential` checks): `OneProcessNeverDuplicates`
  (`NoDuplicates`) and `OneProcessLivesStrictly` (`LivesStrictly`), by `Alone`: what a command judged still
  holds when it writes, so there are never two duplicates, and no prune ever finds anything to archive.
  `OneProcessAccounts` (`AlwaysAudited`), when nothing stops a command either, from the
  next theorem: nothing lapses. Without their hypotheses `duplicates` refutes the first of these and `unaudited`
  the last.
- `EventsAreAccounted` (`AuditComplete`), for any processes and faults: `Owed` follows each memory that a policy
  accepted through what remembers have in hand. No two remembers work on
  one id (`Apart`), and a record that an accept, a promote or a prune carries on keeps what it was accepted for.

`DedupeProofs`:
- `SurvivorsDefined`: of finitely many records, exactly one set keeps no record that a better one kept
  duplicates and loses no other, and `Survivors`, a `CHOOSE`, is that set. Duplication is not transitive, so
  this is a kernel of the order of winners. It exists by the smallest subset without one (well-foundedness of
  the strict subsets of a finite set), since induction over the size is out of the prover's reach.

`PrunePlanProofs`, for any finite canon:
- `PlanTypeCorrect`; `KeptAreDistinct` (`KeptDistinct`), by `KeptApart`: what remains has no duplicate among
  what is kept; `LosersAreJustified` (`LosersJustified`).
- `LoopKeepsSurvivors` (`KeepsSurvivors`): at the end `kept` has the two properties that define the survivors,
  and these are unique.
- `NothingGoesForNothing` (`Grounded`): a closed circle of reasons has no strong duplicate in it, since the
  winner of a round is kept; so its reasons are all of the first pass, and it is a cycle of `supersedes`.

`FsopsProofs`, on the lock, for any set of pids:
- `LockTypeCorrect`, and `ExclusionUnlessStolen`: `Spec => []ExclusiveUnlessStolen`, by `InPlace`: while
  nothing was stolen, who is using a lock file finds its own at the path. Mutual exclusion follows because one
  file has one creator.
- `LockIsMutex`: `Spec => ImplementsMutex`, from `InPlace`, which says that the file at the path is that of the
  one who is inside. Each step before a theft is then `Enter`, `Leave`, `Die` or `Clear`, or it changes neither
  the file nor who uses one (`NothingSeen`).
- `NoLockLeftBehind`: `Spec => []NoOrphan`, which is inductive by itself on top of the types.

`DigestPublishProofs`, for any digests, plans, faults and number of runs:
- `PublishTypeCorrect`, and from one invariant `ReadersFindOldOrNew`, `FailuresRollBack`, `SuccessPublishes` and
  `NothingStrays`. The invariant says how long the prefix of the plan is that is backed up, replaced and
  recorded at each step: the code records a replacement one step after it makes it, and that step can fail.

`SelfUpdateProofs`, for any updaters, releases and faults:
- `OneUpdateSwaps`, `InstalledIsWhole` and `BundleSurvives`, from one invariant on top of `UpdateTypeCorrect`.
  `OneSwap` is not inductive by itself: that no second update gets past its first rename needs that no bundle
  is there while one is in a swap (`BackedUp`), which needs `OneSwap` in turn. `Recoverable` says that when no
  bundle is there its backup is not one that is being removed.
- `BundleStands` (`Standing`), `UpdatesAreTidy` (`Tidy`) and `UpdatesUpgrade` (`Upgrades`), by what an update
  owes while it is under way: a bundle (`Attended`), the removal of its staging directory (`Swept`), a release
  newer than its own unless it has met an older one between its lookups (`Newer`).

`FsopsProofs`, on writes of files, for any processes and memories and any number of commands and power failures:
- `FilesTypeCorrect`, which says of files that one with a name is whole and synced.
- `FilesAreAtomic`: `Spec => FilesAtomic`. Every step of `Durability` is a step of `AtomicFiles` or a stutter; a
  power failure is `Lose` while the directories are on the disk and `LoseAll` otherwise.
- `FilesAreDurable` and `AuditedIsFound`. Neither is inductive: a memory may be on the disk in the inbox only
  because nothing has unlinked it yet. The invariant (`Settles`) says what a command in flight counts on
  (`Backed`): the file that it is about to unlink is `Firm`, in the cache and on the disk, where the memory
  moves to, or where other commands have moved it since; so is the memory that it is about to audit. That a
  command gets there is the shape of what is left of it (`Linked`): an unlink comes right after the write that
  replaces the file, an acceptance is audited right after the unlink.
- `EventsAreReported`, by `Logged` (what the disk has of the log is a beginning of it, but for a cut last piece)
  and by what an append in flight has written and synced (`Lists`): its event is on a line of its own unless it
  was noted in `glued` when it was written, and no later piece goes in between.

`ReadersProofs`, for any files to begin with, any commands and any number of processes and moves:
- `ReadersTypeCorrect`. `Ordered`, a further invariant, is the shape of what is left of a command: whoever will
  list a directory will list all that a memory in it may be moved to, later (`Pursues`), and a planner lists,
  reads and plans each root in this order and publishes or prints it last and once (`Plans`).
- `CompilesAreUndisturbed` (`CompileUndisturbed`), by `Undisturbed`, in which the lock has no part: unless a
  file was bad from the beginning (`Spoilt`), what a compile has listed stays or is noted as taken by a prune,
  and whatever is written to canon meanwhile loads. The latter needs `Screened`: the candidate that an accept
  has in hand, read before the compile began, has no secret. A compile that failed has then read a file that
  was bad or taken (`Robbed`).
- `InventoriesMissNothing` (`NothingMissed`), by `Followed`: a memory that is not seen yet is in a directory
  still to be listed. A move goes to a directory listed later, and before it unlinks a file it has written the
  next one (`Written`), which in turn is kept or moved on.
- `ContextsAgree` (`ContextAgrees`). For given files and a given root there is one plan (`IsPlan`, `OnePlan`). A
  digest whose root has not changed since its compile began is that plan (`UpToDate`), and so is the plan of a
  context that is fresh in the same sense (`Planned`); `Progress` and `Shrunk` say how far a plan is at each
  step of a planner, between listing and shrinking.
- `PlansFitBest` (`BestFit`): here the files may change while they are read, so the invariant (`Told`) is about
  what was read alone. `PlansAreBest` derives what is stated about sets from the loop over a sorted list: the
  order of the records is strict, so the rank of a record is a bijection to the first numbers (`RanksAre`).
- `CleanLintSuffices` (`LintSuffices`), in two parts. `CleanIsSound` is about the operators: what `LintFile` and
  `LintFindings` let pass, each loader loads, `DoctorFile` passes, and no two items of a canon are duplicates.
  The latter is about the loop of `_duplicate_findings`, which takes the winner's item by its id: as no file is
  misnamed there is one item of an id, so each round takes out its winner alone, which it has compared with all
  that is left (`NoneIsDuplicate`; the rounds are a recursive function on numbers, and what holds of each is
  proved by the least number of which it would not, `Naturals`). The other part is the invariant `Linting`: lint
  reads every directory, and a file that is now as it was when lint began was never different meanwhile
  (`Steady`), so what lint has read is what is there. There the proof failed at first: files may change and
  change back. Where an archive has a copy of a record already, a prune archives it again and an accept that
  held the candidate writes it to canon anew, with equal stamps, and lint has listed canon in between.
  `LintSuffices` therefore asks that no canon was changed, not only that the files are the same in the end.

`YamlProofs`, for any documents and texts, widths and lengths of keys. `DocsAssumption` says what the
representer makes of a record: children are nodes of the document, a scalar has none, and one that is not a
string resolves to its tag from its own plain text, which may stand plain.
- `KeysStayInQueue` (`KeysWait`) and `IndentsAgree` (`IndentsMatch`). The scanner and the parser see each other
  only through the queue of tokens. `Keeps` is what every method of the scanner leaves as it was: which keys
  wait (`Waiting`), and `Balance`, the number of its indents less the block starts and plus the block ends in
  the queue. `Turn` says the same of the parser: the blocks it is in, by its state and its stack, change by
  what it takes from the queue; `TurnKeeps` puts one lemma for each handler together. Their sum is `Linked`.
  That a key is still in the queue when its `KEY` is inserted is a matter of the smallest token a key waits
  for, which `need_more_tokens` compares with the token the parser would take next. Neither property needed
  its premise that nothing had failed, and neither has one any more.
- `ParserHasAToken`: the parser never peeks into an empty queue. `FirstTokenStays`: what the scanner does while
  the parser is looking at a token never puts another one before it.
- `EndsMatch`: an end event closes the collection that the composer has open innermost, and of its kind;
  `GraphIsWhole`: what a node of the composer refers to is a node; `NothingLeftOpen`: when the parser has
  finished, so has the composer. The invariant is `InStep`: the composer's open nodes are the collections on the
  parser's stack, in order and each of the kind its state says (`Climbs`, `Aligned`), but for the event in
  between.
- `NoTagWritten` (what `RoundTrip` says of `em.tagged`): no scalar needs a tag. The style is chosen long after
  `plain` and `quoted` were computed, so the invariant `Dumping` says what may stand in the queue of the
  emitter (`Writable`), and in which states it is at all (`Emitter`).
- `AliasesNameAnchors`: an alias names a node that was written before it and no other (`AnchorsDiffer`). The
  serializer gives anchors by counting references, before it writes. So the invariant counts: a node is among
  the tasks, or written, no more often than written nodes list it (`Serializing`), so that when its turn comes
  a second time it has two references.
- `EverythingWritten`: at the end of a dump the root is serialized, and whatever a serialized node lists.
- `FlowIsEmpty`: in block style a flow collection is begun only when its end follows, which is why the model
  has no items in flow collections.

The proof of `AliasesNameAnchors` failed at first. `Referred`, which is `anchor_node` in one definition, looked
at no more places of a collection than the document has nodes, and so lost references of a list that names few
nodes many times. The definition is mended, and such a list is among the documents of `yaml`.

The type invariants of these modules are theorems and no run repeats them.

Only model-checked: liveness (`Recovers`, `Terminates`), which is out of the prover's reach; that no component
of `yaml` waits for ever, which is a property of ENABLED; and `RoundTrip`, but for its part about tags. What a
text is when it has been written and read is computed by recursion along the text, so the round trip is by
induction over it.

## Not modelled

- Of the reading commands: how search matches and ranks, the review queue, promotion candidates and counters
  of status, the filters of audit, the paths and the lock that doctor reports on, the layout of a digest. They
  are functions of what was read and wait for nothing.
- Of YAML: block scalars, tags, directives, streams of several documents, flow collections that hold items
  when written, merge keys, none of which memwiz writes; the words and dates that resolve to booleans, null or
  timestamps, and floats in exponents or by name, which scores are not (strings that look like them are quoted
  as those that look like numbers are); TAB and line breaks other than newline, which are further characters
  that need quoting or escaping; the names of anchors. Liveness of the pipeline is not stated; the run finds
  any state in which one component waits for another that will not go on.
- Validation of fields (`models.py`) is what an accept or a score can break in the store, and one form of file
  in `Readers`.
- Configuration, the command line, `init`, release tooling: derived paths, printing and one zip.

Files are assumed to change only through memwiz, except for the odd file that `readers` starts with. Ids do
not collide and the clock does not go back.

## Plan

Written so far, in this order: `Scoring` and `Dedupe`, which everything uses; `MemoryStore` and `Lifecycle`,
the core; `RootLock` over `Mutex`; `DigestPublish`; `PrunePlan`; `SelfUpdate`; the first proofs; the YAML
pipeline; `Durability` over `AtomicFiles`, with its proofs; `Readers`; the proofs about the contents of the
store, the planner, digests, updates and readers; the proofs about the YAML pipeline. What could be added:
flow collections with items and block scalars, should memwiz ever dump them; the review queue and the counters
of status; that a dump and a load end, under fairness of their components.
