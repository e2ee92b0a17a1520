--------------------------- MODULE DigestPublish ---------------------------
(***************************************************************************)
(* How compile publishes the digests of the scopes it has selected         *)
(* (_publish_digest_plans): every new digest is staged in a temporary      *)
(* file, every existing one is copied to a backup, the staged files        *)
(* replace the digests one by one, each replacement followed by an fsync   *)
(* of its directory, and when one of them fails those already made are     *)
(* undone in reverse.  Temporary files are unlinked at the end.            *)
(*                                                                         *)
(* The command holds the root lock (RootLock), so one compile runs at a    *)
(* time; readers of the digests take no lock.  The content of a digest is  *)
(* the number of the run that rendered it.                                 *)
(***************************************************************************)
EXTENDS Integers, Sequences, FiniteSets, SequencesExt

CONSTANTS
  Digests,  \* the paths of the digests
  Plans,    \* the sequences of digests a compile may publish
  Faults,   \* subset of {"fail", "crash"}
  MaxRuns   \* bound on the number of runs

NoDigest == 0

ASSUME PlansAssumption ==
  \A plan \in Plans : /\ plan \in Seq(Digests) /\ plan # <<>>
                      /\ \A j, k \in DOMAIN plan : plan[j] = plan[k] => j = k
ASSUME PublishFaultsAssumption == Faults \subseteq {"fail", "crash"}
ASSUME MaxRunsAssumption       == MaxRuns \in Nat \ {0}

VARIABLES
  digest,   \* the content of each digest, or NoDigest
  pc,       \* the next step of the compile
  run,      \* the number of the run
  plan,     \* what it publishes
  k,        \* the position in plan it has reached
  staged,   \* digests with a staged file on disk
  backup,   \* the content of the backup of each digest, or NoDigest
  known,    \* digests whose backups backup_paths names
  applied,  \* applied_destinations
  before,   \* history: the digests when the run began
  causes,   \* history: what has gone wrong in this run
  stray     \* history: temporary files this run has left behind

vars == <<digest, pc, run, plan, k, staged, backup, known, applied, before, causes, stray>>

Init ==
  /\ digest \in [Digests -> {NoDigest}]
  /\ pc = "idle" /\ run = 0 /\ plan = <<>> /\ k = 1
  /\ staged = {} /\ known = {} /\ applied = <<>>
  /\ backup = digest /\ before = digest
  /\ causes = {} /\ stray = {}

HasBackup == {d \in Digests : backup[d] # NoDigest}

(* After the step for plan[k], the next one of the same kind, or a new one. *)
Advance(to) ==
  IF k < Len(plan) THEN k' = k + 1 /\ pc' = pc ELSE k' = 1 /\ pc' = to

-----------------------------------------------------------------------------

Start(p) ==
  /\ pc = "idle" /\ run < MaxRuns
  /\ run' = run + 1
  /\ plan' = p /\ k' = 1 /\ pc' = "stage"
  /\ staged' = {} /\ known' = {} /\ applied' = <<>>
  /\ backup' = [d \in Digests |-> NoDigest]
  /\ before' = digest /\ causes' = {} /\ stray' = {}
  /\ UNCHANGED digest

Stage ==
  /\ pc = "stage"
  /\ staged' = staged \cup {plan[k]}
  /\ Advance("backup")
  /\ UNCHANGED <<digest, run, plan, backup, known, applied, before, causes, stray>>

(* backup_paths names the backups when the last one is written.             *)
Backup ==
  /\ pc = "backup"
  /\ backup' = [backup EXCEPT ![plan[k]] = digest[plan[k]]]
  /\ known' = IF k = Len(plan) THEN {d \in Digests : backup'[d] # NoDigest} ELSE known
  /\ Advance("replace")
  /\ UNCHANGED <<digest, run, plan, staged, applied, before, causes, stray>>

Replace ==
  /\ pc = "replace"
  /\ digest' = [digest EXCEPT ![plan[k]] = run]
  /\ staged' = staged \ {plan[k]}
  /\ pc' = "sync"
  /\ UNCHANGED <<run, plan, k, backup, known, applied, before, causes, stray>>

(* Mutant: the loop ends with the first replacement. *)
SyncReturns ==
  /\ pc = "sync"
  /\ applied' = Append(applied, plan[k])
  /\ pc' = "cleanup"
  /\ UNCHANGED <<digest, run, plan, k, staged, backup, known, before, causes, stray>>

(* Mutant: what was replaced is not recorded. *)
SyncUnrecorded ==
  /\ pc = "sync"
  /\ \/ k < Len(plan) /\ pc' = "replace" /\ k' = k + 1
     \/ k = Len(plan) /\ pc' = "cleanup" /\ UNCHANGED k
  /\ UNCHANGED <<digest, run, plan, staged, backup, known, applied, before, causes, stray>>

Sync ==
  /\ pc = "sync"
  /\ applied' = Append(applied, plan[k])
  /\ \/ k < Len(plan) /\ pc' = "replace" /\ k' = k + 1
     \/ k = Len(plan) /\ pc' = "cleanup" /\ UNCHANGED k
  /\ UNCHANGED <<digest, run, plan, staged, backup, known, before, causes, stray>>

(* Mutant: a digest that was there before is unlinked as one that was not. *)
RestoreUnlinks ==
  /\ pc = "restore" /\ applied # <<>>
  /\ digest' = [digest EXCEPT ![Last(applied)] = NoDigest]
  /\ pc' = "restoreSync"
  /\ UNCHANGED <<run, plan, k, staged, backup, known, applied, before, causes, stray>>

(* _restore_destinations, from the last replacement to the first: the       *)
(* backup replaces the digest, or the digest is unlinked when there is no   *)
(* backup.                                                                  *)
Restore ==
  /\ pc = "restore" /\ applied # <<>>
  /\ digest' = [digest EXCEPT ![Last(applied)] = backup[Last(applied)]]
  /\ backup' = [backup EXCEPT ![Last(applied)] = NoDigest]
  /\ pc' = "restoreSync"
  /\ UNCHANGED <<run, plan, k, staged, known, applied, before, causes, stray>>

RestoreSync ==
  /\ pc = "restoreSync"
  /\ applied' = Front(applied)
  /\ pc' = "restore"
  /\ UNCHANGED <<digest, run, plan, k, staged, backup, known, before, causes, stray>>

Restored ==
  /\ pc = "restore" /\ applied = <<>>
  /\ pc' = "cleanup"
  /\ UNCHANGED <<digest, run, plan, k, staged, backup, known, applied, before, causes, stray>>

(* Mutant: only the staged files are unlinked. *)
CleanStaged ==
  /\ pc = "cleanup"
  /\ \/ /\ staged # {}
        /\ \E d \in staged : staged' = staged \ {d}
        /\ UNCHANGED <<pc, stray>>
     \/ /\ staged = {}
        /\ pc' = "idle"
        /\ stray' = {"backup"} \X HasBackup
        /\ UNCHANGED staged
  /\ UNCHANGED <<digest, run, plan, k, backup, known, applied, before, causes>>

(* _cleanup_paths, for the staged files and then for the backups.           *)
Clean ==
  /\ pc = "cleanup"
  /\ \/ \E d \in staged : staged' = staged \ {d} /\ UNCHANGED <<backup, pc, stray>>
     \/ /\ staged = {}
        /\ \E d \in known \cap HasBackup : backup' = [backup EXCEPT ![d] = NoDigest]
        /\ UNCHANGED <<staged, pc, stray>>
     \/ /\ staged = {} /\ known \cap HasBackup = {}
        /\ pc' = "idle"
        /\ stray' = {"backup"} \X HasBackup
        /\ UNCHANGED <<staged, backup>>
  /\ UNCHANGED <<digest, run, plan, k, known, applied, before, causes>>

-----------------------------------------------------------------------------

Abandon(why) ==
  /\ causes' = causes \cup {why}
  /\ pc' = "idle"
  /\ stray' = ({"staged"} \X staged) \cup ({"backup"} \X HasBackup)
  /\ UNCHANGED <<digest, run, plan, k, staged, backup, known, applied, before>>

(* A file operation raises at pc and the command goes on at to.             *)
Raise(at, why, to) ==
  /\ pc = at
  /\ causes' = causes \cup {why} /\ pc' = to
  /\ UNCHANGED <<digest, run, plan, k, staged, backup, known, applied, before, stray>>

(* An exception of unlink, other than that the file is gone, skips the rest *)
(* of the cleanup.                                                          *)
Fail ==
  /\ "fail" \in Faults
  /\ \/ Raise("stage", "staging", "cleanup")
     \/ Raise("backup", "backup", "cleanup")
     \/ Raise("replace", "replace", "restore")
     \/ Raise("sync", "sync", "restore")
     \/ applied # <<>> /\ Raise("restore", "rollback", "cleanup")
     \/ Raise("restoreSync", "rollback", "cleanup")
     \/ /\ pc = "cleanup" /\ staged \cup (known \cap HasBackup) # {}
        /\ Abandon("cleanup")

Crash ==
  /\ "crash" \in Faults
  /\ pc # "idle"
  /\ Abandon("crash")

Next ==
  \/ \E p \in Plans : Start(p)
  \/ Stage \/ Backup \/ Replace \/ Sync
  \/ Restore \/ RestoreSync \/ Restored \/ Clean
  \/ Fail \/ Crash

Spec == Init /\ [][Next]_vars

-----------------------------------------------------------------------------
(* Properties                                                               *)

Steps  == {"idle", "stage", "backup", "replace", "sync", "restore", "restoreSync", "cleanup"}
Causes == {"staging", "backup", "replace", "sync", "rollback", "cleanup", "crash"}

(* The types of the variables, and that k stays within the plan.            *)
TypeOK ==
  /\ digest \in [Digests -> Nat] /\ backup \in [Digests -> Nat] /\ before \in [Digests -> Nat]
  /\ pc \in Steps /\ run \in 0 .. MaxRuns
  /\ plan \in Plans \cup {<<>>} /\ applied \in Seq(Digests)
  /\ staged \subseteq Digests /\ known \subseteq Digests
  /\ causes \subseteq Causes /\ stray \subseteq {"staged", "backup"} \X Digests
  /\ IF pc = "idle" /\ plan = <<>> THEN k = 1 ELSE plan \in Plans /\ k \in DOMAIN plan

(* A reader finds each digest as it was before the run or as the run        *)
(* renders it, at every moment of a publication, a rollback and their       *)
(* failures: never missing if it was there, never that of another run.      *)
OldOrNew == \A d \in Digests : digest[d] \in {before[d], run}

(* A run that stops before its first replacement, or whose replacement      *)
(* fails and is rolled back, leaves every digest as it was.                 *)
RolledBack ==
  pc = "idle" /\ causes \cap {"staging", "backup", "replace"} # {}
              /\ causes \cap {"rollback", "crash"} = {}
    => digest = before

(* A run that reports success, or fails only to clean up, has published     *)
(* every digest of its plan and no other.                                   *)
Published ==
  pc = "idle" /\ causes \subseteq {"cleanup"} =>
    digest = [d \in Digests |-> IF d \in ToSet(plan) THEN run ELSE before[d]]

(* A run leaves no temporary file, unless it was killed, one could not be   *)
(* unlinked, or the backups could not all be written.                       *)
NoStray ==
  pc = "idle" /\ causes \cap {"crash", "cleanup", "backup"} = {} => stray = {}
=============================================================================
