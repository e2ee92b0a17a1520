----------------------------- MODULE SelfUpdate -----------------------------
(***************************************************************************)
(* How self-update replaces the installed bundle (updating.py): it stages  *)
(* the latest release beside it, renames the bundle to a backup and the    *)
(* staged directory into its place, and removes the backup; when the       *)
(* second rename fails, it renames the backup back.                        *)
(*                                                                         *)
(* Several updates may run at once, and nothing locks the bundle: only     *)
(* that a rename needs its source, and a target that is not there.         *)
(* Renames are atomic; unpacking and removing a directory are not.         *)
(***************************************************************************)
EXTENDS Naturals

CONSTANTS
  Updaters,    \* pids of self-update commands
  MaxVersion,  \* bound on the versions released
  Broken,      \* releases whose archive lacks a required entry
  NoBundle,    \* the absence of a directory
  Faults       \* subset of {"fail", "crash"}

Versions == 1 .. MaxVersion
Bundle   == [version : Versions, whole : BOOLEAN]

ASSUME VersionsAssumption     == MaxVersion \in Nat \ {0}
ASSUME NoBundleAssumption     == NoBundle \notin Bundle
ASSUME UpdateFaultsAssumption == Faults \subseteq {"fail", "crash"}

VARIABLES
  latest,   \* the release that is offered as the latest
  bundle,   \* the directory at bundle_root, or NoBundle
  stage,    \* the staging directory of each update
  backup,   \* the backup directory of each pid
  pc,       \* the next step of each update
  current,  \* the version each update runs from
  target,   \* the version each update downloads
  causes    \* history: what has gone wrong in the last update of each pid

vars == <<latest, bundle, stage, backup, pc, current, target, causes>>
dirs == <<bundle, stage, backup>>

Steps  == {"idle", "check", "resolve", "download", "extract", "validate", "retire",
           "install", "purge", "undo", "clean", "discard"}
Causes == {"download", "extract", "broken", "retire", "install", "purge", "undo",
           "clean", "discard", "crash", "withdrawn"}

(* The types, and that what is validated or installed has been staged.      *)
TypeOK ==
  /\ latest \in Versions
  /\ bundle \in Bundle \cup {NoBundle}
  /\ stage \in [Updaters -> Bundle \cup {NoBundle}]
  /\ backup \in [Updaters -> Bundle \cup {NoBundle}]
  /\ pc \in [Updaters -> Steps]
  /\ current \in [Updaters -> Versions]
  /\ target \in [Updaters -> Versions]
  /\ causes \in [Updaters -> SUBSET Causes]
  /\ \A p \in Updaters : pc[p] \in {"validate", "retire", "install"} => stage[p] \in Bundle

(* A bundle is installed, the latest release or not.                        *)
Init ==
  /\ latest \in Versions
  /\ bundle \in {b \in Bundle : b.whole}
  /\ stage = [p \in Updaters |-> NoBundle]
  /\ backup = [p \in Updaters |-> NoBundle]
  /\ pc = [p \in Updaters |-> "idle"]
  /\ current = [p \in Updaters |-> bundle.version]
  /\ target = [p \in Updaters |-> bundle.version]
  /\ causes = [p \in Updaters |-> {}]

(* Every required entry is there.                                           *)
Whole(dir) == dir # NoBundle /\ dir.whole

(* What a directory may be after part of it was removed.                    *)
Damaged(dir) == IF dir = NoBundle THEN {dir} ELSE {dir, [dir EXCEPT !.whole = FALSE]}

Goto(p, to) == pc' = [pc EXCEPT ![p] = to]

(* The step of p fails because of why, and p goes on at to.                 *)
Raise(p, why, to) ==
  /\ causes' = [causes EXCEPT ![p] = @ \cup {why}]
  /\ Goto(p, to)
  /\ UNCHANGED <<latest, current, target>>

(* What a step that succeeds leaves alone.                                  *)
Kept == UNCHANGED <<latest, current, target, causes>>

MayFail == "fail" \in Faults

-----------------------------------------------------------------------------

(* A release is published, or withdrawn, or another one is made the latest: *)
(* memwiz takes what the service offers, and that may be older than before. *)
(* History: an update between its two lookups has met an older one than it  *)
(* runs from.                                                               *)
Publish ==
  /\ \E v \in Versions \ {latest} : latest' = v
  /\ causes' = [p \in Updaters |->
                   IF pc[p] = "resolve" /\ latest' <= current[p]
                     THEN causes[p] \cup {"withdrawn"} ELSE causes[p]]
  /\ UNCHANGED <<dirs, pc, current, target>>

(* The command is in the bundle: without one it cannot be run.  Its staging *)
(* directory will be a new one, whatever an earlier update left in its own. *)
Start(p) ==
  /\ pc[p] = "idle"
  /\ Whole(bundle)
  /\ current' = [current EXCEPT ![p] = bundle.version]
  /\ stage' = [stage EXCEPT ![p] = NoBundle]
  /\ causes' = [causes EXCEPT ![p] = {}]
  /\ Goto(p, "check")
  /\ UNCHANGED <<latest, bundle, backup, target>>

(* Mutant: any other version is taken for an update. *)
CheckDifferent(p) ==
  /\ pc[p] = "check"
  /\ \/ Whole(bundle) /\ latest # current[p] /\ Goto(p, "resolve")
     \/ Goto(p, "idle")
  /\ Kept /\ UNCHANGED dirs

(* check_for_update: an update goes on only from a supported installation   *)
(* and to a newer release.  A command with --check ends here, and so does   *)
(* one that cannot read the release.                                        *)
Check(p) ==
  /\ pc[p] = "check"
  /\ \/ Whole(bundle) /\ latest > current[p] /\ Goto(p, "resolve")
     \/ Goto(p, "idle")
  /\ Kept /\ UNCHANGED dirs

(* apply_update asks for the latest release anew and does not compare it.   *)
Resolve(p) ==
  /\ pc[p] = "resolve"
  /\ target' = [target EXCEPT ![p] = latest]
  /\ Goto(p, "download")
  /\ UNCHANGED <<latest, dirs, current, causes>>

(* The download and its checksum; also what may fail before it, and making  *)
(* the staging directory after it, which no handler covers.                 *)
Download(p) ==
  /\ pc[p] = "download"
  /\ \/ Goto(p, "extract") /\ Kept
     \/ MayFail /\ Raise(p, "download", "idle")
  /\ UNCHANGED dirs

Extract(p) ==
  /\ pc[p] = "extract"
  /\ \/ /\ stage' = [stage EXCEPT ![p] = [version |-> target[p], whole |-> target[p] \notin Broken]]
        /\ Goto(p, "validate") /\ Kept
     \/ /\ MayFail
        /\ stage' = [stage EXCEPT ![p] = [version |-> target[p], whole |-> FALSE]]
        /\ Raise(p, "extract", "discard")
  /\ UNCHANGED <<bundle, backup>>

(* Mutant: the staged directory is not looked at. *)
ValidateAny(p) ==
  /\ pc[p] = "validate"
  /\ Goto(p, "retire") /\ Kept
  /\ UNCHANGED dirs

(* The UpdateError of a missing entry leaves the staging directory there.   *)
Validate(p) ==
  /\ pc[p] = "validate"
  /\ \/ Whole(stage[p]) /\ Goto(p, "retire") /\ Kept
     \/ ~ Whole(stage[p]) /\ Raise(p, "broken", "idle")
  /\ UNCHANGED dirs

(* Mutant: the old bundle is removed instead of renamed. *)
RetireRemoves(p) ==
  /\ pc[p] = "retire"
  /\ bundle' = NoBundle
  /\ Goto(p, "install") /\ Kept
  /\ UNCHANGED <<stage, backup>>

(* Mutant: there is nothing to do when there is no bundle. *)
RetireMissing(p) ==
  /\ pc[p] = "retire"
  /\ backup' = [backup EXCEPT ![p] = bundle]
  /\ bundle' = NoBundle
  /\ Goto(p, "install") /\ Kept
  /\ UNCHANGED stage

(* The backup is named after the pid: one that is still there, left by an   *)
(* update killed under the same pid, makes the rename fail unless it has    *)
(* been emptied, and so does an update that has renamed the bundle away.    *)
Retire(p) ==
  /\ pc[p] = "retire"
  /\ \/ /\ bundle # NoBundle /\ ~ Whole(backup[p])
        /\ backup' = [backup EXCEPT ![p] = bundle]
        /\ bundle' = NoBundle
        /\ Goto(p, "install") /\ Kept
     \/ /\ MayFail \/ bundle = NoBundle \/ backup[p] # NoBundle
        /\ Raise(p, "retire", "discard")
        /\ UNCHANGED <<bundle, backup>>
  /\ UNCHANGED stage

Install(p) ==
  /\ pc[p] = "install"
  /\ \/ /\ bundle = NoBundle
        /\ bundle' = stage[p]
        /\ stage' = [stage EXCEPT ![p] = NoBundle]
        /\ Goto(p, "clean") /\ Kept
     \/ /\ MayFail \/ bundle # NoBundle
        /\ Raise(p, "install", "purge")
        /\ UNCHANGED <<bundle, stage>>
  /\ UNCHANGED backup

-----------------------------------------------------------------------------
(* After the second rename failed: remove what was staged, then rename the  *)
(* backup back.                                                             *)

(* When removing fails, the exception goes past the rename.                 *)
Purge(p) ==
  /\ pc[p] = "purge"
  /\ \/ /\ stage' = [stage EXCEPT ![p] = NoBundle]
        /\ Goto(p, "undo") /\ Kept
     \/ /\ MayFail
        /\ \E d \in Damaged(stage[p]) : stage' = [stage EXCEPT ![p] = d]
        /\ Raise(p, "purge", "discard")
  /\ UNCHANGED <<bundle, backup>>

(* Mutant: the backup is left where it is. *)
UndoForgotten(p) ==
  /\ pc[p] = "undo"
  /\ Goto(p, "idle") /\ Kept
  /\ UNCHANGED dirs

Undo(p) ==
  /\ pc[p] = "undo"
  /\ \/ /\ bundle = NoBundle
        /\ bundle' = backup[p]
        /\ backup' = [backup EXCEPT ![p] = NoBundle]
        /\ Goto(p, "idle") /\ Kept
     \/ /\ MayFail \/ bundle # NoBundle
        /\ Raise(p, "undo", "discard")
        /\ UNCHANGED <<bundle, backup>>
  /\ UNCHANGED stage

-----------------------------------------------------------------------------

(* The update is done but for its backup.  One that cannot be removed makes *)
(* the command report a failure.                                            *)
Clean(p) ==
  /\ pc[p] = "clean"
  /\ \/ /\ backup' = [backup EXCEPT ![p] = NoBundle]
        /\ Goto(p, "idle") /\ Kept
     \/ /\ MayFail
        /\ \E d \in Damaged(backup[p]) : backup' = [backup EXCEPT ![p] = d]
        /\ Raise(p, "clean", "discard")
  /\ UNCHANGED <<bundle, stage>>

(* Mutant: the staging directory is left there. *)
DiscardNothing(p) ==
  /\ pc[p] = "discard"
  /\ Goto(p, "idle") /\ Kept
  /\ UNCHANGED dirs

(* The handler of every exception but an UpdateError.                       *)
Discard(p) ==
  /\ pc[p] = "discard"
  /\ \/ /\ stage' = [stage EXCEPT ![p] = NoBundle]
        /\ Goto(p, "idle") /\ Kept
     \/ /\ MayFail /\ stage[p] # NoBundle
        /\ \E d \in Damaged(stage[p]) : stage' = [stage EXCEPT ![p] = d]
        /\ Raise(p, "discard", "idle")
  /\ UNCHANGED <<bundle, backup>>

(* A kill, in the middle of unpacking or removing too.                      *)
Crash(p) ==
  /\ "crash" \in Faults
  /\ pc[p] # "idle"
  /\ Raise(p, "crash", "idle")
  /\ \/ UNCHANGED <<stage, backup>>
     \/ /\ pc[p] = "extract"
        /\ stage' = [stage EXCEPT ![p] = [version |-> target[p], whole |-> FALSE]]
        /\ UNCHANGED backup
     \/ /\ pc[p] \in {"purge", "discard"}
        /\ \E d \in Damaged(stage[p]) : stage' = [stage EXCEPT ![p] = d]
        /\ UNCHANGED backup
     \/ /\ pc[p] = "clean"
        /\ \E d \in Damaged(backup[p]) : backup' = [backup EXCEPT ![p] = d]
        /\ UNCHANGED stage
  /\ UNCHANGED bundle

Update(p) ==
  \/ Start(p) \/ Check(p) \/ Resolve(p) \/ Download(p) \/ Extract(p) \/ Validate(p)
  \/ Retire(p) \/ Install(p) \/ Purge(p) \/ Undo(p) \/ Clean(p) \/ Discard(p)

Next == Publish \/ \E p \in Updaters : Update(p) \/ Crash(p)

Spec == Init /\ [][Next]_vars

-----------------------------------------------------------------------------
(* Properties                                                               *)

(* The bundle that p has renamed away is not yet replaced.                  *)
Swapping(p) == pc[p] \in {"install", "purge", "undo"}

(* The renames alone keep updates apart: no two are in the middle of a      *)
(* swap, so none installs over, or restores over, what another has put in.  *)
OneSwap ==
  \A p, q \in Updaters : Swapping(p) /\ Swapping(q) => p = q

(* What is installed is never a part of a bundle, or a release that lacks   *)
(* an entry.                                                                *)
WholeInstalled == bundle = NoBundle \/ bundle.whole

(* A whole bundle is in its place or in a backup at every moment, whichever *)
(* updates run, fail and are killed: it can always be put back by hand.     *)
Survives == Whole(bundle) \/ \E p \in Updaters : Whole(backup[p])

AtRest == \A p \in Updaters : pc[p] = "idle"
Suffered(kinds) == \E p \in Updaters : causes[p] \cap kinds # {}

(* Only a kill, or a rollback that could not be made, leaves no bundle.     *)
Standing ==
  AtRest /\ bundle = NoBundle => Suffered({"crash", "purge", "undo"})

(* No staging directory stays beside the bundle, unless the update was      *)
(* killed, a directory could not be removed or renamed back, or the release *)
(* was broken.                                                              *)
Tidy ==
  \A p \in Updaters :
    pc[p] = "idle" /\ causes[p] \cap {"crash", "purge", "undo", "clean", "discard", "broken"} = {}
      => stage[p] = NoBundle

(* An update that swaps the bundle it runs from puts a newer one in its     *)
(* place, although the release is looked up again after it was compared:    *)
(* unless an older one was offered between the two lookups, by which time   *)
(* nothing compares any more.  Of two updates that overlap, the second      *)
(* swaps what the first has installed, and that may be newer.               *)
Upgrades ==
  \A p \in Updaters :
    pc[p] = "install" /\ backup[p].version = current[p] /\ "withdrawn" \notin causes[p]
      => target[p] > current[p]
=============================================================================
