-------------------------- MODULE SelfUpdateProofs --------------------------
(***************************************************************************)
(* Theorems about SelfUpdate, for any updaters, releases and faults.       *)
(***************************************************************************)
EXTENDS SelfUpdate, TLAPS

(* A bundle is there, and has a version and may lack entries.               *)
LEMMA BundlesAreThere ==
  /\ NoBundle \notin Bundle
  /\ \A b \in Bundle : b # NoBundle /\ b.version \in Versions /\ b.whole \in BOOLEAN
BY NoBundleAssumption DEF Bundle

(* What is left of a directory has the type of a directory.                 *)
LEMMA DamagedType ==
  ASSUME NEW dir \in Bundle \cup {NoBundle}, NEW d \in Damaged(dir)
  PROVE  d \in Bundle \cup {NoBundle}
BY BundlesAreThere DEF Damaged, Bundle

(* What an update unpacks is a bundle.                                      *)
LEMMA StagedType ==
  ASSUME NEW v \in Versions, NEW w \in BOOLEAN
  PROVE  [version |-> v, whole |-> w] \in Bundle
BY DEF Bundle

(* The directories and the program counters never leave their types, and an *)
(* update only validates and installs what it has staged.                   *)
THEOREM UpdateTypeCorrect == Spec => []TypeOK
<1>. USE DEF TypeOK
<1>1. Init => TypeOK
  <2>. SUFFICES ASSUME Init PROVE TypeOK
    OBVIOUS
  <2>1. bundle \in Bundle /\ bundle.version \in Versions
    BY BundlesAreThere DEF Init
  <2>2. QED
    BY <2>1 DEF Init, Steps, Causes
<1>2. TypeOK /\ [Next]_vars => TypeOK'
  <2>. SUFFICES ASSUME TypeOK, [Next]_vars
                PROVE  TypeOK'
    OBVIOUS
  <2>1. CASE Publish
    <3>1. latest' \in Versions /\ UNCHANGED <<bundle, stage, backup, pc, current, target>>
      BY <2>1 DEF Publish, dirs
    <3>2. causes' \in [Updaters -> SUBSET Causes]
      BY <2>1 DEF Publish, Causes
    <3>3. QED
      BY <3>1, <3>2
  <2>2. ASSUME NEW p \in Updaters, Update(p) \/ Crash(p)
        PROVE  TypeOK'
    <3>. USE DEF Goto, Kept, Raise, dirs, Steps, Causes
    <3>1. CASE Start(p)
      <4>1. bundle \in Bundle /\ bundle.version \in Versions
        BY <3>1, BundlesAreThere DEF Start, Whole
      <4>2. QED
        BY <3>1, <4>1 DEF Start
    <3>2. CASE Check(p) \/ Resolve(p) \/ Download(p)
      BY <3>2 DEF Check, Resolve, Download
    <3>3. CASE Extract(p)
      <4>1. target[p] \in Versions
        OBVIOUS
      <4>2. [version |-> target[p], whole |-> target[p] \notin Broken] \in Bundle
        BY <4>1, StagedType, Zenon
      <4>3. [version |-> target[p], whole |-> FALSE] \in Bundle
        BY <4>1, StagedType, Zenon
      <4>4. \E d \in Bundle : stage' = [stage EXCEPT ![p] = d]
        BY <3>3, <4>2, <4>3, Zenon DEF Extract
      <4>5. QED
        BY <3>3, <4>4 DEF Extract
    <3>4. CASE Validate(p)
      BY <3>4 DEF Validate
    <3>5. CASE Retire(p)
      BY <3>5 DEF Retire
    <3>6. CASE Install(p)
      BY <3>6 DEF Install
    <3>7. CASE Purge(p)
      BY <3>7, DamagedType DEF Purge
    <3>8. CASE Undo(p)
      BY <3>8 DEF Undo
    <3>9. CASE Clean(p)
      BY <3>9, DamagedType DEF Clean
    <3>10. CASE Discard(p)
      BY <3>10, DamagedType DEF Discard
    <3>11. CASE Crash(p)
      <4>1. stage' \in [Updaters -> Bundle \cup {NoBundle}]
        <5>1. target[p] \in Versions /\ stage[p] \in Bundle \cup {NoBundle}
          OBVIOUS
        <5>2. [version |-> target[p], whole |-> FALSE] \in Bundle
          BY <5>1, StagedType, Zenon
        <5>3. \A d \in Damaged(stage[p]) : d \in Bundle \cup {NoBundle}
          BY <5>1, DamagedType
        <5>4. stage' = stage \/ \E d \in Bundle \cup {NoBundle} : stage' = [stage EXCEPT ![p] = d]
          BY <3>11, <5>2, <5>3, Zenon DEF Crash
        <5>5. QED
          BY <5>4
      <4>2. backup' \in [Updaters -> Bundle \cup {NoBundle}]
        BY <3>11, DamagedType DEF Crash
      <4>3. \A q \in Updaters \ {p} : stage'[q] = stage[q] /\ pc'[q] = pc[q]
        BY <3>11 DEF Crash
      <4>4. pc' \in [Updaters -> Steps] /\ pc'[p] = "idle"
        BY <3>11 DEF Crash
      <4>5. causes' \in [Updaters -> SUBSET Causes] /\ UNCHANGED <<latest, bundle, current, target>>
        BY <3>11 DEF Crash
      <4>6. QED
        BY <4>1, <4>2, <4>3, <4>4, <4>5
    <3>12. QED
      BY <2>2, <3>1, <3>2, <3>3, <3>4, <3>5, <3>6, <3>7, <3>8, <3>9, <3>10, <3>11 DEF Update
  <2>3. CASE UNCHANGED vars
    BY <2>3 DEF vars
  <2>4. QED
    BY <2>1, <2>2, <2>3 DEF Next
<1>3. QED
  BY <1>1, <1>2, PTL DEF Spec

-----------------------------------------------------------------------------
(* What is about to be installed has every entry.                           *)
StagedWhole ==
  \A p \in Updaters : pc[p] \in {"retire", "install"} => Whole(stage[p])

(* Until p has put something in its place, the bundle that p has renamed    *)
(* away is its backup and there is no other.                                *)
BackedUp ==
  \A p \in Updaters : Swapping(p) => bundle = NoBundle /\ Whole(backup[p])

(* When there is no bundle, there is a backup that nobody is removing.      *)
Recoverable ==
  bundle = NoBundle => \E p \in Updaters : Whole(backup[p]) /\ pc[p] # "clean"

(* An update leaves "retire" for a swap only by taking the bundle away,     *)
(* which it can do only while nobody else is in a swap; every conjunct      *)
(* speaks of the others in order to say so.                                 *)
IInv == WholeInstalled /\ StagedWhole /\ BackedUp /\ OneSwap /\ Recoverable

(* Each update keeps the invariant, whatever the others are doing.          *)
LEMMA UpdateKeepsIInv ==
  ASSUME TypeOK, IInv, NEW p \in Updaters, Update(p) \/ Crash(p)
  PROVE  IInv'
<1>. USE DEF TypeOK, IInv, Goto, Kept, Raise, dirs, Swapping
<1>1. CASE Start(p) \/ Check(p) \/ Resolve(p) \/ Download(p) \/ Discard(p)
  BY <1>1 DEF Start, Check, Resolve, Download, Discard, WholeInstalled, StagedWhole,
              BackedUp, OneSwap, Recoverable
<1>2. CASE Extract(p)
  BY <1>2 DEF Extract, WholeInstalled, StagedWhole, BackedUp, OneSwap, Recoverable
<1>3. CASE Validate(p)
  BY <1>3 DEF Validate, WholeInstalled, StagedWhole, BackedUp, OneSwap, Recoverable
<1>4. CASE Retire(p)
  <2>1. CASE bundle # NoBundle /\ backup' = [backup EXCEPT ![p] = bundle] /\ bundle' = NoBundle
             /\ pc' = [pc EXCEPT ![p] = "install"] /\ stage' = stage
    <3>1. \A q \in Updaters : ~ Swapping(q)
      BY <2>1 DEF BackedUp
    <3>2. Whole(bundle) /\ Whole(backup'[p]) /\ pc'[p] = "install"
      BY <2>1 DEF Whole, WholeInstalled
    <3>3. StagedWhole' /\ WholeInstalled'
      BY <1>4, <2>1 DEF Retire, StagedWhole, WholeInstalled, Whole
    <3>4. BackedUp' /\ OneSwap' /\ Recoverable'
      BY <2>1, <3>1, <3>2 DEF BackedUp, OneSwap, Recoverable
    <3>5. QED
      BY <3>3, <3>4
  <2>2. CASE UNCHANGED dirs /\ pc' = [pc EXCEPT ![p] = "discard"]
    BY <2>2, <1>4 DEF Retire, WholeInstalled, StagedWhole, BackedUp, OneSwap, Recoverable
  <2>3. QED
    BY <1>4, <2>1, <2>2 DEF Retire
<1>5. CASE Install(p)
  <2>1. bundle = NoBundle /\ Whole(stage[p]) /\ \A q \in Updaters : Swapping(q) => q = p
    BY <1>5 DEF Install, BackedUp, OneSwap, StagedWhole
  <2>2. CASE bundle' = stage[p] /\ stage' = [stage EXCEPT ![p] = NoBundle] /\ backup' = backup
             /\ pc' = [pc EXCEPT ![p] = "clean"]
    BY <1>5, <2>1, <2>2 DEF Install, Whole, WholeInstalled, StagedWhole, BackedUp, OneSwap, Recoverable
  <2>3. CASE UNCHANGED dirs /\ pc' = [pc EXCEPT ![p] = "purge"]
    BY <1>5, <2>1, <2>3 DEF Install, WholeInstalled, StagedWhole, BackedUp, OneSwap, Recoverable
  <2>4. QED
    BY <1>5, <2>2, <2>3 DEF Install
<1>6. CASE Purge(p)
  BY <1>6 DEF Purge, WholeInstalled, StagedWhole, BackedUp, OneSwap, Recoverable
<1>7. CASE Undo(p)
  BY <1>7 DEF Undo, Whole, WholeInstalled, StagedWhole, BackedUp, OneSwap, Recoverable
<1>8. CASE Clean(p)
  BY <1>8 DEF Clean, WholeInstalled, StagedWhole, BackedUp, OneSwap, Recoverable
<1>9. CASE Crash(p)
  BY <1>9 DEF Crash, WholeInstalled, StagedWhole, BackedUp, OneSwap, Recoverable
<1>10. QED
  BY <1>1, <1>2, <1>3, <1>4, <1>5, <1>6, <1>7, <1>8, <1>9 DEF Update

(* The invariant holds at every moment.                                     *)
LEMMA Invariant == Spec => []IInv
<1>1. Init => IInv
  <2>. SUFFICES ASSUME Init PROVE IInv
    OBVIOUS
  <2>1. bundle.whole /\ bundle # NoBundle
    BY BundlesAreThere DEF Init
  <2>2. \A p \in Updaters : pc[p] = "idle"
    BY DEF Init
  <2>3. QED
    BY <2>1, <2>2 DEF IInv, Swapping, WholeInstalled, StagedWhole, BackedUp, OneSwap, Recoverable
<1>2. TypeOK /\ IInv /\ [Next]_vars => IInv'
  <2>. SUFFICES ASSUME TypeOK, IInv, [Next]_vars
                PROVE  IInv'
    OBVIOUS
  <2>1. CASE Publish \/ UNCHANGED vars
    BY <2>1 DEF Publish, vars, dirs, IInv, Whole, Swapping, WholeInstalled, StagedWhole,
                BackedUp, OneSwap, Recoverable
  <2>2. QED
    BY <2>1, UpdateKeepsIInv DEF Next
<1>3. QED
  BY <1>1, <1>2, UpdateTypeCorrect, PTL DEF Spec

(* No two updates are in the middle of a swap, although nothing is locked.  *)
THEOREM OneUpdateSwaps == Spec => []OneSwap
<1>1. IInv => OneSwap
  BY DEF IInv
<1>2. QED
  BY <1>1, Invariant, PTL

(* What is installed has every entry.                                       *)
THEOREM InstalledIsWhole == Spec => []WholeInstalled
<1>1. IInv => WholeInstalled
  BY DEF IInv
<1>2. QED
  BY <1>1, Invariant, PTL

(* A whole bundle is in its place or in a backup, whichever updates overlap *)
(* and wherever they fail or are killed.                                    *)
THEOREM BundleSurvives == Spec => []Survives
<1>1. IInv => Survives
  BY DEF IInv, Survives, Recoverable, WholeInstalled, Whole
<1>2. QED
  BY <1>1, Invariant, PTL
-----------------------------------------------------------------------------
(* What updates leave behind, and what they install.                        *)

(* What may leave no bundle, and what may leave a staging directory. *)
Unreplaced == {"crash", "purge", "undo"}
Untidy     == {"crash", "purge", "undo", "clean", "discard", "broken"}

(* Somebody who goes on will put a bundle in place, unless they suffered.   *)
Attended == bundle = NoBundle => (\E p \in Updaters : Swapping(p)) \/ Suffered(Unreplaced)

(* Outside of the steps that need it, or that remove it, nothing is staged. *)
Swept ==
  \A p \in Updaters :
    /\ pc[p] \in {"idle", "check", "resolve", "download", "extract", "undo", "clean"}
    /\ causes[p] \cap Untidy = {}
    => stage[p] = NoBundle

(* An update that was found newer stays so, unless it has met an older      *)
(* release between its two lookups.                                         *)
Newer ==
  \A p \in Updaters : "withdrawn" \notin causes[p] =>
    /\ pc[p] = "resolve" => latest > current[p]
    /\ pc[p] \in {"download", "extract", "validate", "retire", "install"} =>
         target[p] > current[p]

(* One step, seen from what it leaves behind: only a start forgets what an  *)
(* update suffered, and it needs a bundle.                                  *)
LEMMA UpdateStaysAttended ==
  ASSUME TypeOK, IInv, Attended, NEW p \in Updaters, Update(p) \/ Crash(p)
  PROVE  Attended'
<1>. USE DEF TypeOK, Goto, Kept, Raise, dirs, Swapping, Attended, Suffered, Unreplaced
<1>1. CASE Start(p)
  BY <1>1 DEF Start, Whole
<1>2. CASE Check(p) \/ Resolve(p) \/ Download(p) \/ Extract(p) \/ Validate(p) \/ Clean(p)
           \/ Discard(p)
  <2>1. UNCHANGED bundle /\ ~ Swapping(p)
    BY <1>2 DEF Check, Resolve, Download, Extract, Validate, Clean, Discard
  <2>2. \A q \in Updaters : causes[q] \subseteq causes'[q]
    BY <1>2 DEF Check, Resolve, Download, Extract, Validate, Clean, Discard
  <2>3. \A q \in Updaters \ {p} : pc'[q] = pc[q]
    BY <1>2 DEF Check, Resolve, Download, Extract, Validate, Clean, Discard
  <2>4. QED
    BY <2>1, <2>2, <2>3
<1>3. CASE Retire(p)
  <2>1. CASE pc' = [pc EXCEPT ![p] = "install"]
    BY <2>1
  <2>2. CASE UNCHANGED bundle /\ Raise(p, "retire", "discard")
    BY <1>3, <2>2 DEF Retire
  <2>3. QED
    BY <1>3, <2>1, <2>2 DEF Retire
<1>4. CASE Install(p)
  <2>1. pc[p] = "install" /\ stage[p] \in Bundle
    BY <1>4 DEF Install
  <2>2. CASE bundle' = stage[p]
    BY <2>1, <2>2, BundlesAreThere
  <2>3. CASE Raise(p, "install", "purge")
    BY <2>3
  <2>4. QED
    BY <1>4, <2>2, <2>3 DEF Install
<1>5. CASE Purge(p)
  <2>1. CASE pc' = [pc EXCEPT ![p] = "undo"]
    BY <2>1
  <2>2. CASE Raise(p, "purge", "discard")
    <3>1. "purge" \in causes'[p]
      BY <2>2
    <3>2. QED
      BY <3>1
  <2>3. QED
    BY <1>5, <2>1, <2>2 DEF Purge
<1>6. CASE Undo(p)
  <2>1. Whole(backup[p])
    BY <1>6 DEF Undo, IInv, BackedUp
  <2>2. CASE bundle' = backup[p]
    BY <2>1, <2>2 DEF Whole
  <2>3. CASE Raise(p, "undo", "discard")
    <3>1. "undo" \in causes'[p]
      BY <2>3
    <3>2. QED
      BY <3>1
  <2>4. QED
    BY <1>6, <2>2, <2>3 DEF Undo
<1>7. CASE Crash(p)
  <2>1. "crash" \in causes'[p]
    BY <1>7 DEF Crash
  <2>2. QED
    BY <2>1
<1>8. QED
  BY <1>1, <1>2, <1>3, <1>4, <1>5, <1>6, <1>7 DEF Update

(* Whoever stops has removed what it staged, or suffered what prevents it.  *)
LEMMA UpdateStaysSwept ==
  ASSUME TypeOK, Swept, NEW p \in Updaters, Update(p) \/ Crash(p)
  PROVE  Swept'
<1>. USE DEF TypeOK, Goto, Kept, Raise, dirs, Swept, Untidy
<1>1. CASE Start(p)
  BY <1>1 DEF Start
<1>2. CASE Check(p) \/ Resolve(p) \/ Download(p)
  BY <1>2 DEF Check, Resolve, Download
<1>3. CASE Extract(p)
  BY <1>3 DEF Extract
<1>4. CASE Validate(p)
  BY <1>4 DEF Validate
<1>5. CASE Retire(p)
  BY <1>5 DEF Retire
<1>6. CASE Install(p)
  BY <1>6 DEF Install
<1>7. CASE Purge(p)
  BY <1>7 DEF Purge
<1>8. CASE Undo(p)
  BY <1>8 DEF Undo
<1>9. CASE Clean(p)
  BY <1>9 DEF Clean
<1>10. CASE Discard(p)
  <2>1. CASE stage' = [stage EXCEPT ![p] = NoBundle] /\ UNCHANGED causes
    BY <1>10, <2>1 DEF Discard
  <2>2. CASE Raise(p, "discard", "idle")
    <3>1. "discard" \in causes'[p]
      BY <2>2
    <3>2. \A q \in Updaters \ {p} : pc'[q] = pc[q] /\ causes'[q] = causes[q] /\ stage'[q] = stage[q]
      BY <1>10, <2>2 DEF Discard
    <3>3. QED
      BY <3>1, <3>2
  <2>3. QED
    BY <1>10, <2>1, <2>2 DEF Discard
<1>11. CASE Crash(p)
  <2>1. "crash" \in causes'[p]
    BY <1>11 DEF Crash
  <2>2. \A q \in Updaters \ {p} : pc'[q] = pc[q] /\ causes'[q] = causes[q] /\ stage'[q] = stage[q]
    BY <1>11 DEF Crash
  <2>3. QED
    BY <2>1, <2>2
<1>12. QED
  BY <1>1, <1>2, <1>3, <1>4, <1>5, <1>6, <1>7, <1>8, <1>9, <1>10, <1>11 DEF Update

(* What is looked up again is not older than what was compared, or else the *)
(* update has been told so.                                                 *)
LEMMA UpdateStaysNewer ==
  ASSUME TypeOK, Newer, NEW p \in Updaters, Update(p) \/ Crash(p)
  PROVE  Newer'
<1>. USE DEF TypeOK, Goto, Kept, Raise, Newer
<1>1. CASE Start(p)
  BY <1>1 DEF Start
<1>2. CASE Check(p) \/ Resolve(p)
  BY <1>2 DEF Check, Resolve
<1>3. CASE Download(p) \/ Extract(p) \/ Validate(p) \/ Retire(p)
  BY <1>3 DEF Download, Extract, Validate, Retire
<1>4. CASE Install(p) \/ Purge(p) \/ Undo(p) \/ Clean(p) \/ Discard(p)
  BY <1>4 DEF Install, Purge, Undo, Clean, Discard
<1>5. CASE Crash(p)
  BY <1>5 DEF Crash
<1>6. QED
  BY <1>1, <1>2, <1>3, <1>4, <1>5 DEF Update

(* The three hold at every moment.                                          *)
LEMMA Aftermath == Spec => [](Attended /\ Swept /\ Newer)
<1>1. Init => Attended /\ Swept /\ Newer
  <2>. SUFFICES ASSUME Init PROVE Attended /\ Swept /\ Newer
    OBVIOUS
  <2>1. bundle # NoBundle
    BY BundlesAreThere DEF Init
  <2>2. \A p \in Updaters : pc[p] = "idle" /\ stage[p] = NoBundle
    BY DEF Init
  <2>3. QED
    BY <2>1, <2>2 DEF Attended, Swept, Newer
<1>2. TypeOK /\ IInv /\ Attended /\ Swept /\ Newer /\ [Next]_vars
        => Attended' /\ Swept' /\ Newer'
  <2>. SUFFICES ASSUME TypeOK, IInv, Attended, Swept, Newer, [Next]_vars
                PROVE  Attended' /\ Swept' /\ Newer'
    OBVIOUS
  <2>1. CASE Publish
    <3>1. \A p \in Updaters : causes[p] \subseteq causes'[p]
      BY <2>1 DEF Publish, TypeOK
    <3>2. Attended' /\ Swept'
      BY <2>1, <3>1 DEF Publish, dirs, Attended, Swept, Swapping, Suffered
    <3>3. ASSUME NEW p \in Updaters, "withdrawn" \notin causes'[p]
          PROVE  /\ pc'[p] = "resolve" => latest' > current'[p]
                 /\ pc'[p] \in {"download", "extract", "validate", "retire", "install"} =>
                      target'[p] > current'[p]
      <4>1. pc[p] = "resolve" => ~ latest' <= current[p]
        BY <2>1, <3>3 DEF Publish, TypeOK
      <4>2. latest' \in Nat /\ current[p] \in Nat
        BY <2>1 DEF Publish, TypeOK, Versions
      <4>3. QED
        BY <2>1, <3>1, <3>3, <4>1, <4>2 DEF Publish, Newer
    <3>4. QED
      BY <3>2, <3>3 DEF Newer
  <2>2. CASE UNCHANGED vars
    BY <2>2 DEF vars, Attended, Swept, Newer, Swapping, Suffered
  <2>3. QED
    BY <2>1, <2>2, UpdateStaysAttended, UpdateStaysSwept, UpdateStaysNewer DEF Next
<1>3. QED
  BY <1>1, <1>2, UpdateTypeCorrect, Invariant, PTL DEF Spec

(* Only a kill, or a rollback that could not be made, leaves no bundle.     *)
THEOREM BundleStands == Spec => []Standing
<1>1. Attended => Standing
  BY DEF Attended, Standing, AtRest, Swapping, Unreplaced
<1>2. QED
  BY <1>1, Aftermath, PTL

(* A staging directory stays only after a kill, a directory that could not  *)
(* be removed or renamed back, or a broken release.                         *)
THEOREM UpdatesAreTidy == Spec => []Tidy
<1>1. Swept => Tidy
  BY DEF Swept, Tidy, Untidy
<1>2. QED
  BY <1>1, Aftermath, PTL

(* What replaces the bundle an update runs from is newer, although the      *)
(* release is looked up again after it was compared: unless the service has *)
(* offered an older one in between, which is all that can go wrong.         *)
THEOREM UpdatesUpgrade == Spec => []Upgrades
<1>1. Newer => Upgrades
  BY DEF Newer, Upgrades
<1>2. QED
  BY <1>1, Aftermath, PTL
=============================================================================
