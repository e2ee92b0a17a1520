------------------------ MODULE DigestPublishProofs -------------------------
(***************************************************************************)
(* Theorems about DigestPublish, for any digests, plans, faults and number *)
(* of runs.                                                                *)
(*                                                                         *)
(* What has been replaced is always a prefix of the plan, although the     *)
(* code records it one step late; before the first replacement every       *)
(* digest of the plan is backed up.  The invariant says how long each      *)
(* prefix is at each step.                                                 *)
(***************************************************************************)
EXTENDS DigestPublish, TLAPS

(* The first m digests of the plan. *)
Upto(m) == {plan[j] : j \in 1 .. m}

Written(m) == \A d \in Digests : digest[d] = IF d \in Upto(m) THEN run ELSE before[d]

Saved(m) == \A j \in 1 .. m : backup[plan[j]] = before[plan[j]]

(* What is applied are the first digests of the plan. *)
InOrder == Len(applied) <= Len(plan) /\ \A j \in 1 .. Len(applied) : applied[j] = plan[j]

(* A compile begins with the digests of the last one and no files. *)
Preparing ==
  /\ pc \in {"stage", "backup"} => digest = before /\ known = {} /\ applied = <<>>
  /\ pc = "stage" => HasBackup = {}
  /\ pc = "backup" => Saved(k - 1)

Replacing ==
  pc \in {"replace", "sync"} =>
    /\ Saved(Len(plan)) /\ InOrder /\ Len(applied) = k - 1
    /\ Written(IF pc = "replace" THEN k - 1 ELSE k)

(* An fsync that failed has left one replacement more than is recorded. *)
Restoring ==
  pc \in {"restore", "restoreSync"} =>
    /\ InOrder
    /\ pc = "restoreSync" => applied # <<>>
    /\ Saved(IF pc = "restore" THEN Len(applied) ELSE Len(applied) - 1)
    /\ "replace" \in causes =>
         Written(IF pc = "restore" THEN Len(applied) ELSE Len(applied) - 1)

(* What the run has come to, from its cleanup on. *)
Ended ==
  pc \in {"idle", "cleanup"} =>
    /\ /\ causes \cap {"staging", "backup", "replace"} # {}
       /\ causes \cap {"rollback", "crash"} = {}
       => digest = before
    /\ causes \subseteq {"cleanup"} => Written(Len(plan))

Blamed ==
  /\ pc \in {"stage", "backup", "replace", "sync"} => causes = {}
  /\ pc \in {"restore", "restoreSync"} => causes = {"replace"} \/ causes = {"sync"}

Traced ==
  \/ pc \in {"replace", "sync", "restore", "restoreSync"}
  \/ pc = "cleanup" /\ "backup" \notin causes
  => HasBackup \subseteq known

IInv ==
  /\ OldOrNew /\ NoStray
  /\ Preparing /\ Replacing /\ Restoring /\ Ended /\ Blamed /\ Traced

(* The last digest applied, and those before it.                            *)
LEMMA LastApplied ==
  ASSUME TypeOK, applied # <<>>
  PROVE  /\ Len(applied) \in Nat \ {0} /\ Last(applied) = applied[Len(applied)]
         /\ Last(applied) \in Digests
         /\ Front(applied) \in Seq(Digests) /\ Len(Front(applied)) = Len(applied) - 1
         /\ \A j \in 1 .. Len(applied) - 1 : Front(applied)[j] = applied[j]
<1>1. Len(applied) \in Nat \ {0} /\ \A j \in 1 .. Len(applied) : applied[j] \in Digests
  BY DEF TypeOK
<1>2. PICK n \in Nat \ {0} : n = Len(applied)
  BY <1>1
<1>3. Front(applied) = SubSeq(applied, 1, n - 1)
  BY <1>2 DEF Front
<1>4. QED
  BY <1>1, <1>2, <1>3 DEF Last, TypeOK

(* A plan is a sequence of digests, none of them twice.                     *)
LEMMA PlansAreOrders ==
  ASSUME TypeOK, plan \in Plans
  PROVE  /\ Len(plan) \in Nat \ {0} /\ DOMAIN plan = 1 .. Len(plan)
         /\ \A j \in 1 .. Len(plan) : plan[j] \in Digests
         /\ \A i, j \in 1 .. Len(plan) : plan[i] = plan[j] => i = j
<1>1. plan \in Seq(Digests) /\ plan # <<>> /\ \A i, j \in DOMAIN plan : plan[i] = plan[j] => i = j
  BY PlansAssumption
<1>2. Len(plan) \in Nat /\ DOMAIN plan = 1 .. Len(plan)
  BY <1>1
<1>3. Len(plan) # 0
  BY <1>1
<1>4. QED
  BY <1>1, <1>2, <1>3

(* The variables of a compile keep their types.                             *)
THEOREM PublishTypeCorrect == Spec => []TypeOK
<1>1. Init => TypeOK
  BY MaxRunsAssumption DEF Init, TypeOK, Steps, Causes, NoDigest
<1>2. TypeOK /\ [Next]_vars => TypeOK'
  <2>. SUFFICES ASSUME TypeOK, [Next]_vars
                PROVE  TypeOK'
    OBVIOUS
  <2>. USE DEF Steps, Causes, NoDigest
  <2>1. pc # "idle" => plan \in Plans /\ k \in DOMAIN plan /\ plan[k] \in Digests
    BY PlansAreOrders DEF TypeOK
  <2>2. HasBackup \subseteq Digests
    BY DEF HasBackup
  <2>3. ASSUME NEW p \in Plans, Start(p)
        PROVE  TypeOK'
    <3>1. 1 \in DOMAIN p
      BY PlansAssumption
    <3>2. run + 1 \in 0 .. MaxRuns
      BY <2>3, MaxRunsAssumption DEF Start, TypeOK
    <3>3. QED
      BY <2>3, <3>1, <3>2 DEF Start, TypeOK
  <2>4. ASSUME NEW to, Advance(to), pc # "idle"
        PROVE  k' \in DOMAIN plan /\ pc' \in {pc, to}
    BY <2>1, <2>4, PlansAreOrders DEF Advance
  <2>5. CASE Stage
    BY <2>1, <2>4, <2>5 DEF Stage, TypeOK
  <2>6. CASE Backup
    BY <2>1, <2>4, <2>6 DEF Backup, TypeOK
  <2>7. CASE Replace
    BY <2>1, <2>7, MaxRunsAssumption DEF Replace, TypeOK
  <2>8. CASE Sync
    <3>1. applied' \in Seq(Digests)
      BY <2>1, <2>8 DEF Sync, TypeOK
    <3>2. k' \in DOMAIN plan
      BY <2>1, <2>8, PlansAreOrders DEF Sync
    <3>3. QED
      BY <2>1, <2>8, <3>1, <3>2 DEF Sync, TypeOK
  <2>9. CASE Restore
    BY <2>1, <2>9, LastApplied DEF Restore, TypeOK
  <2>10. CASE RestoreSync
    BY <2>1, <2>10 DEF RestoreSync, TypeOK, Front
  <2>11. CASE Restored
    BY <2>1, <2>11 DEF Restored, TypeOK
  <2>12. CASE Clean
    <3>1. /\ staged' \subseteq Digests /\ backup' \in [Digests -> Nat] /\ pc' \in {"idle", "cleanup"}
          /\ stray' \subseteq {"staged", "backup"} \X Digests
      <4>1. staged' \subseteq staged
        BY <2>12 DEF Clean
      <4>2. backup' \in [Digests -> Nat]
        BY <2>12 DEF Clean, TypeOK
      <4>3. pc' \in {"idle", "cleanup"} /\ stray' \subseteq {"staged", "backup"} \X Digests
        BY <2>2, <2>12 DEF Clean, TypeOK
      <4>4. QED
        BY <4>1, <4>2, <4>3 DEF TypeOK
    <3>2. plan \in Plans /\ k \in DOMAIN plan
      BY <2>1, <2>12 DEF Clean
    <3>3. QED
      BY <2>12, <3>1, <3>2 DEF Clean, TypeOK
  <2>13. CASE Fail \/ Crash
    <3>1. ASSUME NEW at, NEW why \in Causes, NEW to \in Steps, Raise(at, why, to), at # "idle"
          PROVE  TypeOK'
      BY <2>1, <3>1 DEF Raise, TypeOK
    <3>2. ASSUME NEW why \in Causes, Abandon(why), pc # "idle"
          PROVE  TypeOK'
      BY <2>1, <2>2, <3>2 DEF Abandon, TypeOK
    <3>3. QED
      BY <2>13, <3>1, <3>2 DEF Fail, Crash
  <2>14. CASE UNCHANGED vars
    BY <2>14 DEF vars, TypeOK
  <2>15. QED
    BY <2>3, <2>5, <2>6, <2>7, <2>8, <2>9, <2>10, <2>11, <2>12, <2>13, <2>14 DEF Next
<1>3. QED
  BY <1>1, <1>2, PTL DEF Spec
-----------------------------------------------------------------------------
(* Each operation keeps the invariant.                                      *)

(* How far a prefix of the plan reaches. *)
LEMMA PrefixesGrow ==
  ASSUME TypeOK, plan \in Plans
  PROVE  /\ Upto(0) = {}
         /\ Upto(Len(plan)) = ToSet(plan)
         /\ \A m \in 0 .. Len(plan) - 1 :
              Upto(m + 1) = Upto(m) \cup {plan[m + 1]} /\ plan[m + 1] \notin Upto(m)
<1>1. Len(plan) \in Nat \ {0} /\ DOMAIN plan = 1 .. Len(plan)
  BY PlansAreOrders
<1>2. Upto(Len(plan)) = ToSet(plan)
  BY <1>1 DEF Upto, ToSet
<1>3. ASSUME NEW m \in 0 .. Len(plan) - 1
      PROVE  Upto(m + 1) = Upto(m) \cup {plan[m + 1]} /\ plan[m + 1] \notin Upto(m)
  <2>1. 1 .. m + 1 = (1 .. m) \cup {m + 1}
    BY <1>1
  <2>2. \A j \in 1 .. m : plan[j] # plan[m + 1]
    BY <1>1, PlansAreOrders
  <2>3. plan[m + 1] \notin Upto(m)
    BY <2>2 DEF Upto
  <2>4. QED
    BY <2>1, <2>3 DEF Upto
<1>4. QED
  BY <1>1, <1>2, <1>3 DEF Upto

(* A run starts from what is there.                                         *)
LEMMA StartKeeps ==
  ASSUME TypeOK, IInv, NEW p \in Plans, Start(p)
  PROVE  IInv'
BY DEF Start, TypeOK, IInv, OldOrNew, NoStray, Preparing, Replacing, Restoring, Ended, Blamed,
       Traced, HasBackup, NoDigest

(* Staging and backing up touch no digest.                                  *)
LEMMA PrepareKeeps ==
  ASSUME TypeOK, IInv, Stage \/ Backup
  PROVE  IInv'
<1>1. /\ plan \in Plans /\ k \in 1 .. Len(plan) /\ Len(plan) \in Nat \ {0}
      /\ plan[k] \in Digests
  BY PlansAreOrders DEF TypeOK, Stage, Backup
<1>2. /\ digest = before /\ known = {} /\ applied = <<>> /\ causes = {}
      /\ UNCHANGED <<digest, before, applied, causes, plan, run, stray>>
  BY DEF Stage, Backup, IInv, Preparing, Blamed
<1>3. CASE Stage
  <2>1. HasBackup = {} /\ HasBackup' = {} /\ UNCHANGED known
    BY <1>3 DEF Stage, IInv, Preparing, HasBackup
  <2>2. pc' = "stage" \/ (pc' = "backup" /\ k' = 1)
    BY <1>3 DEF Stage, Advance
  <2>3. QED
    BY <1>2, <2>1, <2>2
       DEF IInv, OldOrNew, NoStray, Preparing, Replacing, Restoring, Ended, Blamed, Traced, Saved
<1>4. CASE Backup
  <2>1. \A j \in 1 .. k : backup'[plan[j]] = before[plan[j]]
    BY <1>1, <1>2, <1>4 DEF Backup, IInv, Preparing, Saved, TypeOK
  <2>2. CASE pc' = "backup" /\ k' = k + 1
    <3>1. known' = {} /\ (Saved(k - 1))'
      BY <1>1, <1>2, <1>4, <2>1, <2>2 DEF Backup, Advance, Saved
    <3>2. QED
      BY <1>2, <2>2, <3>1
         DEF IInv, OldOrNew, NoStray, Preparing, Replacing, Restoring, Ended, Blamed, Traced
  <2>3. CASE pc' = "replace" /\ k' = 1 /\ k = Len(plan)
    <3>1. known' = HasBackup'
      BY <1>4, <2>3 DEF Backup, HasBackup
    <3>2. Saved(Len(plan))' /\ InOrder' /\ Len(applied') = k' - 1
      BY <1>1, <1>2, <2>1, <2>3 DEF Saved, InOrder
    <3>3. (Written(k - 1))'
      BY <1>2, <2>3 DEF Written, Upto
    <3>4. QED
      BY <1>2, <2>3, <3>1, <3>2, <3>3
         DEF IInv, OldOrNew, NoStray, Preparing, Replacing, Restoring, Ended, Blamed, Traced
  <2>4. QED
    BY <1>1, <1>4, <2>2, <2>3 DEF Backup, Advance
<1>5. QED
  BY <1>3, <1>4

(* A replacement adds one digest to the prefix that is written, and its     *)
(* fsync one to the prefix that is recorded.                                *)
LEMMA ReplaceKeeps ==
  ASSUME TypeOK, IInv, Replace \/ Sync
  PROVE  IInv'
<1>1. /\ plan \in Plans /\ k \in 1 .. Len(plan) /\ Len(plan) \in Nat \ {0}
      /\ plan[k] \in Digests
  BY PlansAreOrders DEF TypeOK, Replace, Sync
<1>2. /\ causes = {} /\ Saved(Len(plan)) /\ InOrder /\ Len(applied) = k - 1
      /\ HasBackup \subseteq known
      /\ UNCHANGED <<plan, run, before, backup, known, causes, stray>>
  BY DEF Replace, Sync, IInv, Replacing, Blamed, Traced
<1>3. (Saved(Len(plan)))' /\ (HasBackup \subseteq known)'
  BY <1>2 DEF Saved, HasBackup
<1>4. CASE Replace
  <2>1. Written(k - 1)
    BY <1>4 DEF Replace, IInv, Replacing
  <2>2. Upto(k) = Upto(k - 1) \cup {plan[k]}
    BY <1>1, PrefixesGrow
  <2>3. digest' = [digest EXCEPT ![plan[k]] = run] /\ pc' = "sync" /\ UNCHANGED <<k, applied>>
    BY <1>4 DEF Replace
  <2>4. Written(k)'
    BY <1>1, <1>2, <2>1, <2>2, <2>3 DEF Written, Upto, TypeOK
  <2>5. InOrder' /\ OldOrNew'
    BY <1>2, <2>3, <2>4 DEF InOrder, Written, OldOrNew
  <2>6. QED
    BY <1>2, <1>3, <2>3, <2>4, <2>5
       DEF IInv, NoStray, Preparing, Replacing, Restoring, Ended, Blamed, Traced
<1>5. CASE Sync
  <2>0. PICK m : m = k
    OBVIOUS
  <2>1. Written(m) /\ UNCHANGED digest
    BY <1>5, <2>0 DEF Sync, IInv, Replacing
  <2>2. Written(m)' /\ OldOrNew'
    BY <1>2, <2>1 DEF Written, Upto, IInv, OldOrNew
  <2>3. InOrder' /\ Len(applied') = k
    BY <1>1, <1>2, <1>5 DEF Sync, InOrder, TypeOK
  <2>4. CASE k < Len(plan) /\ pc' = "replace" /\ k' = k + 1
    <3>1. Len(applied') = k' - 1 /\ (Written(k - 1))'
      BY <1>1, <2>0, <2>2, <2>3, <2>4
    <3>2. QED
      BY <1>2, <1>3, <2>2, <2>3, <2>4, <3>1
         DEF IInv, NoStray, Preparing, Replacing, Restoring, Ended, Blamed, Traced
  <2>5. CASE k = Len(plan) /\ pc' = "cleanup" /\ UNCHANGED k
    <3>1. (Written(Len(plan)))'
      BY <1>2, <2>0, <2>2, <2>5
    <3>2. QED
      BY <1>2, <1>3, <2>2, <2>5, <3>1
         DEF IInv, NoStray, Preparing, Replacing, Restoring, Ended, Blamed, Traced
  <2>6. QED
    BY <1>5, <2>4, <2>5 DEF Sync
<1>6. QED
  BY <1>4, <1>5

(* A rollback takes the last digest off the prefix that is written, then    *)
(* off the prefix that is recorded.                                         *)
LEMMA RestoreKeeps ==
  ASSUME TypeOK, IInv, Restore \/ RestoreSync \/ Restored
  PROVE  IInv'
<1>1. /\ plan \in Plans /\ Len(plan) \in Nat \ {0} /\ Len(applied) \in Nat
      /\ InOrder /\ HasBackup \subseteq known /\ causes \in {{"replace"}, {"sync"}}
      /\ UNCHANGED <<plan, run, before, known, causes, stray>>
  BY PlansAreOrders DEF TypeOK, Restore, RestoreSync, Restored, IInv, Restoring, Blamed, Traced
<1>2. CASE Restore
  <2>1. PICK m : m = Len(applied)
    OBVIOUS
  <2>2. m \in 1 .. Len(plan) /\ Last(applied) = plan[m] /\ plan[m] \in Digests
    BY <1>1, <1>2, <2>1, LastApplied DEF Restore, InOrder
  <2>3. /\ digest' = [digest EXCEPT ![plan[m]] = backup[plan[m]]]
        /\ backup' = [backup EXCEPT ![plan[m]] = NoDigest]
        /\ pc' = "restoreSync" /\ UNCHANGED applied /\ pc = "restore" /\ applied # <<>>
    BY <1>2, <2>2 DEF Restore
  <2>4. backup[plan[m]] = before[plan[m]] /\ Saved(m)
    BY <1>1, <2>1, <2>2, <2>3 DEF IInv, Restoring, Saved
  <2>5. Upto(m) = Upto(m - 1) \cup {plan[m]} /\ plan[m] \notin Upto(m - 1)
    <3>1. PICK l \in 0 .. Len(plan) - 1 : l = m - 1
      BY <1>1, <2>2
    <3>2. l + 1 = m
      BY <1>1, <2>2, <3>1
    <3>3. QED
      BY <1>1, <3>1, <3>2, PrefixesGrow
  <2>6. Saved(m - 1)'
    BY <1>1, <2>2, <2>3, <2>4, PlansAreOrders DEF Saved, TypeOK
  <2>7. "replace" \in causes => Written(m - 1)'
    <3>1. "replace" \in causes => Written(m)
      BY <2>1, <2>3 DEF IInv, Restoring
    <3>2. digest'[plan[m]] = before[plan[m]]
          /\ \A d \in Digests \ {plan[m]} : digest'[d] = digest[d]
      BY <2>2, <2>3, <2>4 DEF TypeOK
    <3>3. Upto(m - 1)' = Upto(m - 1)
      BY <1>1 DEF Upto
    <3>4. ASSUME "replace" \in causes, NEW d \in Digests
          PROVE  digest'[d] = IF d \in Upto(m - 1) THEN run ELSE before[d]
      BY <2>2, <2>5, <3>1, <3>2, <3>4 DEF Written
    <3>5. QED
      BY <1>1, <3>3, <3>4 DEF Written
  <2>8. OldOrNew'
    BY <1>1, <2>2, <2>3, <2>4 DEF IInv, OldOrNew, TypeOK
  <2>9. (HasBackup \subseteq known)'
    BY <1>1, <2>2, <2>3 DEF HasBackup, TypeOK, NoDigest
  <2>10. InOrder'
    BY <1>1, <2>3 DEF InOrder
  <2>11. Len(applied') = m
    BY <2>1, <2>3
  <2>12. QED
    BY <1>1, <2>3, <2>6, <2>7, <2>8, <2>9, <2>10, <2>11
       DEF IInv, NoStray, Preparing, Replacing, Restoring, Ended, Blamed, Traced
<1>3. CASE RestoreSync
  <2>1. /\ pc = "restoreSync" /\ applied # <<>> /\ applied' = Front(applied) /\ pc' = "restore"
        /\ UNCHANGED <<digest, backup>>
    BY <1>3 DEF RestoreSync, IInv, Restoring
  <2>2. PICK m : m = Len(applied) - 1
    OBVIOUS
  <2>3. m \in Nat /\ Len(applied') = m /\ \A j \in 1 .. m : applied'[j] = applied[j]
    BY <2>1, <2>2, LastApplied
  <2>4. InOrder'
    BY <1>1, <2>2, <2>3 DEF InOrder
  <2>5. Saved(m) /\ ("replace" \in causes => Written(m))
    BY <2>1, <2>2 DEF IInv, Restoring
  <2>6. Saved(m)' /\ ("replace" \in causes => Written(m)')
    BY <1>1, <2>1, <2>5 DEF Saved, Written, Upto
  <2>7. OldOrNew' /\ (HasBackup \subseteq known)'
    BY <1>1, <2>1 DEF IInv, OldOrNew, HasBackup
  <2>8. QED
    BY <1>1, <2>1, <2>3, <2>4, <2>6, <2>7
       DEF IInv, NoStray, Preparing, Replacing, Restoring, Ended, Blamed, Traced
<1>4. CASE Restored
  <2>1. Len(applied) = 0 /\ pc = "restore" /\ pc' = "cleanup" /\ UNCHANGED <<digest, backup>>
    BY <1>4 DEF Restored
  <2>2. "replace" \in causes => Written(0)
    BY <2>1 DEF IInv, Restoring
  <2>3. "replace" \in causes => digest = before
    BY <2>2 DEF Written, Upto, TypeOK
  <2>4. OldOrNew' /\ (HasBackup \subseteq known)'
    BY <1>1, <2>1 DEF IInv, OldOrNew, HasBackup
  <2>5. QED
    BY <1>1, <2>1, <2>3, <2>4
       DEF IInv, NoStray, Preparing, Replacing, Restoring, Ended, Blamed, Traced
<1>5. QED
  BY <1>2, <1>3, <1>4

(* The cleanup unlinks every file it knows of, and it knows all of them if  *)
(* the backups were all written.                                            *)
LEMMA CleanKeeps ==
  ASSUME TypeOK, IInv, Clean
  PROVE  IInv'
<1>1. /\ pc = "cleanup" /\ pc' \in {"cleanup", "idle"}
      /\ UNCHANGED <<digest, run, plan, known, before, causes>>
  BY DEF Clean
<1>2. HasBackup' \subseteq HasBackup
  BY DEF Clean, HasBackup, TypeOK
<1>3. OldOrNew' /\ Ended'
  BY <1>1 DEF IInv, OldOrNew, Ended, Written, Upto
<1>4. "backup" \notin causes => HasBackup \subseteq known
  BY <1>1 DEF IInv, Traced
<1>5. Traced'
  BY <1>1, <1>2, <1>4 DEF Traced
<1>6. pc' = "idle" => known \cap HasBackup = {} /\ stray' = {"backup"} \X HasBackup
  BY <1>1 DEF Clean
<1>7. NoStray'
  <2>1. ASSUME pc' = "idle", "backup" \notin causes
        PROVE  stray' = {}
    <3>1. HasBackup = {}
      BY <1>4, <1>6, <2>1
    <3>2. QED
      BY <1>6, <2>1, <3>1
  <2>2. QED
    BY <1>1, <2>1 DEF NoStray
<1>8. QED
  BY <1>1, <1>3, <1>5, <1>7 DEF IInv, Preparing, Replacing, Restoring, Blamed

(* What goes wrong is undone as far as it is recorded, or is told.          *)
LEMMA FailKeeps ==
  ASSUME TypeOK, IInv, Fail \/ Crash
  PROVE  IInv'
<1>1. UNCHANGED <<digest, run, plan, k, staged, backup, known, applied, before>>
  BY DEF Fail, Crash, Raise, Abandon
<1>2. /\ OldOrNew' /\ (InOrder => InOrder')
      /\ (HasBackup \subseteq known => (HasBackup \subseteq known)')
  BY <1>1 DEF IInv, OldOrNew, InOrder, HasBackup
<1>3. \A m : (Saved(m) => Saved(m)') /\ (Written(m) => Written(m)')
  BY <1>1 DEF Saved, Written, Upto
<1>4. CASE Raise("stage", "staging", "cleanup") \/ Raise("backup", "backup", "cleanup")
  <2>1. digest = before /\ causes = {} /\ pc' = "cleanup"
    BY <1>4 DEF Raise, IInv, Preparing, Blamed
  <2>2. (causes' = {"staging"} /\ HasBackup = {}) \/ causes' = {"backup"}
    BY <1>4, <2>1 DEF Raise, IInv, Preparing
  <2>3. Ended' /\ Traced'
    BY <1>1, <1>2, <2>1, <2>2 DEF Ended, Traced
  <2>4. QED
    BY <1>2, <2>1, <2>3 DEF IInv, NoStray, Preparing, Replacing, Restoring, Blamed
<1>5. CASE Raise("replace", "replace", "restore") \/ Raise("sync", "sync", "restore")
  <2>1. /\ causes = {} /\ InOrder /\ Saved(Len(plan)) /\ HasBackup \subseteq known
        /\ Len(applied) = k - 1 /\ pc' = "restore"
    BY <1>5 DEF Raise, IInv, Replacing, Blamed, Traced
  <2>2. \/ causes' = {"replace"} /\ Written(Len(applied))
        \/ causes' = {"sync"}
    BY <1>5, <2>1 DEF Raise, IInv, Replacing
  <2>3. PICK m : m = Len(applied)
    OBVIOUS
  <2>4. Saved(m)
    BY <2>1, <2>3 DEF Saved, InOrder, TypeOK
  <2>5. Saved(m)' /\ (causes' = {"replace"} => Written(m)') /\ Len(applied') = m
    BY <1>1, <1>3, <2>2, <2>3, <2>4
  <2>6. Restoring'
    BY <1>2, <2>1, <2>2, <2>5 DEF Restoring
  <2>7. QED
    BY <1>2, <2>1, <2>2, <2>6 DEF IInv, NoStray, Preparing, Replacing, Ended, Blamed, Traced
<1>6. CASE Raise("restore", "rollback", "cleanup") \/ Raise("restoreSync", "rollback", "cleanup")
  <2>1. HasBackup \subseteq known /\ pc' = "cleanup" /\ "rollback" \in causes'
    BY <1>6 DEF Raise, IInv, Traced
  <2>2. QED
    BY <1>2, <2>1 DEF IInv, NoStray, Preparing, Replacing, Restoring, Ended, Blamed, Traced
<1>7. CASE pc = "cleanup" /\ Abandon("cleanup")
  <2>1. pc' = "idle" /\ causes' = causes \cup {"cleanup"}
    BY <1>7 DEF Abandon
  <2>2. Ended'
    <3>1. PICK m : m = Len(plan)
      OBVIOUS
    <3>2. causes \subseteq {"cleanup"} => Written(m)
      BY <1>7, <3>1 DEF IInv, Ended
    <3>3. causes \subseteq {"cleanup"} => (Written(Len(plan)))'
      BY <1>1, <1>3, <3>1, <3>2
    <3>4. QED
      BY <1>1, <1>7, <2>1, <3>3 DEF IInv, Ended
  <2>3. QED
    BY <1>2, <2>1, <2>2 DEF IInv, NoStray, Preparing, Replacing, Restoring, Blamed, Traced
<1>8. CASE Abandon("crash")
  <2>1. pc' = "idle" /\ "crash" \in causes'
    BY <1>8 DEF Abandon
  <2>2. QED
    BY <1>2, <2>1
       DEF IInv, NoStray, Preparing, Replacing, Restoring, Ended, Blamed, Traced
<1>9. QED
  BY <1>4, <1>5, <1>6, <1>7, <1>8 DEF Fail, Crash

(* The invariant holds at every moment of every run.                        *)
LEMMA PublishInvariant == Spec => []IInv
<1>1. Init => IInv
  BY DEF Init, IInv, OldOrNew, NoStray, Preparing, Replacing, Restoring, Ended, Blamed, Traced,
         Written, Upto, NoDigest
<1>2. TypeOK /\ IInv /\ [Next]_vars => IInv'
  <2>1. ASSUME UNCHANGED vars, IInv
        PROVE  IInv'
    BY <2>1 DEF vars, IInv, OldOrNew, NoStray, Preparing, Replacing, Restoring, Ended, Blamed,
                Traced, Written, Saved, InOrder, Upto, HasBackup
  <2>2. QED
    BY <2>1, StartKeeps, PrepareKeeps, ReplaceKeeps, RestoreKeeps, CleanKeeps, FailKeeps
       DEF Next
<1>3. QED
  BY <1>1, <1>2, PublishTypeCorrect, PTL DEF Spec
-----------------------------------------------------------------------------
(* What the invariant says to readers, and to whoever called compile.       *)

(* A reader finds each digest as it was before the run or as the run        *)
(* renders it, through publication, rollback and every failure.             *)
THEOREM ReadersFindOldOrNew == Spec => []OldOrNew
<1>1. IInv => OldOrNew
  BY DEF IInv
<1>2. QED
  BY <1>1, PublishInvariant, PTL

(* A run that fails before or at a replacement leaves every digest as it    *)
(* was, unless the rollback failed as well.                                 *)
THEOREM FailuresRollBack == Spec => []RolledBack
<1>1. IInv => RolledBack
  BY DEF IInv, Ended, RolledBack
<1>2. QED
  BY <1>1, PublishInvariant, PTL

(* A run that reports success has published its plan and nothing else.      *)
THEOREM SuccessPublishes == Spec => []Published
<1>1. TypeOK /\ IInv => Published
  <2>. SUFFICES ASSUME TypeOK, IInv, pc = "idle", causes \subseteq {"cleanup"}
                PROVE  digest = [d \in Digests |-> IF d \in ToSet(plan) THEN run ELSE before[d]]
    BY DEF Published
  <2>1. Written(Len(plan))
    BY DEF IInv, Ended
  <2>2. Upto(Len(plan)) = ToSet(plan)
    <3>1. CASE plan = <<>>
      BY <3>1 DEF Upto, ToSet
    <3>2. CASE plan \in Plans
      BY <3>2, PrefixesGrow
    <3>3. QED
      BY <3>1, <3>2 DEF TypeOK
  <2>3. QED
    BY <2>1, <2>2 DEF Written, TypeOK
<1>2. QED
  BY <1>1, PublishTypeCorrect, PublishInvariant, PTL

(* A run leaves no temporary file, unless it was killed, one could not be   *)
(* unlinked, or the backups could not all be written.                       *)
THEOREM NothingStrays == Spec => []NoStray
<1>1. IInv => NoStray
  BY DEF IInv
<1>2. QED
  BY <1>1, PublishInvariant, PTL
=============================================================================
