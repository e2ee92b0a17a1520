------------------------- MODULE MemoryStoreProofs -------------------------
(***************************************************************************)
(* Theorems about MemoryStore, for every set of processes, ids, notes,     *)
(* policies and faults: first what holds of the files and the processes,   *)
(* then what the files say, that copies agree, that provenance resolves,   *)
(* that canon is earned and that the audit log tells the truth.            *)
(***************************************************************************)
EXTENDS MemoryStore, DedupeProofs, TLAPS

(* The factors of a note lie on the five-point scale, so its total is a     *)
(* natural number.                                                          *)
LEMMA TotalIsNat ==
  ASSUME NEW n \in Notes, NEW strong \in BOOLEAN, NEW near \in BOOLEAN,
         NEW home, NEW target
  PROVE  /\ Evidence(n) \in 0 .. 4
         /\ Durability(n) \in 0 .. 4
         /\ Total(n, home, target, strong, near) \in Nat
<1>1. Evidence(n) \in 0 .. 4
  BY DEF Evidence
<1>2. Durability(n) \in 0 .. 4
  BY DEF Durability
<1>3. Reuse(n, target) \in 0 .. 4
  BY DEF Reuse
<1>4. Specificity(n) \in 0 .. 4
  BY DEF Specificity
<1>5. Novelty(strong, near) \in 0 .. 4
  BY DEF Novelty
<1>6. ScopeFit(n, home, target) \in 0 .. 4
  BY DEF ScopeFit
<1>7. ASSUME NEW r \in 0 .. 4, NEW s \in 0 .. 4, NEW d \in 0 .. 4,
             NEW e \in 0 .. 4, NEW v \in 0 .. 4, NEW f \in 0 .. 4
      PROVE  Aggregate(r, s, d, e, v, f) \in Nat
  BY DEF Aggregate
<1>8. QED
  BY <1>1, <1>2, <1>3, <1>4, <1>5, <1>6, <1>7 DEF Total

(* Scoring a record changes neither its type nor its status. *)
LEMMA ScoredKeepsType ==
  ASSUME NEW r \in Record, NEW known, NEW t \in Nat
  PROVE  Scored(r, known, t) \in Record /\ Scored(r, known, t).status = r.status
<1>. DEFINE strong == HasStrong(r, known)
            near   == HasNear(r, known)
            sc == [evidence |-> Evidence(r.note), durability |-> Durability(r.note),
                   retain |-> Total(r.note, "workspace", "workspace", strong, near)]
<1>1. strong \in BOOLEAN /\ near \in BOOLEAN
  BY DEF HasStrong, HasNear
<1>2. r.note \in Notes
  BY DEF Record
<1>3. sc \in Scores
  BY <1>1, <1>2, TotalIsNat DEF Scores
<1>4. Scored(r, known, t) = [r EXCEPT !.at = t, !.score = sc]
  BY DEF Scored
<1>. HIDE DEF sc
<1>5. QED
  BY <1>3, <1>4 DEF Record

(* Accepting a candidate makes it a record a canon directory may hold.      *)
LEMMA AcceptedHasType ==
  ASSUME NEW r \in CapturedRecord, NEW how \in {"manual", "policy"}
  PROVE  Accepted(r, how) \in AcceptedRecord
BY DEF Accepted, CapturedRecord, AcceptedRecord, Record

(* A new record is one an inbox may hold.                                   *)
LEMMA NewRecordHasType ==
  ASSUME TypeOK, NEW i \in Ids, NEW w \in Workspaces, NEW n \in Notes
  PROVE  NewRecord(i, w, n) \in CapturedRecord
BY ClockAssumption DEF NewRecord, CapturedRecord, Record, NoScore, Scores, TypeOK

(* The record a promotion writes is one a canon directory may hold.         *)
LEMMA PromotedHasType ==
  ASSUME NEW r \in AcceptedRecord, NEW g \in Ids,
         NEW strong \in BOOLEAN, NEW near \in BOOLEAN
  PROVE  Promoted(r, g, strong, near) \in AcceptedRecord
<1>1. r.note \in Notes /\ r.id \in Ids
  BY DEF AcceptedRecord, Record
<1>. DEFINE sc == [evidence |-> Evidence(r.note), durability |-> Durability(r.note),
                   retain |-> Total(r.note, "global", "global", strong, near)]
<1>2. sc \in Scores
  BY <1>1, TotalIsNat DEF Scores
<1>3. Promoted(r, g, strong, near) =
        [[r EXCEPT !.scope = Global, !.source = r.id]
           EXCEPT !.id = g, !.mode = "manual", !.score = sc]
  BY DEF Promoted, Provisional
<1>. HIDE DEF sc
<1>4. QED
  BY <1>1, <1>2, <1>3 DEF AcceptedRecord, Record
-----------------------------------------------------------------------------
(* Type correctness.  HoldsOK is what makes TypeOK inductive: a command     *)
(* writes to a directory what it has carried since an earlier step.         *)

(* The empty memory root is well typed. *)
LEMMA InitTypeOK == Init => TypeOK
BY ClockAssumption
   DEF Init, TypeOK, HoldsOK, Steps, CapturedSteps, AcceptedSteps, RememberSteps

(* Starting a command keeps the types: it reads a record, or plans a prune. *)
LEMMA BeginTypeOK ==
  ASSUME TypeOK, NEW p \in Procs, Begin(p)
  PROVE  TypeOK'
<1>. USE DEF TypeOK, HoldsOK, Steps, CapturedSteps, AcceptedSteps, RememberSteps,
             files, history, Hold, Goto
<1>0. now \in Nat
  BY ClockAssumption
<1>1. ASSUME NEW i \in Ids, NEW w \in Workspaces, NEW n \in Notes, Capture(p, i, w, n)
      PROVE  TypeOK'
  BY <1>1, NewRecordHasType DEF Capture
<1>2. ASSUME NEW i \in Ids, NEW w \in Workspaces, NEW n \in Notes,
             NEW pol \in Policies, RememberStart(p, i, w, n, pol)
      PROVE  TypeOK'
  <2>1. PICK v \in Outcomes : 
          /\ outcome' = [outcome EXCEPT ![p] = v]
          /\ pc' = [pc EXCEPT ![p] = IF Stored(v) THEN "rememberInbox" ELSE "rememberAudit"]
    BY <1>2 DEF RememberStart, Verdict, Outcomes
  <2>2. Scored(NewRecord(i, w, n), Canon(w), now) \in CapturedRecord
    BY <1>0, NewRecordHasType, ScoredKeepsType DEF CapturedRecord
  <2>3. rec' = [rec EXCEPT ![p] = Scored(NewRecord(i, w, n), Canon(w), now)]
    BY <1>2 DEF RememberStart
  <2>4. UNCHANGED <<files, audit, now, plan, history>>
    BY <1>2 DEF RememberStart
  <2>5. QED
    BY <2>1, <2>2, <2>3, <2>4 DEF CapturedRecord
<1>3. ASSUME NEW i \in Ids, ScoreRead(p, i)
      PROVE  TypeOK'
  BY <1>3 DEF ScoreRead, CapturedRecord
<1>4. ASSUME NEW i \in Ids, AcceptRead(p, i)
      PROVE  TypeOK'
  <2>1. [inbox[i] EXCEPT !.at = now] \in CapturedRecord
    BY <1>0, <1>4 DEF AcceptRead, CapturedRecord, Record
  <2>2. QED
    BY <1>4, <2>1 DEF AcceptRead, CapturedRecord
<1>5. ASSUME NEW i \in Ids, PromoteRead(p, i)
      PROVE  TypeOK'
  <2>1. [canon[i] EXCEPT !.at = now] \in AcceptedRecord
    BY <1>0, <1>5 DEF PromoteRead, AcceptedRecord, Record
  <2>2. QED
    BY <1>5, <2>1 DEF PromoteRead, AcceptedRecord
<1>6. ASSUME NEW scopes \in PruneScopes, PruneStart(p, scopes)
      PROVE  TypeOK'
  <2>1. DuplicatesPlan(scopes) \subseteq AcceptedRecord
    BY DEF DuplicatesPlan, Canon, File
  <2>2. overlapped' \subseteq Procs
    BY <1>6 DEF PruneStart, Pruning
  <2>3. PICK P : P = DuplicatesPlan(scopes)
    OBVIOUS
  <2>4. /\ pc' = [pc EXCEPT ![p] = "pruneArchive"] /\ plan' = [plan EXCEPT ![p] = P]
        /\ UNCHANGED <<inbox, canon, archive, audit, now, rec, outcome, lapsed>>
    BY <1>6, <2>3 DEF PruneStart
  <2>5. QED
    BY <2>1, <2>2, <2>3, <2>4
<1>7. QED
  BY <1>1, <1>2, <1>3, <1>4, <1>5, <1>6 DEF Begin

(* A command that ends keeps the types if what it does to the files does.   *)
LEMMA DoneTypeOK ==
  ASSUME TypeOK, NEW p \in Procs, Done(p),
         inbox' \in [Ids -> CapturedRecord \cup {NoFile}],
         canon' \in [Ids -> AcceptedRecord \cup {NoFile}],
         archive' \in [Ids -> ArchivedRecord \cup {NoFile}],
         audit' \subseteq [id : Ids, outcome : Outcomes],
         lapsed' \subseteq Ids,
         UNCHANGED now
  PROVE  TypeOK'
BY DEF TypeOK, HoldsOK, Steps, CapturedSteps, AcceptedSteps, RememberSteps,
       Done, Hold, Goto

(* Every further step of a command keeps the types.                         *)
LEMMA ContinueTypeOK ==
  ASSUME TypeOK, NEW p \in Procs, Continue(p)
  PROVE  TypeOK'
<1>. USE DEF TypeOK, HoldsOK, Steps, CapturedSteps, AcceptedSteps, RememberSteps,
             files, history, Hold, Goto
<1>0. now \in Nat
  BY ClockAssumption
<1>1. CASE ScoreJudge(p)
  <2>1. Scored(rec[p], Canon(rec[p].scope), now) \in CapturedRecord
    BY <1>0, <1>1, ScoredKeepsType DEF ScoreJudge, CapturedRecord
  <2>2. QED
    BY <1>1, <2>1 DEF ScoreJudge, CapturedRecord
<1>2. CASE ScoreWrite(p)
  <2>1. rec[p] \in CapturedRecord
    BY <1>2 DEF ScoreWrite
  <2>2. QED
    BY <1>2, <2>1, DoneTypeOK DEF ScoreWrite
<1>3. CASE AcceptJudge(p)
  <2>. DEFINE s == Scored(rec[p], Canon(rec[p].scope), rec[p].at)
  <2>1. rec[p] \in CapturedRecord
    BY <1>3 DEF AcceptJudge
  <2>2. s \in CapturedRecord
    BY <2>1, ScoredKeepsType DEF CapturedRecord, Record
  <2>3. Accepted(s, "manual") \in AcceptedRecord
    BY <2>2, AcceptedHasType
  <2>4. CASE Done(p)
    BY <1>3, <2>4, DoneTypeOK DEF AcceptJudge
  <2>5. CASE /\ Hold(p, Accepted(s, "manual"))
             /\ Goto(p, "acceptWrite")
             /\ UNCHANGED <<outcome, plan, overlapped>>
    <3>1. UNCHANGED <<files, audit, now, lapsed>>
      BY <1>3 DEF AcceptJudge
    <3>. HIDE DEF s
    <3>2. QED
      BY <2>3, <2>5, <3>1 DEF AcceptedRecord
  <2>6. QED
    BY <1>3, <2>4, <2>5 DEF AcceptJudge
<1>4. CASE AcceptWrite(p)
  BY <1>4 DEF AcceptWrite
<1>5. CASE AcceptUnlink(p)
  <2>1. rec[p].id \in Ids
    BY <1>5 DEF AcceptUnlink, AcceptedRecord, Record
  <2>2. /\ inbox' \in [Ids -> CapturedRecord \cup {NoFile}] /\ lapsed' \subseteq Ids
        /\ Done(p) /\ UNCHANGED <<canon, archive, audit, now>>
    BY <1>5, <2>1 DEF AcceptUnlink
  <2>3. QED
    BY <2>2, DoneTypeOK
<1>6. CASE RememberInbox(p)
  <2>1. [rec[p] EXCEPT !.score = NoScore] \in CapturedRecord
    BY <1>6 DEF RememberInbox, CapturedRecord, Record, Scores, NoScore
  <2>2. rec[p].id \in Ids
    BY <1>6 DEF RememberInbox, CapturedRecord, Record
  <2>3. QED
    BY <1>6, <2>1, <2>2 DEF RememberInbox
<1>7. CASE RememberScore(p)
  <2>1. rec[p] \in CapturedRecord /\ rec[p] \in Record
    BY <1>7 DEF RememberScore, CapturedRecord
  <2>2. Accepted(rec[p], "policy") \in AcceptedRecord
    BY <2>1, AcceptedHasType
  <2>3. Accepted(rec[p], "policy") \in Record
    BY <2>2 DEF AcceptedRecord
  <2>4. QED
    BY <1>7, <2>1, <2>2, <2>3 DEF RememberScore
<1>8. CASE RememberCanon(p)
  BY <1>8 DEF RememberCanon
<1>9. CASE RememberUnlink(p)
  <2>1. CASE Done(p)
    BY <1>9, <2>1, DoneTypeOK DEF RememberUnlink
  <2>2. rec[p] \in Record
    BY <1>9 DEF RememberUnlink, AcceptedRecord
  <2>3. CASE Goto(p, "rememberAudit") /\ UNCHANGED <<rec, outcome, plan, overlapped>>
    BY <1>9, <2>2, <2>3 DEF RememberUnlink
  <2>4. QED
    BY <1>9, <2>1, <2>3 DEF RememberUnlink
<1>10. CASE RememberAudit(p)
  <2>1. [id |-> rec[p].id, outcome |-> outcome[p]] \in [id : Ids, outcome : Outcomes]
    BY <1>10 DEF RememberAudit, Record
  <2>2. QED
    BY <1>10, <2>1, DoneTypeOK DEF RememberAudit
<1>11. ASSUME NEW g \in Ids, PromoteJudge(p, g)
       PROVE  TypeOK'
  <2>. DEFINE r == rec[p]
              strong == HasStrong(Provisional(r), Canon(Global))
              near   == HasNear(Provisional(r), Canon(Global))
  <2>1. Promoted(r, g, strong, near) \in AcceptedRecord
    <3>1. strong \in BOOLEAN /\ near \in BOOLEAN
      BY DEF HasStrong, HasNear
    <3>2. r \in AcceptedRecord
      BY <1>11 DEF PromoteJudge
    <3>. HIDE DEF r, strong, near
    <3>3. QED
      BY <3>1, <3>2, PromotedHasType
  <2>2. CASE Done(p)
    BY <1>11, <2>2, DoneTypeOK DEF PromoteJudge
  <2>3. CASE /\ Hold(p, Promoted(r, g, strong, near))
             /\ Goto(p, "promoteWrite")
             /\ UNCHANGED <<outcome, plan, overlapped>>
    <3>1. UNCHANGED <<files, audit, now, lapsed>>
      BY <1>11 DEF PromoteJudge
    <3>. HIDE DEF r, strong, near
    <3>2. QED
      BY <2>1, <2>3, <3>1 DEF AcceptedRecord
  <2>4. QED
    BY <1>11, <2>2, <2>3 DEF PromoteJudge
<1>12. CASE PromoteWrite(p)
  <2>1. rec[p] \in AcceptedRecord
    BY <1>12 DEF PromoteWrite
  <2>2. QED
    BY <1>12, <2>1, DoneTypeOK DEF PromoteWrite
<1>13. CASE PruneArchive(p)
  <2>1. PICK a \in plan[p] : PruneArchive(p)!(a)
    BY <1>13 DEF PruneArchive
  <2>. DEFINE i == a.id
              t == IF rec[p] = NoFile THEN now ELSE rec[p].at
              r == [canon[i] EXCEPT !.status = "archived", !.at = t]
  <2>2. i \in Ids
    BY <2>1 DEF AcceptedRecord, Record
  <2>3. t \in Nat
    BY <1>0 DEF Record
  <2>4. CASE canon[i] # NoFile
    <3>1. canon[i] \in AcceptedRecord
      BY <2>2, <2>4
    <3>2. r \in ArchivedRecord
      BY <2>3, <3>1 DEF AcceptedRecord, ArchivedRecord, Record
    <3>3. /\ rec' = [rec EXCEPT ![p] = r]
          /\ archive' = [archive EXCEPT ![i] = rec'[p]]
          /\ pc' = [pc EXCEPT ![p] = "pruneUnlink"]
          /\ UNCHANGED <<inbox, canon, audit, now, outcome, plan, history>>
      BY <2>1, <2>4
    <3>. HIDE DEF r
    <3>4. QED
      BY <2>2, <3>2, <3>3 DEF ArchivedRecord
  <2>5. CASE canon[i] = NoFile
    <3>1. Done(p) /\ UNCHANGED <<inbox, canon, archive, audit, now, lapsed>>
      BY <2>1, <2>5
    <3>2. QED
      BY <3>1, DoneTypeOK
  <2>6. QED
    BY <2>4, <2>5
<1>14. CASE PruneUnlink(p)
  <2>1. canon' \in [Ids -> AcceptedRecord \cup {NoFile}]
    BY <1>14 DEF PruneUnlink
  <2>2. CASE Done(p)
    BY <1>14, <2>1, <2>2, DoneTypeOK DEF PruneUnlink
  <2>3. CASE ~ Done(p)
    BY <1>14, <2>1, <2>3 DEF PruneUnlink
  <2>4. QED
    BY <2>2, <2>3
<1>15. QED
  BY <1>1, <1>2, <1>3, <1>4, <1>5, <1>6, <1>7, <1>8, <1>9, <1>10, <1>11, <1>12,
     <1>13, <1>14 DEF Continue

(* The store never leaves its types, under every interleaving and fault:    *)
(* each directory holds records of its own status only, although commands   *)
(* write what they read several steps before.                               *)
THEOREM TypeCorrect == Spec => []TypeOK
<1>1. TypeOK /\ [Next]_vars => TypeOK'
  <2>. SUFFICES ASSUME TypeOK, [Next]_vars
                PROVE  TypeOK'
    OBVIOUS
  <2>1. ASSUME NEW p \in Procs, Stop(p)
        PROVE  TypeOK'
    BY <2>1, DoneTypeOK DEF Stop, Lapse, TypeOK, files
  <2>2. CASE Tick
    BY <2>2, ClockAssumption DEF Tick, TypeOK, HoldsOK, files, history
  <2>3. CASE UNCHANGED vars
    BY <2>3 DEF vars, TypeOK, HoldsOK
  <2>4. QED
    BY <2>1, <2>2, <2>3, BeginTypeOK, ContinueTypeOK DEF Next
<1>2. QED
  BY InitTypeOK, <1>1, PTL DEF Spec
-----------------------------------------------------------------------------
(* No memory is lost.  The invariant is that whoever is about to unlink a   *)
(* file has its replacement in place; it survives the steps of others       *)
(* because nobody empties the archive, and whoever empties a canon file has *)
(* the archived one in place.                                               *)

(* What a step may not take from an id. *)
Kept(i) ==
  /\ archive[i] # NoFile => archive'[i] # NoFile
  /\ canon[i] # NoFile \/ archive[i] # NoFile => canon'[i] # NoFile \/ archive'[i] # NoFile
  /\ Present(i) => Present(i)'

(* A record is not the absence of one, whatever its status. *)
LEMMA RecordsAreFiles ==
  /\ NoFile \notin Record
  /\ NoFile \notin CapturedRecord
  /\ NoFile \notin AcceptedRecord
  /\ NoFile \notin ArchivedRecord
BY NoFileAssumption DEF CapturedRecord, AcceptedRecord, ArchivedRecord

(* Starting a command takes nothing from the store.                         *)
LEMMA BeginKeeps ==
  ASSUME TypeOK, NEW p \in Procs, Begin(p), NEW i \in Ids
  PROVE  Kept(i)
<1>1. ASSUME NEW j \in Ids, NEW w \in Workspaces, NEW n \in Notes, Capture(p, j, w, n)
      PROVE  Kept(i)
  BY <1>1, NewRecordHasType, RecordsAreFiles DEF Capture, Kept, Present, TypeOK
<1>2. CASE UNCHANGED files
  BY <1>2 DEF Kept, Present, files
<1>3. QED
  BY <1>1, <1>2 DEF Begin, RememberStart, ScoreRead, AcceptRead, PromoteRead, PruneStart

(* A further step of a command takes nothing from the store for good: what  *)
(* it unlinks has its replacement in place.                                 *)
LEMMA ContinueKeeps ==
  ASSUME TypeOK, CopyBeforeUnlink, NEW p \in Procs, Continue(p), NEW i \in Ids
  PROVE  Kept(i)
<1>. USE RecordsAreFiles
<1>1. CASE UNCHANGED files
  BY <1>1 DEF Kept, Present, files
<1>2. CASE ScoreWrite(p) \/ RememberInbox(p) \/ RememberScore(p)
  <2>1. rec[p] \in CapturedRecord
    BY <1>2 DEF TypeOK, HoldsOK, CapturedSteps, ScoreWrite, RememberInbox, RememberScore
  <2>2. [rec[p] EXCEPT !.score = NoScore] \in CapturedRecord
    BY <2>1 DEF CapturedRecord, Record, Scores, NoScore
  <2>3. PICK r \in CapturedRecord : inbox' = [inbox EXCEPT ![rec[p].id] = r]
    BY <1>2, <2>1, <2>2 DEF ScoreWrite, RememberInbox, RememberScore
  <2>4. UNCHANGED <<canon, archive>>
    BY <1>2 DEF ScoreWrite, RememberInbox, RememberScore
  <2>5. QED
    BY <2>3, <2>4 DEF Kept, Present, TypeOK
<1>3. CASE AcceptWrite(p) \/ RememberCanon(p) \/ PromoteWrite(p)
  <2>1. rec[p] \in AcceptedRecord
    BY <1>3 DEF TypeOK, HoldsOK, AcceptedSteps, AcceptWrite, RememberCanon, PromoteWrite
  <2>2. /\ canon' = [canon EXCEPT ![rec[p].id] = rec[p]]
        /\ UNCHANGED <<inbox, archive>>
    BY <1>3 DEF AcceptWrite, RememberCanon, PromoteWrite
  <2>3. QED
    BY <2>1, <2>2 DEF Kept, Present, TypeOK
<1>4. CASE AcceptUnlink(p) \/ RememberUnlink(p)
  <2>1. canon[rec[p].id] # NoFile \/ archive[rec[p].id] # NoFile
    BY <1>4 DEF CopyBeforeUnlink, AcceptUnlink, RememberUnlink
  <2>2. UNCHANGED <<canon, archive>>
    BY <1>4 DEF AcceptUnlink, RememberUnlink
  <2>3. inbox' = inbox \/ inbox' = [inbox EXCEPT ![rec[p].id] = NoFile]
    BY <1>4 DEF AcceptUnlink, RememberUnlink
  <2>4. QED
    BY <2>1, <2>2, <2>3 DEF Kept, Present, TypeOK
<1>5. CASE PruneArchive(p)
  <2>1. PICK a \in plan[p] : PruneArchive(p)!(a)
    BY <1>5 DEF PruneArchive
  <2>2. UNCHANGED <<inbox, canon>>
    BY <2>1
  <2>3. CASE canon[a.id] = NoFile
    BY <2>1, <2>2, <2>3, <1>1 DEF files
  <2>4. CASE canon[a.id] # NoFile
    <3>1. a.id \in Ids
      BY <2>1 DEF TypeOK, AcceptedRecord, Record
    <3>2. archive' = [archive EXCEPT ![a.id] = rec'[p]]
      BY <2>1, <2>4
    <3>3. rec'[p] # NoFile
      <4>1. TypeOK'
        BY <1>5, ContinueTypeOK DEF Continue
      <4>2. pc'[p] = "pruneUnlink"
        BY <2>1, <2>4 DEF Goto, TypeOK
      <4>3. QED
        BY <4>1, <4>2 DEF TypeOK, HoldsOK
    <3>4. QED
      BY <2>2, <3>1, <3>2, <3>3 DEF Kept, Present, TypeOK
  <2>5. QED
    BY <2>3, <2>4
<1>6. CASE PruneUnlink(p)
  <2>1. archive[rec[p].id] # NoFile
    BY <1>6 DEF PruneUnlink, CopyBeforeUnlink
  <2>2. canon' = [canon EXCEPT ![rec[p].id] = NoFile] /\ UNCHANGED <<inbox, archive>>
    BY <1>6 DEF PruneUnlink
  <2>3. QED
    BY <2>1, <2>2 DEF Kept, Present, TypeOK
<1>7. QED
  BY <1>1, <1>2, <1>3, <1>4, <1>5, <1>6
     DEF Continue, ScoreJudge, AcceptJudge, RememberAudit, PromoteJudge

(* No step of the store takes anything from it for good.                    *)
LEMMA NextKeeps ==
  ASSUME TypeOK, CopyBeforeUnlink, [Next]_vars, NEW i \in Ids
  PROVE  Kept(i)
<1>1. CASE UNCHANGED files
  BY <1>1 DEF Kept, Present, files
<1>2. QED
  BY <1>1, BeginKeeps, ContinueKeeps DEF Next, Stop, Tick, vars, files

(* A step of one process leaves alone what the others hold.                 *)
LEMMA OthersHoldStill ==
  ASSUME TypeOK, NEW p \in Procs, NEW q \in Procs \ {p},
         Begin(p) \/ Continue(p) \/ Stop(p)
  PROVE  /\ pc'[q] = pc[q] /\ rec'[q] = rec[q]
         /\ outcome'[q] = outcome[q] /\ plan'[q] = plan[q]
<1>. USE DEF TypeOK, Done, Goto, Hold
<1>1. CASE Begin(p)
  BY <1>1 DEF Begin, Capture, RememberStart, ScoreRead, AcceptRead, PromoteRead, PruneStart
<1>2. CASE PruneArchive(p)
  BY <1>2 DEF PruneArchive
<1>3. CASE Continue(p) /\ ~ PruneArchive(p)
  BY <1>3 DEF Continue, ScoreJudge, ScoreWrite, AcceptJudge, AcceptWrite, AcceptUnlink,
       RememberInbox, RememberScore, RememberCanon, RememberUnlink, RememberAudit,
       PromoteJudge, PromoteWrite, PruneUnlink
<1>4. CASE Stop(p)
  BY <1>4 DEF Stop
<1>5. QED
  BY <1>1, <1>2, <1>3, <1>4

(* A file lies under the id its record names (record paths are built from   *)
(* ids).                                                                    *)
FiledById ==
  \A i \in Ids :
    /\ inbox[i] # NoFile => inbox[i].id = i
    /\ canon[i] # NoFile => canon[i].id = i
    /\ archive[i] # NoFile => archive[i].id = i

(* Commands write records under their own ids.                              *)
LEMMA NextFilesById ==
  ASSUME TypeOK, FiledById, [Next]_vars
  PROVE  FiledById'
<1>1. CASE UNCHANGED files
  BY <1>1 DEF FiledById, files
<1>2. ASSUME NEW p \in Procs, NEW j \in Ids, NEW w \in Workspaces, NEW n \in Notes,
             Capture(p, j, w, n)
      PROVE  FiledById'
  <2>1. NewRecord(j, w, n).id = j
    BY DEF NewRecord
  <2>2. QED
    BY <1>2, <2>1 DEF Capture, FiledById, TypeOK
<1>3. ASSUME NEW p \in Procs, Continue(p)
      PROVE  FiledById'
  <2>1. CASE ScoreWrite(p) \/ RememberInbox(p) \/ RememberScore(p)
    <3>1. rec[p] \in Record
      BY <2>1 DEF TypeOK, HoldsOK, CapturedSteps, CapturedRecord, ScoreWrite,
           RememberInbox, RememberScore
    <3>2. [rec[p] EXCEPT !.score = NoScore].id = rec[p].id
      BY <3>1 DEF Record
    <3>3. \E r : r.id = rec[p].id /\ inbox' = [inbox EXCEPT ![rec[p].id] = r]
      BY <2>1, <3>2 DEF ScoreWrite, RememberInbox, RememberScore
    <3>4. UNCHANGED <<canon, archive>>
      BY <2>1 DEF ScoreWrite, RememberInbox, RememberScore
    <3>5. QED
      BY <3>3, <3>4 DEF FiledById, TypeOK
  <2>2. CASE AcceptWrite(p) \/ RememberCanon(p) \/ PromoteWrite(p)
    BY <2>2 DEF AcceptWrite, RememberCanon, PromoteWrite, FiledById, TypeOK
  <2>3. CASE AcceptUnlink(p) \/ RememberUnlink(p)
    BY <2>3 DEF AcceptUnlink, RememberUnlink, FiledById, TypeOK
  <2>4. CASE PruneArchive(p)
    <3>1. PICK a \in plan[p] : PruneArchive(p)!(a)
      BY <2>4 DEF PruneArchive
    <3>2. a.id \in Ids
      BY <3>1 DEF TypeOK, AcceptedRecord, Record
    <3>3. CASE canon[a.id] = NoFile
      BY <1>1, <3>1, <3>3 DEF files
    <3>4. CASE canon[a.id] # NoFile
      <4>. DEFINE t == IF rec[p] = NoFile THEN now ELSE rec[p].at
                  r == [canon[a.id] EXCEPT !.status = "archived", !.at = t]
      <4>1. canon[a.id] \in Record /\ canon[a.id].id = a.id
        BY <3>2, <3>4 DEF TypeOK, FiledById, AcceptedRecord
      <4>2. r.id = a.id
        BY <4>1 DEF Record
      <4>3. rec'[p] = r
        BY <3>1, <3>4 DEF Hold, TypeOK
      <4>4. archive' = [archive EXCEPT ![a.id] = rec'[p]] /\ UNCHANGED <<inbox, canon>>
        BY <3>1, <3>4
      <4>. HIDE DEF r
      <4>5. QED
        BY <3>2, <4>2, <4>3, <4>4 DEF FiledById, TypeOK
    <3>5. QED
      BY <3>3, <3>4
  <2>5. CASE PruneUnlink(p)
    BY <2>5 DEF PruneUnlink, FiledById, TypeOK
  <2>6. QED
    BY <1>1, <1>3, <2>1, <2>2, <2>3, <2>4, <2>5
       DEF Continue, ScoreJudge, AcceptJudge, RememberAudit, PromoteJudge
<1>4. ASSUME NEW p \in Procs, Begin(p)
      PROVE  FiledById'
  BY <1>1, <1>2, <1>4 DEF Begin, RememberStart, ScoreRead, AcceptRead, PromoteRead, PruneStart
<1>5. CASE Tick \/ UNCHANGED vars
  BY <1>1, <1>5 DEF Tick, vars, files
<1>6. ASSUME NEW p \in Procs, Stop(p)
      PROVE  FiledById'
  BY <1>1, <1>6 DEF Stop
<1>7. QED
  BY <1>3, <1>4, <1>5, <1>6 DEF Next

(* The part of CopyBeforeUnlink about process p.                            *)
Replaced(p) ==
  LET i == rec[p].id
  IN  /\ pc[p] \in {"acceptUnlink", "rememberUnlink"} =>
           canon[i] # NoFile \/ archive[i] # NoFile
      /\ pc[p] = "pruneUnlink" => archive[i] # NoFile

(* A process arrives at an unlink only from the step that wrote the         *)
(* replacement.                                                             *)
LEMMA OwnStepReplaces ==
  ASSUME TypeOK, FiledById, NEW p \in Procs,
         Begin(p) \/ Continue(p) \/ Stop(p)
  PROVE  Replaced(p)'
<1>. DEFINE Unlinks == {"acceptUnlink", "rememberUnlink", "pruneUnlink"}
<1>. USE RecordsAreFiles
<1>1. CASE AcceptWrite(p) \/ RememberCanon(p)
  <2>1. rec[p] \in AcceptedRecord /\ rec[p].id \in Ids
    BY <1>1 DEF TypeOK, HoldsOK, AcceptedSteps, AcceptWrite, RememberCanon,
         AcceptedRecord, Record
  <2>2. /\ canon' = [canon EXCEPT ![rec[p].id] = rec[p]]
        /\ rec' = rec
        /\ pc'[p] # "pruneUnlink"
    BY <1>1 DEF AcceptWrite, RememberCanon, Goto, TypeOK
  <2>3. QED
    BY <2>1, <2>2 DEF Replaced, TypeOK
<1>2. CASE PruneArchive(p)
  <2>1. TypeOK'
    BY <1>2, ContinueTypeOK DEF Continue
  <2>2. PICK a \in plan[p] : PruneArchive(p)!(a)
    BY <1>2 DEF PruneArchive
  <2>3. a.id \in Ids
    BY <2>2 DEF TypeOK, AcceptedRecord, Record
  <2>4. CASE canon[a.id] = NoFile
    <3>1. pc'[p] = "idle"
      BY <2>2, <2>4 DEF Done, Goto, TypeOK
    <3>2. QED
      BY <3>1 DEF Replaced
  <2>5. CASE canon[a.id] # NoFile
    <3>1. pc'[p] = "pruneUnlink"
      BY <2>2, <2>5 DEF Goto, TypeOK
    <3>2. rec'[p] # NoFile
      BY <2>1, <3>1 DEF TypeOK, HoldsOK
    <3>3. \E t \in Nat : rec'[p] = [canon[a.id] EXCEPT !.status = "archived", !.at = t]
      <4>. DEFINE t == IF rec[p] = NoFile THEN now ELSE rec[p].at
      <4>1. t \in Nat
        BY ClockAssumption DEF TypeOK, Record
      <4>2. rec'[p] = [canon[a.id] EXCEPT !.status = "archived", !.at = t]
        BY <2>2, <2>5 DEF Hold, TypeOK
      <4>3. QED
        BY <4>1, <4>2
    <3>4. canon[a.id].id = a.id
      BY <2>3, <2>5 DEF FiledById
    <3>5. archive' = [archive EXCEPT ![a.id] = rec'[p]]
      BY <2>2, <2>5
    <3>6. QED
      BY <2>3, <3>1, <3>2, <3>3, <3>4, <3>5 DEF Replaced, TypeOK
  <2>6. QED
    BY <2>4, <2>5
<1>3. CASE pc'[p] \notin Unlinks
  BY <1>3 DEF Replaced
<1>4. CASE Continue(p) /\ ~ (AcceptWrite(p) \/ RememberCanon(p) \/ PruneArchive(p))
  <2>1. pc'[p] \notin Unlinks
    BY <1>4 DEF TypeOK, Done, Goto, Hold, Continue, ScoreJudge, ScoreWrite, AcceptJudge,
         AcceptUnlink, RememberInbox, RememberScore, RememberUnlink, RememberAudit,
         PromoteJudge, PromoteWrite, PruneUnlink
  <2>2. QED
    BY <1>3, <2>1
<1>5. CASE Begin(p)
  <2>1. pc[p] = "idle" /\ pc \in [Procs -> Steps]
    BY <1>5 DEF TypeOK, Begin, Capture, RememberStart, ScoreRead, AcceptRead,
         PromoteRead, PruneStart
  <2>2. \/ pc' = pc
        \/ \E to \in {"scoreJudge", "acceptJudge", "promoteJudge", "pruneArchive",
                     "rememberInbox", "rememberAudit"} : Goto(p, to)
    BY <1>5 DEF Begin, Capture, RememberStart, ScoreRead, AcceptRead, PromoteRead,
         PruneStart
  <2>3. pc'[p] \notin Unlinks
    BY <2>1, <2>2 DEF Goto
  <2>4. QED
    BY <1>3, <2>3
<1>6. CASE Stop(p)
  <2>1. pc'[p] \notin Unlinks
    BY <1>6 DEF TypeOK, Done, Goto, Stop
  <2>2. QED
    BY <1>3, <2>1
<1>7. QED
  BY <1>1, <1>2, <1>4, <1>5, <1>6

(* The store's safety: no unlink happens before its replacement exists, in  *)
(* accept, remember and prune, whoever else runs, fails or is killed.       *)
THEOREM UnlinksAreSafe == Spec => []CopyBeforeUnlink
<1>. DEFINE IInv == FiledById /\ CopyBeforeUnlink
<1>1. Init => IInv
  BY DEF Init, FiledById, CopyBeforeUnlink
<1>2. TypeOK /\ IInv /\ [Next]_vars => IInv'
  <2>. SUFFICES ASSUME TypeOK, IInv, [Next]_vars
                PROVE  IInv'
    OBVIOUS
  <2>1. FiledById'
    BY NextFilesById
  <2>2. CopyBeforeUnlink'
    <3>. SUFFICES ASSUME NEW q \in Procs
                  PROVE  Replaced(q)'
      BY DEF CopyBeforeUnlink, Replaced
    <3>1. Replaced(q)
      BY DEF CopyBeforeUnlink, Replaced
    <3>2. ASSUME pc'[q] = pc[q], rec'[q] = rec[q]
          PROVE  Replaced(q)'
      <4>1. CASE pc[q] \notin {"acceptUnlink", "rememberUnlink", "pruneUnlink"}
        BY <3>2, <4>1 DEF Replaced
      <4>2. CASE pc[q] \in {"acceptUnlink", "rememberUnlink", "pruneUnlink"}
        <5>1. rec[q].id \in Ids
          BY <4>2 DEF TypeOK, HoldsOK, AcceptedSteps, AcceptedRecord, Record
        <5>2. Kept(rec[q].id)
          BY <5>1, NextKeeps
        <5>3. QED
          BY <3>1, <3>2, <5>2 DEF Replaced, Kept
      <4>3. QED
        BY <4>1, <4>2
    <3>3. ASSUME NEW p \in Procs, Begin(p) \/ Continue(p) \/ Stop(p)
          PROVE  Replaced(q)'
      BY <3>2, <3>3, OthersHoldStill, OwnStepReplaces
    <3>4. CASE Tick \/ UNCHANGED vars
      BY <3>2, <3>4 DEF Tick, vars
    <3>5. QED
      BY <3>3, <3>4 DEF Next
  <2>3. QED
    BY <2>1, <2>2
<1>3. IInv => CopyBeforeUnlink
  OBVIOUS
<1>4. QED
  BY TypeCorrect, <1>1, <1>2, <1>3, PTL DEF Spec

(* No memory is ever lost: what some directory holds, some directory holds  *)
(* after every step of every command, exception or kill.                    *)
THEOREM MemoriesKept == Spec => NeverLost
<1>1. TypeOK /\ CopyBeforeUnlink /\ [Next]_vars
        => [\A i \in Ids : Present(i) => Present(i)']_files
  BY NextKeeps DEF Kept
<1>2. QED
  BY TypeCorrect, UnlinksAreSafe, <1>1, PTL DEF Spec, NeverLost
-----------------------------------------------------------------------------
(* What the files say.  The invariant speaks of every record there is,      *)
(* those in files and those commands carry between two steps alike: a       *)
(* command may write any time what it read long ago.                        *)

(* Duplicates only lower the total of a note: what is retainable or         *)
(* promotable among duplicates is so by itself.  A promotable note, scored  *)
(* anew as a global record, stays over the retain threshold.                *)
LEMMA DuplicatesOnlyLower ==
  ASSUME NEW n \in Notes, NEW strong \in BOOLEAN, NEW near \in BOOLEAN
  PROVE  /\ Retainable(n, strong, near) => Retainable(n, FALSE, FALSE)
         /\ Promotable(n, strong, near) =>
              /\ Promotable(n, FALSE, FALSE)
              /\ Total(n, "global", "global", strong, near) >= RetainThreshold
<1>1. \A target : Reuse(n, target) \in 0 .. 4
  BY DEF Reuse
<1>2. Specificity(n) \in 0 .. 4
  BY DEF Specificity
<1>3. Durability(n) \in 0 .. 4
  BY DEF Durability
<1>4. Evidence(n) \in 0 .. 4
  BY DEF Evidence
<1>5. Novelty(strong, near) \in 0 .. 4 /\ Novelty(FALSE, FALSE) = 4
  BY DEF Novelty
<1>6. \A home, target : ScopeFit(n, home, target) \in 0 .. 4
  BY DEF ScopeFit
<1>7. ScopeFit(n, "global", "global") = 4
  BY DEF ScopeFit
<1>8. Disqualified(n, FALSE) => Disqualified(n, strong)
  BY DEF Disqualified
<1>9. ASSUME ~ Disqualified(n, strong), NEW home, NEW target
       PROVE  Total(n, home, target, FALSE, FALSE) >= Total(n, home, target, strong, near)
  <2>1. PICK r \in 0 .. 4, s \in 0 .. 4, d \in 0 .. 4, e \in 0 .. 4, v \in 0 .. 4, f \in 0 .. 4 :
          /\ Total(n, home, target, strong, near) = Aggregate(r, s, d, e, v, f)
          /\ Total(n, home, target, FALSE, FALSE) = Aggregate(r, s, d, e, 4, f)
    BY <1>1, <1>2, <1>3, <1>4, <1>5, <1>6, <1>8, <1>9 DEF Total
  <2>2. Aggregate(r, s, d, e, 4, f) >= Aggregate(r, s, d, e, v, f)
    BY DEF Aggregate
  <2>3. QED
    BY <2>1, <2>2
<1>10. \A home, target : /\ Total(n, home, target, strong, near) \in Nat
                         /\ Total(n, home, target, FALSE, FALSE) \in Nat
  BY TotalIsNat
<1>11. ASSUME ~ Disqualified(n, strong)
       PROVE  Total(n, "global", "global", strong, near)
                >= Total(n, "workspace", "global", strong, near)
  <2>1. PICK r \in 0 .. 4, s \in 0 .. 4, d \in 0 .. 4, e \in 0 .. 4, v \in 0 .. 4, f \in 0 .. 4 :
          /\ Total(n, "workspace", "global", strong, near) = Aggregate(r, s, d, e, v, f)
          /\ Total(n, "global", "global", strong, near) = Aggregate(r, s, d, e, v, 4)
    BY <1>1, <1>2, <1>3, <1>4, <1>5, <1>6, <1>7, <1>11 DEF Total
  <2>2. Aggregate(r, s, d, e, v, 4) >= Aggregate(r, s, d, e, v, f)
    BY DEF Aggregate
  <2>3. QED
    BY <2>1, <2>2
<1>12. ASSUME NEW a \in Nat, NEW b \in Nat, b >= a
       PROVE  /\ a >= RetainThreshold => b >= RetainThreshold
              /\ a >= PromoteThreshold => b >= PromoteThreshold /\ b >= RetainThreshold
  BY <1>12 DEF RetainThreshold, PromoteThreshold
<1>13. Retainable(n, strong, near) => Retainable(n, FALSE, FALSE)
  BY <1>8, <1>9, <1>10, <1>12 DEF Retainable
<1>14. Promotable(n, strong, near) => Promotable(n, FALSE, FALSE)
  BY <1>8, <1>9, <1>10, <1>12 DEF Promotable
<1>15. Promotable(n, strong, near) =>
         Total(n, "global", "global", strong, near) >= RetainThreshold
  BY <1>10, <1>11, <1>12 DEF Promotable
<1>16. QED
  BY <1>13, <1>14, <1>15
-----------------------------------------------------------------------------
(* Records and where they come from.                                        *)

Files      == File(inbox) \cup File(canon) \cup File(archive)
Seen(p)    == Files \cup ({rec[p]} \ {NoFile})
Everywhere == Files \cup ({rec[p] : p \in Procs} \ {NoFile})

Nobody(i)  == \A r \in Everywhere : r.id # i
Settled(i) == canon[i] # NoFile \/ archive[i] # NoFile

(* Nobody but p holds the id of the record p carries.                       *)
Own(p) ==
  /\ ~ Present(rec[p].id)
  /\ \A q \in Procs \ {p} : rec[q] # NoFile => rec[q].id # rec[p].id

(* Two records of one memory: they differ in bookkeeping only. *)
Alike(r, s) == r.id = s.id /\ r.note = s.note /\ r.scope = s.scope /\ r.source = s.source

(* r is s, up to the stamps of a rewrite or of an archival. *)
Copies(r, s) ==
  /\ Alike(r, s)
  /\ r.status = "captured" <=> s.status = "captured"
  /\ r.status # "captured" => r.mode = s.mode /\ r.score = s.score

(* What CanonEarned asks of a record, and that its note could be accepted. *)
Earned(r) ==
  /\ Retainable(r.note, FALSE, FALSE)
  /\ r.score.retain >= RetainThreshold
  /\ r.scope = Global => Promotable(r.note, FALSE, FALSE)
  /\ r.mode = "policy" =>
       \E pol \in Policies :
         /\ pol.profile # "manual" /\ r.note.kind \in pol.kinds
         /\ pol.nonAgent => "strong" \in ValuesIn(r.note.evidence)

Agreed  == \A r, s \in Everywhere : r.id = s.id => Alike(r, s)
Humble  == \A r \in Everywhere : r.status = "captured" => r.scope # Global /\ r.source = NoId
Merited == \A r \in Everywhere : r.status # "captured" => Earned(r)

Sourced ==
  \A g \in Everywhere : g.scope = Global =>
    /\ g.source \in Ids /\ Settled(g.source)
    /\ \A r \in Everywhere : r.id = g.source => r.note = g.note /\ r.scope # Global

(* x repeats a record p sees, or is one p accepts.                          *)
Descends(p, x) ==
  \E s \in Seen(p) :
    \/ Copies(x, s)
    \/ Alike(x, s) /\ x.status = "accepted" /\ Earned(x)

(* x is a memory nobody knew: captured, or promoted from what p carries.    *)
Born(p, x) ==
  /\ Fresh(x.id)
  /\ \/ x.status = "captured" /\ x.scope # Global /\ x.source = NoId
     \/ /\ x.status = "accepted" /\ Earned(x)
        /\ pc[p] = "promoteJudge"
        /\ x.scope = Global /\ x.source = rec[p].id /\ x.note = rec[p].note

(* What a command relies on between two of its steps. *)
Carried(p) ==
  /\ pc[p] = "promoteJudge" => rec[p].scope # Global /\ Settled(rec[p].id)
  /\ pc[p] \in {"rememberInbox", "rememberScore"} /\ outcome[p] = "auto_accepted" =>
       Earned(Accepted(rec[p], "policy"))
  /\ pc[p] = "promoteWrite" => rec[p].scope = Global
  /\ pc[p] = "rememberInbox" => ~ SecretLike(rec[p].note)
  /\ pc[p] \in RememberSteps \ {"rememberAudit"} => Stored(outcome[p])
  /\ pc[p] \in {"rememberInbox", "promoteWrite"} => Own(p)
  /\ pc[p] = "rememberAudit" /\ ~ Stored(outcome[p]) => Own(p)
  /\ pc[p] \in {"scoreJudge", "scoreWrite", "acceptJudge", "acceptWrite",
                "rememberScore", "rememberCanon"} => Present(rec[p].id)
  /\ pc[p] = "rememberAudit" /\ Stored(outcome[p]) => Present(rec[p].id)
  /\ pc[p] = "rememberAudit" /\ outcome[p] = "auto_accepted" => Settled(rec[p].id)

Logged ==
  \A e \in audit :
    /\ e.outcome = "auto_accepted" => Settled(e.id)
    /\ Stored(e.outcome) => Present(e.id)
    /\ ~ Stored(e.outcome) => Nobody(e.id)
-----------------------------------------------------------------------------
(* What the operators of the commands make of a record.                     *)

(* Scoring a candidate leaves what it says alone.                           *)
LEMMA ScoredCopies ==
  ASSUME NEW r \in CapturedRecord, NEW known, NEW t \in Nat
  PROVE  /\ Scored(r, known, t) \in CapturedRecord
         /\ Copies(Scored(r, known, t), r)
<1>. DEFINE sc == [evidence |-> Evidence(r.note), durability |-> Durability(r.note),
                   retain |-> Total(r.note, "workspace", "workspace",
                                    HasStrong(r, known), HasNear(r, known))]
<1>1. Scored(r, known, t) \in Record /\ Scored(r, known, t).status = "captured"
  BY ScoredKeepsType DEF CapturedRecord
<1>2. Scored(r, known, t) = [r EXCEPT !.at = t, !.score = sc]
  BY DEF Scored
<1>. HIDE DEF sc
<1>3. Alike(Scored(r, known, t), r)
  BY <1>2 DEF Alike, CapturedRecord, Record
<1>4. QED
  BY <1>1, <1>3 DEF Copies, CapturedRecord

(* A candidate that retains enough among the records it is judged against   *)
(* has earned its place when accept writes it.                              *)
LEMMA AcceptedEarned ==
  ASSUME NEW r \in CapturedRecord, r.scope # Global, NEW known, NEW t \in Nat,
         Retainable(r.note, HasStrong(r, known), HasNear(r, known))
  PROVE  Earned(Accepted(Scored(r, known, t), "manual"))
<1>. DEFINE strong == HasStrong(r, known)
            near   == HasNear(r, known)
            sc == [evidence |-> Evidence(r.note), durability |-> Durability(r.note),
                   retain |-> Total(r.note, "workspace", "workspace", strong, near)]
            x  == Accepted(Scored(r, known, t), "manual")
<1>1. strong \in BOOLEAN /\ near \in BOOLEAN /\ r.note \in Notes
  BY DEF HasStrong, HasNear, CapturedRecord, Record
<1>2. Retainable(r.note, FALSE, FALSE)
  BY <1>1, DuplicatesOnlyLower
<1>3. sc.retain >= RetainThreshold
  BY DEF Retainable
<1>4. x = [[r EXCEPT !.at = t, !.score = sc] EXCEPT !.status = "accepted", !.mode = "manual"]
  BY DEF Accepted, Scored
<1>. HIDE DEF sc, x
<1>5. x.note = r.note /\ x.score = sc /\ x.scope = r.scope /\ x.mode = "manual"
  BY <1>4 DEF CapturedRecord, Record
<1>6. QED
  BY <1>2, <1>3, <1>5 DEF Earned, x

(* So has a new record that remember decides to accept, with what the       *)
(* policy asks on top.                                                      *)
LEMMA RememberedEarned ==
  ASSUME NEW new \in CapturedRecord, new.scope # Global, NEW known, NEW t \in Nat,
         NEW pol \in Policies,
         AutoAccepts(pol, new.note, HasStrong(new, known), HasNear(new, known))
  PROVE  Earned(Accepted(Scored(new, known, t), "policy"))
<1>. DEFINE strong == HasStrong(new, known)
            near   == HasNear(new, known)
            sc == [evidence |-> Evidence(new.note), durability |-> Durability(new.note),
                   retain |-> Total(new.note, "workspace", "workspace", strong, near)]
            x  == Accepted(Scored(new, known, t), "policy")
<1>1. strong \in BOOLEAN /\ near \in BOOLEAN /\ new.note \in Notes
  BY DEF HasStrong, HasNear, CapturedRecord, Record
<1>2. Retainable(new.note, strong, near)
  BY DEF AutoAccepts
<1>3. Retainable(new.note, FALSE, FALSE) /\ sc.retain >= RetainThreshold
  BY <1>1, <1>2, DuplicatesOnlyLower DEF Retainable
<1>4. pol.nonAgent => "strong" \in ValuesIn(new.note.evidence)
  <2>1. new.note.evidence \in Seq({"agent", "strong"})
    BY <1>1, NotesAssumption DEF Note
  <2>2. \A k \in DOMAIN new.note.evidence : new.note.evidence[k] \in {"agent", "strong"}
    BY <2>1
  <2>3. QED
    BY <2>2 DEF AutoAccepts, HasNonAgentEvidence, ValuesIn
<1>5. pol.profile # "manual" /\ new.note.kind \in pol.kinds
  BY DEF AutoAccepts
<1>6. x = [[new EXCEPT !.at = t, !.score = sc] EXCEPT !.status = "accepted", !.mode = "policy"]
  BY DEF Accepted, Scored
<1>. HIDE DEF sc, x
<1>7. x.note = new.note /\ x.score = sc /\ x.scope = new.scope /\ x.mode = "policy"
  BY <1>6 DEF CapturedRecord, Record
<1>8. QED
  BY <1>3, <1>4, <1>5, <1>7 DEF Earned, x

(* And so has a promoted record, for the global scope.                      *)
LEMMA PromotedEarned ==
  ASSUME NEW r \in AcceptedRecord, Earned(r), NEW g \in Ids,
         NEW strong \in BOOLEAN, NEW near \in BOOLEAN,
         Promotable(r.note, strong, near)
  PROVE  LET x == Promoted(r, g, strong, near)
         IN  /\ Earned(x) /\ x.status = "accepted" /\ x.id = g
             /\ x.scope = Global /\ x.source = r.id /\ x.note = r.note
<1>. DEFINE sc == [evidence |-> Evidence(r.note), durability |-> Durability(r.note),
                   retain |-> Total(r.note, "global", "global", strong, near)]
            x  == Promoted(r, g, strong, near)
<1>1. r.note \in Notes
  BY DEF AcceptedRecord, Record
<1>2. sc.retain >= RetainThreshold /\ Promotable(r.note, FALSE, FALSE)
  BY <1>1, DuplicatesOnlyLower
<1>3. x = [[r EXCEPT !.scope = Global, !.source = r.id]
             EXCEPT !.id = g, !.mode = "manual", !.score = sc]
  BY DEF Promoted, Provisional
<1>. HIDE DEF sc, x
<1>4. /\ x.status = "accepted" /\ x.id = g /\ x.mode = "manual" /\ x.score = sc
      /\ x.scope = Global /\ x.source = r.id /\ x.note = r.note
  BY <1>3 DEF AcceptedRecord, Record
<1>5. Earned(x)
  BY <1>2, <1>4 DEF Earned
<1>6. QED
  BY <1>4, <1>5 DEF x
-----------------------------------------------------------------------------
(* What a step of a process adds to the records there are.                  *)

(* Every record p sees from its next step on descends from one it saw, but  *)
(* at most one, which is born.                                              *)
Adds(p) ==
  \/ \A r \in Seen(p)' : Descends(p, r)
  \/ \E x : Born(p, x) /\ Seen(p)' \subseteq Seen(p) \cup {x}

(* What files hold, and what p carries, p sees. *)
LEMMA SeenIsAll ==
  ASSUME NEW p \in Procs
  PROVE  /\ \A i \in Ids : {inbox[i], canon[i], archive[i]} \subseteq Seen(p) \cup {NoFile}
         /\ rec[p] \in Seen(p) \cup {NoFile}
BY DEF Seen, Files, File

(* What a step puts into files, and what p carries after it, bounds what p  *)
(* sees after it.                                                           *)
LEMMA SeenGrows ==
  ASSUME NEW p \in Procs, NEW X,
         \A i \in Ids : {inbox'[i], canon'[i], archive'[i]} \subseteq Seen(p) \cup X \cup {NoFile},
         rec'[p] \in Seen(p) \cup X \cup {NoFile}
  PROVE  Seen(p)' \subseteq Seen(p) \cup X
BY DEF Seen, Files, File

(* If all that a step adds descends from what p saw, so does all p sees.    *)
LEMMA AllDescend ==
  ASSUME NEW p \in Procs, NEW X, \A x \in X : Descends(p, x),
         \A i \in Ids : {inbox'[i], canon'[i], archive'[i]} \subseteq Seen(p) \cup X \cup {NoFile},
         rec'[p] \in Seen(p) \cup X \cup {NoFile}
  PROVE  Adds(p)
<1>1. Seen(p)' \subseteq Seen(p) \cup X
  BY SeenGrows
<1>2. \A r \in Seen(p) : Descends(p, r)
  BY DEF Descends, Copies, Alike
<1>3. QED
  BY <1>1, <1>2 DEF Adds

(* A step that writes what p carries, unlinks, or lets go, adds nothing.    *)
LEMMA OnlyWrites ==
  ASSUME TypeOK, NEW p \in Procs,
         inbox' \in {inbox, [inbox EXCEPT ![rec[p].id] = rec[p]],
                     [inbox EXCEPT ![rec[p].id] = NoFile]},
         canon' \in {canon, [canon EXCEPT ![rec[p].id] = rec[p]],
                     [canon EXCEPT ![rec[p].id] = NoFile]},
         archive' = archive,
         rec' = rec \/ rec' = [rec EXCEPT ![p] = NoFile]
  PROVE  Adds(p)
<1>1. PICK X : X = {}
  OBVIOUS
<1>2. /\ \A i \in Ids : {inbox'[i], canon'[i], archive'[i]} \subseteq Seen(p) \cup X \cup {NoFile}
      /\ rec'[p] \in Seen(p) \cup X \cup {NoFile}
  BY SeenIsAll DEF TypeOK
<1>3. \A x \in X : Descends(p, x)
  BY <1>1
<1>4. QED
  BY <1>2, <1>3, AllDescend

(* The bookkeeping of Descends, from a record p carries or reads. *)
LEMMA SeenRecords ==
  ASSUME TypeOK, NEW p \in Procs
  PROVE  /\ rec[p] # NoFile => rec[p] \in Seen(p)
         /\ \A i \in Ids : /\ inbox[i] # NoFile => inbox[i] \in Seen(p)
                           /\ canon[i] # NoFile => canon[i] \in Seen(p)
                           /\ archive[i] # NoFile => archive[i] \in Seen(p)
BY DEF Seen, Files, File

(* A command that starts carries what it reads, or gives birth.             *)
LEMMA BeginAdds ==
  ASSUME TypeOK, NEW p \in Procs, Begin(p)
  PROVE  Adds(p)
<1>0. now \in Nat
  BY ClockAssumption DEF TypeOK
<1>1. ASSUME NEW x \in Record, Born(p, x),
             \/ UNCHANGED files /\ rec' = [rec EXCEPT ![p] = x]
             \/ /\ inbox' = [inbox EXCEPT ![x.id] = x]
                /\ UNCHANGED <<canon, archive, rec>>
      PROVE  Adds(p)
  <2>1. /\ \A i \in Ids : {inbox'[i], canon'[i], archive'[i]} \subseteq Seen(p) \cup {x} \cup {NoFile}
        /\ rec'[p] \in Seen(p) \cup {x} \cup {NoFile}
    BY <1>1, SeenIsAll DEF TypeOK, files
  <2>2. Seen(p)' \subseteq Seen(p) \cup {x}
    BY <2>1, SeenGrows
  <2>3. QED
    BY <1>1, <2>2 DEF Adds
<1>2. ASSUME NEW x, Descends(p, x), UNCHANGED files, rec' = [rec EXCEPT ![p] = x]
      PROVE  Adds(p)
  <2>1. /\ \A i \in Ids : {inbox'[i], canon'[i], archive'[i]} \subseteq Seen(p) \cup {x} \cup {NoFile}
        /\ rec'[p] \in Seen(p) \cup {x} \cup {NoFile}
    BY <1>2, SeenIsAll DEF TypeOK, files
  <2>2. QED
    BY <1>2, <2>1, AllDescend
<1>3. ASSUME NEW i \in Ids, NEW w \in Workspaces, NEW n \in Notes, Capture(p, i, w, n)
      PROVE  Adds(p)
  <2>1. PICK x : x = NewRecord(i, w, n)
    OBVIOUS
  <2>2. x \in Record /\ x.status = "captured" /\ x.scope # Global /\ x.id = i /\ x.source = NoId
    BY <2>1, NewRecordHasType, WorkspaceAssumption DEF CapturedRecord, NewRecord
  <2>3. Born(p, x)
    BY <1>3, <2>2 DEF Born, Capture
  <2>4. inbox' = [inbox EXCEPT ![x.id] = x] /\ UNCHANGED <<canon, archive, rec>>
    BY <1>3, <2>1, <2>2 DEF Capture
  <2>5. QED
    BY <1>1, <2>2, <2>3, <2>4
<1>4. ASSUME NEW i \in Ids, NEW w \in Workspaces, NEW n \in Notes, NEW pol \in Policies,
             RememberStart(p, i, w, n, pol)
      PROVE  Adds(p)
  <2>. DEFINE new == NewRecord(i, w, n)
  <2>1. PICK x : x = Scored(new, Canon(w), now)
    OBVIOUS
  <2>2. new \in CapturedRecord /\ new.scope # Global /\ new.id = i /\ new.source = NoId
    BY NewRecordHasType, WorkspaceAssumption DEF NewRecord
  <2>. HIDE DEF new
  <2>3. x \in CapturedRecord /\ Alike(x, new)
    BY <1>0, <2>1, <2>2, ScoredCopies DEF Copies
  <2>4. Born(p, x) /\ x \in Record
    BY <1>4, <2>2, <2>3 DEF Born, RememberStart, Alike, CapturedRecord
  <2>5. UNCHANGED files /\ rec' = [rec EXCEPT ![p] = x]
    BY <1>4, <2>1 DEF RememberStart, Hold, new
  <2>6. QED
    BY <1>1, <2>4, <2>5
<1>5. ASSUME NEW i \in Ids, ScoreRead(p, i)
      PROVE  Adds(p)
  <2>1. PICK x : x = inbox[i]
    OBVIOUS
  <2>2. Descends(p, x)
    BY <1>5, <2>1, SeenRecords DEF ScoreRead, Descends, Copies, Alike
  <2>3. QED
    BY <1>2, <1>5, <2>1, <2>2 DEF ScoreRead, Hold
<1>6. ASSUME NEW i \in Ids, AcceptRead(p, i)
      PROVE  Adds(p)
  <2>1. PICK x : x = [inbox[i] EXCEPT !.at = now]
    OBVIOUS
  <2>2. inbox[i] \in Record /\ inbox[i] \in Seen(p)
    BY <1>6, SeenRecords DEF AcceptRead, TypeOK, CapturedRecord
  <2>3. Copies(x, inbox[i])
    BY <2>1, <2>2 DEF Copies, Alike, Record
  <2>4. Descends(p, x)
    BY <2>2, <2>3 DEF Descends
  <2>5. QED
    BY <1>2, <1>6, <2>1, <2>4 DEF AcceptRead, Hold
<1>7. ASSUME NEW i \in Ids, PromoteRead(p, i)
      PROVE  Adds(p)
  <2>1. PICK x : x = [canon[i] EXCEPT !.at = now]
    OBVIOUS
  <2>2. canon[i] \in Record /\ canon[i] \in Seen(p)
    BY <1>7, SeenRecords DEF PromoteRead, TypeOK, AcceptedRecord
  <2>3. Copies(x, canon[i])
    BY <2>1, <2>2 DEF Copies, Alike, Record
  <2>4. Descends(p, x)
    BY <2>2, <2>3 DEF Descends
  <2>5. QED
    BY <1>2, <1>7, <2>1, <2>4 DEF PromoteRead, Hold
<1>8. ASSUME NEW scopes \in PruneScopes, PruneStart(p, scopes)
      PROVE  Adds(p)
  BY <1>8, OnlyWrites DEF PruneStart, files
<1>9. QED
  BY <1>3, <1>4, <1>5, <1>6, <1>7, <1>8 DEF Begin

(* A command that goes on rewrites, accepts or archives what it carries, or *)
(* promotes it under a new id.                                              *)
LEMMA ContinueAdds ==
  ASSUME TypeOK, Humble, Merited, NEW p \in Procs, Carried(p), Continue(p)
  PROVE  Adds(p)
<1>0. now \in Nat
  BY ClockAssumption DEF TypeOK
<1>1. ASSUME NEW x, Descends(p, x), rec' = rec \/ rec' = [rec EXCEPT ![p] = x],
             \A i \in Ids : {inbox'[i], canon'[i], archive'[i]} \subseteq Seen(p) \cup {x} \cup {NoFile}
      PROVE  Adds(p)
  <2>1. rec'[p] \in Seen(p) \cup {x} \cup {NoFile}
    BY <1>1, SeenIsAll DEF TypeOK
  <2>2. QED
    BY <1>1, <2>1, AllDescend
<1>2. ASSUME UNCHANGED files
      PROVE  \A x : \A i \in Ids :
               {inbox'[i], canon'[i], archive'[i]} \subseteq Seen(p) \cup {x} \cup {NoFile}
  BY <1>2, SeenIsAll DEF files
<1>3. CASE ScoreJudge(p)
  <2>1. PICK x : x = Scored(rec[p], Canon(rec[p].scope), now)
    OBVIOUS
  <2>2. rec[p] \in CapturedRecord /\ rec[p] \in Seen(p)
    BY <1>3, SeenRecords, RecordsAreFiles DEF ScoreJudge, TypeOK, HoldsOK, CapturedSteps
  <2>3. Descends(p, x)
    BY <1>0, <2>1, <2>2, ScoredCopies DEF Descends
  <2>4. QED
    BY <1>1, <1>2, <1>3, <2>1, <2>3 DEF ScoreJudge, Hold
<1>4. CASE AcceptJudge(p)
  <2>1. CASE Done(p)
    BY <1>4, <2>1, OnlyWrites DEF AcceptJudge, Done, Hold, files
  <2>2. CASE ~ Done(p)
    <3>. DEFINE known == Canon(rec[p].scope)
                s == Scored(rec[p], known, rec[p].at)
    <3>1. PICK x : x = Accepted(s, "manual")
      OBVIOUS
    <3>2. rec[p] \in CapturedRecord /\ rec[p] \in Seen(p)
      BY <1>4, SeenRecords, RecordsAreFiles DEF AcceptJudge, TypeOK, HoldsOK, CapturedSteps
    <3>3. rec[p] \in Everywhere
      BY <3>2 DEF Seen, Everywhere
    <3>4. rec[p].scope # Global /\ rec[p].at \in Nat
      BY <3>2, <3>3 DEF Humble, CapturedRecord, Record
    <3>5. Retainable(rec[p].note, HasStrong(rec[p], known), HasNear(rec[p], known))
      BY <1>4, <2>2 DEF AcceptJudge
    <3>6. rec' = [rec EXCEPT ![p] = x] /\ UNCHANGED files
      BY <1>4, <2>2, <3>1 DEF AcceptJudge, Hold
    <3>. HIDE DEF known
    <3>7. Earned(x)
      BY <3>1, <3>2, <3>4, <3>5, AcceptedEarned
    <3>8. s \in CapturedRecord /\ Alike(s, rec[p])
      BY <3>2, <3>4, ScoredCopies DEF Copies
    <3>. HIDE DEF s
    <3>9. Alike(x, rec[p]) /\ x.status = "accepted"
      BY <3>1, <3>8 DEF Alike, Accepted, CapturedRecord, Record
    <3>10. Descends(p, x)
      BY <3>2, <3>7, <3>9 DEF Descends
    <3>11. QED
      BY <1>1, <1>2, <3>6, <3>10
  <2>3. QED
    BY <2>1, <2>2
<1>5. CASE RememberInbox(p)
  <2>1. PICK x : x = [rec[p] EXCEPT !.score = NoScore]
    OBVIOUS
  <2>2. rec[p] \in CapturedRecord /\ rec[p] \in Seen(p)
    BY <1>5, SeenRecords, RecordsAreFiles DEF RememberInbox, TypeOK, HoldsOK, CapturedSteps
  <2>3. Copies(x, rec[p])
    BY <2>1, <2>2 DEF Copies, Alike, CapturedRecord, Record
  <2>4. Descends(p, x)
    BY <2>2, <2>3 DEF Descends
  <2>5. \A i \in Ids : {inbox'[i], canon'[i], archive'[i]} \subseteq Seen(p) \cup {x} \cup {NoFile}
    BY <1>5, <2>1, SeenIsAll DEF RememberInbox, TypeOK
  <2>6. QED
    BY <1>1, <1>5, <2>4, <2>5 DEF RememberInbox
<1>6. CASE RememberScore(p)
  <2>1. CASE rec' = rec
    BY <1>6, <2>1, OnlyWrites DEF RememberScore
  <2>2. CASE rec' # rec
    <3>1. PICK x : x = Accepted(rec[p], "policy")
      OBVIOUS
    <3>2. rec[p] \in CapturedRecord /\ rec[p] \in Seen(p)
      BY <1>6, SeenRecords, RecordsAreFiles DEF RememberScore, TypeOK, HoldsOK, CapturedSteps
    <3>3. Alike(x, rec[p]) /\ x.status = "accepted"
      BY <3>1, <3>2 DEF Alike, Accepted, CapturedRecord, Record
    <3>4. Earned(x)
      BY <1>6, <2>2, <3>1 DEF RememberScore, Carried
    <3>5. Descends(p, x)
      BY <3>2, <3>3, <3>4 DEF Descends
    <3>6. /\ inbox' = [inbox EXCEPT ![rec[p].id] = rec[p]]
          /\ UNCHANGED <<canon, archive>>
      BY <1>6 DEF RememberScore
    <3>7. \A i \in Ids : {inbox'[i], canon'[i], archive'[i]} \subseteq Seen(p) \cup {x} \cup {NoFile}
      BY <3>6, SeenIsAll DEF TypeOK
    <3>8. rec' = [rec EXCEPT ![p] = x]
      BY <1>6, <2>2, <3>1 DEF RememberScore, Hold
    <3>9. QED
      BY <1>1, <3>5, <3>7, <3>8
  <2>3. QED
    BY <2>1, <2>2
<1>7. ASSUME NEW g \in Ids, PromoteJudge(p, g)
      PROVE  Adds(p)
  <2>1. CASE Done(p)
    BY <1>7, <2>1, OnlyWrites DEF PromoteJudge, Done, Hold, files
  <2>2. CASE ~ Done(p)
    <3>. DEFINE strong == HasStrong(Provisional(rec[p]), Canon(Global))
                near   == HasNear(Provisional(rec[p]), Canon(Global))
    <3>1. PICK x : x = Promoted(rec[p], g, strong, near)
      OBVIOUS
    <3>2. rec[p] \in AcceptedRecord /\ rec[p] \in Everywhere
      BY <1>7, RecordsAreFiles DEF PromoteJudge, TypeOK, HoldsOK, AcceptedSteps, Everywhere
    <3>3. Earned(rec[p])
      BY <3>2 DEF Merited, AcceptedRecord
    <3>4. strong \in BOOLEAN /\ near \in BOOLEAN
      BY DEF HasStrong, HasNear
    <3>5. /\ Promotable(rec[p].note, strong, near) /\ Fresh(g)
          /\ pc[p] = "promoteJudge"
          /\ rec' = [rec EXCEPT ![p] = x] /\ UNCHANGED files
      BY <1>7, <2>2, <3>1 DEF PromoteJudge, Hold
    <3>. HIDE DEF strong, near
    <3>6. Born(p, x)
      BY <3>1, <3>2, <3>3, <3>4, <3>5, PromotedEarned DEF Born
    <3>7. /\ \A i \in Ids : {inbox'[i], canon'[i], archive'[i]} \subseteq Seen(p) \cup {x} \cup {NoFile}
          /\ rec'[p] \in Seen(p) \cup {x} \cup {NoFile}
      BY <1>2, <3>5 DEF TypeOK
    <3>8. Seen(p)' \subseteq Seen(p) \cup {x}
      BY <3>7, SeenGrows
    <3>9. QED
      BY <3>6, <3>8 DEF Adds
  <2>3. QED
    BY <2>1, <2>2
<1>8. CASE PruneArchive(p)
  <2>1. PICK a \in plan[p] : PruneArchive(p)!(a)
    BY <1>8 DEF PruneArchive
  <2>2. CASE canon[a.id] = NoFile
    BY <2>1, <2>2, OnlyWrites DEF Done, Hold
  <2>3. CASE canon[a.id] # NoFile
    <3>1. PICK t : t = IF rec[p] = NoFile THEN now ELSE rec[p].at
      OBVIOUS
    <3>2. PICK x : x = [canon[a.id] EXCEPT !.status = "archived", !.at = t]
      OBVIOUS
    <3>3. a.id \in Ids
      BY <2>1 DEF TypeOK, AcceptedRecord, Record
    <3>4. canon[a.id] \in AcceptedRecord /\ canon[a.id] \in Seen(p)
      BY <2>3, <3>3, SeenRecords DEF TypeOK
    <3>5. Copies(x, canon[a.id])
      BY <3>2, <3>4 DEF Copies, Alike, AcceptedRecord, Record
    <3>6. Descends(p, x)
      BY <3>4, <3>5 DEF Descends
    <3>7. rec' = [rec EXCEPT ![p] = x]
      BY <2>1, <2>3, <3>1, <3>2 DEF Hold
    <3>8. archive' = [archive EXCEPT ![a.id] = rec'[p]] /\ UNCHANGED <<inbox, canon>>
      BY <2>1, <2>3
    <3>9. archive' = [archive EXCEPT ![a.id] = x]
      BY <3>7, <3>8 DEF TypeOK
    <3>10. \A i \in Ids : {inbox'[i], canon'[i], archive'[i]} \subseteq Seen(p) \cup {x} \cup {NoFile}
      BY <3>8, <3>9, SeenIsAll DEF TypeOK
    <3>11. QED
      BY <1>1, <3>6, <3>7, <3>10
  <2>4. QED
    BY <2>2, <2>3
<1>9. CASE \/ ScoreWrite(p) \/ AcceptWrite(p) \/ AcceptUnlink(p) \/ RememberCanon(p)
           \/ RememberUnlink(p) \/ RememberAudit(p) \/ PromoteWrite(p) \/ PruneUnlink(p)
  BY <1>9, OnlyWrites DEF ScoreWrite, AcceptWrite, AcceptUnlink, RememberCanon,
     RememberUnlink, RememberAudit, PromoteWrite, PruneUnlink, Done, Hold, files
<1>10. QED
  BY <1>3, <1>4, <1>5, <1>6, <1>7, <1>8, <1>9 DEF Continue

(* A step of process p, whatever becomes of its command. *)
Moves(p) == Begin(p) \/ Continue(p) \/ Stop(p)

(* Every step of p adds what Adds says.                                     *)
LEMMA MovesAdd ==
  ASSUME TypeOK, Humble, Merited, NEW p \in Procs, Carried(p), Moves(p)
  PROVE  Adds(p)
BY BeginAdds, ContinueAdds, OnlyWrites DEF Moves, Stop, Done, Hold, files

(* r repeats a record there is, or accepts it. *)
Stems(r) ==
  \E s \in Everywhere :
    \/ Copies(r, s)
    \/ Alike(r, s) /\ r.status = "accepted" /\ Earned(r)

(* A born id is new to every record, and to the audit log. *)
LEMMA BornIsNew ==
  ASSUME FiledById, NEW p \in Procs, NEW x, Born(p, x)
  PROVE  /\ Nobody(x.id)
         /\ \A i \in Ids : Settled(i) => x.id # i
         /\ \A e \in audit : e.id # x.id
BY DEF Born, Fresh, Nobody, Everywhere, Files, File, FiledById, Settled

(* The lineage of every record there is after a step of p.                  *)
LEMMA Lineage ==
  ASSUME TypeOK, Humble, Merited, NEW p \in Procs, Carried(p), Moves(p)
  PROVE  \/ \A r \in Everywhere' : Stems(r)
         \/ \E x : Born(p, x) /\ \A r \in Everywhere' : r = x \/ Stems(r)
<1>1. Adds(p)
  BY MovesAdd
<1>2. Everywhere' \subseteq Seen(p)' \cup Everywhere
  <2>1. ASSUME NEW q \in Procs, rec'[q] # NoFile
        PROVE  rec'[q] \in Seen(p)' \cup Everywhere
    <3>1. CASE q = p
      BY <2>1, <3>1 DEF Seen
    <3>2. CASE q # p
      BY <2>1, <3>2, OthersHoldStill DEF Moves, Everywhere
    <3>3. QED
      BY <3>1, <3>2
  <2>2. QED
    BY <2>1 DEF Everywhere, Seen
<1>3. \A r \in Everywhere : Stems(r)
  BY DEF Stems, Copies, Alike
<1>4. Seen(p) \subseteq Everywhere
  BY DEF Seen, Everywhere
<1>5. \A r : Descends(p, r) => Stems(r)
  BY <1>4 DEF Descends, Stems
<1>6. CASE \A r \in Seen(p)' : Descends(p, r)
  BY <1>2, <1>3, <1>5, <1>6
<1>7. ASSUME NEW x, Born(p, x), Seen(p)' \subseteq Seen(p) \cup {x}
      PROVE  \A r \in Everywhere' : r = x \/ Stems(r)
  BY <1>2, <1>3, <1>4, <1>7
<1>8. QED
  BY <1>1, <1>6, <1>7 DEF Adds
-----------------------------------------------------------------------------
(* The invariant, part by part.                                             *)

(* All records of one id tell of one memory.                                *)
LEMMA MovesAgree ==
  ASSUME TypeOK, FiledById, Humble, Merited, Agreed, NEW p \in Procs, Carried(p), Moves(p)
  PROVE  Agreed'
<1>1. ASSUME NEW r, NEW s, Stems(r), Stems(s), r.id = s.id
      PROVE  Alike(r, s)
  BY <1>1 DEF Stems, Copies, Alike, Agreed
<1>2. ASSUME NEW x, NEW r, Born(p, x), Stems(r)
      PROVE  r.id # x.id
  BY <1>2, BornIsNew DEF Stems, Copies, Alike, Nobody
<1>3. \A r : Alike(r, r)
  BY DEF Alike
<1>4. \A r, s \in Everywhere' : r.id = s.id => Alike(r, s)
  BY <1>1, <1>2, <1>3, Lineage
<1>5. QED
  BY <1>4 DEF Agreed, Alike

(* What is captured is no global record; what is not has earned it.         *)
LEMMA MovesEarn ==
  ASSUME TypeOK, Humble, Merited, NEW p \in Procs, Carried(p), Moves(p)
  PROVE  Humble' /\ Merited'
<1>1. ASSUME NEW r, Stems(r)
      PROVE  /\ r.status = "captured" => r.scope # Global /\ r.source = NoId
             /\ r.status # "captured" => Earned(r)
  <2>1. PICK s \in Everywhere :
          Copies(r, s) \/ (Alike(r, s) /\ r.status = "accepted" /\ Earned(r))
    BY <1>1 DEF Stems
  <2>2. CASE Copies(r, s)
    BY <2>1, <2>2 DEF Copies, Alike, Humble, Merited, Earned
  <2>3. CASE r.status = "accepted" /\ Earned(r)
    BY <2>3
  <2>4. QED
    BY <2>1, <2>2, <2>3
<1>2. ASSUME NEW x, Born(p, x)
      PROVE  /\ x.status = "captured" => x.scope # Global /\ x.source = NoId
             /\ x.status # "captured" => Earned(x)
  BY <1>2 DEF Born
<1>3. \A r \in Everywhere' : /\ r.status = "captured" => r.scope # Global /\ r.source = NoId
                             /\ r.status # "captured" => Earned(r)
  BY <1>1, <1>2, Lineage
<1>4. QED
  BY <1>3 DEF Humble, Merited, Earned

(* The source of a global record stays, and stays what it says.             *)
LEMMA MovesSource ==
  ASSUME TypeOK, FiledById, CopyBeforeUnlink, Humble, Merited, Agreed, Sourced,
         NEW p \in Procs, Carried(p), Moves(p), [Next]_vars
  PROVE  Sourced'
<1>1. ASSUME NEW i \in Ids, Settled(i)
      PROVE  Settled(i)'
  BY <1>1, NextKeeps DEF Kept, Settled
<1>2. ASSUME NEW i \in Ids, Settled(i), NEW n,
             \A r \in Everywhere : r.id = i => r.note = n /\ r.scope # Global
      PROVE  \A r \in Everywhere' : r.id = i => r.note = n /\ r.scope # Global
  <2>1. ASSUME NEW r, Stems(r), r.id = i
        PROVE  r.note = n /\ r.scope # Global
    BY <1>2, <2>1 DEF Stems, Copies, Alike
  <2>2. ASSUME NEW x, Born(p, x)
        PROVE  x.id # i
    BY <1>2, <2>2, BornIsNew
  <2>3. QED
    BY <2>1, <2>2, Lineage
<1>3. ASSUME NEW g, g.scope = Global, g.source \in Ids, Settled(g.source),
             \A r \in Everywhere : r.id = g.source => r.note = g.note /\ r.scope # Global
      PROVE  /\ Settled(g.source)'
             /\ \A r \in Everywhere' : r.id = g.source => r.note = g.note /\ r.scope # Global
  BY <1>1, <1>2, <1>3
<1>4. ASSUME NEW g, Stems(g), g.scope = Global
      PROVE  /\ g.source \in Ids /\ Settled(g.source)
             /\ \A r \in Everywhere : r.id = g.source => r.note = g.note /\ r.scope # Global
  BY <1>4 DEF Stems, Copies, Alike, Sourced
<1>5. ASSUME NEW x, Born(p, x), x.scope = Global
      PROVE  /\ x.source \in Ids /\ Settled(x.source)
             /\ \A r \in Everywhere : r.id = x.source => r.note = x.note /\ r.scope # Global
  <2>1. pc[p] = "promoteJudge" /\ x.source = rec[p].id /\ x.note = rec[p].note
    BY <1>5 DEF Born
  <2>2. rec[p] \in AcceptedRecord /\ rec[p] \in Everywhere
    BY <2>1, RecordsAreFiles DEF TypeOK, HoldsOK, AcceptedSteps, Everywhere
  <2>3. rec[p].id \in Ids
    BY <2>2 DEF AcceptedRecord, Record
  <2>4. rec[p].scope # Global /\ Settled(rec[p].id)
    BY <2>1 DEF Carried
  <2>5. QED
    BY <2>1, <2>2, <2>3, <2>4 DEF Agreed, Alike
<1>6. \A g \in Everywhere' : g.scope = Global =>
        /\ g.source \in Ids /\ Settled(g.source)'
        /\ \A r \in Everywhere' : r.id = g.source => r.note = g.note /\ r.scope # Global
  BY <1>3, <1>4, <1>5, Lineage
<1>7. QED
  BY <1>6 DEF Sourced
-----------------------------------------------------------------------------
(* What commands carry.                                                     *)

(* A step of another process takes nothing from what q relies on: files     *)
(* stay or move on, and no id of q's is drawn.                              *)
LEMMA OthersCarryOn ==
  ASSUME TypeOK, FiledById, CopyBeforeUnlink, Humble, Merited, [Next]_vars,
         NEW p \in Procs, Carried(p), Moves(p), NEW q \in Procs \ {p}, Carried(q)
  PROVE  Carried(q)'
<1>1. /\ pc'[q] = pc[q] /\ rec'[q] = rec[q] /\ outcome'[q] = outcome[q]
  BY OthersHoldStill DEF Moves
<1>0. PICK i : i = rec[q].id
  OBVIOUS
<1>2. CASE pc[q] \notin CapturedSteps \cup AcceptedSteps \cup RememberSteps
  BY <1>1, <1>2 DEF Carried, CapturedSteps, AcceptedSteps, RememberSteps
<1>3. CASE pc[q] \in CapturedSteps \cup AcceptedSteps \cup RememberSteps
  <2>1. rec[q] # NoFile /\ i \in Ids
    BY <1>0, <1>3, RecordsAreFiles DEF TypeOK, HoldsOK, CapturedSteps, AcceptedSteps, RememberSteps,
       CapturedRecord, AcceptedRecord, Record
  <2>2. /\ Settled(i) => Settled(i)'
        /\ Present(i) => Present(i)'
    BY <2>1, NextKeeps DEF Kept, Settled
  <2>3. ASSUME Own(q)
        PROVE  Own(q)'
    <3>1. \A s \in Seen(p) : s.id # i
      BY <1>0, <2>1, <2>3 DEF Own, Present, Seen, Files, File, FiledById
    <3>2. ASSUME NEW x, Born(p, x)
          PROVE  x.id # i
      BY <1>0, <2>1, <3>2 DEF Born, Fresh
    <3>3. \A r : Descends(p, r) => r.id # i
      BY <3>1 DEF Descends, Copies, Alike
    <3>4. \A r \in Seen(p)' : r.id # i
      BY <3>1, <3>2, <3>3, MovesAdd DEF Adds
    <3>5. \A j \in Ids : /\ inbox'[j] # NoFile => inbox'[j].id # i
                         /\ canon'[j] # NoFile => canon'[j].id # i
                         /\ archive'[j] # NoFile => archive'[j].id # i
      BY <3>4 DEF Seen, Files, File
    <3>6. inbox'[i] = NoFile /\ canon'[i] = NoFile /\ archive'[i] = NoFile
      BY <2>1, <3>5, NextFilesById DEF FiledById
    <3>7. rec'[p] # NoFile => rec'[p].id # i
      BY <3>4 DEF Seen
    <3>8. \A o \in Procs \ {q} : rec'[o] # NoFile => rec'[o].id # i
      BY <1>0, <2>3, <3>7, OthersHoldStill DEF Own, Moves
    <3>9. QED
      BY <1>0, <1>1, <3>6, <3>8 DEF Own, Present
  <2>4. QED
    BY <1>0, <1>1, <2>2, <2>3 DEF Carried, Settled, Present
<1>4. QED
  BY <1>2, <1>3

(* A command that starts brings what its next step relies on.               *)
LEMMA BeginCarries ==
  ASSUME TypeOK, FiledById, NEW p \in Procs, Begin(p), Carried(p)
  PROVE  Carried(p)'
<1>. USE DEF Carried, CapturedSteps, AcceptedSteps, RememberSteps
<1>1. ASSUME NEW i \in Ids, NEW w \in Workspaces, NEW n \in Notes, Capture(p, i, w, n)
      PROVE  Carried(p)'
  BY <1>1 DEF Capture
<1>2. ASSUME NEW i \in Ids, NEW w \in Workspaces, NEW n \in Notes,
             NEW pol \in Policies, RememberStart(p, i, w, n, pol)
      PROVE  Carried(p)'
  <2>. DEFINE new   == NewRecord(i, w, n)
              known == Canon(w)
              v     == Verdict(pol, n, HasStrong(new, known), HasNear(new, known))
  <2>1. PICK x : x = Scored(new, known, now)
    OBVIOUS
  <2>2. PICK u : u = v
    OBVIOUS
  <2>3. now \in Nat
    BY ClockAssumption DEF TypeOK
  <2>4. new \in CapturedRecord /\ new.scope # Global /\ new.id = i /\ new.note = n
    BY NewRecordHasType, WorkspaceAssumption DEF NewRecord
  <2>5. /\ Fresh(i)
        /\ rec' = [rec EXCEPT ![p] = x]
        /\ outcome' = [outcome EXCEPT ![p] = u]
        /\ pc' = [pc EXCEPT ![p] = IF Stored(u) THEN "rememberInbox" ELSE "rememberAudit"]
        /\ UNCHANGED files
    BY <1>2, <2>1, <2>2 DEF RememberStart, Hold, Goto
  <2>6. /\ rec'[p] = x /\ outcome'[p] = u
        /\ pc'[p] = IF Stored(u) THEN "rememberInbox" ELSE "rememberAudit"
        /\ \A q \in Procs \ {p} : rec'[q] = rec[q]
    BY <2>5 DEF TypeOK
  <2>7. u = "auto_accepted" => AutoAccepts(pol, n, HasStrong(new, known), HasNear(new, known))
    BY <2>2 DEF Verdict
  <2>8. Stored(u) => ~ SecretLike(n)
    BY <2>2 DEF Verdict, Stored
  <2>. HIDE DEF new, known, v
  <2>9. x.id = i /\ x.note = n
    BY <2>1, <2>3, <2>4, ScoredCopies DEF Copies, Alike
  <2>10. u = "auto_accepted" => Earned(Accepted(x, "policy"))
    BY <2>1, <2>3, <2>4, <2>7, RememberedEarned
  <2>11. Own(p)'
    BY <2>5, <2>6, <2>9 DEF Own, Present, Fresh, files
  <2>12. u = "auto_accepted" => Stored(u)
    BY DEF Stored
  <2>13. pc'[p] \in {"rememberInbox", "rememberAudit"}
    BY <2>6
  <2>14. Stored(u) => /\ pc'[p] = "rememberInbox" /\ ~ SecretLike(rec'[p].note)
                      /\ outcome'[p] = "auto_accepted" => Earned(Accepted(rec'[p], "policy"))
    BY <2>6, <2>8, <2>9, <2>10
  <2>15. ~ Stored(u) => pc'[p] = "rememberAudit" /\ outcome'[p] # "auto_accepted"
    BY <2>6, <2>12
  <2>16. Stored(u) <=> Stored(outcome'[p])
    BY <2>6
  <2>17. QED
    BY <2>11, <2>13, <2>14, <2>15, <2>16
<1>3. ASSUME NEW i \in Ids, ScoreRead(p, i)
      PROVE  Carried(p)'
  <2>1. inbox[i].id = i
    BY <1>3 DEF ScoreRead, FiledById
  <2>2. /\ pc'[p] = "scoreJudge" /\ rec'[p] = inbox[i] /\ inbox[i] # NoFile /\ UNCHANGED files
    BY <1>3 DEF ScoreRead, Hold, Goto, TypeOK
  <2>3. QED
    BY <2>1, <2>2 DEF Present, files
<1>4. ASSUME NEW i \in Ids, AcceptRead(p, i)
      PROVE  Carried(p)'
  <2>1. inbox[i] # NoFile /\ inbox[i].id = i /\ inbox[i] \in Record
    BY <1>4 DEF AcceptRead, FiledById, TypeOK, CapturedRecord
  <2>2. /\ pc'[p] = "acceptJudge" /\ rec'[p] = [inbox[i] EXCEPT !.at = now] /\ UNCHANGED files
    BY <1>4 DEF AcceptRead, Hold, Goto, TypeOK
  <2>3. rec'[p].id = i
    BY <2>1, <2>2 DEF Record
  <2>4. QED
    BY <2>1, <2>2, <2>3 DEF Present, files
<1>5. ASSUME NEW i \in Ids, PromoteRead(p, i)
      PROVE  Carried(p)'
  <2>1. /\ canon[i] # NoFile /\ canon[i].id = i /\ canon[i].scope # Global
        /\ canon[i] \in Record
    BY <1>5 DEF PromoteRead, FiledById, TypeOK, AcceptedRecord
  <2>2. pc'[p] = "promoteJudge" /\ rec'[p] = [canon[i] EXCEPT !.at = now] /\ UNCHANGED files
    BY <1>5 DEF PromoteRead, Hold, Goto, TypeOK
  <2>3. rec'[p].id = i /\ rec'[p].scope = canon[i].scope
    BY <2>1, <2>2 DEF Record
  <2>4. QED
    BY <2>1, <2>2, <2>3 DEF Settled, files
<1>6. ASSUME NEW scopes \in PruneScopes, PruneStart(p, scopes)
      PROVE  Carried(p)'
  <2>1. pc'[p] = "pruneArchive"
    BY <1>6 DEF PruneStart, Goto, TypeOK
  <2>2. QED
    BY <2>1
<1>7. QED
  BY <1>1, <1>2, <1>3, <1>4, <1>5, <1>6 DEF Begin

(* A command that goes on brings what its next step relies on.              *)
LEMMA ContinueCarries ==
  ASSUME TypeOK, FiledById, CopyBeforeUnlink, NEW p \in Procs, Continue(p), Carried(p)
  PROVE  Carried(p)'
<1>. USE DEF Carried, CapturedSteps, AcceptedSteps, RememberSteps
<1>1. ASSUME pc'[p] \in {"idle", "acceptUnlink", "pruneArchive", "pruneUnlink"}
      PROVE  Carried(p)'
  BY <1>1
<1>2. ASSUME Done(p)
      PROVE  pc'[p] = "idle"
  BY <1>2 DEF Done, Goto, TypeOK
<1>3. CASE ScoreJudge(p)
  <2>1. PICK x : x = Scored(rec[p], Canon(rec[p].scope), now)
    OBVIOUS
  <2>2. rec[p] \in CapturedRecord /\ now \in Nat /\ Present(rec[p].id)
    BY <1>3, ClockAssumption DEF ScoreJudge, TypeOK, HoldsOK
  <2>3. x.id = rec[p].id
    BY <2>1, <2>2, ScoredCopies DEF Copies, Alike
  <2>4. pc'[p] = "scoreWrite" /\ rec'[p] = x /\ UNCHANGED files
    BY <1>3, <2>1 DEF ScoreJudge, Goto, Hold, TypeOK
  <2>5. QED
    BY <2>2, <2>3, <2>4 DEF Present, files
<1>4. CASE AcceptJudge(p)
  <2>1. CASE Done(p)
    BY <1>1, <1>2, <2>1
  <2>2. CASE ~ Done(p)
    <3>. DEFINE s == Scored(rec[p], Canon(rec[p].scope), rec[p].at)
    <3>1. PICK x : x = Accepted(s, "manual")
      OBVIOUS
    <3>2. /\ rec[p] \in CapturedRecord /\ rec[p].at \in Nat /\ Present(rec[p].id)
      BY <1>4 DEF AcceptJudge, TypeOK, HoldsOK, CapturedRecord, Record
    <3>3. s \in CapturedRecord /\ s.id = rec[p].id
      BY <3>2, ScoredCopies DEF Copies, Alike
    <3>4. pc'[p] = "acceptWrite" /\ rec'[p] = x /\ UNCHANGED files
      BY <1>4, <2>2, <3>1 DEF AcceptJudge, Goto, Hold, TypeOK
    <3>. HIDE DEF s
    <3>5. x.id = rec[p].id
      BY <3>1, <3>3 DEF Accepted, CapturedRecord, Record
    <3>6. QED
      BY <3>2, <3>4, <3>5 DEF Present, files
  <2>3. QED
    BY <2>1, <2>2
<1>5. CASE AcceptWrite(p)
  BY <1>1, <1>5 DEF AcceptWrite, Goto, TypeOK
<1>6. CASE RememberInbox(p)
  <2>1. rec[p] \in CapturedRecord /\ rec[p].id \in Ids
    BY <1>6 DEF RememberInbox, TypeOK, HoldsOK, CapturedRecord, Record
  <2>2. PICK x : x = [rec[p] EXCEPT !.score = NoScore]
    OBVIOUS
  <2>3. x # NoFile
    BY <2>1, <2>2, RecordsAreFiles DEF CapturedRecord, Record, Scores, NoScore
  <2>4. inbox'[rec[p].id] = x /\ pc'[p] = "rememberScore" /\ UNCHANGED <<rec, outcome>>
    BY <1>6, <2>1, <2>2 DEF RememberInbox, Goto, TypeOK
  <2>5. Stored(outcome[p])
    BY <1>6 DEF RememberInbox
  <2>6. outcome[p] = "auto_accepted" => Earned(Accepted(rec[p], "policy"))
    BY <1>6 DEF RememberInbox
  <2>7. QED
    BY <2>3, <2>4, <2>5, <2>6 DEF Present
<1>7. CASE RememberScore(p)
  <2>1. rec[p] \in CapturedRecord /\ rec[p].id \in Ids /\ Stored(outcome[p])
    BY <1>7 DEF RememberScore, TypeOK, HoldsOK, CapturedRecord, Record
  <2>2. inbox'[rec[p].id] = rec[p] /\ rec[p] # NoFile /\ outcome' = outcome
    BY <1>7, <2>1, RecordsAreFiles DEF RememberScore, TypeOK
  <2>3. CASE outcome[p] = "auto_accepted"
    <3>1. pc'[p] = "rememberCanon" /\ rec'[p] = Accepted(rec[p], "policy")
      BY <1>7, <2>3 DEF RememberScore, Goto, Hold, TypeOK
    <3>2. rec'[p].id = rec[p].id
      BY <2>1, <3>1 DEF Accepted, CapturedRecord, Record
    <3>3. QED
      BY <2>1, <2>2, <3>1, <3>2 DEF Present
  <2>4. CASE outcome[p] # "auto_accepted"
    <3>1. pc'[p] = "rememberAudit" /\ rec' = rec
      BY <1>7, <2>4 DEF RememberScore, Goto, TypeOK
    <3>2. QED
      BY <2>1, <2>2, <2>4, <3>1 DEF Present
  <2>5. QED
    BY <2>3, <2>4
<1>8. CASE RememberCanon(p)
  <2>1. pc'[p] = "rememberUnlink" /\ outcome' = outcome /\ Stored(outcome[p])
    BY <1>8 DEF RememberCanon, Goto, TypeOK
  <2>2. QED
    BY <2>1
<1>9. CASE RememberUnlink(p)
  <2>1. CASE Done(p)
    BY <1>1, <1>2, <2>1
  <2>2. CASE ~ Done(p)
    <3>1. /\ pc'[p] = "rememberAudit"
          /\ UNCHANGED <<rec, outcome, canon, archive>>
      BY <1>9, <2>2 DEF RememberUnlink, Goto, TypeOK
    <3>2. Stored(outcome[p]) /\ Settled(rec[p].id)
      BY <1>9 DEF RememberUnlink, CopyBeforeUnlink, Settled
    <3>3. QED
      BY <3>1, <3>2 DEF Settled, Present
  <2>3. QED
    BY <2>1, <2>2
<1>10. ASSUME NEW g \in Ids, PromoteJudge(p, g)
       PROVE  Carried(p)'
  <2>1. CASE Done(p)
    BY <1>1, <1>2, <2>1
  <2>2. CASE ~ Done(p)
    <3>. DEFINE strong == HasStrong(Provisional(rec[p]), Canon(Global))
                near   == HasNear(Provisional(rec[p]), Canon(Global))
    <3>1. PICK x : x = Promoted(rec[p], g, strong, near)
      OBVIOUS
    <3>2. rec[p] \in AcceptedRecord
      BY <1>10 DEF PromoteJudge, TypeOK, HoldsOK
    <3>3. /\ Fresh(g) /\ pc'[p] = "promoteWrite" /\ UNCHANGED files
          /\ rec' = [rec EXCEPT ![p] = x]
      BY <1>10, <2>2, <3>1 DEF PromoteJudge, Goto, Hold, TypeOK
    <3>. HIDE DEF strong, near
    <3>4. x.id = g /\ x.scope = Global
      BY <3>1, <3>2 DEF Promoted, Provisional, AcceptedRecord, Record
    <3>5. rec'[p] = x /\ \A q \in Procs \ {p} : rec'[q] = rec[q]
      BY <3>3 DEF TypeOK
    <3>6. Own(p)'
      BY <3>3, <3>4, <3>5 DEF Own, Present, Fresh, files
    <3>7. QED
      BY <3>3, <3>4, <3>5, <3>6
  <2>3. QED
    BY <2>1, <2>2
<1>11. CASE PruneArchive(p)
  <2>1. pc'[p] \in {"idle", "pruneUnlink"}
    BY <1>11 DEF PruneArchive, Done, Goto, TypeOK
  <2>2. QED
    BY <1>1, <2>1
<1>12. CASE PruneUnlink(p)
  <2>1. pc'[p] \in {"idle", "pruneArchive"}
    BY <1>12 DEF PruneUnlink, Done, Goto, TypeOK
  <2>2. QED
    BY <1>1, <2>1
<1>13. CASE ScoreWrite(p) \/ AcceptUnlink(p) \/ RememberAudit(p) \/ PromoteWrite(p)
  BY <1>1, <1>2, <1>13 DEF ScoreWrite, AcceptUnlink, RememberAudit, PromoteWrite
<1>14. QED
  BY <1>3, <1>4, <1>5, <1>6, <1>7, <1>8, <1>9, <1>10, <1>11, <1>12, <1>13 DEF Continue

(* A step of any process leaves every command what it relies on.            *)
LEMMA MovesCarry ==
  ASSUME TypeOK, FiledById, CopyBeforeUnlink, Humble, Merited, [Next]_vars,
         NEW p \in Procs, Moves(p), \A q \in Procs : Carried(q)
  PROVE  \A q \in Procs : Carried(q)'
<1>1. ASSUME Stop(p)
      PROVE  Carried(p)'
  <2>1. pc'[p] = "idle"
    BY <1>1 DEF Stop, Done, Goto, TypeOK
  <2>2. QED
    BY <2>1 DEF Carried, CapturedSteps, AcceptedSteps, RememberSteps
<1>2. Carried(p)'
  BY <1>1, BeginCarries, ContinueCarries DEF Moves
<1>3. QED
  BY <1>2, OthersCarryOn

(* The log keeps telling the truth, and gets a true event.                  *)
LEMMA MovesLog ==
  ASSUME TypeOK, FiledById, CopyBeforeUnlink, Humble, Merited, [Next]_vars, Logged,
         NEW p \in Procs, Moves(p), Carried(p)
  PROVE  Logged'
<1>. DEFINE True(e) == /\ e.outcome = "auto_accepted" => Settled(e.id)
                       /\ Stored(e.outcome) => Present(e.id)
                       /\ ~ Stored(e.outcome) => Nobody(e.id)
<1>1. ASSUME NEW e \in audit
      PROVE  True(e)'
  <2>1. e.id \in Ids /\ True(e)
    BY DEF TypeOK, Logged
  <2>2. /\ Settled(e.id) => Settled(e.id)'
        /\ Present(e.id) => Present(e.id)'
    BY <2>1, NextKeeps DEF Kept, Settled
  <2>3. ASSUME Nobody(e.id)
        PROVE  Nobody(e.id)'
    <3>1. \A r : Stems(r) => r.id # e.id
      BY <2>3 DEF Stems, Copies, Alike, Nobody
    <3>2. \A x : Born(p, x) => x.id # e.id
      BY BornIsNew
    <3>3. \A r \in Everywhere' : r.id # e.id
      BY <3>1, <3>2, Lineage
    <3>4. QED
      BY <3>3 DEF Nobody
  <2>4. QED
    BY <2>1, <2>2, <2>3
<1>2. CASE audit' = audit
  <2>1. \A e \in audit' : True(e)'
    BY <1>1, <1>2
  <2>2. QED
    BY <2>1 DEF Logged
<1>3. CASE RememberAudit(p)
  <2>1. PICK e : e = [id |-> rec[p].id, outcome |-> outcome[p]]
    OBVIOUS
  <2>2. audit' = audit \cup {e} /\ UNCHANGED files
    BY <1>3, <2>1 DEF RememberAudit
  <2>3. rec[p].id \in Ids
    BY <1>3 DEF RememberAudit, TypeOK, HoldsOK, Record
  <2>4. ~ Stored(e.outcome) => Nobody(e.id)'
    <3>1. SUFFICES ASSUME ~ Stored(outcome[p])
                   PROVE  \A r \in Everywhere' : r.id # rec[p].id
      BY <2>1 DEF Nobody
    <3>2. Own(p)
      BY <1>3, <3>1 DEF RememberAudit, Carried
    <3>3. \A r \in Files : r.id # rec[p].id
      BY <2>3, <3>2 DEF Own, Present, Files, File, FiledById
    <3>4. \A q \in Procs : rec'[q] # NoFile => rec'[q].id # rec[p].id
      BY <1>3, <3>2 DEF RememberAudit, Done, Hold, Own, TypeOK
    <3>5. Files' = Files
      BY <2>2 DEF Files, File, files
    <3>6. QED
      BY <3>3, <3>4, <3>5 DEF Everywhere
  <2>5. /\ e.outcome = "auto_accepted" => Settled(e.id)'
        /\ Stored(e.outcome) => Present(e.id)'
    BY <1>3, <2>1, <2>2 DEF RememberAudit, Carried, Settled, Present, files
  <2>6. True(e)'
    BY <2>4, <2>5
  <2>. HIDE DEF True
  <2>7. \A d \in audit' : True(d)'
    BY <1>1, <2>2, <2>6
  <2>8. QED
    BY <2>7 DEF Logged, True
<1>4. Moves(p) => RememberAudit(p) \/ audit' = audit
  BY DEF Moves, Begin, Continue, Stop, Capture, RememberStart, ScoreRead, AcceptRead,
     PromoteRead, PruneStart, ScoreJudge, ScoreWrite, AcceptJudge, AcceptWrite, AcceptUnlink,
     RememberInbox, RememberScore, RememberCanon, RememberUnlink, PromoteJudge, PromoteWrite,
     PruneArchive, PruneUnlink
<1>5. QED
  BY <1>2, <1>3, <1>4
-----------------------------------------------------------------------------
(* The invariant and what follows from it.                                  *)

Contents ==
  /\ FiledById
  /\ Agreed /\ Humble /\ Merited /\ Sourced /\ Logged
  /\ \A p \in Procs : Carried(p)

(* The contents of the store are sound in every reachable state.            *)
THEOREM ContentsSound == Spec => []Contents
<1>1. Init => Contents
  <2>. SUFFICES ASSUME Init PROVE Contents
    OBVIOUS
  <2>1. Everywhere = {}
    BY DEF Init, Everywhere, Files, File
  <2>2. \A p \in Procs : pc[p] = "idle"
    BY DEF Init
  <2>3. FiledById /\ audit = {}
    BY DEF Init, FiledById
  <2>4. \A p \in Procs : Carried(p)
    BY <2>2 DEF Carried, CapturedSteps, AcceptedSteps, RememberSteps
  <2>5. QED
    BY <2>1, <2>3, <2>4 DEF Contents, Agreed, Humble, Merited, Sourced, Logged
<1>2. TypeOK /\ CopyBeforeUnlink /\ Contents /\ [Next]_vars => Contents'
  <2>. SUFFICES ASSUME TypeOK, CopyBeforeUnlink, Contents, [Next]_vars
                PROVE  Contents'
    OBVIOUS
  <2>1. ASSUME NEW p \in Procs, Moves(p)
        PROVE  Contents'
    <3>1. FiledById'
      BY NextFilesById DEF Contents
    <3>2. Agreed' /\ Humble' /\ Merited'
      BY <2>1, MovesAgree, MovesEarn DEF Contents
    <3>3. Sourced'
      BY <2>1, MovesSource DEF Contents
    <3>4. Logged'
      BY <2>1, MovesLog DEF Contents
    <3>5. \A q \in Procs : Carried(q)'
      BY <2>1, MovesCarry DEF Contents
    <3>6. QED
      BY <3>1, <3>2, <3>3, <3>4, <3>5 DEF Contents
  <2>2. CASE Tick \/ UNCHANGED vars
    <3>1. UNCHANGED <<inbox, canon, archive, audit, pc, rec, outcome>>
      BY <2>2 DEF Tick, vars, files
    <3>2. Everywhere' = Everywhere
      BY <3>1 DEF Everywhere, Files, File
    <3>3. FiledById' /\ Agreed' /\ Humble' /\ Merited' /\ Sourced' /\ Logged'
      BY <3>1, <3>2 DEF Contents, FiledById, Agreed, Humble, Merited, Sourced, Logged,
         Settled, Present, Nobody, Alike, Earned
    <3>4. \A p \in Procs : Carried(p)'
      BY <3>1 DEF Contents, Carried, Settled, Present, Own, Earned
    <3>5. QED
      BY <3>3, <3>4 DEF Contents
  <2>3. QED
    BY <2>1, <2>2 DEF Next, Moves
<1>3. QED
  BY TypeCorrect, UnlinksAreSafe, <1>1, <1>2, PTL DEF Spec

(* A memory says the same wherever a file tells of it, although commands    *)
(* write what they read long before, and however many run at once.          *)
THEOREM CopiesNeverDiffer == Spec => []CopiesAgree
<1>1. TypeOK /\ Contents => CopiesAgree
  BY DEF Contents, FiledById, Agreed, Alike, Everywhere, Files, File, CopiesAgree
<1>2. QED
  BY TypeCorrect, ContentsSound, <1>1, PTL

(* The source a promoted record names is in canon or archived, is no global *)
(* record itself, and says the same, even if it was archived meanwhile.     *)
THEOREM ProvenanceKept == Spec => []ProvenanceResolves
<1>1. Contents => ProvenanceResolves
  <2>. SUFFICES ASSUME Contents,
                       NEW g \in File(canon) \cup File(archive), g.scope = Global
                PROVE  \E r \in {canon[g.source], archive[g.source]} \ {NoFile} :
                         r.note = g.note /\ r.scope # Global
    BY DEF ProvenanceResolves
  <2>1. g \in Everywhere
    BY DEF Everywhere, Files
  <2>2. /\ g.source \in Ids /\ Settled(g.source)
        /\ \A r \in Everywhere : r.id = g.source => r.note = g.note /\ r.scope # Global
    BY <2>1 DEF Contents, Sourced
  <2>3. PICK r \in {canon[g.source], archive[g.source]} : r # NoFile
    BY <2>2 DEF Settled
  <2>4. r \in Everywhere /\ r.id = g.source
    BY <2>2, <2>3 DEF Everywhere, Files, File, Contents, FiledById
  <2>5. QED
    BY <2>2, <2>3, <2>4
<1>2. QED
  BY ContentsSound, <1>1, PTL

(* The audit log tells the truth about the files: what it calls accepted is *)
(* in canon or archived, what it calls captured is somewhere, and what it   *)
(* calls rejected or skipped never was.                                     *)
THEOREM AuditTellsTruth == Spec => []AuditTruthful
<1>1. TypeOK /\ Contents => AuditTruthful
  <2>. SUFFICES ASSUME TypeOK, Contents, NEW e \in audit
                PROVE  /\ e.outcome = "auto_accepted" => canon[e.id] # NoFile \/ archive[e.id] # NoFile
                       /\ e.outcome \in {"captured_only", "review_required"} => Present(e.id)
                       /\ e.outcome \in {"rejected_secret_like", "skipped_duplicate"} => ~ Present(e.id)
    BY DEF AuditTruthful
  <2>1. /\ e.outcome = "auto_accepted" => Settled(e.id)
        /\ Stored(e.outcome) => Present(e.id)
        /\ ~ Stored(e.outcome) => Nobody(e.id)
    BY DEF Contents, Logged
  <2>2. e.id \in Ids
    BY DEF TypeOK
  <2>3. Present(e.id) => ~ Nobody(e.id)
    BY <2>2 DEF Present, Nobody, Everywhere, Files, File, Contents, FiledById
  <2>4. QED
    BY <2>1, <2>3 DEF Stored, Settled
<1>2. QED
  BY TypeCorrect, ContentsSound, <1>1, PTL

(* Every record in canon has earned its place, by its own note and recorded *)
(* score, whichever command wrote it and whatever it was judged against.    *)
THEOREM CanonIsEarned == Spec => []CanonEarned
<1>1. TypeOK /\ Contents => CanonEarned
  <2>. SUFFICES ASSUME TypeOK, Contents, NEW r \in File(canon)
                PROVE  ~ Disqualified(r.note, FALSE) /\ Earned(r)
    BY DEF CanonEarned, Earned
  <2>1. r \in Everywhere /\ r.status = "accepted"
    BY DEF Everywhere, Files, File, TypeOK, AcceptedRecord
  <2>2. Earned(r)
    BY <2>1 DEF Contents, Merited
  <2>3. QED
    BY <2>2 DEF Earned, Retainable
<1>2. QED
  BY TypeCorrect, ContentsSound, <1>1, PTL
-----------------------------------------------------------------------------
(* What a prune relies on: while no other prune has overlapped it, nobody   *)
(* else archives, so the survivors it planned for stay in canon.            *)

PruneSteps == {"pruneArchive", "pruneUnlink"}

(* A canon record that is not planned duplicates a. *)
Survived(a, P) ==
  \E j \in Ids : /\ \A b \in P : b.id # j
                 /\ canon[j] # NoFile /\ StrongDuplicate(canon[j], a)

(* Of two prunes that are under way each is noted.                          *)
Noted(p) == \A q \in Procs \ {p} : p \in Pruning /\ q \in Pruning => p \in overlapped

PrunesSafely(p) ==
  pc[p] \in PruneSteps =>
    /\ p \notin overlapped => \A a \in plan[p] : Survived(a, plan[p])
    /\ \A a \in plan[p] : \E r \in Files : Alike(r, a)
    /\ pc[p] = "pruneUnlink" => \E a \in plan[p] : a.id = rec[p].id

(* Duplication looks at what copies agree on. *)
LEMMA AlikeDuplicates ==
  ASSUME NEW r, NEW s, NEW t, Alike(r, s)
  PROVE  /\ StrongDuplicate(r, t) <=> StrongDuplicate(s, t)
         /\ StrongDuplicate(t, r) <=> StrongDuplicate(t, s)
BY DEF Alike, StrongDuplicate, SameProvenance

(* The records of canon can be ranked. *)
LEMMA CanonIsRanked ==
  ASSUME TypeOK
  PROVE  Rankable(File(canon))
<1>1. \A r \in File(canon) : /\ r.score \in Scores /\ r.at \in Nat /\ r.id \in Nat
  BY IdsAssumption DEF File, TypeOK, AcceptedRecord, Record
<1>2. QED
  BY <1>1 DEF Rankable, Scores

(* A step writes at most one canon file, and its record is not new; it      *)
(* empties one only as an unlink of a prune.                                *)
LEMMA CanonAfter ==
  ASSUME TypeOK, NEW p \in Procs, Moves(p)
  PROVE  \/ canon' = canon
         \/ /\ rec[p] \in AcceptedRecord /\ rec[p] # NoFile
            /\ canon' = [canon EXCEPT ![rec[p].id] = rec[p]]
            /\ AcceptWrite(p) \/ RememberCanon(p) \/ PromoteWrite(p)
         \/ /\ PruneUnlink(p)
            /\ canon' = [canon EXCEPT ![rec[p].id] = NoFile]
<1>1. CASE AcceptWrite(p) \/ RememberCanon(p) \/ PromoteWrite(p)
  <2>1. rec[p] \in AcceptedRecord
    BY <1>1 DEF TypeOK, HoldsOK, AcceptedSteps, AcceptWrite, RememberCanon, PromoteWrite
  <2>2. QED
    BY <1>1, <2>1, RecordsAreFiles DEF AcceptWrite, RememberCanon, PromoteWrite
<1>2. CASE PruneUnlink(p)
  BY <1>2 DEF PruneUnlink
<1>3. QED
  BY <1>1, <1>2 DEF Moves, Begin, Continue, Stop, files,
     Capture, RememberStart, ScoreRead, AcceptRead, PromoteRead, PruneStart,
     ScoreJudge, ScoreWrite, AcceptJudge, AcceptUnlink, RememberInbox, RememberScore,
     RememberUnlink, RememberAudit, PromoteJudge, PruneArchive

(* Canon stays finite. *)
LEMMA CanonStaysFinite ==
  ASSUME TypeOK, NEW p \in Procs, Moves(p), IsFiniteSet(File(canon))
  PROVE  IsFiniteSet(File(canon)')
<1>1. PICK r : \A i \in Ids : canon'[i] \in {canon[i], r, NoFile}
  BY CanonAfter DEF TypeOK
<1>2. File(canon)' \subseteq File(canon) \cup {r}
  BY <1>1 DEF File
<1>3. IsFiniteSet(File(canon) \cup {r})
  BY FS_AddElement
<1>4. QED
  BY <1>2, <1>3, FS_Subset

(* What survived for a plan stays, unless a prune unlinks it.               *)
LEMMA SurvivorsStay ==
  ASSUME TypeOK, FiledById, Agreed, NEW p \in Procs, Moves(p), NEW P,
         PruneUnlink(p) => \E b \in P : b.id = rec[p].id,
         NEW a, Survived(a, P)
  PROVE  Survived(a, P)'
<1>1. PICK j \in Ids : /\ \A b \in P : b.id # j
                       /\ canon[j] # NoFile /\ StrongDuplicate(canon[j], a)
  BY DEF Survived
<1>2. canon'[j] # NoFile /\ StrongDuplicate(canon'[j], a)
  <2>1. CASE canon' = canon
    BY <1>1, <2>1
  <2>2. CASE /\ rec[p] \in AcceptedRecord /\ rec[p] # NoFile
             /\ canon' = [canon EXCEPT ![rec[p].id] = rec[p]]
    <3>1. CASE rec[p].id # j
      BY <1>1, <2>2, <3>1 DEF TypeOK
    <3>2. CASE rec[p].id = j
      <4>1. canon'[j] = rec[p]
        BY <2>2, <3>2 DEF TypeOK
      <4>2. rec[p] \in Everywhere /\ canon[j] \in Everywhere /\ canon[j].id = j
        BY <1>1, <2>2 DEF Everywhere, Files, File, FiledById
      <4>3. Alike(rec[p], canon[j])
        BY <3>2, <4>2 DEF Agreed
      <4>4. QED
        BY <1>1, <2>2, <4>1, <4>3, AlikeDuplicates
    <3>3. QED
      BY <3>1, <3>2
  <2>3. CASE PruneUnlink(p) /\ canon' = [canon EXCEPT ![rec[p].id] = NoFile]
    <3>1. rec[p].id # j
      BY <1>1, <2>3
    <3>2. QED
      BY <1>1, <2>3, <3>1 DEF TypeOK
  <2>4. QED
    BY <2>1, <2>2, <2>3, CanonAfter
<1>3. QED
  BY <1>1, <1>2 DEF Survived

(* Some file goes on saying what one says. *)
LEMMA FilesStayAlike ==
  ASSUME TypeOK, FiledById, CopyBeforeUnlink, Humble, Merited, Agreed, [Next]_vars,
         NEW p \in Procs, Carried(p), Moves(p),
         NEW a, \E r \in Files : Alike(r, a)
  PROVE  \E r \in Files' : Alike(r, a)
<1>1. PICK r \in Files : Alike(r, a)
  OBVIOUS
<1>2. PICK i \in Ids : i = r.id /\ Present(i)
  BY <1>1 DEF Files, File, FiledById, Present
<1>3. Present(i)'
  BY <1>2, NextKeeps DEF Kept
<1>4. PICK s \in Files' : s.id = i
  BY <1>3, NextFilesById DEF Present, Files, File, FiledById
<1>5. s \in Everywhere'
  BY <1>4 DEF Everywhere
<1>6. r \in Everywhere
  BY DEF Everywhere
<1>7. ASSUME NEW x, Born(p, x)
      PROVE  s # x
  BY <1>2, <1>4, <1>6, <1>7, BornIsNew DEF Nobody
<1>8. Stems(s)
  BY <1>5, <1>7, Lineage
<1>9. PICK t \in Everywhere : Alike(s, t)
  BY <1>8 DEF Stems, Copies
<1>10. t.id = r.id
  BY <1>2, <1>4, <1>9 DEF Alike
<1>11. Alike(t, r)
  BY <1>6, <1>10 DEF Agreed
<1>12. Alike(s, a)
  BY <1>1, <1>9, <1>11 DEF Alike
<1>13. QED
  BY <1>12

(* A prune plans to archive only what a survivor duplicates.                *)
LEMMA PlansSafely ==
  ASSUME TypeOK, FiledById, IsFiniteSet(File(canon)), NEW scopes, NEW a \in DuplicatesPlan(scopes)
  PROVE  Survived(a, DuplicatesPlan(scopes)) /\ \E r \in Files : Alike(r, a)
<1>1. PICK R : R = UNION {Canon(s) : s \in scopes}
  OBVIOUS
<1>2. R \subseteq File(canon)
  BY <1>1 DEF Canon
<1>3. IsFiniteSet(R) /\ Rankable(R)
  BY <1>2, FS_Subset, CanonIsRanked DEF Rankable
<1>4. DuplicatesPlan(scopes) = R \ Survivors(R)
  BY <1>1 DEF DuplicatesPlan
<1>5. Kernel(Survivors(R), R)
  BY <1>3, SurvivorsDefined
<1>6. PICK k \in Survivors(R) : k \in R /\ StrongDuplicate(k, a)
  BY <1>4, <1>5 DEF Kernel
<1>7. PICK j \in Ids : k = canon[j] /\ canon[j] # NoFile
  BY <1>2, <1>6 DEF File
<1>8. ASSUME NEW b \in DuplicatesPlan(scopes), b.id = j
      PROVE  FALSE
  <2>1. PICK i \in Ids : b = canon[i] /\ canon[i] # NoFile
    BY <1>2, <1>4 DEF File
  <2>2. b = k
    BY <1>7, <1>8, <2>1 DEF FiledById
  <2>3. QED
    BY <1>4, <1>6, <2>2
<1>9. Survived(a, DuplicatesPlan(scopes))
  BY <1>6, <1>7, <1>8 DEF Survived
<1>10. a \in Files
  BY <1>2, <1>4 DEF Files
<1>11. QED
  BY <1>9, <1>10 DEF Alike

(* A step of p sets it to prune, or leaves it pruning, only with a note of   *)
(* whom it meets; it strikes nobody else off.                               *)
LEMMA OverlapsNoted ==
  ASSUME TypeOK, NEW p \in Procs, Moves(p)
  PROVE  /\ \A q \in Procs \ {p} : q \in overlapped => q \in overlapped'
         /\ p \in Pruning' =>
              \/ p \in Pruning /\ overlapped' = overlapped
              \/ overlapped' = IF Pruning = {} THEN overlapped
                               ELSE overlapped \cup Pruning \cup {p}
<1>. USE DEF TypeOK, Pruning, Goto
<1>1. CASE \E scopes \in PruneScopes : PruneStart(p, scopes)
  BY <1>1 DEF PruneStart
<1>2. CASE Done(p)
  BY <1>2 DEF Done
<1>3. CASE PruneArchive(p) /\ ~ Done(p)
  BY <1>3 DEF PruneArchive
<1>4. CASE Begin(p) /\ ~ (\E scopes \in PruneScopes : PruneStart(p, scopes))
  <2>1. pc[p] = "idle" /\ overlapped' = overlapped
    BY <1>4 DEF Begin, Capture, RememberStart, ScoreRead, AcceptRead, PromoteRead, history
  <2>2. \/ pc' = pc
        \/ \E to \in {"scoreJudge", "acceptJudge", "promoteJudge",
                     "rememberInbox", "rememberAudit"} : Goto(p, to)
    BY <1>4 DEF Begin, Capture, RememberStart, ScoreRead, AcceptRead, PromoteRead
  <2>3. p \notin Pruning'
    BY <2>1, <2>2
  <2>4. QED
    BY <2>1, <2>3
<1>5. CASE Continue(p) /\ ~ Done(p) /\ ~ PruneArchive(p)
  <2>1. overlapped' = overlapped
    BY <1>5 DEF Continue, ScoreJudge, ScoreWrite, AcceptJudge, AcceptWrite, AcceptUnlink,
       RememberInbox, RememberScore, RememberCanon, RememberUnlink, RememberAudit,
       PromoteJudge, PromoteWrite, PruneUnlink, history
  <2>2. p \in Pruning' => p \in Pruning
    BY <1>5 DEF Continue, ScoreJudge, ScoreWrite, AcceptJudge, AcceptWrite, AcceptUnlink,
       RememberInbox, RememberScore, RememberCanon, RememberUnlink, RememberAudit,
       PromoteJudge, PromoteWrite, PruneUnlink
  <2>3. QED
    BY <2>1, <2>2
<1>6. CASE Stop(p)
  BY <1>2, <1>6 DEF Stop
<1>7. QED
  BY <1>1, <1>2, <1>3, <1>4, <1>5, <1>6 DEF Moves

(* So a step of any process leaves every overlap noted.                     *)
LEMMA NotedStays ==
  ASSUME TypeOK, NEW p \in Procs, Moves(p), \A q \in Procs : Noted(q)
  PROVE  \A q \in Procs : Noted(q)'
<1>1. SUFFICES ASSUME NEW q \in Procs, NEW o \in Procs \ {q}, q \in Pruning', o \in Pruning'
               PROVE  q \in overlapped'
  BY DEF Noted
<1>2. \A r \in Procs \ {p} : r \in Pruning' <=> r \in Pruning
  BY OthersHoldStill DEF Moves, Pruning
<1>3. CASE q # p /\ o # p
  BY <1>1, <1>2, <1>3, OverlapsNoted DEF Noted
<1>4. CASE q = p
  BY <1>1, <1>2, <1>4, OverlapsNoted DEF Noted
<1>5. CASE o = p
  <2>1. q # p /\ q \in Pruning
    BY <1>1, <1>2, <1>5
  <2>2. CASE p \in Pruning
    BY <1>5, <2>1, <2>2, OverlapsNoted DEF Noted
  <2>3. CASE p \notin Pruning
    BY <1>1, <1>5, <2>1, <2>3, OverlapsNoted
  <2>4. QED
    BY <2>2, <2>3
<1>6. QED
  BY <1>3, <1>4, <1>5

(* Another process leaves a prune what it relies on.                        *)
LEMMA OthersPruneOn ==
  ASSUME TypeOK, FiledById, CopyBeforeUnlink, Humble, Merited, Agreed, [Next]_vars,
         NEW p \in Procs, Carried(p), Moves(p),
         NEW q \in Procs \ {p}, Noted(q), PrunesSafely(q)
  PROVE  PrunesSafely(q)'
<1>1. /\ pc'[q] = pc[q] /\ rec'[q] = rec[q] /\ plan'[q] = plan[q]
  BY OthersHoldStill DEF Moves
<1>2. CASE pc[q] \notin PruneSteps
  BY <1>1, <1>2 DEF PrunesSafely
<1>3. CASE pc[q] \in PruneSteps
  <2>1. PICK P : P = plan[q]
    OBVIOUS
  <2>2. /\ q \notin overlapped => \A a \in P : Survived(a, P)
        /\ \A a \in P : \E r \in Files : Alike(r, a)
        /\ pc[q] = "pruneUnlink" => \E a \in P : a.id = rec[q].id
    BY <1>3, <2>1 DEF PrunesSafely
  <2>3. \A a \in P : \E r \in Files' : Alike(r, a)
    BY <2>2, FilesStayAlike
  <2>4. ASSUME q \notin overlapped', NEW a \in P
        PROVE  Survived(a, P)'
    <3>1. q \notin overlapped
      BY <2>4, OverlapsNoted
    <3>2. ~ PruneUnlink(p)
      BY <1>3, <3>1 DEF PruneUnlink, Noted, Pruning, PruneSteps
    <3>3. QED
      BY <2>2, <3>1, <3>2, SurvivorsStay
  <2>5. \A a \in P : Survived(a, P)' <=> Survived(a, plan[q])'
    BY <1>1, <2>1 DEF Survived
  <2>6. (\A a \in plan[q] : \E r \in Files : Alike(r, a))'
    BY <1>1, <2>1, <2>3 DEF Alike
  <2>7. q \notin overlapped' => (\A a \in plan[q] : Survived(a, plan[q]))'
    BY <1>1, <2>1, <2>4, <2>5
  <2>8. QED
    BY <1>1, <2>1, <2>2, <2>6, <2>7 DEF PrunesSafely
<1>4. QED
  BY <1>2, <1>3

(* A prune plans what survivors duplicate, and archives by its plan.        *)
LEMMA OwnPrunesOn ==
  ASSUME TypeOK, FiledById, CopyBeforeUnlink, Humble, Merited, Agreed, [Next]_vars,
         IsFiniteSet(File(canon)),
         NEW p \in Procs, Carried(p), Moves(p), PrunesSafely(p)
  PROVE  PrunesSafely(p)'
<1>1. CASE \E scopes \in PruneScopes : PruneStart(p, scopes)
  <2>1. PICK scopes \in PruneScopes : PruneStart(p, scopes)
    BY <1>1
  <2>2. PICK P : P = DuplicatesPlan(scopes)
    OBVIOUS
  <2>3. /\ pc'[p] = "pruneArchive" /\ plan'[p] = P
        /\ UNCHANGED <<inbox, canon, archive>>
    BY <2>1, <2>2 DEF PruneStart, Goto, TypeOK, files
  <2>4. \A a \in P : Survived(a, P) /\ \E r \in Files : Alike(r, a)
    BY <2>2, PlansSafely
  <2>5. \A a \in P : Survived(a, P)' /\ \E r \in Files' : Alike(r, a)
    BY <2>3, <2>4 DEF Survived, Files, File
  <2>6. QED
    BY <2>3, <2>5 DEF PrunesSafely, Survived, Alike
<1>2. CASE PruneArchive(p)
  <2>1. PICK a \in plan[p] : PruneArchive(p)!(a)
    BY <1>2 DEF PruneArchive
  <2>2. CASE canon[a.id] = NoFile
    <3>1. pc'[p] = "idle"
      BY <2>1, <2>2 DEF Done, Goto, TypeOK
    <3>2. QED
      BY <3>1 DEF PrunesSafely, PruneSteps
  <2>3. CASE canon[a.id] # NoFile
    <3>1. a.id \in Ids
      BY DEF TypeOK, AcceptedRecord, Record
    <3>2. PICK t : t = IF rec[p] = NoFile THEN now ELSE rec[p].at
      OBVIOUS
    <3>3. rec'[p] = [canon[a.id] EXCEPT !.status = "archived", !.at = t]
      BY <2>1, <2>3, <3>2 DEF Hold, TypeOK
    <3>4. canon[a.id] \in Record /\ canon[a.id].id = a.id
      BY <2>3, <3>1 DEF TypeOK, AcceptedRecord, FiledById
    <3>5. rec'[p].id = a.id
      BY <3>3, <3>4 DEF Record
    <3>6. UNCHANGED <<plan, canon, overlapped>> /\ pc[p] = "pruneArchive"
      BY <2>1, <2>3
    <3>7. /\ p \notin overlapped => \A b \in plan[p] : Survived(b, plan[p])
          /\ \A b \in plan[p] : \E r \in Files : Alike(r, b)
      BY <3>6 DEF PrunesSafely, PruneSteps
    <3>8. \A b : (\E r \in Files : Alike(r, b)) => \E r \in Files' : Alike(r, b)
      BY FilesStayAlike
    <3>9. /\ p \notin overlapped' => \A b \in plan'[p] : Survived(b, plan[p])'
          /\ \A b \in plan'[p] : \E r \in Files' : Alike(r, b)
      BY <3>6, <3>7, <3>8 DEF Survived
    <3>10. QED
      BY <3>5, <3>6, <3>9 DEF PrunesSafely, Alike
  <2>4. QED
    BY <2>2, <2>3
<1>3. CASE PruneUnlink(p)
  <2>1. CASE Done(p)
    <3>1. pc'[p] = "idle"
      BY <2>1 DEF Done, Goto, TypeOK
    <3>2. QED
      BY <3>1 DEF PrunesSafely, PruneSteps
  <2>2. CASE ~ Done(p)
    <3>1. /\ plan' = [plan EXCEPT ![p] = {a \in plan[p] : a.id # rec[p].id}]
          /\ pc'[p] = "pruneArchive" /\ pc[p] = "pruneUnlink" /\ overlapped' = overlapped
      BY <1>3, <2>2 DEF PruneUnlink, Goto, TypeOK
    <3>2. plan'[p] \subseteq plan[p]
      BY <3>1 DEF TypeOK
    <3>3. PICK P : P = plan[p]
      OBVIOUS
    <3>4. /\ p \notin overlapped => \A a \in P : Survived(a, P)
          /\ \A a \in P : \E r \in Files : Alike(r, a)
          /\ \E a \in P : a.id = rec[p].id
      BY <3>1, <3>3 DEF PrunesSafely, PruneSteps
    <3>5. /\ p \notin overlapped => \A a \in P : Survived(a, P)'
          /\ \A a \in P : \E r \in Files' : Alike(r, a)
      BY <3>4, SurvivorsStay, FilesStayAlike
    <3>6. /\ p \notin overlapped' => \A a \in plan'[p] : Survived(a, plan[p])'
          /\ \A a \in plan'[p] : \E r \in Files' : Alike(r, a)
      BY <3>1, <3>2, <3>3, <3>5 DEF Survived
    <3>7. QED
      BY <3>1, <3>6 DEF PrunesSafely, Alike
  <2>3. QED
    BY <2>1, <2>2
<1>4. CASE Continue(p) /\ ~ (PruneArchive(p) \/ PruneUnlink(p))
  <2>1. pc'[p] \notin PruneSteps
    BY <1>4 DEF TypeOK, Done, Goto, Hold, PruneSteps, Continue, ScoreJudge, ScoreWrite,
       AcceptJudge, AcceptWrite, AcceptUnlink, RememberInbox, RememberScore, RememberCanon,
       RememberUnlink, RememberAudit, PromoteJudge, PromoteWrite
  <2>2. QED
    BY <2>1 DEF PrunesSafely
<1>5. CASE Begin(p) /\ ~ \E scopes \in PruneScopes : PruneStart(p, scopes)
  <2>1. pc[p] = "idle" /\ pc \in [Procs -> Steps]
    BY <1>5 DEF TypeOK, Begin, Capture, RememberStart, ScoreRead, AcceptRead, PromoteRead
  <2>2. \/ pc' = pc
        \/ \E to \in {"scoreJudge", "acceptJudge", "promoteJudge",
                     "rememberInbox", "rememberAudit"} : Goto(p, to)
    BY <1>5 DEF Begin, Capture, RememberStart, ScoreRead, AcceptRead, PromoteRead
  <2>3. pc'[p] \notin PruneSteps
    BY <2>1, <2>2 DEF Goto, PruneSteps
  <2>4. QED
    BY <2>3 DEF PrunesSafely
<1>6. CASE Stop(p)
  <2>1. pc'[p] \notin PruneSteps
    BY <1>6 DEF TypeOK, Done, Goto, Stop, PruneSteps
  <2>2. QED
    BY <2>1 DEF PrunesSafely
<1>7. QED
  BY <1>1, <1>2, <1>3, <1>4, <1>5, <1>6 DEF Moves

Prunes ==
  /\ IsFiniteSet(File(canon))
  /\ \A p \in Procs : Noted(p) /\ PrunesSafely(p)

(* A prune archives only what it planned and, unless another one has got    *)
(* past the lock to meet it (overlapped), only what a canon record outside  *)
(* its plan still duplicates, whatever accepts, remembers and promotes      *)
(* write meanwhile.                                                         *)
THEOREM PrunesAreSafe == Spec => []Prunes
<1>1. Init => Prunes
  <2>1. Init => File(canon) = {}
    BY DEF Init, File
  <2>2. QED
    BY <2>1, FS_EmptySet DEF Init, Prunes, PrunesSafely, PruneSteps, Noted, Pruning
<1>2. TypeOK /\ CopyBeforeUnlink /\ Contents /\ Prunes /\ [Next]_vars => Prunes'
  <2>. SUFFICES ASSUME TypeOK, CopyBeforeUnlink, Contents, Prunes, [Next]_vars
                PROVE  Prunes'
    OBVIOUS
  <2>1. ASSUME NEW p \in Procs, Moves(p)
        PROVE  Prunes'
    <3>1. IsFiniteSet(File(canon)')
      BY <2>1, CanonStaysFinite DEF Prunes
    <3>2. PrunesSafely(p)'
      BY <2>1, OwnPrunesOn DEF Prunes, Contents
    <3>3. ASSUME NEW q \in Procs \ {p}
          PROVE  PrunesSafely(q)'
      BY <2>1, OthersPruneOn DEF Prunes, Contents
    <3>4. \A q \in Procs : Noted(q)'
      BY <2>1, NotedStays DEF Prunes
    <3>5. QED
      BY <3>1, <3>2, <3>3, <3>4 DEF Prunes
  <2>2. CASE Tick \/ UNCHANGED vars
    <3>1. UNCHANGED <<inbox, canon, archive, pc, rec, plan, overlapped>>
      BY <2>2 DEF Tick, vars, files, history
    <3>2. QED
      BY <3>1 DEF Prunes, Noted, Pruning, PrunesSafely, Survived, Files, File, Alike
  <2>3. QED
    BY <2>1, <2>2 DEF Next, Moves
<1>3. QED
  BY TypeCorrect, UnlinksAreSafe, ContentsSound, <1>1, <1>2, PTL DEF Spec
-----------------------------------------------------------------------------
(* The store implements Lifecycle.                                          *)

Mem == [i \in Ids |-> MemoryOf(i)]

(* What the files of a memory are. *)
StatusOf(i) == IF canon[i] # NoFile THEN "accepted"
               ELSE IF archive[i] # NoFile THEN "archived" ELSE "captured"

View(s, r) == [status |-> s, scope |-> r.scope, note |-> r.note, source |-> r.source]

(* Lifecycle reads notes and duplicates as the store does. *)
LEMMA SameReading ==
  /\ Life!Global = Global /\ Life!NoId = NoId
  /\ \A n : Life!SecretLike(n) <=> SecretLike(n)
  /\ \A n : Life!Retainable(n, FALSE, FALSE) <=> Retainable(n, FALSE, FALSE)
  /\ \A n : Life!Promotable(n, FALSE, FALSE) <=> Promotable(n, FALSE, FALSE)
  /\ \A l, r : Life!StrongDuplicate(l, r) <=> StrongDuplicate(l, r)
<1>1. Life!Global = Global /\ Life!NoId = NoId
  BY DEF Life!Global, Life!NoId, Global, NoId
<1>2. \A n : Life!SecretLike(n) <=> SecretLike(n)
  BY DEF Life!SecretLike, SecretLike
<1>3. \A l, r : Life!StrongDuplicate(l, r) <=> StrongDuplicate(l, r)
  BY <1>1 DEF Life!StrongDuplicate, Life!SameProvenance, StrongDuplicate, SameProvenance
<1>4. ASSUME NEW n
      PROVE  /\ Life!Reuse(n, "workspace") = Reuse(n, "workspace")
             /\ Life!Reuse(n, "global") = Reuse(n, "global")
             /\ Life!Specificity(n) = Specificity(n)
             /\ Life!Durability(n) = Durability(n)
             /\ Life!Evidence(n) = Evidence(n)
             /\ Life!Novelty(FALSE, FALSE) = Novelty(FALSE, FALSE)
             /\ Life!ScopeFit(n, "workspace", "workspace") = ScopeFit(n, "workspace", "workspace")
             /\ Life!ScopeFit(n, "workspace", "global") = ScopeFit(n, "workspace", "global")
  BY DEF Life!Reuse, Life!Specificity, Life!Durability, Life!Evidence, Life!Novelty,
     Life!ScopeFit, Life!Lasting, Life!ValuesIn, Reuse, Specificity, Durability, Evidence,
     Novelty, ScopeFit, Lasting, ValuesIn
<1>5. \A r, s, d, e, v, f : Life!Aggregate(r, s, d, e, v, f) = Aggregate(r, s, d, e, v, f)
  BY DEF Life!Aggregate, Aggregate
<1>6. \A n : Life!Disqualified(n, FALSE) <=> Disqualified(n, FALSE)
  BY <1>4 DEF Life!Disqualified, Disqualified
<1>7. ASSUME NEW n
      PROVE  /\ Life!Total(n, "workspace", "workspace", FALSE, FALSE)
                  = Total(n, "workspace", "workspace", FALSE, FALSE)
             /\ Life!Total(n, "workspace", "global", FALSE, FALSE)
                  = Total(n, "workspace", "global", FALSE, FALSE)
  BY <1>4, <1>5, <1>6 DEF Life!Total, Total
<1>8. /\ Life!RetainThreshold = RetainThreshold
      /\ Life!PromoteThreshold = PromoteThreshold
  BY DEF Life!RetainThreshold, Life!PromoteThreshold, RetainThreshold, PromoteThreshold
<1>9. \A n : Life!Retainable(n, FALSE, FALSE) <=> Retainable(n, FALSE, FALSE)
  BY <1>6, <1>7, <1>8 DEF Life!Retainable, Retainable
<1>10. \A n : Life!Promotable(n, FALSE, FALSE) <=> Promotable(n, FALSE, FALSE)
  BY <1>4, <1>6, <1>7, <1>8 DEF Life!Promotable, Promotable
<1>11. QED
  BY <1>1, <1>2, <1>3, <1>9, <1>10

(* Any record of a memory tells what the memory is.                         *)
LEMMA MemoryIs ==
  ASSUME FiledById, Agreed, NEW r \in Everywhere, r.id \in Ids, Present(r.id)
  PROVE  MemoryOf(r.id) = View(StatusOf(r.id), r)
<1>1. PICK i \in Ids : i = r.id
  OBVIOUS
<1>2. \A s \in {inbox[i], canon[i], archive[i]} \ {NoFile} :
        s.note = r.note /\ s.scope = r.scope /\ s.source = r.source
  BY <1>1 DEF Everywhere, Files, File, FiledById, Agreed, Alike
<1>3. MemoryOf(i) = View(StatusOf(i), r)
  BY <1>1, <1>2 DEF MemoryOf, StatusOf, View, Present
<1>4. QED
  BY <1>1, <1>3

(* A memory is there when one of its files is.                              *)
LEMMA MemoryThere ==
  ASSUME TypeOK, FiledById, NEW i \in Ids
  PROVE  MemoryOf(i) # NoFile <=> Present(i)
<1>1. ASSUME NEW r \in Record, NEW s \in {"captured", "accepted", "archived"}
      PROVE  View(s, r) # NoFile
  BY NoMemoryAssumption DEF View, Record
<1>2. \A r \in {inbox[i], canon[i], archive[i]} \ {NoFile} : r \in Record
  BY DEF TypeOK, CapturedRecord, AcceptedRecord, ArchivedRecord
<1>3. QED
  BY <1>1, <1>2 DEF MemoryOf, Present, View

(* A step that touches the files of one id changes one memory at most.      *)
LEMMA OneChanges ==
  ASSUME NEW i \in Ids, NEW v, MemoryOf(i)' = v,
         \A j \in Ids \ {i} : /\ inbox'[j] = inbox[j] /\ canon'[j] = canon[j]
                              /\ archive'[j] = archive[j]
  PROVE  Mem' = [Mem EXCEPT ![i] = v]
<1>1. \A j \in Ids \ {i} : MemoryOf(j)' = MemoryOf(j)
  BY DEF MemoryOf
<1>2. \A j \in Ids : Mem'[j] = IF j = i THEN v ELSE Mem[j]
  BY <1>1 DEF Mem
<1>3. QED
  BY <1>2 DEF Mem

(* Of a memory that moves, the status alone changes.                        *)
LEMMA StatusMoves ==
  \A r, s, t : [View(s, r) EXCEPT !.status = t] = View(t, r)
BY DEF View

(* What is written to an inbox where nothing was is a capture.              *)
LEMMA AppearsCaptured ==
  ASSUME TypeOK, FiledById, NEW x \in CapturedRecord, ~ Present(x.id),
         x.scope # Global, x.source = NoId, ~ SecretLike(x.note),
         inbox' = [inbox EXCEPT ![x.id] = x], UNCHANGED <<canon, archive>>
  PROVE  \E i \in Ids, w \in Workspaces, n \in Notes : Life!Capture(i, w, n)
<1>1. PICK i \in Ids : i = x.id
  BY DEF CapturedRecord, Record
<1>2. x.note \in Notes /\ x.scope \in Workspaces
  BY DEF CapturedRecord, Record
<1>3. MemoryOf(i)' = View("captured", x)
  BY <1>1, RecordsAreFiles DEF MemoryOf, View, Present, TypeOK
<1>4. Mem' = [Mem EXCEPT ![i] = View("captured", x)]
  BY <1>1, <1>3, OneChanges DEF TypeOK
<1>5. Mem[i] = NoFile
  BY <1>1, MemoryThere DEF Mem
<1>6. Life!Capture(i, x.scope, x.note)
  BY <1>4, <1>5, SameReading DEF Life!Capture, Life!Known, Life!Memory, View, Mem
<1>7. QED
  BY <1>2, <1>6

(* A record that rewrites one of an inbox, or loses it when it is settled,  *)
(* changes no memory.                                                       *)
LEMMA InboxIsOverridden ==
  ASSUME TypeOK, FiledById, Agreed, NEW i \in Ids, Present(i), NEW x,
         inbox' = [inbox EXCEPT ![i] = x], UNCHANGED <<canon, archive>>,
         \/ Settled(i)
         \/ x \in Everywhere /\ x.id = i /\ x # NoFile
  PROVE  Mem' = Mem
<1>1. CASE Settled(i)
  BY <1>1 DEF Mem, MemoryOf, Settled, TypeOK
<1>2. CASE ~ Settled(i) /\ x \in Everywhere /\ x.id = i /\ x # NoFile
  <2>1. MemoryOf(i) = View("captured", x)
    BY <1>2, MemoryIs DEF StatusOf, Settled
  <2>2. MemoryOf(i)' = View("captured", x)
    BY <1>2 DEF MemoryOf, View, Settled, TypeOK
  <2>3. Mem' = [Mem EXCEPT ![i] = View("captured", x)]
    BY <2>2, OneChanges DEF TypeOK
  <2>4. QED
    BY <2>1, <2>3 DEF Mem
<1>3. QED
  BY <1>1, <1>2

(* A write to canon accepts a memory that is captured, revives one that is  *)
(* archived, or changes none.                                               *)
LEMMA CanonAccepts ==
  ASSUME TypeOK, FiledById, Agreed, Merited, NEW x \in AcceptedRecord, x \in Everywhere,
         Present(x.id),
         canon' = [canon EXCEPT ![x.id] = x], UNCHANGED <<inbox, archive>>
  PROVE  \/ Mem' = Mem
         \/ Life!Accept(x.id)
         \/ Life!Revive(x.id) /\ archive[x.id] # NoFile
<1>1. PICK i \in Ids : i = x.id
  BY DEF AcceptedRecord, Record
<1>2. MemoryOf(i) = View(StatusOf(i), x)
  BY <1>1, MemoryIs
<1>3. MemoryOf(i)' = View("accepted", x)
  BY <1>1, RecordsAreFiles DEF MemoryOf, View, TypeOK
<1>4. Mem' = [Mem EXCEPT ![i] = View("accepted", x)]
  BY <1>1, <1>3, OneChanges DEF TypeOK
<1>5. Mem[i] = View(StatusOf(i), x) /\ Mem[i] # NoFile
  BY <1>1, <1>2, MemoryThere DEF Mem
<1>6. Mem' = [Mem EXCEPT ![i].status = "accepted"]
  <2>1. PICK m, t : m = Mem /\ t = StatusOf(i)
    OBVIOUS
  <2>2. i \in DOMAIN m /\ m[i] = View(t, x)
    BY <1>1, <1>5, <2>1 DEF Mem
  <2>3. Mem' = [m EXCEPT ![i] = View("accepted", x)]
    BY <1>4, <2>1
  <2>4. [m EXCEPT ![i] = View("accepted", x)] = [m EXCEPT ![i].status = "accepted"]
    <3>1. [m EXCEPT ![i].status = "accepted"] = [m EXCEPT ![i] = [m[i] EXCEPT !.status = "accepted"]]
      OBVIOUS
    <3>2. [m[i] EXCEPT !.status = "accepted"] = [View(t, x) EXCEPT !.status = "accepted"]
      BY <2>2
    <3>3. [m[i] EXCEPT !.status = "accepted"] = View("accepted", x)
      BY <3>2, StatusMoves
    <3>4. QED
      BY <3>1, <3>3
  <2>5. QED
    BY <2>1, <2>3, <2>4
<1>7. CASE StatusOf(i) = "accepted"
  BY <1>4, <1>5, <1>7 DEF Mem
<1>8. CASE StatusOf(i) = "archived"
  <2>1. Life!Revive(i)
    BY <1>5, <1>6, <1>8 DEF Life!Revive, Life!Is, Life!Known, Life!Become, View, Mem
  <2>2. QED
    BY <1>1, <1>8, <2>1 DEF StatusOf
<1>9. CASE StatusOf(i) = "captured"
  <2>1. Retainable(x.note, FALSE, FALSE)
    BY DEF Merited, Earned, AcceptedRecord
  <2>2. Mem[i].status = "captured" /\ Mem[i].note = x.note
    BY <1>5, <1>9 DEF View
  <2>3. Life!Is(i, "captured")
    BY <1>5, <2>2 DEF Life!Is, Life!Known, Mem
  <2>4. Life!Become(i, "accepted")
    BY <1>6 DEF Life!Become, Mem
  <2>5. Life!Retainable(Mem[i].note, FALSE, FALSE)
    BY <2>1, <2>2, SameReading
  <2>6. Life!Accept(i)
    BY <2>3, <2>4, <2>5 DEF Life!Accept, Mem
  <2>7. QED
    BY <1>1, <2>6
<1>10. QED
  BY <1>7, <1>8, <1>9 DEF StatusOf

(* A promotion writes a memory nobody knew, from an accepted or archived    *)
(* one of a workspace.                                                      *)
LEMMA CanonPromotes ==
  ASSUME TypeOK, FiledById, Agreed, Merited, Sourced, NEW x \in AcceptedRecord, x \in Everywhere,
         ~ Present(x.id), x.scope = Global,
         canon' = [canon EXCEPT ![x.id] = x], UNCHANGED <<inbox, archive>>
  PROVE  /\ x.id \in Ids /\ x.source \in Ids /\ Settled(x.source)
         /\ Life!Promote(x.id, x.source)
<1>1. PICK g \in Ids : g = x.id
  BY DEF AcceptedRecord, Record
<1>2. MemoryOf(g)' = View("accepted", x)
  BY <1>1, RecordsAreFiles DEF MemoryOf, View, TypeOK
<1>3. Mem' = [Mem EXCEPT ![g] = View("accepted", x)]
  BY <1>1, <1>2, OneChanges DEF TypeOK
<1>4. Mem[g] = NoFile
  BY <1>1, MemoryThere DEF Mem
<1>5. PICK i \in Ids : i = x.source /\ Settled(i)
  BY DEF Sourced
<1>6. PICK r \in Everywhere : r.id = i
  BY <1>5 DEF Settled, Everywhere, Files, File, FiledById
<1>7. r.note = x.note /\ r.scope # Global
  BY <1>5, <1>6 DEF Sourced
<1>8. Mem[i] = View(StatusOf(i), r) /\ Mem[i] # NoFile
  BY <1>5, <1>6, MemoryIs, MemoryThere DEF Mem, Settled, Present
<1>9. StatusOf(i) \in {"accepted", "archived"}
  BY <1>5 DEF StatusOf, Settled
<1>10. Promotable(x.note, FALSE, FALSE)
  BY DEF Merited, Earned, AcceptedRecord
<1>11. Mem' = [Mem EXCEPT ![g] = Life!Memory("accepted", Global, Mem[i].note, i)]
  BY <1>3, <1>5, <1>7, <1>8 DEF Life!Memory, View
<1>12. Life!Promote(g, i)
  <2>1. Mem[i].status \in {"accepted", "archived"} /\ Mem[i].note = x.note /\ Mem[i].scope # Global
    BY <1>7, <1>8, <1>9 DEF View
  <2>2. ~ Life!Known(g)
    BY <1>4 DEF Life!Known, Mem
  <2>3. Life!Is(i, "accepted") \/ Life!Is(i, "archived")
    BY <1>8, <2>1 DEF Life!Is, Life!Known, Mem
  <2>4. Mem[i].scope # Life!Global /\ Life!Promotable(Mem[i].note, FALSE, FALSE)
    BY <1>10, <2>1, SameReading
  <2>5. Mem' = [Mem EXCEPT ![g] = Life!Memory("accepted", Life!Global, Mem[i].note, i)]
    BY <1>11, SameReading
  <2>6. QED
    BY <2>2, <2>3, <2>4, <2>5 DEF Life!Promote, Mem
<1>13. QED
  BY <1>1, <1>5, <1>12

(* An unlink of a prune archives a memory an accepted one duplicates.       *)
LEMMA PruneArchives ==
  ASSUME TypeOK, FiledById, Agreed, CopyBeforeUnlink, NEW p \in Procs, PrunesSafely(p),
         PruneUnlink(p)
  PROVE  Mem' = Mem \/ \E i \in Ids : Life!Archive(i) \/ Life!ArchiveContested(i)
<1>1. pc[p] = "pruneUnlink" /\ rec[p] \in Record /\ rec[p] \in Everywhere
  BY RecordsAreFiles DEF PruneUnlink, TypeOK, HoldsOK, Everywhere
<1>2. PICK i \in Ids : i = rec[p].id
  BY <1>1 DEF Record
<1>3. /\ canon' = [canon EXCEPT ![i] = NoFile] /\ UNCHANGED <<inbox, archive>>
      /\ archive[i] # NoFile
  BY <1>1, <1>2 DEF PruneUnlink, CopyBeforeUnlink
<1>4. CASE canon[i] = NoFile
  BY <1>3, <1>4 DEF Mem, MemoryOf, TypeOK
<1>5. CASE canon[i] # NoFile
  <2>1. canon[i] \in Everywhere /\ canon[i].id = i /\ archive[i] \in Everywhere /\ archive[i].id = i
    BY <1>3, <1>5 DEF Everywhere, Files, File, FiledById
  <2>2. PICK c : c = canon[i]
    OBVIOUS
  <2>3. Alike(archive[i], c)
    BY <2>1, <2>2 DEF Agreed
  <2>4. MemoryOf(i)' = View("archived", c)
    BY <1>3, <2>3 DEF MemoryOf, View, Alike, TypeOK
  <2>5. Mem' = [Mem EXCEPT ![i] = View("archived", c)]
    BY <1>3, <2>4, OneChanges DEF TypeOK
  <2>6. Mem[i] = View("accepted", c) /\ Mem[i] # NoFile
    BY <1>5, <2>2, MemoryThere DEF Mem, MemoryOf, View, Present
  <2>7. Mem' = [Mem EXCEPT ![i].status = "archived"]
    <3>1. PICK m : m = Mem
      OBVIOUS
    <3>2. i \in DOMAIN m /\ m[i] = View("accepted", c)
      BY <1>2, <1>1, <2>6, <3>1 DEF Mem
    <3>3. Mem' = [m EXCEPT ![i] = View("archived", c)]
      BY <2>5, <3>1
    <3>4. [m EXCEPT ![i] = View("archived", c)] = [m EXCEPT ![i].status = "archived"]
      <4>1. [m EXCEPT ![i].status = "archived"] = [m EXCEPT ![i] = [m[i] EXCEPT !.status = "archived"]]
        OBVIOUS
      <4>2. [m[i] EXCEPT !.status = "archived"] = [View("accepted", c) EXCEPT !.status = "archived"]
        BY <3>2
      <4>3. [m[i] EXCEPT !.status = "archived"] = View("archived", c)
        BY <4>2, StatusMoves
      <4>4. QED
        BY <4>1, <4>3
    <3>5. QED
      BY <3>1, <3>3, <3>4
  <2>8. PICK a \in plan[p] : a.id = i
    BY <1>1, <1>2 DEF PrunesSafely, PruneSteps
  <2>9. CASE p \in overlapped
    <3>1. i \in {d.id : d \in UNION {plan[q] : q \in overlapped}}
      BY <2>8, <2>9
    <3>2. Life!ArchiveContested(i)
      BY <2>6, <2>7, <3>1
         DEF Life!ArchiveContested, Life!Is, Life!Known, Life!Become, View, Mem
    <3>3. QED
      BY <3>2
  <2>10. CASE p \notin overlapped
    <3>1. Survived(a, plan[p]) /\ \E r \in Files : Alike(r, a)
      BY <1>1, <2>10 DEF PrunesSafely, PruneSteps
    <3>2. Alike(c, a)
      <4>1. PICK r \in Files : Alike(r, a)
        BY <3>1
      <4>2. r \in Everywhere /\ r.id = i
        BY <2>8, <4>1 DEF Everywhere, Alike
      <4>3. Alike(c, r)
        BY <2>1, <2>2, <4>2 DEF Agreed
      <4>4. QED
        BY <4>1, <4>3 DEF Alike
    <3>3. PICK j \in Ids \ {i} : canon[j] # NoFile /\ StrongDuplicate(canon[j], a)
      BY <2>8, <3>1 DEF Survived
    <3>4. StrongDuplicate(canon[j], c)
      BY <3>2, <3>3, AlikeDuplicates
    <3>5. Mem[j] = View("accepted", canon[j]) /\ Mem[j] # NoFile
      BY <3>3, MemoryThere DEF Mem, MemoryOf, View, Present
    <3>6. StrongDuplicate(Mem[j], Mem[i])
      BY <2>6, <3>4, <3>5 DEF StrongDuplicate, SameProvenance, View
    <3>7. Life!Duplicated(i, Mem[i])
      BY <3>5, <3>6, SameReading DEF Life!Duplicated, Life!Is, Life!Known, View, Mem
    <3>8. Life!Archive(i)
      BY <2>6, <2>7, <3>7 DEF Life!Archive, Life!Is, Life!Known, Life!Become, View, Mem
    <3>9. QED
      BY <3>8
  <2>11. QED
    BY <2>9, <2>10
<1>6. QED
  BY <1>4, <1>5
-----------------------------------------------------------------------------
(* What a step of the files does to the memories.                           *)

(* Memories are what the files say.                                         *)
LEMMA FilesTellMemories ==
  ASSUME UNCHANGED files
  PROVE  Mem' = Mem
BY DEF Mem, MemoryOf, files

Captures == \E i \in Ids, w \in Workspaces, n \in Notes : Life!Capture(i, w, n)

Accepts(p) == AcceptWrite(p) \/ RememberCanon(p)

(* What p makes of a memory by writing, or emptying, a file of canon. *)
Turns(p) ==
  \/ /\ Accepts(p) /\ rec[p].id \in Ids
     /\ \/ Life!Accept(rec[p].id)
        \/ Life!Revive(rec[p].id) /\ archive[rec[p].id] # NoFile
  \/ /\ PromoteWrite(p) /\ rec[p].id \in Ids /\ rec[p].source \in Ids
     /\ Settled(rec[p].source) /\ Life!Promote(rec[p].id, rec[p].source)
  \/ PruneUnlink(p) /\ \E i \in Ids : Life!Archive(i) \/ Life!ArchiveContested(i)

(* A step that writes an inbox captures a memory, or tells nothing new; one *)
(* that unlinks from it leaves the memory in canon or the archive.          *)
LEMMA InboxSteps ==
  ASSUME TypeOK, CopyBeforeUnlink, Contents, NEW p \in Procs,
         \/ \E i \in Ids : \E w \in Workspaces, n \in Notes : Capture(p, i, w, n)
         \/ ScoreWrite(p) \/ AcceptUnlink(p)
         \/ RememberInbox(p) \/ RememberScore(p) \/ RememberUnlink(p)
  PROVE  Captures \/ Mem' = Mem
<1>. USE DEF CapturedSteps, AcceptedSteps, RememberSteps
<1>1. FiledById /\ Agreed /\ Humble /\ Carried(p) /\ HoldsOK(p)
  BY DEF Contents, TypeOK
<1>2. rec[p] # NoFile => rec[p] \in Everywhere
  BY DEF Everywhere
<1>3. ASSUME NEW i \in Ids, NEW w \in Workspaces, NEW n \in Notes, Capture(p, i, w, n)
      PROVE  Captures
  <2>1. PICK x : x = NewRecord(i, w, n)
    OBVIOUS
  <2>2. /\ x \in CapturedRecord /\ x.id = i /\ x.scope # Global /\ x.source = NoId
        /\ x.note = n
    BY <2>1, NewRecordHasType, WorkspaceAssumption DEF NewRecord
  <2>3. /\ ~ Present(i) /\ ~ SecretLike(n)
        /\ inbox' = [inbox EXCEPT ![i] = x] /\ UNCHANGED <<canon, archive>>
    BY <1>3, <2>1 DEF Capture, Fresh, Present
  <2>4. QED
    BY <1>1, <2>2, <2>3, AppearsCaptured DEF Captures
<1>4. CASE RememberInbox(p)
  <2>1. PICK x : x = [rec[p] EXCEPT !.score = NoScore]
    OBVIOUS
  <2>2. rec[p] \in CapturedRecord /\ Own(p) /\ ~ SecretLike(rec[p].note)
    BY <1>1, <1>4 DEF RememberInbox, HoldsOK, Carried
  <2>3. rec[p].scope # Global /\ rec[p].source = NoId
    BY <1>1, <1>2, <2>2, RecordsAreFiles DEF Humble, CapturedRecord
  <2>4. /\ x \in CapturedRecord /\ x.id = rec[p].id /\ x.scope # Global /\ x.source = NoId
        /\ x.note = rec[p].note
    BY <2>1, <2>2, <2>3 DEF CapturedRecord, Record, NoScore, Scores
  <2>5. inbox' = [inbox EXCEPT ![x.id] = x] /\ UNCHANGED <<canon, archive>>
    BY <1>4, <2>1, <2>4 DEF RememberInbox
  <2>6. ~ Present(x.id) /\ ~ SecretLike(x.note)
    BY <2>2, <2>4 DEF Own
  <2>7. QED
    BY <1>1, <2>4, <2>5, <2>6, AppearsCaptured DEF Captures
<1>5. CASE ScoreWrite(p) \/ RememberScore(p)
  <2>1. /\ rec[p] \in CapturedRecord /\ Present(rec[p].id)
        /\ inbox' = [inbox EXCEPT ![rec[p].id] = rec[p]] /\ UNCHANGED <<canon, archive>>
    BY <1>1, <1>5 DEF ScoreWrite, RememberScore, HoldsOK, Carried
  <2>2. PICK i, x : i = rec[p].id /\ x = rec[p]
    OBVIOUS
  <2>3. i \in Ids /\ x \in Everywhere /\ x # NoFile
    BY <1>2, <2>1, <2>2, RecordsAreFiles DEF CapturedRecord, Record
  <2>4. QED
    BY <1>1, <2>1, <2>2, <2>3, InboxIsOverridden
<1>6. CASE AcceptUnlink(p) \/ RememberUnlink(p)
  <2>1. PICK i : i = rec[p].id
    OBVIOUS
  <2>2. rec[p] \in AcceptedRecord /\ Settled(i)
    BY <1>1, <1>6, <2>1 DEF AcceptUnlink, RememberUnlink, HoldsOK, CopyBeforeUnlink, Settled
  <2>3. i \in Ids
    BY <2>1, <2>2 DEF AcceptedRecord, Record
  <2>4. inbox' = [inbox EXCEPT ![i] = NoFile] \/ UNCHANGED inbox
    BY <1>6, <2>1 DEF AcceptUnlink, RememberUnlink
  <2>5. UNCHANGED <<canon, archive>>
    BY <1>6 DEF AcceptUnlink, RememberUnlink
  <2>6. CASE inbox' = [inbox EXCEPT ![i] = NoFile]
    BY <1>1, <2>2, <2>3, <2>5, <2>6, InboxIsOverridden DEF Settled, Present
  <2>7. CASE UNCHANGED inbox
    BY <2>5, <2>7, FilesTellMemories DEF files
  <2>8. QED
    BY <2>4, <2>6, <2>7
<1>7. QED
  BY <1>3, <1>4, <1>5, <1>6

(* A step that writes or empties canon accepts, revives, promotes or        *)
(* archives a memory, or rewrites the file of one that stays accepted.      *)
LEMMA CanonSteps ==
  ASSUME TypeOK, CopyBeforeUnlink, Contents, Prunes, NEW p \in Procs,
         Accepts(p) \/ PromoteWrite(p) \/ PruneArchive(p) \/ PruneUnlink(p)
  PROVE  Turns(p) \/ Mem' = Mem
<1>. USE DEF CapturedSteps, AcceptedSteps, RememberSteps
<1>1. /\ FiledById /\ Agreed /\ Merited /\ Sourced /\ Carried(p) /\ HoldsOK(p)
      /\ PrunesSafely(p)
  BY DEF Contents, Prunes, TypeOK
<1>2. CASE Accepts(p) \/ PromoteWrite(p)
  <2>1. PICK x : x = rec[p]
    OBVIOUS
  <2>2. x \in AcceptedRecord /\ x \in Everywhere /\ x.id \in Ids
    <3>1. x \in AcceptedRecord
      BY <1>1, <1>2, <2>1 DEF Accepts, AcceptWrite, RememberCanon, PromoteWrite, HoldsOK
    <3>2. QED
      BY <2>1, <3>1, RecordsAreFiles DEF Everywhere, AcceptedRecord, Record
  <2>3. canon' = [canon EXCEPT ![x.id] = x] /\ UNCHANGED <<inbox, archive>>
    BY <1>2, <2>1 DEF Accepts, AcceptWrite, RememberCanon, PromoteWrite
  <2>4. CASE Accepts(p)
    <3>1. Present(x.id)
      BY <1>1, <2>1, <2>4 DEF Accepts, AcceptWrite, RememberCanon, Carried
    <3>2. \/ Mem' = Mem
          \/ Life!Accept(x.id)
          \/ Life!Revive(x.id) /\ archive[x.id] # NoFile
      BY <1>1, <2>2, <2>3, <3>1, CanonAccepts
    <3>3. QED
      BY <2>1, <2>2, <2>4, <3>2 DEF Turns
  <2>5. CASE PromoteWrite(p)
    <3>1. ~ Present(x.id) /\ x.scope = Global
      BY <1>1, <2>1, <2>5 DEF PromoteWrite, Carried, Own
    <3>2. x.source \in Ids /\ Settled(x.source) /\ Life!Promote(x.id, x.source)
      BY <1>1, <2>2, <2>3, <3>1, CanonPromotes
    <3>3. QED
      BY <2>1, <2>2, <2>5, <3>2 DEF Turns
  <2>6. QED
    BY <1>2, <2>4, <2>5
<1>3. CASE PruneArchive(p)
  <2>1. PICK a \in plan[p] : PruneArchive(p)!(a)
    BY <1>3 DEF PruneArchive
  <2>2. CASE canon[a.id] # NoFile
    <3>1. \A i \in Ids : archive'[i] = archive[i] \/ canon[i] # NoFile
      BY <2>1, <2>2 DEF TypeOK
    <3>2. UNCHANGED <<inbox, canon>>
      BY <2>1
    <3>3. QED
      BY <3>1, <3>2 DEF Mem, MemoryOf
  <2>3. CASE canon[a.id] = NoFile
    BY <2>1, <2>3, FilesTellMemories DEF files
  <2>4. QED
    BY <2>2, <2>3
<1>4. CASE PruneUnlink(p)
  BY <1>1, <1>4, PruneArchives DEF Turns
<1>5. QED
  BY <1>2, <1>3, <1>4

(* Any step of the store, as the memories see it.                           *)
LEMMA MemorySteps ==
  ASSUME TypeOK, CopyBeforeUnlink, Contents, Prunes, [Next]_vars
  PROVE  Captures \/ (\E p \in Procs : Turns(p)) \/ Mem' = Mem
<1>. SUFFICES ASSUME ~ UNCHANGED files
              PROVE  Captures \/ (\E p \in Procs : Turns(p)) \/ Mem' = Mem
  BY FilesTellMemories
<1>1. PICK p \in Procs : Begin(p) \/ Continue(p)
  BY DEF Next, vars, files, Tick, Stop
<1>2. CASE Begin(p)
  BY <1>2, InboxSteps DEF Begin, RememberStart, ScoreRead, AcceptRead, PromoteRead, PruneStart
<1>3. CASE Continue(p)
  BY <1>3, InboxSteps, CanonSteps
     DEF Continue, ScoreJudge, AcceptJudge, PromoteJudge, RememberAudit, Accepts
<1>4. QED
  BY <1>1, <1>2, <1>3

(* The store implements Lifecycle: whatever processes run, fail and crash,  *)
(* every step of the files is a capture, an acceptance, a promotion, an     *)
(* archival or a revival of one memory, or no step of any.                  *)
THEOREM StoreImplementsLifecycle == Spec => Lives
<1>1. Init => Life!Init
  BY DEF Init, Life!Init, MemoryOf
<1>2. Captures \/ (\E p \in Procs : Turns(p)) => Life!Next \/ Mem' = Mem
  BY DEF Captures, Turns, Life!Next, Mem
<1>3. TypeOK /\ CopyBeforeUnlink /\ Contents /\ Prunes /\ [Next]_vars
        => [Life!Next]_([i \in Ids |-> MemoryOf(i)])
  BY <1>2, MemorySteps DEF Mem
<1>4. QED
  BY TypeCorrect, UnlinksAreSafe, ContentsSound, PrunesAreSafe, <1>1, <1>3, PTL
     DEF Spec, Lives, Life!Spec
-----------------------------------------------------------------------------
(* One command at a time: what a command judged still holds when it writes, *)
(* so no two canon records duplicate each other, and there is nothing to    *)
(* prune.                                                                   *)

OneProcess == \A p, q \in Procs : p = q

(* No canon record of another id duplicates r. *)
Unlike(r) == \A s \in File(canon) : s.id # r.id => ~ StrongDuplicate(r, s)

Judged(p) ==
  /\ pc[p] \in {"acceptWrite", "rememberCanon", "promoteWrite"} => Unlike(rec[p])
  /\ pc[p] \in {"rememberInbox", "rememberScore"} /\ outcome[p] = "auto_accepted" =>
       Unlike(rec[p])

Alone ==
  /\ NoDuplicates
  /\ \A i \in Ids : archive[i] = NoFile
  /\ \A p \in Procs : pc[p] \notin PruneSteps /\ Judged(p)

(* Duplication goes both ways, and only within a scope.                     *)
LEMMA DuplicationIsMutual ==
  \A r, s : /\ StrongDuplicate(r, s) => StrongDuplicate(s, r)
            /\ StrongDuplicate(r, s) => r.scope = s.scope
BY DEF StrongDuplicate, SameProvenance

(* A record that was compared with the canon of its scope is unlike all.    *)
LEMMA ComparedIsUnlike ==
  ASSUME NEW r, ~ HasStrong(r, Canon(r.scope))
  PROVE  Unlike(r)
BY DuplicationIsMutual DEF HasStrong, Canon, Unlike

(* Being unlike is a matter of id, scope, source and note.                  *)
LEMMA UnlikeIsShared ==
  ASSUME NEW r, NEW s, Unlike(r), r.id = s.id,
         r.scope = s.scope, r.source = s.source, r.note = s.note
  PROVE  Unlike(s)
BY DEF Unlike, StrongDuplicate, SameProvenance

(* Scoring and accepting leave a record alike.                              *)
LEMMA StampsKeepAlike ==
  ASSUME NEW r \in Record, NEW known, NEW t, NEW how
  PROVE  Alike(Scored(r, known, t), r) /\ Alike(Accepted(r, how), r)
BY DEF Scored, Accepted, Alike, Record

(* What is written was compared with everything it will stand beside.       *)
LEMMA WritingKeepsUnlike ==
  ASSUME TypeOK, FiledById, NoDuplicates, NEW x \in AcceptedRecord, Unlike(x),
         canon' = [canon EXCEPT ![x.id] = x]
  PROVE  NoDuplicates'
<1>1. PICK i \in Ids : i = x.id
  BY DEF AcceptedRecord, Record
<1>2. \A r \in File(canon)' : r = x \/ (r \in File(canon) /\ r.id # i)
  BY <1>1 DEF File, FiledById, TypeOK
<1>3. \A r, s \in File(canon)' : r.id # s.id => ~ StrongDuplicate(r, s)
  BY <1>1, <1>2, DuplicationIsMutual DEF Unlike, NoDuplicates
<1>4. QED
  BY <1>3 DEF NoDuplicates

(* Where nothing duplicates anything, everything survives a prune.          *)
LEMMA NothingToPrune ==
  ASSUME TypeOK, FiledById, NoDuplicates, IsFiniteSet(File(canon)), NEW scopes
  PROVE  DuplicatesPlan(scopes) = {}
<1>1. PICK R : R = UNION {Canon(s) : s \in scopes}
  OBVIOUS
<1>2. R \subseteq File(canon)
  BY <1>1 DEF Canon
<1>3. IsFiniteSet(R) /\ Rankable(R)
  BY <1>2, FS_Subset, CanonIsRanked DEF Rankable
<1>4. \A r, s \in R : r.id = s.id => r = s
  BY <1>2 DEF File, FiledById
<1>5. Kernel(R, R)
  BY <1>2, <1>3, <1>4, BetterIsStrict DEF Kernel, NoDuplicates
<1>6. R = Survivors(R)
  BY <1>3, <1>5, SurvivorsDefined
<1>7. QED
  BY <1>1, <1>6 DEF DuplicatesPlan

(* A judgement that ends in a write found the record unlike all of canon.   *)
LEMMA JudgingFindsUnlike ==
  ASSUME TypeOK, FiledById, Agreed, NEW p \in Procs, Carried(p),
         \/ \E i \in Ids, w \in Workspaces, n \in Notes, pol \in Policies :
              RememberStart(p, i, w, n, pol)
         \/ AcceptJudge(p) \/ \E g \in Ids : PromoteJudge(p, g)
  PROVE  Judged(p)'
<1>0. ASSUME NEW r, Unlike(r), UNCHANGED canon
      PROVE  Unlike(r)'
  BY <1>0 DEF Unlike, File
<1>1. ASSUME NEW i \in Ids, NEW w \in Workspaces, NEW n \in Notes, NEW pol \in Policies,
             RememberStart(p, i, w, n, pol)
      PROVE  Judged(p)'
  <2>1. PICK new : new = NewRecord(i, w, n)
    OBVIOUS
  <2>2. new \in CapturedRecord /\ new \in Record /\ new.scope = w
    BY <2>1, NewRecordHasType DEF NewRecord, CapturedRecord
  <2>3. PICK x : x = Scored(new, Canon(w), now)
    OBVIOUS
  <2>4. rec'[p] = x /\ Alike(x, new) /\ UNCHANGED canon
    BY <1>1, <2>1, <2>2, <2>3, StampsKeepAlike DEF RememberStart, Hold, TypeOK, files
  <2>5. ASSUME outcome'[p] = "auto_accepted"
        PROVE  ~ HasStrong(new, Canon(new.scope))
    BY <1>1, <2>1, <2>2, <2>5 DEF RememberStart, Verdict, TypeOK
  <2>6. ASSUME outcome'[p] = "auto_accepted"
        PROVE  Unlike(rec[p])'
    <3>1. Unlike(new)
      BY <2>5, <2>6, ComparedIsUnlike
    <3>2. Unlike(x)
      BY <2>4, <3>1, UnlikeIsShared DEF Alike
    <3>3. Unlike(x)'
      BY <1>0, <2>4, <3>2
    <3>4. QED
      BY <2>4, <3>3 DEF Unlike
  <2>7. pc'[p] \in {"rememberInbox", "rememberAudit"}
    BY <1>1 DEF RememberStart, Goto, TypeOK
  <2>8. QED
    BY <2>6, <2>7 DEF Judged
<1>2. CASE AcceptJudge(p)
  <2>1. CASE Done(p)
    BY <2>1 DEF Done, Goto, Judged, TypeOK
  <2>2. CASE ~ Done(p)
    <3>1. PICK r : r = rec[p]
      OBVIOUS
    <3>2. r \in CapturedRecord /\ r \in Record
      BY <1>2, <3>1 DEF AcceptJudge, TypeOK, HoldsOK, CapturedSteps, CapturedRecord
    <3>3. PICK s, x : s = Scored(r, Canon(r.scope), r.at) /\ x = Accepted(s, "manual")
      OBVIOUS
    <3>4. /\ Retainable(r.note, HasStrong(r, Canon(r.scope)), HasNear(r, Canon(r.scope)))
          /\ rec'[p] = x /\ pc'[p] = "acceptWrite" /\ UNCHANGED canon
      BY <1>2, <2>2, <3>1, <3>3 DEF AcceptJudge, Hold, Goto, TypeOK, files
    <3>5. Unlike(r)
      BY <3>4, ComparedIsUnlike DEF Retainable, Disqualified
    <3>6. Alike(s, r) /\ s \in Record
      BY <3>2, <3>3, StampsKeepAlike, ScoredKeepsType DEF Record
    <3>7. Alike(x, s)
      BY <3>3, <3>6, StampsKeepAlike
    <3>8. Unlike(x)
      BY <3>5, <3>6, <3>7, UnlikeIsShared DEF Alike
    <3>9. Unlike(x)'
      BY <1>0, <3>4, <3>8
    <3>10. QED
      BY <3>4, <3>9 DEF Judged, Unlike
  <2>3. QED
    BY <2>1, <2>2
<1>3. ASSUME NEW g \in Ids, PromoteJudge(p, g)
      PROVE  Judged(p)'
  <2>1. CASE Done(p)
    BY <2>1 DEF Done, Goto, Judged, TypeOK
  <2>2. CASE ~ Done(p)
    <3>1. PICK r, b : r = rec[p] /\ b = Provisional(r)
      OBVIOUS
    <3>2. r \in AcceptedRecord /\ r \in Record /\ r # NoFile
      BY <1>3, <3>1, RecordsAreFiles DEF PromoteJudge, TypeOK, HoldsOK, AcceptedSteps, AcceptedRecord
    <3>3. PICK x : x = Promoted(r, g, HasStrong(b, Canon(Global)), HasNear(b, Canon(Global)))
      OBVIOUS
    <3>4. /\ ~ HasStrong(b, Canon(Global)) /\ Fresh(g)
          /\ rec'[p] = x /\ pc'[p] = "promoteWrite" /\ UNCHANGED canon
      BY <1>3, <2>2, <3>1, <3>3 DEF PromoteJudge, Promotable, Disqualified, Hold, Goto, TypeOK, files
    <3>5. /\ b.id = r.id /\ b.scope = Global /\ b.source = r.id /\ b.note = r.note
          /\ x.id = g /\ x.scope = Global /\ x.source = r.id /\ x.note = r.note
      BY <3>1, <3>2, <3>3 DEF Provisional, Promoted, Record
    <3>6. r.scope # Global
      BY <1>3, <3>1 DEF PromoteJudge, Carried
    <3>7. ASSUME NEW s \in File(canon), StrongDuplicate(x, s)
          PROVE  FALSE
      <4>1. s.scope = Global /\ StrongDuplicate(b, s)
        BY <3>5, <3>7 DEF StrongDuplicate, SameProvenance
      <4>2. s \in Everywhere /\ r \in Everywhere
        BY <3>1, <3>2 DEF Everywhere, Files
      <4>3. s.id # r.id
        BY <3>6, <4>1, <4>2 DEF Agreed, Alike
      <4>4. s \in Canon(Global)
        BY <4>1 DEF Canon
      <4>5. QED
        BY <3>4, <3>5, <4>1, <4>3, <4>4 DEF HasStrong
    <3>8. Unlike(x)
      BY <3>7 DEF Unlike
    <3>9. Unlike(x)'
      BY <1>0, <3>4, <3>8
    <3>10. QED
      BY <3>4, <3>9 DEF Judged, Unlike
  <2>3. QED
    BY <2>1, <2>2
<1>4. QED
  BY <1>1, <1>2, <1>3

(* Every step of the only process keeps it so.                              *)
LEMMA MovesStayAlone ==
  ASSUME OneProcess, TypeOK, Contents, Prunes, Alone, NEW p \in Procs, Moves(p)
  PROVE  Alone'
<1>1. /\ FiledById /\ Agreed /\ Carried(p) /\ IsFiniteSet(File(canon)) /\ HoldsOK(p)
      /\ NoDuplicates /\ pc[p] \notin PruneSteps /\ Judged(p) /\ \A i \in Ids : archive[i] = NoFile
  BY DEF Contents, Prunes, Alone, TypeOK
<1>2. ASSUME NoDuplicates', UNCHANGED archive, Judged(p)', pc'[p] \notin PruneSteps
      PROVE  Alone'
  BY <1>1, <1>2 DEF OneProcess, Alone
<1>3. ASSUME UNCHANGED canon
      PROVE  /\ NoDuplicates'
             /\ \A r : Unlike(r) => Unlike(r)'
  BY <1>1, <1>3 DEF NoDuplicates, Unlike, File
<1>4. ASSUME pc'[p] \in {"idle", "acceptUnlink", "rememberUnlink", "rememberAudit",
                         "scoreJudge", "scoreWrite", "acceptJudge", "promoteJudge"}
      PROVE  Judged(p)' /\ pc'[p] \notin PruneSteps
  BY <1>4 DEF Judged, PruneSteps
<1>5. CASE \E i \in Ids, w \in Workspaces, n \in Notes, pol \in Policies :
             RememberStart(p, i, w, n, pol)
  <2>1. /\ UNCHANGED <<canon, archive>>
        /\ pc'[p] \notin PruneSteps
    BY <1>5 DEF RememberStart, Goto, TypeOK, PruneSteps, files
  <2>2. Judged(p)'
    BY <1>1, <1>5, JudgingFindsUnlike
  <2>3. QED
    BY <1>2, <1>3, <2>1, <2>2
<1>6. CASE AcceptJudge(p) \/ \E g \in Ids : PromoteJudge(p, g)
  <2>1. UNCHANGED <<canon, archive>> /\ pc'[p] \notin PruneSteps
    BY <1>6 DEF AcceptJudge, PromoteJudge, Goto, Done, TypeOK, PruneSteps, files
  <2>2. Judged(p)'
    BY <1>1, <1>6, JudgingFindsUnlike
  <2>3. QED
    BY <1>2, <1>3, <2>1, <2>2
<1>7. CASE \E scopes \in PruneScopes : PruneStart(p, scopes)
  BY <1>1, <1>7, NothingToPrune DEF PruneStart
<1>8. CASE PruneArchive(p) \/ PruneUnlink(p)
  BY <1>1, <1>8 DEF PruneArchive, PruneUnlink, PruneSteps
<1>9. CASE AcceptWrite(p) \/ RememberCanon(p) \/ PromoteWrite(p)
  <2>1. PICK x : x = rec[p]
    OBVIOUS
  <2>2. x \in AcceptedRecord /\ Unlike(x)
    BY <1>1, <1>9, <2>1
       DEF AcceptWrite, RememberCanon, PromoteWrite, HoldsOK, AcceptedSteps, Judged
  <2>3. canon' = [canon EXCEPT ![x.id] = x] /\ UNCHANGED archive
    BY <1>9, <2>1 DEF AcceptWrite, RememberCanon, PromoteWrite
  <2>4. NoDuplicates'
    BY <1>1, <2>2, <2>3, WritingKeepsUnlike
  <2>5. pc'[p] \in {"idle", "acceptUnlink", "rememberUnlink"}
    BY <1>9 DEF AcceptWrite, RememberCanon, PromoteWrite, Goto, Done, TypeOK
  <2>6. QED
    BY <1>2, <1>4, <2>3, <2>4, <2>5
<1>10. CASE RememberInbox(p)
  <2>1. /\ UNCHANGED <<canon, archive, rec, outcome>>
        /\ pc[p] = "rememberInbox" /\ pc'[p] = "rememberScore"
    BY <1>10 DEF RememberInbox, Goto, TypeOK
  <2>2. PICK x : x = rec[p]
    OBVIOUS
  <2>3. outcome[p] = "auto_accepted" => Unlike(x)
    BY <1>1, <2>1, <2>2 DEF Judged
  <2>4. outcome[p] = "auto_accepted" => Unlike(x)'
    BY <1>3, <2>1, <2>3
  <2>5. QED
    BY <1>2, <1>3, <2>1, <2>2, <2>4 DEF Judged, PruneSteps, Unlike
<1>11. CASE RememberScore(p)
  <2>1. PICK x, y : x = rec[p] /\ y = Accepted(x, "policy")
    OBVIOUS
  <2>2. UNCHANGED <<canon, archive>> /\ pc[p] = "rememberScore" /\ x \in Record
    BY <1>1, <1>11, <2>1 DEF RememberScore, HoldsOK, CapturedSteps, CapturedRecord
  <2>3. \/ pc'[p] = "rememberAudit"
        \/ pc'[p] = "rememberCanon" /\ outcome[p] = "auto_accepted" /\ rec'[p] = y
    BY <1>11, <2>1 DEF RememberScore, Goto, Hold, TypeOK
  <2>4. CASE pc'[p] = "rememberAudit"
    BY <1>2, <1>3, <1>4, <2>2, <2>4
  <2>5. CASE pc'[p] = "rememberCanon" /\ outcome[p] = "auto_accepted" /\ rec'[p] = y
    <3>1. Unlike(x)
      BY <1>1, <2>1, <2>2, <2>5 DEF Judged
    <3>2. Unlike(y)
      BY <2>1, <2>2, <3>1, StampsKeepAlike, UnlikeIsShared DEF Alike
    <3>3. Unlike(y)'
      BY <1>3, <2>2, <3>2
    <3>4. QED
      BY <1>2, <1>3, <2>2, <2>5, <3>3 DEF Judged, PruneSteps, Unlike
  <2>6. QED
    BY <2>3, <2>4, <2>5
<1>12. CASE \E i \in Ids : ScoreRead(p, i) \/ AcceptRead(p, i) \/ PromoteRead(p, i)
  <2>1. /\ UNCHANGED <<canon, archive>>
        /\ pc'[p] \in {"scoreJudge", "acceptJudge", "promoteJudge"}
    BY <1>12 DEF ScoreRead, AcceptRead, PromoteRead, Goto, TypeOK, files
  <2>2. QED
    BY <1>2, <1>3, <1>4, <2>1
<1>13. CASE \E i \in Ids, w \in Workspaces, n \in Notes : Capture(p, i, w, n)
  <2>1. UNCHANGED <<canon, archive>> /\ pc'[p] = "idle"
    BY <1>13 DEF Capture
  <2>2. QED
    BY <1>2, <1>3, <1>4, <2>1
<1>14. CASE ScoreJudge(p) \/ ScoreWrite(p) \/ AcceptUnlink(p) \/ RememberUnlink(p)
            \/ RememberAudit(p) \/ Stop(p)
  <2>1. /\ UNCHANGED <<canon, archive>>
        /\ pc'[p] \in {"scoreWrite", "idle", "rememberAudit"}
    BY <1>14 DEF ScoreJudge, ScoreWrite, AcceptUnlink, RememberUnlink, RememberAudit, Stop, Goto, Done, TypeOK, files
  <2>2. QED
    BY <1>2, <1>3, <1>4, <2>1
<1>15. QED
  BY <1>5, <1>6, <1>7, <1>8, <1>9, <1>10, <1>11, <1>12, <1>13, <1>14
     DEF Moves, Begin, Continue

(* Commands that run one at a time, and may fail or be killed anywhere,     *)
(* never let two canon records of a scope be strong duplicates, and leave   *)
(* nothing to prune.                                                        *)
THEOREM OneProcessIsAlone ==
  ASSUME OneProcess
  PROVE  Spec => []Alone
<1>1. Init => Alone
  <2>1. Init => File(canon) = {}
    BY DEF Init, File
  <2>2. QED
    BY <2>1 DEF Init, Alone, NoDuplicates, Judged, PruneSteps
<1>2. TypeOK /\ Contents /\ Prunes /\ Alone /\ [Next]_vars => Alone'
  <2>. SUFFICES ASSUME TypeOK, Contents, Prunes, Alone, [Next]_vars
                PROVE  Alone'
    OBVIOUS
  <2>1. CASE Tick \/ UNCHANGED vars
    <3>1. UNCHANGED <<canon, archive, pc, rec, outcome>>
      BY <2>1 DEF Tick, vars, files
    <3>2. QED
      BY <3>1 DEF Alone, NoDuplicates, Judged, Unlike, File
  <2>2. QED
    BY <2>1, MovesStayAlone DEF Next, Moves
<1>3. QED
  BY TypeCorrect, ContentsSound, PrunesAreSafe, <1>1, <1>2, PTL DEF Spec

(* The corollary for the property the sequential run checks.                *)
THEOREM OneProcessNeverDuplicates ==
  ASSUME OneProcess
  PROVE  Spec => []NoDuplicates
<1>1. Alone => NoDuplicates
  BY DEF Alone
<1>2. QED
  BY OneProcessIsAlone, <1>1, PTL
-----------------------------------------------------------------------------
(* One command at a time keeps the strict promise.                          *)

(* A memory that some accepted one duplicates, seen from the files.         *)
LEMMA UnlikeIsNotDuplicated ==
  ASSUME TypeOK, FiledById, NEW i \in Ids, NEW x, Unlike(x), x.id = i,
         NEW m, m.scope = x.scope, m.source = x.source, m.note = x.note
  PROVE  ~ Life!Duplicated(i, m)
<1>. SUFFICES ASSUME NEW j \in Ids \ {i}, Life!Is(j, "accepted"),
                     Life!StrongDuplicate(Mem[j], m)
              PROVE  FALSE
  BY DEF Life!Duplicated, Mem
<1>1. Mem[j].status = "accepted" /\ Mem[j] # NoFile
  BY DEF Life!Is, Life!Known, Mem
<1>2. canon[j] # NoFile /\ Mem[j] = View("accepted", canon[j])
  BY <1>1 DEF Mem, MemoryOf, View
<1>3. StrongDuplicate(Mem[j], m)
  BY SameReading
<1>4. StrongDuplicate(x, canon[j])
  BY <1>2, <1>3 DEF View, StrongDuplicate, SameProvenance
<1>5. QED
  BY <1>2, <1>4 DEF Unlike, File, FiledById

(* Commands that run one at a time, and may fail or be killed anywhere,     *)
(* keep the strict promise: they accept and promote only what duplicates    *)
(* nothing accepted, promote only what is accepted itself, and revive       *)
(* nothing.                                                                 *)
THEOREM OneProcessLivesStrictly ==
  ASSUME OneProcess
  PROVE  Spec => LivesStrictly
<1>1. Init => Life!Init
  BY DEF Init, Life!Init, MemoryOf
<1>2. ASSUME TypeOK, Contents, Alone, NEW p \in Procs, Turns(p)
      PROVE  Life!StrictNext \/ Mem' = Mem
  <2>. SUFFICES ASSUME Mem' # Mem
                PROVE  Life!StrictNext
    OBVIOUS
  <2>1. PICK x : x = rec[p]
    OBVIOUS
  <2>2. /\ FiledById /\ Agreed /\ Sourced /\ Carried(p) /\ HoldsOK(p) /\ Judged(p)
        /\ pc[p] \notin PruneSteps /\ \A i \in Ids : archive[i] = NoFile
    BY <1>2 DEF Contents, Alone, TypeOK
  <2>3. ASSUME rec[p] \in AcceptedRecord
        PROVE  x \in Everywhere /\ x.id \in Ids
    BY <2>1, <2>3, RecordsAreFiles DEF Everywhere, AcceptedRecord, Record
  <2>4. CASE Accepts(p) /\ x.id \in Ids /\ Life!Accept(x.id)
    <3>1. PICK i \in Ids : i = x.id
      BY <2>4
    <3>2. Unlike(x) /\ Present(i) /\ x \in Everywhere
      BY <2>1, <2>2, <2>3, <2>4, <3>1
         DEF Accepts, AcceptWrite, RememberCanon, Judged, Carried, HoldsOK, AcceptedSteps
    <3>3. PICK m : m = Mem[i]
      OBVIOUS
    <3>4. m = View(StatusOf(i), x)
      BY <2>2, <3>1, <3>2, <3>3, MemoryIs DEF Mem
    <3>5. ~ Life!Duplicated(i, m)
      BY <1>2, <2>2, <3>1, <3>2, <3>4, UnlikeIsNotDuplicated DEF View
    <3>6. Life!Accept(i) /\ ~ Life!Duplicated(i, Mem[i])
      BY <2>4, <3>1, <3>3, <3>5
    <3>7. QED
      BY <3>6 DEF Life!StrictNext, Mem
  <2>5. CASE /\ PromoteWrite(p) /\ x.id \in Ids /\ x.source \in Ids
             /\ Settled(x.source) /\ Life!Promote(x.id, x.source)
    <3>1. PICK g \in Ids, i \in Ids : g = x.id /\ i = x.source
      BY <2>5
    <3>2. Unlike(x) /\ x \in Everywhere /\ x.scope = Global
      BY <2>1, <2>2, <2>3, <2>5
         DEF PromoteWrite, Judged, Carried, HoldsOK, AcceptedSteps
    <3>3. canon[i] # NoFile
      BY <2>2, <2>5, <3>1 DEF Settled
    <3>4. canon[i] \in Everywhere /\ canon[i].id = i
      BY <2>2, <3>3 DEF Everywhere, Files, File, FiledById
    <3>5. canon[i].note = x.note
      BY <2>2, <3>1, <3>2, <3>4 DEF Sourced
    <3>6. Mem[i] = View("accepted", canon[i]) /\ Mem[i] # NoFile
      BY <1>2, <2>2, <3>3, MemoryThere DEF Mem, MemoryOf, View, Present
    <3>7. PICK m : m = Mem'[g]
      OBVIOUS
    <3>8. Mem' = [Mem EXCEPT ![g] = Life!Memory("accepted", Life!Global, Mem[i].note, i)]
      BY <2>5, <3>1 DEF Life!Promote, Mem
    <3>9. m = Life!Memory("accepted", Life!Global, Mem[i].note, i)
      BY <3>7, <3>8 DEF Mem
    <3>10. m.scope = x.scope /\ m.source = x.source /\ m.note = x.note
      BY <3>1, <3>2, <3>5, <3>6, <3>9, SameReading DEF Life!Memory, View
    <3>11. ~ Life!Duplicated(g, m)
      BY <1>2, <2>2, <3>1, <3>2, <3>10, UnlikeIsNotDuplicated
    <3>12. Life!Is(i, "accepted")
      BY <3>6 DEF Life!Is, Life!Known, View, Mem
    <3>13. Life!Promote(g, i) /\ Life!Is(i, "accepted") /\ ~ Life!Duplicated(g, Mem'[g])
      BY <2>5, <3>1, <3>7, <3>11, <3>12
    <3>14. QED
      BY <3>13 DEF Life!StrictNext, Mem
  <2>6. ~ PruneUnlink(p)
    BY <2>2 DEF PruneUnlink, PruneSteps
  <2>7. QED
    BY <1>2, <2>1, <2>2, <2>4, <2>5, <2>6 DEF Turns
<1>3. TypeOK /\ CopyBeforeUnlink /\ Contents /\ Prunes /\ Alone /\ [Next]_vars
        => [Life!StrictNext]_([i \in Ids |-> MemoryOf(i)])
  <2>1. Captures => Life!StrictNext \/ Mem' = Mem
    BY DEF Captures, Life!StrictNext, Mem
  <2>2. QED
    BY <1>2, <2>1, MemorySteps DEF Mem
<1>4. QED
  BY TypeCorrect, UnlinksAreSafe, ContentsSound, PrunesAreSafe, OneProcessIsAlone, <1>1, <1>3,
     PTL DEF Spec, LivesStrictly, Life!StrictSpec
-----------------------------------------------------------------------------
(* What the audit log owes.                                                 *)

(* How each remember, accept and promote accepts, and what it will report.  *)
Owes(p) ==
  /\ pc[p] \in {"acceptWrite", "promoteWrite"} => rec[p].mode = "manual"
  /\ pc[p] \in {"rememberInbox", "rememberScore"} => rec[p].mode = "none"
  /\ pc[p] \in {"rememberCanon", "rememberUnlink"} =>
       outcome[p] = "auto_accepted" /\ rec[p].mode = "policy"
  /\ pc[p] = "rememberAudit" /\ rec[p].mode = "policy" => outcome[p] = "auto_accepted"

(* The candidate of a remember that accepts is there to be unlinked. *)
Queued(p) ==
  pc[p] \in {"rememberCanon", "rememberUnlink"} => inbox[rec[p].id] # NoFile \/ rec[p].id \in lapsed

(* No two remembers work on the same id. *)
Apart ==
  \A p, q \in Procs :
    p # q /\ pc[p] \in RememberSteps /\ pc[q] \in RememberSteps => rec[p].id # rec[q].id

Owed == AuditComplete /\ Apart /\ \A p \in Procs : Owes(p) /\ Queued(p)

(* What p holds at a step is a record with an id. *)
LEMMA HeldRecords ==
  ASSUME TypeOK, NEW p \in Procs,
         pc[p] \in CapturedSteps \cup AcceptedSteps \cup RememberSteps
  PROVE  rec[p] \in Record /\ rec[p] # NoFile /\ rec[p].id \in Ids
BY RecordsAreFiles DEF TypeOK, HoldsOK, CapturedSteps, AcceptedSteps, RememberSteps,
   CapturedRecord, AcceptedRecord, Record

(* A command that goes on, or ends, still reports what it does.             *)
LEMMA OwesItsOwn ==
  ASSUME TypeOK, NEW p \in Procs, Owes(p), Moves(p)
  PROVE  Owes(p)'
<1>. DEFINE Quiet == {"idle", "scoreJudge", "scoreWrite", "acceptJudge", "acceptUnlink",
                      "promoteJudge", "pruneArchive", "pruneUnlink"}
<1>1. ASSUME pc'[p] \in Quiet
      PROVE  Owes(p)'
  BY <1>1 DEF Owes
<1>2. CASE \E i \in Ids, w \in Workspaces, n \in Notes, pol \in Policies :
             RememberStart(p, i, w, n, pol)
  <2>1. PICK i \in Ids, w \in Workspaces, n \in Notes, pol \in Policies :
               RememberStart(p, i, w, n, pol)
    BY <1>2
  <2>2. PICK new : new = NewRecord(i, w, n)
    OBVIOUS
  <2>3. new \in Record /\ new.mode = "none"
    BY <2>2, NewRecordHasType DEF NewRecord, CapturedRecord
  <2>4. PICK x : x = Scored(new, Canon(w), now)
    OBVIOUS
  <2>5. x.mode = "none"
    BY <2>3, <2>4 DEF Scored, Record
  <2>6. rec'[p] = x /\ pc'[p] \in {"rememberInbox", "rememberAudit"}
    BY <2>1, <2>2, <2>4 DEF RememberStart, Hold, Goto, TypeOK
  <2>7. QED
    BY <2>5, <2>6 DEF Owes
<1>3. CASE \/ \E i \in Ids : \/ \E w \in Workspaces, n \in Notes : Capture(p, i, w, n)
                            \/ ScoreRead(p, i) \/ AcceptRead(p, i) \/ PromoteRead(p, i)
           \/ \E scopes \in PruneScopes : PruneStart(p, scopes)
  <2>1. pc[p] = "idle" /\ (pc' = pc \/ \E to \in Quiet : Goto(p, to))
    BY <1>3 DEF Capture, ScoreRead, AcceptRead, PromoteRead, PruneStart
  <2>2. pc'[p] \in Quiet
    BY <2>1 DEF Goto, TypeOK
  <2>3. QED
    BY <1>1, <2>2
<1>4. CASE ScoreJudge(p) \/ ScoreWrite(p) \/ AcceptWrite(p) \/ AcceptUnlink(p)
           \/ PromoteWrite(p) \/ RememberAudit(p) \/ PruneUnlink(p) \/ Stop(p)
  <2>1. pc'[p] \in Quiet
    BY <1>4 DEF ScoreJudge, ScoreWrite, AcceptWrite, AcceptUnlink, PromoteWrite, RememberAudit,
       PruneUnlink, Stop, Goto, Done, TypeOK
  <2>2. QED
    BY <1>1, <2>1
<1>5. CASE PruneArchive(p)
  <2>1. pc'[p] \in Quiet
    BY <1>5 DEF PruneArchive, Goto, Done, TypeOK
  <2>2. QED
    BY <1>1, <2>1
<1>6. CASE AcceptJudge(p)
  <2>1. \/ pc'[p] = "idle"
        \/ /\ pc'[p] = "acceptWrite"
           /\ rec'[p] = Accepted(Scored(rec[p], Canon(rec[p].scope), rec[p].at), "manual")
    BY <1>6 DEF AcceptJudge, Goto, Hold, Done, TypeOK
  <2>2. rec[p] \in Record
    BY <1>6, HeldRecords DEF AcceptJudge, CapturedSteps
  <2>3. pc'[p] = "acceptWrite" => rec'[p].mode = "manual"
    BY <2>1, <2>2 DEF Accepted, Scored, Record
  <2>4. QED
    BY <2>1, <2>3 DEF Owes
<1>7. CASE \E g \in Ids : PromoteJudge(p, g)
  <2>1. PICK g \in Ids : PromoteJudge(p, g)
    BY <1>7
  <2>2. PICK strong, near : /\ strong = HasStrong(Provisional(rec[p]), Canon(Global))
                            /\ near = HasNear(Provisional(rec[p]), Canon(Global))
    OBVIOUS
  <2>3. \/ pc'[p] = "idle"
        \/ pc'[p] = "promoteWrite" /\ rec'[p] = Promoted(rec[p], g, strong, near)
    BY <2>1, <2>2 DEF PromoteJudge, Goto, Hold, Done, TypeOK
  <2>4. rec[p] \in Record
    BY <2>1, HeldRecords DEF PromoteJudge, AcceptedSteps
  <2>5. pc'[p] = "promoteWrite" => rec'[p].mode = "manual"
    BY <2>3, <2>4 DEF Promoted, Provisional, Record
  <2>6. QED
    BY <2>3, <2>5 DEF Owes
<1>8. CASE RememberInbox(p) \/ RememberCanon(p)
  <2>1. /\ UNCHANGED <<rec, outcome>>
        /\ \/ pc[p] = "rememberInbox" /\ pc'[p] = "rememberScore"
           \/ pc[p] = "rememberCanon" /\ pc'[p] = "rememberUnlink"
    BY <1>8 DEF RememberInbox, RememberCanon, Goto, TypeOK
  <2>2. QED
    BY <2>1 DEF Owes
<1>9. CASE RememberScore(p)
  <2>1. PICK x : x = rec[p]
    OBVIOUS
  <2>2. x \in Record /\ x.mode = "none"
    BY <1>9, <2>1, HeldRecords DEF RememberScore, RememberSteps, Owes
  <2>3. \/ /\ outcome'[p] = "auto_accepted" /\ pc'[p] = "rememberCanon"
           /\ rec'[p] = Accepted(x, "policy")
        \/ pc'[p] = "rememberAudit" /\ rec'[p] = x
    BY <1>9, <2>1 DEF RememberScore, Goto, Hold, TypeOK
  <2>4. Accepted(x, "policy").mode = "policy"
    BY <2>2 DEF Accepted, Record
  <2>5. QED
    BY <2>2, <2>3, <2>4 DEF Owes
<1>10. CASE RememberUnlink(p)
  <2>1. \/ pc'[p] = "idle"
        \/ /\ pc'[p] = "rememberAudit" /\ pc[p] = "rememberUnlink"
           /\ outcome' = outcome /\ rec' = rec
    BY <1>10 DEF RememberUnlink, Goto, Done, TypeOK
  <2>2. QED
    BY <2>1 DEF Owes
<1>11. QED
  BY <1>2, <1>3, <1>4, <1>5, <1>6, <1>7, <1>8, <1>9, <1>10 DEF Moves, Begin, Continue

(* A remember keeps the id it took, which nobody else had.                  *)
LEMMA RememberKeepsId ==
  ASSUME TypeOK, NEW p \in Procs, Moves(p), pc'[p] \in RememberSteps
  PROVE  \/ pc[p] \in RememberSteps /\ rec'[p].id = rec[p].id
         \/ \A q \in Procs : rec[q] # NoFile => rec[q].id # rec'[p].id
<1>. USE DEF RememberSteps
<1>1. CASE \E i \in Ids, w \in Workspaces, n \in Notes, pol \in Policies :
             RememberStart(p, i, w, n, pol)
  <2>1. PICK i \in Ids, w \in Workspaces, n \in Notes, pol \in Policies :
               RememberStart(p, i, w, n, pol)
    BY <1>1
  <2>2. PICK new : new = NewRecord(i, w, n)
    OBVIOUS
  <2>3. new \in Record /\ new.id = i
    BY <2>2, NewRecordHasType DEF NewRecord, CapturedRecord
  <2>4. PICK x : x = Scored(new, Canon(w), now)
    OBVIOUS
  <2>5. x.id = i
    BY <2>3, <2>4 DEF Scored, Record
  <2>6. rec'[p] = x /\ Fresh(i)
    BY <2>1, <2>2, <2>4 DEF RememberStart, Hold, TypeOK
  <2>7. QED
    BY <2>5, <2>6 DEF Fresh
<1>2. CASE ~ \E i \in Ids, w \in Workspaces, n \in Notes, pol \in Policies :
               RememberStart(p, i, w, n, pol)
  <2>1. ~ Begin(p)
    BY <1>2 DEF Begin, Capture, ScoreRead, AcceptRead, PromoteRead, PruneStart, Goto, TypeOK
  <2>2. ~ PruneArchive(p)
    BY DEF PruneArchive, Goto, Done, TypeOK
  <2>3. RememberInbox(p) \/ RememberScore(p) \/ RememberCanon(p) \/ RememberUnlink(p)
    BY <2>1, <2>2 DEF Moves, Continue, ScoreJudge, ScoreWrite, AcceptJudge, AcceptWrite,
       AcceptUnlink, RememberAudit, PromoteJudge, PromoteWrite, PruneUnlink, Stop,
       Goto, Done, TypeOK
  <2>4. pc[p] \in RememberSteps
    BY <2>3 DEF RememberInbox, RememberScore, RememberCanon, RememberUnlink
  <2>5. rec[p] \in Record
    BY <2>4, HeldRecords
  <2>6. rec'[p] = rec[p] \/ rec'[p] = Accepted(rec[p], "policy")
    BY <2>3, <2>4 DEF RememberInbox, RememberScore, RememberCanon, RememberUnlink, Goto, Done,
       Hold, TypeOK
  <2>7. rec'[p].id = rec[p].id
    BY <2>5, <2>6 DEF Accepted, Record
  <2>8. QED
    BY <2>4, <2>7
<1>3. QED
  BY <1>1, <1>2

LEMMA MovesStayApart ==
  ASSUME TypeOK, Apart, NEW p \in Procs, Moves(p)
  PROVE  Apart'
<1>1. ASSUME NEW q \in Procs \ {p}, pc'[p] \in RememberSteps, pc'[q] \in RememberSteps
      PROVE  rec'[p].id # rec'[q].id
  <2>1. pc'[q] = pc[q] /\ rec'[q] = rec[q]
    BY OthersHoldStill DEF Moves
  <2>2. rec[q] # NoFile
    BY <1>1, <2>1, HeldRecords
  <2>3. QED
    BY <1>1, <2>1, <2>2, RememberKeepsId DEF Apart
<1>2. ASSUME NEW q \in Procs \ {p}, NEW o \in Procs \ {p}
      PROVE  /\ pc'[q] = pc[q] /\ rec'[q] = rec[q]
             /\ pc'[o] = pc[o] /\ rec'[o] = rec[o]
  BY OthersHoldStill DEF Moves
<1>3. QED
  BY <1>1, <1>2 DEF Apart

(* Only an unlink takes a candidate from the inbox, its own one.            *)
LEMMA CandidatesLeave ==
  ASSUME TypeOK, NEW p \in Procs, Moves(p), NEW i \in Ids, inbox[i] # NoFile, inbox'[i] = NoFile
  PROVE  (AcceptUnlink(p) \/ RememberUnlink(p)) /\ rec[p].id = i
<1>1. CASE AcceptUnlink(p) \/ RememberUnlink(p)
  BY <1>1 DEF AcceptUnlink, RememberUnlink, TypeOK
<1>2. CASE ScoreWrite(p) \/ RememberInbox(p) \/ RememberScore(p)
  <2>1. rec[p] \in CapturedRecord
    BY <1>2 DEF ScoreWrite, RememberInbox, RememberScore, TypeOK, HoldsOK, CapturedSteps
  <2>2. PICK x : x = rec[p]
    OBVIOUS
  <2>3. [x EXCEPT !.score = NoScore] \in CapturedRecord
    BY <2>1, <2>2 DEF CapturedRecord, Record, NoScore, Scores
  <2>4. x \in CapturedRecord
    BY <2>1, <2>2
  <2>5. \E y \in CapturedRecord : inbox' = [inbox EXCEPT ![x.id] = y]
    BY <1>2, <2>2, <2>3, <2>4 DEF ScoreWrite, RememberInbox, RememberScore
  <2>6. QED
    BY <2>5, RecordsAreFiles DEF TypeOK
<1>3. CASE \E j \in Ids, w \in Workspaces, n \in Notes : Capture(p, j, w, n)
  <2>1. PICK j \in Ids, w \in Workspaces, n \in Notes : Capture(p, j, w, n)
    BY <1>3
  <2>2. NewRecord(j, w, n) # NoFile
    BY NewRecordHasType, RecordsAreFiles
  <2>3. PICK y : y = NewRecord(j, w, n)
    OBVIOUS
  <2>4. inbox' = [inbox EXCEPT ![j] = y] /\ y # NoFile
    BY <2>1, <2>2, <2>3 DEF Capture
  <2>5. QED
    BY <2>4 DEF TypeOK
<1>4. CASE UNCHANGED inbox
  BY <1>4
<1>5. QED
  BY <1>1, <1>2, <1>3, <1>4 DEF Moves, Begin, Continue, RememberStart, ScoreRead, AcceptRead,
     PromoteRead, PruneStart, ScoreJudge, AcceptJudge, AcceptWrite, RememberCanon, RememberAudit,
     PromoteJudge, PromoteWrite, PruneArchive, PruneUnlink, Stop, files

(* What has lapsed has lapsed, and events stay.                             *)
LEMMA NothingForgotten ==
  ASSUME NEW p \in Procs, Moves(p)
  PROVE  lapsed \subseteq lapsed' /\ audit \subseteq audit'
<1>1. CASE PruneArchive(p)
  BY <1>1 DEF PruneArchive
<1>2. CASE ~ PruneArchive(p)
  BY <1>2 DEF Moves, Begin, Continue, Capture, RememberStart, ScoreRead, AcceptRead,
     PromoteRead, PruneStart, ScoreJudge, ScoreWrite, AcceptJudge, AcceptWrite, AcceptUnlink,
     RememberInbox, RememberScore, RememberCanon, RememberUnlink, RememberAudit, PromoteJudge,
     PromoteWrite, PruneUnlink, Stop, Lapse, history
<1>3. QED
  BY <1>1, <1>2

(* A candidate of a remember that accepts is lost to an accept only.        *)
LEMMA MovesStayQueued ==
  ASSUME TypeOK, Apart, NEW p \in Procs, Moves(p), \A q \in Procs : Owes(q) /\ Queued(q)
  PROVE  \A q \in Procs : Queued(q)'
<1>1. ASSUME NEW q \in Procs \ {p}, pc[q] \in {"rememberCanon", "rememberUnlink"}
      PROVE  inbox'[rec[q].id] # NoFile \/ rec[q].id \in lapsed'
  <2>1. PICK i \in Ids : i = rec[q].id
    BY <1>1, HeldRecords DEF AcceptedSteps
  <2>2. Accepting(q, i)
    BY <1>1, <2>1 DEF Owes, Accepting
  <2>3. CASE i \in lapsed
    BY <2>1, <2>3, NothingForgotten
  <2>4. CASE inbox[i] # NoFile /\ inbox'[i] = NoFile /\ AcceptUnlink(p)
    <3>1. rec[p].id = i
      BY <2>4, CandidatesLeave
    <3>2. QED
      BY <2>1, <2>2, <2>4, <3>1 DEF AcceptUnlink
  <2>5. ~ (inbox[i] # NoFile /\ inbox'[i] = NoFile /\ RememberUnlink(p))
    <3>1. SUFFICES ASSUME inbox[i] # NoFile, inbox'[i] = NoFile, RememberUnlink(p)
                   PROVE  FALSE
      OBVIOUS
    <3>2. rec[p].id = i /\ pc[p] = "rememberUnlink"
      BY <3>1, CandidatesLeave DEF RememberUnlink
    <3>3. QED
      BY <1>1, <2>1, <3>2 DEF Apart, RememberSteps
  <2>6. QED
    BY <1>1, <2>1, <2>3, <2>4, <2>5, CandidatesLeave DEF Queued
<1>2. ASSUME NEW q \in Procs \ {p}
      PROVE  Queued(q)'
  <2>1. pc'[q] = pc[q] /\ rec'[q] = rec[q]
    BY OthersHoldStill DEF Moves
  <2>2. QED
    BY <1>1, <2>1 DEF Queued
<1>3. Queued(p)'
  <2>1. PICK x : x = rec[p]
    OBVIOUS
  <2>2. CASE RememberScore(p)
    <3>1. x \in CapturedRecord /\ x \in Record /\ x.id \in Ids /\ x # NoFile
      BY <2>1, <2>2, RecordsAreFiles
         DEF RememberScore, TypeOK, HoldsOK, CapturedSteps, CapturedRecord, Record
    <3>2. inbox'[x.id] = x /\ (rec'[p] = x \/ rec'[p] = Accepted(x, "policy"))
      BY <2>1, <2>2, <3>1 DEF RememberScore, Hold, TypeOK
    <3>3. rec'[p].id = x.id
      BY <3>1, <3>2 DEF Accepted, Record
    <3>4. QED
      BY <3>1, <3>2, <3>3 DEF Queued
  <2>3. CASE RememberCanon(p)
    BY <2>3 DEF RememberCanon, Queued, Goto, TypeOK, history
  <2>4. CASE ~ RememberScore(p) /\ ~ RememberCanon(p)
    <3>1. pc'[p] \in {"rememberCanon", "rememberUnlink"} => FALSE
      <4>1. CASE Begin(p)
        <5>1. pc[p] = "idle" /\ \/ pc' = pc
                                \/ \E to \in {"scoreJudge", "acceptJudge", "promoteJudge",
                                     "pruneArchive", "rememberInbox", "rememberAudit"} : Goto(p, to)
          BY <4>1 DEF Begin, Capture, RememberStart, ScoreRead, AcceptRead, PromoteRead,
             PruneStart
        <5>2. QED
          BY <5>1 DEF Goto, TypeOK
      <4>2. CASE PruneArchive(p)
        BY <4>2 DEF PruneArchive, Goto, Done, TypeOK
      <4>3. CASE (Continue(p) \/ Stop(p)) /\ ~ PruneArchive(p)
        BY <2>4, <4>3 DEF Continue, ScoreJudge, ScoreWrite, AcceptJudge, AcceptWrite,
           AcceptUnlink, RememberInbox, RememberUnlink, RememberAudit, PromoteJudge,
           PromoteWrite, PruneUnlink, Stop, Goto, Done, TypeOK
      <4>4. QED
        BY <4>1, <4>2, <4>3 DEF Moves
    <3>2. QED
      BY <3>1 DEF Queued
  <2>5. QED
    BY <2>2, <2>3, <2>4
<1>4. QED
  BY <1>2, <1>3

Accounted(i) ==
  Event(i) \in audit \/ (\E p \in Procs : Accepting(p, i)) \/ i \in lapsed

(* What was accounted for stays so: a remember that is done has appended    *)
(* its event, and one that is stopped has lapsed.                           *)
LEMMA StaysAccounted ==
  ASSUME TypeOK, Owed, NEW p \in Procs, Moves(p), NEW i \in Ids, Accounted(i)
  PROVE  Accounted(i)'
<1>1. CASE Event(i) \in audit \/ i \in lapsed
  BY <1>1, NothingForgotten DEF Accounted, Event
<1>2. ASSUME NEW q \in Procs \ {p}, Accepting(q, i)
      PROVE  Accounted(i)'
  <2>1. pc'[q] = pc[q] /\ rec'[q] = rec[q]
    BY OthersHoldStill DEF Moves
  <2>2. QED
    BY <1>2, <2>1 DEF Accepting, Accounted
<1>3. CASE Accepting(p, i)
  <2>1. /\ pc[p] \in {"rememberCanon", "rememberUnlink", "rememberAudit"}
        /\ rec[p].mode = "policy" /\ rec[p].id = i
    BY <1>3 DEF Accepting
  <2>2. CASE RememberCanon(p)
    BY <2>1, <2>2 DEF RememberCanon, Goto, Accepting, Accounted, TypeOK
  <2>3. CASE RememberUnlink(p)
    <3>1. CASE inbox[i] # NoFile
      BY <2>1, <2>3, <3>1 DEF RememberUnlink, Goto, Accepting, Accounted, TypeOK
    <3>2. CASE inbox[i] = NoFile
      <4>1. i \in lapsed
        BY <2>1, <2>3, <3>2 DEF RememberUnlink, Owed, Queued
      <4>2. QED
        BY <4>1, NothingForgotten DEF Accounted
    <3>3. QED
      BY <3>1, <3>2
  <2>4. CASE RememberAudit(p)
    <3>1. outcome[p] = "auto_accepted"
      BY <2>1, <2>4 DEF RememberAudit, Owed, Owes
    <3>2. Event(i) \in audit'
      BY <2>1, <2>4, <3>1 DEF RememberAudit, Event
    <3>3. QED
      BY <3>2 DEF Accounted, Event
  <2>5. CASE Stop(p)
    BY <1>3, <2>5 DEF Stop, Lapse, Accounted
  <2>6. QED
    <3>1. ~ Begin(p) /\ ~ PruneArchive(p)
      <4>1. ~ PruneArchive(p)
        BY <2>1 DEF PruneArchive
      <4>2. ~ Begin(p)
        <5>1. pc[p] # "idle"
          BY <2>1
        <5>2. QED
          BY <5>1 DEF Begin, Capture, RememberStart, ScoreRead, AcceptRead, PromoteRead,
             PruneStart
      <4>3. QED
        BY <4>1, <4>2
    <3>2. RememberCanon(p) \/ RememberUnlink(p) \/ RememberAudit(p) \/ Stop(p)
      BY <2>1, <3>1 DEF Moves, Continue, ScoreJudge, ScoreWrite, AcceptJudge, AcceptWrite,
         AcceptUnlink, RememberInbox, RememberScore, PromoteJudge, PromoteWrite, PruneUnlink
    <3>3. QED
      BY <2>2, <2>3, <2>4, <2>5, <3>2
<1>4. QED
  BY <1>1, <1>2, <1>3 DEF Accounted

(* A record a policy accepted is the copy of an earlier one, or that of a   *)
(* remember that still owes its event.                                      *)
LEMMA PolicyRecordsAppear ==
  ASSUME TypeOK, Owed, NEW p \in Procs, Moves(p),
         NEW r \in (File(canon) \cup File(archive))', r.mode = "policy"
  PROVE  \/ \E s \in File(canon) \cup File(archive) : s.id = r.id /\ s.mode = "policy"
         \/ Accepting(p, r.id)'
<1>1. CASE AcceptWrite(p) \/ PromoteWrite(p) \/ RememberCanon(p)
  <2>1. PICK x : x = rec[p]
    OBVIOUS
  <2>2. canon' = [canon EXCEPT ![x.id] = x] /\ UNCHANGED archive
    BY <1>1, <2>1 DEF AcceptWrite, PromoteWrite, RememberCanon
  <2>3. r = x \/ r \in File(canon) \cup File(archive)
    BY <2>2 DEF File, TypeOK
  <2>4. CASE r = x
    <3>1. RememberCanon(p)
      BY <1>1, <2>1, <2>4 DEF AcceptWrite, PromoteWrite, Owed, Owes
    <3>2. QED
      BY <2>1, <2>4, <3>1 DEF RememberCanon, Goto, Accepting, TypeOK
  <2>5. QED
    BY <2>3, <2>4
<1>2. CASE PruneArchive(p)
  <2>1. PICK a \in plan[p] : PruneArchive(p)!(a)
    BY <1>2 DEF PruneArchive
  <2>2. PICK i, t : i = a.id /\ t = IF rec[p] = NoFile THEN now ELSE rec[p].at
    OBVIOUS
  <2>3. i \in Ids
    BY <2>2 DEF TypeOK, AcceptedRecord, Record
  <2>4. CASE canon[i] # NoFile
    <3>1. PICK c : c = canon[i]
      OBVIOUS
    <3>2. c \in Record /\ c \in File(canon)
      BY <2>3, <2>4, <3>1 DEF TypeOK, File, AcceptedRecord
    <3>3. PICK x : x = [c EXCEPT !.status = "archived", !.at = t]
      OBVIOUS
    <3>4. x.id = c.id /\ x.mode = c.mode
      BY <3>2, <3>3 DEF Record
    <3>5. UNCHANGED canon /\ archive' = [archive EXCEPT ![i] = x]
      BY <2>1, <2>2, <2>4, <3>1, <3>3 DEF Hold, TypeOK
    <3>6. r = x \/ r \in File(canon) \cup File(archive)
      BY <3>5 DEF File, TypeOK
    <3>7. QED
      BY <3>2, <3>4, <3>6
  <2>5. CASE canon[i] = NoFile
    <3>1. UNCHANGED <<canon, archive>>
      BY <2>1, <2>2, <2>5
    <3>2. QED
      BY <3>1 DEF File
  <2>6. QED
    BY <2>4, <2>5
<1>3. CASE PruneUnlink(p)
  <2>1. canon' = [canon EXCEPT ![rec[p].id] = NoFile] /\ UNCHANGED archive
    BY <1>3 DEF PruneUnlink
  <2>2. QED
    BY <2>1 DEF File, TypeOK
<1>4. CASE UNCHANGED <<canon, archive>>
  BY <1>4 DEF File
<1>5. QED
  BY <1>1, <1>2, <1>3, <1>4 DEF Moves, Begin, Continue, Capture, RememberStart, ScoreRead,
     AcceptRead, PromoteRead, PruneStart, ScoreJudge, ScoreWrite, AcceptJudge, AcceptUnlink,
     RememberInbox, RememberScore, RememberUnlink, RememberAudit, PromoteJudge, Stop, files

(* However commands overlap, fail and are killed, every memory in canon or  *)
(* in the archive that a policy accepted has its event in the audit log, or *)
(* its remember is still to append it, unless that was stopped or lost its  *)
(* candidate to an accept (lapsed).                                         *)
THEOREM EventsAreAccounted == Spec => []AuditComplete
<1>1. Init => Owed
  BY DEF Init, Owed, AuditComplete, Apart, Owes, Queued, File, RememberSteps
<1>2. TypeOK /\ Owed /\ [Next]_vars => Owed'
  <2>. SUFFICES ASSUME TypeOK, Owed, [Next]_vars
                PROVE  Owed'
    OBVIOUS
  <2>1. ASSUME NEW p \in Procs, Moves(p)
        PROVE  Owed'
    <3>1. ASSUME NEW r \in (File(canon) \cup File(archive))', r.mode = "policy"
          PROVE  Accounted(r.id)'
      <4>1. CASE Accepting(p, r.id)'
        BY <4>1 DEF Accounted
      <4>2. ASSUME NEW s \in File(canon) \cup File(archive), s.id = r.id, s.mode = "policy"
            PROVE  Accounted(r.id)'
        <5>1. PICK i \in Ids : i = s.id
          BY DEF File, TypeOK, AcceptedRecord, ArchivedRecord, Record
        <5>2. Accounted(i)
          BY <4>2, <5>1 DEF Owed, AuditComplete, Accounted
        <5>3. Accounted(i)'
          BY <2>1, <5>2, StaysAccounted
        <5>4. QED
          BY <4>2, <5>1, <5>3
      <4>3. QED
        BY <2>1, <3>1, <4>1, <4>2, PolicyRecordsAppear
    <3>2. AuditComplete'
      BY <3>1 DEF AuditComplete, Accounted
    <3>3. Apart'
      BY <2>1, MovesStayApart DEF Owed
    <3>4. \A q \in Procs : Queued(q)'
      BY <2>1, MovesStayQueued DEF Owed
    <3>5. Owes(p)'
      BY <2>1, OwesItsOwn DEF Owed
    <3>6. ASSUME NEW q \in Procs \ {p}
          PROVE  Owes(q)'
      <4>1. pc'[q] = pc[q] /\ rec'[q] = rec[q] /\ outcome'[q] = outcome[q]
        BY <2>1, OthersHoldStill DEF Moves
      <4>2. QED
        BY <4>1 DEF Owed, Owes
    <3>7. QED
      BY <3>2, <3>3, <3>4, <3>5, <3>6 DEF Owed
  <2>2. CASE Tick \/ UNCHANGED vars
    <3>1. UNCHANGED <<inbox, canon, archive, audit, pc, rec, outcome, lapsed>>
      BY <2>2 DEF Tick, vars, files, history
    <3>2. UNCHANGED <<File(canon), File(archive)>>
      BY <3>1 DEF File
    <3>3. AuditComplete'
      BY <3>1, <3>2 DEF Owed, AuditComplete, Accepting, Event
    <3>4. QED
      BY <3>1, <3>3 DEF Owed, Apart, Owes, Queued
  <2>3. QED
    BY <2>1, <2>2 DEF Next, Moves
<1>3. Owed => AuditComplete
  BY DEF Owed
<1>4. QED
  BY TypeCorrect, <1>1, <1>2, <1>3, PTL DEF Spec

(* Between two commands of a process that runs alone and meets no failure,  *)
(* every memory in canon that a policy accepted has its event: nothing      *)
(* lapses.                                                                  *)
THEOREM OneProcessAccounts ==
  ASSUME OneProcess, ~Stops
  PROVE  Spec => []AlwaysAudited
<1>1. Init => lapsed = {}
  BY DEF Init
<1>2. lapsed = {} /\ [Next]_vars => (lapsed = {})'
  <2>. SUFFICES ASSUME lapsed = {}, [Next]_vars
                PROVE  lapsed' = {}
    OBVIOUS
  <2>1. ASSUME NEW p \in Procs, AcceptUnlink(p)
        PROVE  lapsed' = {}
    <3>1. \A q \in Procs : \A i : ~ Accepting(q, i)
      BY <2>1 DEF OneProcess, AcceptUnlink, Accepting
    <3>2. QED
      BY <2>1, <3>1 DEF AcceptUnlink
  <2>2. ASSUME NEW p \in Procs, Moves(p), ~ AcceptUnlink(p)
        PROVE  lapsed' = lapsed
    <3>1. CASE PruneArchive(p)
      BY <3>1 DEF PruneArchive
    <3>2. CASE ~ PruneArchive(p)
      BY <2>2, <3>2 DEF Moves, Begin, Continue, Capture, RememberStart, ScoreRead, AcceptRead,
         PromoteRead, PruneStart, ScoreJudge, ScoreWrite, AcceptJudge, AcceptWrite,
         RememberInbox, RememberScore, RememberCanon, RememberUnlink, RememberAudit,
         PromoteJudge, PromoteWrite, PruneUnlink, Stop, history
    <3>3. QED
      BY <3>1, <3>2
  <2>3. CASE Tick \/ UNCHANGED vars
    BY <2>3 DEF Tick, vars, history
  <2>4. QED
    BY <2>1, <2>2, <2>3 DEF Next, Moves
<1>3. AuditComplete /\ lapsed = {} => AlwaysAudited
  BY DEF AuditComplete, AlwaysAudited, Accepting
<1>4. QED
  BY EventsAreAccounted, <1>1, <1>2, <1>3, PTL DEF Spec
=============================================================================
